------------------------------ MODULE RedisBus ------------------------------
(***************************************************************************)
(* One consumer of the Redis Streams event bus                             *)
(* (adapters/eventbus/redis_streams.py) together with the partitioned      *)
(* dispatcher it submits to (shared/partitioning.py).  A consumer is one   *)
(* consumer group; groups share only the stream, and another group's       *)
(* effect on it (a redrive appends the event again) is PublishDuplicate.   *)
(*                                                                         *)
(* Several processes (Nodes) may run the group.  Every Redis command is    *)
(* one atomic step; between two commands anything may interleave.  What    *)
(* lives in Redis survives a crash, what lives in a process does not.      *)
(***************************************************************************)
EXTENDS Naturals, Sequences, FiniteSets

CONSTANTS Events,        \* event ids (DomainEvent.event_id)
          Streams,       \* event types: one stream per type
          Keys,          \* routing keys (partition_key, or the event id)
          StreamOf,      \* [Events -> Streams]
          KeyOf,         \* [Events -> Keys]
          StreamRank,    \* [Streams -> Nat]: order of the streams in XREADGROUP
          Nodes,         \* processes running this consumer
          Workers,       \* workers of a dispatcher (consumer_concurrency)
          WorkerOf,      \* [Keys -> Workers]: crc32(key) % workers
          Admins,        \* concurrent redrive calls
          Failing,       \* events whose handler may raise
          MaxAttempts,   \* max_attempts of the consumer
          QueueSize,     \* queue_maxsize of a worker
          ReadCount      \* COUNT of XREADGROUP (32)

\* Bounds of the model: messages ever appended and faults ever injected, of
\* each kind and (MaxFaults) in all.
\* MaxSlow counts entries reclaimed while a process still works on them;
\* MaxSlow = 0 says no delivery outlives retry_min_idle_ms.
CONSTANTS MaxMsgs, MaxCrashes, MaxErrors, MaxExpiries, MaxDuplicates, MaxStops,
          MaxSlow, MaxAbandons, MaxFaults

ASSUME ConstantsAssumption ==
    /\ StreamOf \in [Events -> Streams]
    /\ KeyOf \in [Events -> Keys]
    /\ WorkerOf \in [Keys -> Workers]
    /\ StreamRank \in [Streams -> Nat]
    /\ Failing \subseteq Events
    /\ MaxAttempts \in Nat \ {0}
    /\ QueueSize \in Nat \ {0}
    /\ ReadCount \in Nat \ {0}
    /\ MaxMsgs \in Nat
    /\ MaxCrashes \in Nat
    /\ MaxErrors \in Nat
    /\ MaxExpiries \in Nat
    /\ MaxDuplicates \in Nat
    /\ MaxStops \in Nat
    /\ MaxSlow \in Nat
    /\ MaxAbandons \in Nat
    /\ MaxFaults \in Nat

VARIABLES
    stream,   \* every message ever appended, oldest first; an id is a position
    count,    \* [Ids -> Nat]: deliveries of a message to the group (0: never)
    pel,      \* ids delivered and not acknowledged (pending entries list)
    dedup,    \* events whose dedup key exists
    dlq,      \* events ever appended to the dead-letter stream
    removed,  \* positions of dlq deleted by XDEL
    node,     \* [Nodes -> "up" | "stopping" | "down"]
    phase,    \* [Nodes -> "read" | "reclaim" | "ended"]: _consume_loop
    batch,    \* [Nodes -> deliveries read and not yet submitted]
    scan,     \* [Nodes -> streams _reclaim_pending has not listed yet]
    todo,     \* [Nodes -> snapshot of XPENDING not yet claimed]
    queue,    \* [Nodes \X Workers -> FIFO of deliveries]
    work,     \* [Nodes \X Workers -> the delivery being processed]
    admin,    \* [Admins -> the redrive in progress]
    faults,   \* faults injected so far, by kind
    done,     \* history: events whose handler returned
    tries     \* history: handler failures of an event since its last redrive

redisVars == <<stream, count, pel, dedup, dlq, removed>>
readerVars == <<phase, batch, scan, todo>>
dispatchVars == <<queue, work>>
ghostVars == <<done, tries>>
vars == <<redisVars, node, readerVars, dispatchVars, admin, faults, ghostVars>>

-----------------------------------------------------------------------------
Ids == 1..MaxMsgs
Places == Nodes \X Workers
Delivery == [msg : Ids, dc : Nat \ {0}]
Stages == {"idle", "dedup", "run", "release", "dlq", "ack"}
NoWork == [stage |-> "idle", msg |-> 0, dc |-> 0]
NoOp == [step |-> "none", entry |-> 0]
FaultKinds == {"crash", "error", "expiry", "duplicate", "stop", "slow", "abandon"}

EventOf(m) == stream[m]
Published(e) == \E m \in 1..Len(stream) : stream[m] = e
\* Variant: a hash that is not stable routes two messages of a key apart.
WorkerUnstable(m) ==
    CHOOSE w \in Workers : (w = WorkerOf[KeyOf[EventOf(m)]]) <=> (m % 2 = 1)

Worker(m) == WorkerOf[KeyOf[EventOf(m)]]
InDlq(e) == \E i \in 1..Len(dlq) : i \notin removed /\ dlq[i] = e

QueuedMsgs(p) == {queue[p][i].msg : i \in 1..Len(queue[p])}

\* The message is somewhere in the memory of a process.
InHands(m) ==
    \/ \E n \in Nodes : \E d \in batch[n] : d.msg = m
    \/ \E p \in Places : m \in QueuedMsgs(p)
    \/ \E p \in Places : work[p].stage # "idle" /\ work[p].msg = m

\* Has the pending entry been idle for retry_min_idle_ms?  An entry nobody is
\* working on may always be; one in hand only if the handlers may be slow.
IdleEnough(m) == InHands(m) => faults["slow"] < MaxSlow

\* Faults, stops and abandoned redrives in all.
Injected ==
    faults["crash"] + faults["error"] + faults["expiry"] + faults["duplicate"]
    + faults["stop"] + faults["slow"] + faults["abandon"]

Spend(kind, bound) ==
    /\ faults[kind] < bound
    /\ Injected < MaxFaults
    /\ faults' = [faults EXCEPT ![kind] = @ + 1]

Init ==
    /\ stream = <<>>
    /\ count = [m \in Ids |-> 0]
    /\ pel = {}
    /\ dedup = {}
    /\ dlq = <<>>
    /\ removed = {}
    /\ node = [n \in Nodes |-> "up"]
    /\ phase = [n \in Nodes |-> "read"]
    /\ batch = [n \in Nodes |-> {}]
    /\ scan = [n \in Nodes |-> {}]
    /\ todo = [n \in Nodes |-> {}]
    /\ queue = [p \in Places |-> <<>>]
    /\ work = [p \in Places |-> NoWork]
    /\ admin = [a \in Admins |-> NoOp]
    /\ faults = [k \in FaultKinds |-> 0]
    /\ done = {}
    /\ tries = [e \in Events |-> 0]

-----------------------------------------------------------------------------
(* publish() and its retry.                                                *)

Append1(e) ==
    /\ Len(stream) < MaxMsgs
    /\ stream' = Append(stream, e)

\* publish(): the XADD of a new event.
Publish(e) ==
    /\ ~Published(e)
    /\ Append1(e)
    /\ UNCHANGED <<count, pel, dedup, dlq, removed, node, readerVars,
                   dispatchVars, admin, faults, ghostVars>>

\* The XADD is repeated: its reply was lost and publish() retried, or a
\* redrive of another consumer appended the event to the shared stream.
PublishDuplicate(e) ==
    /\ Published(e)
    /\ Spend("duplicate", MaxDuplicates)
    /\ Append1(e)
    /\ UNCHANGED <<count, pel, dedup, dlq, removed, node, readerVars,
                   dispatchVars, admin, ghostVars>>

-----------------------------------------------------------------------------
(* _consume_loop: read, submit what was read, reclaim, submit, repeat.     *)

Alive(n) == node[n] \in {"up", "stopping"}

Undelivered(s) ==
    {m \in 1..Len(stream) : count[m] = 0 /\ StreamOf[EventOf(m)] = s}

\* What XREADGROUP ">" returns: the oldest ReadCount messages of each stream
\* the group has not been given yet.
NewMessages ==
    UNION {{m \in Undelivered(s) :
              Cardinality({k \in Undelivered(s) : k < m}) < ReadCount}
           : s \in Streams}

ReadGroup(n) ==
    /\ Alive(n)
    /\ phase[n] = "read"
    /\ batch[n] = {}
    /\ batch' = [batch EXCEPT ![n] = {[msg |-> m, dc |-> 1] : m \in NewMessages}]
    /\ count' = [m \in Ids |-> IF m \in NewMessages THEN 1 ELSE count[m]]
    /\ pel' = pel \cup NewMessages
    /\ phase' = [phase EXCEPT ![n] = "reclaim"]
    /\ scan' = [scan EXCEPT ![n] = Streams]
    /\ UNCHANGED <<stream, dedup, dlq, removed, node, todo, dispatchVars,
                   admin, faults, ghostVars>>

\* Order in which the loop walks the reply: stream by stream, then by id.
Precedes(m1, m2) ==
    LET r1 == StreamRank[StreamOf[EventOf(m1)]]
        r2 == StreamRank[StreamOf[EventOf(m2)]]
    IN  r1 < r2 \/ (r1 = r2 /\ m1 <= m2)

\* _submit -> PartitionedDispatcher.submit: waits while the queue is full.
Submit(n) ==
    \E d \in batch[n] :
      LET p == <<n, Worker(d.msg)>> IN
      /\ \A d2 \in batch[n] : Precedes(d.msg, d2.msg)
      /\ Len(queue[p]) < QueueSize
      /\ queue' = [queue EXCEPT ![p] = Append(@, d)]
      /\ batch' = [batch EXCEPT ![n] = @ \ {d}]
      /\ UNCHANGED <<redisVars, node, phase, scan, todo, work, admin, faults, ghostVars>>

\* The next stream of _reclaim_pending: the loop walks them in order, and
\* reaches one only when what it listed and claimed before is submitted.
NextStream(n, s) ==
    /\ Alive(n)
    /\ phase[n] = "reclaim"
    /\ batch[n] = {}
    /\ todo[n] = {}
    /\ s \in scan[n]
    /\ \A s2 \in scan[n] : StreamRank[s] <= StreamRank[s2]

\* Variant: the reclaim is skipped.
ListNothing(n) ==
    \E s \in Streams :
      /\ NextStream(n, s)
      /\ scan' = [scan EXCEPT ![n] = {}]
      /\ UNCHANGED <<redisVars, node, phase, batch, todo, dispatchVars, admin, faults,
                     ghostVars>>

\* XPENDING with IDLE of one stream: a snapshot with times_delivered.
ListPending(n) ==
    \E s \in Streams :
      /\ NextStream(n, s)
      /\ scan' = [scan EXCEPT ![n] = @ \ {s}]
      /\ todo' = [todo EXCEPT ![n] =
                    {[msg |-> m, dc |-> count[m]] :
                       m \in {k \in pel : StreamOf[EventOf(k)] = s /\ IdleEnough(k)}}]
      /\ UNCHANGED <<redisVars, node, phase, batch, dispatchVars, admin, faults, ghostVars>>

\* Variant: XCLAIM with JUSTID, which does not count the delivery.
XClaimJustId(n) ==
    /\ Alive(n)
    /\ batch[n] = {}
    /\ \E t \in todo[n] :
         /\ todo' = [todo EXCEPT ![n] = @ \ {t}]
         /\ t.msg \in pel /\ IdleEnough(t.msg)
         /\ batch' = [batch EXCEPT ![n] = {[msg |-> t.msg, dc |-> t.dc + 1]}]
    /\ UNCHANGED <<redisVars, node, phase, scan, dispatchVars, admin, faults, ghostVars>>

\* XCLAIM of the next listed entry: succeeds if it is still pending and still
\* idle; the delivery is then numbered from the snapshot, not from the counter.
XClaim(n) ==
    /\ Alive(n)
    /\ batch[n] = {}
    /\ \E t \in todo[n] :
         /\ \A t2 \in todo[n] : Precedes(t.msg, t2.msg)
         /\ todo' = [todo EXCEPT ![n] = @ \ {t}]
         /\ IF t.msg \in pel /\ IdleEnough(t.msg)
            THEN /\ count' = [count EXCEPT ![t.msg] = @ + 1]
                 /\ batch' = [batch EXCEPT ![n] = {[msg |-> t.msg, dc |-> t.dc + 1]}]
                 /\ IF InHands(t.msg) THEN Spend("slow", MaxSlow) ELSE UNCHANGED faults
            ELSE UNCHANGED <<count, batch, faults>>
    /\ UNCHANGED <<stream, pel, dedup, dlq, removed, node, phase, scan, dispatchVars,
                   admin, ghostVars>>

\* The cycle is over (or its backoff is): the loop reads again unless stopping.
EndCycle(n) ==
    /\ Alive(n)
    /\ phase[n] = "reclaim"
    /\ batch[n] = {}
    /\ scan[n] = {}
    /\ todo[n] = {}
    /\ phase' = [phase EXCEPT ![n] = IF node[n] = "up" THEN "read" ELSE "ended"]
    /\ UNCHANGED <<redisVars, node, batch, scan, todo, dispatchVars, admin, faults, ghostVars>>

\* An exception in the loop (lost connection, envelope that does not parse):
\* what was read and not submitted is forgotten, the loop backs off.
LoopError(n) ==
    /\ Alive(n)
    /\ batch[n] # {} \/ todo[n] # {} \/ scan[n] # {}
    /\ Spend("error", MaxErrors)
    /\ batch' = [batch EXCEPT ![n] = {}]
    /\ scan' = [scan EXCEPT ![n] = {}]
    /\ todo' = [todo EXCEPT ![n] = {}]
    /\ phase' = [phase EXCEPT ![n] = "reclaim"]
    /\ UNCHANGED <<redisVars, node, dispatchVars, admin, ghostVars>>

-----------------------------------------------------------------------------
(* _process, one Redis command at a time.                                  *)

At(p, stage) == work[p].stage = stage

\* The worker takes the head of its queue and enters _process.
Take(p) ==
    /\ At(p, "idle")
    /\ queue[p] # <<>>
    /\ work' = [work EXCEPT ![p] = [stage |-> "dedup", msg |-> Head(queue[p]).msg,
                                    dc |-> Head(queue[p]).dc]]
    /\ queue' = [queue EXCEPT ![p] = Tail(@)]
    /\ UNCHANGED <<redisVars, node, readerVars, admin, faults, ghostVars>>

\* Variant: SET without NX.
SetDedupAlways(p) ==
    /\ At(p, "dedup")
    /\ dedup' = dedup \cup {EventOf(work[p].msg)}
    /\ work' = [work EXCEPT ![p].stage = "run"]
    /\ UNCHANGED <<stream, count, pel, dlq, removed, node, readerVars, queue,
                   admin, faults, ghostVars>>

\* SET NX of the dedup key: a key that exists sends the message to XACK.
SetDedup(p) ==
    LET e == EventOf(work[p].msg) IN
    /\ At(p, "dedup")
    /\ dedup' = dedup \cup {e}
    /\ work' = [work EXCEPT ![p].stage = IF e \in dedup THEN "ack" ELSE "run"]
    /\ UNCHANGED <<stream, count, pel, dlq, removed, node, readerVars, queue,
                   admin, faults, ghostVars>>

HandlerReturns(p) ==
    /\ At(p, "run")
    /\ done' = done \cup {EventOf(work[p].msg)}
    /\ work' = [work EXCEPT ![p].stage = "ack"]
    /\ UNCHANGED <<redisVars, node, readerVars, queue, admin, faults, tries>>

\* Variant: the exception path forgets to delete the dedup key.
HandlerRaisesKeepingKey(p) ==
    LET e == EventOf(work[p].msg) IN
    /\ At(p, "run")
    /\ e \in Failing
    /\ tries' = [tries EXCEPT ![e] = @ + 1]
    /\ work' = [work EXCEPT ![p] = NoWork]
    /\ UNCHANGED <<redisVars, node, readerVars, queue, admin, faults, done>>

HandlerRaises(p) ==
    LET e == EventOf(work[p].msg) IN
    /\ At(p, "run")
    /\ e \in Failing
    /\ tries' = [tries EXCEPT ![e] = @ + 1]
    /\ work' = [work EXCEPT ![p].stage = "release"]
    /\ UNCHANGED <<redisVars, node, readerVars, queue, admin, faults, done>>

\* Variant: one attempt too few.
ReleaseEarly(p) ==
    /\ At(p, "release")
    /\ dedup' = dedup \ {EventOf(work[p].msg)}
    /\ work' = [work EXCEPT ![p] =
                  IF @.dc + 1 >= MaxAttempts THEN [@ EXCEPT !.stage = "dlq"] ELSE NoWork]
    /\ UNCHANGED <<stream, count, pel, dlq, removed, node, readerVars, queue,
                   admin, faults, ghostVars>>

\* Variant: the key is deleted only when a retry follows.
ReleaseForRetryOnly(p) ==
    LET last == work[p].dc >= MaxAttempts IN
    /\ At(p, "release")
    /\ dedup' = IF last THEN dedup ELSE dedup \ {EventOf(work[p].msg)}
    /\ work' = [work EXCEPT ![p] = IF last THEN [@ EXCEPT !.stage = "dlq"] ELSE NoWork]
    /\ UNCHANGED <<stream, count, pel, dlq, removed, node, readerVars, queue,
                   admin, faults, ghostVars>>

\* DEL of the dedup key; then the DLQ, or leave the entry pending for a retry.
Release(p) ==
    /\ At(p, "release")
    /\ dedup' = dedup \ {EventOf(work[p].msg)}
    /\ work' = [work EXCEPT ![p] =
                  IF @.dc >= MaxAttempts THEN [@ EXCEPT !.stage = "dlq"] ELSE NoWork]
    /\ UNCHANGED <<stream, count, pel, dlq, removed, node, readerVars, queue,
                   admin, faults, ghostVars>>

\* _to_dlq: XADD to the dead-letter stream, then (Ack) XACK.
ToDlq(p) ==
    /\ At(p, "dlq")
    /\ dlq' = Append(dlq, EventOf(work[p].msg))
    /\ work' = [work EXCEPT ![p].stage = "ack"]
    /\ UNCHANGED <<stream, count, pel, dedup, removed, node, readerVars, queue,
                   admin, faults, ghostVars>>

Ack(p) ==
    /\ At(p, "ack")
    /\ pel' = pel \ {work[p].msg}
    /\ work' = [work EXCEPT ![p] = NoWork]
    /\ UNCHANGED <<stream, count, dedup, dlq, removed, node, readerVars, queue,
                   admin, faults, ghostVars>>

\* A Redis command of _process raises and the dispatcher drops the item: the
\* command was not executed, or it was and only its reply was lost.
CommandError(p) ==
    /\ work[p].stage \in {"dedup", "release", "dlq", "ack"}
    /\ Spend("error", MaxErrors)
    /\ work' = [work EXCEPT ![p] = NoWork]
    /\ \/ UNCHANGED <<dedup, dlq>>
       \/ /\ At(p, "dedup")
          /\ dedup' = dedup \cup {EventOf(work[p].msg)}
          /\ UNCHANGED dlq
       \/ /\ At(p, "dlq")
          /\ dlq' = Append(dlq, EventOf(work[p].msg))
          /\ UNCHANGED dedup
    /\ UNCHANGED <<stream, count, pel, removed, node, readerVars, queue,
                   admin, ghostVars>>

-----------------------------------------------------------------------------
(* redrive(): find the first entry of the event, DEL dedup, publish, XDEL. *)

FirstEntry(i) ==
    /\ i \notin removed
    /\ \A j \in 1..(i - 1) : j \in removed \/ dlq[j] # dlq[i]

RedriveFind(a) ==
    /\ admin[a].step = "none"
    /\ \E i \in 1..Len(dlq) :
         /\ FirstEntry(i)
         /\ admin' = [admin EXCEPT ![a] = [step |-> "dedup", entry |-> i]]
    /\ UNCHANGED <<redisVars, node, readerVars, dispatchVars, faults, ghostVars>>

RedriveDelDedup(a) ==
    /\ admin[a].step = "dedup"
    /\ dedup' = dedup \ {dlq[admin[a].entry]}
    /\ admin' = [admin EXCEPT ![a].step = "publish"]
    /\ UNCHANGED <<stream, count, pel, dlq, removed, node, readerVars,
                   dispatchVars, faults, ghostVars>>

RedrivePublish(a) ==
    LET e == dlq[admin[a].entry] IN
    /\ admin[a].step = "publish"
    /\ Append1(e)
    /\ tries' = [tries EXCEPT ![e] = 0]
    /\ admin' = [admin EXCEPT ![a].step = "xdel"]
    /\ UNCHANGED <<count, pel, dedup, dlq, removed, node, readerVars,
                   dispatchVars, faults, done>>

RedriveXdel(a) ==
    /\ admin[a].step = "xdel"
    /\ removed' = removed \cup {admin[a].entry}
    /\ admin' = [admin EXCEPT ![a] = NoOp]
    /\ UNCHANGED <<stream, count, pel, dedup, dlq, node, readerVars,
                   dispatchVars, faults, ghostVars>>

\* The redrive call dies, or a command of it raises, between two of its steps.
RedriveAbandoned(a) ==
    /\ admin[a].step # "none"
    /\ Spend("abandon", MaxAbandons)
    /\ admin' = [admin EXCEPT ![a] = NoOp]
    /\ UNCHANGED <<redisVars, node, readerVars, dispatchVars, ghostVars>>

-----------------------------------------------------------------------------
(* Life cycle: stop() lets the loop finish its cycle and drains the        *)
(* dispatcher; a crash forgets everything in memory; the key expires.      *)

Quiet(n) ==
    /\ phase[n] = "ended"
    /\ \A w \in Workers : queue[n, w] = <<>> /\ At(<<n, w>>, "idle")

Stop(n) ==
    /\ node[n] = "up"
    /\ Spend("stop", MaxStops)
    /\ node' = [node EXCEPT ![n] = "stopping"]
    /\ UNCHANGED <<redisVars, readerVars, dispatchVars, admin, ghostVars>>

\* Variant: the dispatcher is stopped without draining its queues.
StoppedWithoutDrain(n) ==
    /\ node[n] = "stopping"
    /\ phase[n] = "ended"
    /\ node' = [node EXCEPT ![n] = "down"]
    /\ queue' = [p \in Places |-> IF p[1] = n THEN <<>> ELSE queue[p]]
    /\ work' = [p \in Places |-> IF p[1] = n THEN NoWork ELSE work[p]]
    /\ UNCHANGED <<redisVars, readerVars, admin, faults, ghostVars>>

Stopped(n) ==
    /\ node[n] = "stopping"
    /\ Quiet(n)
    /\ node' = [node EXCEPT ![n] = "down"]
    /\ UNCHANGED <<redisVars, readerVars, dispatchVars, admin, faults, ghostVars>>

Start(n) ==
    /\ node[n] = "down"
    /\ node' = [node EXCEPT ![n] = "up"]
    /\ phase' = [phase EXCEPT ![n] = "read"]
    /\ UNCHANGED <<redisVars, batch, scan, todo, dispatchVars, admin, faults, ghostVars>>

Crash(n) ==
    /\ Alive(n)
    /\ Spend("crash", MaxCrashes)
    /\ node' = [node EXCEPT ![n] = "down"]
    /\ phase' = [phase EXCEPT ![n] = "ended"]
    /\ batch' = [batch EXCEPT ![n] = {}]
    /\ scan' = [scan EXCEPT ![n] = {}]
    /\ todo' = [todo EXCEPT ![n] = {}]
    /\ queue' = [p \in Places |-> IF p[1] = n THEN <<>> ELSE queue[p]]
    /\ work' = [p \in Places |-> IF p[1] = n THEN NoWork ELSE work[p]]
    /\ UNCHANGED <<redisVars, admin, ghostVars>>

\* The TTL of the dedup key (dedup_ttl_seconds) elapses.
DedupExpires(e) ==
    /\ e \in dedup
    /\ Spend("expiry", MaxExpiries)
    /\ dedup' = dedup \ {e}
    /\ UNCHANGED <<stream, count, pel, dlq, removed, node, readerVars,
                   dispatchVars, admin, ghostVars>>

-----------------------------------------------------------------------------
Loop(n) == ReadGroup(n) \/ Submit(n) \/ ListPending(n) \/ XClaim(n) \/ EndCycle(n)

Process(p) ==
    \/ Take(p) \/ SetDedup(p) \/ HandlerReturns(p) \/ HandlerRaises(p)
    \/ Release(p) \/ ToDlq(p) \/ Ack(p)

Redrive(a) ==
    \/ RedriveFind(a) \/ RedriveDelDedup(a) \/ RedrivePublish(a) \/ RedriveXdel(a)

Next ==
    \/ \E e \in Events : Publish(e) \/ PublishDuplicate(e) \/ DedupExpires(e)
    \/ \E n \in Nodes : Loop(n) \/ LoopError(n) \/ Stop(n) \/ Stopped(n)
                        \/ Start(n) \/ Crash(n)
    \/ \E p \in Places : Process(p) \/ CommandError(p)
    \/ \E a \in Admins : Redrive(a) \/ RedriveAbandoned(a)

Spec == Init /\ [][Next]_vars

\* The event loop runs every task that can run, a process that went down is
\* started again, and a handler returns or raises.
Fairness ==
    /\ \A n \in Nodes : WF_vars(Loop(n)) /\ WF_vars(Stopped(n)) /\ WF_vars(Start(n))
    /\ \A p \in Places : WF_vars(Process(p))

FairSpec == Spec /\ Fairness
-----------------------------------------------------------------------------
(* Properties.                                                             *)

TypeOK ==
    /\ stream \in Seq(Events)
    /\ Len(stream) <= MaxMsgs
    /\ count \in [Ids -> Nat]
    /\ pel \subseteq Ids
    /\ dedup \subseteq Events
    /\ dlq \in Seq(Events)
    /\ removed \subseteq Nat
    /\ node \in [Nodes -> {"up", "stopping", "down"}]
    /\ phase \in [Nodes -> {"read", "reclaim", "ended"}]
    /\ batch \in [Nodes -> SUBSET Delivery]
    /\ scan \in [Nodes -> SUBSET Streams]
    /\ todo \in [Nodes -> SUBSET Delivery]
    /\ queue \in [Places -> Seq(Delivery)]
    /\ work \in [Places -> {NoWork} \cup [stage : Stages \ {"idle"}, msg : Ids, dc : Nat \ {0}]]
    /\ admin \in [Admins -> {NoOp} \cup [step : {"dedup", "publish", "xdel"}, entry : Nat]]
    /\ faults \in [FaultKinds -> Nat]
    /\ done \subseteq Events
    /\ tries \in [Events -> Nat]

\* The attempt number a delivery carries never exceeds the one Redis keeps,
\* although it is computed from a snapshot read before the claim; and every
\* id or position held in a process refers to something appended before.
DeliveryCountSound ==
    /\ \A m \in Ids : count[m] > 0 => m <= Len(stream)
    /\ \A m \in pel : count[m] > 0
    /\ \A n \in Nodes : \A d \in batch[n] \cup todo[n] : d.dc <= count[d.msg]
    /\ \A p \in Places : \A i \in 1..Len(queue[p]) : queue[p][i].dc <= count[queue[p][i].msg]
    /\ \A p \in Places : work[p].stage # "idle" => work[p].dc <= count[work[p].msg]
    /\ \A a \in Admins : admin[a].step # "none" => admin[a].entry \in 1..Len(dlq)

\* A message the group has not finished with: not delivered yet, or pending.
Outstanding(m) == count[m] = 0 \/ m \in pel

Processing(p, e) == work[p].stage \in {"run", "release"} /\ EventOf(work[p].msg) = e

\* No process crashed, no command failed, and no entry was reclaimed while a
\* process still worked on it.
Unharmed == faults["crash"] = 0 /\ faults["error"] = 0 /\ faults["slow"] = 0

NothingLost ==
    \A m \in 1..Len(stream) :
        LET e == EventOf(m) IN
        \/ e \in done
        \/ InDlq(e)
        \/ \E k \in 1..Len(stream) : EventOf(k) = e /\ Outstanding(k)

\* At-least-once (the port's first promise): a published event has been
\* handled, or is in the DLQ, or still has a message that will be delivered.
NoEventLost == Unharmed => NothingLost

KeysOwned == \A e \in dedup : e \in done \/ \E p \in Places : Processing(p, e)

\* A dedup key never outlives an unsuccessful attempt: if it exists, the
\* handler has returned for the event or a worker is running it right now.
\* Otherwise the next delivery would be acknowledged without being handled.
DedupHasOwner == Unharmed => KeysOwned

\* No two processes, queues or workers hold the same message.
Holds(p, m) == work[p].stage # "idle" /\ work[p].msg = m

HeldOnce ==
    /\ \A n, k \in Nodes : \A d \in batch[n], x \in batch[k] :
         d.msg = x.msg => n = k /\ d = x
    /\ \A p, q \in Places : \A i \in 1..Len(queue[p]), j \in 1..Len(queue[q]) :
         queue[p][i].msg = queue[q][j].msg => p = q /\ i = j
    /\ \A p, q \in Places : \A m \in Ids : Holds(p, m) /\ Holds(q, m) => p = q
    /\ \A n \in Nodes : \A d \in batch[n] : \A p \in Places :
         ~Holds(p, d.msg) /\ \A i \in 1..Len(queue[p]) : queue[p][i].msg # d.msg
    /\ \A p, q \in Places : \A i \in 1..Len(queue[p]) : ~Holds(q, queue[p][i].msg)

\* What a process holds has not been acknowledged.
HeldPending ==
    /\ \A n \in Nodes : \A d \in batch[n] : d.msg \in pel
    /\ \A p \in Places : \A i \in 1..Len(queue[p]) : queue[p][i].msg \in pel
    /\ \A p \in Places : work[p].stage # "idle" => work[p].msg \in pel

\* A DLQ entry that is neither deleted nor about to be: its redrive, if any,
\* has not published the event again yet.
Dead(e) ==
    \E i \in 1..Len(dlq) :
        /\ dlq[i] = e
        /\ i \notin removed
        /\ \A a \in Admins : ~(admin[a].step = "xdel" /\ admin[a].entry = i)

\* An outstanding message that no worker is about to acknowledge.
Live(k) == Outstanding(k) /\ \A p \in Places : ~(At(p, "ack") /\ work[p].msg = k)

Kept(e) ==
    \/ e \in done
    \/ Dead(e)
    \/ \E k \in 1..Len(stream) : EventOf(k) = e /\ Live(k)

\* The inductive strengthening of NoEventLost.
SafeInv ==
    /\ HeldOnce
    /\ HeldPending
    /\ KeysOwned
    /\ removed \subseteq 1..Len(dlq)
    /\ \A m \in 1..Len(stream) : Kept(EventOf(m))

KeyDeleted ==
    \/ faults["expiry"] > 0 \/ faults["abandon"] > 0 \/ removed # {}
    \/ \E a \in Admins : admin[a].step \in {"publish", "xdel"}

\* As long as no dedup key expired or was deleted by a redrive, it admits one
\* handler per event, across workers and processes, and none once the handler
\* has returned.
HandlerExclusive ==
    ~KeyDeleted =>
        \A p, q \in Places : \A e \in Events :
            Processing(p, e) /\ Processing(q, e) => p = q /\ e \notin done

\* Order by partition key: as long as no event of the key failed, an event of
\* a stream is handled only after those first published before it.
PublishedBefore(e, f) ==
    \E i \in 1..Len(stream) :
        /\ EventOf(i) = e
        /\ \A j \in 1..i : EventOf(j) # f

Failed(e) == tries[e] > 0 \/ \E i \in 1..Len(dlq) : dlq[i] = e

KeyOrder ==
    \A e, f \in Events :
        (/\ KeyOf[e] = KeyOf[f]
         /\ StreamOf[e] = StreamOf[f]
         /\ \A g \in Events : KeyOf[g] = KeyOf[e] => ~Failed(g)
         /\ PublishedBefore(e, f)
         /\ f \in done) => e \in done

\* stop() waits for what was read: once every process has stopped, and none
\* crashed, what is still pending is there because its handler failed.
StopDrains ==
    Unharmed /\ (\A n \in Nodes : node[n] = "down") =>
        \A m \in pel : Failed(EventOf(m))

\* The port's contract, as this adapter meets it.
status ==
    [e \in Events |->
        CASE e \in done -> "done"
          [] e \notin done /\ Dead(e) -> "dead"
          [] e \notin done /\ ~Dead(e) /\ Published(e) -> "pending"
          [] OTHER -> "new"]

Port == INSTANCE EventBusPort WITH status <- status, attempts <- tries
PortSpec == Port!FairSpec
=============================================================================
