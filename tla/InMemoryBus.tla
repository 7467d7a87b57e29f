----------------------------- MODULE InMemoryBus -----------------------------
(***************************************************************************)
(* The in-process event bus (adapters/eventbus/in_memory.py): every        *)
(* consumer has a partitioned dispatcher (shared/partitioning.py) with a   *)
(* bounded queue and a task per worker.  Handlers publish in their turn.   *)
(*                                                                         *)
(* Tasks interleave where the code awaits: an external publisher or a      *)
(* redrive waits in put() while a queue is full, a worker waits in get(),  *)
(* in the handler and, when the handler failed, in put() on its own queue. *)
(***************************************************************************)
EXTENDS Integers, Sequences, FiniteSets

CONSTANTS Events,        \* event ids
          Consumers,     \* names of the registered consumers
          Order,         \* [Consumers -> Nat]: order of registration
          Accepts,       \* [Consumers -> SUBSET Events]: spec.accepts
          KeyOf,         \* [Events -> Keys]
          Keys,
          Workers,       \* workers of a dispatcher (concurrency)
          WorkerOf,      \* [Keys -> Workers]
          Failing,       \* events whose handlers may raise
          Child,         \* [Consumers \X Events -> Events \cup {NoEvent}]:
          NoEvent,       \* the event a handler publishes before it returns
          Callers,       \* external tasks calling publish or redrive
          MaxAttempts,   \* max_attempts of the consumers
          QueueSize      \* queue_maxsize of a worker

\* Bounds: publications of one event, redrives and stops of the bus.
CONSTANTS MaxPublications, MaxRedrives, MaxStops

ASSUME BusAssumption ==
    /\ IsFiniteSet(Workers)
    /\ Order \in [Consumers -> Nat]
    /\ \A c, d \in Consumers : Order[c] = Order[d] => c = d
    /\ Accepts \in [Consumers -> SUBSET Events]
    /\ KeyOf \in [Events -> Keys]
    /\ WorkerOf \in [Keys -> Workers]
    /\ Failing \subseteq Events
    /\ NoEvent \notin Events
    /\ Child \in [Consumers \X Events -> Events \cup {NoEvent}]
    /\ MaxAttempts \in Nat \ {0}
    /\ QueueSize \in Nat \ {0}
    /\ MaxPublications \in [Events -> Nat]
    /\ MaxRedrives \in Nat
    /\ MaxStops \in Nat

VARIABLES
    bus,         \* "off" | "up" | "draining" | "cancelling"
    queue,       \* [Places -> FIFO of [ev, attempt]]
    unfinished,  \* [Places -> Int]: asyncio.Queue's counter of unfinished tasks
    inflight,    \* [Consumers -> Int]: the dispatcher's _inflight
    worker,      \* [Places -> what the worker's task is doing]
    processed,   \* [Consumers -> SUBSET Events]: _processed
    dead,        \* [Consumers -> sequence of events]: _dead
    joined,      \* places whose join() returned in the drain in progress
    alive,       \* consumers whose dispatcher has tasks
    caller,      \* [Callers -> the publish or redrive in progress]
    used,        \* counters of the bounds
    accepted,    \* history: [Consumers -> events ever put in its queues, in order]
    returned,    \* history: [Consumers -> [Events -> times the handler returned]]
    tries,       \* history: [Consumers -> [Events -> failures since (re)publication]]
    cut          \* history: [Consumers -> events in hand of a worker that was cancelled]

runVars == <<queue, unfinished, inflight, worker>>
lifeVars == <<bus, joined, alive>>
ghostVars == <<accepted, returned, tries, cut>>
busVars == <<runVars, processed, dead, lifeVars, caller, used, ghostVars>>

-----------------------------------------------------------------------------
Places == Consumers \X Workers
Item == [ev : Events, attempt : 1..MaxAttempts]
Busy == {"handler", "publish", "retry", "bury"}
Idle == [stage |-> "idle", ev |-> NoEvent, attempt |-> 0, rest |-> {}]
Off == [Idle EXCEPT !.stage = "off"]
Dead == [Idle EXCEPT !.stage = "dead"]
NoCall == [ev |-> NoEvent, rest |-> {}]

RangeOf(s) == {s[i] : i \in 1..Len(s)}

\* Variant: a hash that changes from call to call.
PlaceUnstable(c, e) ==
    <<c, CHOOSE w \in Workers : (w = WorkerOf[KeyOf[e]]) <=> (Len(accepted[c]) % 2 = 0)>>

\* worker_for: the worker of the event's routing key.
Place(c, e) == <<c, WorkerOf[KeyOf[e]]>>

\* spec.accepts: one of the consumer's patterns matches the type of the event.
Accepting(c, e) == e \in Accepts[c]

\* The consumers a publication goes to, and the next of those that remain: the
\* loop follows the order of registration.
Targets(e) == {c \in Consumers : Accepting(c, e)}
NextTarget(c, rest) == c \in rest /\ \A d \in rest : Order[c] <= Order[d]

BusInit ==
    /\ bus = "off"
    /\ queue = [p \in Places |-> <<>>]
    /\ unfinished = [p \in Places |-> 0]
    /\ inflight = [c \in Consumers |-> 0]
    /\ worker = [p \in Places |-> Off]
    /\ processed = [c \in Consumers |-> {}]
    /\ dead = [c \in Consumers |-> <<>>]
    /\ joined = {}
    /\ alive = {}
    /\ caller = [t \in Callers |-> NoCall]
    /\ used = [publications |-> [e \in Events |-> 0], redrives |-> 0, stops |-> 0]
    /\ accepted = [c \in Consumers |-> <<>>]
    /\ returned = [c \in Consumers |-> [e \in Events |-> 0]]
    /\ tries = [c \in Consumers |-> [e \in Events |-> 0]]
    /\ cut = [c \in Consumers |-> {}]

-----------------------------------------------------------------------------
(* publish(), redrive() and the put() they wait in.                        *)

\* submit(): put() returns when the worker's queue has room.
Put(c, e, n) ==
    LET p == Place(c, e) IN
    /\ Len(queue[p]) < QueueSize
    /\ queue' = [queue EXCEPT ![p] = Append(@, [ev |-> e, attempt |-> n])]
    /\ unfinished' = [unfinished EXCEPT ![p] = @ + 1]

CallPublish(t, e) ==
    /\ caller[t] = NoCall
    /\ used.publications[e] < MaxPublications[e]
    /\ used' = [used EXCEPT !.publications[e] = @ + 1]
    /\ caller' = [caller EXCEPT ![t] =
                    IF Targets(e) = {} THEN NoCall ELSE [ev |-> e, rest |-> Targets(e)]]
    /\ UNCHANGED <<runVars, processed, dead, lifeVars, ghostVars>>

\* The next put of a publish or redrive in progress.
CallerPut(t) ==
    \E c \in Consumers :
      LET e == caller[t].ev
          left == caller[t].rest \ {c}
      IN
      /\ NextTarget(c, caller[t].rest)
      /\ Put(c, e, 1)
      /\ accepted' = [accepted EXCEPT ![c] = Append(@, e)]
      /\ caller' = [caller EXCEPT ![t] = IF left = {} THEN NoCall ELSE [ev |-> e, rest |-> left]]
      /\ UNCHANGED <<inflight, worker, processed, dead, lifeVars, used, returned, tries, cut>>

\* Variant: the letter stays in the dead-letter queue.
RedriveKeepingLetter(t, c) ==
    \E i \in 1..Len(dead[c]) :
      LET e == dead[c][i] IN
      /\ caller[t] = NoCall
        /\ used.redrives < MaxRedrives
      /\ used' = [used EXCEPT !.redrives = @ + 1]
      /\ processed' = [processed EXCEPT ![c] = @ \ {e}]
      /\ tries' = [tries EXCEPT ![c][e] = 0]
      /\ caller' = [caller EXCEPT ![t] = [ev |-> e, rest |-> {c}]]
      /\ UNCHANGED <<runVars, dead, lifeVars, accepted, returned, cut>>

\* redrive(): the first letter of the event leaves the DLQ before the put.
Redrive(t, c) ==
    \E i \in 1..Len(dead[c]) :
      LET e == dead[c][i] IN
      /\ caller[t] = NoCall
        /\ used.redrives < MaxRedrives
      /\ \A j \in 1..(i - 1) : dead[c][j] # e
      /\ used' = [used EXCEPT !.redrives = @ + 1]
      /\ dead' = [dead EXCEPT ![c] = SubSeq(@, 1, i - 1) \o SubSeq(@, i + 1, Len(@))]
      /\ processed' = [processed EXCEPT ![c] = @ \ {e}]
      /\ tries' = [tries EXCEPT ![c][e] = 0]
      /\ caller' = [caller EXCEPT ![t] = [ev |-> e, rest |-> {c}]]
      /\ UNCHANGED <<runVars, lifeVars, accepted, returned, cut>>

-----------------------------------------------------------------------------
(* The worker's task: _run around _process.                                *)

At(p, stage) == worker[p].stage = stage

\* The finally clause: task_done() raises ValueError, and ends the task, when
\* more items were counted as done than were put.
Finish(p) ==
    /\ inflight' = [inflight EXCEPT ![p[1]] = @ - 1]
    /\ IF unfinished[p] > 0
       THEN /\ unfinished' = [unfinished EXCEPT ![p] = @ - 1]
            /\ worker' = [worker EXCEPT ![p] = Idle]
       ELSE /\ worker' = [worker EXCEPT ![p] = Dead]
            /\ UNCHANGED unfinished

\* get(), then _process up to the handler.
Take(p) ==
    LET item == Head(queue[p]) IN
    /\ At(p, "idle")
    /\ queue[p] # <<>>
    /\ item.ev \notin processed[p[1]]
    /\ queue' = [queue EXCEPT ![p] = Tail(@)]
    /\ inflight' = [inflight EXCEPT ![p[1]] = @ + 1]
    /\ worker' = [worker EXCEPT ![p] = [stage |-> "handler", ev |-> item.ev,
                                        attempt |-> item.attempt, rest |-> {}]]
    /\ UNCHANGED <<unfinished, processed, dead, lifeVars, caller, used, ghostVars>>

\* get() of an event that was handled before: _process returns at once.
TakeProcessed(p) ==
    /\ At(p, "idle")
    /\ queue[p] # <<>>
    /\ Head(queue[p]).ev \in processed[p[1]]
    /\ queue' = [queue EXCEPT ![p] = Tail(@)]
    /\ IF unfinished[p] > 0
       THEN /\ unfinished' = [unfinished EXCEPT ![p] = @ - 1]
            /\ UNCHANGED worker
       ELSE /\ worker' = [worker EXCEPT ![p] = Dead]
            /\ UNCHANGED unfinished
    /\ UNCHANGED <<inflight, processed, dead, lifeVars, caller, used, ghostVars>>

\* The handler publishes an event of its own and waits for the puts.
HandlerPublishes(p) ==
    LET e == Child[<<p[1], worker[p].ev>>] IN
    /\ At(p, "handler")
    /\ e # NoEvent
    /\ used.publications[e] < MaxPublications[e]
    /\ Targets(e) # {}
    /\ used' = [used EXCEPT !.publications[e] = @ + 1]
    /\ worker' = [worker EXCEPT ![p].stage = "publish", ![p].rest = Targets(e)]
    /\ UNCHANGED <<queue, unfinished, inflight, processed, dead, lifeVars, caller, ghostVars>>

WorkerPut(p) ==
    \E c \in Consumers :
      LET e == Child[<<p[1], worker[p].ev>>] IN
      /\ At(p, "publish")
      /\ NextTarget(c, worker[p].rest)
      /\ Put(c, e, 1)
      /\ accepted' = [accepted EXCEPT ![c] = Append(@, e)]
      /\ worker' = [worker EXCEPT ![p].rest = @ \ {c}]
      /\ UNCHANGED <<inflight, processed, dead, lifeVars, caller, used, returned, tries, cut>>

\* The handler published nothing, or its publication is complete.
AtEnd(p) == At(p, "handler") \/ (At(p, "publish") /\ worker[p].rest = {})

\* Variant: the event is not remembered as processed.
HandlerReturnsForgetting(p) ==
    LET c == p[1]
        e == worker[p].ev
    IN
    /\ AtEnd(p)
    /\ returned' = [returned EXCEPT ![c][e] = @ + 1]
    /\ Finish(p)
    /\ UNCHANGED <<queue, processed, dead, lifeVars, caller, used, accepted, tries, cut>>

HandlerReturns(p) ==
    LET c == p[1]
        e == worker[p].ev
    IN
    /\ AtEnd(p)
    /\ processed' = [processed EXCEPT ![c] = @ \cup {e}]
    /\ returned' = [returned EXCEPT ![c][e] = @ + 1]
    /\ Finish(p)
    /\ UNCHANGED <<queue, dead, lifeVars, caller, used, accepted, tries, cut>>

\* Variant: the exception is logged and nothing is done about the event.
HandlerRaisesSwallowed(p) ==
    LET c == p[1]
        e == worker[p].ev
    IN
    /\ AtEnd(p)
    /\ e \in Failing
    /\ tries' = [tries EXCEPT ![c][e] = @ + 1]
    /\ Finish(p)
    /\ UNCHANGED <<queue, processed, dead, lifeVars, caller, used, accepted, returned, cut>>

\* Variant: one retry too many.
HandlerRaisesOffByOne(p) ==
    LET c == p[1]
        e == worker[p].ev
    IN
    /\ AtEnd(p)
    /\ e \in Failing
    /\ tries' = [tries EXCEPT ![c][e] = @ + 1]
    /\ worker' = [worker EXCEPT ![p].rest = {}, ![p].stage =
                    IF worker[p].attempt <= MaxAttempts THEN "retry" ELSE "bury"]
    /\ UNCHANGED <<queue, unfinished, inflight, processed, dead, lifeVars, caller, used,
                   accepted, returned, cut>>

HandlerRaises(p) ==
    LET c == p[1]
        e == worker[p].ev
    IN
    /\ AtEnd(p)
    /\ e \in Failing
    /\ tries' = [tries EXCEPT ![c][e] = @ + 1]
    /\ worker' = [worker EXCEPT ![p].rest = {}, ![p].stage =
                    IF worker[p].attempt < MaxAttempts THEN "retry" ELSE "bury"]
    /\ UNCHANGED <<queue, unfinished, inflight, processed, dead, lifeVars, caller, used,
                   accepted, returned, cut>>

\* Variant: the worker counts its item as done before it submits the retry.
RetryAfterDone(p) ==
    \/ /\ At(p, "retry")
       /\ worker[p].rest = {}
       /\ inflight' = [inflight EXCEPT ![p[1]] = @ - 1]
       /\ unfinished' = [unfinished EXCEPT ![p] = @ - 1]
       /\ worker' = [worker EXCEPT ![p].rest = {p[1]}]
       /\ UNCHANGED <<queue, processed, dead, lifeVars, caller, used, ghostVars>>
    \/ /\ At(p, "retry")
       /\ worker[p].rest # {}
       /\ Put(p[1], worker[p].ev, worker[p].attempt + 1)
       /\ worker' = [worker EXCEPT ![p] = Idle]
       /\ UNCHANGED <<inflight, processed, dead, lifeVars, caller, used, ghostVars>>

\* The retry: the worker puts the event at the back of its own queue, waiting
\* there if it is full, and only then counts the item as done: one unfinished
\* item more, one less.
Retry(p) ==
    /\ At(p, "retry")
    /\ Len(queue[p]) < QueueSize
    /\ queue' = [queue EXCEPT ![p] =
                   Append(@, [ev |-> worker[p].ev, attempt |-> worker[p].attempt + 1])]
    /\ inflight' = [inflight EXCEPT ![p[1]] = @ - 1]
    /\ worker' = [worker EXCEPT ![p] = Idle]
    /\ UNCHANGED <<unfinished, processed, dead, lifeVars, caller, used, ghostVars>>

\* After max_attempts failures: a DeadLetter is appended.
Bury(p) ==
    LET c == p[1] IN
    /\ At(p, "bury")
    /\ dead' = [dead EXCEPT ![c] = Append(@, worker[p].ev)]
    /\ Finish(p)
    /\ UNCHANGED <<queue, processed, lifeVars, caller, used, ghostVars>>

-----------------------------------------------------------------------------
(* Life cycle.                                                             *)

Start ==
    /\ bus = "off"
    /\ bus' = "up"
    /\ alive' = Consumers
    /\ worker' = [p \in Places |-> Idle]
    /\ UNCHANGED <<queue, unfinished, inflight, processed, dead, joined, caller, used, ghostVars>>

\* stop(): drain() joins every queue of every dispatcher at once.  Nobody is asked to
\* be quiet: callers and handlers go on publishing.
Stop ==
    /\ bus = "up"
    /\ used.stops < MaxStops
    /\ used' = [used EXCEPT !.stops = @ + 1]
    /\ bus' = "draining"
    /\ joined' = {}
    /\ UNCHANGED <<runVars, processed, dead, alive, caller, ghostVars>>

\* join() of a queue returns once its counter was zero, whatever comes later.
Join(p) ==
    /\ bus = "draining"
    /\ p \notin joined
    /\ unfinished[p] = 0
    /\ joined' = joined \cup {p}
    /\ UNCHANGED <<runVars, processed, dead, bus, alive, caller, used, ghostVars>>

Drained ==
    /\ bus = "draining"
    /\ joined = Places
    /\ bus' = "cancelling"
    /\ UNCHANGED <<runVars, processed, dead, joined, alive, caller, used, ghostVars>>

\* dispatcher.stop(drain=False), one dispatcher after the other: the tasks are
\* cancelled.  A task cancelled in its work passes through the except clause
\* and the finally clause, and each of them counts the item as done; the item
\* is in no queue any more.  Nothing is awaited before a letter is written.
CancelDispatcher(c) ==
    LET working == {w \in Workers : worker[<<c, w>>].stage \in Busy} IN
    /\ bus = "cancelling"
    /\ c \in alive
    /\ \A w \in Workers : ~At(<<c, w>>, "bury")
    /\ \A d \in alive : Order[c] <= Order[d]
    /\ alive' = alive \ {c}
    /\ bus' = IF alive = {c} THEN "off" ELSE bus
    /\ worker' = [p \in Places |-> IF p[1] = c THEN Off ELSE worker[p]]
    /\ inflight' = [inflight EXCEPT ![c] = @ - 2 * Cardinality(working)]
    /\ unfinished' = [p \in Places |->
                        IF p[1] = c /\ p[2] \in working
                        THEN IF unfinished[p] > 2 THEN unfinished[p] - 2 ELSE 0
                        ELSE unfinished[p]]
    /\ cut' = [cut EXCEPT ![c] = @ \cup {worker[<<c, w>>].ev : w \in working}]
    /\ UNCHANGED <<queue, processed, dead, joined, caller, used, accepted, returned, tries>>

-----------------------------------------------------------------------------
Work(p) ==
    \/ Take(p) \/ TakeProcessed(p) \/ HandlerPublishes(p) \/ WorkerPut(p)
    \/ HandlerReturns(p) \/ HandlerRaises(p) \/ Retry(p) \/ Bury(p)

BusNext ==
    \/ \E t \in Callers : CallerPut(t) \/ \E e \in Events : CallPublish(t, e)
    \/ \E t \in Callers, c \in Consumers : Redrive(t, c)
    \/ \E p \in Places : Work(p) \/ Join(p)
    \/ Start \/ Stop \/ Drained
    \/ \E c \in Consumers : CancelDispatcher(c)

BusSpec == BusInit /\ [][BusNext]_busVars

\* The event loop runs every task that can run; the bus is started and a stop
\* that began goes on.
Fairness ==
    /\ \A p \in Places : WF_busVars(Work(p)) /\ WF_busVars(Join(p))
    /\ \A t \in Callers : WF_busVars(CallerPut(t))
    /\ WF_busVars(Start) /\ WF_busVars(Drained)
    /\ \A c \in Consumers : WF_busVars(CancelDispatcher(c))

BusFairSpec == BusSpec /\ Fairness

-----------------------------------------------------------------------------
(* Properties.                                                             *)

Task == [stage : Busy \cup {"idle", "off", "dead"}, ev : Events \cup {NoEvent},
         attempt : 0..MaxAttempts, rest : SUBSET Consumers]
Call == [ev : Events \cup {NoEvent}, rest : SUBSET Consumers]
Tally == [Consumers -> [Events -> Nat]]

BusTypeOK ==
    /\ bus \in {"off", "up", "draining", "cancelling"}
    /\ queue \in [Places -> Seq(Item)]
    /\ unfinished \in [Places -> Nat]
    /\ inflight \in [Consumers -> Int]
    /\ worker \in [Places -> Task]
    /\ processed \in [Consumers -> SUBSET Events]
    /\ dead \in [Consumers -> Seq(Events)]
    /\ joined \subseteq Places
    /\ alive \subseteq Consumers
    /\ caller \in [Callers -> Call]
    /\ used \in [publications : [Events -> Nat], redrives : Nat, stops : Nat]
    /\ accepted \in [Consumers -> Seq(Events)]
    /\ returned \in Tally
    /\ tries \in Tally
    /\ cut \in [Consumers -> SUBSET Events]

InDlq(c, e) == e \in RangeOf(dead[c])
Queued(c, e) == \E w \in Workers : \E i \in 1..Len(queue[<<c, w>>]) : queue[<<c, w>>][i].ev = e
Working(c, e) == \E w \in Workers : worker[<<c, w>>].stage \in Busy /\ worker[<<c, w>>].ev = e
Calling(c, e) == \E t \in Callers : caller[t].ev = e /\ c \in caller[t].rest

Followed(c, e) ==
    returned[c][e] > 0 \/ InDlq(c, e) \/ Queued(c, e) \/ Working(c, e) \/ Calling(c, e)

\* At-least-once within the process: an event a consumer accepted was handled,
\* or is dead, or is somewhere on its way, unless a stop cut a worker off while it
\* had that very event in hand (partitioning.py:161-164).
NoEventLost ==
    \A c \in Consumers : \A e \in RangeOf(accepted[c]) : Followed(c, e) \/ e \in cut[c]

\* partitioning.py:137-138: a stop that drains loses no accepted work.
DrainedStopLosesNothing ==
    \A c \in Consumers : \A e \in RangeOf(accepted[c]) : Followed(c, e)

\* Where an event is, for a consumer: an element for each of its copies.
Copies(c, e) ==
    LET queued(w) == {i \in 1..Len(queue[<<c, w>>]) : queue[<<c, w>>][i].ev = e} IN
    (UNION {{<<"queued", w, i>> : i \in queued(w)} : w \in Workers})
      \cup {<<"dead", i>> : i \in {j \in 1..Len(dead[c]) : dead[c][j] = e}}
      \cup {<<"held", w>> : w \in {v \in Workers : worker[<<c, v>>].stage \in Busy /\ worker[<<c, v>>].ev = e}}
      \cup {<<"called", t>> : t \in {u \in Callers : caller[u].ev = e /\ c \in caller[u].rest}}
      \cup {<<"handled", n>> : n \in 1..returned[c][e]}

\* An event published once is in exactly one place, be it a queue, a worker, a
\* call on its way, the DLQ or handled, however many redrives find the same
\* letter (in_memory.py:176-187), and in none if a stop cut it off; published more
\* often, its handler returns once, and once more for each redrive (in_memory.py:133).
HandledOnce ==
    \A c \in Consumers, e \in Events :
        /\ returned[c][e] <= 1 + used.redrives
        /\ used.publications[e] <= 1 =>
             /\ \A x, y \in Copies(c, e) : x = y
             /\ e \in RangeOf(accepted[c]) \ cut[c] => Copies(c, e) # {}

\* Order by key: as long as no event of the key failed in a consumer and none
\* was redriven, it handles the events of the key in the order it first accepted
\* them; one that a stop cut off is passed over, and only that one.
KeyOrder ==
    \A c \in Consumers : \A i, j \in 1..Len(accepted[c]) :
        LET e == accepted[c][i]
            f == accepted[c][j]
        IN  (/\ used.redrives = 0
             /\ i < j /\ \A h \in 1..i : accepted[c][h] # f
             /\ KeyOf[e] = KeyOf[f]
             /\ \A g \in Events : KeyOf[g] = KeyOf[e] => tries[c][g] = 0 /\ ~InDlq(c, g)
             /\ e \notin cut[c]
             /\ returned[c][f] > 0) => returned[c][e] > 0

\* A worker of the place was cancelled in its work, in this life of the bus or
\* an earlier one: its counter no longer tells what is in the queue.
CutAt(p) == \E e \in cut[p[1]] : Place(p[1], e) = p

\* join() of a worker's queue returns only when what was put there is done, however
\* many callers and handlers of other workers still publish, and in every stop; a
\* queue whose worker was cancelled in its work is the exception (partitioning.py:161-179).
JoinWaits ==
    [][\A p \in joined' \ joined : CutAt(p) \/ (queue[p] = <<>> /\ worker[p].stage \notin Busy)]_busVars

\* What the contract of ports/event_bus.py calls the state of an event.
Status(c) ==
    [e \in Events |->
        CASE InDlq(c, e) -> "dead"
          [] ~InDlq(c, e) /\ returned[c][e] > 0 -> "done"
          [] ~InDlq(c, e) /\ returned[c][e] = 0 /\ e \in RangeOf(accepted[c]) -> "pending"
          [] OTHER -> "new"]
=============================================================================
