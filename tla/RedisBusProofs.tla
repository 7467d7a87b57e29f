--------------------------- MODULE RedisBusProofs ---------------------------
(***************************************************************************)
(* Theorems about RedisBus for every value of its constants.               *)
(***************************************************************************)
EXTENDS RedisBus, FiniteSetTheorems, TLAPS

-----------------------------------------------------------------------------
(* What the operators of the module return.                                *)

LEMMA NewMessagesFresh == NewMessages \subseteq {m \in 1..Len(stream) : count[m] = 0}
  BY DEF NewMessages, Undelivered

LEMMA QueueAppend ==
  ASSUME NEW T, NEW s \in Seq(T), NEW x \in T
  PROVE  /\ Append(s, x) \in Seq(T)
         /\ Len(Append(s, x)) = Len(s) + 1
         /\ \A i \in 1..Len(Append(s, x)) :
              Append(s, x)[i] = IF i = Len(s) + 1 THEN x ELSE s[i]
  OBVIOUS

LEMMA QueueTail ==
  ASSUME NEW T, NEW s \in Seq(T), s # <<>>
  PROVE  /\ Head(s) \in T
         /\ Head(s) = s[1]
         /\ Tail(s) \in Seq(T)
         /\ Len(Tail(s)) = Len(s) - 1
         /\ Len(s) \in Nat \ {0}
         /\ \A i \in 1..Len(Tail(s)) : Tail(s)[i] = s[i + 1]
  OBVIOUS

-----------------------------------------------------------------------------
(* Types and references.                                                   *)

Basic == TypeOK /\ DeliveryCountSound

LEMMA InitBasic == Init => Basic
  BY ConstantsAssumption DEF Init, Basic, TypeOK, DeliveryCountSound, Places, NoWork, NoOp, FaultKinds, Ids

\* Whatever a process holds is a delivery.
LEMMA HeldTypes ==
  ASSUME TypeOK
  PROVE  /\ \A n \in Nodes : \A d \in batch[n] \cup todo[n] : d \in Delivery
         /\ \A p \in Places : \A i \in 1..Len(queue[p]) : queue[p][i] \in Delivery
         /\ \A p \in Places : work[p].stage # "idle" =>
              /\ work[p] \in [stage : Stages \ {"idle"}, msg : Ids, dc : Nat \ {0}]
              /\ work[p].msg \in Ids
              /\ work[p].dc \in Nat \ {0}
         /\ \A p \in Places : work[p].stage = "idle" => work[p] = NoWork
<1>1. \A p \in Places : work[p].stage # "idle" => work[p] # NoWork
  BY DEF NoWork
<1>2. \A p \in Places : \A r \in [stage : Stages \ {"idle"}, msg : Ids, dc : Nat \ {0}] :
        r.stage # "idle"
  OBVIOUS
<1> QED  BY <1>1, <1>2 DEF TypeOK

\* ... and refers to a published message.
LEMMA HeldPublished ==
  ASSUME Basic
  PROVE  /\ \A m \in Ids : count[m] > 0 => m \in 1..Len(stream) /\ EventOf(m) \in Events
         /\ \A n \in Nodes : \A d \in batch[n] \cup todo[n] : d.dc > 0 => count[d.msg] > 0
         /\ \A p \in Places : work[p].stage # "idle" => count[work[p].msg] > 0
<1>1. \A m \in Ids : count[m] > 0 => m \in 1..Len(stream)
  BY DEF Basic, TypeOK, DeliveryCountSound, Ids
<1>2. \A m \in 1..Len(stream) : EventOf(m) \in Events
  BY DEF Basic, TypeOK, EventOf
<1>3. \A n \in Nodes : \A d \in batch[n] \cup todo[n] : d.dc > 0 => count[d.msg] > 0
  BY HeldTypes DEF Basic, TypeOK, DeliveryCountSound, Delivery
<1>4. \A p \in Places : work[p].stage # "idle" => count[work[p].msg] > 0
  BY HeldTypes DEF Basic, TypeOK, DeliveryCountSound
<1> QED  BY <1>1, <1>2, <1>3, <1>4

LEMMA SpendType ==
  ASSUME TypeOK, NEW k \in FaultKinds, NEW b, Spend(k, b)
  PROVE  faults' \in [FaultKinds -> Nat]
  BY DEF TypeOK, Spend

LEMMA AppendBasic ==
  ASSUME Basic, NEW e \in Events, Append1(e)
  PROVE  /\ stream' \in Seq(Events)
         /\ Len(stream') = Len(stream) + 1
         /\ Len(stream') <= MaxMsgs
         /\ \A m \in 1..Len(stream) : stream'[m] = stream[m]
  BY ConstantsAssumption DEF Basic, TypeOK, Append1

\* Counters only grow and the stream only grows: what was accounted for in
\* memory that did not change stays accounted for.
LEMMA DispatchAccounted ==
  ASSUME Basic, UNCHANGED dispatchVars, \A m \in Ids : count[m] <= count'[m],
         count' \in [Ids -> Nat]
  PROVE  /\ \A p \in Places : \A i \in 1..Len(queue'[p]) :
              queue'[p][i].dc <= count'[queue'[p][i].msg]
         /\ \A p \in Places : work'[p].stage # "idle" => work'[p].dc <= count'[work'[p].msg]
<1>1. queue' = queue /\ work' = work
  BY DEF dispatchVars
<1>2. ASSUME NEW d \in Delivery, d.dc <= count[d.msg]
      PROVE  d.dc <= count'[d.msg]
  BY <1>2 DEF Basic, TypeOK, Delivery
<1>3. ASSUME NEW p \in Places, NEW i \in 1..Len(queue[p])
      PROVE  queue[p][i].dc <= count'[queue[p][i].msg]
  BY <1>2, HeldTypes DEF Basic, DeliveryCountSound
<1>4. ASSUME NEW p \in Places, work[p].stage # "idle"
      PROVE  work[p].dc <= count'[work[p].msg]
  <2>1. work[p].dc <= count[work[p].msg] /\ work[p].msg \in Ids /\ work[p].dc \in Nat
    BY <1>4, HeldTypes DEF Basic, DeliveryCountSound
  <2> QED  BY <2>1 DEF Basic, TypeOK
<1> QED  BY <1>1, <1>3, <1>4

LEMMA PublishBasic ==
  ASSUME Basic, NEW e \in Events, Publish(e) \/ PublishDuplicate(e)
  PROVE  Basic'
<1>1. /\ Append1(e)
      /\ count' = count /\ pel' = pel /\ dedup' = dedup /\ dlq' = dlq
      /\ removed' = removed /\ node' = node /\ phase' = phase /\ batch' = batch
      /\ scan' = scan /\ todo' = todo /\ queue' = queue /\ work' = work /\ admin' = admin
      /\ done' = done /\ tries' = tries
  BY DEF Publish, PublishDuplicate, readerVars, dispatchVars, ghostVars
<1>2. faults' \in [FaultKinds -> Nat]
  BY SpendType DEF Publish, PublishDuplicate, Basic, TypeOK, FaultKinds
<1>3. TypeOK'
  <2>1. stream' \in Seq(Events) /\ Len(stream') <= MaxMsgs
    BY <1>1, AppendBasic
  <2> QED  BY <1>1, <1>2, <2>1 DEF Basic, TypeOK
<1>4. \A m \in Ids : count'[m] > 0 => m <= Len(stream')
  <2>1. Len(stream') = Len(stream) + 1 /\ Len(stream) \in Nat
    BY <1>1, AppendBasic DEF Basic, TypeOK
  <2>2. \A m \in Ids : count[m] > 0 => m <= Len(stream)
    BY DEF Basic, DeliveryCountSound
  <2> QED  BY <1>1, <2>1, <2>2 DEF Ids
<1>5. DeliveryCountSound'
  BY <1>1, <1>4 DEF Basic, DeliveryCountSound
<1> QED  BY <1>3, <1>5 DEF Basic

LEMMA ReadGroupBasic ==
  ASSUME Basic, NEW n \in Nodes, ReadGroup(n)
  PROVE  Basic'
<1>1. NewMessages \subseteq {m \in Ids : m <= Len(stream) /\ count[m] = 0}
  BY NewMessagesFresh, ConstantsAssumption DEF Basic, TypeOK, Ids
<1>2. /\ batch' = [batch EXCEPT ![n] = {[msg |-> m, dc |-> 1] : m \in NewMessages}]
      /\ count' = [m \in Ids |-> IF m \in NewMessages THEN 1 ELSE count[m]]
      /\ pel' = pel \cup NewMessages
      /\ phase' = [phase EXCEPT ![n] = "reclaim"]
      /\ stream' = stream /\ dedup' = dedup /\ dlq' = dlq /\ removed' = removed
      /\ scan' = [scan EXCEPT ![n] = Streams]
      /\ node' = node /\ todo' = todo /\ queue' = queue /\ work' = work
      /\ admin' = admin /\ faults' = faults /\ done' = done /\ tries' = tries
  BY DEF ReadGroup, dispatchVars, ghostVars
<1>3. {[msg |-> m, dc |-> 1] : m \in NewMessages} \subseteq Delivery
  BY <1>1 DEF Delivery
<1>4. /\ count' \in [Ids -> Nat]
      /\ \A m \in Ids : count[m] <= count'[m]
      /\ \A m \in NewMessages : count'[m] = 1
  BY <1>1, <1>2 DEF Basic, TypeOK
<1>5. TypeOK'
  BY <1>1, <1>2, <1>3, <1>4 DEF Basic, TypeOK
<1>6. DeliveryCountSound'
  <2>1. \A m \in Ids : count'[m] > 0 => m <= Len(stream')
    BY <1>1, <1>2 DEF Basic, TypeOK, DeliveryCountSound
  <2>2. \A m \in pel' : count'[m] > 0
    BY <1>1, <1>2, <1>4 DEF Basic, TypeOK, DeliveryCountSound
  <2>3. ASSUME NEW k \in Nodes, NEW d \in batch'[k] \cup todo'[k]
        PROVE  d.dc <= count'[d.msg]
    <3>1. CASE d \in batch[k] \cup todo[k]
      BY <1>4, <3>1, HeldTypes DEF Basic, TypeOK, DeliveryCountSound, Delivery
    <3>2. CASE d \notin batch[k] \cup todo[k]
      <4>1. PICK m \in NewMessages : d = [msg |-> m, dc |-> 1]
        BY <1>2, <3>2 DEF Basic, TypeOK
      <4> QED  BY <4>1, <1>4
    <3> QED  BY <3>1, <3>2
  <2>4. /\ \A p \in Places : \A i \in 1..Len(queue'[p]) :
             queue'[p][i].dc <= count'[queue'[p][i].msg]
        /\ \A p \in Places : work'[p].stage # "idle" => work'[p].dc <= count'[work'[p].msg]
    BY <1>2, <1>4, DispatchAccounted DEF dispatchVars
  <2>5. \A a \in Admins : admin'[a].step # "none" => admin'[a].entry \in 1..Len(dlq')
    BY <1>2 DEF Basic, DeliveryCountSound
  <2> QED  BY <2>1, <2>2, <2>3, <2>4, <2>5 DEF DeliveryCountSound
<1> QED  BY <1>5, <1>6 DEF Basic

LEMMA SubmitBasic ==
  ASSUME Basic, NEW n \in Nodes, Submit(n)
  PROVE  Basic'
<1>1. PICK d \in batch[n] :
        LET p == <<n, Worker(d.msg)>> IN
        /\ queue' = [queue EXCEPT ![p] = Append(@, d)]
        /\ batch' = [batch EXCEPT ![n] = @ \ {d}]
  BY DEF Submit
<1>2. /\ stream' = stream /\ count' = count /\ pel' = pel /\ dedup' = dedup
      /\ dlq' = dlq /\ removed' = removed /\ node' = node /\ phase' = phase
      /\ scan' = scan /\ todo' = todo /\ work' = work /\ admin' = admin /\ faults' = faults
      /\ done' = done /\ tries' = tries
  BY DEF Submit, redisVars, ghostVars
<1> DEFINE p == <<n, Worker(d.msg)>>
<1>3. d \in Delivery /\ d.dc <= count[d.msg]
  BY HeldTypes DEF Basic, DeliveryCountSound
<1>4. p \in Places
  <2>1. EventOf(d.msg) \in Events
    BY <1>3, HeldPublished DEF Delivery, Basic
  <2> QED  BY <2>1, ConstantsAssumption DEF Worker, Places
<1>5. /\ \A q \in Places \ {p} : queue'[q] = queue[q]
      /\ queue'[p] = Append(queue[p], d)
      /\ queue[p] \in Seq(Delivery)
  BY <1>1, <1>4 DEF Basic, TypeOK
<1>6. /\ Append(queue[p], d) \in Seq(Delivery)
      /\ Len(Append(queue[p], d)) = Len(queue[p]) + 1
      /\ \A i \in 1..Len(Append(queue[p], d)) :
           Append(queue[p], d)[i] = IF i = Len(queue[p]) + 1 THEN d ELSE queue[p][i]
  <2> HIDE DEF p
  <2> QED  BY <1>3, <1>5, QueueAppend
<1>7. TypeOK'
  BY <1>1, <1>2, <1>3, <1>6 DEF Basic, TypeOK
<1>8. \A q \in Places : \A i \in 1..Len(queue'[q]) :
        queue'[q][i].dc <= count[queue'[q][i].msg]
  <2>1. ASSUME NEW i \in 1..Len(queue'[p])
        PROVE  queue'[p][i].dc <= count[queue'[p][i].msg]
    <3>1. CASE i = Len(queue[p]) + 1
      BY <1>3, <1>5, <1>6, <3>1
    <3>2. CASE i # Len(queue[p]) + 1
      <4>1. i \in 1..Len(queue[p]) /\ queue'[p][i] = queue[p][i]
        <5> HIDE DEF p
        <5> QED  BY <1>5, <1>6, <3>2
      <4> QED  BY <4>1, <1>4 DEF Basic, DeliveryCountSound
    <3> QED  BY <3>1, <3>2
  <2> QED  BY <2>1, <1>5 DEF Basic, DeliveryCountSound
<1>9. \A k \in Nodes : \A x \in batch'[k] \cup todo'[k] : x \in batch[k] \cup todo[k]
  BY <1>1, <1>2 DEF Basic, TypeOK
<1>10. DeliveryCountSound'
  BY <1>2, <1>8, <1>9 DEF Basic, DeliveryCountSound
<1> QED  BY <1>7, <1>10 DEF Basic

LEMMA ListPendingBasic ==
  ASSUME Basic, NEW n \in Nodes, ListPending(n)
  PROVE  Basic'
<1>0. PICK s \in Streams :
        /\ scan' = [scan EXCEPT ![n] = @ \ {s}]
        /\ todo' = [todo EXCEPT ![n] =
                      {[msg |-> m, dc |-> count[m]] :
                         m \in {k \in pel : StreamOf[EventOf(k)] = s /\ IdleEnough(k)}}]
  BY DEF ListPending
<1> DEFINE S == {[msg |-> m, dc |-> count[m]] :
                   m \in {k \in pel : StreamOf[EventOf(k)] = s /\ IdleEnough(k)}}
<1>1. /\ todo' = [todo EXCEPT ![n] = S]
      /\ phase' = phase
      /\ stream' = stream /\ count' = count /\ pel' = pel /\ dedup' = dedup
      /\ dlq' = dlq /\ removed' = removed /\ node' = node /\ batch' = batch
      /\ queue' = queue /\ work' = work /\ admin' = admin /\ faults' = faults
      /\ done' = done /\ tries' = tries
  BY <1>0 DEF ListPending, redisVars, dispatchVars, ghostVars
<1>2. \A d \in S : d \in Delivery /\ d.dc <= count[d.msg]
  BY DEF Basic, TypeOK, DeliveryCountSound, Delivery
<1>3. todo' \in [Nodes -> SUBSET Delivery] /\ scan' \in [Nodes -> SUBSET Streams]
  BY <1>0, <1>1, <1>2 DEF Basic, TypeOK
<1>4. TypeOK'
  BY <1>1, <1>3 DEF Basic, TypeOK
<1>5. \A k \in Nodes : \A d \in batch'[k] \cup todo'[k] : d.dc <= count[d.msg]
  BY <1>1, <1>2 DEF Basic, TypeOK, DeliveryCountSound
<1>6. DeliveryCountSound'
  BY <1>1, <1>5 DEF Basic, DeliveryCountSound
<1> QED  BY <1>4, <1>6 DEF Basic

LEMMA XClaimBasic ==
  ASSUME Basic, NEW n \in Nodes, XClaim(n)
  PROVE  Basic'
<1>1. /\ stream' = stream /\ pel' = pel /\ dedup' = dedup
      /\ dlq' = dlq /\ removed' = removed /\ node' = node /\ phase' = phase
      /\ scan' = scan /\ queue' = queue /\ work' = work /\ admin' = admin
      /\ done' = done /\ tries' = tries
  BY DEF XClaim, dispatchVars, ghostVars
<1>2. PICK t \in todo[n] :
        /\ todo' = [todo EXCEPT ![n] = @ \ {t}]
        /\ \/ /\ t.msg \in pel
              /\ count' = [count EXCEPT ![t.msg] = @ + 1]
              /\ batch' = [batch EXCEPT ![n] = {[msg |-> t.msg, dc |-> t.dc + 1]}]
           \/ count' = count /\ batch' = batch
  BY DEF XClaim
<1>3. faults' \in [FaultKinds -> Nat]
  BY SpendType DEF XClaim, Basic, TypeOK, FaultKinds
<1>4. t \in Delivery /\ t.dc <= count[t.msg]
  BY HeldTypes DEF Basic, DeliveryCountSound
<1>5. /\ count' \in [Ids -> Nat]
      /\ \A m \in Ids : count[m] <= count'[m]
      /\ \A m \in Ids : count'[m] > 0 => count[m] > 0
  <2>1. count \in [Ids -> Nat] /\ t.msg \in Ids
    BY <1>4 DEF Basic, TypeOK, Delivery
  <2>2. t.msg \in pel => count[t.msg] > 0
    BY DEF Basic, DeliveryCountSound
  <2> QED  BY <1>2, <2>1, <2>2
<1>6. [msg |-> t.msg, dc |-> t.dc + 1] \in Delivery
  BY <1>4 DEF Delivery
<1>7. TypeOK'
  <2>1. batch' \in [Nodes -> SUBSET Delivery] /\ todo' \in [Nodes -> SUBSET Delivery]
    <3>1. batch \in [Nodes -> SUBSET Delivery] /\ todo \in [Nodes -> SUBSET Delivery]
      BY DEF Basic, TypeOK
    <3>2. {[msg |-> t.msg, dc |-> t.dc + 1]} \in SUBSET Delivery
      BY <1>6
    <3> QED  BY <1>2, <3>1, <3>2
  <2> QED  BY <1>1, <1>3, <1>5, <2>1 DEF Basic, TypeOK
<1>8. ASSUME NEW k \in Nodes, NEW d \in batch'[k] \cup todo'[k]
      PROVE  d.dc <= count'[d.msg]
  <2>1. CASE d \in batch[k] \cup todo[k]
    BY <1>5, <2>1, HeldTypes DEF Basic, TypeOK, DeliveryCountSound, Delivery
  <2>2. CASE d \notin batch[k] \cup todo[k]
    <3>1. /\ d = [msg |-> t.msg, dc |-> t.dc + 1]
          /\ count' = [count EXCEPT ![t.msg] = @ + 1]
      BY <1>2, <2>2 DEF Basic, TypeOK
    <3> QED  BY <1>4, <3>1 DEF Basic, TypeOK, Delivery
  <2> QED  BY <2>1, <2>2
<1>9. DeliveryCountSound'
  <2>1. /\ \A p \in Places : \A i \in 1..Len(queue'[p]) :
             queue'[p][i].dc <= count'[queue'[p][i].msg]
        /\ \A p \in Places : work'[p].stage # "idle" => work'[p].dc <= count'[work'[p].msg]
    BY <1>1, <1>5, DispatchAccounted DEF dispatchVars
  <2>2. /\ \A m \in Ids : count'[m] > 0 => m <= Len(stream')
        /\ \A m \in pel' : count'[m] > 0
    BY <1>1, <1>5 DEF Basic, TypeOK, DeliveryCountSound
  <2> QED  BY <1>1, <1>8, <2>1, <2>2 DEF Basic, DeliveryCountSound
<1> QED  BY <1>7, <1>9 DEF Basic

LEMMA CycleBasic ==
  ASSUME Basic, NEW n \in Nodes, EndCycle(n) \/ LoopError(n)
  PROVE  Basic'
<1>1. /\ stream' = stream /\ count' = count /\ pel' = pel /\ dedup' = dedup
      /\ dlq' = dlq /\ removed' = removed /\ node' = node
      /\ queue' = queue /\ work' = work /\ admin' = admin
      /\ done' = done /\ tries' = tries
  BY DEF EndCycle, LoopError, redisVars, dispatchVars, ghostVars
<1>2. faults' \in [FaultKinds -> Nat]
  BY SpendType DEF EndCycle, LoopError, Basic, TypeOK, FaultKinds
<1>3. /\ phase' \in [Nodes -> {"read", "reclaim", "ended"}]
      /\ batch' \in [Nodes -> SUBSET Delivery]
      /\ scan' \in [Nodes -> SUBSET Streams]
      /\ todo' \in [Nodes -> SUBSET Delivery]
  BY DEF EndCycle, LoopError, Basic, TypeOK
<1>4. \A k \in Nodes : batch'[k] \cup todo'[k] \subseteq batch[k] \cup todo[k]
  BY DEF EndCycle, LoopError, Basic, TypeOK
<1>5. TypeOK'
  BY <1>1, <1>2, <1>3 DEF Basic, TypeOK
<1>6. DeliveryCountSound'
  BY <1>1, <1>4 DEF Basic, DeliveryCountSound
<1> QED  BY <1>5, <1>6 DEF Basic

\* A worker that moves to another stage of the same delivery, or drops it.
LEMMA WorkAccounted ==
  ASSUME Basic, NEW p \in Places, NEW stage \in Stages \ {"idle"},
         work[p].stage # "idle",
         \/ work' = [work EXCEPT ![p].stage = stage]
         \/ work' = [work EXCEPT ![p] = NoWork]
  PROVE  /\ work' \in [Places -> {NoWork} \cup
                         [stage : Stages \ {"idle"}, msg : Ids, dc : Nat \ {0}]]
         /\ \A q \in Places : work'[q].stage # "idle" =>
              /\ work[q].stage # "idle"
              /\ work'[q].msg = work[q].msg
              /\ work'[q].dc = work[q].dc
         /\ \A q \in Places : work'[q].stage # "idle" => work'[q].dc <= count[work'[q].msg]
<1>1. work[p] \in [stage : Stages \ {"idle"}, msg : Ids, dc : Nat \ {0}]
  BY HeldTypes DEF Basic
<1>2. [work[p] EXCEPT !.stage = stage]
        \in [stage : Stages \ {"idle"}, msg : Ids, dc : Nat \ {0}]
  BY <1>1
<1>3. work \in [Places -> {NoWork} \cup
                  [stage : Stages \ {"idle"}, msg : Ids, dc : Nat \ {0}]]
  BY DEF Basic, TypeOK
<1>4. work' \in [Places -> {NoWork} \cup
                   [stage : Stages \ {"idle"}, msg : Ids, dc : Nat \ {0}]]
  BY <1>2, <1>3
<1>5. ASSUME NEW q \in Places, work'[q].stage # "idle"
      PROVE  /\ work[q].stage # "idle"
             /\ work'[q].msg = work[q].msg
             /\ work'[q].dc = work[q].dc
  <2>1. CASE q = p
    <3>1. work'[p] # NoWork
      BY <1>5, <2>1 DEF NoWork
    <3>2. work'[p] = [work[p] EXCEPT !.stage = stage]
      BY <1>3, <3>1
    <3> QED  BY <1>1, <2>1, <3>2
  <2>2. CASE q # p
    <3>1. work'[q] = work[q]
      BY <1>3, <2>2
    <3> QED  BY <1>5, <3>1
  <2> QED  BY <2>1, <2>2
<1>6. \A q \in Places : work'[q].stage # "idle" => work'[q].dc <= count[work'[q].msg]
  BY <1>5 DEF Basic, DeliveryCountSound
<1> QED  BY <1>4, <1>5, <1>6

\* The event of the delivery a worker holds is one of Events.
LEMMA WorkEvent ==
  ASSUME Basic, NEW p \in Places, work[p].stage # "idle"
  PROVE  work[p].msg \in Ids /\ EventOf(work[p].msg) \in Events
  BY HeldTypes, HeldPublished DEF Basic

LEMMA TakeBasic ==
  ASSUME Basic, NEW p \in Places, Take(p)
  PROVE  Basic'
<1> DEFINE d == Head(queue[p])
<1>1. /\ queue[p] # <<>>
      /\ work' = [work EXCEPT ![p] = [stage |-> "dedup", msg |-> d.msg, dc |-> d.dc]]
      /\ queue' = [queue EXCEPT ![p] = Tail(@)]
      /\ stream' = stream /\ count' = count /\ pel' = pel /\ dedup' = dedup
      /\ dlq' = dlq /\ removed' = removed /\ node' = node /\ phase' = phase
      /\ batch' = batch /\ scan' = scan /\ todo' = todo /\ admin' = admin /\ faults' = faults
      /\ done' = done /\ tries' = tries
  BY DEF Take, redisVars, readerVars, ghostVars
<1>2. queue \in [Places -> Seq(Delivery)] /\ queue[p] \in Seq(Delivery)
  BY DEF Basic, TypeOK
<1>3. /\ d \in Delivery
      /\ d = queue[p][1]
      /\ Tail(queue[p]) \in Seq(Delivery)
      /\ Len(queue[p]) \in Nat \ {0}
      /\ Len(Tail(queue[p])) = Len(queue[p]) - 1
      /\ \A i \in 1..Len(Tail(queue[p])) : Tail(queue[p])[i] = queue[p][i + 1]
  BY <1>1, <1>2, QueueTail
<1>4. queue' \in [Places -> Seq(Delivery)]
  BY <1>1, <1>2, <1>3
<1>5. d.dc <= count[d.msg]
  BY <1>3 DEF Basic, DeliveryCountSound
<1>6. [stage |-> "dedup", msg |-> d.msg, dc |-> d.dc]
        \in [stage : Stages \ {"idle"}, msg : Ids, dc : Nat \ {0}]
  BY <1>3 DEF Delivery, Stages
<1>7. work' \in [Places -> {NoWork} \cup
                   [stage : Stages \ {"idle"}, msg : Ids, dc : Nat \ {0}]]
  <2>1. work \in [Places -> {NoWork} \cup
                   [stage : Stages \ {"idle"}, msg : Ids, dc : Nat \ {0}]]
    BY DEF Basic, TypeOK
  <2> QED  BY <1>1, <1>6, <2>1
<1>8. TypeOK'
  BY <1>1, <1>4, <1>7 DEF Basic, TypeOK
<1>9. ASSUME NEW q \in Places, NEW i \in 1..Len(queue'[q])
      PROVE  queue'[q][i].dc <= count[queue'[q][i].msg]
  <2>1. CASE q = p
    <3>1. queue'[p] = Tail(queue[p])
      BY <1>1, <1>2
    <3>2. i + 1 \in 1..Len(queue[p]) /\ queue'[p][i] = queue[p][i + 1]
      BY <1>3, <2>1, <3>1
    <3> QED  BY <2>1, <3>2 DEF Basic, DeliveryCountSound
  <2>2. CASE q # p
    <3>1. queue'[q] = queue[q]
      BY <1>1, <1>2, <2>2
    <3> QED  BY <3>1 DEF Basic, DeliveryCountSound
  <2> QED  BY <2>1, <2>2
<1>10. ASSUME NEW q \in Places, work'[q].stage # "idle"
       PROVE  work'[q].dc <= count[work'[q].msg]
  <2>1. work \in [Places -> {NoWork} \cup
                   [stage : Stages \ {"idle"}, msg : Ids, dc : Nat \ {0}]]
    BY DEF Basic, TypeOK
  <2>2. CASE q = p
    <3>1. work'[p] = [stage |-> "dedup", msg |-> d.msg, dc |-> d.dc]
      BY <1>1, <2>1
    <3> QED  BY <1>5, <2>2, <3>1
  <2>3. CASE q # p
    <3>1. work'[q] = work[q]
      BY <1>1, <2>1, <2>3
    <3> QED  BY <1>10, <3>1 DEF Basic, DeliveryCountSound
  <2> QED  BY <2>2, <2>3
<1>11. DeliveryCountSound'
  BY <1>1, <1>9, <1>10 DEF Basic, DeliveryCountSound
<1> QED  BY <1>8, <1>11 DEF Basic

\* Every step of _process after Take changes only the place's stage and some
\* of pel, dedup, dlq, faults, done and tries.
LEMMA ProcessBasic ==
  ASSUME Basic, NEW p \in Places, work[p].stage # "idle",
         NEW stage \in Stages \ {"idle"},
         \/ work' = [work EXCEPT ![p].stage = stage]
         \/ work' = [work EXCEPT ![p] = NoWork],
         UNCHANGED <<stream, count, removed, node, readerVars, queue, admin>>,
         pel' \subseteq pel, dedup' \subseteq Events,
         dlq' = dlq \/ dlq' = Append(dlq, EventOf(work[p].msg)),
         faults' \in [FaultKinds -> Nat], done' \subseteq Events,
         tries' \in [Events -> Nat]
  PROVE  Basic'
<1>1. /\ stream' = stream /\ count' = count /\ removed' = removed /\ node' = node
      /\ phase' = phase /\ batch' = batch /\ scan' = scan /\ todo' = todo /\ queue' = queue
      /\ admin' = admin
  BY DEF readerVars
<1>2. /\ work' \in [Places -> {NoWork} \cup
                      [stage : Stages \ {"idle"}, msg : Ids, dc : Nat \ {0}]]
      /\ \A q \in Places : work'[q].stage # "idle" => work'[q].dc <= count[work'[q].msg]
  BY WorkAccounted
<1>3. dlq' \in Seq(Events) /\ 1..Len(dlq) \subseteq 1..Len(dlq')
  <2>1. EventOf(work[p].msg) \in Events /\ dlq \in Seq(Events)
    BY WorkEvent DEF Basic, TypeOK
  <2>2. CASE dlq' = dlq
    BY <2>1, <2>2
  <2>3. CASE dlq' = Append(dlq, EventOf(work[p].msg))
    <3>1. dlq' \in Seq(Events) /\ Len(dlq') = Len(dlq) + 1 /\ Len(dlq) \in Nat
      <4> HIDE DEF EventOf
      <4> QED  BY <2>1, <2>3, QueueAppend
    <3> QED  BY <3>1
  <2> QED  BY <2>2, <2>3
<1>4. TypeOK'
  BY <1>1, <1>2, <1>3 DEF Basic, TypeOK
<1>5. DeliveryCountSound'
  BY <1>1, <1>2, <1>3 DEF Basic, DeliveryCountSound
<1> QED  BY <1>4, <1>5 DEF Basic

LEMMA ProcessStepBasic ==
  ASSUME Basic, NEW p \in Places, Process(p) \/ CommandError(p)
  PROVE  Basic'
<1> USE DEF At, Stages
<1>1. CASE Take(p)
  BY <1>1, TakeBasic
<1> DEFINE e == EventOf(work[p].msg)
<1>2. /\ pel \subseteq Ids /\ dedup \subseteq Events /\ done \subseteq Events
      /\ tries \in [Events -> Nat] /\ faults \in [FaultKinds -> Nat]
  BY DEF Basic, TypeOK
<1>3. CASE SetDedup(p)
  <2>1. work[p].stage # "idle" /\ e \in Events
    BY <1>3, WorkEvent DEF SetDedup
  <2>2. PICK stage \in Stages \ {"idle"} : work' = [work EXCEPT ![p].stage = stage]
    BY <1>3 DEF SetDedup
  <2>3. /\ dedup' = dedup \cup {e} /\ done' = done /\ tries' = tries
        /\ UNCHANGED <<stream, count, pel, dlq, removed, node, readerVars, queue, admin,
                        faults>>
    BY <1>3 DEF SetDedup, ghostVars
  <2>4. dedup' \subseteq Events
    BY <1>2, <2>1, <2>3
  <2> HIDE DEF e, At, Stages
  <2> QED  BY <1>2, <2>1, <2>2, <2>3, <2>4, ProcessBasic
<1>4. CASE HandlerReturns(p)
  <2>1. work[p].stage # "idle" /\ e \in Events
    BY <1>4, WorkEvent DEF HandlerReturns
  <2> QED  BY <1>2, <1>4, <2>1, ProcessBasic DEF HandlerReturns, redisVars
<1>5. CASE HandlerRaises(p)
  <2>1. work[p].stage # "idle" /\ e \in Events
    BY <1>5, WorkEvent DEF HandlerRaises
  <2>2. tries' \in [Events -> Nat]
    BY <1>2, <1>5, <2>1 DEF HandlerRaises
  <2> QED  BY <1>2, <1>5, <2>1, <2>2, ProcessBasic DEF HandlerRaises, redisVars
<1>6. CASE Release(p)
  <2>1. work[p].stage # "idle" /\ e \in Events
    BY <1>6, WorkEvent DEF Release
  <2>2. \/ work' = [work EXCEPT ![p].stage = "dlq"]
        \/ work' = [work EXCEPT ![p] = NoWork]
    BY <1>6 DEF Release, Basic, TypeOK
  <2> QED  BY <1>2, <1>6, <2>1, <2>2, ProcessBasic DEF Release, ghostVars
<1>7. CASE ToDlq(p)
  <2>1. work[p].stage # "idle" /\ e \in Events
    BY <1>7, WorkEvent DEF ToDlq
  <2> QED  BY <1>2, <1>7, <2>1, ProcessBasic DEF ToDlq, ghostVars
<1>8. CASE Ack(p)
  <2>1. work[p].stage # "idle" /\ "ack" \in Stages \ {"idle"}
    BY <1>8 DEF Ack
  <2> QED  BY <1>2, <1>8, <2>1, ProcessBasic DEF Ack, ghostVars
<1>9. CASE CommandError(p)
  <2>1. work[p].stage # "idle" /\ e \in Events /\ "ack" \in Stages \ {"idle"}
    BY <1>9, WorkEvent DEF CommandError
  <2>2. faults' \in [FaultKinds -> Nat]
    BY <1>9, SpendType DEF CommandError, Basic, FaultKinds
  <2>3. dedup' \subseteq Events /\ (dlq' = dlq \/ dlq' = Append(dlq, e))
    BY <1>2, <1>9, <2>1 DEF CommandError
  <2> QED  BY <1>2, <1>9, <2>1, <2>2, <2>3, ProcessBasic DEF CommandError, ghostVars
<1> QED  BY <1>1, <1>3, <1>4, <1>5, <1>6, <1>7, <1>8, <1>9 DEF Process

LEMMA RedriveBasic ==
  ASSUME Basic, NEW a \in Admins, Redrive(a) \/ RedriveAbandoned(a)
  PROVE  Basic'
<1> DEFINE AdminType == [Admins -> {NoOp} \cup [step : {"dedup", "publish", "xdel"}, entry : Nat]]
<1>1. /\ admin \in AdminType /\ dlq \in Seq(Events) /\ Len(dlq) \in Nat
      /\ tries \in [Events -> Nat] /\ removed \subseteq Nat
  BY DEF Basic, TypeOK
<1>2. /\ count' = count /\ pel' = pel /\ dlq' = dlq /\ node' = node
      /\ phase' = phase /\ batch' = batch /\ scan' = scan /\ todo' = todo /\ queue' = queue
      /\ work' = work /\ done' = done
  BY DEF Redrive, RedriveFind, RedriveDelDedup, RedrivePublish, RedriveXdel,
         RedriveAbandoned, redisVars, readerVars, dispatchVars, ghostVars
<1>3. admin[a].step # "none" => /\ admin[a] \in [step : {"dedup", "publish", "xdel"}, entry : Nat]
                                /\ admin[a].entry \in 1..Len(dlq)
                                /\ dlq[admin[a].entry] \in Events
  <2>1. admin[a].step # "none" => admin[a] \in [step : {"dedup", "publish", "xdel"}, entry : Nat]
    BY <1>1 DEF NoOp
  <2>2. admin[a].step # "none" => admin[a].entry \in 1..Len(dlq)
    BY DEF Basic, DeliveryCountSound
  <2> QED  BY <1>1, <2>1, <2>2
<1>4. /\ admin' \in AdminType
      /\ \A b \in Admins : admin'[b].step # "none" => admin'[b].entry \in 1..Len(dlq)
  <2>1. CASE RedriveFind(a)
    <3>1. PICK i \in 1..Len(dlq) :
            admin' = [admin EXCEPT ![a] = [step |-> "dedup", entry |-> i]]
      BY <2>1 DEF RedriveFind
    <3>2. [step |-> "dedup", entry |-> i] \in [step : {"dedup", "publish", "xdel"}, entry : Nat]
      BY <1>1
    <3> QED  BY <1>1, <3>1, <3>2 DEF Basic, DeliveryCountSound
  <2>2. CASE RedriveDelDedup(a) \/ RedrivePublish(a)
    <3>1. PICK st \in {"publish", "xdel"} :
            admin' = [admin EXCEPT ![a].step = st] /\ admin[a].step # "none"
      BY <2>2 DEF RedriveDelDedup, RedrivePublish
    <3>2. [admin[a] EXCEPT !.step = st] \in [step : {"dedup", "publish", "xdel"}, entry : Nat]
      BY <1>3, <3>1
    <3>3. [admin[a] EXCEPT !.step = st].entry = admin[a].entry
      BY <1>3, <3>1
    <3> QED  BY <1>1, <1>3, <3>1, <3>2, <3>3 DEF Basic, DeliveryCountSound
  <2>3. CASE RedriveXdel(a) \/ RedriveAbandoned(a)
    <3>1. admin' = [admin EXCEPT ![a] = NoOp]
      BY <2>3 DEF RedriveXdel, RedriveAbandoned
    <3> QED  BY <1>1, <3>1 DEF Basic, DeliveryCountSound, NoOp
  <2> QED  BY <2>1, <2>2, <2>3 DEF Redrive
<1>5. /\ stream' \in Seq(Events) /\ Len(stream') <= MaxMsgs
      /\ Len(stream) \in Nat /\ Len(stream') \in Nat /\ Len(stream) <= Len(stream')
  <2>1. CASE RedrivePublish(a)
    <3>1. Append1(dlq[admin[a].entry]) /\ dlq[admin[a].entry] \in Events
      BY <1>3, <2>1 DEF RedrivePublish
    <3>2. stream' \in Seq(Events) /\ Len(stream') = Len(stream) + 1 /\ Len(stream') <= MaxMsgs
      BY <3>1, AppendBasic
    <3>3. Len(stream) \in Nat
      BY DEF Basic, TypeOK
    <3> QED  BY <3>2, <3>3
  <2>2. CASE ~RedrivePublish(a)
    <3>1. stream' = stream
      BY <2>2 DEF Redrive, RedriveFind, RedriveDelDedup, RedriveXdel,
                  RedriveAbandoned, redisVars
    <3> QED  BY <3>1 DEF Basic, TypeOK
  <2> QED  BY <2>1, <2>2
<1>6. dedup' \subseteq Events /\ removed' \subseteq Nat /\ tries' \in [Events -> Nat]
  <2>1. dedup \subseteq Events
    BY DEF Basic, TypeOK
  <2>2. removed' \subseteq Nat
    BY <1>1, <1>3 DEF Redrive, RedriveFind, RedriveDelDedup, RedrivePublish, RedriveXdel,
                      RedriveAbandoned, redisVars
  <2>3. tries' \in [Events -> Nat]
    BY <1>1, <1>3 DEF Redrive, RedriveFind, RedriveDelDedup, RedrivePublish, RedriveXdel,
                      RedriveAbandoned, ghostVars
  <2>4. dedup' \subseteq dedup
    BY DEF Redrive, RedriveFind, RedriveDelDedup, RedrivePublish, RedriveXdel,
           RedriveAbandoned, redisVars
  <2> QED  BY <2>1, <2>2, <2>3, <2>4
<1>7. faults' \in [FaultKinds -> Nat]
  <2>1. CASE RedriveAbandoned(a)
    BY <2>1, SpendType DEF RedriveAbandoned, Basic, FaultKinds
  <2>2. CASE Redrive(a)
    <3>1. faults' = faults
      BY <2>2 DEF Redrive, RedriveFind, RedriveDelDedup, RedrivePublish, RedriveXdel
    <3> QED  BY <3>1 DEF Basic, TypeOK
  <2> QED  BY <2>1, <2>2
<1>8. TypeOK'
  BY <1>2, <1>4, <1>5, <1>6, <1>7 DEF Basic, TypeOK
<1>9. \A m \in Ids : count'[m] > 0 => m <= Len(stream')
  <2>1. \A m \in Ids : count[m] > 0 => m <= Len(stream)
    BY DEF Basic, DeliveryCountSound
  <2> QED  BY <1>2, <1>5, <2>1 DEF Ids
<1>10. DeliveryCountSound'
  BY <1>2, <1>4, <1>9 DEF Basic, DeliveryCountSound
<1> QED  BY <1>8, <1>10 DEF Basic

LEMMA CrashBasic ==
  ASSUME Basic, NEW n \in Nodes, Crash(n)
  PROVE  Basic'
<1>1. /\ node' = [node EXCEPT ![n] = "down"]
      /\ phase' = [phase EXCEPT ![n] = "ended"]
      /\ batch' = [batch EXCEPT ![n] = {}]
      /\ scan' = [scan EXCEPT ![n] = {}]
      /\ todo' = [todo EXCEPT ![n] = {}]
      /\ queue' = [p \in Places |-> IF p[1] = n THEN <<>> ELSE queue[p]]
      /\ work' = [p \in Places |-> IF p[1] = n THEN NoWork ELSE work[p]]
      /\ stream' = stream /\ count' = count /\ pel' = pel /\ dedup' = dedup
      /\ dlq' = dlq /\ removed' = removed /\ admin' = admin /\ done' = done
      /\ tries' = tries
  BY DEF Crash, redisVars, ghostVars
<1>2. faults' \in [FaultKinds -> Nat]
  BY SpendType DEF Crash, Basic, FaultKinds
<1>3. /\ queue' \in [Places -> Seq(Delivery)]
      /\ work' \in [Places -> {NoWork} \cup
                      [stage : Stages \ {"idle"}, msg : Ids, dc : Nat \ {0}]]
      /\ batch' \in [Nodes -> SUBSET Delivery]
      /\ scan' \in [Nodes -> SUBSET Streams]
      /\ todo' \in [Nodes -> SUBSET Delivery]
  BY <1>1 DEF Basic, TypeOK
<1>4. TypeOK'
  BY <1>1, <1>2, <1>3 DEF Basic, TypeOK
<1>5. \A k \in Nodes : batch'[k] \cup todo'[k] \subseteq batch[k] \cup todo[k]
  BY <1>1 DEF Basic, TypeOK
<1>6. /\ \A p \in Places : queue'[p] = <<>> \/ queue'[p] = queue[p]
      /\ \A p \in Places : work'[p] = NoWork \/ work'[p] = work[p]
  BY <1>1
<1>7. DeliveryCountSound'
  <2>1. \A p \in Places : \A i \in 1..Len(queue'[p]) :
           queue'[p][i].dc <= count[queue'[p][i].msg]
    BY <1>6 DEF Basic, DeliveryCountSound
  <2>2. \A p \in Places : work'[p].stage # "idle" => work'[p].dc <= count[work'[p].msg]
    BY <1>6 DEF Basic, DeliveryCountSound, NoWork
  <2> QED  BY <1>1, <1>5, <2>1, <2>2 DEF Basic, DeliveryCountSound
<1> QED  BY <1>4, <1>7 DEF Basic

\* Stop, Stopped and Start move a process between its three states.
LEMMA LifeCycleBasic ==
  ASSUME Basic, NEW n \in Nodes, Stop(n) \/ Stopped(n) \/ Start(n)
  PROVE  Basic'
<1>1. /\ stream' = stream /\ count' = count /\ pel' = pel /\ dedup' = dedup
      /\ dlq' = dlq /\ removed' = removed /\ batch' = batch /\ scan' = scan /\ todo' = todo
      /\ queue' = queue /\ work' = work /\ admin' = admin /\ done' = done
      /\ tries' = tries
  BY DEF Stop, Stopped, Start, redisVars, readerVars, dispatchVars, ghostVars
<1>2. /\ node' \in [Nodes -> {"up", "stopping", "down"}]
      /\ phase' \in [Nodes -> {"read", "reclaim", "ended"}]
  BY DEF Stop, Stopped, Start, Basic, TypeOK, readerVars
<1>3. faults' \in [FaultKinds -> Nat]
  BY SpendType DEF Stop, Stopped, Start, Basic, TypeOK, FaultKinds
<1>4. TypeOK'
  BY <1>1, <1>2, <1>3 DEF Basic, TypeOK
<1>5. DeliveryCountSound'
  BY <1>1 DEF Basic, DeliveryCountSound
<1> QED  BY <1>4, <1>5 DEF Basic

LEMMA ExpiryBasic ==
  ASSUME Basic, NEW e \in Events, DedupExpires(e)
  PROVE  Basic'
<1>1. /\ stream' = stream /\ count' = count /\ pel' = pel /\ dlq' = dlq
      /\ removed' = removed /\ node' = node /\ phase' = phase /\ batch' = batch
      /\ scan' = scan /\ todo' = todo /\ queue' = queue /\ work' = work /\ admin' = admin
      /\ done' = done /\ tries' = tries
  BY DEF DedupExpires, readerVars, dispatchVars, ghostVars
<1>2. dedup' \subseteq Events /\ faults' \in [FaultKinds -> Nat]
  BY SpendType DEF DedupExpires, Basic, TypeOK, FaultKinds
<1>3. TypeOK'
  BY <1>1, <1>2 DEF Basic, TypeOK
<1>4. DeliveryCountSound'
  BY <1>1 DEF Basic, DeliveryCountSound
<1> QED  BY <1>3, <1>4 DEF Basic

LEMMA StutterBasic == Basic /\ UNCHANGED vars => Basic'
<1> SUFFICES ASSUME Basic, UNCHANGED vars PROVE Basic'
  OBVIOUS
<1>1. /\ stream' = stream /\ count' = count /\ pel' = pel /\ dedup' = dedup
      /\ dlq' = dlq /\ removed' = removed /\ node' = node /\ phase' = phase
      /\ batch' = batch /\ scan' = scan /\ todo' = todo /\ queue' = queue /\ work' = work
      /\ admin' = admin /\ faults' = faults /\ done' = done /\ tries' = tries
  BY DEF vars, redisVars, readerVars, dispatchVars, ghostVars
<1> QED  BY <1>1 DEF Basic, TypeOK, DeliveryCountSound

LEMMA NextBasic == Basic /\ [Next]_vars => Basic'
<1> SUFFICES ASSUME Basic, [Next]_vars PROVE Basic'
  OBVIOUS
<1>1. CASE UNCHANGED vars
  BY <1>1, StutterBasic
<1>2. ASSUME NEW e \in Events, Publish(e) \/ PublishDuplicate(e) \/ DedupExpires(e)
      PROVE  Basic'
  BY <1>2, PublishBasic, ExpiryBasic
<1>3. ASSUME NEW n \in Nodes,
             Loop(n) \/ LoopError(n) \/ Stop(n) \/ Stopped(n) \/ Start(n) \/ Crash(n)
      PROVE  Basic'
  BY <1>3, ReadGroupBasic, SubmitBasic, ListPendingBasic, XClaimBasic, CycleBasic,
     LifeCycleBasic, CrashBasic DEF Loop
<1>4. ASSUME NEW p \in Places, Process(p) \/ CommandError(p)
      PROVE  Basic'
  BY <1>4, ProcessStepBasic
<1>5. ASSUME NEW a \in Admins, Redrive(a) \/ RedriveAbandoned(a)
      PROVE  Basic'
  BY <1>5, RedriveBasic
<1> QED  BY <1>1, <1>2, <1>3, <1>4, <1>5 DEF Next

THEOREM BasicHolds == Spec => []Basic
<1>1. Init => Basic
  BY InitBasic
<1>2. Basic /\ [Next]_vars => Basic'
  BY NextBasic
<1> QED  BY <1>1, <1>2, PTL DEF Spec

\* Every variable keeps its type: TypeOK, under any faults.
THEOREM TypeCorrect == Spec => []TypeOK
<1>1. Basic => TypeOK
  BY DEF Basic
<1> QED  BY <1>1, BasicHolds, PTL

\* The attempt number _process compares with max_attempts never exceeds the
\* number of deliveries Redis counted, whatever crashes, errors, reclaims and
\* redrives happen.
THEOREM DeliveryCountNeverAhead == Spec => []DeliveryCountSound
<1>1. Basic => DeliveryCountSound
  BY DEF Basic
<1> QED  BY <1>1, BasicHolds, PTL

-----------------------------------------------------------------------------
(***************************************************************************)
(* At-least-once delivery: as long as no process crashed, no Redis command *)
(* failed and no delivery outlived retry_min_idle_ms, no event is lost,    *)
(* for any number of processes, workers, events, duplicated publications,  *)
(* expired dedup keys, restarts and concurrent redrives.                   *)
(***************************************************************************)

\* The step does no harm.
Harmless == Unharmed'

LEMMA HarmCounted ==
  ASSUME Basic
  PROVE  faults["crash"] \in Nat /\ faults["error"] \in Nat /\ faults["slow"] \in Nat
<1>1. \A k \in FaultKinds : faults[k] \in Nat
  BY DEF Basic, TypeOK
<1> QED  BY <1>1 DEF FaultKinds

\* A fault is counted: what does no harm is none, and reclaims nothing a process works on.
LEMMA NoFaultSteps ==
  ASSUME Basic, Harmless
  PROVE  /\ \A n \in Nodes : ~LoopError(n) /\ ~Crash(n)
         /\ \A p \in Places : ~CommandError(p)
         /\ ~Spend("slow", MaxSlow)
<1>1. \A k \in FaultKinds : \A b : Spend(k, b) => faults'[k] = faults[k] + 1
  BY DEF Basic, TypeOK, Spend
<1>2. \A b : ~Spend("crash", b) /\ ~Spend("error", b) /\ ~Spend("slow", b)
  BY <1>1, HarmCounted DEF FaultKinds, Harmless, Unharmed
<1> QED  BY <1>2 DEF LoopError, Crash, CommandError

-----------------------------------------------------------------------------
(* No message is held twice.                                               *)

\* Steps that hand nothing over: what is held afterwards was held before.
LEMMA HeldOnceFrame ==
  ASSUME HeldOnce, queue' = queue,
         \A n \in Nodes : batch'[n] \subseteq batch[n],
         \A p \in Places : work'[p].stage # "idle" =>
            work[p].stage # "idle" /\ work'[p].msg = work[p].msg
  PROVE  HeldOnce'
<1>1. \A p \in Places : \A m : Holds(p, m)' => Holds(p, m)
  BY DEF Holds
<1>2. (\A n, k \in Nodes : \A d \in batch[n], x \in batch[k] :
         d.msg = x.msg => n = k /\ d = x)'
  BY DEF HeldOnce
<1>3. (\A p, q \in Places : \A i \in 1..Len(queue[p]), j \in 1..Len(queue[q]) :
         queue[p][i].msg = queue[q][j].msg => p = q /\ i = j)'
  BY DEF HeldOnce
<1>4. (\A p, q \in Places : \A m \in Ids : Holds(p, m) /\ Holds(q, m) => p = q)'
  BY <1>1 DEF HeldOnce
<1>5. (\A n \in Nodes : \A d \in batch[n] : \A p \in Places :
         ~Holds(p, d.msg) /\ \A i \in 1..Len(queue[p]) : queue[p][i].msg # d.msg)'
  BY <1>1 DEF HeldOnce
<1>6. (\A p, q \in Places : \A i \in 1..Len(queue[p]) : ~Holds(q, queue[p][i].msg))'
  BY <1>1 DEF HeldOnce
<1> QED  BY <1>2, <1>3, <1>4, <1>5, <1>6 DEF HeldOnce

\* Messages nobody holds enter the batch of one process.
LEMMA HeldOnceEnter ==
  ASSUME HeldOnce, UNCHANGED <<queue, work>>, NEW n \in Nodes, NEW S,
         batch' = [batch EXCEPT ![n] = S], batch \in [Nodes -> SUBSET Delivery],
         \A d, x \in S : d.msg = x.msg => d = x,
         \A d \in S : d \in Delivery /\ ~InHands(d.msg)
  PROVE  HeldOnce'
<1>1. \A k \in Nodes : batch'[k] = IF k = n THEN S ELSE batch[k]
  OBVIOUS
<1>2. \A d \in S : \A k \in Nodes : \A x \in batch[k] : x.msg # d.msg
  BY DEF InHands
<1>3. (\A k1, k2 \in Nodes : \A d \in batch[k1], x \in batch[k2] :
         d.msg = x.msg => k1 = k2 /\ d = x)'
  BY <1>1, <1>2 DEF HeldOnce
<1>4. \A d \in S : \A p \in Places :
        ~Holds(p, d.msg) /\ \A i \in 1..Len(queue[p]) : queue[p][i].msg # d.msg
  BY DEF InHands, Holds, QueuedMsgs
<1>5. (\A k \in Nodes : \A d \in batch[k] : \A p \in Places :
         ~Holds(p, d.msg) /\ \A i \in 1..Len(queue[p]) : queue[p][i].msg # d.msg)'
  BY <1>1, <1>4 DEF HeldOnce, Holds
<1> QED  BY <1>3, <1>5 DEF HeldOnce, Holds

LEMMA HeldOnceSubmit ==
  ASSUME Basic, HeldOnce, NEW n \in Nodes, Submit(n)
  PROVE  HeldOnce'
<1>1. PICK d \in batch[n] :
        LET p == <<n, Worker(d.msg)>> IN
        /\ queue' = [queue EXCEPT ![p] = Append(@, d)]
        /\ batch' = [batch EXCEPT ![n] = @ \ {d}]
        /\ work' = work
  BY DEF Submit
<1> DEFINE p == <<n, Worker(d.msg)>>
<1>2. p \in Places
  <2>1. d \in Delivery /\ d.dc <= count[d.msg]
    BY HeldTypes DEF Basic, DeliveryCountSound
  <2>2. EventOf(d.msg) \in Events
    BY <2>1, HeldPublished DEF Delivery, Basic
  <2> QED  BY <2>2, ConstantsAssumption DEF Worker, Places
<1>3. /\ queue \in [Places -> Seq(Delivery)]
      /\ batch \in [Nodes -> SUBSET Delivery]
      /\ d \in Delivery
  BY DEF Basic, TypeOK
<1>4. queue' = [queue EXCEPT ![p] = Append(@, d)]
  BY <1>1
<1> HIDE DEF p
<1>5. /\ \A q \in Places : q # p => queue'[q] = queue[q]
      /\ queue'[p] = Append(queue[p], d)
      /\ Len(queue'[p]) = Len(queue[p]) + 1
      /\ Len(queue[p]) \in Nat
      /\ \A i \in 1..Len(queue'[p]) :
           queue'[p][i] = IF i = Len(queue[p]) + 1 THEN d ELSE queue[p][i]
  BY <1>2, <1>3, <1>4, QueueAppend
\* Every queued entry was queued before at the same position, or is d.
<1>6. ASSUME NEW q \in Places, NEW i \in 1..Len(queue'[q])
      PROVE  \/ i \in 1..Len(queue[q]) /\ queue'[q][i] = queue[q][i]
             \/ q = p /\ i = Len(queue[p]) + 1 /\ queue'[q][i] = d
  <2>1. CASE q = p
    BY <1>5, <2>1
  <2>2. CASE q # p
    BY <1>5, <2>2
  <2> QED  BY <2>1, <2>2
<1>7. \A q \in Places : \A i \in 1..Len(queue[q]) : queue[q][i].msg # d.msg
  BY DEF HeldOnce
<1>8. \A k \in Nodes : \A x \in batch'[k] : x \in batch[k] /\ x.msg # d.msg
  BY <1>1, <1>3 DEF HeldOnce
<1>9. \A q \in Places : \A m : Holds(q, m)' <=> Holds(q, m)
  BY <1>1 DEF Holds
<1>10. (\A k1, k2 \in Nodes : \A x \in batch[k1], y \in batch[k2] :
          x.msg = y.msg => k1 = k2 /\ x = y)'
  BY <1>8 DEF HeldOnce
<1>11. ASSUME NEW q \in Places, NEW r \in Places,
              NEW i \in 1..Len(queue'[q]), NEW j \in 1..Len(queue'[r]),
              queue'[q][i].msg = queue'[r][j].msg
       PROVE  q = r /\ i = j
  <2>1. CASE i \in 1..Len(queue[q]) /\ queue'[q][i] = queue[q][i]
    <3>1. j \in 1..Len(queue[r]) /\ queue'[r][j] = queue[r][j]
      BY <1>6, <1>7, <1>11, <2>1
    <3> QED  BY <1>11, <2>1, <3>1 DEF HeldOnce
  <2>2. CASE q = p /\ i = Len(queue[p]) + 1 /\ queue'[q][i] = d
    <3>1. r = p /\ j = Len(queue[p]) + 1
      BY <1>6, <1>7, <1>11, <2>2
    <3> QED  BY <2>2, <3>1
  <2> QED  BY <1>6, <2>1, <2>2
<1>12. (\A k \in Nodes : \A x \in batch[k] : \A q \in Places :
          ~Holds(q, x.msg) /\ \A i \in 1..Len(queue[q]) : queue[q][i].msg # x.msg)'
  BY <1>6, <1>8, <1>9 DEF HeldOnce
<1>13. (\A q, r \in Places : \A i \in 1..Len(queue[q]) : ~Holds(r, queue[q][i].msg))'
  BY <1>6, <1>9 DEF HeldOnce
<1>14. (\A q, r \in Places : \A m \in Ids : Holds(q, m) /\ Holds(r, m) => q = r)'
  BY <1>9 DEF HeldOnce
<1> QED  BY <1>10, <1>11, <1>12, <1>13, <1>14 DEF HeldOnce

LEMMA HeldOnceTake ==
  ASSUME Basic, HeldOnce, NEW p \in Places, Take(p)
  PROVE  HeldOnce'
<1> DEFINE d == Head(queue[p])
<1>1. /\ queue[p] # <<>>
      /\ work[p].stage = "idle"
      /\ work' = [work EXCEPT ![p] = [stage |-> "dedup", msg |-> d.msg, dc |-> d.dc]]
      /\ queue' = [queue EXCEPT ![p] = Tail(@)]
      /\ batch' = batch
  BY DEF Take, At, readerVars
<1>2. /\ queue \in [Places -> Seq(Delivery)]
      /\ DOMAIN work = Places
  BY DEF Basic, TypeOK
<1>3. /\ queue[p] \in Seq(Delivery)
      /\ d = queue[p][1]
      /\ 1 \in 1..Len(queue[p])
      /\ Len(queue[p]) \in Nat
      /\ Len(Tail(queue[p])) = Len(queue[p]) - 1
      /\ \A i \in 1..Len(Tail(queue[p])) : Tail(queue[p])[i] = queue[p][i + 1]
  BY <1>1, <1>2, QueueTail
<1> HIDE DEF d
<1>4. /\ \A q \in Places : q # p => queue'[q] = queue[q]
      /\ queue'[p] = Tail(queue[p])
  BY <1>1, <1>2
\* Every queued entry moved up by one in p and stayed where it was elsewhere.
<1>5. ASSUME NEW q \in Places, NEW i \in 1..Len(queue'[q])
      PROVE  LET j == IF q = p THEN i + 1 ELSE i
             IN  j \in 1..Len(queue[q]) /\ queue'[q][i] = queue[q][j]
  <2>1. CASE q = p
    <3>1. /\ Len(queue'[q]) = Len(queue[p]) - 1
          /\ i \in 1..Len(Tail(queue[p]))
          /\ queue'[q][i] = Tail(queue[p])[i]
      BY <1>3, <1>4, <2>1
    <3>2. Tail(queue[p])[i] = queue[p][i + 1] /\ i + 1 \in 1..Len(queue[p])
      BY <1>3, <3>1
    <3> QED  BY <2>1, <3>1, <3>2
  <2>2. CASE q # p
    BY <1>4, <2>2
  <2> QED  BY <2>1, <2>2
<1>6. ASSUME NEW q \in Places, NEW i \in 1..Len(queue'[q])
      PROVE  queue'[q][i].msg # d.msg
  <2>1. CASE q = p
    <3>1. i + 1 \in 1..Len(queue[p]) /\ queue'[q][i] = queue[p][i + 1]
      BY <1>5, <2>1
    <3>2. i + 1 # 1
      OBVIOUS
    <3> QED  BY <1>3, <3>1, <3>2 DEF HeldOnce
  <2>2. CASE q # p
    BY <1>3, <1>5, <2>2 DEF HeldOnce
  <2> QED  BY <2>1, <2>2
<1>7. \A q \in Places : \A m :
        Holds(q, m)' <=> IF q = p THEN m = d.msg ELSE Holds(q, m)
  BY <1>1, <1>2 DEF Holds
<1>8. \A q \in Places : ~Holds(q, d.msg)
  BY <1>3 DEF HeldOnce
<1>9. \A n \in Nodes : \A x \in batch[n] : x.msg # d.msg
  BY <1>3 DEF HeldOnce
<1>10. (\A n, k \in Nodes : \A x \in batch[n], y \in batch[k] :
          x.msg = y.msg => n = k /\ x = y)'
  BY <1>1 DEF HeldOnce
<1>11. ASSUME NEW q \in Places, NEW r \in Places,
              NEW i \in 1..Len(queue'[q]), NEW j \in 1..Len(queue'[r]),
              queue'[q][i].msg = queue'[r][j].msg
       PROVE  q = r /\ i = j
  <2> DEFINE i0 == IF q = p THEN i + 1 ELSE i
  <2> DEFINE j0 == IF r = p THEN j + 1 ELSE j
  <2>1. /\ i0 \in 1..Len(queue[q]) /\ queue'[q][i] = queue[q][i0]
        /\ j0 \in 1..Len(queue[r]) /\ queue'[r][j] = queue[r][j0]
    BY <1>5
  <2>2. q = r /\ i0 = j0
    BY <1>11, <2>1 DEF HeldOnce
  <2> QED  BY <2>2
<1>12. (\A q, r \in Places : \A m \in Ids : Holds(q, m) /\ Holds(r, m) => q = r)'
  BY <1>7, <1>8 DEF HeldOnce
<1>13. (\A n \in Nodes : \A x \in batch[n] : \A q \in Places :
          ~Holds(q, x.msg) /\ \A i \in 1..Len(queue[q]) : queue[q][i].msg # x.msg)'
  <2> SUFFICES ASSUME NEW n \in Nodes, NEW x \in batch[n], NEW q \in Places
               PROVE  ~Holds(q, x.msg)' /\ \A i \in 1..Len(queue'[q]) : queue'[q][i].msg # x.msg
    BY <1>1
  <2>1. ~Holds(q, x.msg) /\ \A i \in 1..Len(queue[q]) : queue[q][i].msg # x.msg
    BY DEF HeldOnce
  <2>2. ~Holds(q, x.msg)'
    BY <1>7, <1>9, <2>1
  <2>3. ASSUME NEW i \in 1..Len(queue'[q])
        PROVE  queue'[q][i].msg # x.msg
    BY <1>5, <2>1
  <2> QED  BY <2>2, <2>3
<1>14. (\A q, r \in Places : \A i \in 1..Len(queue[q]) : ~Holds(r, queue[q][i].msg))'
  BY <1>5, <1>6, <1>7 DEF HeldOnce
<1> QED  BY <1>10, <1>11, <1>12, <1>13, <1>14 DEF HeldOnce

\* A step of _process after Take keeps the delivery or drops it.
LEMMA ProcessStage ==
  ASSUME Basic, NEW p \in Places, Process(p), ~Take(p)
  PROVE  \E stage \in Stages \ {"idle"} :
           /\ work[p].stage # "idle"
           /\ \/ work' = [work EXCEPT ![p].stage = stage]
              \/ work' = [work EXCEPT ![p] = NoWork]
<1> USE DEF At, Stages
<1>1. CASE SetDedup(p)
  BY <1>1 DEF SetDedup
<1>2. CASE HandlerReturns(p) \/ HandlerRaises(p) \/ ToDlq(p) \/ Ack(p)
  BY <1>2 DEF HandlerReturns, HandlerRaises, ToDlq, Ack
<1>3. CASE Release(p)
  <2>1. \/ work' = [work EXCEPT ![p].stage = "dlq"]
        \/ work' = [work EXCEPT ![p] = NoWork]
    BY <1>3 DEF Release, Basic, TypeOK
  <2> QED  BY <1>3, <2>1 DEF Release
<1> QED  BY <1>1, <1>2, <1>3 DEF Process

LEMMA HeldOnceNext ==
  ASSUME Basic, Harmless, HeldOnce, [Next]_vars
  PROVE  HeldOnce'
<1>1. ASSUME NEW n \in Nodes, ReadGroup(n)
      PROVE  HeldOnce'
  <2> DEFINE S == {[msg |-> m, dc |-> 1] : m \in NewMessages}
  <2>1. /\ batch' = [batch EXCEPT ![n] = S]
        /\ UNCHANGED <<queue, work>>
    BY <1>1 DEF ReadGroup, dispatchVars
  <2>2. NewMessages \subseteq Ids /\ \A m \in NewMessages : count[m] = 0
    BY NewMessagesFresh, ConstantsAssumption DEF Basic, TypeOK, Ids
  <2>3. \A d, x \in S : d.msg = x.msg => d = x
    OBVIOUS
  <2>4. \A d \in S : d \in Delivery /\ count[d.msg] = 0
    BY <2>2 DEF Delivery
  <2>5. \A m \in Ids : InHands(m) => count[m] > 0
    <3>1. \A k \in Nodes : \A d \in batch[k] : count[d.msg] > 0
      <4>1. \A k \in Nodes : \A d \in batch[k] :
              d \in Delivery /\ d.dc <= count[d.msg]
        BY HeldTypes DEF Basic, DeliveryCountSound
      <4> QED  BY <4>1 DEF Basic, TypeOK, Delivery
    <3>2. \A p \in Places : \A i \in 1..Len(queue[p]) : count[queue[p][i].msg] > 0
      <4>1. \A p \in Places : \A i \in 1..Len(queue[p]) :
              queue[p][i] \in Delivery /\ queue[p][i].dc <= count[queue[p][i].msg]
        BY HeldTypes DEF Basic, DeliveryCountSound
      <4>2. count \in [Ids -> Nat]
        BY DEF Basic, TypeOK
      <4> QED  BY <4>1, <4>2 DEF Delivery
    <3>3. \A p \in Places : work[p].stage # "idle" => count[work[p].msg] > 0
      BY HeldPublished
    <3> QED  BY <3>1, <3>2, <3>3 DEF InHands, QueuedMsgs
  <2>6. \A d \in S : d \in Delivery /\ ~InHands(d.msg)
    BY <2>4, <2>5 DEF Delivery
  <2>7. batch \in [Nodes -> SUBSET Delivery]
    BY DEF Basic, TypeOK
  <2> HIDE DEF S
  <2> QED  BY <2>1, <2>3, <2>6, <2>7, HeldOnceEnter
<1>2. ASSUME NEW n \in Nodes, XClaim(n)
      PROVE  HeldOnce'
  <2>1. PICK t \in todo[n] :
          \/ /\ InHands(t.msg) => Spend("slow", MaxSlow)
             /\ batch' = [batch EXCEPT ![n] = {[msg |-> t.msg, dc |-> t.dc + 1]}]
          \/ batch' = batch
    BY <1>2 DEF XClaim
  <2>2. queue' = queue /\ work' = work
    BY <1>2 DEF XClaim, dispatchVars
  <2>3. CASE batch' = batch
    BY <2>2, <2>3, HeldOnceFrame
  <2>4. CASE batch' # batch
    <3> DEFINE S == {[msg |-> t.msg, dc |-> t.dc + 1]}
    <3>1. t \in Delivery
      BY HeldTypes DEF Basic
    <3>2. ~InHands(t.msg)
      BY <2>1, <2>4, <3>1, NoFaultSteps DEF Delivery
    <3>3. \A d \in S : d \in Delivery /\ ~InHands(d.msg)
      BY <3>1, <3>2 DEF Delivery
    <3>4. \A d, x \in S : d.msg = x.msg => d = x
      OBVIOUS
    <3>5. batch \in [Nodes -> SUBSET Delivery] /\ batch' = [batch EXCEPT ![n] = S]
      BY <2>1, <2>4 DEF Basic, TypeOK
    <3> HIDE DEF S
    <3> QED  BY <2>2, <3>3, <3>4, <3>5, HeldOnceEnter
  <2> QED  BY <2>3, <2>4
<1>3. ASSUME NEW n \in Nodes,
             ListPending(n) \/ EndCycle(n) \/ Stop(n) \/ Stopped(n) \/ Start(n)
      PROVE  HeldOnce'
  <2>1. batch' = batch /\ queue' = queue /\ work' = work
    BY <1>3 DEF ListPending, EndCycle, Stop, Stopped, Start, readerVars, dispatchVars
  <2> QED  BY <2>1, HeldOnceFrame
<1>4. ASSUME NEW e \in Events, Publish(e) \/ PublishDuplicate(e) \/ DedupExpires(e)
      PROVE  HeldOnce'
  <2>1. batch' = batch /\ queue' = queue /\ work' = work
    BY <1>4 DEF Publish, PublishDuplicate, DedupExpires, readerVars, dispatchVars
  <2> QED  BY <2>1, HeldOnceFrame
<1>5. ASSUME NEW a \in Admins, Redrive(a) \/ RedriveAbandoned(a)
      PROVE  HeldOnce'
  <2>1. batch' = batch /\ queue' = queue /\ work' = work
    BY <1>5 DEF Redrive, RedriveFind, RedriveDelDedup, RedrivePublish, RedriveXdel,
                RedriveAbandoned, readerVars, dispatchVars
  <2> QED  BY <2>1, HeldOnceFrame
<1>6. ASSUME NEW p \in Places, Process(p), ~Take(p)
      PROVE  HeldOnce'
  <2>1. batch' = batch /\ queue' = queue
    BY <1>6 DEF Process, SetDedup, HandlerReturns, HandlerRaises, Release, ToDlq, Ack,
                readerVars
  <2>2. PICK stage \in Stages \ {"idle"} :
          /\ work[p].stage # "idle"
          /\ \/ work' = [work EXCEPT ![p].stage = stage]
             \/ work' = [work EXCEPT ![p] = NoWork]
    BY <1>6, ProcessStage
  <2>3. \A q \in Places : work'[q].stage # "idle" =>
           work[q].stage # "idle" /\ work'[q].msg = work[q].msg
    BY <2>2, WorkAccounted
  <2> QED  BY <2>1, <2>3, HeldOnceFrame
<1>7. CASE UNCHANGED vars
  BY <1>7, HeldOnceFrame DEF vars, readerVars, dispatchVars
<1> QED
  BY <1>1, <1>2, <1>3, <1>4, <1>5, <1>6, <1>7, HeldOnceSubmit, HeldOnceTake, NoFaultSteps
  DEF Next, Loop

-----------------------------------------------------------------------------
(* What is held is pending.                                                *)

LEMMA HeldPendingFrame ==
  ASSUME HeldPending, queue' = queue, pel \subseteq pel',
         \A n \in Nodes : batch'[n] \subseteq batch[n],
         \A p \in Places : work'[p].stage # "idle" =>
            work[p].stage # "idle" /\ work'[p].msg = work[p].msg
  PROVE  HeldPending'
  BY DEF HeldPending

LEMMA HeldPendingSubmit ==
  ASSUME Basic, HeldPending, NEW n \in Nodes, Submit(n)
  PROVE  HeldPending'
<1>1. PICK d \in batch[n] :
        LET p == <<n, Worker(d.msg)>> IN
        /\ queue' = [queue EXCEPT ![p] = Append(@, d)]
        /\ batch' = [batch EXCEPT ![n] = @ \ {d}]
        /\ work' = work
        /\ pel' = pel
  BY DEF Submit, redisVars
<1> DEFINE p == <<n, Worker(d.msg)>>
<1>2. /\ queue \in [Places -> Seq(Delivery)]
      /\ batch \in [Nodes -> SUBSET Delivery]
      /\ d \in Delivery
  BY DEF Basic, TypeOK
<1>3. queue' = [queue EXCEPT ![p] = Append(@, d)]
  BY <1>1
<1> HIDE DEF p
<1>4. ASSUME NEW q \in Places, NEW i \in 1..Len(queue'[q])
      PROVE  queue'[q][i].msg \in pel
  <2>1. CASE q = p
    <3>1. /\ queue'[q] = Append(queue[q], d)
          /\ queue[q] \in Seq(Delivery)
      BY <1>2, <1>3, <2>1
    <3>2. \/ queue'[q][i] = d
          \/ i \in 1..Len(queue[q]) /\ queue'[q][i] = queue[q][i]
      BY <1>2, <3>1, QueueAppend
    <3> QED  BY <3>2 DEF HeldPending
  <2>2. CASE q # p
    <3>1. queue'[q] = queue[q]
      BY <1>2, <1>3, <2>2
    <3> QED  BY <3>1 DEF HeldPending
  <2> QED  BY <2>1, <2>2
<1>5. \A k \in Nodes : batch'[k] \subseteq batch[k]
  BY <1>1, <1>2
<1> QED  BY <1>1, <1>4, <1>5 DEF HeldPending

LEMMA HeldPendingTake ==
  ASSUME Basic, HeldPending, NEW p \in Places, Take(p)
  PROVE  HeldPending'
<1>1. /\ queue[p] # <<>>
      /\ work' = [work EXCEPT ![p] = [stage |-> "dedup", msg |-> Head(queue[p]).msg,
                                      dc |-> Head(queue[p]).dc]]
      /\ queue' = [queue EXCEPT ![p] = Tail(@)]
      /\ batch' = batch /\ pel' = pel
  BY DEF Take, readerVars, redisVars
<1>2. /\ queue \in [Places -> Seq(Delivery)]
      /\ DOMAIN work = Places
  BY DEF Basic, TypeOK
<1>3. /\ Head(queue[p]) = queue[p][1]
      /\ Len(queue[p]) \in Nat \ {0}
      /\ Len(Tail(queue[p])) = Len(queue[p]) - 1
      /\ \A i \in 1..Len(Tail(queue[p])) : Tail(queue[p])[i] = queue[p][i + 1]
  BY <1>1, <1>2, QueueTail
<1>4. ASSUME NEW q \in Places, NEW i \in 1..Len(queue'[q])
      PROVE  queue'[q][i].msg \in pel
  <2>1. CASE q = p
    <3>1. queue'[q] = Tail(queue[p])
      BY <1>1, <1>2, <2>1
    <3>2. queue'[q][i] = queue[p][i + 1] /\ i + 1 \in 1..Len(queue[p])
      BY <1>3, <3>1
    <3> QED  BY <3>2 DEF HeldPending
  <2>2. CASE q # p
    <3>1. queue'[q] = queue[q]
      BY <1>1, <1>2, <2>2
    <3> QED  BY <3>1 DEF HeldPending
  <2> QED  BY <2>1, <2>2
<1>5. queue[p][1].msg \in pel
  BY <1>3 DEF HeldPending
<1>6. ASSUME NEW q \in Places, work'[q].stage # "idle"
      PROVE  work'[q].msg \in pel
  <2>1. CASE q = p
    BY <1>1, <1>2, <1>3, <1>5, <2>1
  <2>2. CASE q # p
    BY <1>1, <1>2, <1>6, <2>2 DEF HeldPending
  <2> QED  BY <2>1, <2>2
<1> QED  BY <1>1, <1>4, <1>6 DEF HeldPending

\* XACK removes the one entry nobody else holds.
LEMMA HeldPendingAck ==
  ASSUME Basic, HeldOnce, HeldPending, NEW p \in Places, Ack(p)
  PROVE  HeldPending'
<1> DEFINE m == work[p].msg
<1>1. /\ work[p].stage = "ack"
      /\ pel' = pel \ {m}
      /\ work' = [work EXCEPT ![p] = NoWork]
      /\ batch' = batch /\ queue' = queue
  BY DEF Ack, At, readerVars
<1>2. m \in Ids /\ Holds(p, m)
  BY <1>1, WorkEvent DEF Holds
<1>3. \A n \in Nodes : \A d \in batch[n] : d.msg # m
  BY <1>2 DEF HeldOnce
<1>4. \A q \in Places : \A i \in 1..Len(queue[q]) : queue[q][i].msg # m
  BY <1>2 DEF HeldOnce
<1>5. \A q \in Places : work'[q].stage # "idle" => q # p /\ work'[q] = work[q]
  BY <1>1 DEF Basic, TypeOK, NoWork
<1>6. \A q \in Places : work'[q].stage # "idle" => work[q].msg # m
  BY <1>2, <1>5 DEF HeldOnce, Holds
<1> QED  BY <1>1, <1>3, <1>4, <1>5, <1>6 DEF HeldPending

LEMMA HeldPendingNext ==
  ASSUME Basic, Harmless, HeldOnce, HeldPending, [Next]_vars
  PROVE  HeldPending'
<1>1. ASSUME NEW n \in Nodes, ReadGroup(n)
      PROVE  HeldPending'
  <2>1. /\ batch' = [batch EXCEPT ![n] = {[msg |-> m, dc |-> 1] : m \in NewMessages}]
        /\ pel' = pel \cup NewMessages
        /\ queue' = queue /\ work' = work
    BY <1>1 DEF ReadGroup, dispatchVars
  <2>2. \A k \in Nodes : \A d \in batch'[k] : d.msg \in pel'
    BY <2>1 DEF HeldPending, Basic, TypeOK
  <2> QED  BY <2>1, <2>2 DEF HeldPending
<1>2. ASSUME NEW n \in Nodes, XClaim(n)
      PROVE  HeldPending'
  <2>1. PICK t \in todo[n] :
          \/ t.msg \in pel /\ batch' = [batch EXCEPT ![n] = {[msg |-> t.msg, dc |-> t.dc + 1]}]
          \/ batch' = batch
    BY <1>2 DEF XClaim
  <2>2. queue' = queue /\ work' = work /\ pel' = pel
    BY <1>2 DEF XClaim, dispatchVars
  <2>3. batch \in [Nodes -> SUBSET Delivery]
    BY DEF Basic, TypeOK
  <2>4. \A k \in Nodes : \A d \in batch'[k] : d.msg \in pel
    <3>1. CASE batch' = batch
      BY <3>1 DEF HeldPending
    <3>2. CASE batch' # batch
      <4>1. t.msg \in pel /\ batch' = [batch EXCEPT ![n] = {[msg |-> t.msg, dc |-> t.dc + 1]}]
        BY <2>1, <3>2
      <4>2. \A k \in Nodes : \A d \in batch'[k] :
               d \in batch[k] \/ d = [msg |-> t.msg, dc |-> t.dc + 1]
        BY <2>3, <4>1
      <4>3. \A d : d = [msg |-> t.msg, dc |-> t.dc + 1] => d.msg = t.msg
        OBVIOUS
      <4> QED  BY <4>1, <4>2, <4>3 DEF HeldPending
    <3> QED  BY <3>1, <3>2
  <2> QED  BY <2>2, <2>4 DEF HeldPending
<1>3. ASSUME NEW n \in Nodes,
             ListPending(n) \/ EndCycle(n) \/ Stop(n) \/ Stopped(n) \/ Start(n)
      PROVE  HeldPending'
  <2>1. batch' = batch /\ queue' = queue /\ work' = work /\ pel' = pel
    BY <1>3 DEF ListPending, EndCycle, Stop, Stopped, Start, readerVars, dispatchVars,
                redisVars
  <2> QED  BY <2>1, HeldPendingFrame
<1>4. ASSUME NEW e \in Events, Publish(e) \/ PublishDuplicate(e) \/ DedupExpires(e)
      PROVE  HeldPending'
  <2>1. batch' = batch /\ queue' = queue /\ work' = work /\ pel' = pel
    BY <1>4 DEF Publish, PublishDuplicate, DedupExpires, readerVars, dispatchVars
  <2> QED  BY <2>1, HeldPendingFrame
<1>5. ASSUME NEW a \in Admins, Redrive(a) \/ RedriveAbandoned(a)
      PROVE  HeldPending'
  <2>1. batch' = batch /\ queue' = queue /\ work' = work /\ pel' = pel
    BY <1>5 DEF Redrive, RedriveFind, RedriveDelDedup, RedrivePublish, RedriveXdel,
                RedriveAbandoned, readerVars, dispatchVars, redisVars
  <2> QED  BY <2>1, HeldPendingFrame
<1>6. ASSUME NEW p \in Places, Process(p), ~Take(p), ~Ack(p)
      PROVE  HeldPending'
  <2>1. batch' = batch /\ queue' = queue /\ pel' = pel
    BY <1>6 DEF Process, SetDedup, HandlerReturns, HandlerRaises, Release, ToDlq,
                readerVars, redisVars
  <2>2. PICK stage \in Stages \ {"idle"} :
          /\ work[p].stage # "idle"
          /\ \/ work' = [work EXCEPT ![p].stage = stage]
             \/ work' = [work EXCEPT ![p] = NoWork]
    BY <1>6, ProcessStage
  <2>3. \A q \in Places : work'[q].stage # "idle" =>
           work[q].stage # "idle" /\ work'[q].msg = work[q].msg
    BY <2>2, WorkAccounted
  <2> QED  BY <2>1, <2>3, HeldPendingFrame
<1>7. CASE UNCHANGED vars
  BY <1>7, HeldPendingFrame DEF vars, readerVars, dispatchVars, redisVars
<1>8. ASSUME NEW p \in Places, Process(p)
      PROVE  HeldPending'
  BY <1>6, <1>8, HeldPendingTake, HeldPendingAck
<1>9. ASSUME NEW n \in Nodes, Loop(n) \/ Stop(n) \/ Stopped(n) \/ Start(n)
      PROVE  HeldPending'
  BY <1>1, <1>2, <1>3, <1>9, HeldPendingSubmit DEF Loop
<1> QED  BY <1>4, <1>5, <1>7, <1>8, <1>9, NoFaultSteps DEF Next

-----------------------------------------------------------------------------
(* The stream, the workers and the dead-letter stream between two steps.   *)

\* A message keeps its event.
LEMMA StreamStable ==
  ASSUME Basic, [Next]_vars
  PROVE  \A m \in 1..Len(stream) : m \in 1..Len(stream') /\ stream'[m] = stream[m]
<1>1. CASE stream' = stream
  BY <1>1
<1>2. ASSUME NEW e \in Events, Append1(e)
      PROVE  \A m \in 1..Len(stream) : m \in 1..Len(stream') /\ stream'[m] = stream[m]
  <2>1. Len(stream) \in Nat
    BY DEF Basic, TypeOK
  <2> QED  BY <1>2, <2>1, AppendBasic
<1>3. ASSUME NEW a \in Admins, RedrivePublish(a)
      PROVE  dlq[admin[a].entry] \in Events /\ Append1(dlq[admin[a].entry])
  <2>1. admin[a].entry \in 1..Len(dlq) /\ dlq \in Seq(Events)
    BY <1>3 DEF RedrivePublish, Basic, TypeOK, DeliveryCountSound
  <2> QED  BY <1>3, <2>1 DEF RedrivePublish
<1>4. ASSUME NEW e \in Events, Publish(e) \/ PublishDuplicate(e) \/ DedupExpires(e)
      PROVE  Append1(e) \/ stream' = stream
  BY <1>4 DEF Publish, PublishDuplicate, DedupExpires
<1>5. ASSUME NEW n \in Nodes, Loop(n) \/ LoopError(n) \/ Stop(n) \/ Stopped(n) \/ Start(n) \/ Crash(n)
      PROVE  stream' = stream
  BY <1>5 DEF Loop, ReadGroup, Submit, ListPending, XClaim, EndCycle, LoopError, Stop,
              Stopped, Start, Crash, redisVars
<1>6. ASSUME NEW p \in Places, Process(p) \/ CommandError(p)
      PROVE  stream' = stream
  BY <1>6 DEF Process, Take, SetDedup, HandlerReturns, HandlerRaises, Release, ToDlq, Ack,
              CommandError, redisVars
<1>7. ASSUME NEW a \in Admins, Redrive(a) \/ RedriveAbandoned(a), ~RedrivePublish(a)
      PROVE  stream' = stream
  BY <1>7 DEF Redrive, RedriveFind, RedriveDelDedup, RedriveXdel, RedriveAbandoned, redisVars
<1>8. CASE UNCHANGED vars
  BY <1>1, <1>8 DEF vars, redisVars
<1> QED  BY <1>1, <1>2, <1>3, <1>4, <1>5, <1>6, <1>7, <1>8 DEF Next

\* What _process does to work[p], stage by stage.
LEMMA WorkStep ==
  ASSUME Basic, NEW p \in Places, Process(p)
  PROVE  /\ \A q \in Places : q # p => work'[q] = work[q]
         /\ ~Take(p) /\ work'[p].stage # "idle" =>
              work[p].stage # "idle" /\ work'[p].msg = work[p].msg
         /\ Take(p) => work[p].stage = "idle" /\ work'[p].stage = "dedup"
<1>1. work \in [Places -> {NoWork} \cup
                 [stage : Stages \ {"idle"}, msg : Ids, dc : Nat \ {0}]]
  BY DEF Basic, TypeOK
<1>2. CASE Take(p)
  BY <1>1, <1>2 DEF Take, At
<1>3. CASE ~Take(p)
  <2>1. PICK stage \in Stages \ {"idle"} :
          /\ work[p].stage # "idle"
          /\ \/ work' = [work EXCEPT ![p].stage = stage]
             \/ work' = [work EXCEPT ![p] = NoWork]
    BY <1>3, ProcessStage
  <2>2. work'[p].stage # "idle" => work[p].stage # "idle" /\ work'[p].msg = work[p].msg
    BY <2>1, WorkAccounted
  <2>3. \A q \in Places : q # p => work'[q] = work[q]
    BY <1>1, <2>1
  <2> QED  BY <1>3, <2>2, <2>3
<1> QED  BY <1>2, <1>3

-----------------------------------------------------------------------------
(* Every dedup key has an owner.                                           *)

LEMMA DedupOwnerFrame ==
  ASSUME Basic, KeysOwned, dedup' \subseteq dedup, done \subseteq done', work' = work,
         \A m \in 1..Len(stream) : stream'[m] = stream[m]
  PROVE  KeysOwned'
<1>1. ASSUME NEW p \in Places, NEW e, Processing(p, e)
      PROVE  Processing(p, e)'
  <2>1. work[p].stage # "idle"
    BY <1>1 DEF Processing
  <2>2. work[p].msg \in 1..Len(stream)
    BY <2>1, HeldPublished, WorkEvent
  <2> QED  BY <1>1, <2>2 DEF Processing, EventOf
<1> QED  BY <1>1 DEF KeysOwned

LEMMA DedupOwnerProcess ==
  ASSUME Basic, KeysOwned, NEW p \in Places, Process(p)
  PROVE  KeysOwned'
<1> USE DEF At, Stages
<1>1. stream' = stream
  BY DEF Process, Take, SetDedup, HandlerReturns, HandlerRaises, Release, ToDlq, Ack, redisVars
<1>2. work \in [Places -> {NoWork} \cup
                 [stage : Stages \ {"idle"}, msg : Ids, dc : Nat \ {0}]]
  BY DEF Basic, TypeOK
<1>3. \A q \in Places \ {p} : \A e : Processing(q, e) => Processing(q, e)'
  BY <1>1, WorkStep DEF Processing, EventOf
<1> DEFINE e0 == EventOf(work[p].msg)
<1>4. work[p].stage # "idle" =>
        work[p] \in [stage : Stages \ {"idle"}, msg : Ids, dc : Nat \ {0}]
  BY HeldTypes DEF Basic
<1>5. CASE SetDedup(p)
  <2>1. /\ work[p].stage = "dedup"
        /\ dedup' = dedup \cup {e0} /\ done' = done
        /\ work' = [work EXCEPT ![p].stage = IF e0 \in dedup THEN "ack" ELSE "run"]
    BY <1>5 DEF SetDedup, ghostVars
  <2>2. ~ \E e : Processing(p, e)
    BY <2>1 DEF Processing
  <2>3. ASSUME NEW e, e = e0, e \notin dedup
        PROVE  Processing(p, e)'
    <3>1. work'[p].stage = "run" /\ work'[p].msg = work[p].msg
      BY <1>2, <1>4, <2>1, <2>3
    <3> QED  BY <1>1, <2>3, <3>1 DEF Processing, EventOf
  <2>4. \A e \in dedup : e \in done \/ \E q \in Places \ {p} : Processing(q, e)
    BY <2>2 DEF KeysOwned
  <2>5. ASSUME NEW e \in dedup'
        PROVE  e \in done' \/ \E q \in Places : Processing(q, e)'
    <3>1. CASE e \in dedup
      BY <1>3, <2>1, <2>4, <3>1
    <3>2. CASE e \notin dedup
      <4>1. e = e0
        BY <2>1, <3>2
      <4> QED  BY <2>3, <3>2, <4>1
    <3> QED  BY <3>1, <3>2
  <2> HIDE DEF e0
  <2> QED  BY <2>5 DEF KeysOwned
<1>6. CASE HandlerReturns(p)
  <2>1. dedup' = dedup /\ done' = done \cup {e0}
    BY <1>6 DEF HandlerReturns, redisVars
  <2>2. \A e : Processing(p, e) => e = e0
    BY DEF Processing
  <2> QED  BY <1>3, <2>1, <2>2 DEF KeysOwned
<1>7. CASE HandlerRaises(p)
  <2>1. /\ dedup' = dedup /\ done' = done
        /\ work[p].stage = "run"
        /\ work' = [work EXCEPT ![p].stage = "release"]
    BY <1>7 DEF HandlerRaises, redisVars
  <2>2. work'[p].stage = "release" /\ work'[p].msg = work[p].msg
    BY <1>2, <1>4, <2>1
  <2>3. \A e : Processing(p, e) => Processing(p, e)'
    BY <1>1, <2>2 DEF Processing, EventOf
  <2> QED  BY <1>3, <2>1, <2>3 DEF KeysOwned
<1>8. CASE Release(p)
  <2>1. dedup' = dedup \ {e0} /\ done' = done
    BY <1>8 DEF Release, ghostVars
  <2>2. \A e : Processing(p, e) => e = e0
    BY DEF Processing
  <2> QED  BY <1>3, <2>1, <2>2 DEF KeysOwned
<1>9. CASE Take(p) \/ ToDlq(p) \/ Ack(p)
  <2>1. dedup' = dedup /\ done' = done /\ work[p].stage \in {"idle", "dlq", "ack"}
    BY <1>9 DEF Take, ToDlq, Ack, redisVars, ghostVars
  <2>2. ~ \E e : Processing(p, e)
    BY <2>1 DEF Processing
  <2> QED  BY <1>3, <2>1, <2>2 DEF KeysOwned
<1> QED  BY <1>5, <1>6, <1>7, <1>8, <1>9 DEF Process

LEMMA DedupOwnerNext ==
  ASSUME Basic, Harmless, KeysOwned, [Next]_vars
  PROVE  KeysOwned'
<1>1. \A m \in 1..Len(stream) : stream'[m] = stream[m]
  BY StreamStable
<1>2. ASSUME NEW n \in Nodes, Loop(n) \/ Stop(n) \/ Stopped(n) \/ Start(n)
      PROVE  KeysOwned'
  <2>1. dedup' = dedup /\ done' = done /\ work' = work
    BY <1>2 DEF Loop, ReadGroup, Submit, ListPending, XClaim, EndCycle, Stop, Stopped, Start,
                redisVars, dispatchVars, ghostVars
  <2> QED  BY <1>1, <2>1, DedupOwnerFrame
<1>3. ASSUME NEW e \in Events, Publish(e) \/ PublishDuplicate(e) \/ DedupExpires(e)
      PROVE  KeysOwned'
  <2>1. dedup' \subseteq dedup /\ done' = done /\ work' = work
    BY <1>3 DEF Publish, PublishDuplicate, DedupExpires, dispatchVars, ghostVars
  <2> QED  BY <1>1, <2>1, DedupOwnerFrame
<1>4. ASSUME NEW a \in Admins, Redrive(a) \/ RedriveAbandoned(a)
      PROVE  KeysOwned'
  <2>1. dedup' \subseteq dedup /\ done' = done /\ work' = work
    BY <1>4 DEF Redrive, RedriveFind, RedriveDelDedup, RedrivePublish, RedriveXdel,
                RedriveAbandoned, redisVars, dispatchVars, ghostVars
  <2> QED  BY <1>1, <2>1, DedupOwnerFrame
<1>5. CASE UNCHANGED vars
  <2>1. dedup' = dedup /\ done' = done /\ work' = work
    BY <1>5 DEF vars, redisVars, dispatchVars, ghostVars
  <2> QED  BY <1>1, <2>1, DedupOwnerFrame
<1> QED  BY <1>2, <1>3, <1>4, <1>5, DedupOwnerProcess, NoFaultSteps DEF Next

-----------------------------------------------------------------------------
(* Every published event is kept.                                          *)

AllKept == \A m \in 1..Len(stream) : Kept(EventOf(m))
DlqRange == removed \subseteq 1..Len(dlq)

\* An event stays kept if it stays handled and dead, and its live messages
\* stay live.
LEMMA KeptFrame ==
  ASSUME NEW e, Kept(e), done \subseteq done', Dead(e) => Dead(e)',
         \A k \in 1..Len(stream) :
            k \in 1..Len(stream') /\ stream'[k] = stream[k]
            /\ (EventOf(k) = e /\ Live(k) => Live(k)')
  PROVE  Kept(e)'
<1>1. CASE e \in done \/ Dead(e)
  BY <1>1 DEF Kept
<1>2. CASE \E k \in 1..Len(stream) : EventOf(k) = e /\ Live(k)
  <2>1. PICK k \in 1..Len(stream) : EventOf(k) = e /\ Live(k)
    BY <1>2
  <2>2. k \in 1..Len(stream') /\ stream'[k] = e /\ Live(k)'
    BY <2>1 DEF EventOf
  <2> QED  BY <2>2 DEF Kept, EventOf
<1> QED  BY <1>1, <1>2 DEF Kept

\* A live message stays live while it stays outstanding and no worker turns
\* to acknowledging it.
LEMMA LiveFrame ==
  ASSUME NEW k, Live(k), count'[k] = 0 \/ k \in pel',
         \A p \in Places : work'[p].stage = "ack" /\ work'[p].msg = k =>
            work[p].stage = "ack" /\ work[p].msg = k
  PROVE  Live(k)'
  BY DEF Live, Outstanding, At

\* Steps that append nothing and leave the workers alone.
LEMMA KeptQuiet ==
  ASSUME AllKept, UNCHANGED <<stream, work, dlq>>, done \subseteq done',
         \A k \in 1..Len(stream) : Outstanding(k) => Outstanding(k)',
         \A e : Dead(e) => Dead(e)'
  PROVE  AllKept'
<1>1. \A k \in 1..Len(stream) : Live(k) => Live(k)'
  BY DEF Live, At
<1>2. ASSUME NEW m \in 1..Len(stream')
      PROVE  Kept(EventOf(m))'
  <2>1. \A e : e = stream[m] => Kept(e)'
    BY <1>1, KeptFrame DEF AllKept, EventOf
  <2> QED  BY <2>1 DEF Kept, EventOf
<1> QED  BY <1>2 DEF AllKept

\* The event of a message that was just appended is kept by that message.
LEMMA KeptAppend ==
  ASSUME Basic, AllKept, NEW e \in Events, Append1(e),
         UNCHANGED <<count, pel, work, done>>,
         \A f : f # e /\ Dead(f) => Dead(f)'
  PROVE  AllKept'
<1>1. /\ Len(stream) \in Nat
      /\ Len(stream') = Len(stream) + 1
      /\ Len(stream') <= MaxMsgs
      /\ \A m \in 1..Len(stream) : stream'[m] = stream[m]
      /\ stream'[Len(stream')] = e
  BY AppendBasic DEF Append1, Basic, TypeOK
<1> DEFINE k0 == Len(stream')
<1>2. k0 \in Ids /\ k0 \in 1..Len(stream') /\ ~(k0 <= Len(stream))
  BY <1>1, ConstantsAssumption DEF Ids
<1>3. count \in [Ids -> Nat]
  BY DEF Basic, TypeOK
<1>4. count[k0] = 0
  <2>1. count[k0] > 0 => k0 <= Len(stream)
    BY <1>2 DEF Basic, DeliveryCountSound
  <2>2. count[k0] \in Nat
    BY <1>2, <1>3
  <2> QED  BY <1>2, <2>1, <2>2
<1>5. \A p \in Places : ~(work[p].stage = "ack" /\ work[p].msg = k0)
  <2>1. ASSUME NEW p \in Places, work[p].stage = "ack", work[p].msg = k0
        PROVE  FALSE
    <3>1. count[k0] > 0
      BY <2>1, HeldPublished
    <3> QED  BY <1>4, <3>1
  <2> QED  BY <2>1
<1>6. \A k : k = k0 => Live(k)'
  BY <1>4, <1>5 DEF Live, Outstanding, At
<1>7. Kept(e)'
  BY <1>1, <1>2, <1>6 DEF Kept, EventOf
<1>8. \A k \in 1..Len(stream) : Live(k) => Live(k)'
  BY DEF Live, Outstanding, At
<1>9. ASSUME NEW f, f # e, Kept(f)
      PROVE  Kept(f)'
  <2>1. \A k \in 1..Len(stream) : k \in 1..Len(stream')
    BY <1>1
  <2> QED  BY <1>1, <1>8, <1>9, <2>1, KeptFrame
<1>10. ASSUME NEW m \in 1..Len(stream'), NEW f, f = stream'[m]
       PROVE  Kept(f)'
  <2>1. CASE f = e
    BY <1>7, <2>1
  <2>2. CASE f # e
    <3>1. m \in 1..Len(stream) /\ f = stream[m]
      BY <1>1, <1>10, <2>2
    <3>2. Kept(f)
      BY <3>1 DEF AllKept, EventOf
    <3> QED  BY <1>9, <2>2, <3>2
  <2> QED  BY <2>1, <2>2
<1> QED  BY <1>10 DEF AllKept, EventOf, Kept

\* A step of _process keeps every event but that of its own message, and keeps
\* that one too if it says why.
LEMMA KeptProcess ==
  ASSUME Basic, AllKept, NEW p \in Places, Process(p), ~Take(p),
         NEW m, m = work[p].msg, NEW e, e = EventOf(m),
         stream' = stream, count' = count, done \subseteq done', pel \ {m} \subseteq pel',
         \A f : Dead(f) => Dead(f)',
         Live(m) => Live(m)' \/ Kept(e)'
  PROVE  AllKept'
<1>1. ASSUME NEW k \in 1..Len(stream), k # m, Live(k)
      PROVE  Live(k)'
  <2>1. \A q \in Places : work'[q].stage = "ack" /\ work'[q].msg = k =>
           work[q].stage = "ack" /\ work[q].msg = k
    BY <1>1, WorkStep
  <2>2. count'[k] = 0 \/ k \in pel'
    BY <1>1 DEF Live, Outstanding
  <2> QED  BY <1>1, <2>1, <2>2, LiveFrame
<1>2. ASSUME NEW j \in 1..Len(stream'), NEW f, f = stream'[j]
      PROVE  Kept(f)'
  <2>1. Kept(f)
    BY <1>2 DEF AllKept, EventOf
  <2>2. CASE f = e /\ Kept(e)'
    BY <2>2 DEF Kept, EventOf
  <2>3. CASE f # e
    <3>1. \A k \in 1..Len(stream) : EventOf(k) = f /\ Live(k) => Live(k)'
      BY <1>1, <2>3
    <3> QED  BY <2>1, <3>1, KeptFrame
  <2>4. CASE Live(m) => Live(m)'
    <3>1. \A k \in 1..Len(stream) : EventOf(k) = f /\ Live(k) => Live(k)'
      BY <1>1, <2>4
    <3> QED  BY <2>1, <3>1, KeptFrame
  <2> QED  BY <2>2, <2>3, <2>4
<1> QED  BY <1>2 DEF AllKept, EventOf, Kept

LEMMA KeptSetDedup ==
  ASSUME Basic, HeldOnce, HeldPending, KeysOwned, AllKept, NEW p \in Places, SetDedup(p)
  PROVE  AllKept'
<1> USE DEF At, Stages
<1>1. PICK m : m = work[p].msg
  OBVIOUS
<1>2. PICK e : e = EventOf(m)
  OBVIOUS
<1>3. /\ work[p].stage = "dedup"
      /\ work' = [work EXCEPT ![p].stage = IF e \in dedup THEN "ack" ELSE "run"]
      /\ stream' = stream /\ count' = count /\ pel' = pel /\ done' = done
      /\ dlq' = dlq /\ removed' = removed /\ admin' = admin
  BY <1>1, <1>2 DEF SetDedup, ghostVars
<1>4. m \in Ids /\ m \in 1..Len(stream)
  BY <1>1, <1>3, WorkEvent, HeldPublished
<1>5. \A f : Dead(f) => Dead(f)'
  BY <1>3 DEF Dead
<1>6. work \in [Places -> {NoWork} \cup
                 [stage : Stages \ {"idle"}, msg : Ids, dc : Nat \ {0}]]
  BY DEF Basic, TypeOK
<1>7. work[p] \in [stage : Stages \ {"idle"}, msg : Ids, dc : Nat \ {0}]
  BY <1>3, HeldTypes DEF Basic
\* Nobody else holds m.
<1>8. \A q \in Places : q # p => ~Holds(q, m)
  BY <1>1, <1>3, <1>4 DEF HeldOnce, Holds
<1>9. CASE e \notin dedup
  <2>1. \A q \in Places : ~(work'[q].stage = "ack" /\ work'[q].msg = m)
    BY <1>3, <1>6, <1>7, <1>8, <1>9 DEF Holds
  <2>2. Live(m) => Live(m)'
    BY <1>3, <2>1 DEF Live, Outstanding
  <2> QED
    BY <1>1, <1>2, <1>3, <1>5, <2>2, KeptProcess DEF Process, SetDedup, Take
<1>10. CASE e \in dedup
  <2>1. CASE e \in done
    <3>1. Kept(e)'
      BY <1>3, <2>1 DEF Kept
    <3> QED  BY <1>1, <1>2, <1>3, <1>5, <3>1, KeptProcess DEF Process, SetDedup, Take
  <2>2. CASE e \notin done
    <3>1. PICK q \in Places : Processing(q, e)
      BY <1>10, <2>2 DEF KeysOwned
    <3>2. PICK k : k = work[q].msg
      OBVIOUS
    <3>3. q # p /\ work[q].stage # "idle" /\ work[q].stage # "ack" /\ EventOf(k) = e
      BY <1>3, <3>1, <3>2 DEF Processing
    <3>4. k \in Ids /\ k \in 1..Len(stream) /\ k \in pel
      BY <3>2, <3>3, WorkEvent, HeldPublished DEF HeldPending
    <3>5. k # m
      BY <1>8, <3>2, <3>3 DEF Holds
    <3>6. \A r \in Places : work[r].stage = "ack" => work[r].msg # k
      BY <3>2, <3>3, <3>4 DEF HeldOnce, Holds
    <3>7. \A r \in Places : ~(work'[r].stage = "ack" /\ work'[r].msg = k)
      BY <1>1, <1>3, <1>6, <1>7, <3>5, <3>6
    <3>8. Live(k)'
      BY <1>3, <3>4, <3>7 DEF Live, Outstanding
    <3>9. Kept(e)'
      <4>1. k \in 1..Len(stream') /\ stream'[k] = e
        BY <1>3, <3>3, <3>4 DEF EventOf
      <4> QED  BY <3>8, <4>1 DEF Kept, EventOf
    <3> QED  BY <1>1, <1>2, <1>3, <1>5, <3>9, KeptProcess DEF Process, SetDedup, Take
  <2> QED  BY <2>1, <2>2
<1> QED  BY <1>9, <1>10

LEMMA KeptProcessNext ==
  ASSUME Basic, HeldOnce, HeldPending, KeysOwned, DlqRange, AllKept,
         NEW p \in Places, Process(p)
  PROVE  AllKept'
<1> USE DEF At, Stages
<1>1. PICK m : m = work[p].msg
  OBVIOUS
<1>2. PICK e : e = EventOf(m)
  OBVIOUS
<1>3. /\ stream' = stream /\ count' = count /\ removed' = removed /\ admin' = admin
      /\ done \subseteq done'
  BY DEF Process, Take, SetDedup, HandlerReturns, HandlerRaises, Release, ToDlq, Ack,
         redisVars, ghostVars
<1>4. CASE Take(p)
  <2>1. /\ dlq' = dlq /\ pel' = pel
        /\ \A q \in Places : work'[q].stage = "ack" =>
             work[q].stage = "ack" /\ work'[q].msg = work[q].msg
    BY <1>4, WorkStep DEF Take, redisVars, Process
  <2>2. \A k \in 1..Len(stream) : Live(k) => Live(k)'
    BY <1>3, <2>1 DEF Live, Outstanding
  <2>3. \A f : Dead(f) => Dead(f)'
    BY <1>3, <2>1 DEF Dead
  <2>4. ASSUME NEW j \in 1..Len(stream'), NEW f, f = stream'[j]
        PROVE  Kept(f)'
    BY <1>3, <2>2, <2>3, <2>4, KeptFrame DEF AllKept, EventOf
  <2> QED  BY <2>4 DEF AllKept, EventOf, Kept
<1>5. CASE HandlerReturns(p)
  <2>1. /\ pel' = pel /\ dlq' = dlq /\ done' = done \cup {e}
    BY <1>1, <1>2, <1>5 DEF HandlerReturns, redisVars
  <2>2. Kept(e)'
    BY <2>1 DEF Kept
  <2>3. \A f : Dead(f) => Dead(f)'
    BY <1>3, <2>1 DEF Dead
  <2>4. ~Take(p)
    BY <1>5 DEF HandlerReturns, Take
  <2> QED  BY <1>1, <1>2, <1>3, <2>1, <2>2, <2>3, <2>4, KeptProcess
<1>6. CASE HandlerRaises(p) \/ Release(p)
  <2>1. /\ pel' = pel /\ dlq' = dlq
        /\ work[p].stage \in {"run", "release"}
        /\ \/ work' = [work EXCEPT ![p].stage = "release"]
           \/ work' = [work EXCEPT ![p].stage = "dlq"]
           \/ work' = [work EXCEPT ![p] = NoWork]
    <3>1. CASE HandlerRaises(p)
      BY <3>1 DEF HandlerRaises, redisVars
    <3>2. CASE Release(p)
      BY <3>2 DEF Release, Basic, TypeOK
    <3> QED  BY <1>6, <3>1, <3>2
  <2>2. work \in [Places -> {NoWork} \cup
                   [stage : Stages \ {"idle"}, msg : Ids, dc : Nat \ {0}]]
        /\ work[p] \in [stage : Stages \ {"idle"}, msg : Ids, dc : Nat \ {0}]
    BY <2>1, HeldTypes DEF Basic, TypeOK
  <2>3. \A q \in Places : work'[q].stage = "ack" => work'[q] = work[q]
    BY <2>1, <2>2 DEF NoWork
  <2>4. Live(m) => Live(m)'
    BY <1>3, <2>1, <2>3 DEF Live, Outstanding
  <2>5. \A f : Dead(f) => Dead(f)'
    BY <1>3, <2>1 DEF Dead
  <2>6. ~Take(p)
    BY <2>1 DEF Take
  <2> QED  BY <1>1, <1>2, <1>3, <2>1, <2>4, <2>5, <2>6, KeptProcess
<1>7. CASE ToDlq(p)
  <2>1. /\ pel' = pel /\ dlq' = Append(dlq, e) /\ work[p].stage = "dlq"
    BY <1>1, <1>2, <1>7 DEF ToDlq
  <2>2. dlq \in Seq(Events) /\ e \in Events
    BY <1>1, <1>2, <2>1, WorkEvent DEF Basic, TypeOK
  <2>3. /\ Len(dlq') = Len(dlq) + 1 /\ Len(dlq) \in Nat
        /\ dlq'[Len(dlq) + 1] = e
        /\ \A i \in 1..Len(dlq) : i \in 1..Len(dlq') /\ dlq'[i] = dlq[i]
    BY <2>1, <2>2, QueueAppend
  <2>4. \A f : Dead(f) => Dead(f)'
    BY <1>3, <2>3 DEF Dead
  <2>5. Dead(e)'
    <3> DEFINE i == Len(dlq) + 1
    <3>1. i \in 1..Len(dlq') /\ dlq'[i] = e /\ i \notin removed
      BY <2>3 DEF DlqRange
    <3>2. \A a \in Admins : ~(admin[a].step = "xdel" /\ admin[a].entry = i)
      BY <2>3 DEF Basic, DeliveryCountSound
    <3>3. PICK i0 : i0 = i
      OBVIOUS
    <3> QED  BY <1>3, <3>1, <3>2, <3>3 DEF Dead
  <2>6. Kept(e)' /\ ~Take(p)
    BY <2>1, <2>5 DEF Kept, Take
  <2> QED  BY <1>1, <1>2, <1>3, <2>1, <2>4, <2>6, KeptProcess
<1>8. CASE Ack(p)
  <2>1. pel' = pel \ {m} /\ dlq' = dlq /\ work[p].stage = "ack"
    BY <1>1, <1>8 DEF Ack
  <2>2. ~Live(m) /\ ~Take(p)
    BY <1>1, <2>1 DEF Live, Take
  <2>3. \A f : Dead(f) => Dead(f)'
    BY <1>3, <2>1 DEF Dead
  <2> QED  BY <1>1, <1>2, <1>3, <2>1, <2>2, <2>3, KeptProcess
<1> QED  BY <1>4, <1>5, <1>6, <1>7, <1>8, KeptSetDedup DEF Process

LEMMA KeptRedrive ==
  ASSUME Basic, AllKept, NEW a \in Admins, Redrive(a) \/ RedriveAbandoned(a)
  PROVE  AllKept'
<1>1. /\ dlq' = dlq /\ done' = done /\ work' = work /\ count' = count /\ pel' = pel
  BY DEF Redrive, RedriveFind, RedriveDelDedup, RedrivePublish, RedriveXdel,
         RedriveAbandoned, redisVars, dispatchVars, ghostVars
<1>2. admin \in [Admins -> {NoOp} \cup [step : {"dedup", "publish", "xdel"}, entry : Nat]]
  BY DEF Basic, TypeOK
<1>3. admin[a].step # "none" =>
        /\ admin[a] \in [step : {"dedup", "publish", "xdel"}, entry : Nat]
        /\ admin[a].entry \in 1..Len(dlq)
  BY <1>2 DEF NoOp, Basic, DeliveryCountSound
<1>4. CASE RedriveFind(a) \/ RedriveDelDedup(a) \/ RedriveAbandoned(a)
  <2>1. stream' = stream /\ removed' = removed
    BY <1>4 DEF RedriveFind, RedriveDelDedup, RedriveAbandoned, redisVars
  <2>2. \A b \in Admins : admin'[b].step = "xdel" => admin'[b] = admin[b]
    <3>1. PICK op : op.step # "xdel" /\ admin' = [admin EXCEPT ![a] = op]
      <4>1. CASE RedriveFind(a)
        <5>1. PICK i : admin' = [admin EXCEPT ![a] = [step |-> "dedup", entry |-> i]]
          BY <4>1 DEF RedriveFind
        <5> QED  BY <5>1
      <4>2. CASE RedriveDelDedup(a)
        <5>1. admin' = [admin EXCEPT ![a] = [admin[a] EXCEPT !.step = "publish"]]
          BY <4>2 DEF RedriveDelDedup
        <5>2. [admin[a] EXCEPT !.step = "publish"].step = "publish"
          BY <1>3, <4>2 DEF RedriveDelDedup
        <5> QED  BY <5>1, <5>2
      <4>3. CASE RedriveAbandoned(a)
        BY <4>3 DEF RedriveAbandoned, NoOp
      <4> QED  BY <1>4, <4>1, <4>2, <4>3
    <3> QED  BY <1>2, <3>1
  <2>3. \A f : Dead(f) => Dead(f)'
    BY <1>1, <2>1, <2>2 DEF Dead
  <2> QED  BY <1>1, <2>1, <2>3, KeptQuiet DEF Outstanding
<1>5. CASE RedrivePublish(a)
  <2>1. PICK e : e = dlq[admin[a].entry]
    OBVIOUS
  <2>2. /\ Append1(e) /\ removed' = removed
        /\ admin' = [admin EXCEPT ![a].step = "xdel"]
        /\ admin[a].step # "none"
    BY <1>5, <2>1 DEF RedrivePublish
  <2>3. e \in Events
    BY <1>3, <2>1, <2>2 DEF Basic, TypeOK
  <2>4. \A b \in Admins : b # a => admin'[b] = admin[b]
    BY <1>2, <2>2
  <2>5. admin'[a].entry = admin[a].entry
    BY <1>2, <1>3, <2>2
  <2>6. \A f : f # e /\ Dead(f) => Dead(f)'
    BY <1>1, <2>1, <2>2, <2>4, <2>5 DEF Dead
  <2> QED  BY <1>1, <2>2, <2>3, <2>6, KeptAppend
<1>6. CASE RedriveXdel(a)
  <2>1. /\ stream' = stream
        /\ admin[a].step = "xdel"
        /\ removed' = removed \cup {admin[a].entry}
        /\ admin' = [admin EXCEPT ![a] = NoOp]
    BY <1>6 DEF RedriveXdel
  <2>2. \A b \in Admins : admin'[b].step = "xdel" => admin'[b] = admin[b]
    BY <1>2, <2>1 DEF NoOp
  <2>3. \A f : Dead(f) => Dead(f)'
    BY <1>1, <2>1, <2>2 DEF Dead
  <2> QED  BY <1>1, <2>1, <2>3, KeptQuiet DEF Outstanding
<1> QED  BY <1>4, <1>5, <1>6 DEF Redrive

LEMMA KeptLoop ==
  ASSUME Basic, AllKept, NEW n \in Nodes, Loop(n) \/ Stop(n) \/ Stopped(n) \/ Start(n)
  PROVE  AllKept'
<1>1. /\ stream' = stream /\ work' = work /\ dlq' = dlq /\ done' = done
      /\ removed' = removed /\ admin' = admin
  BY DEF Loop, ReadGroup, Submit, ListPending, XClaim, EndCycle, Stop, Stopped, Start,
         redisVars, dispatchVars, ghostVars
<1>2. \A f : Dead(f) => Dead(f)'
  BY <1>1 DEF Dead
<1>3. \A k \in 1..Len(stream) : Outstanding(k) => Outstanding(k)'
  <2>1. CASE ReadGroup(n)
    <3>1. /\ pel' = pel \cup NewMessages
          /\ count' = [m \in Ids |-> IF m \in NewMessages THEN 1 ELSE count[m]]
      BY <2>1 DEF ReadGroup
    <3>2. \A k \in 1..Len(stream) : k \in Ids
      BY ConstantsAssumption DEF Basic, TypeOK, Ids
    <3> QED  BY <3>1, <3>2 DEF Outstanding
  <2>2. CASE XClaim(n)
    <3>1. PICK t \in todo[n] :
            \/ t.msg \in pel /\ count' = [count EXCEPT ![t.msg] = @ + 1]
            \/ count' = count
      BY <2>2 DEF XClaim
    <3>2. pel' = pel
      BY <2>2 DEF XClaim
    <3>3. count \in [Ids -> Nat] /\ pel \subseteq Ids
      BY DEF Basic, TypeOK
    <3>4. \A k \in 1..Len(stream) : k \in Ids
      BY ConstantsAssumption DEF Basic, TypeOK, Ids
    <3> QED  BY <3>1, <3>2, <3>3, <3>4 DEF Outstanding
  <2>3. CASE ~ReadGroup(n) /\ ~XClaim(n)
    <3>1. pel' = pel /\ count' = count
      BY <2>3 DEF Loop, Submit, ListPending, EndCycle, Stop, Stopped, Start, redisVars
    <3> QED  BY <3>1 DEF Outstanding
  <2> QED  BY <2>1, <2>2, <2>3
<1> QED  BY <1>1, <1>2, <1>3, KeptQuiet

LEMMA KeptNext ==
  ASSUME Basic, Harmless, HeldOnce, HeldPending, KeysOwned, DlqRange, AllKept, [Next]_vars
  PROVE  AllKept'
<1>1. ASSUME NEW e \in Events, Publish(e) \/ PublishDuplicate(e)
      PROVE  AllKept'
  <2>1. /\ Append1(e)
        /\ count' = count /\ pel' = pel /\ work' = work /\ done' = done
        /\ dlq' = dlq /\ removed' = removed /\ admin' = admin
    BY <1>1 DEF Publish, PublishDuplicate, dispatchVars, ghostVars
  <2>2. \A f : Dead(f) => Dead(f)'
    BY <2>1 DEF Dead
  <2> QED  BY <2>1, <2>2, KeptAppend
<1>2. ASSUME NEW e \in Events, DedupExpires(e)
      PROVE  AllKept'
  <2>1. /\ stream' = stream /\ count' = count /\ pel' = pel /\ work' = work /\ done' = done
        /\ dlq' = dlq /\ removed' = removed /\ admin' = admin
    BY <1>2 DEF DedupExpires, dispatchVars, ghostVars
  <2> QED  BY <2>1, KeptQuiet DEF Dead, Outstanding
<1>3. CASE UNCHANGED vars
  <2>1. /\ stream' = stream /\ count' = count /\ pel' = pel /\ work' = work /\ done' = done
        /\ dlq' = dlq /\ removed' = removed /\ admin' = admin
    BY <1>3 DEF vars, redisVars, dispatchVars, ghostVars
  <2> QED  BY <2>1, KeptQuiet DEF Dead, Outstanding
<1> QED
  BY <1>1, <1>2, <1>3, KeptLoop, KeptProcessNext, KeptRedrive, NoFaultSteps DEF Next

\* Deleted positions of the dead-letter stream were appended before.
LEMMA DlqRangeNext ==
  ASSUME Basic, Harmless, DlqRange, [Next]_vars
  PROVE  DlqRange'
<1>1. dlq \in Seq(Events) /\ Len(dlq) \in Nat
  BY DEF Basic, TypeOK
<1>2. CASE removed' = removed /\ dlq' = dlq
  BY <1>2 DEF DlqRange
<1>3. ASSUME NEW p \in Places, ToDlq(p)
      PROVE  DlqRange'
  <2>1. PICK e : e = EventOf(work[p].msg)
    OBVIOUS
  <2>2. dlq' = Append(dlq, e) /\ removed' = removed /\ work[p].stage # "idle"
    BY <1>3, <2>1 DEF ToDlq, At
  <2>3. e \in Events
    BY <2>1, <2>2, WorkEvent
  <2>4. Len(dlq') = Len(dlq) + 1
    BY <1>1, <2>2, <2>3, QueueAppend
  <2> QED  BY <1>1, <2>2, <2>4 DEF DlqRange
<1>4. ASSUME NEW a \in Admins, RedriveXdel(a)
      PROVE  DlqRange'
  <2>1. admin[a].entry \in 1..Len(dlq)
    BY <1>4 DEF RedriveXdel, Basic, DeliveryCountSound
  <2>2. removed' = removed \cup {admin[a].entry} /\ dlq' = dlq
    BY <1>4 DEF RedriveXdel
  <2> QED  BY <2>1, <2>2 DEF DlqRange
<1>5. ASSUME NEW e \in Events, Publish(e) \/ PublishDuplicate(e) \/ DedupExpires(e)
      PROVE  removed' = removed /\ dlq' = dlq
  BY <1>5 DEF Publish, PublishDuplicate, DedupExpires
<1>6. ASSUME NEW n \in Nodes, Loop(n) \/ Stop(n) \/ Stopped(n) \/ Start(n)
      PROVE  removed' = removed /\ dlq' = dlq
  BY <1>6 DEF Loop, ReadGroup, Submit, ListPending, XClaim, EndCycle, Stop, Stopped, Start,
              redisVars
<1>7. ASSUME NEW p \in Places, Process(p), ~ToDlq(p)
      PROVE  removed' = removed /\ dlq' = dlq
  BY <1>7 DEF Process, Take, SetDedup, HandlerReturns, HandlerRaises, Release, Ack, redisVars
<1>8. ASSUME NEW a \in Admins, Redrive(a) \/ RedriveAbandoned(a), ~RedriveXdel(a)
      PROVE  removed' = removed /\ dlq' = dlq
  BY <1>8 DEF Redrive, RedriveFind, RedriveDelDedup, RedrivePublish, RedriveAbandoned, redisVars
<1>9. CASE UNCHANGED vars
  BY <1>2, <1>9 DEF vars, redisVars
<1> QED
  BY <1>2, <1>3, <1>4, <1>5, <1>6, <1>7, <1>8, <1>9, NoFaultSteps DEF Next

-----------------------------------------------------------------------------
Counted == faults' = faults \/ \E k \in FaultKinds : faults' = [faults EXCEPT ![k] = @ + 1]

LEMMA StepCounted ==
  ASSUME [Next]_vars
  PROVE  Counted
<1>1. \A k \in FaultKinds : \A b : Spend(k, b) => Counted
  BY DEF Spend, Counted
<1>2. ASSUME NEW e \in Events, Publish(e) \/ PublishDuplicate(e) \/ DedupExpires(e)
      PROVE  Counted
  BY <1>1, <1>2 DEF Publish, PublishDuplicate, DedupExpires, FaultKinds, Counted
<1>3. ASSUME NEW n \in Nodes, LoopError(n) \/ Stop(n) \/ Stopped(n) \/ Start(n) \/ Crash(n)
      PROVE  Counted
  BY <1>1, <1>3 DEF LoopError, Stop, Stopped, Start, Crash, FaultKinds, Counted
<1>4. ASSUME NEW n \in Nodes, XClaim(n)
      PROVE  Counted
  BY <1>1, <1>4 DEF XClaim, FaultKinds, Counted
<1>5. ASSUME NEW n \in Nodes, Loop(n)
      PROVE  Counted
  BY <1>4, <1>5 DEF Loop, ReadGroup, Submit, ListPending, EndCycle, Counted
<1>6. ASSUME NEW p \in Places, Process(p)
      PROVE  Counted
  BY <1>6 DEF Process, Take, SetDedup, HandlerReturns, HandlerRaises, Release, ToDlq, Ack, Counted
<1>7. ASSUME NEW p \in Places, CommandError(p)
      PROVE  Counted
  BY <1>1, <1>7 DEF CommandError, FaultKinds
<1>8. ASSUME NEW a \in Admins, Redrive(a) \/ RedriveAbandoned(a)
      PROVE  Counted
  BY <1>1, <1>8 DEF Redrive, RedriveFind, RedriveDelDedup, RedrivePublish, RedriveXdel,
                    RedriveAbandoned, FaultKinds, Counted
<1>9. CASE UNCHANGED vars
  BY <1>9 DEF vars, Counted
<1> QED  BY <1>2, <1>3, <1>5, <1>6, <1>7, <1>8, <1>9 DEF Next

\* What is unharmed after a step was unharmed before it.
LEMMA HarmStays ==
  ASSUME Basic, Harmless, [Next]_vars
  PROVE  Unharmed
<1>1. \A k \in FaultKinds : faults[k] \in Nat /\ faults'[k] >= faults[k]
  <2>1. faults \in [FaultKinds -> Nat]
    BY DEF Basic, TypeOK
  <2>2. CASE faults' = faults
    BY <2>1, <2>2
  <2>3. ASSUME NEW j \in FaultKinds, faults' = [faults EXCEPT ![j] = @ + 1]
        PROVE  \A k \in FaultKinds : faults[k] \in Nat /\ faults'[k] >= faults[k]
    <3>1. ASSUME NEW k \in FaultKinds
          PROVE  faults[k] \in Nat /\ (faults'[k] = faults[k] \/ faults'[k] = faults[k] + 1)
      BY <2>1, <2>3
    <3> QED  BY <3>1
  <2> QED  BY <2>2, <2>3, StepCounted DEF Counted
<1>2. "crash" \in FaultKinds /\ "error" \in FaultKinds /\ "slow" \in FaultKinds
  BY DEF FaultKinds
<1>3. /\ faults["crash"] \in Nat /\ faults'["crash"] >= faults["crash"]
      /\ faults["error"] \in Nat /\ faults'["error"] >= faults["error"]
      /\ faults["slow"] \in Nat /\ faults'["slow"] >= faults["slow"]
  BY <1>1, <1>2
<1>4. faults'["crash"] = 0 /\ faults'["error"] = 0 /\ faults'["slow"] = 0
  BY DEF Harmless, Unharmed
<1> QED  BY <1>3, <1>4 DEF Unharmed

Inductive == Basic /\ (Unharmed => SafeInv)

LEMMA InitInductive == Init => Inductive
<1> SUFFICES ASSUME Init PROVE SafeInv
  BY InitBasic DEF Inductive
<1>1. /\ \A p \in Places : work[p] = NoWork /\ queue[p] = <<>>
      /\ \A n \in Nodes : batch[n] = {}
      /\ dedup = {} /\ removed = {} /\ stream = <<>>
  BY DEF Init
<1>2. HeldOnce
  BY <1>1 DEF HeldOnce, Holds, NoWork
<1>3. HeldPending
  BY <1>1 DEF HeldPending, NoWork
<1>4. KeysOwned /\ removed \subseteq 1..Len(dlq)
  BY <1>1 DEF KeysOwned
<1>5. \A m \in 1..Len(stream) : Kept(EventOf(m))
  BY <1>1
<1> QED  BY <1>2, <1>3, <1>4, <1>5 DEF SafeInv

LEMMA InductiveStep == Inductive /\ [Next]_vars => Inductive'
<1> SUFFICES ASSUME Inductive, [Next]_vars PROVE Inductive'
  OBVIOUS
<1>1. Basic /\ Basic'
  BY NextBasic DEF Inductive
<1>2. ASSUME Harmless PROVE SafeInv'
  <2>1. HeldOnce /\ HeldPending /\ KeysOwned /\ DlqRange /\ AllKept
    BY <1>1, <1>2, HarmStays DEF Inductive, SafeInv, DlqRange, AllKept
  <2>2. HeldOnce' /\ HeldPending'
    BY <1>1, <1>2, <2>1, HeldOnceNext, HeldPendingNext
  <2>3. KeysOwned' /\ DlqRange' /\ AllKept'
    BY <1>1, <1>2, <2>1, DedupOwnerNext, DlqRangeNext, KeptNext
  <2> QED  BY <2>2, <2>3 DEF SafeInv, DlqRange, AllKept
<1> QED  BY <1>1, <1>2 DEF Inductive, Harmless

\* What is kept is not lost.
LEMMA KeptNotLost == SafeInv => NothingLost
<1> SUFFICES ASSUME SafeInv, NEW m \in 1..Len(stream), NEW e, e = EventOf(m)
             PROVE  \/ e \in done
                    \/ InDlq(e)
                    \/ \E k \in 1..Len(stream) : EventOf(k) = e /\ Outstanding(k)
  BY DEF NothingLost
<1>1. Kept(e)
  BY DEF SafeInv
<1>2. Dead(e) => InDlq(e)
  BY DEF Dead, InDlq
<1> QED  BY <1>1, <1>2 DEF Kept, Live

THEOREM InductiveHolds == Spec => []Inductive
<1>1. Init => Inductive
  BY InitInductive
<1>2. Inductive /\ [Next]_vars => Inductive'
  BY InductiveStep
<1> QED  BY <1>1, <1>2, PTL DEF Spec

\* At-least-once, the port's first promise: as long as no process crashed, no
\* command failed and no delivery outlived the idle limit, every published
\* event is handled, dead-lettered or still to be delivered (NoEventLost).
THEOREM AtLeastOnce == Spec => []NoEventLost
<1>1. Inductive => NoEventLost
  BY KeptNotLost DEF Inductive, NoEventLost
<1> QED  BY <1>1, InductiveHolds, PTL

\* Under the same conditions no dedup key is left behind by an attempt that
\* did not succeed (DedupHasOwner).
THEOREM DedupKeysOwned == Spec => []DedupHasOwner
<1>1. Inductive => DedupHasOwner
  BY DEF Inductive, SafeInv, DedupHasOwner
<1> QED  BY <1>1, InductiveHolds, PTL
-----------------------------------------------------------------------------
(* One handler per event, as long as its dedup key is not deleted.         *)

\* While a worker is between its SET and its XACK the key exists and the
\* handler has not returned; a key outlives the handler that returned.
OneHandler ==
    /\ \A p \in Places : \A e \in Events : Processing(p, e) => e \in dedup /\ e \notin done
    /\ \A p, q \in Places : \A e \in Events : Processing(p, e) /\ Processing(q, e) => p = q
    /\ done \subseteq dedup

\* A step after which a worker runs only what it ran before.
LEMMA HandlerFrame ==
  ASSUME Basic, OneHandler, dedup \subseteq dedup', done' = done,
         \A m \in 1..Len(stream) : stream'[m] = stream[m],
         \A p \in Places : work'[p].stage \in {"run", "release"} =>
            work[p].stage \in {"run", "release"} /\ work'[p].msg = work[p].msg
  PROVE  OneHandler'
<1>1. ASSUME NEW p \in Places, NEW e, Processing(p, e)'
      PROVE  Processing(p, e)
  <2>1. /\ work[p].stage \in {"run", "release"} /\ work'[p].msg = work[p].msg
        /\ stream'[work'[p].msg] = e
    BY <1>1 DEF Processing, EventOf
  <2>2. work[p].msg \in 1..Len(stream)
    BY <2>1, HeldPublished, WorkEvent
  <2>3. EventOf(work[p].msg) = e
    BY <2>1, <2>2 DEF EventOf
  <2> QED  BY <2>1, <2>3 DEF Processing
<1> QED  BY <1>1 DEF OneHandler

LEMMA HandlerProcess ==
  ASSUME Basic, OneHandler, NEW p \in Places, Process(p)
  PROVE  OneHandler'
<1> USE DEF At, Stages
<1>1. stream' = stream
  BY DEF Process, Take, SetDedup, HandlerReturns, HandlerRaises, Release, ToDlq, Ack, redisVars
<1>2. /\ work \in [Places -> {NoWork} \cup
                    [stage : Stages \ {"idle"}, msg : Ids, dc : Nat \ {0}]]
      /\ dedup \subseteq Events /\ done \subseteq Events
  BY DEF Basic, TypeOK
<1>3. \A q \in Places \ {p} : \A e : Processing(q, e)' <=> Processing(q, e)
  BY <1>1, WorkStep DEF Processing, EventOf
<1> DEFINE e0 == EventOf(work[p].msg)
<1>4. work[p].stage # "idle" =>
        work[p] \in [stage : Stages \ {"idle"}, msg : Ids, dc : Nat \ {0}]
  BY HeldTypes DEF Basic
<1>5. \A e : Processing(p, e) => e = e0
  BY DEF Processing
<1>6. \A q \in Places \ {p} : work'[q] = work[q]
  BY WorkStep
<1>7. ASSUME NEW e, Processing(p, e)' PROVE e = e0 /\ work'[p].stage \in {"run", "release"}
  <2>1. work'[p].stage \in {"run", "release"} /\ stream'[work'[p].msg] = e
    BY <1>7 DEF Processing, EventOf
  <2>2. ~Take(p)
    BY <2>1, WorkStep
  <2>3. work'[p].msg = work[p].msg
    BY <2>1, <2>2, WorkStep
  <2> QED  BY <1>1, <2>1, <2>3 DEF EventOf
<1>8. CASE SetDedup(p)
  <2>1. /\ work[p].stage = "dedup"
        /\ dedup' = dedup \cup {e0} /\ done' = done
        /\ work' = [work EXCEPT ![p].stage = IF e0 \in dedup THEN "ack" ELSE "run"]
    BY <1>8 DEF SetDedup, ghostVars
  <2>2. e0 \in dedup => work'[p].stage = "ack"
    BY <1>2, <2>1
  <2>3. ASSUME NEW e, Processing(p, e)'
        PROVE  e = e0 /\ e \notin dedup /\ e \notin done /\ e \in dedup'
    <3>1. e = e0 /\ e \notin dedup
      BY <1>7, <2>2, <2>3
    <3> QED  BY <2>1, <3>1 DEF OneHandler
  <2>4. ASSUME NEW q \in Places, NEW e \in Events, Processing(q, e)'
        PROVE  e \in dedup' /\ e \notin done'
    BY <1>3, <2>1, <2>3, <2>4 DEF OneHandler
  <2>5. ASSUME NEW q \in Places, NEW r \in Places, NEW e \in Events,
               Processing(q, e)', Processing(r, e)'
        PROVE  q = r
    BY <1>3, <2>3, <2>5 DEF OneHandler
  <2>6. done' \subseteq dedup'
    BY <2>1 DEF OneHandler
  <2> HIDE DEF e0
  <2> QED  BY <2>4, <2>5, <2>6 DEF OneHandler
<1>9. CASE HandlerReturns(p)
  <2>1. /\ work[p].stage = "run" /\ dedup' = dedup /\ done' = done \cup {e0}
        /\ work' = [work EXCEPT ![p].stage = "ack"]
    BY <1>9 DEF HandlerReturns, redisVars
  <2>2. Processing(p, e0) /\ e0 \in Events
    BY <2>1, WorkEvent DEF Processing
  <2>3. work'[p].stage = "ack"
    BY <1>2, <2>1
  <2>4. ~ \E e : Processing(p, e)'
    BY <2>3 DEF Processing
  <2>5. \A q \in Places \ {p} : ~Processing(q, e0)
    BY <2>2 DEF OneHandler
  <2> HIDE DEF e0
  <2> QED  BY <1>3, <2>1, <2>2, <2>4, <2>5 DEF OneHandler
<1>10. CASE Release(p)
  <2>1. /\ work[p].stage = "release" /\ dedup' = dedup \ {e0} /\ done' = done
        /\ work' = [work EXCEPT ![p] =
                      IF work[p].dc >= MaxAttempts THEN [work[p] EXCEPT !.stage = "dlq"] ELSE NoWork]
    BY <1>10 DEF Release, ghostVars
  <2>2. Processing(p, e0) /\ e0 \in Events
    BY <2>1, WorkEvent DEF Processing
  <2>3. work'[p].stage \in {"dlq", "idle"}
    BY <1>2, <1>4, <2>1 DEF NoWork
  <2>4. ~ \E e : Processing(p, e)'
    BY <2>3 DEF Processing
  <2>5. \A q \in Places \ {p} : ~Processing(q, e0)
    BY <2>2 DEF OneHandler
  <2>6. e0 \notin done
    BY <2>2 DEF OneHandler
  <2> HIDE DEF e0
  <2> QED  BY <1>3, <2>1, <2>2, <2>4, <2>5, <2>6 DEF OneHandler
<1>11. CASE Take(p) \/ HandlerRaises(p) \/ ToDlq(p) \/ Ack(p)
  <2>1. dedup' = dedup /\ done' = done
    BY <1>11 DEF Take, HandlerRaises, ToDlq, Ack, redisVars, ghostVars
  <2>2. ASSUME work'[p].stage \in {"run", "release"}
        PROVE  work[p].stage \in {"run", "release"} /\ work'[p].msg = work[p].msg
    <3>1. ~Take(p)
      BY <2>2, WorkStep
    <3>2. ~ToDlq(p) /\ ~Ack(p)
      BY <1>2, <2>2 DEF ToDlq, Ack, NoWork
    <3>3. work[p].stage = "run"
      BY <1>11, <3>1, <3>2 DEF HandlerRaises
    <3> QED  BY <2>2, <3>1, <3>3, WorkStep
  <2> QED  BY <1>1, <1>6, <2>1, <2>2, HandlerFrame
<1> QED  BY <1>8, <1>9, <1>10, <1>11 DEF Process

\* The counters of faults only grow, and so do the deleted entries of the DLQ.
LEMMA FaultsGrow ==
  ASSUME Basic, [Next]_vars
  PROVE  \A k \in FaultKinds : faults[k] \in Nat /\ faults'[k] \in Nat /\ faults'[k] >= faults[k]
<1>1. faults \in [FaultKinds -> Nat]
  BY DEF Basic, TypeOK
<1>2. CASE faults' = faults
  BY <1>1, <1>2
<1>3. ASSUME NEW j \in FaultKinds, faults' = [faults EXCEPT ![j] = @ + 1],
             NEW k \in FaultKinds
      PROVE  faults[k] \in Nat /\ faults'[k] \in Nat /\ faults'[k] >= faults[k]
  <2>1. faults[k] \in Nat /\ (faults'[k] = faults[k] \/ faults'[k] = faults[k] + 1)
    BY <1>1, <1>3
  <2> QED  BY <2>1
<1> QED  BY <1>2, <1>3, StepCounted DEF Counted

LEMMA AdminUntouched ==
  ASSUME [Next]_vars, \A b \in Admins : ~Redrive(b) /\ ~RedriveAbandoned(b)
  PROVE  admin' = admin /\ removed' = removed
<1>1. ASSUME NEW e \in Events, Publish(e) \/ PublishDuplicate(e) \/ DedupExpires(e)
      PROVE  admin' = admin /\ removed' = removed
  BY <1>1 DEF Publish, PublishDuplicate, DedupExpires
<1>2. ASSUME NEW n \in Nodes, Loop(n) \/ LoopError(n) \/ Stop(n) \/ Stopped(n) \/ Start(n) \/ Crash(n)
      PROVE  admin' = admin /\ removed' = removed
  BY <1>2 DEF Loop, ReadGroup, Submit, ListPending, XClaim, EndCycle, LoopError, Stop, Stopped,
              Start, Crash, redisVars
<1>3. ASSUME NEW p \in Places, Process(p) \/ CommandError(p)
      PROVE  admin' = admin /\ removed' = removed
  BY <1>3 DEF Process, Take, SetDedup, HandlerReturns, HandlerRaises, Release, ToDlq, Ack,
              CommandError, redisVars
<1>4. CASE UNCHANGED vars
  BY <1>4 DEF vars, redisVars
<1> QED  BY <1>1, <1>2, <1>3, <1>4 DEF Next

LEMMA RemovedGrows ==
  ASSUME [Next]_vars
  PROVE  removed \subseteq removed'
<1>1. ASSUME NEW a \in Admins, Redrive(a) \/ RedriveAbandoned(a)
      PROVE  removed \subseteq removed'
  BY <1>1 DEF Redrive, RedriveFind, RedriveDelDedup, RedrivePublish, RedriveXdel,
              RedriveAbandoned, redisVars
<1> QED  BY <1>1, AdminUntouched

\* A key that no step deleted so far was not deleted before.
LEMMA KeyDeletedStays ==
  ASSUME Basic, KeyDeleted, [Next]_vars
  PROVE  KeyDeleted'
<1>1. \A k \in FaultKinds : faults[k] \in Nat /\ faults'[k] \in Nat /\ faults'[k] >= faults[k]
  BY FaultsGrow
<1>2. {"expiry", "abandon"} \subseteq FaultKinds
  BY DEF FaultKinds
<1>3. CASE faults["expiry"] > 0 \/ faults["abandon"] > 0
  <2>1. faults'["expiry"] > 0 \/ faults'["abandon"] > 0
    BY <1>1, <1>2, <1>3
  <2> QED  BY <2>1 DEF KeyDeleted
<1>4. CASE removed # {}
  <2>1. removed \subseteq removed'
    BY RemovedGrows
  <2> QED  BY <1>4, <2>1 DEF KeyDeleted
<1>5. ASSUME NEW a \in Admins, admin[a].step \in {"publish", "xdel"}
      PROVE  KeyDeleted'
  <2>1. admin \in [Admins -> {NoOp} \cup [step : {"dedup", "publish", "xdel"}, entry : Nat]]
    BY DEF Basic, TypeOK
  <2>2. CASE admin'[a] = admin[a]
    BY <1>5, <2>2 DEF KeyDeleted
  <2>3. CASE RedriveAbandoned(a)
    <3>1. faults \in [FaultKinds -> Nat] /\ faults' = [faults EXCEPT !["abandon"] = @ + 1]
      BY <2>3 DEF RedriveAbandoned, Spend, Basic, TypeOK
    <3>2. faults'["abandon"] = faults["abandon"] + 1 /\ faults["abandon"] \in Nat
      BY <1>2, <3>1
    <3> QED  BY <3>2 DEF KeyDeleted
  <2>4. CASE RedrivePublish(a)
    <3>1. admin'[a].step = "xdel"
      BY <2>1, <2>4 DEF RedrivePublish, NoOp
    <3> QED  BY <3>1 DEF KeyDeleted
  <2>5. CASE RedriveXdel(a)
    BY <2>5 DEF RedriveXdel, KeyDeleted
  <2>6. ASSUME NEW b \in Admins, b # a, Redrive(b) \/ RedriveAbandoned(b)
        PROVE  admin'[a] = admin[a]
    BY <2>1, <2>6 DEF Redrive, RedriveFind, RedriveDelDedup, RedrivePublish, RedriveXdel,
                      RedriveAbandoned
  <2>7. ~RedriveFind(a) /\ ~RedriveDelDedup(a)
    BY <1>5 DEF RedriveFind, RedriveDelDedup
  <2>8. ASSUME ~ \E b \in Admins : Redrive(b) \/ RedriveAbandoned(b)
        PROVE  admin' = admin
    BY <2>8, AdminUntouched
  <2> QED  BY <2>2, <2>3, <2>4, <2>5, <2>6, <2>7, <2>8 DEF Redrive
<1> QED  BY <1>3, <1>4, <1>5 DEF KeyDeleted

LEMMA HandlerNext ==
  ASSUME Basic, OneHandler, ~KeyDeleted', [Next]_vars
  PROVE  OneHandler'
<1>1. \A m \in 1..Len(stream) : stream'[m] = stream[m]
  BY StreamStable
<1>2. ASSUME NEW n \in Nodes, Loop(n) \/ LoopError(n) \/ Stop(n) \/ Stopped(n) \/ Start(n)
      PROVE  OneHandler'
  <2>1. dedup' = dedup /\ done' = done /\ work' = work
    BY <1>2 DEF Loop, ReadGroup, Submit, ListPending, XClaim, EndCycle, LoopError, Stop, Stopped,
                Start, redisVars, dispatchVars, ghostVars
  <2> QED  BY <1>1, <2>1, HandlerFrame
<1>3. ASSUME NEW n \in Nodes, Crash(n)
      PROVE  OneHandler'
  <2>1. /\ dedup' = dedup /\ done' = done
        /\ work' = [p \in Places |-> IF p[1] = n THEN NoWork ELSE work[p]]
    BY <1>3 DEF Crash, redisVars, ghostVars
  <2>2. \A p \in Places : work'[p].stage # "idle" => work'[p] = work[p]
    BY <2>1 DEF NoWork
  <2> QED  BY <1>1, <2>1, <2>2, HandlerFrame
<1>4. ASSUME NEW e \in Events, Publish(e) \/ PublishDuplicate(e)
      PROVE  OneHandler'
  <2>1. dedup' = dedup /\ done' = done /\ work' = work
    BY <1>4 DEF Publish, PublishDuplicate, dispatchVars, ghostVars
  <2> QED  BY <1>1, <2>1, HandlerFrame
<1>5. ASSUME NEW e \in Events, DedupExpires(e)
      PROVE  FALSE
  <2>1. faults \in [FaultKinds -> Nat] /\ faults' = [faults EXCEPT !["expiry"] = @ + 1]
    BY <1>5 DEF DedupExpires, Spend, Basic, TypeOK
  <2>2. faults'["expiry"] = faults["expiry"] + 1 /\ faults["expiry"] \in Nat
    BY <2>1 DEF FaultKinds
  <2> QED  BY <2>2 DEF KeyDeleted
<1>6. ASSUME NEW p \in Places, Process(p)
      PROVE  OneHandler'
  BY <1>6, HandlerProcess
<1>7. ASSUME NEW p \in Places, CommandError(p)
      PROVE  OneHandler'
  <2>1. /\ dedup \subseteq dedup' /\ done' = done
        /\ work' = [work EXCEPT ![p] = NoWork]
    BY <1>7 DEF CommandError, ghostVars
  <2>2. \A q \in Places : work'[q].stage # "idle" => work'[q] = work[q]
    BY <2>1 DEF NoWork, Basic, TypeOK
  <2> QED  BY <1>1, <2>1, <2>2, HandlerFrame
<1>8. ASSUME NEW a \in Admins, RedriveDelDedup(a)
      PROVE  FALSE
  <2>1. admin'[a].step = "publish"
    BY <1>8 DEF RedriveDelDedup, Basic, TypeOK, NoOp
  <2> QED  BY <2>1 DEF KeyDeleted
<1>9. ASSUME NEW a \in Admins,
             RedriveFind(a) \/ RedrivePublish(a) \/ RedriveXdel(a) \/ RedriveAbandoned(a)
      PROVE  OneHandler'
  <2>1. dedup' = dedup /\ done' = done /\ work' = work
    BY <1>9 DEF RedriveFind, RedrivePublish, RedriveXdel, RedriveAbandoned, redisVars,
                dispatchVars, ghostVars
  <2> QED  BY <1>1, <2>1, HandlerFrame
<1>10. CASE UNCHANGED vars
  <2>1. dedup' = dedup /\ done' = done /\ work' = work
    BY <1>10 DEF vars, redisVars, dispatchVars, ghostVars
  <2> QED  BY <1>1, <2>1, HandlerFrame
<1> QED  BY <1>2, <1>3, <1>4, <1>5, <1>6, <1>7, <1>8, <1>9, <1>10 DEF Next, Redrive

\* The dedup key admits one handler of an event, in all workers of all
\* processes, and none once the handler has returned, through crashes, lost
\* replies, reclaims of slow entries and duplicates in the stream, until a
\* redrive or the TTL deletes a key (redis_streams.py _process).
THEOREM OneHandlerPerEvent == Spec => []HandlerExclusive
<1> DEFINE Inv == Basic /\ (~KeyDeleted => OneHandler)
<1>1. Init => Inv
  <2> SUFFICES ASSUME Init PROVE OneHandler
    BY InitBasic
  <2> QED  BY DEF Init, OneHandler, Processing, NoWork
<1>2. Inv /\ [Next]_vars => Inv'
  <2> SUFFICES ASSUME Inv, [Next]_vars PROVE Inv'
    OBVIOUS
  <2>1. Basic'
    BY NextBasic
  <2>2. ~KeyDeleted' => OneHandler'
    BY KeyDeletedStays, HandlerNext
  <2> QED  BY <2>1, <2>2
<1>3. Inv => HandlerExclusive
  BY DEF OneHandler, HandlerExclusive
<1> QED  BY <1>1, <1>2, <1>3, PTL DEF Spec

-----------------------------------------------------------------------------
(* stop() waits for what was read.                                         *)

\* A loop that ended holds nothing, and a process that went down had ended and
\* drained its workers; a handler that raised counts as a failure of its event
\* until the DLQ holds it; and what is pending is in hand or failed.
LoopsEnd == \A n \in Nodes : phase[n] = "ended" => batch[n] = {} /\ todo[n] = {}

DownDrained ==
    /\ \A n \in Nodes : node[n] = "down" => phase[n] = "ended"
    /\ \A p \in Places : node[p[1]] = "down" => queue[p] = <<>> /\ work[p].stage = "idle"

RaisedFailed == \A p \in Places : work[p].stage \in {"release", "dlq"} => Failed(EventOf(work[p].msg))

PendingHeld == \A m \in pel : InHands(m) \/ Failed(EventOf(m))

Drained == LoopsEnd /\ DownDrained /\ RaisedFailed /\ PendingHeld

\* Only ToDlq appends to the DLQ, and only a redrive forgets failures.
LEMMA DlqAppends ==
  ASSUME Basic, [Next]_vars
  PROVE  \E x : dlq' = dlq \/ (x \in Events /\ dlq' = Append(dlq, x))
<1>1. ASSUME NEW p \in Places, ToDlq(p) \/ CommandError(p), dlq' # dlq
      PROVE  \E x : x \in Events /\ dlq' = Append(dlq, x)
  <2>1. work[p].stage # "idle" /\ dlq' = Append(dlq, EventOf(work[p].msg))
    BY <1>1 DEF ToDlq, CommandError, At
  <2> QED  BY <2>1, WorkEvent
<1>2. ASSUME NEW p \in Places, Process(p), ~ToDlq(p)
      PROVE  dlq' = dlq
  BY <1>2 DEF Process, Take, SetDedup, HandlerReturns, HandlerRaises, Release, Ack, redisVars
<1>3. ASSUME NEW e \in Events, Publish(e) \/ PublishDuplicate(e) \/ DedupExpires(e)
      PROVE  dlq' = dlq
  BY <1>3 DEF Publish, PublishDuplicate, DedupExpires
<1>4. ASSUME NEW n \in Nodes, Loop(n) \/ LoopError(n) \/ Stop(n) \/ Stopped(n) \/ Start(n) \/ Crash(n)
      PROVE  dlq' = dlq
  BY <1>4 DEF Loop, ReadGroup, Submit, ListPending, XClaim, EndCycle, LoopError, Stop, Stopped,
              Start, Crash, redisVars
<1>5. ASSUME NEW a \in Admins, Redrive(a) \/ RedriveAbandoned(a)
      PROVE  dlq' = dlq
  BY <1>5 DEF Redrive, RedriveFind, RedriveDelDedup, RedrivePublish, RedriveXdel,
              RedriveAbandoned, redisVars
<1>6. CASE UNCHANGED vars
  BY <1>6 DEF vars, redisVars
<1> QED  BY <1>1, <1>2, <1>3, <1>4, <1>5, <1>6 DEF Next

LEMMA TriesReset ==
  ASSUME Basic, [Next]_vars, NEW e \in Events, \A i \in 1..Len(dlq) : dlq[i] # e
  PROVE  tries'[e] >= tries[e] /\ tries'[e] \in Nat
<1>0. tries \in [Events -> Nat] /\ tries[e] \in Nat
  BY DEF Basic, TypeOK
<1>1. CASE tries' = tries
  BY <1>0, <1>1
<1>2. ASSUME NEW p \in Places, HandlerRaises(p)
      PROVE  tries'[e] >= tries[e] /\ tries'[e] \in Nat
  <2>1. PICK f : tries' = [tries EXCEPT ![f] = tries[f] + 1]
    BY <1>2 DEF HandlerRaises
  <2>2. tries'[e] = tries[e] \/ tries'[e] = tries[e] + 1
    BY <1>0, <2>1
  <2> QED  BY <1>0, <2>2
<1>3. ASSUME NEW a \in Admins, RedrivePublish(a)
      PROVE  tries'[e] >= tries[e] /\ tries'[e] \in Nat
  <2>1. admin[a].entry \in 1..Len(dlq)
    BY <1>3 DEF RedrivePublish, Basic, DeliveryCountSound
  <2>2. dlq[admin[a].entry] # e
    BY <2>1
  <2>3. tries'[e] = tries[e]
    BY <1>0, <1>3, <2>2 DEF RedrivePublish
  <2> QED  BY <1>0, <2>3
<1>4. ASSUME NEW p \in Places, Process(p) \/ CommandError(p), ~HandlerRaises(p)
      PROVE  tries' = tries
  BY <1>4 DEF Process, Take, SetDedup, HandlerReturns, Release, ToDlq, Ack, CommandError, ghostVars
<1>5. ASSUME NEW f \in Events, Publish(f) \/ PublishDuplicate(f) \/ DedupExpires(f)
      PROVE  tries' = tries
  BY <1>5 DEF Publish, PublishDuplicate, DedupExpires, ghostVars
<1>6. ASSUME NEW n \in Nodes, Loop(n) \/ LoopError(n) \/ Stop(n) \/ Stopped(n) \/ Start(n) \/ Crash(n)
      PROVE  tries' = tries
  BY <1>6 DEF Loop, ReadGroup, Submit, ListPending, XClaim, EndCycle, LoopError, Stop, Stopped,
              Start, Crash, ghostVars
<1>7. ASSUME NEW a \in Admins, Redrive(a) \/ RedriveAbandoned(a), ~RedrivePublish(a)
      PROVE  tries' = tries
  BY <1>7 DEF Redrive, RedriveFind, RedriveDelDedup, RedriveXdel, RedriveAbandoned, ghostVars
<1>8. CASE UNCHANGED vars
  <2>1. UNCHANGED ghostVars
    BY <1>8 DEF vars
  <2> QED  BY <1>1, <2>1 DEF ghostVars
<1> QED  BY <1>1, <1>2, <1>3, <1>4, <1>5, <1>6, <1>7, <1>8 DEF Next

\* What RaisedFailed and PendingHeld say of an event stays true of it: only a
\* redrive forgets its failures, and the event is in the DLQ then.
LEMMA FailedStays ==
  ASSUME Basic, [Next]_vars, NEW e \in Events, Failed(e)
  PROVE  Failed(e)'
<1>0. tries \in [Events -> Nat] /\ dlq \in Seq(Events)
  BY DEF Basic, TypeOK
<1>1. ASSUME NEW x, dlq' = dlq \/ (x \in Events /\ dlq' = Append(dlq, x)),
             \A i \in 1..Len(dlq) : dlq[i] # e, tries'[e] >= tries[e], tries'[e] \in Nat
      PROVE  Failed(e)'
  <2>1. tries[e] > 0
    BY <1>1 DEF Failed
  <2> QED  BY <1>0, <1>1, <2>1 DEF Failed
<1>2. ASSUME NEW x, dlq' = dlq \/ (x \in Events /\ dlq' = Append(dlq, x)),
             NEW i \in 1..Len(dlq), dlq[i] = e
      PROVE  Failed(e)'
  <2>1. i \in 1..Len(dlq') /\ dlq'[i] = e
    <3>1. CASE dlq' = dlq
      BY <1>2, <3>1
    <3>2. CASE x \in Events /\ dlq' = Append(dlq, x)
      <4>1. Len(dlq) \in Nat
        BY <1>0
      <4> QED  BY <1>0, <1>2, <3>2, <4>1, QueueAppend
    <3> QED  BY <1>2, <3>1, <3>2
  <2> QED  BY <2>1 DEF Failed
<1>3. \E x : dlq' = dlq \/ (x \in Events /\ dlq' = Append(dlq, x))
  BY DlqAppends
<1>4. (\A i \in 1..Len(dlq) : dlq[i] # e) => tries'[e] >= tries[e] /\ tries'[e] \in Nat
  BY TriesReset
<1> QED  BY <1>1, <1>2, <1>3, <1>4

\* A step that hands over nothing new and takes nothing away.
LEMMA InHandsFrame ==
  ASSUME NEW m, InHands(m), \A n \in Nodes : batch[n] \subseteq batch'[n], queue' = queue,
         \A p \in Places : work[p].stage # "idle" =>
            work'[p].stage # "idle" /\ work'[p].msg = work[p].msg
  PROVE  InHands(m)'
  BY DEF InHands, QueuedMsgs

LEMMA PendingEvent ==
  ASSUME Basic, [Next]_vars, NEW m \in pel
  PROVE  m \in 1..Len(stream) /\ EventOf(m) \in Events /\ stream'[m] = stream[m]
<1>1. m \in Ids /\ count[m] > 0
  BY DEF Basic, TypeOK, DeliveryCountSound
<1> QED  BY <1>1, HeldPublished, StreamStable

LEMMA PendingFrame ==
  ASSUME Basic, [Next]_vars, PendingHeld, pel' \subseteq pel,
         \A m \in pel' : InHands(m) => InHands(m)' \/ Failed(EventOf(m))
  PROVE  PendingHeld'
<1>1. ASSUME NEW m \in pel'
      PROVE  (InHands(m) \/ Failed(EventOf(m)))'
  <2>1. m \in pel
    BY <1>1
  <2>2. EventOf(m) \in Events /\ stream'[m] = stream[m]
    BY <2>1, PendingEvent
  <2>3. Failed(EventOf(m)) => Failed(EventOf(m))'
    <3>1. PICK e : e = EventOf(m)
      OBVIOUS
    <3>2. Failed(e) => Failed(e)'
      BY <2>2, <3>1, FailedStays
    <3>3. EventOf(m)' = e
      BY <2>2, <3>1 DEF EventOf
    <3> QED  BY <3>1, <3>2, <3>3 DEF Failed
  <2>4. InHands(m) \/ Failed(EventOf(m))
    BY <2>1 DEF PendingHeld
  <2> QED  BY <1>1, <2>3, <2>4
<1> QED  BY <1>1 DEF PendingHeld

LEMMA RaisedFrame ==
  ASSUME Basic, [Next]_vars, RaisedFailed,
         \A p \in Places : work'[p].stage \in {"release", "dlq"} =>
            \/ work[p].stage \in {"release", "dlq"} /\ work'[p].msg = work[p].msg
            \/ Failed(EventOf(work[p].msg))' /\ work'[p].msg = work[p].msg
  PROVE  RaisedFailed'
<1>1. ASSUME NEW p \in Places, work[p].stage \in {"release", "dlq"}, work'[p].msg = work[p].msg
      PROVE  Failed(EventOf(work[p].msg))'
  <2>1. PICK m : m = work[p].msg
    OBVIOUS
  <2>2. PICK e : e = EventOf(m)
    OBVIOUS
  <2>3. e \in Events /\ m \in 1..Len(stream)
    BY <1>1, <2>1, <2>2, WorkEvent, HeldPublished
  <2>4. stream'[m] = e
    BY <2>2, <2>3, StreamStable DEF EventOf
  <2>5. Failed(e)
    BY <1>1, <2>1, <2>2 DEF RaisedFailed
  <2>6. Failed(e)'
    BY <2>3, <2>5, FailedStays
  <2>7. EventOf(work[p].msg)' = e
    BY <1>1, <2>1, <2>4 DEF EventOf
  <2> QED  BY <2>6, <2>7 DEF Failed
<1> QED  BY <1>1 DEF RaisedFailed

\* A pending entry in hand, or failed, that stays in hand stays so.
LEMMA PendingStays ==
  ASSUME Basic, [Next]_vars, PendingHeld, NEW m \in pel, InHands(m) => InHands(m)'
  PROVE  (InHands(m) \/ Failed(EventOf(m)))'
<1>1. EventOf(m) \in Events /\ stream'[m] = stream[m]
  BY PendingEvent
<1>2. PICK e : e = EventOf(m)
  OBVIOUS
<1>3. Failed(e) => Failed(e)'
  BY <1>1, <1>2, FailedStays
<1>4. EventOf(m)' = e
  BY <1>1, <1>2 DEF EventOf
<1>5. Failed(EventOf(m)) => Failed(EventOf(m))'
  BY <1>2, <1>3, <1>4 DEF Failed
<1> QED  BY <1>5 DEF PendingHeld

LEMMA SubmitPlace ==
  ASSUME Basic, NEW n \in Nodes, NEW d \in batch[n]
  PROVE  <<n, Worker(d.msg)>> \in Places
<1>1. d \in Delivery /\ d.dc > 0 /\ d.msg \in Ids
  BY HeldTypes DEF Basic, Delivery
<1>2. EventOf(d.msg) \in Events
  BY <1>1, HeldPublished
<1> QED  BY <1>2, ConstantsAssumption DEF Worker, Places

LEMMA ProcessQueue ==
  ASSUME NEW p \in Places, Process(p), ~Take(p)
  PROVE  queue' = queue
  BY DEF Process, SetDedup, HandlerReturns, HandlerRaises, Release, ToDlq, Ack

LEMMA DrainedLoop ==
  ASSUME Basic, Harmless, Drained, [Next]_vars, NEW n \in Nodes, Loop(n)
  PROVE  Drained'
<1>0. /\ batch \in [Nodes -> SUBSET Delivery] /\ todo \in [Nodes -> SUBSET Delivery]
      /\ phase \in [Nodes -> {"read", "reclaim", "ended"}]
      /\ queue \in [Places -> Seq(Delivery)]
      /\ node' = node /\ work' = work /\ stream' = stream
  BY DEF Basic, TypeOK, Loop, ReadGroup, Submit, ListPending, XClaim, EndCycle, dispatchVars, redisVars
<1>1. RaisedFailed'
  BY <1>0, RaisedFrame DEF Drained
<1>2. CASE ReadGroup(n)
  <2>1. /\ phase[n] = "read" /\ batch[n] = {} /\ pel' = pel \cup NewMessages
        /\ batch' = [batch EXCEPT ![n] = {[msg |-> m, dc |-> 1] : m \in NewMessages}]
        /\ phase' = [phase EXCEPT ![n] = "reclaim"] /\ todo' = todo /\ queue' = queue
    BY <1>2 DEF ReadGroup, dispatchVars
  <2>2. LoopsEnd'
    BY <1>0, <2>1 DEF Drained, LoopsEnd
  <2>3. DownDrained'
    BY <1>0, <2>1 DEF Drained, DownDrained
  <2>4. ASSUME NEW m \in NewMessages
        PROVE  InHands(m)'
    <3>1. [msg |-> m, dc |-> 1] \in batch'[n]
      BY <1>0, <2>1
    <3> QED  BY <3>1 DEF InHands
  <2>5. ASSUME NEW m \in pel
        PROVE  (InHands(m) \/ Failed(EventOf(m)))'
    <3>1. InHands(m) => InHands(m)'
      BY <1>0, <2>1, InHandsFrame
    <3> QED  BY <3>1, PendingStays DEF Drained
  <2> QED  BY <1>1, <2>1, <2>2, <2>3, <2>4, <2>5 DEF Drained, PendingHeld
<1>3. CASE Submit(n)
  <2>1. PICK d \in batch[n] :
          LET p == <<n, Worker(d.msg)>> IN
          /\ queue' = [queue EXCEPT ![p] = Append(@, d)]
          /\ batch' = [batch EXCEPT ![n] = @ \ {d}]
          /\ phase' = phase /\ todo' = todo /\ pel' = pel
    BY <1>3 DEF Submit, redisVars
  <2>2. PICK p : p = <<n, Worker(d.msg)>>
    OBVIOUS
  <2>3. /\ queue' = [queue EXCEPT ![p] = Append(queue[p], d)]
        /\ batch' = [batch EXCEPT ![n] = batch[n] \ {d}]
        /\ phase' = phase /\ todo' = todo /\ pel' = pel /\ p[1] = n
    BY <2>1, <2>2
  <2>4. phase[n] # "ended"
    BY DEF Drained, LoopsEnd
  <2>5. LoopsEnd'
    BY <1>0, <2>3 DEF Drained, LoopsEnd
  <2>6. node[n] # "down"
    BY <2>4 DEF Drained, DownDrained
  <2>7. \A q \in Places : q # p => queue'[q] = queue[q]
    BY <1>0, <2>3
  <2>8. DownDrained'
    BY <1>0, <2>3, <2>6, <2>7 DEF Drained, DownDrained
  <2>9. d \in Delivery /\ p \in Places
    BY <2>1, <2>2, SubmitPlace, HeldTypes DEF Basic
  <2>10. /\ queue'[p] = Append(queue[p], d) /\ queue[p] \in Seq(Delivery)
         /\ Len(queue[p]) \in Nat
    BY <1>0, <2>3, <2>9
  <2>11. /\ Len(queue'[p]) = Len(queue[p]) + 1 /\ queue'[p][Len(queue[p]) + 1] = d
         /\ \A i \in 1..Len(queue[p]) : queue'[p][i] = queue[p][i]
    BY <2>9, <2>10, QueueAppend
  <2>12. ASSUME NEW q \in Places
         PROVE  QueuedMsgs(q) \subseteq QueuedMsgs(q)'
    <3>1. CASE q # p
      BY <2>7, <3>1 DEF QueuedMsgs
    <3>2. CASE q = p
      <4>1. \A i \in 1..Len(queue[p]) : i \in 1..Len(queue'[p]) /\ queue'[p][i] = queue[p][i]
        BY <2>10, <2>11
      <4> QED  BY <3>2, <4>1 DEF QueuedMsgs
    <3> QED  BY <3>1, <3>2
  <2>13. d.msg \in QueuedMsgs(p)'
    BY <2>10, <2>11 DEF QueuedMsgs
  <2>14. ASSUME NEW m, InHands(m)
         PROVE  InHands(m)'
    <3>1. CASE m = d.msg
      BY <2>9, <2>13, <3>1 DEF InHands
    <3>2. CASE m # d.msg
      <4>1. \A k \in Nodes : \A x \in batch[k] : x.msg = m => x \in batch'[k]
        BY <1>0, <2>3, <3>2
      <4> QED  BY <1>0, <2>12, <2>14, <4>1 DEF InHands
    <3> QED  BY <3>1, <3>2
  <2>15. PendingHeld'
    BY <2>3, <2>14, PendingFrame DEF Drained
  <2> QED  BY <1>1, <2>5, <2>8, <2>15 DEF Drained
<1>4. CASE ListPending(n)
  <2>1. /\ phase[n] = "reclaim" /\ phase' = phase /\ batch' = batch /\ queue' = queue /\ pel' = pel
        /\ \A k \in Nodes : k # n => todo'[k] = todo[k]
    BY <1>0, <1>4 DEF ListPending, NextStream, dispatchVars, redisVars
  <2>2. LoopsEnd'
    BY <2>1 DEF Drained, LoopsEnd
  <2>3. DownDrained'
    BY <1>0, <2>1 DEF Drained, DownDrained
  <2>4. PendingHeld'
    BY <1>0, <2>1, InHandsFrame, PendingFrame DEF Drained
  <2> QED  BY <1>1, <2>2, <2>3, <2>4 DEF Drained
<1>5. CASE XClaim(n)
  <2>1. /\ todo[n] # {} /\ batch[n] = {} /\ phase' = phase /\ queue' = queue /\ pel' = pel
        /\ \A k \in Nodes : k # n => todo'[k] = todo[k] /\ batch'[k] = batch[k]
    BY <1>0, <1>5 DEF XClaim, dispatchVars
  <2>2. LoopsEnd'
    BY <2>1 DEF Drained, LoopsEnd
  <2>3. DownDrained'
    BY <1>0, <2>1 DEF Drained, DownDrained
  <2>4. \A k \in Nodes : batch[k] \subseteq batch'[k]
    BY <2>1
  <2>5. PendingHeld'
    BY <1>0, <2>1, <2>4, InHandsFrame, PendingFrame DEF Drained
  <2> QED  BY <1>1, <2>2, <2>3, <2>5 DEF Drained
<1>6. CASE EndCycle(n)
  <2>1. /\ batch[n] = {} /\ todo[n] = {} /\ batch' = batch /\ todo' = todo /\ queue' = queue
        /\ pel' = pel /\ Alive(n)
        /\ \A k \in Nodes : k # n => phase'[k] = phase[k]
    BY <1>0, <1>6 DEF EndCycle, dispatchVars, redisVars
  <2>2. LoopsEnd'
    BY <2>1 DEF Drained, LoopsEnd
  <2>3. DownDrained'
    BY <1>0, <2>1 DEF Drained, DownDrained, Alive
  <2>4. PendingHeld'
    BY <1>0, <2>1, InHandsFrame, PendingFrame DEF Drained
  <2> QED  BY <1>1, <2>2, <2>3, <2>4 DEF Drained
<1> QED  BY <1>2, <1>3, <1>4, <1>5, <1>6 DEF Loop

LEMMA DrainedProcess ==
  ASSUME Basic, Drained, [Next]_vars, NEW p \in Places, Process(p)
  PROVE  Drained'
<1> USE DEF At, Stages
<1>0. /\ work \in [Places -> {NoWork} \cup
                    [stage : Stages \ {"idle"}, msg : Ids, dc : Nat \ {0}]]
      /\ queue \in [Places -> Seq(Delivery)] /\ tries \in [Events -> Nat]
  BY DEF Basic, TypeOK
<1>1. /\ stream' = stream /\ node' = node /\ phase' = phase /\ batch' = batch /\ todo' = todo
  BY DEF Process, Take, SetDedup, HandlerReturns, HandlerRaises, Release, ToDlq, Ack, redisVars,
         readerVars
<1>2. LoopsEnd'
  BY <1>1 DEF Drained, LoopsEnd
<1>3. \A q \in Places : q # p => work'[q] = work[q]
  BY WorkStep
<1>4. CASE Take(p)
  <2>1. /\ work[p].stage = "idle" /\ queue[p] # <<>> /\ pel' = pel
        /\ work' = [work EXCEPT ![p] = [stage |-> "dedup", msg |-> Head(queue[p]).msg,
                                        dc |-> Head(queue[p]).dc]]
        /\ queue' = [queue EXCEPT ![p] = Tail(queue[p])]
    BY <1>4 DEF Take, redisVars
  <2>2. \A q \in Places : q # p => queue'[q] = queue[q]
    BY <1>0, <2>1
  <2>3. node[p[1]] # "down"
    BY <2>1 DEF Drained, DownDrained
  <2>4. DownDrained'
    BY <1>1, <1>3, <2>2, <2>3 DEF Drained, DownDrained
  <2>5. work'[p].stage = "dedup" /\ work'[p].msg = Head(queue[p]).msg /\ queue'[p] = Tail(queue[p])
    BY <1>0, <2>1
  <2>6. RaisedFailed'
    BY <1>3, <2>5, RaisedFrame DEF Drained
  <2>7. /\ Head(queue[p]) = queue[p][1] /\ Len(Tail(queue[p])) = Len(queue[p]) - 1
        /\ Len(queue[p]) \in Nat \ {0}
        /\ \A i \in 1..Len(Tail(queue[p])) : Tail(queue[p])[i] = queue[p][i + 1]
    BY <1>0, <2>1, QueueTail
  <2>8. ASSUME NEW i \in 1..Len(queue[p]), i # 1
        PROVE  queue[p][i].msg \in QueuedMsgs(p)'
    <3>1. i - 1 \in 1..Len(queue'[p]) /\ queue'[p][i - 1] = queue[p][i]
      BY <2>5, <2>7, <2>8
    <3> QED  BY <3>1 DEF QueuedMsgs
  <2>9. ASSUME NEW m, InHands(m)
        PROVE  InHands(m)'
    <3>1. ASSUME NEW k \in Nodes, NEW x \in batch[k], x.msg = m
          PROVE  InHands(m)'
      BY <1>1, <3>1 DEF InHands
    <3>2. ASSUME NEW q \in Places, NEW i \in 1..Len(queue[q]), m = queue[q][i].msg
          PROVE  InHands(m)'
      <4>1. CASE q # p
        BY <2>2, <3>2, <4>1 DEF InHands, QueuedMsgs
      <4>2. CASE q = p /\ i # 1
        BY <2>8, <3>2, <4>2 DEF InHands
      <4>3. CASE q = p /\ i = 1
        BY <2>5, <2>7, <3>2, <4>3 DEF InHands
      <4> QED  BY <4>1, <4>2, <4>3
    <3>3. ASSUME NEW q \in Places, work[q].stage # "idle", work[q].msg = m
          PROVE  InHands(m)'
      <4>1. q # p
        BY <2>1, <3>3
      <4> QED  BY <1>3, <3>3, <4>1 DEF InHands
    <3> QED  BY <2>9, <3>1, <3>2, <3>3 DEF InHands, QueuedMsgs
  <2>10. PendingHeld'
    BY <2>1, <2>9, PendingFrame DEF Drained
  <2> QED  BY <1>2, <2>4, <2>6, <2>10 DEF Drained
<1>5. CASE ~Take(p)
  <2>1. /\ work[p].stage # "idle" /\ queue' = queue
        /\ work'[p].stage # "idle" => work'[p].msg = work[p].msg
    BY <1>5, ProcessStage, WorkStep, ProcessQueue
  <2>2. node[p[1]] # "down"
    BY <2>1 DEF Drained, DownDrained
  <2>3. DownDrained'
    BY <1>1, <1>3, <2>1, <2>2 DEF Drained, DownDrained
  <2>4. work[p] \in [stage : Stages \ {"idle"}, msg : Ids, dc : Nat \ {0}]
    BY <2>1, HeldTypes DEF Basic
  <2>5. CASE SetDedup(p) \/ HandlerReturns(p) \/ ToDlq(p)
    <3>1. work'[p].stage \in {"run", "ack"} /\ pel' = pel
      BY <1>0, <2>4, <2>5 DEF SetDedup, HandlerReturns, ToDlq, redisVars
    <3>2. RaisedFailed'
      BY <1>3, <3>1, RaisedFrame DEF Drained
    <3>3. \A m : InHands(m) => InHands(m)'
      BY <1>1, <1>3, <2>1, <3>1, InHandsFrame
    <3>4. PendingHeld'
      BY <3>1, <3>3, PendingFrame DEF Drained
    <3> QED  BY <1>2, <2>3, <3>2, <3>4 DEF Drained
  <2>6. CASE HandlerRaises(p)
    <3>1. PICK m : m = work[p].msg
      OBVIOUS
    <3>2. PICK e : e = EventOf(m)
      OBVIOUS
    <3>3. e \in Events /\ EventOf(m)' = e
      BY <1>1, <2>1, <3>1, <3>2, WorkEvent DEF EventOf
    <3>4. tries' = [tries EXCEPT ![e] = tries[e] + 1] /\ pel' = pel
          /\ work' = [work EXCEPT ![p].stage = "release"]
      BY <2>6, <3>1, <3>2 DEF HandlerRaises, redisVars
    <3>5. tries'[e] > 0
      <4>1. tries[e] \in Nat /\ tries'[e] = tries[e] + 1
        BY <1>0, <3>3, <3>4
      <4> QED  BY <4>1
    <3>6. Failed(e)'
      BY <3>5 DEF Failed
    <3>7. Failed(EventOf(work[p].msg))'
      <4>1. work'[p].stage = "release"
        BY <1>0, <3>4
      <4>2. work'[p].msg = m
        BY <2>1, <3>1, <4>1
      <4> QED  BY <3>3, <3>6, <4>2 DEF Failed
    <3>8. work'[p].stage = "release"
      BY <1>0, <3>4
    <3>9. RaisedFailed'
      BY <1>3, <2>1, <3>7, <3>8, RaisedFrame DEF Drained
    <3>10. \A k : InHands(k) => InHands(k)'
      BY <1>1, <1>3, <2>1, <3>8, InHandsFrame
    <3>11. PendingHeld'
      BY <3>4, <3>10, PendingFrame DEF Drained
    <3> QED  BY <1>2, <2>3, <3>9, <3>11 DEF Drained
  <2>7. CASE Release(p) \/ Ack(p)
    <3>1. PICK m : m = work[p].msg
      OBVIOUS
    <3>2. \A k : k # m /\ InHands(k) => InHands(k)'
      BY <1>1, <1>3, <2>1, <3>1 DEF InHands, QueuedMsgs
    <3>3. m \in pel' => Failed(EventOf(m))
      <4>1. CASE Release(p)
        BY <3>1, <4>1 DEF Drained, RaisedFailed, Release
      <4>2. CASE Ack(p)
        BY <3>1, <4>2 DEF Ack
      <4> QED  BY <2>7, <4>1, <4>2
    <3>4. pel' \subseteq pel
      BY <2>7 DEF Release, Ack
    <3>5. PendingHeld'
      BY <3>2, <3>3, <3>4, PendingFrame DEF Drained
    <3>6. work'[p].stage \in {"release", "dlq"} => work[p].stage = "release"
      BY <1>0, <2>4, <2>7 DEF Release, Ack, NoWork
    <3>7. RaisedFailed'
      BY <1>3, <2>1, <3>6, RaisedFrame DEF Drained
    <3> QED  BY <1>2, <2>3, <3>5, <3>7 DEF Drained
  <2> QED  BY <1>5, <2>5, <2>6, <2>7 DEF Process
<1> QED  BY <1>4, <1>5

\* Steps of the admins, of publishers and of the life cycle leave what is held.
LEMMA DrainedElsewhere ==
  ASSUME Basic, Drained, [Next]_vars, UNCHANGED <<pel, batch, todo, queue, work>>,
         \A n \in Nodes : phase'[n] = "ended" => phase[n] = "ended",
         \A n \in Nodes : node'[n] = "down" =>
            /\ phase'[n] = "ended"
            /\ \A p \in Places : p[1] = n => queue[p] = <<>> /\ work[p].stage = "idle"
  PROVE  Drained'
<1>1. LoopsEnd'
  BY DEF Drained, LoopsEnd
<1>2. DownDrained'
  <2>1. \A p \in Places : p[1] \in Nodes
    BY DEF Places
  <2> QED  BY <2>1 DEF DownDrained
<1>3. RaisedFailed'
  BY RaisedFrame DEF Drained
<1>4. \A m : InHands(m) => InHands(m)'
  BY InHandsFrame
<1>5. PendingHeld'
  BY <1>4, PendingFrame DEF Drained
<1> QED  BY <1>1, <1>2, <1>3, <1>5 DEF Drained

LEMMA DrainedNext ==
  ASSUME Basic, Harmless, Drained, [Next]_vars
  PROVE  Drained'
<1>0. /\ node \in [Nodes -> {"up", "stopping", "down"}]
      /\ phase \in [Nodes -> {"read", "reclaim", "ended"}]
  BY DEF Basic, TypeOK
<1>a. /\ \A n \in Nodes : node[n] = "down" => phase[n] = "ended"
      /\ \A n \in Nodes : node[n] = "down" =>
            \A p \in Places : p[1] = n => queue[p] = <<>> /\ work[p].stage = "idle"
  BY DEF Drained, DownDrained
<1>1. ASSUME NEW n \in Nodes, Loop(n)
      PROVE  Drained'
  BY <1>1, DrainedLoop
<1>2. ASSUME NEW p \in Places, Process(p)
      PROVE  Drained'
  BY <1>2, DrainedProcess
<1>3. ASSUME UNCHANGED <<pel, batch, todo, queue, work, node, phase>>
      PROVE  Drained'
  BY <1>3, <1>a, DrainedElsewhere
<1>4. ASSUME NEW e \in Events, Publish(e) \/ PublishDuplicate(e) \/ DedupExpires(e)
      PROVE  Drained'
  <2>1. UNCHANGED <<pel, batch, todo, queue, work, node, phase>>
    BY <1>4 DEF Publish, PublishDuplicate, DedupExpires, readerVars, dispatchVars
  <2> QED  BY <1>3, <2>1
<1>5. ASSUME NEW a \in Admins, Redrive(a) \/ RedriveAbandoned(a)
      PROVE  Drained'
  <2>1. UNCHANGED <<pel, batch, todo, queue, work, node, phase>>
    BY <1>5 DEF Redrive, RedriveFind, RedriveDelDedup, RedrivePublish, RedriveXdel,
                RedriveAbandoned, redisVars, readerVars, dispatchVars
  <2> QED  BY <1>3, <2>1
<1>6. ASSUME NEW n \in Nodes, Stop(n)
      PROVE  Drained'
  <2>1. UNCHANGED <<pel, batch, todo, queue, work, phase>> /\ node' = [node EXCEPT ![n] = "stopping"]
    BY <1>6 DEF Stop, redisVars, readerVars, dispatchVars
  <2>2. \A k \in Nodes : node'[k] = "down" => node[k] = "down"
    BY <1>0, <2>1
  <2> QED  BY <1>a, <2>1, <2>2, DrainedElsewhere
<1>7. ASSUME NEW n \in Nodes, Stopped(n)
      PROVE  Drained'
  <2>1. UNCHANGED <<pel, batch, todo, queue, work, phase>> /\ node' = [node EXCEPT ![n] = "down"]
    BY <1>7 DEF Stopped, redisVars, readerVars, dispatchVars
  <2>2. /\ phase[n] = "ended"
        /\ \A w \in Workers : queue[<<n, w>>] = <<>> /\ work[<<n, w>>].stage = "idle"
    BY <1>7 DEF Stopped, Quiet, At
  <2>3. \A p \in Places : p[1] = n => queue[p] = <<>> /\ work[p].stage = "idle"
    BY <2>2 DEF Places
  <2>4. \A k \in Nodes : node'[k] = "down" => k = n \/ node[k] = "down"
    BY <1>0, <2>1
  <2> QED  BY <1>a, <2>1, <2>2, <2>3, <2>4, DrainedElsewhere
<1>8. ASSUME NEW n \in Nodes, Start(n)
      PROVE  Drained'
  <2>1. /\ UNCHANGED <<pel, batch, todo, queue, work>> /\ node' = [node EXCEPT ![n] = "up"]
        /\ phase' = [phase EXCEPT ![n] = "read"]
    BY <1>8 DEF Start, redisVars, dispatchVars
  <2>2. ASSUME NEW k \in Nodes
        PROVE  /\ node'[k] = "down" => k # n /\ node[k] = "down"
               /\ phase'[k] = "ended" => phase[k] = "ended"
               /\ k # n => phase'[k] = phase[k]
    BY <1>0, <2>1
  <2> QED  BY <1>a, <2>1, <2>2, DrainedElsewhere
<1>9. CASE UNCHANGED vars
  <2>1. UNCHANGED <<redisVars, node, readerVars, dispatchVars>>
    BY <1>9 DEF vars
  <2>2. UNCHANGED <<pel, batch, todo, queue, work, node, phase>>
    BY <2>1 DEF redisVars, readerVars, dispatchVars
  <2> QED  BY <1>3, <2>2
<1> QED
  BY <1>1, <1>2, <1>4, <1>5, <1>6, <1>7, <1>8, <1>9, NoFaultSteps DEF Next

\* stop() waits for the consume loop and drains the dispatcher: once every
\* process is down, and none crashed and no command failed, an entry that is
\* still pending is there for its retry (redis_streams.py stop).
THEOREM StopLeavesOnlyFailures == Spec => []StopDrains
<1> DEFINE Inv == Basic /\ (Unharmed => Drained)
<1>1. Init => Inv
  <2> SUFFICES ASSUME Init PROVE Drained
    BY InitBasic
  <2>1. \A p \in Places : p[1] \in Nodes
    BY DEF Places
  <2> QED  BY <2>1 DEF Init, Drained, LoopsEnd, DownDrained, RaisedFailed, PendingHeld, NoWork
<1>2. Inv /\ [Next]_vars => Inv'
  <2> SUFFICES ASSUME Inv, [Next]_vars PROVE Inv'
    OBVIOUS
  <2>1. Basic'
    BY NextBasic
  <2>2. Unharmed' => Drained'
    BY HarmStays, DrainedNext DEF Harmless
  <2> QED  BY <2>1, <2>2
<1>3. Inv => StopDrains
  <2> SUFFICES ASSUME Drained, \A n \in Nodes : node[n] = "down", NEW m \in pel
               PROVE  Failed(EventOf(m))
    BY DEF StopDrains
  <2>1. \A p \in Places : p[1] \in Nodes
    BY DEF Places
  <2>2. /\ \A n \in Nodes : batch[n] = {}
        /\ \A p \in Places : queue[p] = <<>> /\ work[p].stage = "idle"
    BY <2>1 DEF Drained, DownDrained, LoopsEnd
  <2>3. \A p \in Places : QueuedMsgs(p) = {}
    BY <2>2 DEF QueuedMsgs
  <2>4. ~InHands(m)
    BY <2>2, <2>3 DEF InHands
  <2> QED  BY <2>4 DEF Drained, PendingHeld
<1> QED  BY <1>1, <1>2, <1>3, PTL DEF Spec

-----------------------------------------------------------------------------
(* The port: one process and one redrive at a time, and no fault but stops.*)

Calm == \A k \in FaultKinds \ {"stop"} : faults[k] = 0

\* The DLQ entry i is there for a redrive to find.
Open(i) ==
    /\ i \in 1..Len(dlq)
    /\ i \notin removed
    /\ \A a \in Admins : ~(admin[a].step = "xdel" /\ admin[a].entry = i)

\* An event has one message that is not dealt with, or one open entry, or is
\* handled, and nothing before it is published.
OneMessage == \A k, l \in 1..Len(stream) : Live(k) /\ Live(l) /\ stream[k] = stream[l] => k = l
LiveIsPending == \A k \in 1..Len(stream) : Live(k) => stream[k] \notin done /\ ~Dead(stream[k])
OneEntry == \A i, j \in 1..Len(dlq) : Open(i) /\ Open(j) /\ dlq[i] = dlq[j] => i = j
EntryNotDone == \A i \in 1..Len(dlq) : Open(i) => dlq[i] \notin done
RedriveOpen == \A a \in Admins : admin[a].step \in {"dedup", "publish"} => Open(admin[a].entry)
NewUntouched == \A e \in Events : ~Published(e) => e \notin done /\ ~Dead(e) /\ tries[e] = 0

OneLife ==
    /\ OneMessage
    /\ LiveIsPending
    /\ OneEntry
    /\ EntryNotDone
    /\ RedriveOpen
    /\ NewUntouched

LEMMA StreamIds ==
  ASSUME TypeOK
  PROVE  /\ stream \in Seq(Events) /\ Len(stream) \in Nat
         /\ \A k \in 1..Len(stream) : k \in Ids /\ stream[k] \in Events
<1>1. stream \in Seq(Events) /\ Len(stream) <= MaxMsgs
  BY DEF TypeOK
<1>2. Len(stream) \in Nat /\ MaxMsgs \in Nat
  BY <1>1, ConstantsAssumption
<1>3. \A k \in 1..Len(stream) : k \in Ids
  BY <1>1, <1>2 DEF Ids
<1>4. \A k \in 1..Len(stream) : stream[k] \in Events
  BY <1>1
<1> QED  BY <1>1, <1>2, <1>3, <1>4

LEMMA AppendLast ==
  ASSUME Basic, NEW e \in Events, Append1(e)
  PROVE  /\ Len(stream) \in Nat /\ Len(stream') = Len(stream) + 1 /\ Len(stream') <= MaxMsgs
         /\ \A m \in 1..Len(stream) : stream'[m] = stream[m]
         /\ stream'[Len(stream) + 1] = e
         /\ \A m \in 1..Len(stream') : m \in 1..Len(stream) \/ m = Len(stream) + 1
<1>1. /\ Len(stream') = Len(stream) + 1 /\ Len(stream') <= MaxMsgs
      /\ \A m \in 1..Len(stream) : stream'[m] = stream[m]
  BY AppendBasic
<1>2. stream \in Seq(Events) /\ Len(stream) \in Nat
  BY StreamIds DEF Basic
<1>3. stream' = Append(stream, e)
  BY DEF Append1
<1>4. stream'[Len(stream) + 1] = e
  BY <1>2, <1>3
<1> QED  BY <1>1, <1>2, <1>4

LEMMA CalmSteps ==
  ASSUME Basic, Calm', [Next]_vars
  PROVE  /\ Harmless
         /\ \/ \E e \in Events : Publish(e)
            \/ \E n \in Nodes : Loop(n) \/ Stop(n) \/ Stopped(n) \/ Start(n)
            \/ \E p \in Places : Process(p)
            \/ \E a \in Admins : Redrive(a)
            \/ UNCHANGED vars
         /\ ~Spend("slow", MaxSlow)
<1>1. faults \in [FaultKinds -> Nat]
  BY DEF Basic, TypeOK
<1>2. \A k \in FaultKinds \ {"stop"} : faults'[k] = 0
  BY DEF Calm
<1>3. ASSUME NEW k \in FaultKinds \ {"stop"}, NEW b, Spend(k, b)
      PROVE  FALSE
  <2>1. faults'[k] = faults[k] + 1 /\ faults[k] \in Nat
    BY <1>1, <1>3 DEF Spend
  <2> QED  BY <1>2, <2>1
<1>4. {"crash", "error", "expiry", "duplicate", "slow", "abandon"} \subseteq FaultKinds \ {"stop"}
  BY DEF FaultKinds
<1>5. Harmless
  BY <1>2, <1>4 DEF Harmless, Unharmed
<1>6. /\ \A b : ~Spend("crash", b) /\ ~Spend("error", b) /\ ~Spend("expiry", b)
      /\ \A b : ~Spend("duplicate", b) /\ ~Spend("slow", b) /\ ~Spend("abandon", b)
  BY <1>3, <1>4
<1>7. /\ \A e \in Events : ~PublishDuplicate(e) /\ ~DedupExpires(e)
      /\ \A n \in Nodes : ~LoopError(n) /\ ~Crash(n)
      /\ \A p \in Places : ~CommandError(p)
      /\ \A a \in Admins : ~RedriveAbandoned(a)
  BY <1>6 DEF PublishDuplicate, DedupExpires, LoopError, Crash, CommandError, RedriveAbandoned
<1> QED  BY <1>5, <1>6, <1>7 DEF Next

\* A message that a step leaves to be dealt with was so before.
LEMMA LiveBack ==
  ASSUME Basic, Calm', [Next]_vars, NEW k \in 1..Len(stream), Live(k)'
  PROVE  Live(k)
<1>0. /\ count \in [Ids -> Nat] /\ k \in Ids
  BY StreamIds DEF Basic, TypeOK
<1>1. CASE count' = count /\ pel' = pel /\ work' = work
  BY <1>1 DEF Live, Outstanding, At
<1>2. ASSUME NEW n \in Nodes, Loop(n)
      PROVE  Live(k)
  <2>1. work' = work
    BY <1>2 DEF Loop, ReadGroup, Submit, ListPending, XClaim, EndCycle, dispatchVars
  <2>2. CASE ReadGroup(n)
    <3>1. \A m \in NewMessages : count[m] = 0
      BY NewMessagesFresh
    <3>2. /\ k \in pel' => k \in pel \/ k \in NewMessages
          /\ count'[k] = 0 => count[k] = 0
      BY <1>0, <2>2 DEF ReadGroup
    <3> QED  BY <2>1, <3>1, <3>2 DEF Live, Outstanding, At
  <2>3. CASE XClaim(n)
    <3>1. pel' = pel
      BY <2>3 DEF XClaim
    <3>2. count'[k] = count[k] \/ count'[k] = count[k] + 1
      BY <1>0, <2>3 DEF XClaim
    <3>3. count'[k] = 0 => count[k] = 0
      BY <1>0, <3>2
    <3> QED  BY <2>1, <3>1, <3>3 DEF Live, Outstanding, At
  <2>4. CASE Submit(n) \/ ListPending(n) \/ EndCycle(n)
    BY <1>1, <2>1, <2>4 DEF Submit, ListPending, EndCycle, redisVars
  <2> QED  BY <1>2, <2>2, <2>3, <2>4 DEF Loop
<1>3. ASSUME NEW p \in Places, Process(p)
      PROVE  Live(k)
  <2>1. count' = count /\ pel' \subseteq pel
    BY <1>3 DEF Process, Take, SetDedup, HandlerReturns, HandlerRaises, Release, ToDlq, Ack, redisVars
  <2>2. Outstanding(k)
    BY <2>1 DEF Live, Outstanding
  <2>3. ASSUME NEW q \in Places, work[q].stage = "ack", work[q].msg = k
        PROVE  FALSE
    <3>1. CASE q # p
      BY <1>3, <2>3, <3>1, WorkStep DEF Live, At
    <3>2. CASE q = p
      <4>1. Ack(p)
        BY <1>3, <2>3, <3>2
           DEF Process, Take, SetDedup, HandlerReturns, HandlerRaises, Release, ToDlq, At
      <4>2. k \notin pel'
        BY <2>3, <3>2, <4>1 DEF Ack
      <4>3. count[k] > 0
        BY <2>3, HeldPublished
      <4> QED  BY <1>0, <2>1, <4>2, <4>3 DEF Live, Outstanding
    <3> QED  BY <3>1, <3>2
  <2> QED  BY <2>2, <2>3 DEF Live, At
<1>4. ASSUME NEW e \in Events, Publish(e)
      PROVE  Live(k)
  BY <1>1, <1>4 DEF Publish, dispatchVars
<1>5. ASSUME NEW n \in Nodes, Stop(n) \/ Stopped(n) \/ Start(n)
      PROVE  Live(k)
  BY <1>1, <1>5 DEF Stop, Stopped, Start, dispatchVars, redisVars
<1>6. ASSUME NEW a \in Admins, Redrive(a)
      PROVE  Live(k)
  BY <1>1, <1>6 DEF Redrive, RedriveFind, RedriveDelDedup, RedrivePublish, RedriveXdel, redisVars,
                    dispatchVars
<1>7. CASE UNCHANGED vars
  <2>1. UNCHANGED <<redisVars, dispatchVars>>
    BY <1>7 DEF vars
  <2> QED  BY <1>1, <2>1 DEF redisVars, dispatchVars
<1> QED  BY <1>2, <1>3, <1>4, <1>5, <1>6, <1>7, CalmSteps

LEMMA DeadOpen == \A e : Dead(e) <=> \E i \in 1..Len(dlq) : Open(i) /\ dlq[i] = e
  BY DEF Dead, Open

\* Until a worker acknowledges it, the message it works on is live.
LEMMA WorkedLive ==
  ASSUME Basic, HeldOnce, HeldPending, NEW p \in Places, work[p].stage # "idle", work[p].stage # "ack"
  PROVE  Live(work[p].msg) /\ work[p].msg \in 1..Len(stream)
<1>1. work[p].msg \in Ids /\ work[p].msg \in pel /\ work[p].msg \in 1..Len(stream)
  BY WorkEvent, HeldPublished DEF HeldPending
<1>2. ASSUME NEW q \in Places, work[q].stage = "ack", work[q].msg = work[p].msg
      PROVE  FALSE
  <2>1. Holds(q, work[p].msg) /\ Holds(p, work[p].msg)
    BY <1>2 DEF Holds
  <2>2. q = p
    BY <1>1, <2>1 DEF HeldOnce
  <2> QED  BY <1>2, <2>2
<1> QED  BY <1>1, <1>2 DEF Live, Outstanding, At

\* Steps of _process after Take, with the fields they leave.
LEMMA ProcessFields ==
  ASSUME NEW p \in Places, Process(p)
  PROVE  /\ stream' = stream /\ removed' = removed /\ admin' = admin /\ count' = count
         /\ batch' = batch /\ todo' = todo /\ scan' = scan /\ phase' = phase /\ node' = node
  BY DEF Process, Take, SetDedup, HandlerReturns, HandlerRaises, Release, ToDlq, Ack, redisVars,
         readerVars

-----------------------------------------------------------------------------
\* A step that changes neither the stream, the DLQ nor what is known of events.
LEMMA OneLifeQuiet ==
  ASSUME Basic, OneLife, Calm', [Next]_vars, UNCHANGED <<stream, dlq, done, tries>>,
         \A i \in 1..Len(dlq) : Open(i)' <=> Open(i), RedriveOpen'
  PROVE  OneLife'
<1>1. \A k \in 1..Len(stream) : Live(k)' => Live(k)
  BY LiveBack
<1>2. \A e : Dead(e)' <=> Dead(e)
  <2>1. \A e : Dead(e)' <=> \E i \in 1..Len(dlq') : Open(i)' /\ dlq'[i] = e
    BY DEF Dead, Open
  <2> QED  BY <2>1, DeadOpen
<1>3. OneMessage'
  BY <1>1 DEF OneLife, OneMessage
<1>4. LiveIsPending'
  BY <1>1, <1>2 DEF OneLife, LiveIsPending
<1>5. OneEntry' /\ EntryNotDone'
  BY DEF OneLife, OneEntry, EntryNotDone
<1>6. NewUntouched'
  BY <1>2 DEF OneLife, NewUntouched, Published, EventOf
<1> QED  BY <1>3, <1>4, <1>5, <1>6 DEF OneLife

LEMMA OneLifePublish ==
  ASSUME Basic, OneLife, Calm', [Next]_vars, NEW e \in Events, Publish(e)
  PROVE  OneLife'
<1>1. /\ Append1(e) /\ ~Published(e)
      /\ UNCHANGED <<count, pel, dlq, removed, work, admin, done, tries>>
  BY DEF Publish, dispatchVars, ghostVars
<1>2. /\ Len(stream) \in Nat /\ Len(stream') = Len(stream) + 1
      /\ \A m \in 1..Len(stream) : stream'[m] = stream[m]
      /\ stream'[Len(stream) + 1] = e
  BY <1>1, AppendLast
<1>3. \A m \in 1..Len(stream) : stream[m] # e
  BY <1>1 DEF Published, EventOf
<1>4. \A i : Open(i)' <=> Open(i)
  BY <1>1 DEF Open
<1>5. \A f : Dead(f)' <=> Dead(f)
  BY <1>1 DEF Dead
<1>6. \A k \in 1..Len(stream) : Live(k)' => Live(k)
  BY LiveBack
<1>7. \A k \in 1..Len(stream') : k \in 1..Len(stream) \/ (k = Len(stream) + 1 /\ stream'[k] = e)
  BY <1>2
<1>8. OneMessage'
  BY <1>2, <1>3, <1>6, <1>7 DEF OneLife, OneMessage
<1>9. e \notin done /\ ~Dead(e)
  BY <1>1 DEF OneLife, NewUntouched
<1>10. LiveIsPending'
  BY <1>1, <1>2, <1>5, <1>6, <1>7, <1>9 DEF OneLife, LiveIsPending
<1>11. OneEntry' /\ EntryNotDone' /\ RedriveOpen'
  BY <1>1, <1>4 DEF OneLife, OneEntry, EntryNotDone, RedriveOpen
<1>12. \A f \in Events : Published(f) => Published(f)'
  BY <1>2 DEF Published, EventOf
<1>13. NewUntouched'
  BY <1>1, <1>5, <1>12 DEF OneLife, NewUntouched
<1> QED  BY <1>8, <1>10, <1>11, <1>13 DEF OneLife

\* redrive() publishes the event of the only open entry, which closes it.
LEMMA OneLifeRedrive ==
  ASSUME Basic, OneLife, Calm', [Next]_vars, \A a, b \in Admins : a = b,
         NEW a \in Admins, RedrivePublish(a), NEW e, e = dlq[admin[a].entry]
  PROVE  /\ OneLife' /\ e \in Events /\ Dead(e) /\ ~Dead(e)'
         /\ \A f : f # e => (Dead(f)' <=> Dead(f))
<1> DEFINE i0 == admin[a].entry
<1>0. /\ admin \in [Admins -> {NoOp} \cup [step : {"dedup", "publish", "xdel"}, entry : Nat]]
      /\ dlq \in Seq(Events)
  BY DEF Basic, TypeOK
<1>1. /\ admin[a].step = "publish" /\ Append1(e)
      /\ UNCHANGED <<count, pel, dlq, removed, work, done>>
      /\ tries' = [tries EXCEPT ![e] = 0]
      /\ admin' = [admin EXCEPT ![a].step = "xdel"]
  BY DEF RedrivePublish, dispatchVars
<1>2. Open(i0) /\ i0 \in 1..Len(dlq) /\ e \in Events
  BY <1>0, <1>1 DEF OneLife, RedriveOpen, Open
<1>3. admin'[a].step = "xdel" /\ admin'[a].entry = i0
  BY <1>0, <1>1, <1>2
<1>4. \A i : Open(i)' <=> Open(i) /\ i # i0
  <2>1. \A b \in Admins : b = a
    OBVIOUS
  <2>2. \A i : Open(i)' <=> i \in 1..Len(dlq) /\ i \notin removed /\ i # i0
    BY <1>1, <1>3, <2>1 DEF Open
  <2>3. \A i : Open(i) <=> i \in 1..Len(dlq) /\ i \notin removed
    BY <1>1, <2>1 DEF Open
  <2> QED  BY <2>2, <2>3
<1> HIDE DEF i0
<1>5. dlq[i0] = e
  BY DEF i0
<1>6. \A f : Dead(f)' <=> \E i \in 1..Len(dlq) : Open(i) /\ i # i0 /\ dlq[i] = f
  <2>1. \A f : Dead(f)' <=> \E i \in 1..Len(dlq') : Open(i)' /\ dlq'[i] = f
    BY DEF Dead, Open
  <2> QED  BY <1>1, <1>4, <2>1
<1>7. Dead(e) /\ ~Dead(e)' /\ \A f : f # e => (Dead(f)' <=> Dead(f))
  BY <1>2, <1>5, <1>6, DeadOpen DEF OneLife, OneEntry
<1>8. /\ Len(stream) \in Nat /\ Len(stream') = Len(stream) + 1
      /\ \A m \in 1..Len(stream) : stream'[m] = stream[m]
      /\ stream'[Len(stream) + 1] = e
  BY <1>1, <1>2, AppendLast
<1>9. \A k \in 1..Len(stream) : Live(k)' => Live(k) /\ stream[k] # e
  BY <1>7, LiveBack DEF OneLife, LiveIsPending
<1>10. \A k \in 1..Len(stream') : k \in 1..Len(stream) \/ (k = Len(stream) + 1 /\ stream'[k] = e)
  BY <1>8
<1>11. OneMessage'
  BY <1>8, <1>9, <1>10 DEF OneLife, OneMessage
<1>12. e \notin done
  BY <1>2, <1>5 DEF OneLife, EntryNotDone
<1>13. LiveIsPending'
  <2>1. ASSUME NEW k \in 1..Len(stream'), Live(k)', NEW f, f = stream'[k]
        PROVE  f \notin done' /\ ~Dead(f)'
    <3>1. CASE k \in 1..Len(stream)
      <4>1. f = stream[k] /\ Live(k) /\ f # e
        BY <1>8, <1>9, <2>1, <3>1
      <4>2. f \notin done /\ ~Dead(f)
        BY <3>1, <4>1 DEF OneLife, LiveIsPending
      <4> QED  BY <1>1, <1>7, <4>1, <4>2
    <3>2. CASE f = e
      BY <1>1, <1>7, <1>12, <3>2
    <3> QED  BY <1>10, <2>1, <3>1, <3>2
  <2> QED  BY <2>1 DEF LiveIsPending, Dead
<1>14. OneEntry' /\ EntryNotDone'
  BY <1>1, <1>4 DEF OneLife, OneEntry, EntryNotDone
<1>15. RedriveOpen'
  BY <1>3 DEF RedriveOpen
<1>16. \A f \in Events : Published(f) => Published(f)'
  BY <1>8 DEF Published, EventOf
<1>17. Published(e)'
  BY <1>8 DEF Published, EventOf
<1>18. \A f \in Events : f # e => tries'[f] = tries[f]
  BY <1>1 DEF Basic, TypeOK
<1>19. NewUntouched'
  BY <1>1, <1>7, <1>16, <1>17, <1>18 DEF OneLife, NewUntouched
<1> QED  BY <1>2, <1>7, <1>11, <1>13, <1>14, <1>15, <1>19 DEF OneLife

\* The handler returned: no message of its event is live any more.
LEMMA OneLifeReturns ==
  ASSUME Basic, SafeInv, OneLife, Calm', [Next]_vars, NEW p \in Places, HandlerReturns(p),
         NEW e, e = EventOf(work[p].msg)
  PROVE  OneLife' /\ e \in Events /\ e \notin done /\ ~Dead(e) /\ Published(e)
<1> USE DEF At
<1>0. Process(p)
  BY DEF Process
<1>1. /\ work[p].stage = "run" /\ done' = done \cup {e}
      /\ work' = [work EXCEPT ![p].stage = "ack"]
      /\ UNCHANGED <<stream, dlq, removed, admin, tries>>
  BY DEF HandlerReturns, redisVars
<1>2. PICK k : k = work[p].msg
  OBVIOUS
<1>3. Live(k) /\ k \in 1..Len(stream) /\ stream[k] = e /\ e \in Events
  BY <1>1, <1>2, WorkedLive, WorkEvent DEF SafeInv, EventOf
<1>4. e \notin done /\ ~Dead(e)
  BY <1>3 DEF OneLife, LiveIsPending
<1>5. Published(e)
  BY <1>3 DEF Published, EventOf
<1>6. work'[p].stage = "ack" /\ work'[p].msg = k
  <2>1. DOMAIN work = Places
    BY DEF Basic, TypeOK
  <2>2. work'[p].stage = "ack"
    BY <1>0, <1>1, <2>1, HeldTypes DEF Basic
  <2>3. ~Take(p)
    BY <1>1 DEF Take
  <2> QED  BY <1>0, <1>2, <2>2, <2>3, WorkStep
<1>7. ~Live(k)'
  BY <1>6 DEF Live
<1>8. \A l \in 1..Len(stream) : Live(l)' => Live(l) /\ stream[l] # e
  BY <1>3, <1>7, LiveBack DEF OneLife, OneMessage
<1>9. \A i : Open(i)' <=> Open(i)
  BY <1>1 DEF Open
<1>10. \A f : Dead(f)' <=> Dead(f)
  BY <1>1 DEF Dead
<1>11. OneMessage'
  BY <1>1, <1>8 DEF OneLife, OneMessage
<1>12. LiveIsPending'
  BY <1>1, <1>8, <1>10 DEF OneLife, LiveIsPending
<1>13. OneEntry' /\ RedriveOpen'
  BY <1>1, <1>9 DEF OneLife, OneEntry, RedriveOpen
<1>14. \A i \in 1..Len(dlq) : Open(i) => dlq[i] # e
  BY <1>4, DeadOpen
<1>15. EntryNotDone'
  BY <1>1, <1>9, <1>14 DEF OneLife, EntryNotDone
<1>16. \A f : Published(f)' <=> Published(f)
  BY <1>1 DEF Published, EventOf
<1>17. NewUntouched'
  BY <1>1, <1>5, <1>10, <1>16 DEF OneLife, NewUntouched
<1> QED  BY <1>3, <1>4, <1>5, <1>11, <1>12, <1>13, <1>15, <1>17 DEF OneLife

LEMMA OneLifeRaises ==
  ASSUME Basic, SafeInv, OneLife, Calm', [Next]_vars, NEW p \in Places, HandlerRaises(p),
         NEW e, e = EventOf(work[p].msg)
  PROVE  /\ OneLife' /\ e \in Events /\ e \notin done /\ ~Dead(e) /\ Published(e)
         /\ \A f : Dead(f)' <=> Dead(f)
<1> USE DEF At
<1>1. /\ work[p].stage = "run" /\ tries' = [tries EXCEPT ![e] = tries[e] + 1]
      /\ UNCHANGED <<stream, dlq, removed, admin, done>>
  BY DEF HandlerRaises, redisVars
<1>2. PICK k : k = work[p].msg
  OBVIOUS
<1>3. Live(k) /\ k \in 1..Len(stream) /\ stream[k] = e /\ e \in Events
  BY <1>1, <1>2, WorkedLive, WorkEvent DEF SafeInv, EventOf
<1>4. e \notin done /\ ~Dead(e) /\ Published(e)
  BY <1>3 DEF OneLife, LiveIsPending, Published, EventOf
<1>5. \A l \in 1..Len(stream) : Live(l)' => Live(l)
  BY LiveBack
<1>6. \A i : Open(i)' <=> Open(i)
  BY <1>1 DEF Open
<1>7. \A f : Dead(f)' <=> Dead(f)
  BY <1>1 DEF Dead
<1>8. OneMessage' /\ LiveIsPending'
  BY <1>1, <1>5, <1>7 DEF OneLife, OneMessage, LiveIsPending
<1>9. OneEntry' /\ RedriveOpen' /\ EntryNotDone'
  BY <1>1, <1>6 DEF OneLife, OneEntry, RedriveOpen, EntryNotDone
<1>10. \A f : Published(f)' <=> Published(f)
  BY <1>1 DEF Published, EventOf
<1>11. \A f \in Events : f # e => tries'[f] = tries[f]
  BY <1>1 DEF Basic, TypeOK
<1>12. NewUntouched'
  BY <1>1, <1>4, <1>7, <1>10, <1>11 DEF OneLife, NewUntouched
<1> QED  BY <1>3, <1>4, <1>7, <1>8, <1>9, <1>12 DEF OneLife

\* The DLQ gets an entry that no redrive has seen yet.
LEMMA OneLifeToDlq ==
  ASSUME Basic, SafeInv, OneLife, Calm', [Next]_vars, NEW p \in Places, ToDlq(p),
         NEW e, e = EventOf(work[p].msg)
  PROVE  /\ OneLife' /\ e \in Events /\ e \notin done /\ ~Dead(e) /\ Published(e)
         /\ \A f : Dead(f)' <=> Dead(f) \/ f = e
<1> USE DEF At
<1>0. Process(p)
  BY DEF Process
<1>1. /\ work[p].stage = "dlq" /\ dlq' = Append(dlq, e)
      /\ work' = [work EXCEPT ![p].stage = "ack"]
      /\ UNCHANGED <<stream, removed, admin, tries, done>>
  BY DEF ToDlq, ghostVars
<1>2. PICK k : k = work[p].msg
  OBVIOUS
<1>3. Live(k) /\ k \in 1..Len(stream) /\ stream[k] = e /\ e \in Events
  BY <1>1, <1>2, WorkedLive, WorkEvent DEF SafeInv, EventOf
<1>4. e \notin done /\ ~Dead(e) /\ Published(e)
  BY <1>3 DEF OneLife, LiveIsPending, Published, EventOf
<1>5. work'[p].stage = "ack" /\ work'[p].msg = k
  <2>1. DOMAIN work = Places
    BY DEF Basic, TypeOK
  <2>2. work'[p].stage = "ack"
    BY <1>0, <1>1, <2>1, HeldTypes DEF Basic
  <2>3. ~Take(p)
    BY <1>1 DEF Take
  <2> QED  BY <1>0, <1>2, <2>2, <2>3, WorkStep
<1>6. ~Live(k)'
  BY <1>5 DEF Live
<1>7. \A l \in 1..Len(stream) : Live(l)' => Live(l) /\ stream[l] # e
  BY <1>3, <1>6, LiveBack DEF OneLife, OneMessage
<1>8. /\ Len(dlq) \in Nat /\ Len(dlq') = Len(dlq) + 1 /\ dlq'[Len(dlq) + 1] = e
      /\ \A i \in 1..Len(dlq) : dlq'[i] = dlq[i]
  <2>1. dlq \in Seq(Events)
    BY DEF Basic, TypeOK
  <2> QED  BY <1>1, <1>3, <2>1, QueueAppend
<1> DEFINE new == Len(dlq) + 1
<1>9. new \notin removed /\ \A a \in Admins : admin[a].step = "xdel" => admin[a].entry # new
  <2>1. removed \subseteq 1..Len(dlq)
    BY DEF SafeInv
  <2>2. \A a \in Admins : admin[a].step # "none" => admin[a].entry \in 1..Len(dlq)
    BY DEF Basic, DeliveryCountSound
  <2>3. new \notin 1..Len(dlq)
    BY <1>8
  <2> QED  BY <2>1, <2>2, <2>3
<1>10. \A i : Open(i)' <=> Open(i) \/ i = new
  <2>1. \A i : i \in 1..Len(dlq') <=> i \in 1..Len(dlq) \/ i = new
    BY <1>8
  <2> HIDE DEF new
  <2> QED  BY <1>1, <1>9, <2>1 DEF Open
<1>11. new \in 1..Len(dlq') /\ dlq'[new] = e /\ new \notin 1..Len(dlq)
  BY <1>8
<1>12. \A i \in 1..Len(dlq') : i \in 1..Len(dlq) \/ i = new
  BY <1>8
<1>13. \A i \in 1..Len(dlq) : i \in 1..Len(dlq')
  BY <1>8
<1> HIDE DEF new
<1>14. \A f : Dead(f)' <=> Dead(f) \/ f = e
  <2>1. \A f : Dead(f)' <=> \E i \in 1..Len(dlq') : Open(i)' /\ dlq'[i] = f
    BY DEF Dead, Open
  <2>2. \A i : Open(i) => i \in 1..Len(dlq)
    BY DEF Open
  <2> QED  BY <1>8, <1>10, <1>11, <1>12, <1>13, <2>1, <2>2, DeadOpen
<1>15. OneMessage'
  BY <1>1, <1>7 DEF OneLife, OneMessage
<1>16. LiveIsPending'
  BY <1>1, <1>7, <1>14 DEF OneLife, LiveIsPending
<1>17. \A i \in 1..Len(dlq) : Open(i) => dlq[i] # e
  BY <1>4, DeadOpen
<1>18. \A i \in 1..Len(dlq') : Open(i)' => \/ i = new /\ dlq'[i] = e
                                           \/ i # new /\ i \in 1..Len(dlq) /\ Open(i) /\ dlq'[i] = dlq[i]
                                              /\ dlq[i] # e /\ dlq[i] \notin done
  BY <1>8, <1>10, <1>11, <1>12, <1>17 DEF OneLife, EntryNotDone
<1>19. OneEntry'
  BY <1>18 DEF OneLife, OneEntry
<1>20. EntryNotDone'
  BY <1>1, <1>4, <1>18 DEF EntryNotDone
<1>21. RedriveOpen'
  BY <1>1, <1>10 DEF OneLife, RedriveOpen
<1>22. \A f : Published(f)' <=> Published(f)
  BY <1>1 DEF Published, EventOf
<1>23. NewUntouched'
  BY <1>1, <1>4, <1>14, <1>22 DEF OneLife, NewUntouched
<1> QED  BY <1>3, <1>4, <1>14, <1>15, <1>16, <1>19, <1>20, <1>21, <1>23 DEF OneLife

\* The other steps change nothing of what the port shows.
Silent == UNCHANGED <<stream, dlq, done, tries>> /\ \A e : Dead(e)' <=> Dead(e)

LEMMA SilentOpen ==
  ASSUME UNCHANGED <<stream, dlq, done, tries>>, \A i : Open(i)' <=> Open(i)
  PROVE  Silent
<1>1. \A e : Dead(e)' <=> \E i \in 1..Len(dlq') : Open(i)' /\ dlq'[i] = e
  BY DEF Dead, Open
<1> QED  BY <1>1, DeadOpen DEF Silent

LEMMA OneLifeSilent ==
  ASSUME Basic, OneLife, Calm', [Next]_vars, UNCHANGED <<stream, dlq, done, tries, removed, admin>>
  PROVE  OneLife' /\ Silent
<1>1. \A i : Open(i)' <=> Open(i)
  BY DEF Open
<1>2. RedriveOpen'
  BY <1>1 DEF OneLife, RedriveOpen
<1>3. \A e : Dead(e)' <=> Dead(e)
  BY DEF Dead
<1> QED  BY <1>1, <1>2, <1>3, OneLifeQuiet DEF Silent

LEMMA OneLifeAdmin ==
  ASSUME Basic, OneLife, Calm', [Next]_vars, \A a, b \in Admins : a = b,
         NEW a \in Admins, RedriveFind(a) \/ RedriveDelDedup(a) \/ RedriveXdel(a)
  PROVE  OneLife' /\ Silent
<1>0. admin \in [Admins -> {NoOp} \cup [step : {"dedup", "publish", "xdel"}, entry : Nat]]
  BY DEF Basic, TypeOK
<1>1. UNCHANGED <<stream, dlq, done, tries>>
  BY DEF RedriveFind, RedriveDelDedup, RedriveXdel, redisVars, ghostVars
<1>2. \A b \in Admins : b = a
  OBVIOUS
<1>3. CASE RedriveFind(a)
  <2>1. PICK i \in 1..Len(dlq) : /\ FirstEntry(i)
                                 /\ admin' = [admin EXCEPT ![a] = [step |-> "dedup", entry |-> i]]
    BY <1>3 DEF RedriveFind
  <2>2. removed' = removed /\ admin[a].step = "none"
    BY <1>3 DEF RedriveFind, redisVars
  <2>3. admin'[a] = [step |-> "dedup", entry |-> i]
    BY <1>0, <2>1
  <2>4. \A j : Open(j)' <=> Open(j)
    BY <1>1, <1>2, <2>2, <2>3 DEF Open
  <2>5. Open(i)
    BY <1>2, <2>1, <2>2 DEF Open, FirstEntry
  <2>6. RedriveOpen'
    BY <1>2, <2>3, <2>4, <2>5 DEF RedriveOpen
  <2> QED  BY <1>1, <2>4, <2>6, OneLifeQuiet, SilentOpen
<1>4. CASE RedriveDelDedup(a)
  <2>1. /\ removed' = removed /\ admin[a].step = "dedup"
        /\ admin' = [admin EXCEPT ![a].step = "publish"]
    BY <1>4 DEF RedriveDelDedup
  <2>2. admin'[a].step = "publish" /\ admin'[a].entry = admin[a].entry
    BY <1>0, <2>1
  <2>3. \A j : Open(j)' <=> Open(j)
    BY <1>1, <1>2, <2>1, <2>2 DEF Open
  <2>4. RedriveOpen'
    BY <1>2, <2>1, <2>2, <2>3 DEF OneLife, RedriveOpen
  <2> QED  BY <1>1, <2>3, <2>4, OneLifeQuiet, SilentOpen
<1>5. CASE RedriveXdel(a)
  <2>1. /\ removed' = removed \cup {admin[a].entry} /\ admin[a].step = "xdel"
        /\ admin' = [admin EXCEPT ![a] = NoOp]
    BY <1>5 DEF RedriveXdel
  <2>2. admin'[a].step = "none"
    BY <1>0, <2>1 DEF NoOp
  <2>3. \A j : Open(j)' <=> Open(j)
    BY <1>1, <1>2, <2>1, <2>2 DEF Open
  <2>4. RedriveOpen'
    BY <1>2, <2>2 DEF RedriveOpen
  <2> QED  BY <1>1, <2>3, <2>4, OneLifeQuiet, SilentOpen
<1> QED  BY <1>3, <1>4, <1>5

-----------------------------------------------------------------------------
(* What the deliveries of a live message say of the failures of its event. *)

Resting(k) == k \in pel /\ ~InHands(k)

\* A delivery not handled yet is numbered one more than the failures so far.
Numbered(dc, c, t) == dc = c /\ dc = t + 1 /\ dc <= MaxAttempts

Working(w, c, t) ==
    /\ w.dc = c /\ c <= MaxAttempts
    /\ w.stage \in {"dedup", "run"} => c = t + 1
    /\ w.stage \in {"release", "dlq"} => c = t
    /\ w.stage = "dlq" => c = MaxAttempts

\* c deliveries and t failures, as every part of the memory has them.
Consistent(k, c, t) ==
    /\ c = 0 => t = 0
    /\ \A n \in Nodes : \A d \in batch[n] : d.msg = k => Numbered(d.dc, c, t)
    /\ \A p \in Places : \A i \in 1..Len(queue[p]) :
         queue[p][i].msg = k => Numbered(queue[p][i].dc, c, t)
    /\ \A p \in Places : Holds(p, k) => Working(work[p], c, t)
    /\ Resting(k) => c = t /\ c < MaxAttempts
    /\ \A n \in Nodes : \A d \in todo[n] : d.msg = k => d.dc = c

Attempts(k) == Consistent(k, count[k], tries[stream[k]])

Counts == \A k \in 1..Len(stream) : Live(k) => Attempts(k)

\* A delivery that moves on stays in hand.
LEMMA SubmitKeeps ==
  ASSUME Basic, NEW n \in Nodes, Submit(n), NEW m, InHands(m)
  PROVE  InHands(m)'
<1>0. /\ batch \in [Nodes -> SUBSET Delivery] /\ queue \in [Places -> Seq(Delivery)]
  BY DEF Basic, TypeOK
<1>1. PICK d \in batch[n] :
        LET p == <<n, Worker(d.msg)>> IN
        /\ queue' = [queue EXCEPT ![p] = Append(@, d)]
        /\ batch' = [batch EXCEPT ![n] = @ \ {d}]
        /\ work' = work
  BY DEF Submit
<1>2. PICK p : p = <<n, Worker(d.msg)>>
  OBVIOUS
<1>3. /\ queue' = [queue EXCEPT ![p] = Append(queue[p], d)]
      /\ batch' = [batch EXCEPT ![n] = batch[n] \ {d}]
      /\ work' = work
  BY <1>1, <1>2
<1>4. p \in Places /\ d \in Delivery
  BY <1>0, <1>2, SubmitPlace
<1>5. \A q \in Places : q # p => queue'[q] = queue[q]
  BY <1>0, <1>3
<1>6. /\ Len(queue[p]) \in Nat /\ Len(queue'[p]) = Len(queue[p]) + 1
      /\ queue'[p][Len(queue[p]) + 1] = d
      /\ \A i \in 1..Len(queue[p]) : queue'[p][i] = queue[p][i]
  <2>1. queue'[p] = Append(queue[p], d) /\ queue[p] \in Seq(Delivery)
    BY <1>0, <1>3, <1>4
  <2> QED  BY <1>4, <2>1, QueueAppend
<1>7. ASSUME NEW q \in Places, NEW i \in 1..Len(queue[q]), queue[q][i].msg = m
      PROVE  InHands(m)'
  <2>1. i \in 1..Len(queue'[q]) /\ queue'[q][i] = queue[q][i]
    BY <1>5, <1>6
  <2> QED  BY <1>7, <2>1 DEF InHands, QueuedMsgs
<1>8. CASE m = d.msg
  <2>1. Len(queue[p]) + 1 \in 1..Len(queue'[p])
    BY <1>6
  <2> QED  BY <1>4, <1>6, <1>8, <2>1 DEF InHands, QueuedMsgs
<1>9. CASE m # d.msg
  <2>1. \A j \in Nodes : \A x \in batch[j] : x.msg = m => x \in batch'[j]
    BY <1>0, <1>3, <1>9
  <2> QED  BY <1>3, <1>7, <2>1 DEF InHands, QueuedMsgs
<1> QED  BY <1>8, <1>9

\* Steps that hand nothing over.
LEMMA AttemptsFrame ==
  ASSUME NEW k, Attempts(k), stream'[k] = stream[k], tries'[stream[k]] = tries[stream[k]],
         UNCHANGED <<count, pel, batch, queue, work>>,
         \A n \in Nodes : \A d \in todo'[n] : d.msg = k => d \in todo[n] \/ d.dc = count[k]
  PROVE  Attempts(k)'
<1> DEFINE c == count[k]
           t == tries[stream[k]]
<1>1. /\ Consistent(k, c, t)
      /\ Attempts(k)' <=> Consistent(k, count[k], tries[stream[k]])'
      /\ count'[k] = c /\ tries'[stream'[k]] = t
  BY DEF Attempts
<1>2. Resting(k)' <=> Resting(k)
  BY DEF Resting, InHands, QueuedMsgs
<1>3. \A p : Holds(p, k)' => Holds(p, k)
  BY DEF Holds
<1>4. \A n \in Nodes : \A d \in todo'[n] : d.msg = k => d.dc = c
  BY <1>1 DEF Consistent
<1> HIDE DEF c, t
<1> QED  BY <1>1, <1>2, <1>3, <1>4 DEF Consistent

LEMMA AttemptsRead ==
  ASSUME Basic, NEW k \in 1..Len(stream), Live(k), Attempts(k), NEW n \in Nodes, ReadGroup(n)
  PROVE  Attempts(k)'
<1>0. /\ batch \in [Nodes -> SUBSET Delivery] /\ count \in [Ids -> Nat] /\ k \in Ids
      /\ todo \in [Nodes -> SUBSET Delivery] /\ MaxAttempts \in Nat \ {0}
  <2>1. k \in Ids
    BY StreamIds DEF Basic
  <2> QED  BY <2>1, ConstantsAssumption DEF Basic, TypeOK
<1>1. /\ batch[n] = {} /\ pel' = pel \cup NewMessages
      /\ batch' = [batch EXCEPT ![n] = {[msg |-> m, dc |-> 1] : m \in NewMessages}]
      /\ count' = [m \in Ids |-> IF m \in NewMessages THEN 1 ELSE count[m]]
      /\ UNCHANGED <<stream, todo, queue, work, tries>>
  BY DEF ReadGroup, dispatchVars, ghostVars
<1>2. PICK c, t : c = count[k] /\ t = tries[stream[k]]
  OBVIOUS
<1>3. Consistent(k, c, t) /\ tries'[stream'[k]] = t
  BY <1>1, <1>2 DEF Attempts
<1>4. \A d \in batch'[n] : d.dc = 1 /\ d.msg \in NewMessages
  BY <1>0, <1>1
<1>5. \A j \in Nodes : j # n => batch'[j] = batch[j]
  BY <1>0, <1>1
<1>6. \A p : Holds(p, k)' <=> Holds(p, k)
  BY <1>1 DEF Holds
<1>7. CASE k \in NewMessages
  <2>1. c = 0 /\ t = 0 /\ count'[k] = 1
    BY <1>0, <1>1, <1>2, <1>3, <1>7, NewMessagesFresh DEF Consistent
  <2>2. /\ \A j \in Nodes : \A d \in batch[j] \cup todo[j] : d.msg # k
        /\ \A p \in Places : \A i \in 1..Len(queue[p]) : queue[p][i].msg # k
        /\ \A p \in Places : ~Holds(p, k)
    <3>1. count[k] = 0
      BY <1>2, <2>1
    <3>2. \A j \in Nodes : \A d \in batch[j] \cup todo[j] : d \in Delivery /\ d.dc <= count[d.msg]
      BY HeldTypes DEF Basic, DeliveryCountSound
    <3>3. \A p \in Places : \A i \in 1..Len(queue[p]) :
            queue[p][i] \in Delivery /\ queue[p][i].dc <= count[queue[p][i].msg]
      BY HeldTypes DEF Basic, DeliveryCountSound
    <3>4. \A d \in Delivery : d.dc <= count[d.msg] => d.msg # k
      BY <3>1 DEF Delivery
    <3>5. \A p \in Places : ~Holds(p, k)
      BY <3>1, HeldPublished DEF Holds
    <3> QED  BY <3>2, <3>3, <3>4, <3>5
  <2>3. ~Resting(k)'
    <3>1. [msg |-> k, dc |-> 1] \in batch'[n]
      BY <1>0, <1>1, <1>7
    <3> QED  BY <3>1 DEF InHands, Resting
  <2>4. \A d \in batch'[n] : Numbered(d.dc, 1, t)
    BY <1>0, <1>4, <2>1 DEF Numbered
  <2>5. \A j \in Nodes : \A d \in batch'[j] : d.msg = k => Numbered(d.dc, 1, t)
    BY <1>5, <2>2, <2>4
  <2>6. Consistent(k, 1, t)'
    BY <1>1, <1>6, <2>2, <2>3, <2>5 DEF Consistent
  <2> QED  BY <1>3, <2>1, <2>6 DEF Attempts
<1>8. CASE k \notin NewMessages
  <2>1. count'[k] = c
    BY <1>0, <1>1, <1>2, <1>8
  <2>2. \A j \in Nodes : \A d \in batch'[j] : d.msg = k => Numbered(d.dc, c, t)
    BY <1>3, <1>4, <1>5, <1>8 DEF Consistent
  <2>3. InHands(k) => InHands(k)'
    BY <1>1, <1>5 DEF InHands, QueuedMsgs
  <2>4. Resting(k)' => Resting(k)
    BY <1>1, <1>8, <2>3 DEF Resting
  <2>5. Consistent(k, c, t)'
    BY <1>1, <1>3, <1>6, <2>2, <2>4 DEF Consistent
  <2> QED  BY <1>3, <2>1, <2>5 DEF Attempts
<1> QED  BY <1>7, <1>8

LEMMA AttemptsSubmit ==
  ASSUME Basic, NEW k \in 1..Len(stream), Live(k), Attempts(k), NEW n \in Nodes, Submit(n)
  PROVE  Attempts(k)'
<1>0. /\ batch \in [Nodes -> SUBSET Delivery] /\ queue \in [Places -> Seq(Delivery)]
  BY DEF Basic, TypeOK
<1>1. PICK d \in batch[n] :
        LET p == <<n, Worker(d.msg)>> IN
        /\ queue' = [queue EXCEPT ![p] = Append(@, d)]
        /\ batch' = [batch EXCEPT ![n] = @ \ {d}]
        /\ UNCHANGED <<stream, count, pel, todo, work, tries>>
  BY DEF Submit, redisVars, ghostVars
<1>2. PICK p : p = <<n, Worker(d.msg)>>
  OBVIOUS
<1>3. /\ queue' = [queue EXCEPT ![p] = Append(queue[p], d)]
      /\ batch' = [batch EXCEPT ![n] = batch[n] \ {d}]
      /\ UNCHANGED <<stream, count, pel, todo, work, tries>>
  BY <1>1, <1>2
<1>4. p \in Places /\ d \in Delivery
  BY <1>0, <1>2, SubmitPlace
<1>5. \A q \in Places : q # p => queue'[q] = queue[q]
  BY <1>0, <1>3
<1>6. /\ Len(queue[p]) \in Nat /\ Len(queue'[p]) = Len(queue[p]) + 1
      /\ queue'[p][Len(queue[p]) + 1] = d
      /\ \A i \in 1..Len(queue[p]) : queue'[p][i] = queue[p][i]
  <2>1. queue'[p] = Append(queue[p], d) /\ queue[p] \in Seq(Delivery)
    BY <1>0, <1>3, <1>4
  <2> QED  BY <1>4, <2>1, QueueAppend
<1>7. PICK c, t : c = count[k] /\ t = tries[stream[k]]
  OBVIOUS
<1>8. Consistent(k, c, t) /\ count'[k] = c /\ tries'[stream'[k]] = t
  BY <1>3, <1>7 DEF Attempts
<1>9. \A j \in Nodes : \A x \in batch'[j] : x.msg = k => Numbered(x.dc, c, t)
  <2>1. \A j \in Nodes : batch'[j] \subseteq batch[j]
    BY <1>0, <1>3
  <2> QED  BY <1>8, <2>1 DEF Consistent
<1>10. d.msg = k => Numbered(d.dc, c, t)
  BY <1>8 DEF Consistent
<1>11. \A q \in Places : \A i \in 1..Len(queue'[q]) :
         queue'[q][i].msg = k => Numbered(queue'[q][i].dc, c, t)
  <2>1. ASSUME NEW q \in Places, NEW i \in 1..Len(queue'[q]), NEW x, x = queue'[q][i], x.msg = k
        PROVE  Numbered(x.dc, c, t)
    <3>1. CASE q # p
      BY <1>5, <1>8, <2>1, <3>1 DEF Consistent
    <3>2. CASE q = p /\ i \in 1..Len(queue[p])
      BY <1>6, <1>8, <2>1, <3>2 DEF Consistent
    <3>3. CASE q = p /\ i = Len(queue[p]) + 1
      BY <1>6, <1>10, <2>1, <3>3
    <3>4. q = p => i \in 1..Len(queue[p]) \/ i = Len(queue[p]) + 1
      BY <1>6
    <3> QED  BY <3>1, <3>2, <3>3, <3>4
  <2> QED  BY <2>1
<1>12. \A q : Holds(q, k)' => Holds(q, k)
  BY <1>3 DEF Holds
<1>13. Resting(k)' => Resting(k)
  BY <1>3, SubmitKeeps DEF Resting
<1>14. Consistent(k, c, t)'
  BY <1>3, <1>8, <1>9, <1>11, <1>12, <1>13 DEF Consistent
<1> QED  BY <1>8, <1>14 DEF Attempts

\* XPENDING reads the counters of the moment.
LEMMA AttemptsList ==
  ASSUME Basic, NEW k \in 1..Len(stream), Live(k), Attempts(k), NEW n \in Nodes, ListPending(n)
  PROVE  Attempts(k)'
<1>1. PICK s \in Streams :
        /\ todo' = [todo EXCEPT ![n] =
                      {[msg |-> m, dc |-> count[m]] :
                         m \in {j \in pel : StreamOf[EventOf(j)] = s /\ IdleEnough(j)}}]
        /\ UNCHANGED <<stream, count, pel, batch, queue, work, tries>>
  BY DEF ListPending, redisVars, dispatchVars, ghostVars
<1>2. todo \in [Nodes -> SUBSET Delivery]
  BY DEF Basic, TypeOK
<1>3. \A d \in todo'[n] : d.dc = count[d.msg]
  <2> DEFINE S == {j \in pel : StreamOf[EventOf(j)] = s /\ IdleEnough(j)}
  <2>1. todo'[n] = {[msg |-> m, dc |-> count[m]] : m \in S}
    BY <1>1, <1>2
  <2> HIDE DEF S
  <2> QED  BY <2>1
<1>4. \A j \in Nodes : j # n => todo'[j] = todo[j]
  BY <1>1, <1>2
<1>5. \A j \in Nodes : \A d \in todo'[j] : d.msg = k => d \in todo[j] \/ d.dc = count[k]
  BY <1>3, <1>4
<1> QED  BY <1>1, <1>5, AttemptsFrame

\* XCLAIM of an entry at rest: its next number is one more than its failures.
LEMMA AttemptsClaim ==
  ASSUME Basic, \A j, l \in Nodes : j = l, ~Spend("slow", MaxSlow),
         NEW k \in 1..Len(stream), Live(k), Attempts(k), NEW n \in Nodes, XClaim(n)
  PROVE  Attempts(k)'
<1>0. /\ batch \in [Nodes -> SUBSET Delivery] /\ todo \in [Nodes -> SUBSET Delivery]
      /\ count \in [Ids -> Nat] /\ k \in Ids /\ MaxAttempts \in Nat
  <2>1. k \in Ids
    BY StreamIds DEF Basic
  <2> QED  BY <2>1, ConstantsAssumption DEF Basic, TypeOK
<1>1. PICK d \in todo[n] :
        /\ todo' = [todo EXCEPT ![n] = @ \ {d}]
        /\ IF d.msg \in pel /\ IdleEnough(d.msg)
           THEN /\ count' = [count EXCEPT ![d.msg] = @ + 1]
                /\ batch' = [batch EXCEPT ![n] = {[msg |-> d.msg, dc |-> d.dc + 1]}]
                /\ IF InHands(d.msg) THEN Spend("slow", MaxSlow) ELSE UNCHANGED faults
           ELSE UNCHANGED <<count, batch, faults>>
  BY DEF XClaim
<1>2. batch[n] = {} /\ UNCHANGED <<stream, pel, queue, work, tries>>
  BY DEF XClaim, dispatchVars, ghostVars
<1>3. \A j \in Nodes : j = n
  OBVIOUS
<1>4. todo'[n] = todo[n] \ {d} /\ d \in Delivery /\ d.msg \in Ids
  BY <1>0, <1>1 DEF Delivery
<1>5. CASE ~(d.msg \in pel /\ IdleEnough(d.msg))
  <2>1. UNCHANGED <<count, batch>>
    BY <1>1, <1>5
  <2>2. \A j \in Nodes : \A u \in todo'[j] : u.msg = k => u \in todo[j] \/ u.dc = count[k]
    BY <1>3, <1>4
  <2> QED  BY <1>2, <2>1, <2>2, AttemptsFrame
<1>6. CASE d.msg \in pel /\ IdleEnough(d.msg)
  <2>1. /\ count' = [count EXCEPT ![d.msg] = count[d.msg] + 1]
        /\ batch' = [batch EXCEPT ![n] = {[msg |-> d.msg, dc |-> d.dc + 1]}]
        /\ ~InHands(d.msg)
    BY <1>1, <1>6
  <2>2. batch'[n] = {[msg |-> d.msg, dc |-> d.dc + 1]}
    BY <1>0, <2>1
  <2>3. PICK c, t : c = count[k] /\ t = tries[stream[k]]
    OBVIOUS
  <2>4. Consistent(k, c, t) /\ tries'[stream'[k]] = t /\ c \in Nat
    BY <1>0, <1>2, <2>3 DEF Attempts
  <2>5. \A p : Holds(p, k)' <=> Holds(p, k)
    BY <1>2 DEF Holds
  <2>6. CASE d.msg = k
    <3>1. d.dc = c /\ c = t /\ c < MaxAttempts
      <4>1. Resting(k)
        BY <1>6, <2>1, <2>6 DEF Resting
      <4> QED  BY <2>4, <2>6, <4>1 DEF Consistent
    <3>2. count'[k] = c + 1
      BY <1>0, <2>1, <2>3, <2>6
    <3>3. \A x \in batch'[n] : Numbered(x.dc, c + 1, t)
      BY <1>0, <2>2, <2>4, <3>1 DEF Numbered
    <3>4. ~Resting(k)'
      <4>1. \E x \in batch'[n] : x.msg = k
        BY <2>2, <2>6
      <4> QED  BY <4>1 DEF Resting, InHands
    <3>5. \A p \in Places : ~Holds(p, k) /\ \A i \in 1..Len(queue[p]) : queue[p][i].msg # k
      BY <2>1, <2>6 DEF InHands, Holds, QueuedMsgs
    <3>6. \A u \in todo'[n] : u.msg # k
      <4>1. ASSUME NEW u \in todo'[n], u.msg = k
            PROVE  FALSE
        <5>1. u \in Delivery /\ u # d /\ u.dc = c
          BY <1>0, <1>4, <2>4, <4>1 DEF Consistent
        <5> QED  BY <1>4, <2>6, <3>1, <4>1, <5>1 DEF Delivery
      <4> QED  BY <4>1
    <3>7. c + 1 # 0
      BY <2>4
    <3>8. Consistent(k, c + 1, t)'
      <4> DEFINE e == c + 1
      <4>1. e # 0 /\ \A x \in batch'[n] : Numbered(x.dc, e, t)
        BY <3>3, <3>7
      <4> HIDE DEF e
      <4>2. Consistent(k, e, t)'
        BY <1>2, <1>3, <2>5, <3>4, <3>5, <3>6, <4>1 DEF Consistent
      <4> QED  BY <4>2 DEF e
    <3> QED  BY <2>4, <3>2, <3>8 DEF Attempts
  <2>7. CASE d.msg # k
    <3>1. count'[k] = c
      BY <1>0, <2>1, <2>3, <2>7
    <3>2. \A x \in batch'[n] : x.msg # k
      BY <2>2, <2>7
    <3>3. InHands(k) => InHands(k)'
      BY <1>2, <1>3 DEF InHands, QueuedMsgs
    <3>4. Resting(k)' => Resting(k)
      BY <1>2, <3>3 DEF Resting
    <3>5. \A u \in todo'[n] : u.msg = k => u.dc = c
      BY <1>4, <2>4 DEF Consistent
    <3>6. Consistent(k, c, t)'
      BY <1>2, <1>3, <2>4, <2>5, <3>2, <3>4, <3>5 DEF Consistent
    <3> QED  BY <2>4, <3>1, <3>6 DEF Attempts
  <2> QED  BY <2>6, <2>7
<1> QED  BY <1>5, <1>6

LEMMA AttemptsTake ==
  ASSUME Basic, HeldOnce, NEW k \in 1..Len(stream), Live(k), Attempts(k), NEW p \in Places, Take(p)
  PROVE  Attempts(k)'
<1>0. /\ queue \in [Places -> Seq(Delivery)] /\ queue[p] # <<>>
      /\ work \in [Places -> {NoWork} \cup [stage : Stages \ {"idle"}, msg : Ids, dc : Nat \ {0}]]
  BY DEF Basic, TypeOK, Take
<1>1. PICK d : d = Head(queue[p])
  OBVIOUS
<1>2. /\ work' = [work EXCEPT ![p] = [stage |-> "dedup", msg |-> d.msg, dc |-> d.dc]]
      /\ queue' = [queue EXCEPT ![p] = Tail(queue[p])]
      /\ work[p].stage = "idle"
      /\ UNCHANGED <<stream, count, pel, batch, todo, tries>>
  BY <1>1 DEF Take, At, redisVars, readerVars, ghostVars
<1>3. /\ d \in Delivery /\ d = queue[p][1] /\ 1 \in 1..Len(queue[p])
      /\ Len(queue[p]) \in Nat \ {0} /\ Len(Tail(queue[p])) = Len(queue[p]) - 1
      /\ \A i \in 1..Len(Tail(queue[p])) : Tail(queue[p])[i] = queue[p][i + 1]
  <2>1. queue[p] \in Seq(Delivery)
    BY <1>0
  <2> QED  BY <1>0, <1>1, <2>1, QueueTail
<1>4. /\ work'[p] = [stage |-> "dedup", msg |-> d.msg, dc |-> d.dc]
      /\ queue'[p] = Tail(queue[p])
      /\ \A q \in Places : q # p => work'[q] = work[q] /\ queue'[q] = queue[q]
  BY <1>0, <1>2
<1>5. PICK c, t : c = count[k] /\ t = tries[stream[k]]
  OBVIOUS
<1>6. Consistent(k, c, t) /\ count'[k] = c /\ tries'[stream'[k]] = t
  BY <1>2, <1>5 DEF Attempts
<1>7. \A q \in Places : \A i \in 1..Len(queue'[q]) : \E j \in 1..Len(queue[q]) :
         queue'[q][i] = queue[q][j]
  <2>1. ASSUME NEW q \in Places, q = p, NEW i \in 1..Len(queue'[q])
        PROVE  \E j \in 1..Len(queue[q]) : queue'[q][i] = queue[q][j]
    <3>1. queue'[q] = Tail(queue[p]) /\ queue[q] = queue[p]
      BY <1>4, <2>1
    <3>2. i \in 1..(Len(queue[p]) - 1) /\ Tail(queue[p])[i] = queue[p][i + 1]
      BY <1>3, <2>1, <3>1
    <3>3. i + 1 \in 1..Len(queue[p])
      BY <1>3, <3>2
    <3> QED  BY <3>1, <3>2, <3>3
  <2>2. ASSUME NEW q \in Places, q # p, NEW i \in 1..Len(queue'[q])
        PROVE  \E j \in 1..Len(queue[q]) : queue'[q][i] = queue[q][j]
    <3>1. queue'[q] = queue[q]
      BY <1>4, <2>2
    <3> QED  BY <3>1
  <2> QED  BY <2>1, <2>2
<1>8. \A q \in Places : \A i \in 1..Len(queue'[q]) :
         queue'[q][i].msg = k => Numbered(queue'[q][i].dc, c, t)
  <2>1. ASSUME NEW q \in Places, NEW i \in 1..Len(queue'[q]), NEW x, x = queue'[q][i], x.msg = k
        PROVE  Numbered(x.dc, c, t)
    BY <1>6, <1>7, <2>1 DEF Consistent
  <2> QED  BY <2>1
<1>9. d.msg = k => Numbered(d.dc, c, t)
  BY <1>3, <1>6 DEF Consistent
<1>10. \A q \in Places : Holds(q, k)' => Working(work[q], c, t)'
  <2>1. ASSUME d.msg = k
        PROVE  Working(work[p], c, t)'
    <3>1. PICK w : w = work'[p]
      OBVIOUS
    <3>2. w.stage = "dedup" /\ w.dc = d.dc
      BY <1>4, <3>1
    <3>3. Working(w, c, t)
      BY <1>9, <2>1, <3>2 DEF Working, Numbered
    <3> QED  BY <3>1, <3>3 DEF Working
  <2>2. Holds(p, k)' => d.msg = k
    BY <1>4 DEF Holds
  <2>3. ASSUME NEW q \in Places, q # p, Holds(q, k)'
        PROVE  Working(work[q], c, t)'
    <3>1. work'[q] = work[q]
      BY <1>4, <2>3
    <3>2. Holds(q, k)
      BY <2>3, <3>1 DEF Holds
    <3> QED  BY <1>6, <3>1, <3>2 DEF Consistent, Working
  <2> QED  BY <2>1, <2>2, <2>3
<1>11. InHands(k) => InHands(k)'
  <2>1. ASSUME NEW q \in Places, NEW i \in 1..Len(queue[q]), queue[q][i].msg = k
        PROVE  InHands(k)'
    <3>1. CASE q # p
      BY <1>4, <2>1, <3>1 DEF InHands, QueuedMsgs
    <3>2. CASE q = p /\ i = 1
      BY <1>3, <1>4, <2>1, <3>2 DEF InHands
    <3>3. CASE q = p /\ i # 1
      <4>1. i - 1 \in 1..Len(queue'[p]) /\ queue'[p][i - 1] = queue[p][i]
        BY <1>3, <1>4, <2>1, <3>3
      <4> QED  BY <2>1, <3>3, <4>1 DEF InHands, QueuedMsgs
    <3> QED  BY <3>1, <3>2, <3>3
  <2>2. ASSUME NEW q \in Places, work[q].stage # "idle" /\ work[q].msg = k
        PROVE  InHands(k)'
    <3>1. q # p
      BY <1>2, <2>2
    <3> QED  BY <1>4, <2>2, <3>1 DEF InHands
  <2> QED  BY <1>2, <2>1, <2>2 DEF InHands, QueuedMsgs
<1>12. Resting(k)' => Resting(k)
  BY <1>2, <1>11 DEF Resting
<1>13. Consistent(k, c, t)'
  BY <1>2, <1>6, <1>8, <1>10, <1>12 DEF Consistent
<1> QED  BY <1>6, <1>13 DEF Attempts

\* A message that another worker, or no worker, holds.
LEMMA AttemptsElsewhere ==
  ASSUME Basic, NEW k \in 1..Len(stream), Attempts(k), NEW p \in Places, Process(p), ~Take(p),
         ~Holds(p, k), tries'[stream[k]] = tries[stream[k]], k \in pel' => k \in pel
  PROVE  Attempts(k)'
<1>1. UNCHANGED <<stream, count, batch, todo, queue>>
  BY ProcessFields DEF Process, Take, SetDedup, HandlerReturns, HandlerRaises, Release, ToDlq, Ack
<1>2. PICK c, t : c = count[k] /\ t = tries[stream[k]]
  OBVIOUS
<1>3. Consistent(k, c, t) /\ count'[k] = c /\ tries'[stream'[k]] = t
  BY <1>1, <1>2 DEF Attempts
<1>4. /\ \A q \in Places : q # p => work'[q] = work[q]
      /\ ~Holds(p, k)'
  BY WorkStep DEF Holds
<1>5. \A q \in Places : Holds(q, k)' => Holds(q, k) /\ work'[q] = work[q]
  BY <1>4 DEF Holds
<1>6. InHands(k) => InHands(k)'
  <2>1. \A q \in Places : Holds(q, k) => Holds(q, k)'
    BY <1>4 DEF Holds
  <2> QED  BY <1>1, <2>1 DEF InHands, QueuedMsgs, Holds
<1>7. Resting(k)' => Resting(k)
  BY <1>6 DEF Resting
<1>8. \A q \in Places : Holds(q, k)' => Working(work[q], c, t)'
  BY <1>3, <1>5 DEF Consistent, Working
<1>9. Consistent(k, c, t)'
  BY <1>1, <1>3, <1>7, <1>8 DEF Consistent
<1> QED  BY <1>3, <1>9 DEF Attempts

\* The message the worker works on, by what the step leaves of its work.
LEMMA AttemptsHere ==
  ASSUME Basic, HeldOnce, NEW p \in Places, Process(p), ~Take(p), NEW k, Holds(p, k), Attempts(k),
         NEW c, c = count[k], NEW u, u = tries'[stream[k]],
         work'[p].stage # "idle" => Working(work[p], c, u)',
         work'[p].stage = "idle" => c = u /\ c < MaxAttempts
  PROVE  Attempts(k)'
<1>0. k \in Ids /\ c > 0
  BY HeldPublished, WorkEvent DEF Holds
<1>1. UNCHANGED <<stream, count, batch, todo, queue>>
  BY ProcessFields DEF Process, Take, SetDedup, HandlerReturns, HandlerRaises, Release, ToDlq, Ack
<1>2. count'[k] = c /\ tries'[stream'[k]] = u
  BY <1>1
<1>3. /\ \A n \in Nodes : \A d \in batch[n] : d.msg # k
      /\ \A q \in Places : \A i \in 1..Len(queue[q]) : queue[q][i].msg # k
      /\ \A q \in Places : Holds(q, k) => q = p
  BY <1>0 DEF HeldOnce
<1>4. \A q \in Places : Holds(q, k)' => q = p
  <2>1. \A q \in Places : q # p => work'[q] = work[q]
    BY WorkStep
  <2> QED  BY <1>3, <2>1 DEF Holds
<1>5. work'[p].stage # "idle" => Holds(p, k)'
  BY WorkStep DEF Holds
<1>6. Resting(k)' => c = u /\ c < MaxAttempts
  BY <1>5 DEF Resting, InHands, Holds
<1>7. Holds(p, k)' => Working(work[p], c, u)'
  BY DEF Holds
<1>8. \A n \in Nodes : \A d \in todo[n] : d.msg = k => d.dc = c
  BY DEF Attempts, Consistent
<1>9. c # 0
  BY <1>0
<1>10. Consistent(k, c, u)'
  BY <1>1, <1>3, <1>4, <1>6, <1>7, <1>8, <1>9 DEF Consistent
<1> QED  BY <1>2, <1>10 DEF Attempts

LEMMA StageMoves ==
  ASSUME Basic, NEW p \in Places, work[p].stage # "idle", NEW s, s \in Stages,
         work' = [work EXCEPT ![p].stage = s]
  PROVE  work'[p].stage = s /\ work'[p].dc = work[p].dc
<1>1. work \in [Places -> {NoWork} \cup [stage : Stages \ {"idle"}, msg : Ids, dc : Nat \ {0}]]
  BY DEF Basic, TypeOK
<1>2. work[p] \in [stage : Stages \ {"idle"}, msg : Ids, dc : Nat \ {0}]
  BY <1>1 DEF NoWork
<1>3. work'[p] = [work[p] EXCEPT !.stage = s]
  BY <1>1
<1> QED  BY <1>2, <1>3

\* The dedup key of a live message's event belongs to that message's worker.
LEMMA KeyFree ==
  ASSUME Basic, SafeInv, OneLife, NEW p \in Places, work[p].stage = "dedup"
  PROVE  EventOf(work[p].msg) \notin dedup
<1>1. PICK k : k = work[p].msg
  OBVIOUS
<1>2. Live(k) /\ k \in 1..Len(stream) /\ k \in Ids
  BY <1>1, WorkedLive, WorkEvent DEF SafeInv
<1>3. stream[k] \notin done
  BY <1>2 DEF OneLife, LiveIsPending
<1>4. ASSUME NEW q \in Places, Processing(q, stream[k])
      PROVE  FALSE
  <2>1. work[q].stage # "idle" /\ work[q].stage # "ack" /\ work[q].stage # "dedup"
        /\ stream[work[q].msg] = stream[k]
    BY <1>4 DEF Processing, EventOf
  <2>2. Live(work[q].msg) /\ work[q].msg \in 1..Len(stream)
    BY <2>1, WorkedLive DEF SafeInv
  <2>3. work[q].msg = k
    BY <1>2, <2>1, <2>2 DEF OneLife, OneMessage
  <2>4. Holds(q, k) /\ Holds(p, k)
    BY <1>1, <2>1, <2>3 DEF Holds
  <2>5. q = p
    BY <1>2, <2>4 DEF SafeInv, HeldOnce
  <2> QED  BY <2>1, <2>5
<1> QED  BY <1>1, <1>3, <1>4 DEF SafeInv, KeysOwned, EventOf

LEMMA AttemptsWork ==
  ASSUME Basic, SafeInv, OneLife, NEW p \in Places, Process(p), ~Take(p),
         NEW k \in 1..Len(stream), Live(k), Attempts(k), Holds(p, k)
  PROVE  Attempts(k)'
<1> USE DEF At
<1>1. PICK c, t : c = count[k] /\ t = tries[stream[k]]
  OBVIOUS
<1>2. PICK w : w = work[p]
  OBVIOUS
<1>3. Working(w, c, t) /\ w.stage # "idle" /\ w.msg = k
  BY <1>1, <1>2 DEF Attempts, Consistent, Holds
<1>4. /\ c \in Nat /\ t \in Nat /\ MaxAttempts \in Nat /\ stream[k] \in Events
      /\ tries \in [Events -> Nat]
  <2>1. /\ count \in [Ids -> Nat] /\ tries \in [Events -> Nat] /\ stream \in Seq(Events)
        /\ k \in Ids /\ stream[k] \in Events
    <3>1. k \in Ids /\ stream[k] \in Events
      BY StreamIds DEF Basic
    <3> QED  BY <3>1 DEF Basic, TypeOK
  <2> QED  BY <1>1, <2>1, ConstantsAssumption
<1>5. w.stage # "ack"
  BY <1>2, <1>3 DEF Live
<1>6. HeldOnce
  BY DEF SafeInv
<1> PICK u : u = tries'[stream[k]]
  OBVIOUS
<1>7. ASSUME NEW s \in Stages \ {"idle"},
             work' = [work EXCEPT ![p].stage = s],
             s \in {"dedup", "run"} => c = u + 1,
             s \in {"release", "dlq"} => c = u,
             s = "dlq" => c = MaxAttempts
      PROVE  Attempts(k)'
  <2>1. work'[p].stage = s /\ work'[p].dc = w.dc
    BY <1>2, <1>3, <1>7, StageMoves
  <2>2. PICK v : v = work'[p]
    OBVIOUS
  <2>3. Working(v, c, u)
    BY <1>3, <1>7, <2>1, <2>2 DEF Working
  <2>4. Working(work[p], c, u)' /\ work'[p].stage # "idle"
    BY <1>7, <2>1, <2>2, <2>3 DEF Working
  <2> QED  BY <1>1, <1>6, <1>7, <2>4, AttemptsHere
<1>8. CASE SetDedup(p)
  <2>1. w.stage = "dedup" /\ tries' = tries
    BY <1>2, <1>8 DEF SetDedup, ghostVars
  <2>2. work' = [work EXCEPT ![p].stage = "run"]
    BY <1>2, <1>8, <2>1, KeyFree DEF SetDedup
  <2>3. c = u + 1
    BY <1>1, <1>3, <2>1 DEF Working
  <2>4. "run" \in Stages \ {"idle"}
    BY DEF Stages
  <2> QED  BY <1>7, <2>2, <2>3, <2>4
<1>9. CASE HandlerReturns(p)
  <2>1. work' = [work EXCEPT ![p].stage = "ack"]
    BY <1>9 DEF HandlerReturns
  <2>2. "ack" \in Stages \ {"idle"}
    BY DEF Stages
  <2> QED  BY <1>7, <2>1, <2>2
<1>10. CASE HandlerRaises(p)
  <2>1. /\ w.stage = "run" /\ tries' = [tries EXCEPT ![stream[k]] = tries[stream[k]] + 1]
        /\ work' = [work EXCEPT ![p].stage = "release"]
    BY <1>2, <1>3, <1>10 DEF HandlerRaises, EventOf
  <2>2. u = t + 1
    BY <1>1, <1>4, <2>1
  <2>3. c = u
    BY <1>3, <2>1, <2>2 DEF Working
  <2>4. "release" \in Stages \ {"idle"}
    BY DEF Stages
  <2> QED  BY <1>7, <2>1, <2>3, <2>4
<1>11. CASE Release(p)
  <2>1. w.stage = "release" /\ c = u /\ w.dc = c /\ c <= MaxAttempts
    <3>1. w.stage = "release" /\ tries' = tries
      BY <1>2, <1>11 DEF Release, ghostVars
    <3> QED  BY <1>1, <1>3, <3>1 DEF Working
  <2>2. CASE c >= MaxAttempts
    <3>1. work' = [work EXCEPT ![p].stage = "dlq"]
      BY <1>2, <1>11, <2>1, <2>2 DEF Release
    <3>2. c = MaxAttempts
      BY <1>4, <2>1, <2>2
    <3>3. "dlq" \in Stages \ {"idle"}
      BY DEF Stages
    <3> QED  BY <1>7, <2>1, <3>1, <3>2, <3>3
  <2>3. CASE ~(c >= MaxAttempts)
    <3>1. work' = [work EXCEPT ![p] = NoWork]
      BY <1>2, <1>11, <2>1, <2>3 DEF Release
    <3>2. work'[p].stage = "idle"
      <4>1. DOMAIN work = Places
        BY DEF Basic, TypeOK
      <4> QED  BY <3>1, <4>1 DEF NoWork
    <3>3. c < MaxAttempts
      BY <1>4, <2>3
    <3> QED  BY <1>1, <1>6, <2>1, <3>2, <3>3, AttemptsHere
  <2> QED  BY <2>2, <2>3
<1>12. CASE ToDlq(p)
  <2>1. work' = [work EXCEPT ![p].stage = "ack"]
    BY <1>12 DEF ToDlq
  <2>2. "ack" \in Stages \ {"idle"}
    BY DEF Stages
  <2> QED  BY <1>7, <2>1, <2>2
<1>13. ~Ack(p)
  BY <1>2, <1>5 DEF Ack
<1> QED  BY <1>8, <1>9, <1>10, <1>11, <1>12, <1>13 DEF Process

LEMMA AttemptsProcess ==
  ASSUME Basic, SafeInv, OneLife, NEW p \in Places, Process(p),
         NEW k \in 1..Len(stream), Live(k), Attempts(k)
  PROVE  Attempts(k)'
<1> USE DEF At
<1>1. CASE Take(p)
  BY <1>1, AttemptsTake DEF SafeInv
<1>2. CASE ~Take(p) /\ Holds(p, k)
  BY <1>2, AttemptsWork
<1>3. CASE ~Take(p) /\ ~Holds(p, k)
  <2>1. k \in pel' => k \in pel
    BY <1>3 DEF Process, Take, SetDedup, HandlerReturns, HandlerRaises, Release, ToDlq, Ack, redisVars
  <2>2. tries'[stream[k]] = tries[stream[k]]
    <3>1. CASE HandlerRaises(p)
      <4>1. /\ work[p].stage = "run" /\ work[p].msg # k
            /\ tries' = [tries EXCEPT ![stream[work[p].msg]] = tries[stream[work[p].msg]] + 1]
        BY <1>3, <3>1 DEF HandlerRaises, EventOf, Holds
      <4>2. Live(work[p].msg) /\ work[p].msg \in 1..Len(stream)
        BY <4>1, WorkedLive DEF SafeInv
      <4>3. stream[work[p].msg] # stream[k]
        BY <4>1, <4>2 DEF OneLife, OneMessage
      <4>4. tries \in [Events -> Nat] /\ stream[k] \in Events
        BY DEF Basic, TypeOK
      <4> QED  BY <4>1, <4>3, <4>4
    <3>2. CASE ~HandlerRaises(p)
      BY <1>3, <3>2 DEF Process, SetDedup, HandlerReturns, Release, ToDlq, Ack, ghostVars
    <3> QED  BY <3>1, <3>2
  <2> QED  BY <1>3, <2>1, <2>2, AttemptsElsewhere
<1> QED  BY <1>1, <1>2, <1>3

\* A message nobody was given yet, of an event that did not fail.
LEMMA AttemptsFresh ==
  ASSUME Basic, NEW k \in Ids, count[k] = 0, UNCHANGED <<count, pel, batch, queue, work, todo>>,
         tries'[stream'[k]] = 0
  PROVE  Attempts(k)'
<1>1. /\ \A n \in Nodes : \A d \in batch[n] \cup todo[n] : d.msg # k
      /\ \A p \in Places : \A i \in 1..Len(queue[p]) : queue[p][i].msg # k
      /\ \A p \in Places : ~Holds(p, k)
  <2>1. \A n \in Nodes : \A d \in batch[n] \cup todo[n] : d \in Delivery /\ d.dc <= count[d.msg]
    BY HeldTypes DEF Basic, DeliveryCountSound
  <2>2. \A p \in Places : \A i \in 1..Len(queue[p]) :
          queue[p][i] \in Delivery /\ queue[p][i].dc <= count[queue[p][i].msg]
    BY HeldTypes DEF Basic, DeliveryCountSound
  <2>3. \A d \in Delivery : d.dc <= count[d.msg] => d.msg # k
    BY DEF Delivery
  <2>4. \A p \in Places : ~Holds(p, k)
    BY HeldPublished DEF Holds
  <2> QED  BY <2>1, <2>2, <2>3, <2>4
<1>2. \A p \in Places : ~Holds(p, k)'
  BY <1>1 DEF Holds
<1>3. k \notin pel
  BY DEF Basic, DeliveryCountSound
<1>4. ~Resting(k)'
  BY <1>3 DEF Resting
<1>5. Consistent(k, 0, 0)'
  BY <1>1, <1>2, <1>4 DEF Consistent
<1> QED  BY <1>5 DEF Attempts

-----------------------------------------------------------------------------
LEMMA CountsNext ==
  ASSUME Basic, Basic', SafeInv, OneLife, Counts, Calm', [Next]_vars,
         \A j, l \in Nodes : j = l
  PROVE  Counts'
<1>0. /\ stream \in Seq(Events) /\ Len(stream) <= MaxMsgs /\ MaxMsgs \in Nat
      /\ tries \in [Events -> Nat]
  BY ConstantsAssumption DEF Basic, TypeOK
<1>1. \A k \in 1..Len(stream) : k \in Ids /\ stream[k] \in Events
  BY StreamIds DEF Basic
<1>2. \A k \in 1..Len(stream) : Live(k)' => Live(k) /\ Attempts(k)
  BY LiveBack DEF Counts
<1>3. ASSUME UNCHANGED <<stream, count, pel, batch, queue, work, todo, tries>>
      PROVE  Counts'
  BY <1>2, <1>3, AttemptsFrame DEF Counts
<1>4. ASSUME NEW e \in Events, Append1(e), UNCHANGED <<count, pel, batch, queue, work, todo>>,
             tries'[e] = 0, \A f \in Events : f # e => tries'[f] = tries[f],
             \A k \in 1..Len(stream) : Live(k)' => stream[k] # e
      PROVE  Counts'
  <2>1. /\ Len(stream) \in Nat /\ Len(stream') = Len(stream) + 1 /\ Len(stream') <= MaxMsgs
        /\ \A m \in 1..Len(stream) : stream'[m] = stream[m]
        /\ stream'[Len(stream) + 1] = e
    BY <1>4, AppendLast
  <2>2. ASSUME NEW k \in 1..Len(stream), Live(k)'
        PROVE  Attempts(k)'
    <3>1. /\ Attempts(k) /\ stream'[k] = stream[k] /\ stream[k] # e
          /\ tries'[stream[k]] = tries[stream[k]]
      BY <1>1, <1>2, <1>4, <2>1, <2>2
    <3> QED  BY <1>4, <3>1, AttemptsFrame
  <2>3. PICK k : k = Len(stream) + 1
    OBVIOUS
  <2>4. k \in Ids /\ stream'[k] = e /\ k > Len(stream)
    BY <1>0, <2>1, <2>3 DEF Ids
  <2>5. count[k] = 0
    <3>1. count \in [Ids -> Nat]
      BY DEF Basic, TypeOK
    <3>2. ~(count[k] > 0)
      BY <2>1, <2>4, HeldPublished
    <3> QED  BY <2>4, <3>1, <3>2
  <2>6. Attempts(k)'
    BY <1>4, <2>4, <2>5, AttemptsFresh
  <2>7. \A m \in 1..Len(stream') : m \in 1..Len(stream) \/ m = k
    BY <2>1, <2>3
  <2> QED  BY <2>2, <2>6, <2>7 DEF Counts
<1>5. ASSUME NEW e \in Events, Publish(e)
      PROVE  Counts'
  <2>1. /\ Append1(e) /\ ~Published(e) /\ UNCHANGED <<count, pel, batch, queue, work, todo, tries>>
    BY <1>5 DEF Publish, readerVars, dispatchVars, ghostVars
  <2>2. tries'[e] = 0
    BY <2>1 DEF OneLife, NewUntouched
  <2>3. \A k \in 1..Len(stream) : stream[k] # e
    BY <2>1 DEF Published, EventOf
  <2> QED  BY <1>4, <2>1, <2>2, <2>3
<1>6. ASSUME NEW a \in Admins, RedrivePublish(a)
      PROVE  Counts'
  <2>1. PICK e : e = dlq[admin[a].entry]
    OBVIOUS
  <2>2. /\ admin[a].step = "publish" /\ Append1(e)
        /\ UNCHANGED <<count, pel, batch, queue, work, todo>>
        /\ tries' = [tries EXCEPT ![e] = 0]
    BY <1>6, <2>1 DEF RedrivePublish, readerVars, dispatchVars
  <2>3. Open(admin[a].entry)
    BY <2>2 DEF OneLife, RedriveOpen
  <2>4. e \in Events /\ Dead(e)
    <3>1. dlq \in Seq(Events) /\ admin[a].entry \in 1..Len(dlq)
      BY <2>3 DEF Basic, TypeOK, Open
    <3>2. dlq[admin[a].entry] \in Events
      BY <3>1
    <3> QED  BY <2>1, <2>3, <3>1, <3>2, DeadOpen
  <2>5. tries'[e] = 0 /\ \A f \in Events : f # e => tries'[f] = tries[f]
    BY <1>0, <2>2, <2>4
  <2>6. \A k \in 1..Len(stream) : Live(k)' => stream[k] # e
    BY <1>2, <2>4 DEF OneLife, LiveIsPending
  <2> QED  BY <1>4, <2>2, <2>4, <2>5, <2>6
<1>7. ASSUME NEW a \in Admins, Redrive(a)
      PROVE  Counts'
  <2>1. CASE RedrivePublish(a)
    BY <1>6, <2>1
  <2>2. CASE ~RedrivePublish(a)
    <3>1. UNCHANGED <<stream, count, pel, batch, queue, work, todo, tries>>
      BY <1>7, <2>2 DEF Redrive, RedriveFind, RedriveDelDedup, RedriveXdel, redisVars, readerVars,
                        dispatchVars, ghostVars
    <3> QED  BY <1>3, <3>1
  <2> QED  BY <2>1, <2>2
<1>8. ASSUME NEW n \in Nodes, Stop(n) \/ Stopped(n) \/ Start(n) \/ EndCycle(n)
      PROVE  Counts'
  <2>1. UNCHANGED <<stream, count, pel, batch, queue, work, todo, tries>>
    BY <1>8 DEF Stop, Stopped, Start, EndCycle, redisVars, readerVars, dispatchVars, ghostVars
  <2> QED  BY <1>3, <2>1
<1>9. ASSUME NEW n \in Nodes, Loop(n)
      PROVE  Counts'
  <2>1. CASE EndCycle(n)
    BY <1>8, <2>1
  <2>2. CASE ~EndCycle(n)
    <3>1. stream' = stream
      BY <1>9, <2>2 DEF Loop, ReadGroup, Submit, ListPending, XClaim, redisVars
    <3>2. ASSUME NEW k \in 1..Len(stream), Live(k)'
          PROVE  Attempts(k)'
      <4>1. Live(k) /\ Attempts(k)
        BY <1>2, <3>2
      <4>2. ~Spend("slow", MaxSlow)
        BY CalmSteps
      <4> QED  BY <1>9, <2>2, <4>1, <4>2, AttemptsRead, AttemptsSubmit, AttemptsList, AttemptsClaim
                DEF Loop
    <3> QED  BY <3>1, <3>2 DEF Counts
  <2> QED  BY <2>1, <2>2
<1>10. ASSUME NEW p \in Places, Process(p)
       PROVE  Counts'
  <2>1. stream' = stream
    BY <1>10, ProcessFields
  <2>2. ASSUME NEW k \in 1..Len(stream), Live(k)'
        PROVE  Attempts(k)'
    <3>1. Live(k) /\ Attempts(k)
      BY <1>2, <2>2
    <3> QED  BY <1>10, <3>1, AttemptsProcess
  <2> QED  BY <2>1, <2>2 DEF Counts
<1>11. CASE UNCHANGED vars
  <2>1. UNCHANGED <<redisVars, readerVars, dispatchVars, ghostVars>>
    BY <1>11 DEF vars
  <2>2. UNCHANGED <<stream, count, pel, batch, queue, work, todo, tries>>
    BY <2>1 DEF redisVars, readerVars, dispatchVars, ghostVars
  <2> QED  BY <1>3, <2>2
<1> QED  BY <1>5, <1>7, <1>8, <1>9, <1>10, <1>11, CalmSteps

\* The steps that the port sees; every other one is silent.
LEMMA OneLifeNext ==
  ASSUME Basic, SafeInv, OneLife, Calm', [Next]_vars, \A a, b \in Admins : a = b
  PROVE  /\ OneLife'
         /\ \/ \E e \in Events : Publish(e)
            \/ \E p \in Places : HandlerReturns(p) \/ HandlerRaises(p) \/ ToDlq(p)
            \/ \E a \in Admins : RedrivePublish(a)
            \/ Silent
<1>1. ASSUME UNCHANGED <<stream, dlq, done, tries, removed, admin>>
      PROVE  OneLife' /\ Silent
  BY <1>1, OneLifeSilent
<1>2. ASSUME NEW n \in Nodes, Loop(n) \/ Stop(n) \/ Stopped(n) \/ Start(n)
      PROVE  OneLife' /\ Silent
  <2>1. UNCHANGED <<stream, dlq, done, tries, removed, admin>>
    BY <1>2 DEF Loop, ReadGroup, Submit, ListPending, XClaim, EndCycle, Stop, Stopped, Start,
                redisVars, ghostVars
  <2> QED  BY <1>1, <2>1
<1>3. ASSUME NEW p \in Places, Process(p)
      PROVE  OneLife' /\ (HandlerReturns(p) \/ HandlerRaises(p) \/ ToDlq(p) \/ Silent)
  <2>1. CASE Take(p) \/ SetDedup(p) \/ Release(p) \/ Ack(p)
    <3>1. UNCHANGED <<stream, dlq, done, tries, removed, admin>>
      BY <2>1 DEF Take, SetDedup, Release, Ack, redisVars, ghostVars
    <3> QED  BY <1>1, <3>1
  <2>2. CASE HandlerReturns(p) \/ HandlerRaises(p) \/ ToDlq(p)
    BY <2>2, OneLifeReturns, OneLifeRaises, OneLifeToDlq
  <2> QED  BY <1>3, <2>1, <2>2 DEF Process
<1>4. ASSUME NEW a \in Admins, Redrive(a)
      PROVE  OneLife' /\ (RedrivePublish(a) \/ Silent)
  <2>1. CASE RedrivePublish(a)
    BY <2>1, OneLifeRedrive
  <2>2. CASE ~RedrivePublish(a)
    BY <1>4, <2>2, OneLifeAdmin DEF Redrive
  <2> QED  BY <2>1, <2>2
<1>5. CASE UNCHANGED vars
  <2>1. UNCHANGED <<redisVars, admin, ghostVars>>
    BY <1>5 DEF vars
  <2>2. UNCHANGED <<stream, dlq, done, tries, removed, admin>>
    BY <2>1 DEF redisVars, ghostVars
  <2> QED  BY <1>1, <2>2
<1>6. ASSUME NEW e \in Events, Publish(e)
      PROVE  OneLife'
  BY <1>6, OneLifePublish
<1> QED  BY <1>2, <1>3, <1>4, <1>5, <1>6, CalmSteps

-----------------------------------------------------------------------------
(* What the port shows of a state, and of the next one.                    *)

Shown(handled, dead, published) ==
    IF handled THEN "done" ELSE IF dead THEN "dead" ELSE IF published THEN "pending" ELSE "new"

LEMMA StatusShown ==
  /\ status = [e \in Events |-> Shown(e \in done, Dead(e), Published(e))]
  /\ status' = [e \in Events |-> Shown(e \in done', Dead(e)', Published(e)')]
  BY DEF status, Shown

LEMMA StatusMoves ==
  ASSUME NEW e \in Events, NEW s, Shown(e \in done', Dead(e)', Published(e)') = s,
         \A f \in Events : f # e => /\ f \in done' <=> f \in done
                                    /\ Dead(f)' <=> Dead(f)
                                    /\ Published(f)' <=> Published(f)
  PROVE  status' = [status EXCEPT ![e] = s]
<1>1. \A f \in Events : f # e =>
        Shown(f \in done', Dead(f)', Published(f)') = Shown(f \in done, Dead(f), Published(f))
  BY DEF Shown
<1> DEFINE A(f) == Shown(f \in done, Dead(f), Published(f))
           B(f) == Shown(f \in done', Dead(f)', Published(f)')
<1>2. status = [f \in Events |-> A(f)] /\ status' = [f \in Events |-> B(f)]
  BY StatusShown
<1>3. B(e) = s /\ \A f \in Events : f # e => B(f) = A(f)
  BY <1>1
<1> HIDE DEF A, B
<1> QED  BY <1>2, <1>3

LEMMA StatusStays ==
  ASSUME \A f \in Events : /\ f \in done' <=> f \in done
                           /\ Dead(f)' <=> Dead(f)
                           /\ Published(f)' <=> Published(f)
  PROVE  status' = status
<1>1. \A f \in Events :
        Shown(f \in done', Dead(f)', Published(f)') = Shown(f \in done, Dead(f), Published(f))
  BY DEF Shown
<1> QED  BY <1>1, StatusShown

\* The number of a worker's delivery bounds the failures of its event.
LEMMA WorkedAttempts ==
  ASSUME Basic, SafeInv, Counts, NEW p \in Places, work[p].stage \in {"run", "dlq"},
         NEW e, e = EventOf(work[p].msg)
  PROVE  /\ work[p].stage = "run" => tries[e] < MaxAttempts
         /\ work[p].stage = "dlq" => tries[e] = MaxAttempts
<1>1. PICK k : k = work[p].msg
  OBVIOUS
<1>2. PICK c, t : c = count[k] /\ t = tries[e]
  OBVIOUS
<1>3. Live(k) /\ k \in 1..Len(stream) /\ stream[k] = e /\ k \in Ids /\ e \in Events
  BY <1>1, WorkedLive, WorkEvent DEF SafeInv, EventOf
<1>4. c \in Nat /\ t \in Nat /\ MaxAttempts \in Nat
  BY <1>2, <1>3, ConstantsAssumption DEF Basic, TypeOK
<1>5. Holds(p, k)
  BY <1>1 DEF Holds
<1>6. Working(work[p], c, t)
  BY <1>2, <1>3, <1>5 DEF Counts, Attempts, Consistent
<1> QED  BY <1>2, <1>4, <1>6 DEF Working

LEMMA PortStep ==
  ASSUME Basic, SafeInv, OneLife, Counts, Calm', [Next]_vars, \A a, b \in Admins : a = b
  PROVE  [Port!Next]_(Port!vars)
<1> USE DEF At
<1>0. tries \in [Events -> Nat]
  BY DEF Basic, TypeOK
<1>1. \A e \in Events : status[e] = Shown(e \in done, Dead(e), Published(e))
  BY StatusShown
<1>2. ASSUME NEW e \in Events, Publish(e)
      PROVE  Port!Publish(e)
  <2>1. /\ ~Published(e) /\ Append1(e) /\ UNCHANGED <<dlq, removed, admin, done, tries>>
    BY <1>2 DEF Publish, ghostVars
  <2>2. e \notin done /\ ~Dead(e)
    BY <2>1 DEF OneLife, NewUntouched
  <2>3. \A f : Dead(f)' <=> Dead(f)
    BY <2>1 DEF Dead
  <2>4. \A f \in Events : Published(f)' <=> Published(f) \/ f = e
    <3>1. /\ Len(stream) \in Nat /\ Len(stream') = Len(stream) + 1
          /\ \A m \in 1..Len(stream) : stream'[m] = stream[m]
          /\ stream'[Len(stream) + 1] = e
      BY <2>1, AppendLast
    <3>2. \A m \in 1..Len(stream') : m \in 1..Len(stream) \/ m = Len(stream) + 1
      BY <3>1
    <3> QED  BY <3>1, <3>2 DEF Published, EventOf
  <2>5. status[e] = "new"
    BY <1>1, <2>1, <2>2 DEF Shown
  <2>6. Shown(e \in done', Dead(e)', Published(e)') = "pending"
    BY <2>1, <2>2, <2>3, <2>4 DEF Shown
  <2>7. status' = [status EXCEPT ![e] = "pending"]
    BY <2>1, <2>3, <2>4, <2>6, StatusMoves
  <2> QED  BY <2>1, <2>5, <2>7 DEF Port!Publish
<1>3. ASSUME NEW p \in Places, HandlerReturns(p)
      PROVE  \E e \in Events : Port!Handled(e)
  <2>1. PICK e : e = EventOf(work[p].msg)
    OBVIOUS
  <2>2. /\ work[p].stage = "run" /\ done' = done \cup {e}
        /\ UNCHANGED <<stream, dlq, removed, admin, tries>>
    BY <1>3, <2>1 DEF HandlerReturns, redisVars
  <2>3. e \in Events /\ e \notin done /\ ~Dead(e) /\ Published(e)
    BY <1>3, <2>1, OneLifeReturns
  <2>4. tries[e] < MaxAttempts
    BY <2>1, <2>2, WorkedAttempts
  <2>5. status[e] = "pending"
    BY <1>1, <2>3 DEF Shown
  <2>6. Shown(e \in done', Dead(e)', Published(e)') = "done"
    BY <2>2 DEF Shown
  <2>7. /\ \A f : Dead(f)' <=> Dead(f)
        /\ \A f : Published(f)' <=> Published(f)
    BY <2>2 DEF Dead, Published, EventOf
  <2>8. status' = [status EXCEPT ![e] = "done"]
    BY <2>2, <2>3, <2>6, <2>7, StatusMoves
  <2> QED  BY <2>2, <2>3, <2>4, <2>5, <2>8 DEF Port!Handled
<1>4. ASSUME NEW p \in Places, HandlerRaises(p)
      PROVE  \E e \in Events : Port!Raised(e)
  <2>1. PICK e : e = EventOf(work[p].msg)
    OBVIOUS
  <2>2. /\ work[p].stage = "run" /\ tries' = [tries EXCEPT ![e] = tries[e] + 1]
        /\ UNCHANGED <<stream, dlq, removed, admin, done>>
    BY <1>4, <2>1 DEF HandlerRaises, redisVars
  <2>3. e \in Events /\ e \notin done /\ ~Dead(e) /\ Published(e)
    BY <1>4, <2>1, OneLifeRaises
  <2>4. tries[e] < MaxAttempts
    BY <2>1, <2>2, WorkedAttempts
  <2>5. status[e] = "pending"
    BY <1>1, <2>3 DEF Shown
  <2>6. /\ \A f : Dead(f)' <=> Dead(f)
        /\ \A f : Published(f)' <=> Published(f)
    BY <2>2 DEF Dead, Published, EventOf
  <2>7. status' = status
    BY <2>2, <2>6, StatusStays
  <2> QED  BY <2>2, <2>3, <2>4, <2>5, <2>7 DEF Port!Raised
<1>5. ASSUME NEW p \in Places, ToDlq(p)
      PROVE  \E e \in Events : Port!DeadLettered(e)
  <2>1. PICK e : e = EventOf(work[p].msg)
    OBVIOUS
  <2>2. work[p].stage = "dlq" /\ UNCHANGED <<stream, tries, done>>
    BY <1>5 DEF ToDlq, ghostVars
  <2>3. /\ e \in Events /\ e \notin done /\ ~Dead(e) /\ Published(e)
        /\ \A f : Dead(f)' <=> Dead(f) \/ f = e
    BY <1>5, <2>1, OneLifeToDlq
  <2>4. tries[e] = MaxAttempts
    BY <2>1, <2>2, WorkedAttempts
  <2>5. status[e] = "pending"
    BY <1>1, <2>3 DEF Shown
  <2>6. Shown(e \in done', Dead(e)', Published(e)') = "dead"
    BY <2>2, <2>3 DEF Shown
  <2>7. \A f : Published(f)' <=> Published(f)
    BY <2>2 DEF Published, EventOf
  <2>8. status' = [status EXCEPT ![e] = "dead"]
    BY <2>2, <2>3, <2>6, <2>7, StatusMoves
  <2> QED  BY <2>2, <2>3, <2>4, <2>5, <2>8 DEF Port!DeadLettered
<1>6. ASSUME NEW a \in Admins, RedrivePublish(a)
      PROVE  \E e \in Events : Port!Redriven(e)
  <2>1. PICK e : e = dlq[admin[a].entry]
    OBVIOUS
  <2>2. /\ admin[a].step = "publish" /\ Append1(e) /\ done' = done /\ dlq' = dlq
        /\ tries' = [tries EXCEPT ![e] = 0]
    BY <1>6, <2>1 DEF RedrivePublish
  <2>3. /\ e \in Events /\ Dead(e) /\ ~Dead(e)'
        /\ \A f : f # e => (Dead(f)' <=> Dead(f))
    BY <1>6, <2>1, OneLifeRedrive
  <2>4. e \notin done
    <3>1. Open(admin[a].entry) /\ admin[a].entry \in 1..Len(dlq)
      BY <2>2 DEF OneLife, RedriveOpen, Open
    <3> QED  BY <2>1, <3>1 DEF OneLife, EntryNotDone
  <2>5. /\ Published(e)'
        /\ \A f \in Events : f # e => (Published(f)' <=> Published(f))
    <3>1. /\ Len(stream) \in Nat /\ Len(stream') = Len(stream) + 1
          /\ \A m \in 1..Len(stream) : stream'[m] = stream[m]
          /\ stream'[Len(stream) + 1] = e
      BY <2>2, <2>3, AppendLast
    <3>2. \A m \in 1..Len(stream') : m \in 1..Len(stream) \/ m = Len(stream) + 1
      BY <3>1
    <3> QED  BY <3>1, <3>2 DEF Published, EventOf
  <2>6. status[e] = "dead"
    BY <1>1, <2>3, <2>4 DEF Shown
  <2>7. Shown(e \in done', Dead(e)', Published(e)') = "pending"
    BY <2>2, <2>3, <2>4, <2>5 DEF Shown
  <2>8. status' = [status EXCEPT ![e] = "pending"]
    BY <2>2, <2>3, <2>5, <2>7, StatusMoves
  <2> QED  BY <2>2, <2>3, <2>6, <2>8 DEF Port!Redriven
<1>7. CASE Silent
  <2>1. status' = status
    BY <1>7, StatusStays DEF Silent, Published, EventOf
  <2> QED  BY <1>7, <2>1 DEF Silent, Port!vars
<1> QED  BY <1>2, <1>3, <1>4, <1>5, <1>6, <1>7, OneLifeNext DEF Port!Next, Port!Deliver

-----------------------------------------------------------------------------
LEMMA PortInit == Init => OneLife /\ Counts /\ Port!Init
<1> SUFFICES ASSUME Init PROVE OneLife /\ Counts /\ Port!Init
  OBVIOUS
<1>1. /\ Len(stream) = 0 /\ Len(dlq) = 0 /\ done = {} /\ tries = [e \in Events |-> 0]
      /\ \A a \in Admins : admin[a].step = "none"
  BY DEF Init, NoOp
<1>2. \A e : ~Dead(e) /\ ~Published(e)
  BY <1>1 DEF Dead, Published
<1>3. OneLife
  BY <1>1, <1>2 DEF OneLife, OneMessage, LiveIsPending, OneEntry, EntryNotDone, RedriveOpen,
                    NewUntouched
<1>4. Counts
  BY <1>1 DEF Counts
<1>5. status = [e \in Events |-> "new"]
  <2>1. \A e \in Events : Shown(e \in done, Dead(e), Published(e)) = "new"
    BY <1>1, <1>2 DEF Shown
  <2> QED  BY <2>1, StatusShown
<1> QED  BY <1>1, <1>3, <1>4, <1>5 DEF Port!Init

\* The bus keeps the promises of the port (ports/event_bus.py): a consumer of
\* one process, whose messages are redriven by one caller at a time, hands
\* every published event to its handler until that returns, at most
\* max_attempts times, then puts it in the DLQ, and starts it afresh only when
\* it is redriven, as long as nothing fails: stops and restarts are no failure.
THEOREM BusImplementsPort ==
  ASSUME \A n, k \in Nodes : n = k, \A a, b \in Admins : a = b
  PROVE  Spec /\ []Calm => Port!Spec
<1>1. Init => OneLife /\ Counts /\ Port!Init
  BY PortInit
<1>2. Inductive => Basic /\ (Calm => SafeInv)
  BY DEF Inductive, Calm, FaultKinds, Unharmed
<1>3. Inductive /\ Inductive' /\ Calm /\ Calm' /\ OneLife /\ Counts /\ [Next]_vars
        => OneLife' /\ Counts' /\ [Port!Next]_(Port!vars)
  <2> SUFFICES ASSUME Inductive, Inductive', Calm, Calm', OneLife, Counts, [Next]_vars
               PROVE  OneLife' /\ Counts' /\ [Port!Next]_(Port!vars)
    OBVIOUS
  <2>1. Basic /\ SafeInv
    BY <1>2
  <2>2. Basic'
    BY DEF Inductive
  <2> QED  BY <2>1, <2>2, OneLifeNext, CountsNext, PortStep
<1> QED  BY <1>1, <1>3, InductiveHolds, PTL DEF Spec, Port!Spec

-----------------------------------------------------------------------------
(* The order of a key: one process, and no event of the key that failed.   *)

CleanKeys == {k \in Keys : \A g \in Events : KeyOf[g] = k => ~Failed(g)}

\* Two messages of one clean key and one stream, in the order of their ids.
Before(i, j) ==
    /\ i < j
    /\ StreamOf[stream[i]] = StreamOf[stream[j]]
    /\ KeyOf[stream[i]] = KeyOf[stream[j]]
    /\ KeyOf[stream[i]] \in CleanKeys

InBatch(m) == \E n \in Nodes : \E d \in batch[n] : d.msg = m
InQueue(m) == \E p \in Places : \E a \in 1..Len(queue[p]) : queue[p][a].msg = m
Held(m) == \E p \in Places : Holds(p, m)

\* An event that did not fail was appended once.
Single ==
    \A i, j \in 1..Len(stream) :
        KeyOf[stream[i]] \in CleanKeys /\ stream[i] = stream[j] => i = j

\* crc32 of the key: a message is only ever at its own worker.
Routed ==
    /\ \A p \in Places : \A a \in 1..Len(queue[p]) : p[2] = Worker(queue[p][a].msg)
    /\ \A p \in Places : work[p].stage # "idle" => p[2] = Worker(work[p].msg)

\* Wherever the later message has got, the earlier one is ahead of it.
Ahead(i, j) ==
    /\ count[j] # 0 => count[i] # 0
    /\ InQueue(j) \/ Held(j) => ~InBatch(i)
    /\ \A p \in Places : \A a, b \in 1..Len(queue[p]) :
         queue[p][a].msg = i /\ queue[p][b].msg = j => a < b
    /\ Held(j) => ~InQueue(i)
    /\ stream[j] \in done => stream[i] \in done

Ordered ==
    /\ Single
    /\ Routed
    /\ \A i, j \in 1..Len(stream) : Before(i, j) => Ahead(i, j)

LEMMA CleanBack ==
  ASSUME Basic, [Next]_vars
  PROVE  CleanKeys' \subseteq CleanKeys
<1>1. \A g \in Events : Failed(g) => Failed(g)'
  BY FailedStays
<1> QED  BY <1>1 DEF CleanKeys

\* A step keeps the messages that there were.
LEMMA BeforeBack ==
  ASSUME Basic, [Next]_vars, NEW i \in 1..Len(stream), NEW j \in 1..Len(stream), Before(i, j)'
  PROVE  Before(i, j)
<1>1. stream'[i] = stream[i] /\ stream'[j] = stream[j]
  BY StreamStable
<1>2. KeyOf[stream'[i]] \in CleanKeys'
  BY DEF Before
<1>3. KeyOf[stream[i]] \in CleanKeys
  BY <1>1, <1>2, CleanBack
<1> QED  BY <1>1, <1>3 DEF Before

LEMMA HandsOf ==
  ASSUME TypeOK, NEW m
  PROVE  InHands(m) <=> InBatch(m) \/ InQueue(m) \/ Held(m)
  BY DEF InHands, InBatch, InQueue, Held, Holds, QueuedMsgs

\* A delivered message of a clean key does not rest: it is in hand until it is
\* dealt with, so that no reclaim gives it again.
LEMMA CleanNotResting ==
  ASSUME Basic, Counts, NEW m \in 1..Len(stream), KeyOf[stream[m]] \in CleanKeys, Live(m), m \in pel
  PROVE  InHands(m)
<1>1. m \in Ids /\ stream[m] \in Events
  BY StreamIds DEF Basic
<1>2. count[m] > 0
  BY DEF Basic, DeliveryCountSound
<1>3. tries[stream[m]] \in Nat /\ ~(tries[stream[m]] > 0)
  BY <1>1 DEF CleanKeys, Failed, Basic, TypeOK
<1>4. PICK c, t : c = count[m] /\ t = tries[stream[m]]
  OBVIOUS
<1>5. Consistent(m, c, t) /\ c > 0 /\ ~(t > 0) /\ t \in Nat
  BY <1>2, <1>3, <1>4 DEF Counts, Attempts
<1>6. ~Resting(m)
  BY <1>5 DEF Consistent
<1> QED  BY <1>6 DEF Resting

\* Whatever is in hand was delivered.
LEMMA HandsCounted ==
  ASSUME Basic, NEW m, InBatch(m) \/ InQueue(m) \/ Held(m)
  PROVE  m \in 1..Len(stream) /\ count[m] # 0 /\ count[m] \in Nat
<1>1. \A n \in Nodes : \A d \in batch[n] : d \in Delivery /\ d.dc <= count[d.msg]
  BY HeldTypes DEF Basic, DeliveryCountSound
<1>2. \A p \in Places : \A a \in 1..Len(queue[p]) :
         queue[p][a] \in Delivery /\ queue[p][a].dc <= count[queue[p][a].msg]
  BY HeldTypes DEF Basic, DeliveryCountSound
<1>3. count \in [Ids -> Nat]
  BY DEF Basic, TypeOK
<1>4. \A d \in Delivery : d.dc <= count[d.msg] => d.msg \in Ids /\ count[d.msg] > 0
  BY <1>3 DEF Delivery
<1>5. m \in Ids /\ count[m] > 0
  BY <1>1, <1>2, <1>4, HeldPublished, WorkEvent DEF InBatch, InQueue, Held, Holds
<1> QED  BY <1>3, <1>5, HeldPublished

-----------------------------------------------------------------------------
\* Steps that hand nothing over, with or without a new message.
LEMMA OrderedFrame ==
  ASSUME Basic, OneLife, Ordered, [Next]_vars,
         UNCHANGED <<count, batch, queue, work, done>>,
         \/ stream' = stream
         \/ \E e \in Events : /\ Append1(e)
                              /\ \/ ~Published(e)
                                 \/ KeyOf[e] \notin CleanKeys
  PROVE  Ordered'
<1>1. \A m : /\ InBatch(m)' <=> InBatch(m)
             /\ InQueue(m)' <=> InQueue(m)
             /\ Held(m)' <=> Held(m)
  BY DEF InBatch, InQueue, Held, Holds
<1>2. \A i, j \in 1..Len(stream) : Before(i, j)' => Before(i, j)
  BY BeforeBack
<1>3. \A m \in 1..Len(stream) : stream'[m] = stream[m]
  BY StreamStable
<1>4. Routed'
  <2>2. \A p \in Places : \A a \in 1..Len(queue[p]) : queue[p][a].msg \in 1..Len(stream)
    BY HandsCounted DEF InQueue
  <2>3. \A p \in Places : work[p].stage # "idle" => work[p].msg \in 1..Len(stream)
    BY HandsCounted DEF Held, Holds
  <2>4. \A p \in Places : \A a \in 1..Len(queue[p]) :
          p[2] = WorkerOf[KeyOf[stream'[queue[p][a].msg]]]
    <3>1. ASSUME NEW p \in Places, NEW a \in 1..Len(queue[p]), NEW m, m = queue[p][a].msg
          PROVE  p[2] = WorkerOf[KeyOf[stream'[m]]]
      <4>1. p[2] = WorkerOf[KeyOf[stream[m]]]
        BY <3>1 DEF Ordered, Routed, Worker, EventOf
      <4>2. stream'[m] = stream[m]
        BY <1>3, <2>2, <3>1
      <4> QED  BY <4>1, <4>2
    <3> QED  BY <3>1
  <2>5. \A p \in Places : work[p].stage # "idle" =>
          p[2] = WorkerOf[KeyOf[stream'[work[p].msg]]]
    BY <1>3, <2>3 DEF Ordered, Routed, Worker, EventOf
  <2> QED  BY <2>4, <2>5 DEF Routed, Worker, EventOf
<1>5. ASSUME NEW i \in 1..Len(stream), NEW j \in 1..Len(stream), Before(i, j)'
      PROVE  Ahead(i, j)'
  <2>1. Ahead(i, j) /\ stream'[i] = stream[i] /\ stream'[j] = stream[j]
    BY <1>2, <1>3, <1>5 DEF Ordered
  <2> QED  BY <1>1, <2>1 DEF Ahead
<1>6. ASSUME NEW i \in 1..Len(stream), NEW j \in 1..Len(stream),
             KeyOf[stream[i]] \in CleanKeys', stream[i] = stream[j]
      PROVE  i = j
  BY <1>6, CleanBack DEF Ordered, Single
<1>7. CASE stream' = stream
  <2>1. Single'
    BY <1>6, <1>7 DEF Single
  <2> QED  BY <1>4, <1>5, <1>7, <2>1 DEF Ordered
<1>8. ASSUME NEW e \in Events, Append1(e), ~Published(e) \/ KeyOf[e] \notin CleanKeys
      PROVE  Ordered'
  <2>1. PICK l : l = Len(stream) + 1
    OBVIOUS
  <2>2. /\ stream'[l] = e /\ Len(stream) \in Nat /\ l \notin 1..Len(stream)
        /\ \A m \in 1..Len(stream') : m \in 1..Len(stream) \/ m = l
    BY <1>8, <2>1, AppendLast
  <2>3. ~(KeyOf[e] \in CleanKeys' /\ Published(e))
    BY <1>8, CleanBack
  <2>4. ASSUME NEW i \in 1..Len(stream), KeyOf[stream'[i]] \in CleanKeys' \/ KeyOf[e] \in CleanKeys'
        PROVE  stream'[i] # e
    <3>1. Published(stream[i])
      BY DEF Published, EventOf
    <3> QED  BY <1>3, <2>3, <2>4, <3>1
  <2>5. Single'
    <3>1. ASSUME NEW i \in 1..Len(stream'), NEW j \in 1..Len(stream'),
                 KeyOf[stream'[i]] \in CleanKeys', stream'[i] = stream'[j]
          PROVE  i = j
      <4>1. CASE i \in 1..Len(stream) /\ j \in 1..Len(stream)
        BY <1>3, <1>6, <3>1, <4>1
      <4>2. CASE i \in 1..Len(stream) /\ j = l
        BY <2>2, <2>4, <3>1, <4>2
      <4>3. CASE i = l /\ j \in 1..Len(stream)
        <5>1. KeyOf[e] \in CleanKeys' /\ stream'[j] = e
          BY <2>2, <3>1, <4>3
        <5> QED  BY <2>4, <4>3, <5>1
      <4>4. CASE i = l /\ j = l
        BY <4>4
      <4> QED  BY <2>2, <4>1, <4>2, <4>3, <4>4
    <3> QED  BY <3>1 DEF Single
  <2>6. ASSUME NEW i \in 1..Len(stream'), NEW j \in 1..Len(stream'), Before(i, j)'
        PROVE  Ahead(i, j)'
    <3>1. CASE i \in 1..Len(stream) /\ j \in 1..Len(stream)
      BY <1>5, <2>6, <3>1
    <3>2. CASE i = l
      <4>1. j \in Nat /\ i < j
        BY <2>6 DEF Before
      <4> QED  BY <2>1, <2>2, <3>2, <4>1
    <3>3. CASE i \in 1..Len(stream) /\ j = l
      <4>1. ~InBatch(l) /\ ~InQueue(l) /\ ~Held(l)
        BY <2>2, HandsCounted
      <4>2. count[l] = 0
        <5>1. l \in Ids
          <6>1. Len(stream') = l /\ Len(stream') <= MaxMsgs
            BY <1>8, <2>1, AppendLast
          <6> QED  BY <2>1, <2>2, <6>1, ConstantsAssumption DEF Ids
        <5>2. ~(count[l] > 0)
          BY <2>2, <5>1, HeldPublished
        <5>3. count[l] \in Nat
          BY <5>1 DEF Basic, TypeOK
        <5> QED  BY <5>2, <5>3
      <4>3. e \notin done
        <5>1. KeyOf[e] \in CleanKeys'
          BY <2>2, <2>6, <3>3 DEF Before
        <5>2. ~Published(e)
          BY <2>3, <5>1
        <5> QED  BY <5>2 DEF OneLife, NewUntouched
      <4>4. /\ \A p \in Places : \A a \in 1..Len(queue[p]) : queue[p][a].msg # l
            /\ ~InQueue(l)' /\ ~Held(l)'
        BY <1>1, <4>1 DEF InQueue
      <4>5. stream'[l] \notin done'
        BY <2>2, <4>3
      <4> QED  BY <3>3, <4>2, <4>4, <4>5 DEF Ahead
    <3> QED  BY <2>2, <3>1, <3>2, <3>3
  <2> QED  BY <1>4, <2>5, <2>6 DEF Ordered
<1> QED  BY <1>7, <1>8

\* XREADGROUP gives the oldest messages of a stream first.
LEMMA ReadsInOrder ==
  ASSUME Basic, NEW i \in 1..Len(stream), NEW j \in 1..Len(stream), Before(i, j), j \in NewMessages,
         count[i] = 0
  PROVE  i \in NewMessages
<1>1. PICK s \in Streams :
        /\ j \in Undelivered(s)
        /\ Cardinality({k \in Undelivered(s) : k < j}) < ReadCount
  BY DEF NewMessages
<1>2. i \in Undelivered(s)
  BY <1>1 DEF Undelivered, Before, EventOf
<1> DEFINE I == {k \in Undelivered(s) : k < i}
           J == {k \in Undelivered(s) : k < j}
<1>3. Len(stream) \in Nat
  BY StreamIds DEF Basic
<1>4. IsFiniteSet(J)
  <2>1. IsFiniteSet(1..Len(stream))
    BY <1>3, FS_Interval
  <2>2. J \in SUBSET (1..Len(stream))
    BY DEF Undelivered
  <2> QED  BY <2>1, <2>2, FS_Subset
<1>5. I \in SUBSET J
  BY <1>3 DEF Before, Undelivered
<1>6. IsFiniteSet(I) /\ Cardinality(I) <= Cardinality(J)
  BY <1>4, <1>5, FS_Subset
<1>7. Cardinality(I) \in Nat /\ Cardinality(J) \in Nat
  BY <1>4, <1>6, FS_CardinalityType
<1>8. Cardinality(I) < ReadCount
  <2>1. Cardinality(J) < ReadCount
    BY <1>1
  <2>2. ReadCount \in Nat
    BY ConstantsAssumption
  <2> HIDE DEF I, J
  <2> QED  BY <1>6, <1>7, <2>1, <2>2
<1>9. i \in {m \in Undelivered(s) : Cardinality({k \in Undelivered(s) : k < m}) < ReadCount}
  BY <1>2, <1>8
<1> QED  BY <1>9 DEF NewMessages

\* What a step that keeps the stream must show.
LEMMA OrderedByPairs ==
  ASSUME Basic, Ordered, [Next]_vars, stream' = stream, Routed',
         \A i, j \in 1..Len(stream) : Before(i, j) /\ Ahead(i, j) => Ahead(i, j)'
  PROVE  Ordered'
<1>1. Single'
  BY CleanBack DEF Ordered, Single
<1>2. \A i, j \in 1..Len(stream) : Before(i, j)' => Before(i, j)
  BY BeforeBack
<1> QED  BY <1>1, <1>2 DEF Ordered

LEMMA OrderedRead ==
  ASSUME Basic, Ordered, [Next]_vars, NEW n \in Nodes, ReadGroup(n)
  PROVE  Ordered'
<1>0. batch \in [Nodes -> SUBSET Delivery] /\ count \in [Ids -> Nat]
  BY DEF Basic, TypeOK
<1>1. /\ batch' = [batch EXCEPT ![n] = {[msg |-> m, dc |-> 1] : m \in NewMessages}]
      /\ count' = [m \in Ids |-> IF m \in NewMessages THEN 1 ELSE count[m]]
      /\ UNCHANGED <<stream, queue, work, done>>
  BY DEF ReadGroup, dispatchVars, ghostVars
<1>2. Routed'
  BY <1>1 DEF Ordered, Routed, Worker, EventOf
<1>3. ASSUME NEW i \in 1..Len(stream), NEW j \in 1..Len(stream), Before(i, j), Ahead(i, j)
      PROVE  Ahead(i, j)'
  <2>1. i \in Ids /\ j \in Ids
    BY StreamIds DEF Basic
  <2>2. /\ InQueue(i)' <=> InQueue(i)
        /\ InQueue(j)' <=> InQueue(j)
        /\ Held(j)' <=> Held(j)
    BY <1>1 DEF InQueue, Held, Holds
  <2>3. count'[j] # 0 => count'[i] # 0
    BY <1>0, <1>1, <1>3, <2>1, ReadsInOrder DEF Ahead
  <2>4. InBatch(i)' => InBatch(i) \/ i \in NewMessages
    BY <1>0, <1>1 DEF InBatch
  <2>5. InQueue(j) \/ Held(j) => i \notin NewMessages
    <3>1. i \in NewMessages => count[i] = 0
      BY NewMessagesFresh
    <3>2. InQueue(j) \/ Held(j) => count[j] # 0
      BY HandsCounted
    <3> QED  BY <1>3, <3>1, <3>2 DEF Ahead
  <2> QED  BY <1>1, <1>3, <2>2, <2>3, <2>4, <2>5 DEF Ahead
<1> QED  BY <1>1, <1>2, <1>3, OrderedByPairs

LEMMA OrderedSubmit ==
  ASSUME Basic, Ordered, [Next]_vars, \A k, l \in Nodes : k = l, NEW n \in Nodes, Submit(n)
  PROVE  Ordered'
<1>0. /\ batch \in [Nodes -> SUBSET Delivery] /\ queue \in [Places -> Seq(Delivery)]
  BY DEF Basic, TypeOK
<1>1. PICK d \in batch[n] :
        LET p == <<n, Worker(d.msg)>> IN
        /\ \A d2 \in batch[n] : Precedes(d.msg, d2.msg)
        /\ queue' = [queue EXCEPT ![p] = Append(@, d)]
        /\ batch' = [batch EXCEPT ![n] = @ \ {d}]
        /\ UNCHANGED <<stream, count, work, done>>
  BY DEF Submit, redisVars, ghostVars
<1>2. PICK p : p = <<n, Worker(d.msg)>>
  OBVIOUS
<1>3. /\ queue' = [queue EXCEPT ![p] = Append(queue[p], d)]
      /\ batch' = [batch EXCEPT ![n] = batch[n] \ {d}]
      /\ UNCHANGED <<stream, count, work, done>>
      /\ \A x \in batch[n] : Precedes(d.msg, x.msg)
  BY <1>1, <1>2
<1>4. p \in Places /\ d \in Delivery
  BY <1>0, <1>2, SubmitPlace
<1>5. \A q \in Places : q # p => queue'[q] = queue[q]
  BY <1>0, <1>3
<1>6. PICK l : l = Len(queue[p]) + 1
  OBVIOUS
<1>7. /\ l \in Nat /\ Len(queue[p]) \in Nat /\ Len(queue'[p]) = l
      /\ queue'[p][l] = d
      /\ \A a \in 1..Len(queue[p]) : queue'[p][a] = queue[p][a] /\ a < l
      /\ \A a \in 1..Len(queue'[p]) : a \in 1..Len(queue[p]) \/ a = l
  <2>1. queue'[p] = Append(queue[p], d) /\ queue[p] \in Seq(Delivery)
    BY <1>0, <1>3, <1>4
  <2> QED  BY <1>4, <1>6, <2>1, QueueAppend
<1>8. ASSUME NEW q \in Places, NEW a \in 1..Len(queue'[q])
      PROVE  \/ a \in 1..Len(queue[q]) /\ queue'[q][a] = queue[q][a]
             \/ q = p /\ a = l /\ queue'[q][a] = d
  BY <1>5, <1>7
<1>9. Routed'
  <2>1. ASSUME NEW q \in Places, NEW a \in 1..Len(queue'[q]), NEW x, x = queue'[q][a]
        PROVE  q[2] = Worker(x.msg)
    <3>1. CASE a \in 1..Len(queue[q]) /\ x = queue[q][a]
      BY <3>1 DEF Ordered, Routed
    <3>2. CASE q = p /\ x = d
      BY <1>2, <3>2
    <3> QED  BY <1>8, <2>1, <3>1, <3>2
  <2>2. \A q \in Places : \A a \in 1..Len(queue'[q]) :
          q[2] = WorkerOf[KeyOf[stream'[queue'[q][a].msg]]]
    <3> SUFFICES ASSUME NEW q \in Places, NEW a \in 1..Len(queue'[q])
                 PROVE  q[2] = WorkerOf[KeyOf[stream'[queue'[q][a].msg]]]
      OBVIOUS
    <3>1. PICK x : x = queue'[q][a]
      OBVIOUS
    <3>2. q[2] = Worker(x.msg)
      BY <2>1, <3>1
    <3> QED  BY <1>3, <3>1, <3>2 DEF Worker, EventOf
  <2> QED  BY <1>3, <2>2 DEF Ordered, Routed, Worker, EventOf
<1>10. ASSUME NEW i \in 1..Len(stream), NEW j \in 1..Len(stream), Before(i, j), Ahead(i, j)
       PROVE  Ahead(i, j)'
  <2>1. Held(j)' <=> Held(j)
    BY <1>3 DEF Held, Holds
  <2>2. InBatch(i)' => InBatch(i)
    BY <1>0, <1>3 DEF InBatch
  <2>3. \A m : InQueue(m)' => InQueue(m) \/ m = d.msg
    BY <1>8 DEF InQueue
  <2>4. InBatch(d.msg)
    BY <1>1 DEF InBatch
  <2>5. j = d.msg => ~InBatch(i)'
    <3>1. ASSUME j = d.msg, NEW m \in Nodes, NEW x \in batch'[m], x.msg = i
          PROVE  FALSE
      <4>1. x \in batch[n]
        BY <1>0, <1>3, <3>1
      <4>2. Precedes(j, i)
        BY <1>3, <3>1, <4>1
      <4>3. j <= i \/ StreamRank[StreamOf[stream[j]]] < StreamRank[StreamOf[stream[i]]]
        BY <4>2 DEF Precedes, EventOf
      <4>4. StreamRank[StreamOf[stream[j]]] = StreamRank[StreamOf[stream[i]]]
            /\ StreamRank[StreamOf[stream[i]]] \in Nat
        <5>1. stream[i] \in Events
          BY StreamIds DEF Basic
        <5> QED  BY <1>10, <5>1, ConstantsAssumption DEF Before
      <4> QED  BY <1>10, <4>3, <4>4 DEF Before
    <3> QED  BY <3>1 DEF InBatch
  <2>6. InQueue(j)' \/ Held(j)' => ~InBatch(i)'
    BY <1>10, <2>1, <2>2, <2>3, <2>5 DEF Ahead
  <2>7. Held(j)' => ~InQueue(i)'
    BY <1>10, <2>1, <2>3, <2>4 DEF Ahead
  <2>8. ASSUME NEW q \in Places, NEW a \in 1..Len(queue'[q]), NEW b \in 1..Len(queue'[q]),
               queue'[q][a].msg = i, queue'[q][b].msg = j
        PROVE  a < b
    <3>1. CASE a \in 1..Len(queue[q]) /\ queue'[q][a] = queue[q][a]
      <4>1. CASE b \in 1..Len(queue[q]) /\ queue'[q][b] = queue[q][b]
        BY <1>10, <2>8, <3>1, <4>1 DEF Ahead
      <4>2. CASE q = p /\ b = l
        BY <1>7, <3>1, <4>2
      <4> QED  BY <1>8, <4>1, <4>2
    <3>2. CASE q = p /\ a = l /\ queue'[q][a] = d
      <4>1. CASE b \in 1..Len(queue[q]) /\ queue'[q][b] = queue[q][b]
        <5>1. InQueue(j)
          BY <2>8, <4>1 DEF InQueue
        <5>2. InBatch(i)
          BY <2>4, <2>8, <3>2
        <5> QED  BY <1>10, <5>1, <5>2 DEF Ahead
      <4>2. CASE b = l
        <5>1. i = j /\ i < j /\ i \in Nat
          BY <1>10, <2>8, <3>2, <4>2 DEF Before
        <5> QED  BY <5>1
      <4> QED  BY <1>8, <4>1, <4>2
    <3> QED  BY <1>8, <3>1, <3>2
  <2>9. stream'[j] \in done' => stream'[i] \in done'
    BY <1>3, <1>10 DEF Ahead
  <2>10. count'[j] # 0 => count'[i] # 0
    BY <1>3, <1>10 DEF Ahead
  <2> QED  BY <2>6, <2>7, <2>8, <2>9, <2>10 DEF Ahead
<1> QED  BY <1>3, <1>9, <1>10, OrderedByPairs

\* A reclaim finds no message of a clean key.
LEMMA OrderedClaim ==
  ASSUME Basic, Counts, Ordered, [Next]_vars, ~Spend("slow", MaxSlow), NEW n \in Nodes, XClaim(n)
  PROVE  Ordered'
<1>0. batch \in [Nodes -> SUBSET Delivery] /\ todo \in [Nodes -> SUBSET Delivery]
      /\ count \in [Ids -> Nat]
  BY DEF Basic, TypeOK
<1>1. PICK d \in todo[n] :
        IF d.msg \in pel /\ IdleEnough(d.msg)
        THEN /\ count' = [count EXCEPT ![d.msg] = @ + 1]
             /\ batch' = [batch EXCEPT ![n] = {[msg |-> d.msg, dc |-> d.dc + 1]}]
             /\ IF InHands(d.msg) THEN Spend("slow", MaxSlow) ELSE UNCHANGED faults
        ELSE UNCHANGED <<count, batch, faults>>
  BY DEF XClaim
<1>2. UNCHANGED <<stream, queue, work, done>>
  BY DEF XClaim, dispatchVars, ghostVars
<1>3. Routed'
  BY <1>2 DEF Ordered, Routed, Worker, EventOf
<1>4. \A m : (InQueue(m)' <=> InQueue(m)) /\ (Held(m)' <=> Held(m))
  BY <1>2 DEF InQueue, Held, Holds
<1>5. CASE ~(d.msg \in pel /\ IdleEnough(d.msg))
  <2>1. UNCHANGED <<count, batch>>
    BY <1>1, <1>5
  <2>2. \A m : InBatch(m)' <=> InBatch(m)
    BY <2>1 DEF InBatch
  <2>3. \A i, j \in 1..Len(stream) : Ahead(i, j) => Ahead(i, j)'
    BY <1>2, <1>4, <2>1, <2>2 DEF Ahead
  <2> QED  BY <1>2, <1>3, <2>3, OrderedByPairs
<1>6. CASE d.msg \in pel /\ IdleEnough(d.msg)
  <2>1. /\ count' = [count EXCEPT ![d.msg] = count[d.msg] + 1]
        /\ batch' = [batch EXCEPT ![n] = {[msg |-> d.msg, dc |-> d.dc + 1]}]
        /\ ~InHands(d.msg)
    BY <1>1, <1>6
  <2>2. PICK m : m = d.msg
    OBVIOUS
  <2>3. m \in Ids /\ m \in 1..Len(stream) /\ count[m] > 0
    <3>1. m \in Ids /\ count[m] > 0
      BY <1>6, <2>2 DEF Basic, TypeOK, DeliveryCountSound
    <3> QED  BY <3>1, HeldPublished
  <2>4. Live(m)
    BY <1>6, <2>1, <2>2 DEF Live, Outstanding, InHands, At
  <2>5. KeyOf[stream[m]] \notin CleanKeys
    BY <1>6, <2>1, <2>2, <2>3, <2>4, CleanNotResting
  <2>6. \A k \in Ids : count'[k] # 0 <=> count[k] # 0
    BY <1>0, <2>1, <2>2, <2>3
  <2>7. \A k : InBatch(k)' => InBatch(k) \/ k = m
    BY <1>0, <2>1, <2>2 DEF InBatch
  <2>8. ASSUME NEW i \in 1..Len(stream), NEW j \in 1..Len(stream), Before(i, j), Ahead(i, j)
        PROVE  Ahead(i, j)'
    <3>1. i # m
      BY <2>5, <2>8 DEF Before
    <3>2. i \in Ids /\ j \in Ids
      BY StreamIds DEF Basic
    <3> QED  BY <1>2, <1>4, <2>6, <2>7, <2>8, <3>1, <3>2 DEF Ahead
  <2> QED  BY <1>2, <1>3, <2>8, OrderedByPairs
<1> QED  BY <1>5, <1>6

LEMMA SamePlace ==
  ASSUME \A k, l \in Nodes : k = l, NEW p \in Places, NEW q \in Places, p[2] = q[2]
  PROVE  p = q
  BY DEF Places

\* A worker takes the head of its queue: nothing earlier is behind it.
LEMMA OrderedTake ==
  ASSUME Basic, Ordered, [Next]_vars, \A k, l \in Nodes : k = l, NEW p \in Places, Take(p)
  PROVE  Ordered'
<1>0. /\ queue \in [Places -> Seq(Delivery)] /\ queue[p] # <<>>
      /\ work \in [Places -> {NoWork} \cup [stage : Stages \ {"idle"}, msg : Ids, dc : Nat \ {0}]]
  BY DEF Basic, TypeOK, Take
<1>1. PICK d : d = Head(queue[p])
  OBVIOUS
<1>2. /\ work' = [work EXCEPT ![p] = [stage |-> "dedup", msg |-> d.msg, dc |-> d.dc]]
      /\ queue' = [queue EXCEPT ![p] = Tail(queue[p])]
      /\ work[p].stage = "idle"
      /\ UNCHANGED <<stream, count, batch, done>>
  BY <1>1 DEF Take, At, redisVars, readerVars, ghostVars
<1>3. /\ d = queue[p][1] /\ 1 \in 1..Len(queue[p])
      /\ Len(queue[p]) \in Nat \ {0} /\ Len(Tail(queue[p])) = Len(queue[p]) - 1
      /\ \A a \in 1..Len(Tail(queue[p])) : Tail(queue[p])[a] = queue[p][a + 1]
  <2>1. queue[p] \in Seq(Delivery)
    BY <1>0
  <2> QED  BY <1>0, <1>1, <2>1, QueueTail
<1>4. /\ work'[p] = [stage |-> "dedup", msg |-> d.msg, dc |-> d.dc]
      /\ queue'[p] = Tail(queue[p])
      /\ \A q \in Places : q # p => work'[q] = work[q] /\ queue'[q] = queue[q]
  BY <1>0, <1>2
<1>5. ASSUME NEW a \in 1..Len(queue'[p])
      PROVE  /\ a + 1 \in 1..Len(queue[p]) /\ a \in Nat /\ 1 < a + 1
             /\ queue'[p][a] = queue[p][a + 1]
  <2>1. a \in 1..(Len(queue[p]) - 1) /\ Tail(queue[p])[a] = queue[p][a + 1]
    BY <1>3, <1>4
  <2> QED  BY <1>3, <1>4, <2>1
<1>6. \A m : Held(m)' => Held(m) \/ m = d.msg
  BY <1>4 DEF Held, Holds
<1>7. InQueue(d.msg) /\ p[2] = Worker(d.msg)
  BY <1>3 DEF InQueue, Ordered, Routed
<1>8. \A m : InQueue(m)' => InQueue(m)
  <2>1. ASSUME NEW m, NEW q \in Places, NEW a \in 1..Len(queue'[q]), queue'[q][a].msg = m
        PROVE  InQueue(m)
    <3>1. CASE q = p
      <4>1. a \in 1..Len(queue'[p])
        BY <3>1
      <4> QED  BY <1>5, <2>1, <3>1, <4>1 DEF InQueue
    <3>2. CASE q # p
      <4>1. queue'[q] = queue[q]
        BY <1>4, <3>2
      <4> QED  BY <2>1, <4>1 DEF InQueue
    <3> QED  BY <3>1, <3>2
  <2> QED  BY <2>1 DEF InQueue
<1>9. Routed'
  <2>1. ASSUME NEW q \in Places, NEW a \in 1..Len(queue'[q]), NEW x, x = queue'[q][a]
        PROVE  q[2] = Worker(x.msg)
    <3>1. CASE q = p
      <4>1. a \in 1..Len(queue'[p])
        BY <3>1
      <4> QED  BY <1>5, <2>1, <3>1, <4>1 DEF Ordered, Routed
    <3>2. CASE q # p
      <4>1. queue'[q] = queue[q]
        BY <1>4, <3>2
      <4> QED  BY <2>1, <4>1 DEF Ordered, Routed
    <3> QED  BY <3>1, <3>2
  <2>2. ASSUME NEW q \in Places, work'[q].stage # "idle"
        PROVE  q[2] = Worker(work'[q].msg)
    BY <1>4, <1>7, <2>2 DEF Ordered, Routed
  <2>3. \A q \in Places : \A a \in 1..Len(queue'[q]) :
          q[2] = WorkerOf[KeyOf[stream'[queue'[q][a].msg]]]
    <3> SUFFICES ASSUME NEW q \in Places, NEW a \in 1..Len(queue'[q])
                 PROVE  q[2] = WorkerOf[KeyOf[stream'[queue'[q][a].msg]]]
      OBVIOUS
    <3>1. PICK x : x = queue'[q][a]
      OBVIOUS
    <3>2. q[2] = Worker(x.msg)
      BY <2>1, <3>1
    <3> QED  BY <1>2, <3>1, <3>2 DEF Worker, EventOf
  <2>4. \A q \in Places : work'[q].stage # "idle" =>
          q[2] = WorkerOf[KeyOf[stream'[work'[q].msg]]]
    BY <1>2, <2>2 DEF Worker, EventOf
  <2> QED  BY <2>3, <2>4 DEF Routed, Worker, EventOf
<1>10. ASSUME NEW i \in 1..Len(stream), NEW j \in 1..Len(stream), Before(i, j), Ahead(i, j)
       PROVE  Ahead(i, j)'
  <2>1. InBatch(i)' <=> InBatch(i)
    BY <1>2 DEF InBatch
  <2>2. InQueue(j)' \/ Held(j)' => ~InBatch(i)'
    BY <1>6, <1>7, <1>8, <1>10, <2>1 DEF Ahead
  <2>3. ASSUME j = d.msg, InQueue(i)'
        PROVE  FALSE
    <3>1. PICK q \in Places : \E x \in 1..Len(queue'[q]) : queue'[q][x].msg = i
      BY <2>3 DEF InQueue
    <3>0. PICK a \in 1..Len(queue'[q]) : queue'[q][a].msg = i
      BY <3>1
    <3>2. Worker(i) = Worker(j)
      BY <1>10 DEF Before, Worker, EventOf
    <3>3. q[2] = Worker(i)
      BY <1>2, <1>9, <3>0 DEF Routed, Worker, EventOf
    <3>4. q = p
      BY <1>7, <2>3, <3>2, <3>3, SamePlace
    <3>5. a + 1 \in 1..Len(queue[p]) /\ queue[p][a + 1].msg = i /\ a + 1 > 1 /\ a \in Nat
      BY <1>5, <3>0, <3>4
    <3>6. a + 1 < 1
      BY <1>3, <1>10, <2>3, <3>5 DEF Ahead
    <3> QED  BY <3>5, <3>6
  <2>4. Held(j)' => ~InQueue(i)'
    BY <1>6, <1>8, <1>10, <2>3 DEF Ahead
  <2>5. ASSUME NEW q \in Places, NEW a \in 1..Len(queue'[q]), NEW b \in 1..Len(queue'[q]),
               queue'[q][a].msg = i, queue'[q][b].msg = j
        PROVE  a < b
    <3>1. CASE q = p
      <4>1. a \in 1..Len(queue'[p]) /\ b \in 1..Len(queue'[p])
        BY <3>1
      <4>2. a + 1 < b + 1
        <5>1. a + 1 \in 1..Len(queue[p]) /\ queue[p][a + 1].msg = i
          BY <1>5, <2>5, <3>1, <4>1
        <5>2. b + 1 \in 1..Len(queue[p]) /\ queue[p][b + 1].msg = j
          BY <1>5, <2>5, <3>1, <4>1
        <5> QED  BY <1>10, <5>1, <5>2 DEF Ahead
      <4>3. a \in Nat /\ b \in Nat
        BY <1>5, <4>1
      <4> QED  BY <4>2, <4>3
    <3>2. CASE q # p
      <4>1. queue'[q] = queue[q]
        BY <1>4, <3>2
      <4> QED  BY <1>10, <2>5, <4>1 DEF Ahead
    <3> QED  BY <3>1, <3>2
  <2>6. /\ stream'[j] \in done' => stream'[i] \in done'
        /\ count'[j] # 0 => count'[i] # 0
    BY <1>2, <1>10 DEF Ahead
  <2> QED  BY <2>2, <2>4, <2>5, <2>6 DEF Ahead
<1> QED  BY <1>2, <1>9, <1>10, OrderedByPairs

\* When the handler of the later event returns, the earlier one is handled.
LEMMA EarlierHandled ==
  ASSUME Basic, SafeInv, OneLife, Counts, Ordered, \A k, l \in Nodes : k = l,
         NEW p \in Places, work[p].stage = "run",
         NEW j \in 1..Len(stream), Holds(p, j), NEW i \in 1..Len(stream), Before(i, j)
  PROVE  stream[i] \in done
<1>1. Held(j) /\ j \in Ids /\ i \in Ids
  BY StreamIds DEF Held, Basic
<1>2. Ahead(i, j)
  BY DEF Ordered
<1>3. ~InBatch(i) /\ ~InQueue(i) /\ count[i] # 0
  BY <1>1, <1>2, HandsCounted DEF Ahead
<1>4. ~Held(i)
  <2>1. ASSUME NEW q \in Places, Holds(q, i)
        PROVE  FALSE
    <3>1. q[2] = Worker(i) /\ p[2] = Worker(j)
      BY <2>1 DEF Ordered, Routed, Holds
    <3>2. Worker(i) = Worker(j)
      BY DEF Before, Worker, EventOf
    <3>3. q = p
      BY <3>1, <3>2, SamePlace
    <3>4. i = j /\ i < j /\ i \in Nat
      BY <2>1, <3>3 DEF Holds, Before
    <3> QED  BY <3>4
  <2> QED  BY <2>1 DEF Held
<1>5. ~InHands(i)
  BY <1>3, <1>4, HandsOf DEF Basic
<1>6. KeyOf[stream[i]] \in CleanKeys /\ stream[i] \in Events
  BY StreamIds DEF Before, Basic
<1>7. ~Live(i)
  <2>1. Live(i) => i \in pel
    BY <1>3 DEF Live, Outstanding
  <2> QED  BY <1>5, <1>6, <2>1, CleanNotResting
<1>8. ~Dead(stream[i])
  BY <1>6 DEF CleanKeys, Failed, Dead
<1>9. ASSUME NEW k \in 1..Len(stream), stream[k] = stream[i], Live(k)
      PROVE  FALSE
  <2>1. k = i
    BY <1>6, <1>9 DEF Ordered, Single
  <2> QED  BY <1>7, <1>9, <2>1
<1>10. Kept(stream[i])
  BY DEF SafeInv, EventOf
<1> QED  BY <1>8, <1>9, <1>10 DEF Kept, EventOf

LEMMA OrderedProcess ==
  ASSUME Basic, SafeInv, OneLife, Counts, Ordered, [Next]_vars, \A k, l \in Nodes : k = l,
         NEW p \in Places, Process(p), ~Take(p)
  PROVE  Ordered'
<1> USE DEF At
<1>1. UNCHANGED <<stream, count, batch, queue>>
  BY ProcessFields, ProcessQueue
<1>2. \A q \in Places : \A m : Holds(q, m)' => Holds(q, m)
  BY WorkStep DEF Holds
<1>3. \A m : /\ InBatch(m)' <=> InBatch(m)
             /\ InQueue(m)' <=> InQueue(m)
             /\ Held(m)' => Held(m)
  BY <1>1, <1>2 DEF InBatch, InQueue, Held
<1>4. Routed'
  <2>1. ASSUME NEW q \in Places, work'[q].stage # "idle"
        PROVE  q[2] = Worker(work'[q].msg)
    <3>1. Holds(q, work'[q].msg)
      BY <1>2, <2>1 DEF Holds
    <3> QED  BY <3>1 DEF Ordered, Routed, Holds
  <2>2. \A q \in Places : work'[q].stage # "idle" =>
          q[2] = WorkerOf[KeyOf[stream'[work'[q].msg]]]
    BY <1>1, <2>1 DEF Worker, EventOf
  <2> QED  BY <1>1, <2>2 DEF Ordered, Routed, Worker, EventOf
<1>5. ASSUME NEW i \in 1..Len(stream), NEW j \in 1..Len(stream), Before(i, j), stream[j] \in done'
      PROVE  stream[j] \in done \/ stream[i] \in done
  <2>1. CASE HandlerReturns(p)
    <3>1. PICK k : k = work[p].msg
      OBVIOUS
    <3>2. work[p].stage = "run" /\ done' = done \cup {stream[k]} /\ Holds(p, k)
      BY <2>1, <3>1 DEF HandlerReturns, EventOf, Holds
    <3>3. k \in 1..Len(stream)
      BY <3>1, <3>2, WorkedLive DEF SafeInv
    <3>4. CASE stream[j] = stream[k]
      <4>1. k = j
        BY <1>5, <3>3, <3>4 DEF Ordered, Single, Before
      <4> QED  BY <1>5, <3>2, <4>1, EarlierHandled
    <3> QED  BY <1>5, <3>2, <3>4
  <2>2. CASE ~HandlerReturns(p)
    <3>1. done' = done
      BY <2>2 DEF Process, Take, SetDedup, HandlerRaises, Release, ToDlq, Ack, ghostVars
    <3> QED  BY <1>5, <3>1
  <2> QED  BY <2>1, <2>2
<1>6. done \subseteq done'
  BY DEF Process, Take, SetDedup, HandlerReturns, HandlerRaises, Release, ToDlq, Ack, ghostVars
<1>7. ASSUME NEW i \in 1..Len(stream), NEW j \in 1..Len(stream), Before(i, j), Ahead(i, j)
      PROVE  Ahead(i, j)'
  <2>1. stream'[j] \in done' => stream'[i] \in done'
    BY <1>1, <1>5, <1>6, <1>7 DEF Ahead
  <2> QED  BY <1>1, <1>3, <1>7, <2>1 DEF Ahead
<1> QED  BY <1>1, <1>4, <1>7, OrderedByPairs

LEMMA OrderedNext ==
  ASSUME Basic, SafeInv, OneLife, Counts, Ordered, Calm', [Next]_vars, \A k, l \in Nodes : k = l
  PROVE  Ordered'
<1>1. ASSUME UNCHANGED <<stream, count, batch, queue, work, done>>
      PROVE  Ordered'
  BY <1>1, OrderedFrame
<1>2. ASSUME NEW e \in Events, Publish(e)
      PROVE  Ordered'
  <2>1. Append1(e) /\ ~Published(e) /\ UNCHANGED <<count, batch, queue, work, done>>
    BY <1>2 DEF Publish, readerVars, dispatchVars, ghostVars
  <2> QED  BY <2>1, OrderedFrame
<1>3. ASSUME NEW n \in Nodes, Loop(n)
      PROVE  Ordered'
  <2>1. CASE ListPending(n) \/ EndCycle(n)
    <3>1. UNCHANGED <<stream, count, batch, queue, work, done>>
      BY <2>1 DEF ListPending, EndCycle, redisVars, dispatchVars, ghostVars
    <3> QED  BY <1>1, <3>1
  <2>2. ~Spend("slow", MaxSlow)
    BY CalmSteps
  <2> QED  BY <1>3, <2>1, <2>2, OrderedRead, OrderedSubmit, OrderedClaim DEF Loop
<1>4. ASSUME NEW n \in Nodes, Stop(n) \/ Stopped(n) \/ Start(n)
      PROVE  Ordered'
  <2>1. UNCHANGED <<stream, count, batch, queue, work, done>>
    BY <1>4 DEF Stop, Stopped, Start, redisVars, readerVars, dispatchVars, ghostVars
  <2> QED  BY <1>1, <2>1
<1>5. ASSUME NEW p \in Places, Process(p)
      PROVE  Ordered'
  BY <1>5, OrderedTake, OrderedProcess
<1>6. ASSUME NEW a \in Admins, Redrive(a)
      PROVE  Ordered'
  <2>1. CASE RedrivePublish(a)
    <3>1. PICK e : e = dlq[admin[a].entry]
      OBVIOUS
    <3>2. /\ admin[a].step = "publish" /\ Append1(e)
          /\ UNCHANGED <<count, batch, queue, work, done>>
      BY <2>1, <3>1 DEF RedrivePublish, readerVars, dispatchVars
    <3>3. Open(admin[a].entry) /\ admin[a].entry \in 1..Len(dlq)
      BY <3>2 DEF OneLife, RedriveOpen, Open
    <3>4. e \in Events
      <4>1. dlq \in Seq(Events)
        BY DEF Basic, TypeOK
      <4> QED  BY <3>1, <3>3, <4>1
    <3>5. KeyOf[e] \notin CleanKeys
      BY <3>1, <3>3, <3>4 DEF CleanKeys, Failed
    <3> QED  BY <3>2, <3>4, <3>5, OrderedFrame
  <2>2. CASE ~RedrivePublish(a)
    <3>1. UNCHANGED <<stream, count, batch, queue, work, done>>
      BY <1>6, <2>2 DEF Redrive, RedriveFind, RedriveDelDedup, RedriveXdel, redisVars, readerVars,
                        dispatchVars, ghostVars
    <3> QED  BY <1>1, <3>1
  <2> QED  BY <2>1, <2>2
<1>7. CASE UNCHANGED vars
  <2>1. UNCHANGED <<redisVars, readerVars, dispatchVars, ghostVars>>
    BY <1>7 DEF vars
  <2>2. UNCHANGED <<stream, count, batch, queue, work, done>>
    BY <2>1 DEF redisVars, readerVars, dispatchVars, ghostVars
  <2> QED  BY <1>1, <2>2
<1> QED  BY <1>2, <1>3, <1>4, <1>5, <1>6, <1>7, CalmSteps

LEMMA InitOrdered == Init => Ordered
<1> SUFFICES ASSUME Init PROVE Ordered
  OBVIOUS
<1>1. /\ Len(stream) = 0
      /\ \A p \in Places : Len(queue[p]) = 0 /\ work[p].stage = "idle"
  BY DEF Init, NoWork
<1> QED  BY <1>1 DEF Ordered, Single, Routed

LEMMA OrderKept ==
  ASSUME Basic, OneLife, Ordered
  PROVE  KeyOrder
<1> SUFFICES ASSUME NEW e \in Events, NEW f \in Events,
                    KeyOf[e] = KeyOf[f], StreamOf[e] = StreamOf[f],
                    \A g \in Events : KeyOf[g] = KeyOf[e] => ~Failed(g),
                    PublishedBefore(e, f), f \in done
             PROVE  e \in done
  BY DEF KeyOrder
<1>1. PICK i \in 1..Len(stream) : stream[i] = e /\ \A j \in 1..i : stream[j] # f
  BY DEF PublishedBefore, EventOf
<1>2. PICK j \in 1..Len(stream) : stream[j] = f
  BY DEF OneLife, NewUntouched, Published, EventOf
<1>3. i < j
  <2>1. Len(stream) \in Nat
    BY StreamIds DEF Basic
  <2>2. i \in Nat /\ j \in Nat /\ j >= 1
    BY <2>1
  <2>3. j \notin 1..i
    BY <1>1, <1>2
  <2> QED  BY <2>2, <2>3
<1>4. KeyOf[e] \in CleanKeys
  BY ConstantsAssumption DEF CleanKeys
<1>5. Before(i, j)
  BY <1>1, <1>2, <1>3, <1>4 DEF Before
<1> QED  BY <1>1, <1>2, <1>5 DEF Ordered, Ahead

\* Ordering by partition key, the port's second promise: with one process and
\* one redrive at a time, and no fault but stops, the events of a key and a
\* stream none of which failed are handled in the order of their first
\* publication (KeyOrder), whatever the interleaving of readers and workers.
THEOREM KeysInOrder ==
  ASSUME \A n, k \in Nodes : n = k, \A a, b \in Admins : a = b
  PROVE  Spec /\ []Calm => []KeyOrder
<1>1. Init => OneLife /\ Counts /\ Ordered
  BY PortInit, InitOrdered
<1>2. Inductive => Basic /\ (Calm => SafeInv)
  BY DEF Inductive, Calm, FaultKinds, Unharmed
<1>3. Inductive /\ Inductive' /\ Calm /\ Calm' /\ OneLife /\ Counts /\ Ordered /\ [Next]_vars
        => OneLife' /\ Counts' /\ Ordered'
  <2> SUFFICES ASSUME Inductive, Inductive', Calm, Calm', OneLife, Counts, Ordered, [Next]_vars
               PROVE  OneLife' /\ Counts' /\ Ordered'
    OBVIOUS
  <2>1. Basic /\ SafeInv
    BY <1>2
  <2>2. Basic'
    BY DEF Inductive
  <2> QED  BY <2>1, <2>2, OneLifeNext, CountsNext, OrderedNext
<1>4. Inductive /\ OneLife /\ Ordered => KeyOrder
  BY OrderKept DEF Inductive
<1> QED  BY <1>1, <1>3, <1>4, InductiveHolds, PTL DEF Spec
=============================================================================
