---------------------------- MODULE MCInMemoryBus ----------------------------
(***************************************************************************)
(* An instance of InMemoryBus for TLC: two consumers on one bus.  e1 goes  *)
(* to c1 alone, whose handler publishes e2 and may then fail; c2 takes     *)
(* only e2, so that a handler of c1 publishes to the other dispatcher,     *)
(* which a stop may have drained, or cancelled, before.                    *)
(***************************************************************************)
EXTENDS InMemoryBus

CONSTANTS e1, e2, c1, c2, k1, w1, w2, t1, t2

InOrder == [c \in Consumers |-> IF c = c1 THEN 1 ELSE 2]
Wanted == [c \in Consumers |-> IF c = c1 THEN {e1, e2} ELSE {e2}]
SharedKey == [e \in Events |-> k1]
ByWorker == [k \in Keys |-> w1]
\* e2 is published twice, by e1's handler or from outside.
Twice == [e \in Events |-> IF e = e2 THEN 2 ELSE 1]
\* The handler of e1 publishes e2, to its own consumer and to the other.
Nested == [x \in Consumers \X Events |-> IF x = <<c1, e1>> THEN e2 ELSE NoEvent]

\* The adapter keeps the promise of ports/event_bus.py to each consumer, through a
\* stop and a start; and what one accepted is eventually handled or dead, unless a
\* stop cancelled a worker of its queue in its work.
Port1 == INSTANCE EventBusPort WITH status <- Status(c1), attempts <- tries[c1]
Port2 == INSTANCE EventBusPort WITH status <- Status(c2), attempts <- tries[c2]
PortSpec ==
    /\ Port1!Spec /\ Port2!Spec
    /\ \A c \in Consumers : \A e \in Events :
          Status(c)[e] = "pending" ~> Status(c)[e] # "pending" \/ CutAt(Place(c, e))
=============================================================================
