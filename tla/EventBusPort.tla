---------------------------- MODULE EventBusPort ----------------------------
(***************************************************************************)
(* What ports/event_bus.py promises to one consumer, whatever the adapter: *)
(* every published event is handed to the handler until it returns, at     *)
(* most max_attempts times; then it is dead; a redrive starts it afresh.   *)
(***************************************************************************)
EXTENDS Naturals

CONSTANTS Events, MaxAttempts

VARIABLES status,    \* [Events -> "new" | "pending" | "done" | "dead"]
          attempts   \* failures of the handler since the last (re)publication

vars == <<status, attempts>>

Init ==
    /\ status = [e \in Events |-> "new"]
    /\ attempts = [e \in Events |-> 0]

\* publish()
Publish(e) ==
    /\ status[e] = "new"
    /\ status' = [status EXCEPT ![e] = "pending"]
    /\ UNCHANGED attempts

\* The handler returned.
Handled(e) ==
    /\ status[e] = "pending"
    /\ attempts[e] < MaxAttempts
    /\ status' = [status EXCEPT ![e] = "done"]
    /\ UNCHANGED attempts

\* The handler raised; the event will be delivered again or given up.
Raised(e) ==
    /\ status[e] = "pending"
    /\ attempts[e] < MaxAttempts
    /\ attempts' = [attempts EXCEPT ![e] = @ + 1]
    /\ UNCHANGED status

DeadLettered(e) ==
    /\ status[e] = "pending"
    /\ attempts[e] = MaxAttempts
    /\ status' = [status EXCEPT ![e] = "dead"]
    /\ UNCHANGED attempts

\* redrive()
Redriven(e) ==
    /\ status[e] = "dead"
    /\ status' = [status EXCEPT ![e] = "pending"]
    /\ attempts' = [attempts EXCEPT ![e] = 0]

Deliver(e) == Handled(e) \/ Raised(e) \/ DeadLettered(e)

Next == \E e \in Events : Publish(e) \/ Deliver(e) \/ Redriven(e)

Spec == Init /\ [][Next]_vars

FairSpec == Spec /\ \A e \in Events : WF_vars(Deliver(e))
=============================================================================
