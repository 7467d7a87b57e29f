----------------------------- MODULE Executions -----------------------------
(***************************************************************************)
(* Tracked executions (kernel/executions.py) of skills, the cancellation   *)
(* tokens they run under (shared/cancellation.py) and the life cycle of    *)
(* the kernel, which owns the root token (kernel/kernel.py).               *)
(*                                                                         *)
(* An execution is an asyncio task; it gives way where the code awaits: in *)
(* the handler's own I/O, in token.guard(), in the publication that ends   *)
(* SkillRegistry.execute.  Everything else of the tracker is synchronous.  *)
(***************************************************************************)
EXTENDS Naturals, Sequences, FiniteSets

CONSTANTS Exec,         \* execution ids, in the order of their creation (uuid7)
          None,         \* no parent
          Timed,        \* executions started with timeout_seconds
          Stubborn,     \* executions of skills that never look at their token
          Failing,      \* executions that may be refused or whose handler may raise
          HistorySize   \* history_size: length of the ring of records

\* Bounds: cancel and cancel_tree calls, failed publications, kernel stops.
CONSTANTS MaxCancels, MaxFailures, MaxStops

ASSUME ExecutionsAssumption ==
    /\ Exec \subseteq Nat
    /\ IsFiniteSet(Exec)
    /\ Timed \subseteq Exec
    /\ None \notin Exec
    /\ Stubborn \subseteq Exec
    /\ Failing \subseteq Exec
    /\ HistorySize \in Nat \ {0}
    /\ MaxCancels \in Nat
    /\ MaxFailures \in Nat
    /\ MaxStops \in Nat

VARIABLES
    kernel,     \* "up" | "stopping" | "down"
    root,       \* is the kernel's root token cancelled
    status,     \* [Exec -> "none" or the record's status]
    recorded,   \* [Exec -> cancel_reason of the record]
    parent,     \* [Exec -> parent_execution_id]
    history,    \* the ring of records, newest first
    reason,     \* [Exec -> reason of the execution's token, "none" if live]
    stage,      \* [Exec -> where the task is]
    result,     \* [Exec -> how execute() ends once its event is published]
    deadline,   \* [Exec -> "off" | "armed"]
    force,      \* [Exec -> tasks in _force_after_grace]
    used,       \* counters of the bounds
    asked,      \* history: running executions cancel() accepted to cancel
    swept       \* history: running executions in the branches of a cancel_tree()

recordVars == <<status, recorded, parent, history>>
taskVars == <<stage, result, deadline, force>>
vars == <<kernel, root, recordVars, reason, taskVars, used, asked, swept>>

-----------------------------------------------------------------------------
Reasons == {"none", "user", "timeout", "shutdown", "parent"}
Final == {"completed", "failed", "cancelled", "timeout"}
RangeOf(s) == {s[i] : i \in 1..Len(s)}

Init ==
    /\ kernel = "up"
    /\ root = FALSE
    /\ status = [x \in Exec |-> "none"]
    /\ recorded = [x \in Exec |-> "none"]
    /\ parent = [x \in Exec |-> None]
    /\ history = <<>>
    /\ reason = [x \in Exec |-> "none"]
    /\ stage = [x \in Exec |-> "none"]
    /\ result = [x \in Exec |-> "none"]
    /\ deadline = [x \in Exec |-> "off"]
    /\ force = [x \in Exec |-> 0]
    /\ used = [cancels |-> 0, failures |-> 0, stops |-> 0]
    /\ asked = {}
    /\ swept = {}

Running(x) == stage[x] \notin {"none", "ended"}
Cancelled(x) == reason[x] # "none"

\* Variant: the last reason wins.
SignalLast(X, why) == reason' = [x \in Exec |-> IF x \in X THEN why ELSE reason[x]]

\* CancellationToken.cancel of every token in X: the first reason wins.
Signal(X, why) ==
    reason' = [x \in Exec |-> IF x \in X /\ ~Cancelled(x) THEN why ELSE reason[x]]

\* What is reached from r by following parent_execution_id within Via: what is
\* in every set that holds r and the children in Via of its members.
Subtree(r, Via) ==
    {x \in Exec : \A S \in SUBSET Exec :
        r \in S /\ (\A y \in Via : parent[y] \in S => y \in S) => x \in S}

\* History: r, and whole every branch below it whose top the ring still holds.
Branches(r) ==
    {r} \cup UNION {Subtree(c, Exec) : c \in {y \in RangeOf(history) : parent[y] = r}}

-----------------------------------------------------------------------------
(* start_skill, rerun and the task they create.                            *)

\* A token made of a cancelled parent is born cancelled.
Born == IF root THEN "parent" ELSE "none"

\* start_skill: the record enters the ring, the token is a child of the
\* kernel's and is born cancelled if that one is.  The callers are routes of
\* the API, which is served while the kernel is up.
Start(x, p) ==
    /\ kernel = "up"
    /\ status[x] = "none"
    /\ \A y \in Exec : y < x => status[y] # "none"
    /\ p \in Exec => status[p] # "none"
    /\ status' = [status EXCEPT ![x] = "running"]
    /\ parent' = [parent EXCEPT ![x] = p]
    /\ history' = SubSeq(<<x>> \o history, 1,
                         IF Len(history) < HistorySize THEN Len(history) + 1 ELSE HistorySize)
    /\ reason' = [reason EXCEPT ![x] = Born]
    /\ stage' = [stage EXCEPT ![x] = "gate"]
    /\ deadline' = [deadline EXCEPT ![x] = IF x \in Timed THEN "armed" ELSE "off"]
    /\ UNCHANGED <<kernel, root, recorded, result, force, used, asked, swept>>

\* The end of _run: the record is marked, the deadline cancelled.
End(x, st, why) ==
    /\ status' = [status EXCEPT ![x] = st]
    /\ recorded' = [recorded EXCEPT ![x] = why]
    /\ stage' = [stage EXCEPT ![x] = "ended"]
    /\ deadline' = [deadline EXCEPT ![x] = "off"]
    /\ result' = [result EXCEPT ![x] = "none"]
    /\ asked' = asked \ {x}
    /\ swept' = swept \ {x}

\* _mark_cancelled: a timeout has a status of its own.
Marked(why) == IF why = "timeout" THEN "timeout" ELSE "cancelled"

-----------------------------------------------------------------------------
(* The handler, under SkillRegistry.execute.                               *)

\* Scopes, validation and approval are passed; none of them asks the token.
Admitted(x) ==
    /\ stage[x] = "gate"
    /\ stage' = [stage EXCEPT ![x] = "handler"]
    /\ UNCHANGED <<kernel, root, recordVars, reason, result, deadline, force, used, asked, swept>>

\* One of them raises: the execution fails, and nothing is published.
Refused(x) ==
    /\ stage[x] = "gate"
    /\ x \in Failing
    /\ End(x, "failed", "none")
    /\ UNCHANGED <<kernel, root, parent, history, reason, force, used>>

\* token.guard(...): the handler waits for something it can be cancelled in.
HandlerWaits(x) ==
    /\ stage[x] = "handler"
    /\ x \notin Stubborn
    /\ ~Cancelled(x)
    /\ stage' = [stage EXCEPT ![x] = "guarded"]
    /\ UNCHANGED <<kernel, root, recordVars, reason, result, deadline, force, used, asked, swept>>

\* What was awaited is there: it wins over a cancellation of the same moment.
GuardDone(x) ==
    /\ stage[x] = "guarded"
    /\ stage' = [stage EXCEPT ![x] = "handler"]
    /\ UNCHANGED <<kernel, root, recordVars, reason, result, deadline, force, used, asked, swept>>

\* The token was cancelled: the awaited task is aborted and waited for.
GuardCancelled(x) ==
    /\ stage[x] = "guarded"
    /\ Cancelled(x)
    /\ stage' = [stage EXCEPT ![x] = "aborting"]
    /\ UNCHANGED <<kernel, root, recordVars, reason, result, deadline, force, used, asked, swept>>

\* execute() publishes skill.executed or skill.failed before it ends.
Emit(x, r) ==
    /\ stage' = [stage EXCEPT ![x] = "emitting"]
    /\ result' = [result EXCEPT ![x] = r]
    /\ UNCHANGED <<kernel, root, recordVars, reason, deadline, force, used, asked, swept>>

GuardAborted(x) == stage[x] = "aborting" /\ Emit(x, "cancelled")

\* raise_if_cancelled, or guard() entered with a cancelled token.
HandlerChecks(x) ==
    stage[x] = "handler" /\ x \notin Stubborn /\ Cancelled(x) /\ Emit(x, "cancelled")

HandlerReturns(x) == stage[x] = "handler" /\ Emit(x, "ok")

HandlerRaises(x) == stage[x] = "handler" /\ x \in Failing /\ Emit(x, "error")

Emitted(x) ==
    /\ stage[x] = "emitting"
    /\ CASE result[x] = "ok" -> End(x, "completed", "none")
         [] result[x] = "error" -> End(x, "failed", "none")
         [] result[x] = "cancelled" -> End(x, Marked(reason[x]), reason[x])
    /\ UNCHANGED <<kernel, root, parent, history, reason, force, used>>

\* The publication raises: the execution fails, whatever the handler did.
EmitFails(x) ==
    /\ stage[x] = "emitting"
    /\ used.failures < MaxFailures
    /\ used' = [used EXCEPT !.failures = @ + 1]
    /\ End(x, "failed", "none")
    /\ UNCHANGED <<kernel, root, parent, history, reason, force>>

-----------------------------------------------------------------------------
(* Cancellation.                                                           *)

\* with_deadline: the token is cancelled, nothing else.
DeadlineFires(x) ==
    /\ deadline[x] = "armed"
    /\ deadline' = [deadline EXCEPT ![x] = "off"]
    /\ Signal({x}, "timeout")
    /\ UNCHANGED <<kernel, root, recordVars, stage, result, force, used, asked, swept>>

\* Variant: the forced cancellation is left out.
CancelPolitely(X) ==
    LET live == {x \in Exec \cap X : Running(x)} IN
    /\ Signal(live, "user")
    /\ asked' = asked \cup live
    /\ UNCHANGED force

\* cancel() of each of X that still runs: the token is signalled and a task is
\* started that will force the cancellation after the grace period.
CancelEach(X) ==
    LET live == {x \in Exec \cap X : Running(x)} IN
    /\ Signal(live, "user")
    /\ asked' = asked \cup live
    /\ force' = [x \in Exec |-> IF x \in live THEN force[x] + 1 ELSE force[x]]

Spend == /\ used.cancels < MaxCancels
         /\ used' = [used EXCEPT !.cancels = @ + 1]

Cancel(x) ==
    /\ status[x] # "none"
    /\ Spend
    /\ CancelEach({x})
    /\ UNCHANGED <<kernel, root, recordVars, stage, result, deadline, swept>>

\* Variant: the cascade stops at a root that is over already.
CancelTreeOfLiveRoot(r) ==
    /\ status[r] # "none"
    /\ Spend
    /\ CancelEach(IF Running(r) THEN Subtree(r, RangeOf(history)) ELSE {})
    /\ swept' = swept \cup {x \in Branches(r) : Running(x)}
    /\ UNCHANGED <<kernel, root, recordVars, stage, result, deadline>>

\* cancel_tree(): recursion over children_of, which looks in the ring.
CancelTree(r) ==
    /\ status[r] # "none"
    /\ Spend
    /\ CancelEach(Subtree(r, RangeOf(history)))
    /\ swept' = swept \cup {x \in Branches(r) : Running(x)}
    /\ UNCHANGED <<kernel, root, recordVars, stage, result, deadline>>

\* Variant: the task is cancelled without asking whether it is over.
ForceFiresLate(x) ==
    /\ force[x] > 0
    /\ force' = [force EXCEPT ![x] = @ - 1]
    /\ End(x, Marked(reason[x]), reason[x])
    /\ UNCHANGED <<kernel, root, parent, history, reason, used>>

\* The grace period is over and the task is not: task.cancel() interrupts what
\* it awaits.  In guard()'s wait for the aborted task the interruption is
\* suppressed, and guard() raises as it was about to.
ForceFires(x) ==
    /\ force[x] > 0
    /\ Running(x)
    /\ force' = [force EXCEPT ![x] = @ - 1]
    /\ IF stage[x] = "aborting"
       THEN /\ stage' = [stage EXCEPT ![x] = "emitting"]
            /\ result' = [result EXCEPT ![x] = "cancelled"]
            /\ UNCHANGED <<status, recorded, deadline, asked, swept>>
       ELSE End(x, Marked(reason[x]), reason[x])
    /\ UNCHANGED <<kernel, root, parent, history, reason, used>>

\* The task ended within the grace period.
ForceSpared(x) ==
    /\ force[x] > 0
    /\ stage[x] = "ended"
    /\ force' = [force EXCEPT ![x] = @ - 1]
    /\ UNCHANGED <<kernel, root, recordVars, reason, stage, result, deadline, used, asked, swept>>

-----------------------------------------------------------------------------
(* The kernel: stop() cancels the root token, and with it every token that *)
(* was ever made its child; start() does not make a new one.               *)

KernelStop ==
    /\ kernel = "up"
    /\ used.stops < MaxStops
    /\ used' = [used EXCEPT !.stops = @ + 1]
    /\ kernel' = "stopping"
    /\ root' = TRUE
    /\ IF root THEN UNCHANGED reason ELSE Signal({x \in Exec : status[x] # "none"}, "parent")
    /\ UNCHANGED <<recordVars, taskVars, asked, swept>>

\* Modules and bus are stopped; nothing waits for the executions.
KernelStopped ==
    /\ kernel = "stopping"
    /\ kernel' = "down"
    /\ UNCHANGED <<root, recordVars, reason, taskVars, used, asked, swept>>

KernelStart ==
    /\ kernel = "down"
    /\ kernel' = "up"
    /\ UNCHANGED <<root, recordVars, reason, taskVars, used, asked, swept>>

-----------------------------------------------------------------------------
Handler(x) ==
    \/ Admitted(x) \/ Refused(x)
    \/ HandlerChecks(x) \/ HandlerReturns(x) \/ HandlerRaises(x)
    \/ GuardCancelled(x) \/ GuardAborted(x) \/ Emitted(x)

Next ==
    \/ \E x \in Exec :
         \/ \E p \in Exec \cup {None} : Start(x, p)
         \/ Handler(x) \/ HandlerWaits(x) \/ GuardDone(x) \/ EmitFails(x)
         \/ DeadlineFires(x) \/ Cancel(x) \/ CancelTree(x)
         \/ ForceFires(x) \/ ForceSpared(x)
    \/ KernelStop \/ KernelStopped \/ KernelStart

Spec == Init /\ [][Next]_vars

\* The event loop runs every task that can run and every timer that is due.
\* A handler that looks at its token goes on until it returns, raises or finds
\* the token cancelled; a stubborn one may never return.
Fairness ==
    \A x \in Exec :
        /\ WF_vars(Emitted(x)) /\ WF_vars(GuardAborted(x)) /\ WF_vars(GuardCancelled(x))
        /\ WF_vars(x \notin Stubborn /\ Handler(x))
        /\ WF_vars(ForceFires(x)) /\ WF_vars(ForceSpared(x))

FairSpec == Spec /\ Fairness

-----------------------------------------------------------------------------
(* Properties.                                                             *)

TypeOK ==
    /\ kernel \in {"up", "stopping", "down"}
    /\ root \in BOOLEAN
    /\ status \in [Exec -> {"none", "running"} \cup Final]
    /\ recorded \in [Exec -> Reasons]
    /\ parent \in [Exec -> Exec \cup {None}]
    /\ history \in Seq(Exec)
    /\ Len(history) <= HistorySize
    /\ reason \in [Exec -> Reasons]
    /\ stage \in [Exec -> {"none", "gate", "handler", "guarded", "aborting", "emitting", "ended"}]
    /\ result \in [Exec -> {"none", "ok", "error", "cancelled"}]
    /\ deadline \in [Exec -> {"off", "armed"}]
    /\ force \in [Exec -> Nat]
    /\ used \in [cancels : Nat, failures : Nat, stops : Nat]
    /\ asked \subseteq Exec
    /\ swept \subseteq Exec

\* A record ends once: whatever cancels, forces or times out an execution
\* that is over changes neither its status nor the reason it gives.
EndsOnce ==
    [][\A x \in Exec : status[x] \in Final =>
         status'[x] = status[x] /\ recorded'[x] = recorded[x]]_vars

\* The status and the reason a record gives are those of the first signal
\* the token received: a timeout is told apart from everything else, and an
\* execution nobody signalled is never reported as interrupted.
ReasonExplains ==
    \A x \in Exec :
        /\ status[x] = "timeout" <=> recorded[x] = "timeout"
        /\ status[x] \in {"cancelled", "timeout"} =>
             /\ recorded[x] = reason[x]
             /\ recorded[x] # "none"

\* No execution escapes the shutdown signal, be it started before the stop or
\* by a kernel that was started again.
ShutdownReaches ==
    root => \A x \in Exec : Running(x) => Cancelled(x)

\* cancel_tree() reaches every branch of the tree to its leaves or not at all:
\* if the ring still holds a child of the root it holds what descends from it,
\* for the ring forgets the oldest first and a child is younger than its parent.
\* Members that are over stop nothing, nor does a root the ring forgot.  A branch
\* whose top it forgot is not found, though its executions may still run.
CancelTreeReaches == \A x \in swept : Cancelled(x)

\* "Cancel" is a guarantee: an execution that cancel() accepted ends even if
\* the skill never looks at its token, and a signalled one that looks, ends.
EventuallyEnds ==
    \A x \in Exec :
        (x \in asked \/ (x \notin Stubborn /\ Cancelled(x))) ~> stage[x] = "ended"
=============================================================================
