------------------------------ MODULE Approvals ------------------------------
(***************************************************************************)
(* Human in the loop: SkillRegistry.execute with its scopes, its approval  *)
(* gate and its events (kernel/skill_registry.py), the policy that turns a *)
(* request above the automatic limit into a pending ticket                 *)
(* (kernel/approval.py), the learning loop that proposes tickets of its    *)
(* own (kernel/learning.py), the routes and the service that decide them   *)
(* (api/approvals.py, kernel/approval_service.py), and the two stores      *)
(* (adapters/approvals).                                                   *)
(*                                                                         *)
(* A process is a call, or a request to decide a ticket; it gives way      *)
(* where the code awaits.  A call makes at most one ticket, so tickets are *)
(* named after their calls.                                                *)
(***************************************************************************)
EXTENDS Naturals, FiniteSets

CONSTANTS Requests,     \* calls of SkillRegistry.execute
          Proposals,    \* calls of PlaybookProposer.propose
          Decisions,    \* requests to /approve or /reject, in order of arrival
          Users,
          Nobody,
          Owner,        \* [call -> user_id of its context, or Nobody]
          Title,        \* [call -> title of the playbook it would write]
          Gated         \* calls whose risk is above the automatic limit

\* Bounds: failed publications or transactions, restarts of the process.
CONSTANTS MaxFailures, MaxRestarts

Calls == Requests \cup Proposals

ASSUME ApprovalsAssumption ==
    /\ Requests \cap Proposals = {}
    /\ Decisions \subseteq Nat
    /\ Calls \cap Decisions = {}
    /\ Nobody \notin Calls \cup Users
    /\ Owner \in [Calls -> Users \cup {Nobody}]
    /\ Gated \subseteq Calls
    /\ Proposals \subseteq Gated
    /\ \A c \in Proposals : Owner[c] # Nobody
    /\ MaxFailures \in Nat
    /\ MaxRestarts \in Nat

VARIABLES
    durable,    \* the store is Postgres, not the one in memory
    granted,    \* does the PermissionPort allow the scopes
    ticket,     \* [Calls -> state of the ticket of the call]
    written,    \* calls whose handler wrote its playbook
    trail,      \* [Calls -> history: decisions published about its ticket]
    pc,         \* [process -> where it waits]
    task,       \* [Decisions -> ticket, user and verdict of the request]
    runs,       \* history: [Calls -> times the handler was entered]
    said,       \* history: [Calls -> decisions the store accepted]
    used        \* counters of the bounds

approvalsVars == <<durable, granted, ticket, written, trail, pc, task, runs, said, used>>

-----------------------------------------------------------------------------
Procs == Calls \cup Decisions
Verdicts == {"approved", "rejected"}
Task == [call : Calls, user : Users, verdict : Verdicts]
NoTask == [call |-> Nobody, user |-> Nobody, verdict |-> "none"]

About(p) == IF p \in Decisions THEN task[p].call ELSE p
Yes(c) == [user |-> Owner[c], verdict |-> "approved"]

ApprovalsInit ==
    /\ durable \in BOOLEAN
    /\ granted \in BOOLEAN
    /\ ticket = [c \in Calls |-> "none"]
    /\ written = {}
    /\ trail = [c \in Calls |-> {}]
    /\ pc = [p \in Procs |-> "idle"]
    /\ task = [d \in Decisions |-> NoTask]
    /\ runs = [c \in Calls |-> 0]
    /\ said = [c \in Calls |-> {}]
    /\ used = [failures |-> 0, restarts |-> 0]

\* A decision that is over forgets what it was about.
GoTo(p, label) ==
    /\ pc' = [pc EXCEPT ![p] = label]
    /\ task' = IF p \in Decisions /\ label = "over" THEN [task EXCEPT ![p] = NoTask] ELSE task

Fail == /\ used.failures < MaxFailures
        /\ used' = [used EXCEPT !.failures = @ + 1]

-----------------------------------------------------------------------------
(* A request, and a proposal up to its ticket.                             *)

CallSkill(c) ==
    /\ pc[c] = "idle"
    /\ c \in Requests
    /\ GoTo(c, "scopes")
    /\ UNCHANGED <<durable, granted, ticket, written, trail, runs, said, used>>

\* _ja_conhecido, first half: a playbook of this title exists.
ProposePlaybook(c) ==
    /\ pc[c] = "idle"
    /\ c \in Proposals
    /\ GoTo(c, IF \E w \in written : Title[w] = Title[c] /\ Owner[w] = Owner[c]
               THEN "over" ELSE "listing")
    /\ UNCHANGED <<durable, granted, ticket, written, trail, runs, said, used>>

\* _ja_conhecido, second half: a ticket of this title is pending.
SeePending(c) ==
    /\ pc[c] = "listing"
    /\ GoTo(c, IF \E w \in Gated : /\ ticket[w] = "pending"
                                   /\ Title[w] = Title[c]
                                   /\ Owner[w] = Owner[c]
               THEN "over" ELSE "ticketing")
    /\ UNCHANGED <<durable, granted, ticket, written, trail, runs, said, used>>

\* store.add: the ticket is born pending.
AddTicket(c) ==
    /\ c \in Calls
    /\ pc[c] = "ticketing"
    /\ ticket' = [ticket EXCEPT ![c] = "pending"]
    /\ GoTo(c, "announcing")
    /\ UNCHANGED <<durable, granted, written, trail, runs, said, used>>

-----------------------------------------------------------------------------
(* SkillRegistry.execute, for a request and, once more, after the yes.     *)

\* Variant: the view with the gate open checks no scopes.
ScopesOfRequests(p) ==
    /\ pc[p] = "scopes"
    /\ \/ (granted \/ p \in Decisions) /\ GoTo(p, "gate")
       \/ (~granted \/ p \in Requests) /\ GoTo(p, "over")
    /\ UNCHANGED <<durable, granted, ticket, written, trail, runs, said, used>>

\* Scopes, then the payload of a request, which may not validate; the one of
\* a ticket did, or was built by the proposer.
Scopes(p) ==
    /\ pc[p] = "scopes"
    /\ \/ granted /\ GoTo(p, "gate")
       \/ (~granted \/ p \in Requests) /\ GoTo(p, "over")
    /\ UNCHANGED <<durable, granted, ticket, written, trail, runs, said, used>>

\* The gate: what it lets through enters the handler; a request it stops
\* becomes a ticket if it has an owner to ask.
Gate(p) ==
    /\ pc[p] = "gate"
    /\ IF p \in Decisions \/ p \notin Gated
       THEN /\ GoTo(p, "running")
            /\ runs' = [runs EXCEPT ![About(p)] = @ + 1]
       ELSE /\ GoTo(p, IF Owner[p] = Nobody THEN "over" ELSE "ticketing")
            /\ UNCHANGED runs
    /\ UNCHANGED <<durable, granted, ticket, written, trail, said, used>>

HandlerReturns(p) ==
    /\ pc[p] = "running"
    /\ GoTo(p, "reporting")
    /\ written' = written \cup {About(p)}
    /\ UNCHANGED <<durable, granted, ticket, trail, runs, said, used>>

HandlerRaises(p) ==
    /\ pc[p] = "running"
    /\ GoTo(p, "reporting")
    /\ UNCHANGED <<durable, granted, ticket, written, trail, runs, said, used>>

-----------------------------------------------------------------------------
(* Decisions.                                                              *)

\* The route: approve first looks the ticket up, and answers 404 to whoever
\* does not own it.
AskToDecide(d, t) ==
    /\ d \in Decisions
    /\ pc[d] = "idle"
    /\ \A e \in Decisions : e < d => pc[e] # "idle"
    /\ IF t.verdict = "approved" /\ (ticket[t.call] = "none" \/ Owner[t.call] # t.user)
       THEN GoTo(d, "over")
       ELSE /\ pc' = [pc EXCEPT ![d] = "deciding"]
            /\ task' = [task EXCEPT ![d] = t]
    /\ UNCHANGED <<durable, granted, ticket, written, trail, runs, said, used>>

StoreDecision(c, u, verdict) ==
    /\ ticket' = [ticket EXCEPT ![c] = verdict]
    /\ said' = [said EXCEPT ![c] = @ \cup {[user |-> u, verdict |-> verdict]}]

\* Variant: the UPDATE does not ask whether the ticket is pending.
ResolveAnyState(d) ==
    LET t == task[d] IN
    /\ pc[d] = "deciding"
    /\ IF ticket[t.call] # "none" /\ Owner[t.call] = t.user
       THEN StoreDecision(t.call, t.user, t.verdict) /\ GoTo(d, "announcing")
       ELSE GoTo(d, "over") /\ UNCHANGED <<ticket, said>>
    /\ UNCHANGED <<durable, granted, written, trail, runs, used>>

\* store.resolve: only a pending ticket of this user is decided.
ResolveTicket(d) ==
    LET t == task[d] IN
    /\ pc[d] = "deciding"
    /\ IF ticket[t.call] = "pending" /\ Owner[t.call] = t.user
       THEN StoreDecision(t.call, t.user, t.verdict) /\ GoTo(d, "announcing")
       ELSE GoTo(d, "over") /\ UNCHANGED <<ticket, said>>
    /\ UNCHANGED <<durable, granted, written, trail, runs, used>>

\* The transaction fails, or its commit succeeds and the answer is lost.
ResolveTicketFails(d) ==
    LET t == task[d] IN
    /\ durable
    /\ pc[d] = "deciding"
    /\ Fail
    /\ \/ UNCHANGED <<ticket, said>>
       \/ /\ ticket[t.call] = "pending"
          /\ Owner[t.call] = t.user
          /\ StoreDecision(t.call, t.user, t.verdict)
    /\ GoTo(d, "over")
    /\ UNCHANGED <<durable, granted, written, trail, runs>>

-----------------------------------------------------------------------------
(* Publication: the event store first, then the bus.                       *)

Announcing(p) == pc[p] = "announcing" /\ p \in Decisions

\* Of the events only the decisions are told apart: approval.requested,
\* skill.executed and skill.failed are published, and may fail, like them.
Recorded(p) == IF Announcing(p)
               THEN [trail EXCEPT ![About(p)] = @ \cup {task[p].verdict}]
               ELSE trail

AfterPublication(p) ==
    IF Announcing(p) /\ task[p].verdict = "approved"
    THEN "scopes" ELSE "over"

Publishing(p) == pc[p] \in {"announcing", "reporting"}

\* Variant: the approved action is executed before its event is published.
PublishAfterwards(p) ==
    /\ Publishing(p)
    /\ trail' = IF AfterPublication(p) = "scopes" THEN trail ELSE Recorded(p)
    /\ GoTo(p, AfterPublication(p))
    /\ UNCHANGED <<durable, granted, ticket, written, runs, said, used>>

\* Variant: the answer to the yes is given without executing.
PublishAndReturn(p) ==
    /\ Publishing(p)
    /\ trail' = Recorded(p)
    /\ GoTo(p, "over")
    /\ UNCHANGED <<durable, granted, ticket, written, runs, said, used>>

PublishEvent(p) ==
    /\ Publishing(p)
    /\ trail' = Recorded(p)
    /\ GoTo(p, AfterPublication(p))
    /\ UNCHANGED <<durable, granted, ticket, written, runs, said, used>>

\* The append fails, or the bus after it: the process ends with the error.
PublishFails(p) ==
    /\ Publishing(p)
    /\ Fail
    /\ trail' \in {trail, Recorded(p)}
    /\ GoTo(p, "over")
    /\ UNCHANGED <<durable, granted, ticket, written, runs, said>>

-----------------------------------------------------------------------------
\* Every task is lost, and what is kept in memory; the permissions are read
\* anew from the settings.
Restart ==
    /\ used.restarts < MaxRestarts
    /\ used' = [used EXCEPT !.restarts = @ + 1]
    /\ pc' = [p \in Procs |-> IF pc[p] = "idle" THEN "idle" ELSE "over"]
    /\ task' = [d \in Decisions |-> NoTask]
    /\ granted' \in BOOLEAN
    /\ IF durable THEN UNCHANGED <<ticket, written>>
       ELSE ticket' = [c \in Calls |-> "none"] /\ written' = {}
    /\ UNCHANGED <<durable, trail, runs, said>>

ApprovalsNext ==
    \/ \E p \in Procs : \/ Scopes(p) \/ Gate(p) \/ HandlerReturns(p) \/ HandlerRaises(p)
                       \/ PublishEvent(p) \/ PublishFails(p)
    \/ \E c \in Calls : CallSkill(c) \/ ProposePlaybook(c) \/ SeePending(c) \/ AddTicket(c)
    \/ \E d \in Decisions : ResolveTicket(d) \/ ResolveTicketFails(d)
    \/ \E d \in Decisions, t \in Task : AskToDecide(d, t)
    \/ Restart

ApprovalsSpec == ApprovalsInit /\ [][ApprovalsNext]_approvalsVars

-----------------------------------------------------------------------------
(* Properties.                                                             *)

ApprovalsTypeOK ==
    /\ durable \in BOOLEAN
    /\ granted \in BOOLEAN
    /\ ticket \in [Calls -> {"none", "pending"} \cup Verdicts]
    /\ written \subseteq Calls
    /\ trail \in [Calls -> SUBSET Verdicts]
    /\ pc \in [Procs -> {"idle", "listing", "scopes", "gate", "ticketing", "announcing",
                         "deciding", "running", "reporting", "over"}]
    /\ task \in [Decisions -> Task \cup {NoTask}]
    /\ runs \in [Calls -> Nat]
    /\ said \in [Calls -> SUBSET [user : Users, verdict : Verdicts]]
    /\ used \in [failures : Nat, restarts : Nat]

\* An action above the automatic limit runs only after its owner's yes, never
\* after a no, and one yes runs it at most once, however many requests to
\* decide race, fail half way or come after a restart.
RunsAfterOneYes ==
    \A c \in Gated : runs[c] > 0 => runs[c] = 1 /\ said[c] = {Yes(c)}

\* The audit trail never holds a decision nobody took, and a gated action
\* never runs before its yes is in the trail.
TrailBeforeRun ==
    \A c \in Calls :
        /\ \A v \in trail[c] : [user |-> Owner[c], verdict |-> v] \in said[c]
        /\ c \in Gated /\ runs[c] > 0 => "approved" \in trail[c]

\* Approving frees the action, never the scope: nothing enters its handler
\* while its scopes are not granted, not even a ticket that was added before
\* they were withdrawn, or by the learning loop without ever asking for them.
ConfirmingNeverWidens ==
    [][\A c \in Calls : runs'[c] # runs[c] => granted]_approvalsVars

\* Approving is executing: unless something failed, the process restarted or
\* the scopes are missing, an approved action has been run or the decision
\* that approved it is on its way to run it; it is never left behind.
YesIsExecuted ==
    \A c \in Gated :
        ticket[c] = "approved" =>
            \/ runs[c] > 0
            \/ used.failures > 0 \/ used.restarts > 0 \/ ~granted
            \/ \E d \in Decisions : /\ task[d] = [call |-> c, user |-> Owner[c], verdict |-> "approved"]
                                    /\ pc[d] \in {"announcing", "scopes", "gate"}
=============================================================================
