--------------------------- MODULE ApprovalsProofs ---------------------------
(***************************************************************************)
(* Proofs about the approval cycle of module Approvals: its type           *)
(* correctness, and that one yes of the owner runs an action once, after   *)
(* the yes is in the audit trail.                                          *)
(***************************************************************************)
EXTENDS Approvals, TLAPS

Stages == {"idle", "listing", "scopes", "gate", "ticketing", "announcing",
           "deciding", "running", "reporting", "over"}

\* A decision that is not over knows its ticket.
Busy == {"deciding", "announcing", "scopes", "gate", "running"}
Known == \A d \in Decisions : pc[d] \in Busy => task[d] \in Task

Typed == ApprovalsTypeOK /\ Known

-----------------------------------------------------------------------------
(* Type correctness.                                                       *)

\* What GoTo does to the process and to all others.
LEMMA GotoEffect ==
    ASSUME ApprovalsTypeOK, NEW p \in Procs, NEW label \in Stages, GoTo(p, label)
    PROVE  /\ pc' \in [Procs -> Stages]
           /\ task' \in [Decisions -> Task \cup {NoTask}]
           /\ pc'[p] = label
           /\ \A q \in Procs : q # p => pc'[q] = pc[q]
           /\ \A d \in Decisions : d # p \/ label # "over" => task'[d] = task[d]
<1>1. pc \in [Procs -> Stages] /\ task \in [Decisions -> Task \cup {NoTask}]
  BY DEF ApprovalsTypeOK, Stages
<1>2. pc' = [pc EXCEPT ![p] = label]
  BY DEF GoTo
<1>3. task' = task \/ (task' = [task EXCEPT ![p] = NoTask] /\ label = "over")
  BY DEF GoTo
<1>4. task' \in [Decisions -> Task \cup {NoTask}]
  BY <1>1, <1>3
<1>5. \A d \in Decisions : d # p \/ label # "over" => task'[d] = task[d]
  BY <1>1, <1>3
<1> QED  BY <1>1, <1>2, <1>4, <1>5

\* A step of a process that was busy, or goes where it need not know a ticket.
LEMMA GotoKnown ==
    ASSUME Typed, NEW p \in Procs, NEW label \in Stages, GoTo(p, label),
           p \in Decisions => pc[p] \in Busy \/ label \notin Busy
    PROVE  /\ pc' \in [Procs -> Stages]
           /\ task' \in [Decisions -> Task \cup {NoTask}]
           /\ Known'
<1>1. Decisions \subseteq Procs
  BY DEF Procs
<1>2. ASSUME NEW d \in Decisions, pc'[d] \in Busy  PROVE task'[d] \in Task
  <2>1. pc[d] \in Busy
    BY <1>1, <1>2, GotoEffect DEF Typed
  <2>2. task'[d] = task[d]
    BY <1>1, <1>2, GotoEffect DEF Typed, Busy
  <2> QED  BY <2>1, <2>2 DEF Typed, Known
<1>3. Known'
  BY <1>2 DEF Known
<1> QED  BY <1>3, GotoEffect DEF Typed

LEMMA TypedInit == ASSUME ApprovalsAssumption, ApprovalsInit PROVE Typed
<1>1. ApprovalsTypeOK
  BY DEF ApprovalsInit, ApprovalsTypeOK
<1>2. Known
  BY DEF ApprovalsInit, Known, Busy, Procs
<1> QED  BY <1>1, <1>2 DEF Typed

LEMMA TypedStep ==
    ASSUME ApprovalsAssumption, Typed, [ApprovalsNext]_approvalsVars
    PROVE  Typed'
<1> USE DEF Typed
<1>1. ASSUME NEW p \in Procs, Scopes(p)  PROVE Typed'
  <2>1. \/ GoTo(p, "gate") \/ GoTo(p, "over")
    BY <1>1 DEF Scopes
  <2>2. pc[p] \in Busy
    BY <1>1 DEF Scopes, Busy
  <2>3. pc' \in [Procs -> Stages] /\ task' \in [Decisions -> Task \cup {NoTask}] /\ Known'
    BY <2>1, <2>2, GotoKnown DEF Stages
  <2> QED  BY <1>1, <2>3 DEF Scopes, ApprovalsTypeOK, Stages
<1>2. ASSUME NEW p \in Procs, Gate(p)  PROVE Typed'
  <2>1. \/ GoTo(p, "running") \/ GoTo(p, "over") \/ GoTo(p, "ticketing")
    BY <1>2 DEF Gate
  <2>2. pc[p] \in Busy
    BY <1>2 DEF Gate, Busy
  <2>3. pc' \in [Procs -> Stages] /\ task' \in [Decisions -> Task \cup {NoTask}] /\ Known'
    BY <2>1, <2>2, GotoKnown DEF Stages
  <2>4. About(p) \in Calls
    BY <2>2 DEF Known, About, Task, Procs
  <2>5. runs' \in [Calls -> Nat]
    BY <1>2, <2>4 DEF Gate, ApprovalsTypeOK
  <2> QED  BY <1>2, <2>3, <2>5 DEF Gate, ApprovalsTypeOK, Stages
<1>3. ASSUME NEW p \in Procs, HandlerReturns(p)  PROVE Typed'
  <2>1. pc[p] \in Busy
    BY <1>3 DEF HandlerReturns, Busy
  <2>2. pc' \in [Procs -> Stages] /\ task' \in [Decisions -> Task \cup {NoTask}] /\ Known'
    BY <1>3, <2>1, GotoKnown DEF Stages, HandlerReturns
  <2>3. About(p) \in Calls
    BY <2>1 DEF Known, About, Task, Procs
  <2> QED  BY <1>3, <2>2, <2>3 DEF HandlerReturns, ApprovalsTypeOK, Stages
<1>4. ASSUME NEW p \in Procs, HandlerRaises(p)  PROVE Typed'
  <2>1. pc[p] \in Busy
    BY <1>4 DEF HandlerRaises, Busy
  <2>2. pc' \in [Procs -> Stages] /\ task' \in [Decisions -> Task \cup {NoTask}] /\ Known'
    BY <1>4, <2>1, GotoKnown DEF Stages, HandlerRaises
  <2> QED  BY <1>4, <2>2 DEF HandlerRaises, ApprovalsTypeOK, Stages
<1>5. ASSUME NEW p \in Procs, Publishing(p)  PROVE Recorded(p) \in [Calls -> SUBSET Verdicts]
  <2>1. Announcing(p) => task[p] \in Task
    BY DEF Announcing, Known, Busy
  <2> QED  BY <2>1 DEF Recorded, About, Announcing, Task, ApprovalsTypeOK
<1>6. ASSUME NEW p \in Procs, PublishEvent(p)  PROVE Typed'
  <2>1. \/ GoTo(p, "scopes") /\ pc[p] \in Busy
        \/ GoTo(p, "over")
    BY <1>6 DEF PublishEvent, AfterPublication, Announcing, Busy
  <2>2. pc' \in [Procs -> Stages] /\ task' \in [Decisions -> Task \cup {NoTask}] /\ Known'
    BY <2>1, GotoKnown DEF Stages, Busy
  <2> QED  BY <1>5, <1>6, <2>2 DEF PublishEvent, ApprovalsTypeOK, Stages
<1>7. ASSUME NEW p \in Procs, PublishFails(p)  PROVE Typed'
  <2>1. pc' \in [Procs -> Stages] /\ task' \in [Decisions -> Task \cup {NoTask}] /\ Known'
    BY <1>7, GotoKnown DEF Stages, Busy, PublishFails
  <2>2. trail' \in [Calls -> SUBSET Verdicts]
    BY <1>5, <1>7 DEF PublishFails, ApprovalsTypeOK
  <2>3. used' \in [failures : Nat, restarts : Nat]
    BY <1>7 DEF PublishFails, Fail, ApprovalsTypeOK
  <2> QED  BY <1>7, <2>1, <2>2, <2>3 DEF PublishFails, ApprovalsTypeOK, Stages
<1>8. ASSUME NEW c \in Calls, CallSkill(c) \/ ProposePlaybook(c) \/ SeePending(c) \/ AddTicket(c)
      PROVE  Typed'
  <2>1. \E label \in Stages : GoTo(c, label)
    BY <1>8 DEF CallSkill, ProposePlaybook, SeePending, AddTicket, Stages
  <2>2. c \in Procs /\ c \notin Decisions
    BY DEF Procs, ApprovalsAssumption
  <2>3. pc' \in [Procs -> Stages] /\ task' \in [Decisions -> Task \cup {NoTask}] /\ Known'
    BY <2>1, <2>2, GotoKnown
  <2>4. ticket' \in [Calls -> {"none", "pending"} \cup Verdicts]
    BY <1>8 DEF CallSkill, ProposePlaybook, SeePending, AddTicket, ApprovalsTypeOK
  <2> QED  BY <1>8, <2>3, <2>4 DEF CallSkill, ProposePlaybook, SeePending, AddTicket, ApprovalsTypeOK, Stages
<1>9. ASSUME NEW d \in Decisions, ResolveTicket(d) \/ ResolveTicketFails(d)  PROVE Typed'
  <2>1. d \in Procs /\ pc[d] = "deciding"
    BY <1>9 DEF ResolveTicket, ResolveTicketFails, Procs
  <2>2. pc[d] \in Busy /\ task[d] \in Task
    BY <2>1 DEF Busy, Known
  <2>3. \/ GoTo(d, "announcing") \/ GoTo(d, "over")
    BY <1>9 DEF ResolveTicket, ResolveTicketFails
  <2>4. pc' \in [Procs -> Stages] /\ task' \in [Decisions -> Task \cup {NoTask}] /\ Known'
    BY <2>1, <2>2, <2>3, GotoKnown DEF Stages
  <2>5. task[d].call \in Calls /\ task[d].user \in Users /\ task[d].verdict \in Verdicts
    BY <2>2 DEF Task
  <2>6. \/ UNCHANGED <<ticket, said>>
        \/ StoreDecision(task[d].call, task[d].user, task[d].verdict)
    BY <1>9 DEF ResolveTicket, ResolveTicketFails
  <2>7. /\ ticket' \in [Calls -> {"none", "pending"} \cup Verdicts]
        /\ said' \in [Calls -> SUBSET [user : Users, verdict : Verdicts]]
    BY <2>5, <2>6 DEF StoreDecision, ApprovalsTypeOK
  <2>8. used' \in [failures : Nat, restarts : Nat]
    BY <1>9 DEF ResolveTicket, ResolveTicketFails, Fail, ApprovalsTypeOK
  <2> QED  BY <1>9, <2>4, <2>7, <2>8 DEF ResolveTicket, ResolveTicketFails, ApprovalsTypeOK, Stages
<1>10. ASSUME NEW d \in Decisions, NEW t \in Task, AskToDecide(d, t)  PROVE Typed'
  <2>1. d \in Procs
    BY DEF Procs
  <2>2. CASE GoTo(d, "over")
    <3>1. pc' \in [Procs -> Stages] /\ task' \in [Decisions -> Task \cup {NoTask}] /\ Known'
      BY <2>1, <2>2, GotoKnown DEF Stages, Busy
    <3> QED  BY <1>10, <3>1 DEF AskToDecide, ApprovalsTypeOK, Stages
  <2>3. CASE /\ pc' = [pc EXCEPT ![d] = "deciding"]
             /\ task' = [task EXCEPT ![d] = t]
    <3>1. ApprovalsTypeOK'
      BY <1>10, <2>1, <2>3 DEF AskToDecide, ApprovalsTypeOK
    <3>2. ASSUME NEW e \in Decisions, pc'[e] \in Busy  PROVE task'[e] \in Task
      <4>1. e = d => task'[e] = t
        BY <2>3 DEF ApprovalsTypeOK
      <4>2. e # d => task'[e] = task[e] /\ pc'[e] = pc[e]
        BY <2>3 DEF ApprovalsTypeOK, Procs
      <4> QED  BY <3>2, <4>1, <4>2 DEF Known
    <3> QED  BY <3>1, <3>2 DEF Known
  <2> QED  BY <1>10, <2>2, <2>3 DEF AskToDecide
<1>11. ASSUME Restart  PROVE Typed'
  <2>1. ApprovalsTypeOK'
    <3>1. /\ ticket' \in [Calls -> {"none", "pending"} \cup Verdicts]
          /\ written' \subseteq Calls
      BY <1>11 DEF Restart, ApprovalsTypeOK
    <3>2. used' \in [failures : Nat, restarts : Nat]
      BY <1>11 DEF Restart, ApprovalsTypeOK
    <3> QED  BY <1>11, <3>1, <3>2 DEF Restart, ApprovalsTypeOK
  <2>2. Known'
    BY <1>11 DEF Restart, Known, Busy, Procs
  <2> QED  BY <2>1, <2>2
<1>12. CASE UNCHANGED approvalsVars
  BY <1>12 DEF approvalsVars, ApprovalsTypeOK, Known
<1> QED
  BY <1>1, <1>2, <1>3, <1>4, <1>6, <1>7, <1>8, <1>9, <1>10, <1>11, <1>12 DEF ApprovalsNext

\* The variables of the approval cycle keep their types, and a decision in
\* progress knows which ticket it is about.
LEMMA TypedAlways == ApprovalsSpec => []Typed
<1>1. ApprovalsInit => Typed
  BY TypedInit, ApprovalsAssumption
<1>2. Typed /\ [ApprovalsNext]_approvalsVars => Typed'
  BY TypedStep, ApprovalsAssumption
<1> QED  BY <1>1, <1>2, PTL DEF ApprovalsSpec

\* Every variable keeps its type, for any sets of calls, users and decisions.
THEOREM TypeCorrect == ApprovalsSpec => []ApprovalsTypeOK
<1>1. Typed => ApprovalsTypeOK
  BY DEF Typed
<1> QED  BY <1>1, TypedAlways, PTL

-----------------------------------------------------------------------------
(* One yes, one run.                                                       *)

EarlyStages == {"idle", "listing", "scopes", "gate", "ticketing"}
Carrying == {"announcing", "scopes", "gate"}
YesTask(c) == [call |-> c, user |-> Owner[c], verdict |-> "approved"]
Carries(d, c) == pc[d] \in Carrying /\ task[d] = YesTask(c)

\* A call that did not add its ticket has none, and nobody decided it.
Early == \A c \in Calls : pc[c] \in EarlyStages => ticket[c] = "none" /\ said[c] = {}

\* A pending ticket is undecided.
Undecided == \A c \in Calls : ticket[c] = "pending" => said[c] = {}

\* What is announced is what the store accepted.
Announced ==
    \A d \in Decisions :
        pc[d] = "announcing" =>
            /\ Owner[task[d].call] = task[d].user
            /\ [user |-> task[d].user, verdict |-> task[d].verdict] \in said[task[d].call]

\* What is executed again is a yes of the owner, already in the trail.
Bearing ==
    \A d \in Decisions :
        pc[d] \in {"scopes", "gate"} =>
            /\ task[d] = YesTask(task[d].call)
            /\ "approved" \in trail[task[d].call]

\* A yes on its way is the only decision, and has not run.
Fresh ==
    \A d \in Decisions, c \in Gated :
        Carries(d, c) => said[c] = {Yes(c)} /\ runs[c] = 0

\* No two decisions carry the yes of one ticket.
Sole ==
    \A d, e \in Decisions, c \in Gated : Carries(d, c) /\ Carries(e, c) => d = e

Safe == Early /\ Undecided /\ Announced /\ Bearing /\ Fresh /\ Sole
        /\ RunsAfterOneYes /\ TrailBeforeRun

LEMMA SafeInit == ASSUME ApprovalsAssumption, ApprovalsInit PROVE Safe
<1>1. \A d \in Decisions : pc[d] = "idle"
  BY DEF ApprovalsInit, Procs
<1>2. \A c \in Calls : runs[c] = 0 /\ said[c] = {} /\ trail[c] = {} /\ ticket[c] = "none"
  BY DEF ApprovalsInit
<1>3. Gated \subseteq Calls
  BY DEF ApprovalsAssumption
<1> QED
  BY <1>1, <1>2, <1>3 DEF Safe, Early, Undecided, Announced, Bearing, Fresh, Sole, Carries,
     Carrying, RunsAfterOneYes, TrailBeforeRun

\* A step that runs and decides nothing, brings no decision nearer to its run
\* than it shows, and adds to the trail what was said.
LEMMA MildStep ==
    ASSUME ApprovalsAssumption, Typed, Safe,
           runs' = runs, said' = said,
           \A c \in Calls : ticket'[c] \in {ticket[c], "none"},
           \A c \in Calls : /\ trail[c] \subseteq trail'[c]
                            /\ \A v \in trail'[c] :
                                 [user |-> Owner[c], verdict |-> v] \in said[c],
           \A c \in Calls : pc'[c] \in EarlyStages => pc[c] \in EarlyStages,
           \A d \in Decisions : pc'[d] \in Carrying => pc[d] \in Carrying /\ task'[d] = task[d],
           \A d \in Decisions : pc'[d] = "announcing" => pc[d] = "announcing",
           \A d \in Decisions : pc'[d] \in {"scopes", "gate"} =>
               /\ task[d] = YesTask(task[d].call)
               /\ "approved" \in trail'[task[d].call]
    PROVE  Safe'
<1>1. Early' /\ Undecided'
  BY DEF Safe, Early, Undecided
<1>2. Announced'
  BY DEF Safe, Announced, Carrying
<1>3. Bearing'
  BY DEF Bearing, Carrying, YesTask
<1>4. \A d \in Decisions, c \in Gated : Carries(d, c)' => Carries(d, c)
  BY DEF Carries, YesTask
<1>5. Fresh' /\ Sole'
  BY <1>4 DEF Safe, Fresh, Sole, Yes
<1>6. RunsAfterOneYes'
  BY DEF Safe, RunsAfterOneYes, Yes
<1>7. TrailBeforeRun'
  BY DEF Safe, TrailBeforeRun
<1> QED  BY <1>1, <1>2, <1>3, <1>5, <1>6, <1>7 DEF Safe

\* The store accepts the decision of d: d carries it if it is a yes that will
\* be announced, and nobody else does.
LEMMA DecideSafe ==
    ASSUME ApprovalsAssumption, Typed, Safe,
           NEW d \in Decisions, NEW label \in {"announcing", "over"},
           pc[d] = "deciding",
           ticket[task[d].call] = "pending",
           Owner[task[d].call] = task[d].user,
           StoreDecision(task[d].call, task[d].user, task[d].verdict),
           GoTo(d, label),
           UNCHANGED <<trail, runs>>
    PROVE  Safe'
<1> DEFINE c == task[d].call
<1>1. task[d] \in Task /\ d \in Procs
  BY DEF Typed, Known, Busy, Procs
<1>2. c \in Calls /\ task[d].verdict \in Verdicts
  BY <1>1 DEF Task
<1>3. said[c] = {} /\ pc[c] \notin EarlyStages
  BY <1>2 DEF Safe, Undecided, Early
<1>4. /\ said'[c] = {[user |-> Owner[c], verdict |-> task[d].verdict]}
      /\ \A x \in Calls : x # c => said'[x] = said[x] /\ ticket'[x] = ticket[x]
      /\ ticket'[c] \in Verdicts
  BY <1>2, <1>3 DEF StoreDecision, Typed, ApprovalsTypeOK
<1>5. /\ pc'[d] = label
      /\ \A q \in Procs : q # d => pc'[q] = pc[q]
      /\ \A e \in Decisions : e # d => task'[e] = task[e]
      /\ label = "announcing" => task'[d] = task[d]
  BY <1>1, GotoEffect DEF Typed, Stages
<1>6. Decisions \subseteq Procs /\ Calls \subseteq Procs /\ Gated \subseteq Calls /\ d \notin Calls
  BY DEF Procs, ApprovalsAssumption
<1> HIDE DEF c
<1>7. Early'
  <2>1. \A x \in Calls : pc'[x] = pc[x]
    BY <1>5, <1>6
  <2> QED  BY <1>3, <1>4, <2>1 DEF Safe, Early
<1>8. Undecided'
  BY <1>4 DEF Safe, Undecided, Verdicts
<1>9. Announced'
  <2>1. CASE label = "over"
    <3> SUFFICES ASSUME NEW e \in Decisions, pc'[e] = "announcing"
                 PROVE  /\ Owner[task'[e].call] = task'[e].user
                        /\ [user |-> task'[e].user, verdict |-> task'[e].verdict]
                              \in said'[task'[e].call]
      BY DEF Announced
    <3>1. e # d /\ task'[e] = task[e] /\ pc[e] = "announcing"
      BY <2>1, <1>5, <1>6
    <3>2. task[e] \in Task
      BY <3>1 DEF Typed, Known, Busy
    <3>3. task[e].call \in Calls /\ task[e].call # c
      BY <1>3, <3>1, <3>2 DEF Safe, Announced, Task
    <3> QED  BY <1>4, <3>1, <3>3 DEF Safe, Announced
  <2>2. CASE label = "announcing"
    <3> SUFFICES ASSUME NEW e \in Decisions, pc'[e] = "announcing"
                 PROVE  /\ Owner[task'[e].call] = task'[e].user
                        /\ [user |-> task'[e].user, verdict |-> task'[e].verdict]
                              \in said'[task'[e].call]
      BY DEF Announced
    <3>1. CASE e = d
      BY <2>2, <3>1, <1>4, <1>5 DEF c
    <3>2. CASE e # d
      <4>1. task'[e] = task[e] /\ pc[e] = "announcing"
        BY <3>2, <1>5, <1>6
      <4>2. task[e] \in Task
        BY <4>1 DEF Typed, Known, Busy
      <4>3. task[e].call \in Calls /\ task[e].call # c
        BY <1>3, <4>1, <4>2 DEF Safe, Announced, Task
      <4> QED  BY <1>4, <4>1, <4>3 DEF Safe, Announced
    <3> QED  BY <3>1, <3>2
  <2> QED  BY <2>1, <2>2
<1>10. Bearing'
  <2>1. \A e \in Decisions : pc'[e] \in {"scopes", "gate"} =>
          e # d /\ pc[e] = pc'[e] /\ task'[e] = task[e]
    BY <1>5, <1>6
  <2> QED  BY <2>1 DEF Safe, Bearing, YesTask
<1>11. \A e \in Decisions, x \in Gated : Carries(e, x)' =>
         (x # c /\ Carries(e, x)) \/ (x = c /\ e = d /\ label = "announcing" /\ task[d] = YesTask(c))
  <2> SUFFICES ASSUME NEW e \in Decisions, NEW x \in Gated, pc'[e] \in Carrying, task'[e] = YesTask(x)
               PROVE  (x # c /\ Carries(e, x))
                      \/ (x = c /\ e = d /\ label = "announcing" /\ task[d] = YesTask(c))
    BY DEF Carries, YesTask
  <2>1. CASE e = d
    <3>1. label = "announcing" /\ task[d] = YesTask(x)
      BY <2>1, <1>5 DEF Carrying
    <3>2. x = c
      BY <3>1 DEF YesTask, c
    <3> QED  BY <2>1, <3>1, <3>2
  <2>2. CASE e # d
    <3>1. Carries(e, x)
      BY <2>2, <1>5, <1>6 DEF Carries
    <3>2. x # c
      BY <1>3, <3>1 DEF Safe, Fresh
    <3> QED  BY <3>1, <3>2
  <2> QED  BY <2>1, <2>2
<1>12. runs'[c] = 0 \/ c \notin Gated
  <2>1. c \in Gated => ~(runs[c] > 0)
    BY <1>3 DEF Safe, RunsAfterOneYes
  <2> QED  BY <2>1, <1>2 DEF Typed, ApprovalsTypeOK
<1>13. Fresh'
  <2>1. task[d] = YesTask(c) => said'[c] = {Yes(c)}
    BY <1>4 DEF YesTask, Yes
  <2> QED  BY <1>4, <1>6, <1>11, <1>12, <2>1 DEF Safe, Fresh, Yes
<1>14. Sole'
  BY <1>11 DEF Safe, Sole
<1>15. RunsAfterOneYes'
  BY <1>4, <1>6, <1>12 DEF Safe, RunsAfterOneYes, Yes
<1>16. TrailBeforeRun'
  BY <1>3, <1>4 DEF Safe, TrailBeforeRun
<1> QED  BY <1>7, <1>8, <1>9, <1>10, <1>13, <1>14, <1>15, <1>16 DEF Safe

\* A process moves on, and ticket, trail, runs and said stay as they are.
LEMMA MoveStep ==
    ASSUME ApprovalsAssumption, Typed, Safe,
           NEW p \in Procs, NEW label \in Stages, GoTo(p, label),
           UNCHANGED <<ticket, trail, runs, said>>,
           p \in Calls /\ label \in EarlyStages => pc[p] \in EarlyStages,
           p \in Decisions /\ label \in Carrying => label = "gate" /\ pc[p] = "scopes"
    PROVE  Safe'
<1>1. /\ pc'[p] = label
      /\ \A q \in Procs : q # p => pc'[q] = pc[q]
      /\ \A d \in Decisions : d # p \/ label # "over" => task'[d] = task[d]
  BY GotoEffect DEF Typed
<1>2. Decisions \subseteq Procs /\ Calls \subseteq Procs
  BY DEF Procs
<1>3. \A c \in Calls : pc'[c] \in EarlyStages => pc[c] \in EarlyStages
  BY <1>1, <1>2
<1>4. \A d \in Decisions : pc'[d] \in Carrying => pc[d] \in Carrying /\ task'[d] = task[d]
  BY <1>1, <1>2 DEF Carrying
<1>5. \A d \in Decisions : pc'[d] = "announcing" => pc[d] = "announcing"
  BY <1>1, <1>2 DEF Carrying
<1>6. \A d \in Decisions : pc'[d] \in {"scopes", "gate"} => pc[d] \in {"scopes", "gate"}
  BY <1>1, <1>2 DEF Carrying
<1>7. \A d \in Decisions : pc'[d] \in {"scopes", "gate"} =>
          /\ task[d] = YesTask(task[d].call)
          /\ "approved" \in trail'[task[d].call]
  BY <1>6 DEF Safe, Bearing
<1>8. \A c \in Calls : /\ trail[c] \subseteq trail'[c]
                       /\ \A v \in trail'[c] : [user |-> Owner[c], verdict |-> v] \in said[c]
  BY DEF Safe, TrailBeforeRun
<1>9. runs' = runs /\ said' = said /\ \A c \in Calls : ticket'[c] \in {ticket[c], "none"}
  OBVIOUS
<1> QED  BY <1>3, <1>4, <1>5, <1>7, <1>8, <1>9, MildStep

\* A process moves on from a publication that is, or is not, in the trail.
LEMMA PublicationStep ==
    ASSUME ApprovalsAssumption, Typed, Safe, NEW p \in Procs, Publishing(p),
           \/ trail' = Recorded(p) /\ GoTo(p, AfterPublication(p))
           \/ trail' \in {trail, Recorded(p)} /\ GoTo(p, "over"),
           UNCHANGED <<ticket, runs, said>>
    PROVE  Safe'
<1>1. PICK label \in {"scopes", "over"} :
          /\ GoTo(p, label)
          /\ label = "scopes" => /\ Announcing(p)
                                 /\ task[p].verdict = "approved"
                                 /\ trail' = Recorded(p)
  BY DEF AfterPublication
<1>2. /\ pc'[p] = label
      /\ \A q \in Procs : q # p => pc'[q] = pc[q]
      /\ \A d \in Decisions : d # p \/ label # "over" => task'[d] = task[d]
  BY <1>1, GotoEffect DEF Typed, Stages
<1>3. Decisions \subseteq Procs /\ Calls \subseteq Procs /\ Calls \cap Decisions = {}
  BY DEF Procs, ApprovalsAssumption
<1>4. Announcing(p) =>
          /\ task[p] \in Task
          /\ p \in Decisions
          /\ Owner[task[p].call] = task[p].user
          /\ [user |-> Owner[task[p].call], verdict |-> task[p].verdict] \in said[task[p].call]
  BY DEF Announcing, Typed, Known, Busy, Safe, Announced
<1>5. \A c \in Calls : trail[c] \subseteq trail'[c]
  <2>1. \A c \in Calls : trail[c] \subseteq Recorded(p)[c]
    BY <1>4 DEF Recorded, About, Typed, ApprovalsTypeOK
  <2> QED  BY <2>1
<1>6. \A c \in Calls : \A v \in trail'[c] : [user |-> Owner[c], verdict |-> v] \in said[c]
  <2>1. \A c \in Calls : \A v \in trail[c] : [user |-> Owner[c], verdict |-> v] \in said[c]
    BY DEF Safe, TrailBeforeRun
  <2>2. ASSUME NEW c \in Calls, NEW v \in Recorded(p)[c]
        PROVE  [user |-> Owner[c], verdict |-> v] \in said[c]
    <3>1. v \in trail[c] \/ (Announcing(p) /\ c = task[p].call /\ v = task[p].verdict)
      BY <2>2, <1>4 DEF Recorded, About, Typed, ApprovalsTypeOK
    <3> QED  BY <2>1, <3>1, <1>4
  <2> QED  BY <2>1, <2>2
<1>7. \A c \in Calls : pc'[c] \in EarlyStages => pc[c] \in EarlyStages
  BY <1>1, <1>2, <1>3, <1>4 DEF EarlyStages
<1>8. \A d \in Decisions : pc'[d] \in Carrying => pc[d] \in Carrying /\ task'[d] = task[d]
  BY <1>1, <1>2, <1>3 DEF Carrying, Announcing
<1>9. \A d \in Decisions : pc'[d] = "announcing" => pc[d] = "announcing"
  BY <1>1, <1>2, <1>3
<1>10. ASSUME NEW d \in Decisions, pc'[d] \in {"scopes", "gate"}
       PROVE  /\ task[d] = YesTask(task[d].call)
              /\ "approved" \in trail'[task[d].call]
  <2>1. CASE d # p
    <3>1. pc[d] \in {"scopes", "gate"}
      BY <1>2, <1>3, <1>10, <2>1
    <3>2. task[d] = YesTask(task[d].call) /\ "approved" \in trail[task[d].call]
      BY <3>1 DEF Safe, Bearing
    <3>3. task[d].call \in Calls
      BY <3>1 DEF Typed, Known, Busy, Task
    <3> QED  BY <1>5, <3>2, <3>3
  <2>2. CASE d = p
    <3>1. Announcing(p) /\ task[p].verdict = "approved" /\ trail' = Recorded(p)
      BY <1>1, <1>2, <1>10, <2>2
    <3>2. task[p] = [call |-> task[p].call, user |-> task[p].user, verdict |-> task[p].verdict]
      BY <1>4, <3>1 DEF Task
    <3>3. task[p] = YesTask(task[p].call)
      BY <1>4, <3>1, <3>2 DEF YesTask
    <3>4. task[p].call \in Calls
      BY <1>4, <3>1 DEF Task
    <3>5. "approved" \in trail'[task[p].call]
      BY <1>4, <3>1, <3>4 DEF Recorded, About, Typed, ApprovalsTypeOK
    <3> QED  BY <2>2, <3>3, <3>5
  <2> QED  BY <2>1, <2>2
<1>11. runs' = runs /\ said' = said /\ \A c \in Calls : ticket'[c] \in {ticket[c], "none"}
  OBVIOUS
<1> QED  BY <1>5, <1>6, <1>7, <1>8, <1>9, <1>10, <1>11, MildStep

\* A call passes the gate or a decision does: the only step that runs.
LEMMA GateStep ==
    ASSUME ApprovalsAssumption, Typed, Safe, NEW p \in Procs, Gate(p)
    PROVE  Safe'
<1>1. pc[p] = "gate" /\ UNCHANGED <<ticket, trail, said>>
  BY DEF Gate
<1>2. CASE p \notin Decisions /\ p \in Gated
  <2>1. PICK label \in {"over", "ticketing"} : GoTo(p, label) /\ runs' = runs
    BY <1>2 DEF Gate
  <2> QED  BY <1>1, <1>2, <2>1, MoveStep DEF Stages, EarlyStages
<1>3. CASE p \in Decisions \/ p \notin Gated
  <2>1. GoTo(p, "running") /\ runs' = [runs EXCEPT ![About(p)] = @ + 1]
    BY <1>3 DEF Gate
  <2>2. /\ pc'[p] = "running"
        /\ \A q \in Procs : q # p => pc'[q] = pc[q]
        /\ \A d \in Decisions : task'[d] = task[d]
    BY <2>1, GotoEffect DEF Typed, Stages
  <2>3. Decisions \subseteq Procs /\ Calls \subseteq Procs /\ Calls \cap Decisions = {}
        /\ Gated \subseteq Calls
    BY DEF Procs, ApprovalsAssumption
  <2>4. \A c \in Gated : c # About(p) => runs'[c] = runs[c]
    BY <2>1, <2>3 DEF Typed, ApprovalsTypeOK
  <2>5. p \in Decisions => Carries(p, About(p)) /\ "approved" \in trail[About(p)]
    BY <1>1 DEF Safe, Bearing, Carries, Carrying, About
  <2>6. \A c \in Gated : c = About(p) =>
            p \in Decisions /\ runs'[c] = 1 /\ said[c] = {Yes(c)} /\ "approved" \in trail[c]
    <3>1. \A c \in Gated : c = About(p) => p \in Decisions
      BY <1>3 DEF About
    <3>2. \A c \in Gated : c = About(p) => runs[c] = 0 /\ said[c] = {Yes(c)}
      BY <2>5, <3>1 DEF Safe, Fresh
    <3> QED  BY <2>1, <2>3, <2>5, <3>1, <3>2 DEF Typed, ApprovalsTypeOK
  <2>7. \A d \in Decisions : pc'[d] \in Carrying \cup {"announcing"} => d # p /\ pc'[d] = pc[d]
    BY <2>2, <2>3 DEF Carrying
  <2>8. \A d \in Decisions, c \in Gated : Carries(d, c)' => Carries(d, c) /\ c # About(p)
    <3>1. \A d \in Decisions, c \in Gated : Carries(d, c)' => Carries(d, c) /\ d # p
      BY <2>2, <2>7 DEF Carries, YesTask
    <3>2. ASSUME NEW d \in Decisions, NEW c \in Gated, Carries(d, c)', c = About(p)
          PROVE  FALSE
      <4>1. Carries(d, c) /\ d # p
        BY <3>1, <3>2
      <4>2. p \in Decisions /\ Carries(p, c)
        BY <2>5, <2>6, <3>2 DEF Carries
      <4> QED  BY <4>1, <4>2 DEF Safe, Sole
    <3> QED  BY <3>1, <3>2
  <2>9. Early' /\ Undecided'
    BY <1>1, <2>2, <2>3 DEF Safe, Early, Undecided, EarlyStages
  <2>10. Announced' /\ Bearing'
    BY <1>1, <2>2, <2>7 DEF Safe, Announced, Bearing, Carrying, YesTask
  <2>11. Fresh' /\ Sole'
    BY <1>1, <2>4, <2>8 DEF Safe, Fresh, Sole, Yes
  <2>12. RunsAfterOneYes'
    BY <1>1, <2>4, <2>6 DEF Safe, RunsAfterOneYes, Yes
  <2>13. TrailBeforeRun'
    BY <1>1, <2>4, <2>6 DEF Safe, TrailBeforeRun
  <2> QED  BY <2>9, <2>10, <2>11, <2>12, <2>13 DEF Safe
<1> QED  BY <1>2, <1>3

LEMMA SafeStep ==
    ASSUME ApprovalsAssumption, Typed, Safe, [ApprovalsNext]_approvalsVars
    PROVE  Safe'
<1>1. ASSUME NEW p \in Procs, Scopes(p)  PROVE Safe'
  <2>1. PICK label \in {"gate", "over"} : GoTo(p, label)
    BY <1>1 DEF Scopes
  <2>2. pc[p] = "scopes" /\ UNCHANGED <<ticket, trail, runs, said>>
    BY <1>1 DEF Scopes
  <2> QED  BY <2>1, <2>2, MoveStep DEF Stages, EarlyStages, Carrying
<1>2. ASSUME NEW p \in Procs, HandlerReturns(p) \/ HandlerRaises(p)  PROVE Safe'
  <2>1. GoTo(p, "reporting") /\ UNCHANGED <<ticket, trail, runs, said>>
    BY <1>2 DEF HandlerReturns, HandlerRaises
  <2> QED  BY <2>1, MoveStep DEF Stages, EarlyStages, Carrying
<1>3. ASSUME NEW p \in Procs, PublishEvent(p) \/ PublishFails(p)  PROVE Safe'
  BY <1>3, PublicationStep DEF PublishEvent, PublishFails
<1>4. ASSUME NEW c \in Calls, CallSkill(c) \/ ProposePlaybook(c) \/ SeePending(c)  PROVE Safe'
  <2>1. PICK label \in Stages : GoTo(c, label)
    BY <1>4 DEF CallSkill, ProposePlaybook, SeePending, Stages
  <2>2. pc[c] \in EarlyStages /\ UNCHANGED <<ticket, trail, runs, said>>
    BY <1>4 DEF CallSkill, ProposePlaybook, SeePending, EarlyStages
  <2>3. c \in Procs /\ c \notin Decisions
    BY DEF Procs, ApprovalsAssumption
  <2> QED  BY <2>1, <2>2, <2>3, MoveStep
<1>5. ASSUME NEW c \in Calls, AddTicket(c)  PROVE Safe'
  <2>1. /\ pc[c] = "ticketing"
        /\ ticket' = [ticket EXCEPT ![c] = "pending"]
        /\ GoTo(c, "announcing")
        /\ UNCHANGED <<trail, runs, said>>
    BY <1>5 DEF AddTicket
  <2>2. c \in Procs /\ c \notin Decisions /\ Decisions \subseteq Procs /\ Calls \subseteq Procs
        /\ Gated \subseteq Calls
    BY DEF Procs, ApprovalsAssumption
  <2>3. /\ pc'[c] = "announcing"
        /\ \A q \in Procs : q # c => pc'[q] = pc[q]
        /\ \A d \in Decisions : task'[d] = task[d]
    BY <2>1, <2>2, GotoEffect DEF Typed, Stages
  <2>4. \A d \in Decisions : pc'[d] = pc[d]
    BY <2>2, <2>3
  <2>5. said[c] = {}
    BY <2>1 DEF Safe, Early, EarlyStages
  <2>6. \A x \in Calls : x # c => ticket'[x] = ticket[x]
    BY <2>1 DEF Typed, ApprovalsTypeOK
  <2>7. Early' /\ Undecided'
    BY <2>1, <2>2, <2>3, <2>5, <2>6 DEF Safe, Early, Undecided, EarlyStages
  <2>8. Announced' /\ Bearing'
    BY <2>1, <2>3, <2>4 DEF Safe, Announced, Bearing, YesTask
  <2>9. \A d \in Decisions, x \in Gated : Carries(d, x)' => Carries(d, x)
    BY <2>3, <2>4 DEF Carries, YesTask
  <2>10. Fresh' /\ Sole' /\ RunsAfterOneYes' /\ TrailBeforeRun'
    BY <2>1, <2>9 DEF Safe, Fresh, Sole, RunsAfterOneYes, TrailBeforeRun, Yes
  <2> QED  BY <2>7, <2>8, <2>10 DEF Safe
<1>6. ASSUME NEW d \in Decisions, ResolveTicket(d) \/ ResolveTicketFails(d)  PROVE Safe'
  <2>1. d \in Procs /\ pc[d] = "deciding" /\ UNCHANGED <<trail, runs>>
    BY <1>6 DEF ResolveTicket, ResolveTicketFails, Procs
  <2>2. CASE UNCHANGED <<ticket, said>> /\ GoTo(d, "over")
    <3>1. d \notin Calls
      BY DEF ApprovalsAssumption
    <3> QED  BY <2>1, <2>2, <3>1, MoveStep DEF Stages, EarlyStages, Carrying
  <2>3. ASSUME NEW label \in {"announcing", "over"},
               ticket[task[d].call] = "pending", Owner[task[d].call] = task[d].user,
               StoreDecision(task[d].call, task[d].user, task[d].verdict),
               GoTo(d, label)
        PROVE  Safe'
    BY <2>1, <2>3, DecideSafe
  <2> QED  BY <1>6, <2>2, <2>3 DEF ResolveTicket, ResolveTicketFails
<1>7. ASSUME NEW d \in Decisions, NEW t \in Task, AskToDecide(d, t)  PROVE Safe'
  <2>1. d \in Procs /\ d \notin Calls
    BY DEF Procs, ApprovalsAssumption
  <2>2. UNCHANGED <<ticket, trail, runs, said>> /\ pc[d] = "idle"
    BY <1>7 DEF AskToDecide
  <2>3. CASE GoTo(d, "over")
    BY <2>1, <2>2, <2>3, MoveStep DEF Stages, EarlyStages, Carrying
  <2>4. CASE /\ pc' = [pc EXCEPT ![d] = "deciding"]
             /\ task' = [task EXCEPT ![d] = t]
    <3>1. /\ pc'[d] = "deciding"
          /\ \A q \in Procs : q # d => pc'[q] = pc[q]
          /\ \A e \in Decisions : e # d => task'[e] = task[e]
      BY <2>1, <2>4 DEF Typed, ApprovalsTypeOK
    <3>2. Decisions \subseteq Procs /\ Calls \subseteq Procs
      BY DEF Procs
    <3>3. \A c \in Calls : pc'[c] \in EarlyStages => pc[c] \in EarlyStages
      BY <2>1, <3>1, <3>2
    <3>4. \A e \in Decisions : pc'[e] \in Carrying => pc[e] = pc'[e] /\ task'[e] = task[e]
      BY <3>1, <3>2 DEF Carrying
    <3>5. \A e \in Decisions : pc'[e] = "announcing" => pc[e] = "announcing"
      BY <3>1, <3>2
    <3>6. \A e \in Decisions : pc'[e] \in {"scopes", "gate"} =>
              /\ task[e] = YesTask(task[e].call)
              /\ "approved" \in trail'[task[e].call]
      BY <2>2, <3>4 DEF Safe, Bearing, Carrying
    <3>7. \A c \in Calls : /\ trail[c] \subseteq trail'[c]
                           /\ \A v \in trail'[c] : [user |-> Owner[c], verdict |-> v] \in said[c]
      BY <2>2 DEF Safe, TrailBeforeRun
    <3>8. runs' = runs /\ said' = said /\ \A c \in Calls : ticket'[c] \in {ticket[c], "none"}
      BY <2>2
    <3> QED  BY <3>3, <3>4, <3>5, <3>6, <3>7, <3>8, MildStep
  <2> QED  BY <1>7, <2>3, <2>4 DEF AskToDecide
<1>8. ASSUME Restart  PROVE Safe'
  <2>1. \A p \in Procs : pc'[p] \in {"idle", "over"} /\ (pc'[p] = "idle" => pc[p] = "idle")
    BY <1>8 DEF Restart
  <2>2. Decisions \subseteq Procs /\ Calls \subseteq Procs
    BY DEF Procs
  <2>3. runs' = runs /\ said' = said /\ trail' = trail
        /\ \A c \in Calls : ticket'[c] \in {ticket[c], "none"}
    BY <1>8 DEF Restart
  <2>4. \A c \in Calls : pc'[c] \in EarlyStages => pc[c] \in EarlyStages
    BY <2>1, <2>2 DEF EarlyStages
  <2>5. \A d \in Decisions : pc'[d] \notin Carrying
    BY <2>1, <2>2 DEF Carrying
  <2>6. \A c \in Calls : /\ trail[c] \subseteq trail'[c]
                         /\ \A v \in trail'[c] : [user |-> Owner[c], verdict |-> v] \in said[c]
    BY <2>3 DEF Safe, TrailBeforeRun
  <2> QED  BY <2>3, <2>4, <2>5, <2>6, MildStep DEF Carrying
<1>9. CASE UNCHANGED approvalsVars
  <2>1. /\ Early' /\ Undecided' /\ Announced' /\ Bearing'
    BY <1>9 DEF approvalsVars, Safe, Early, Undecided, Announced, Bearing, YesTask
  <2>2. Fresh' /\ Sole' /\ RunsAfterOneYes' /\ TrailBeforeRun'
    BY <1>9 DEF approvalsVars, Safe, Fresh, Sole, Carries, YesTask, RunsAfterOneYes, TrailBeforeRun, Yes
  <2> QED  BY <2>1, <2>2 DEF Safe
<1> QED
  BY <1>1, <1>2, <1>3, <1>4, <1>5, <1>6, <1>7, <1>8, <1>9, GateStep DEF ApprovalsNext

LEMMA SafeAlways == ApprovalsSpec => []Safe
<1>1. ApprovalsInit => Safe
  BY SafeInit, ApprovalsAssumption
<1>2. Typed /\ Safe /\ [ApprovalsNext]_approvalsVars => Safe'
  BY SafeStep, ApprovalsAssumption
<1> QED  BY <1>1, <1>2, TypedAlways, PTL DEF ApprovalsSpec

\* For any calls, users, decisions, failures and restarts, an action above the
\* limit runs at most once, and only after the one yes of its owner.
THEOREM OneYesOneRun == ApprovalsSpec => []RunsAfterOneYes
<1>1. Safe => RunsAfterOneYes
  BY DEF Safe
<1> QED  BY <1>1, SafeAlways, PTL

\* The audit trail holds only decisions the store accepted, and holds the yes
\* before the action runs.
THEOREM TrailFirst == ApprovalsSpec => []TrailBeforeRun
<1>1. Safe => TrailBeforeRun
  BY DEF Safe
<1> QED  BY <1>1, SafeAlways, PTL

-----------------------------------------------------------------------------
(* Scopes.                                                                 *)

\* Permissions change with the process only, so who is past the scopes has them.
PastScopes == \A p \in Procs : pc[p] = "gate" => granted

\* No step but Scopes brings a process to the gate.
LEMMA PastScopesStep ==
    ASSUME ApprovalsAssumption, Typed, PastScopes, [ApprovalsNext]_approvalsVars
    PROVE  PastScopes'
<1>1. ASSUME NEW p \in Procs, NEW label \in Stages, GoTo(p, label), granted' = granted,
             label = "gate" => granted
      PROVE  PastScopes'
  BY <1>1, GotoEffect DEF PastScopes, Typed
<1>2. ASSUME NEW p \in Procs, Scopes(p)  PROVE PastScopes'
  BY <1>1, <1>2 DEF Scopes, Stages
<1>3. ASSUME NEW p \in Procs, Gate(p)  PROVE PastScopes'
  BY <1>1, <1>3 DEF Gate, Stages
<1>4. ASSUME NEW p \in Procs, HandlerReturns(p) \/ HandlerRaises(p)  PROVE PastScopes'
  BY <1>1, <1>4 DEF HandlerReturns, HandlerRaises, Stages
<1>5. ASSUME NEW p \in Procs, PublishEvent(p) \/ PublishFails(p)  PROVE PastScopes'
  BY <1>1, <1>5 DEF PublishEvent, PublishFails, AfterPublication, Stages
<1>6. ASSUME NEW c \in Calls, CallSkill(c) \/ ProposePlaybook(c) \/ SeePending(c) \/ AddTicket(c)
      PROVE  PastScopes'
  <2>1. c \in Procs
    BY DEF Procs
  <2>2. \E label \in Stages \ {"gate"} : GoTo(c, label)
    BY <1>6 DEF CallSkill, ProposePlaybook, SeePending, AddTicket, Stages
  <2>3. granted' = granted
    BY <1>6 DEF CallSkill, ProposePlaybook, SeePending, AddTicket
  <2> QED  BY <1>1, <2>1, <2>2, <2>3
<1>7. ASSUME NEW d \in Decisions, ResolveTicket(d) \/ ResolveTicketFails(d)  PROVE PastScopes'
  <2>1. d \in Procs
    BY DEF Procs
  <2>2. granted' = granted /\ (GoTo(d, "announcing") \/ GoTo(d, "over"))
    BY <1>7 DEF ResolveTicket, ResolveTicketFails
  <2> QED  BY <1>1, <2>1, <2>2 DEF Stages
<1>8. ASSUME NEW d \in Decisions, NEW t \in Task, AskToDecide(d, t)  PROVE PastScopes'
  <2>1. pc' = [pc EXCEPT ![d] = "over"] \/ pc' = [pc EXCEPT ![d] = "deciding"]
    BY <1>8 DEF AskToDecide, GoTo
  <2>2. granted' = granted
    BY <1>8 DEF AskToDecide
  <2> QED  BY <2>1, <2>2 DEF PastScopes, Typed, ApprovalsTypeOK
<1>9. ASSUME Restart  PROVE PastScopes'
  BY <1>9 DEF Restart, PastScopes
<1>10. CASE UNCHANGED approvalsVars
  BY <1>10 DEF approvalsVars, PastScopes
<1> QED
  BY <1>2, <1>3, <1>4, <1>5, <1>6, <1>7, <1>8, <1>9, <1>10 DEF ApprovalsNext

\* Nothing enters its handler while its scopes are missing, whoever approved it.
THEOREM ApprovalKeepsScopes == ApprovalsSpec => ConfirmingNeverWidens
<1>1. ApprovalsInit => PastScopes
  BY DEF ApprovalsInit, PastScopes
<1>2. Typed /\ PastScopes /\ [ApprovalsNext]_approvalsVars => PastScopes'
  BY PastScopesStep, ApprovalsAssumption
<1>3. PastScopes /\ [ApprovalsNext]_approvalsVars => [\A c \in Calls : runs'[c] # runs[c] => granted]_approvalsVars
  <2> SUFFICES ASSUME PastScopes, ApprovalsNext, NEW c \in Calls, runs' # runs  PROVE granted
    OBVIOUS
  <2>1. \E p \in Procs : Gate(p)
    BY DEF ApprovalsNext, Scopes, HandlerReturns, HandlerRaises, PublishEvent, PublishFails, CallSkill, ProposePlaybook,
       SeePending, AddTicket, ResolveTicket, ResolveTicketFails, AskToDecide, Restart
  <2> QED  BY <2>1 DEF Gate, PastScopes
<1> QED  BY <1>1, <1>2, <1>3, TypedAlways, PTL DEF ApprovalsSpec, ConfirmingNeverWidens

-----------------------------------------------------------------------------
(* Approving is executing.                                                 *)

Incident == used.failures > 0 \/ used.restarts > 0 \/ ~granted

\* A step of another process, or one that decides nothing about c, leaves an
\* approved action where it was.
LEMMA StillCarried ==
    ASSUME ApprovalsAssumption, Typed, YesIsExecuted,
           used' = used, granted' = granted,
           \A c \in Gated : ticket'[c] = "approved" => ticket[c] = "approved",
           \A c \in Gated : runs[c] > 0 => runs'[c] > 0,
           \A d \in Decisions, c \in Gated :
               Carries(d, c) => Carries(d, c)' \/ runs'[c] > 0 \/ Incident
    PROVE  YesIsExecuted'
<1> SUFFICES ASSUME NEW c \in Gated, ticket'[c] = "approved"
             PROVE  \/ runs'[c] > 0
                    \/ Incident'
                    \/ \E d \in Decisions : Carries(d, c)'
  BY DEF YesIsExecuted, Carries, Carrying, YesTask, Incident
<1>1. \/ runs[c] > 0 \/ Incident
      \/ \E d \in Decisions : Carries(d, c)
  BY DEF YesIsExecuted, Carries, Carrying, YesTask, Incident
<1>2. Incident' = Incident
  BY DEF Incident
<1> QED  BY <1>1, <1>2

LEMMA CarriedStep ==
    ASSUME ApprovalsAssumption, Typed, YesIsExecuted, [ApprovalsNext]_approvalsVars
    PROVE  YesIsExecuted'
<1>1. Decisions \subseteq Procs /\ Calls \subseteq Procs /\ Calls \cap Decisions = {}
      /\ Gated \subseteq Calls
  BY DEF Procs, ApprovalsAssumption
<1>2. ASSUME NEW p \in Procs, NEW label \in Stages, GoTo(p, label),
             used' = used, granted' = granted, runs' = runs,
             \A c \in Gated : ticket'[c] = "approved" => ticket[c] = "approved",
             p \in Decisions /\ pc[p] \in Carrying =>
                 label \in Carrying \/ task[p].verdict # "approved" \/ ~granted
      PROVE  YesIsExecuted'
  <2>1. /\ pc'[p] = label
        /\ \A q \in Procs : q # p => pc'[q] = pc[q]
        /\ \A d \in Decisions : d # p \/ label # "over" => task'[d] = task[d]
    BY <1>2, GotoEffect DEF Typed
  <2>2. \A d \in Decisions, c \in Gated : Carries(d, c) => Carries(d, c)' \/ Incident
    BY <1>1, <1>2, <2>1 DEF Carries, Carrying, YesTask, Incident
  <2> QED  BY <1>2, <2>2, StillCarried
<1>3. ASSUME NEW p \in Procs, Scopes(p)  PROVE YesIsExecuted'
  <2>1. CASE GoTo(p, "gate")
    BY <1>2, <1>3, <2>1 DEF Scopes, Stages, Carrying
  <2>2. CASE GoTo(p, "over") /\ (~granted \/ p \in Requests)
    BY <1>1, <1>2, <1>3, <2>2 DEF Scopes, Stages, Calls
  <2> QED  BY <1>3, <2>1, <2>2 DEF Scopes
<1>4. ASSUME NEW p \in Procs, Gate(p)  PROVE YesIsExecuted'
  <2>1. CASE p \notin Decisions /\ p \in Gated
    BY <1>2, <1>4, <2>1 DEF Gate, Stages
  <2>2. CASE p \in Decisions \/ p \notin Gated
    <3>1. /\ GoTo(p, "running") /\ runs' = [runs EXCEPT ![About(p)] = @ + 1]
          /\ UNCHANGED <<used, granted, ticket>>
      BY <1>4, <2>2 DEF Gate
    <3>2. /\ \A q \in Procs : q # p => pc'[q] = pc[q]
          /\ \A d \in Decisions : task'[d] = task[d]
      BY <3>1, GotoEffect DEF Typed, Stages
    <3>3. \A c \in Gated : runs[c] \in Nat /\ runs'[c] = (IF c = About(p) THEN runs[c] + 1 ELSE runs[c])
      BY <1>1, <3>1 DEF Typed, ApprovalsTypeOK
    <3>4. \A c \in Gated : (runs[c] > 0 => runs'[c] > 0) /\ (c = About(p) => runs'[c] > 0)
      BY <3>3
    <3>5. \A c \in Gated : p \in Decisions /\ Carries(p, c) => c = About(p)
      BY DEF Carries, YesTask, About
    <3>6. \A d \in Decisions, c \in Gated : Carries(d, c) => Carries(d, c)' \/ runs'[c] > 0
      <4>1. ASSUME NEW d \in Decisions, NEW c \in Gated, Carries(d, c), d # p  PROVE Carries(d, c)'
        BY <1>1, <3>2, <4>1 DEF Carries, YesTask
      <4> QED  BY <3>4, <3>5, <4>1
    <3> QED  BY <3>1, <3>4, <3>6, StillCarried
  <2> QED  BY <2>1, <2>2
<1>5. ASSUME NEW p \in Procs, HandlerReturns(p) \/ HandlerRaises(p)  PROVE YesIsExecuted'
  BY <1>2, <1>5 DEF HandlerReturns, HandlerRaises, Stages, Carrying
<1>6. ASSUME NEW p \in Procs, PublishEvent(p)  PROVE YesIsExecuted'
  <2>1. AfterPublication(p) \in Stages
    BY DEF AfterPublication, Stages
  <2>2. p \in Decisions /\ pc[p] \in Carrying =>
            AfterPublication(p) \in Carrying \/ task[p].verdict # "approved"
    BY <1>6 DEF PublishEvent, Publishing, AfterPublication, Announcing, Carrying
  <2> QED  BY <1>2, <1>6, <2>1, <2>2 DEF PublishEvent
<1>7. ASSUME Fail, ApprovalsTypeOK  PROVE used'.failures > 0
  BY <1>7 DEF Fail, ApprovalsTypeOK
<1>8. ASSUME NEW p \in Procs, PublishFails(p)  PROVE YesIsExecuted'
  BY <1>7, <1>8 DEF PublishFails, Typed, YesIsExecuted
<1>9. ASSUME NEW c \in Calls, CallSkill(c) \/ ProposePlaybook(c) \/ SeePending(c) \/ AddTicket(c)
      PROVE  YesIsExecuted'
  <2>1. c \in Procs /\ c \notin Decisions
    BY <1>1
  <2>2. \E label \in Stages : GoTo(c, label)
    BY <1>9 DEF CallSkill, ProposePlaybook, SeePending, AddTicket, Stages
  <2>3. used' = used /\ granted' = granted /\ runs' = runs
    BY <1>9 DEF CallSkill, ProposePlaybook, SeePending, AddTicket
  <2>4. \A x \in Gated : ticket'[x] = "approved" => ticket[x] = "approved"
    BY <1>1, <1>9 DEF CallSkill, ProposePlaybook, SeePending, AddTicket, Typed, ApprovalsTypeOK
  <2> QED  BY <1>2, <2>1, <2>2, <2>3, <2>4
<1>10. ASSUME NEW d \in Decisions, ResolveTicketFails(d)  PROVE YesIsExecuted'
  BY <1>7, <1>10 DEF ResolveTicketFails, Typed, YesIsExecuted
<1>11. ASSUME NEW d \in Decisions, ResolveTicket(d)  PROVE YesIsExecuted'
  <2>1. d \in Procs /\ pc[d] = "deciding" /\ UNCHANGED <<used, granted, runs>>
    BY <1>1, <1>11 DEF ResolveTicket
  <2>2. CASE UNCHANGED ticket /\ GoTo(d, "over")
    BY <1>2, <2>1, <2>2 DEF Stages, Carrying
  <2>3. CASE /\ Owner[task[d].call] = task[d].user
             /\ StoreDecision(task[d].call, task[d].user, task[d].verdict)
             /\ GoTo(d, "announcing")
    <3>1. task[d] \in Task
      BY <2>1 DEF Typed, Known, Busy
    <3>2. /\ pc'[d] = "announcing"
          /\ \A q \in Procs : q # d => pc'[q] = pc[q]
          /\ \A e \in Decisions : task'[e] = task[e]
      BY <2>1, <2>3, GotoEffect DEF Typed, Stages
    <3>3. \A c \in Gated : c # task[d].call => ticket'[c] = ticket[c]
      BY <1>1, <2>3 DEF StoreDecision, Typed, ApprovalsTypeOK
    <3>4. ticket'[task[d].call] = task[d].verdict
      BY <2>3, <3>1 DEF StoreDecision, Typed, ApprovalsTypeOK, Task
    <3>5. task[d] = [call |-> task[d].call, user |-> task[d].user, verdict |-> task[d].verdict]
      BY <3>1 DEF Task
    <3>6. \A c \in Gated : c = task[d].call /\ task[d].verdict = "approved" => Carries(d, c)'
      BY <2>3, <3>2, <3>5 DEF Carries, Carrying, YesTask
    <3>7. \A e \in Decisions, c \in Gated : Carries(e, c) => Carries(e, c)'
      BY <1>1, <2>1, <3>2 DEF Carries, Carrying, YesTask
    <3> SUFFICES ASSUME NEW c \in Gated, ticket'[c] = "approved"
                 PROVE  \/ runs'[c] > 0
                        \/ Incident'
                        \/ \E e \in Decisions : Carries(e, c)'
      BY DEF YesIsExecuted, Carries, Carrying, YesTask, Incident
    <3>8. CASE c = task[d].call
      BY <3>4, <3>6, <3>8
    <3>9. CASE c # task[d].call
      <4>1. runs[c] > 0 \/ Incident \/ \E e \in Decisions : Carries(e, c)
        BY <3>3, <3>9 DEF YesIsExecuted, Carries, Carrying, YesTask, Incident
      <4>2. Incident' = Incident
        BY <2>1 DEF Incident
      <4> QED  BY <2>1, <3>7, <4>1, <4>2
    <3> QED  BY <3>8, <3>9
  <2> QED  BY <1>11, <2>2, <2>3 DEF ResolveTicket
<1>12. ASSUME NEW d \in Decisions, NEW t \in Task, AskToDecide(d, t)  PROVE YesIsExecuted'
  <2>1. d \in Procs /\ pc[d] = "idle" /\ UNCHANGED <<used, granted, runs, ticket>>
    BY <1>1, <1>12 DEF AskToDecide
  <2>2. /\ \A q \in Procs : q # d => pc'[q] = pc[q]
        /\ \A e \in Decisions : e # d => task'[e] = task[e]
    BY <1>12, <2>1 DEF AskToDecide, GoTo, Typed, ApprovalsTypeOK
  <2>3. \A e \in Decisions, c \in Gated : Carries(e, c) => Carries(e, c)'
    BY <1>1, <2>1, <2>2 DEF Carries, Carrying, YesTask
  <2> QED  BY <2>1, <2>3, StillCarried
<1>13. ASSUME Restart  PROVE YesIsExecuted'
  <2>1. used'.restarts > 0
    BY <1>13 DEF Restart, Typed, ApprovalsTypeOK
  <2> QED  BY <2>1 DEF YesIsExecuted
<1>14. CASE UNCHANGED approvalsVars
  BY <1>14 DEF approvalsVars, YesIsExecuted
<1> QED
  BY <1>3, <1>4, <1>5, <1>6, <1>8, <1>9, <1>10, <1>11, <1>12, <1>13, <1>14 DEF ApprovalsNext

\* An approved action is never left behind: it ran, or the decision that
\* approved it still carries it to its handler, unless something failed.
THEOREM YesNeverForgotten == ApprovalsSpec => []YesIsExecuted
<1>1. ApprovalsInit => YesIsExecuted
  <2>1. ApprovalsInit => \A c \in Gated : ticket[c] = "none"
    BY ApprovalsAssumption DEF ApprovalsInit, ApprovalsAssumption
  <2> QED  BY <2>1 DEF YesIsExecuted
<1>2. Typed /\ YesIsExecuted /\ [ApprovalsNext]_approvalsVars => YesIsExecuted'
  BY CarriedStep, ApprovalsAssumption
<1> QED  BY <1>1, <1>2, TypedAlways, PTL DEF ApprovalsSpec
=============================================================================
