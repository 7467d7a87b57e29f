------------------------- MODULE OrchestrationProofs -------------------------
(***************************************************************************)
(* Proofs about the orchestrator of module Orchestration: its type         *)
(* correctness, that what runs in a chain of delegations is within the     *)
(* scopes of every agent of the chain, that a tree of delegations stays    *)
(* within the budget of its first agent, and that a goal is proposed once. *)
(*                                                                         *)
(* The first three speak of one execution at a time: what each operator of *)
(* the sandbox makes of an execution is a lemma, and a step of AgentsNext is one *)
(* of those operators on one execution, or leaves all of them alone.       *)
(***************************************************************************)
EXTENDS Orchestration, SequenceTheorems, WellFoundedInduction, TLAPS

\* The places of an execution that has no sandbox.
Outside == {"idle", "plan", "ask", "search", "pending", "propose", "over"}

\* Who delegates waits at the item it delegated.
Waits(e) == \A n \in 1..Len(e.frames) : n < Len(e.frames) \/ e.pc = "skill" => e.frames[n].todo # <<>>

\* A sandbox has at most the scopes of all agents above it.
Narrows(e) == \A n \in 1..Len(e.frames) : \A m \in 1..n : e.frames[n].scopes \subseteq Manifest[e.frames[m].agent].scopes

Placed(e) ==
    /\ e.pc \in {"enter", "work"} => e.frames # <<>>
    /\ e.pc \in Outside \/ e.goal # None => e.frames = <<>>
    /\ e.skill # None <=> e.pc = "skill"
    /\ e.pc = "idle" => e = Idle
    /\ e.pc \in {"plan", "ask", "search", "pending", "propose"} => e.goal # None

\* The skill that runs was allowed by the sandbox it runs in.
Permitted(e) ==
    e.skill # None => /\ ScopeOf[e.skill] \in Granted
                      /\ e.frames # <<>> => ScopeOf[e.skill] \in Top(e).scopes

\* A skill runs after its debit.
Budgeted(e) == e.frames # <<>> => e.ran <= e.spent /\ e.ran <= Limit(e)

Sound(e) == e \in Executions /\ Waits(e) /\ Narrows(e) /\ Placed(e) /\ Permitted(e) /\ Budgeted(e)

ExecInv == \A x \in Exec : Sound(exec[x])

\* The goals x is about to propose, when no other moves.
OnlyProposer ==
    \A g \in Goal \ raced : \A x \in Proposing(g) :
        /\ Proposing(g) = {x}
        /\ approved[g] = 0 /\ playbooks[g] = 0
        /\ exec[x].pc = "propose" => pending[g] = 0
ProposalInv == OneProposal /\ OnlyProposer
\* Between two items every sandbox of the chain waits at one.
Waiting(e) ==
    /\ e \in Executions /\ Narrows(e) /\ Budgeted(e) /\ e.goal = None
    /\ \A n \in 1..Len(e.frames) : e.frames[n].todo # <<>>

-----------------------------------------------------------------------------
(* Sequences and sandboxes.                                                *)

LEMMA NatOrder == \E R : IsWellFoundedOn(R, Nat) /\ \A x, y \in Nat : <<y, x>> \in R <=> y < x
<1> DEFINE R == OpToRel(<, Nat)
<1>1. \A x, y \in Nat : <<y, x>> \in R <=> y < x
  BY DEF OpToRel
<1>2. IsWellFoundedOn(R, Nat)
  BY NatLessThanWellFounded
<1> QED
  BY <1>1, <1>2

LEMMA Least ==
    ASSUME NEW S, S \subseteq Nat, S # {}
    PROVE  \E n \in S : \A m \in S : n <= m
<1>1. PICK R : IsWellFoundedOn(R, Nat) /\ \A x, y \in Nat : <<y, x>> \in R <=> y < x
  BY NatOrder
<1>2. PICK n \in S : \A m \in S : ~ (<<m, n>> \in R)
  BY <1>1, WFMin
<1>3. ASSUME NEW m \in S PROVE n <= m
  <2>1. n \in Nat /\ m \in Nat
    BY <1>3
  <2>2. ~ (m < n)
    BY <1>1, <1>2, <2>1, Zenon
  <2> QED
    BY <2>1, <2>2
<1> QED
  BY <1>3

LEMMA Greatest ==
    ASSUME NEW k \in Nat, NEW S, S \subseteq 1..k, S # {}
    PROVE  \E n \in S : \A m \in S : m <= n
<1> DEFINE T == {k - m : m \in S}
<1>1. T \subseteq Nat /\ T # {}
  <2>1. \A m \in S : m \in Int /\ k - m \in Nat
    OBVIOUS
  <2> QED
    BY <2>1
<1>2. PICK t \in T : \A u \in T : t <= u
  <2> HIDE DEF T
  <2> QED
    BY <1>1, Least
<1>3. PICK n \in S : t = k - n
  OBVIOUS
<1>4. ASSUME NEW m \in S PROVE m <= n
  <2>1. k - n <= k - m
    BY <1>2, <1>3, <1>4
  <2> QED
    BY <2>1
<1> QED
  BY <1>4

\* The chain of f is a beginning of the chain of e.
Begins(f, e) ==
    /\ Len(f.frames) \in 1..Len(e.frames)
    /\ \A m \in 1..Len(f.frames) : /\ f.frames[m].agent = e.frames[m].agent
                                   /\ f.frames[m].scopes = e.frames[m].scopes

LEMMA BeginsKeeps ==
    ASSUME NEW e \in Executions, NEW f \in Executions, Begins(f, e), Narrows(e), Budgeted(e),
           f.ran = e.ran, f.spent = e.spent
    PROVE  Narrows(f) /\ Budgeted(f)
<1>0. Len(e.frames) \in Nat /\ Len(f.frames) \in Nat
  BY DEF Executions
<1>1. ASSUME NEW n \in 1..Len(f.frames), NEW m \in 1..n
      PROVE  f.frames[n].scopes \subseteq Manifest[f.frames[m].agent].scopes
  <2>1. n \in 1..Len(e.frames) /\ m \in 1..Len(f.frames)
    BY <1>0 DEF Begins
  <2>2. e.frames[n].scopes \subseteq Manifest[e.frames[m].agent].scopes
    BY <2>1 DEF Narrows
  <2>3. f.frames[n].scopes = e.frames[n].scopes /\ f.frames[m].agent = e.frames[m].agent
    BY <2>1 DEF Begins
  <2> QED
    BY <2>2, <2>3
<1>2. e.frames # <<>> /\ f.frames[1].agent = e.frames[1].agent
  BY <1>0 DEF Begins
<1>3. Narrows(f)
  BY <1>1 DEF Narrows
<1> QED
  BY <1>2, <1>3 DEF Budgeted, Limit

LEMMA CutFrames ==
    ASSUME NEW e \in Executions, NEW n \in 1..Len(e.frames), NEW f, f = [e EXCEPT !.frames = SubSeq(@, 1, n)]
    PROVE  /\ f \in Executions /\ Begins(f, e) /\ Len(f.frames) = n
           /\ \A m \in 1..n : f.frames[m] = e.frames[m]
           /\ f.pc = e.pc /\ f.ran = e.ran /\ f.spent = e.spent /\ f.goal = e.goal /\ f.skill = e.skill
<1>0. e.frames \in Seq(Frames) /\ Len(e.frames) \in Nat
  BY DEF Executions
<1>1. f.frames = SubSeq(e.frames, 1, n)
  BY DEF Executions
<1>2. /\ f.frames \in Seq(Frames) /\ Len(f.frames) = n
      /\ \A m \in 1..n : f.frames[m] = e.frames[m]
  BY <1>0, <1>1, SubSeqProperties
<1>3. f \in Executions
  BY <1>1, <1>2 DEF Executions
<1>4. /\ f.pc = e.pc /\ f.ran = e.ran /\ f.spent = e.spent /\ f.goal = e.goal /\ f.skill = e.skill
  BY DEF Executions
<1> QED
  BY <1>0, <1>2, <1>3, <1>4 DEF Begins

LEMMA Next1Frames ==
    ASSUME NEW e \in Executions, e.frames # <<>>, Top(e).todo # <<>>
    PROVE  /\ Next1(e) \in Executions /\ Begins(Next1(e), e) /\ Len(Next1(e).frames) = Len(e.frames)
           /\ \A m \in 1..(Len(e.frames) - 1) : Next1(e).frames[m] = e.frames[m]
           /\ Next1(e).pc = "work" /\ Next1(e).skill = None
           /\ Next1(e).ran = e.ran /\ Next1(e).spent = e.spent /\ Next1(e).goal = e.goal
<1> DEFINE k == Len(e.frames)
           last == [e.frames[k] EXCEPT !.todo = Tail(e.frames[k].todo)]
<1>0. e.frames \in Seq(Frames) /\ k \in Nat /\ k \in 1..k
  BY DEF Executions
<1>1. e.frames[k] \in Frames /\ e.frames[k].todo # <<>>
  BY <1>0 DEF Top
<1>2. Tail(e.frames[k].todo) \in Seq(Items)
  BY <1>1 DEF Frames
<1>3. last \in Frames /\ last.agent = e.frames[k].agent /\ last.scopes = e.frames[k].scopes
  BY <1>1, <1>2 DEF Frames
<1>4. Next1(e).frames = [e.frames EXCEPT ![k] = last]
  BY DEF Next1, Executions
<1> HIDE DEF last
<1>5. /\ Next1(e).frames \in Seq(Frames) /\ Len(Next1(e).frames) = k
      /\ Next1(e).frames[k] = last
      /\ \A m \in 1..k : m # k => Next1(e).frames[m] = e.frames[m]
  BY <1>0, <1>3, <1>4, ExceptSeq
<1>6. /\ Next1(e).pc = "work" /\ Next1(e).skill = None
      /\ Next1(e).ran = e.ran /\ Next1(e).spent = e.spent /\ Next1(e).goal = e.goal
      /\ Next1(e).cancelled = e.cancelled /\ Next1(e).plan = e.plan /\ Next1(e).results = e.results
  BY DEF Next1, Executions
<1>7. Next1(e) \in Executions
  <2>1. Next1(e) = [e EXCEPT !.frames = Next1(e).frames, !.pc = "work", !.skill = None]
    BY <1>4 DEF Next1, Executions, last
  <2> QED
    BY <1>5, <2>1 DEF Executions, WorkPlaces
<1> QED
  BY <1>0, <1>3, <1>5, <1>6, <1>7 DEF Begins

LEMMA OverSound == Sound(Over) /\ Sound(Idle)
<1>1. Idle \in Executions /\ Over \in Executions
  BY EmptySeq DEF Idle, Over, Executions, WorkPlaces
<1>2. Idle.frames = <<>> /\ Over.frames = <<>> /\ Idle.skill = None /\ Over.skill = None
  BY DEF Idle, Over
<1>3. Idle.goal = None /\ Over.goal = None /\ Idle.pc = "idle" /\ Over.pc = "over"
  BY DEF Idle, Over
<1>4. Len(Idle.frames) = 0 /\ Len(Over.frames) = 0
  BY <1>2
<1> QED
  BY <1>1, <1>2, <1>3, <1>4 DEF Sound, Waits, Narrows, Placed, Permitted, Budgeted, Outside

-----------------------------------------------------------------------------
(* What the operators of the sandbox make of an execution.                 *)

LEMMA Next1Sound ==
    ASSUME NEW e, Waiting(e), e.frames # <<>>
    PROVE  Sound(Next1(e))
<1>0. e \in Executions /\ e.frames \in Seq(Frames) /\ Len(e.frames) \in Nat
  BY DEF Waiting, Executions
<1>1. Top(e).todo # <<>>
  BY <1>0 DEF Waiting, Top
<1>2. /\ Next1(e) \in Executions /\ Begins(Next1(e), e) /\ Len(Next1(e).frames) = Len(e.frames)
      /\ \A m \in 1..(Len(e.frames) - 1) : Next1(e).frames[m] = e.frames[m]
      /\ Next1(e).pc = "work" /\ Next1(e).skill = None
      /\ Next1(e).ran = e.ran /\ Next1(e).spent = e.spent /\ Next1(e).goal = None
  BY <1>0, <1>1, Next1Frames DEF Waiting
<1>3. Narrows(Next1(e)) /\ Budgeted(Next1(e))
  BY <1>0, <1>2, BeginsKeeps DEF Waiting
<1>4. Waits(Next1(e))
  BY <1>0, <1>2 DEF Waits, Waiting
<1>5. Next1(e).frames # <<>>
  BY <1>0, <1>2
<1> QED
  BY <1>2, <1>3, <1>4, <1>5 DEF Sound, Placed, Permitted, Outside

LEMMA CutWaiting ==
    ASSUME NEW e, Waiting(e), NEW n \in 1..Len(e.frames), NEW f, f = [e EXCEPT !.frames = SubSeq(@, 1, n)]
    PROVE  Waiting(f) /\ f.frames # <<>>
<1>0. e \in Executions /\ Len(e.frames) \in Nat
  BY DEF Waiting, Executions
<1>1. /\ f \in Executions /\ Begins(f, e) /\ Len(f.frames) = n
      /\ \A m \in 1..n : f.frames[m] = e.frames[m]
      /\ f.ran = e.ran /\ f.spent = e.spent /\ f.goal = e.goal
  BY <1>0, CutFrames
<1>2. Narrows(f) /\ Budgeted(f)
  BY <1>0, <1>1, BeginsKeeps DEF Waiting
<1>3. f.frames # <<>>
  BY <1>1
<1> QED
  BY <1>0, <1>1, <1>2, <1>3 DEF Waiting

LEMMA RaiseSound ==
    ASSUME NEW e, Waiting(e)
    PROVE  Sound(Raise(e))
<1>0. e \in Executions /\ e.frames \in Seq(Frames) /\ Len(e.frames) \in Nat
  BY DEF Waiting, Executions
<1>1. CASE Catcher(e) = {}
  BY <1>1, OverSound DEF Raise
<1>2. CASE Catcher(e) # {}
  <2> DEFINE n == CHOOSE k \in Catcher(e) : \A m \in Catcher(e) : m <= k
             f == [e EXCEPT !.frames = SubSeq(@, 1, n)]
  <2>1. Raise(e) = Next1(f)
    BY <1>2 DEF Raise
  <2>2. Catcher(e) \subseteq 1..Len(e.frames)
    BY DEF Catcher
  <2>3. n \in Catcher(e)
    BY <1>0, <1>2, <2>2, Greatest
  <2> HIDE DEF n
  <2>4. n \in 1..Len(e.frames)
    BY <2>2, <2>3
  <2> QED
    BY <1>0, <2>1, <2>4, CutWaiting, Next1Sound
<1> QED
  BY <1>1, <1>2

LEMMA RunSkillSound ==
    ASSUME NEW e \in Executions, NEW s \in Skill, Narrows(e),
           \A n \in 1..Len(e.frames) : e.frames[n].todo # <<>>,
           e.goal # None => e.frames = <<>> /\ Allowed(e, s),
           e.frames # <<>> => e.ran < e.spent /\ e.spent <= Limit(e) /\ Limit(e) \in Nat
    PROVE  Sound(RunSkill(e, s))
<1>0. e.frames \in Seq(Frames) /\ Len(e.frames) \in Nat /\ e.ran \in Nat /\ e.spent \in Nat
  BY DEF Executions
<1>1. CASE Allowed(e, s)
  <2> DEFINE f == [e EXCEPT !.pc = "skill", !.skill = s, !.ran = e.ran + 1]
  <2>1. RunSkill(e, s) = f
    BY <1>1 DEF RunSkill
  <2>2. /\ f.pc = "skill" /\ f.skill = s /\ f.ran = e.ran + 1 /\ f.frames = e.frames
        /\ f.spent = e.spent /\ f.goal = e.goal
    BY DEF Executions
  <2>3. f \in Executions
    <3>1. e.ran + 1 \in Nat /\ s \in Skill \cup {None} /\ "skill" \in WorkPlaces
      BY <1>0 DEF WorkPlaces
    <3> QED
      BY <3>1 DEF Executions
  <2> HIDE DEF f
  <2>4. s # None
    BY OrchestrationAssumption
  <2>5. Waits(f) /\ Narrows(f)
    BY <2>2 DEF Waits, Narrows
  <2>6. Placed(f)
    BY <2>2, <2>4 DEF Placed, Outside
  <2>7. Permitted(f)
    BY <1>1, <2>2 DEF Permitted, Allowed, Top
  <2>8. Limit(f) = Limit(e)
    BY <2>2 DEF Limit
  <2>9. Budgeted(f)
    BY <1>0, <2>2, <2>8 DEF Budgeted
  <2> QED
    BY <2>1, <2>3, <2>5, <2>6, <2>7, <2>9 DEF Sound
<1>2. CASE ~Allowed(e, s)
  <2>1. Budgeted(e)
    BY <1>0 DEF Budgeted
  <2>2. Waiting(e)
    BY <1>2, <2>1 DEF Waiting
  <2> QED
    BY <1>2, <2>2, RaiseSound DEF RunSkill
<1> QED
  BY <1>1, <1>2

LEMMA EnterSound ==
    ASSUME AgentsTypeOK, NEW e, NEW a, Waiting(e), e.skill = None, e.frames = <<>> => e.ran = 0 /\ e.spent = 0
    PROVE  Sound(Enter(e, a))
<1>0. e \in Executions /\ e.frames \in Seq(Frames) /\ Len(e.frames) \in Nat
  BY DEF Waiting, Executions
<1>1. CASE a \notin agents
  BY <1>1, RaiseSound DEF Enter
<1>2. CASE a \in agents
  <2> DEFINE g == Frame(a, ChildScopes(e, a))
             f == [e EXCEPT !.frames = Append(e.frames, g), !.pc = "enter"]
             k == Len(e.frames)
  <2>1. Enter(e, a) = f
    BY <1>2 DEF Enter
  <2>2. a \in Agent /\ Manifest[a] \in Manifests
    BY <1>2, OrchestrationAssumption DEF AgentsTypeOK
  <2>3. ChildScopes(e, a) \subseteq Manifest[a].scopes
    BY DEF ChildScopes
  <2>4. /\ g \in Frames /\ g.agent = a /\ g.scopes = ChildScopes(e, a)
    BY <2>2, <2>3 DEF Frame, Frames, Manifests
  <2> HIDE DEF g
  <2>5. /\ f.frames = Append(e.frames, g) /\ f.pc = "enter"
        /\ f.ran = e.ran /\ f.spent = e.spent /\ f.goal = None /\ f.skill = None
    BY <1>0 DEF Executions, Waiting
  <2>6. /\ f.frames \in Seq(Frames) /\ Len(f.frames) = k + 1 /\ f.frames[k + 1] = g
        /\ \A m \in 1..k : f.frames[m] = e.frames[m]
    BY <1>0, <2>4, <2>5
  <2>7. f \in Executions
    BY <1>0, <2>5, <2>6 DEF Executions, WorkPlaces
  <2> HIDE DEF f
  <2>8. Waits(f)
    BY <1>0, <2>5, <2>6 DEF Waits, Waiting
  <2>9. Narrows(f)
    <3>1. ASSUME NEW m \in 1..k PROVE g.scopes \subseteq Manifest[e.frames[m].agent].scopes
      <4>1. e.frames # <<>> /\ k \in 1..k
        BY <1>0, <3>1
      <4>2. g.scopes \subseteq e.frames[k].scopes
        BY <2>4, <4>1 DEF ChildScopes, Top
      <4> QED
        BY <3>1, <4>1, <4>2 DEF Waiting, Narrows
    <3>2. ASSUME NEW n \in 1..k, NEW m \in 1..n PROVE f.frames[n].scopes \subseteq Manifest[f.frames[m].agent].scopes
      <4>1. n \in 1..k /\ m \in 1..k
        BY <1>0, <3>2
      <4>2. e.frames[n].scopes \subseteq Manifest[e.frames[m].agent].scopes
        BY <3>2 DEF Waiting, Narrows
      <4> QED
        BY <2>6, <4>1, <4>2
    <3>3. ASSUME NEW m \in 1..(k + 1) PROVE f.frames[k + 1].scopes \subseteq Manifest[f.frames[m].agent].scopes
      <4>1. m \in 1..k \/ m = k + 1
        BY <1>0, <3>3
      <4>2. f.frames[k + 1].scopes = g.scopes
        BY <2>6
      <4>3. m \in 1..k => f.frames[m].agent = e.frames[m].agent
        BY <2>6
      <4>4. f.frames[k + 1].agent = a
        BY <2>4, <2>6
      <4> QED
        BY <2>3, <2>4, <3>1, <4>1, <4>2, <4>3, <4>4
    <3>4. ASSUME NEW n \in 1..(k + 1), NEW m \in 1..n PROVE f.frames[n].scopes \subseteq Manifest[f.frames[m].agent].scopes
      <4>1. n \in 1..k \/ (n = k + 1 /\ m \in 1..(k + 1))
        BY <1>0, <3>4
      <4> QED
        BY <3>2, <3>3, <4>1
    <3> QED
      BY <2>6, <3>4 DEF Narrows
  <2>10. Budgeted(f)
    <3>1. CASE e.frames = <<>>
      <4>1. f.frames[1] = g /\ f.ran = 0 /\ f.spent = 0
        BY <2>5, <2>6, <3>1
      <4> QED
        BY <2>2, <2>4, <4>1 DEF Budgeted, Limit, Manifests
    <3>2. CASE e.frames # <<>>
      <4>1. f.frames[1] = e.frames[1]
        BY <1>0, <2>6, <3>2
      <4> QED
        BY <2>5, <3>2, <4>1 DEF Budgeted, Limit, Waiting
    <3> QED
      BY <3>1, <3>2
  <2>11. f.frames # <<>>
    BY <1>0, <2>6
  <2> QED
    BY <2>1, <2>5, <2>7, <2>8, <2>9, <2>10, <2>11 DEF Sound, Placed, Permitted, Outside
<1> QED
  BY <1>1, <1>2

-----------------------------------------------------------------------------
(* Steps.                                                                  *)

\* One execution moves, the others do not.
Moves(x) == exec' = [exec EXCEPT ![x] = exec'[x]]

LEMMA SetEffect ==
    ASSUME AgentsTypeOK, NEW x \in Exec, NEW e, Set(x, e)
    PROVE  exec'[x] = e /\ Moves(x)
BY DEF Set, AgentsTypeOK, Moves

LEMMA MovesSound ==
    ASSUME AgentsTypeOK, ExecInv, NEW x \in Exec, Moves(x), Sound(exec'[x])
    PROVE  ExecInv' /\ exec' \in [Exec -> Executions]
<1>1. \A y \in Exec : y # x => exec'[y] = exec[y]
  BY DEF Moves, AgentsTypeOK
<1>2. \A y \in Exec : Sound(exec'[y])
  BY <1>1 DEF ExecInv
<1>3. ExecInv'
  BY <1>2 DEF ExecInv, Sound, Waits, Narrows, Placed, Permitted, Budgeted, Limit, Top
<1>4. exec'[x] \in Executions
  BY DEF Sound
<1>5. exec' \in [Exec -> Executions]
  BY <1>4 DEF Moves, AgentsTypeOK
<1> QED
  BY <1>3, <1>5

\* What an execution is between two items.
LEMMA SoundWaiting ==
    ASSUME NEW e, Sound(e), e.goal = None, e.pc = "skill" \/ (e.pc = "work" /\ Top(e).todo # <<>>)
    PROVE  Waiting(e)
<1>0. e \in Executions /\ e.frames \in Seq(Frames) /\ Len(e.frames) \in Nat
  BY DEF Sound, Executions
<1>1. ASSUME NEW n \in 1..Len(e.frames) PROVE e.frames[n].todo # <<>>
  <2>1. n < Len(e.frames) \/ n = Len(e.frames)
    BY <1>0, <1>1
  <2> QED
    BY <2>1 DEF Sound, Waits, Top
<1> QED
  BY <1>0, <1>1 DEF Sound, Waiting

LEMMA ChargeWaiting ==
    ASSUME NEW e, Waiting(e)
    PROVE  /\ Waiting(Charge(e)) /\ Charge(e).frames = e.frames
           /\ Charge(e).ran = e.ran /\ Charge(e).spent = e.spent + 1
<1> DEFINE f == Charge(e)
<1>0. e \in Executions /\ e.ran \in Nat /\ e.spent \in Nat
  BY DEF Waiting, Executions
<1>1. /\ f.frames = e.frames /\ f.ran = e.ran /\ f.spent = e.spent + 1 /\ f.goal = e.goal
      /\ f.pc = e.pc /\ f.skill = e.skill
  BY <1>0 DEF Charge, Executions
<1>2. f \in Executions
  <2>1. e.spent + 1 \in Nat
    BY <1>0
  <2> QED
    BY <1>0, <2>1 DEF Charge, Executions
<1> HIDE DEF f
<1>3. Budgeted(f) /\ Narrows(f)
  BY <1>0, <1>1 DEF Waiting, Budgeted, Narrows, Limit
<1> QED
  BY <1>1, <1>2, <1>3 DEF Waiting, f

\* A skill that an agent runs, or that a capability it delegates names.
LEMMA RunAfterCharge ==
    ASSUME NEW e, Waiting(e), NEW s \in Skill, ~Exceeded(Charge(e))
    PROVE  Sound(RunSkill(Charge(e), s))
<1> DEFINE f == Charge(e)
<1>1. Waiting(f) /\ f.frames = e.frames /\ f.ran = e.ran /\ f.spent = e.spent + 1
  BY ChargeWaiting
<1>2. e.ran \in Nat /\ e.spent \in Nat /\ f \in Executions
  BY <1>1 DEF Waiting, Executions
<1> HIDE DEF f
<1>3. ASSUME f.frames # <<>> PROVE f.ran < f.spent /\ f.spent <= Limit(f) /\ Limit(f) \in Nat
  <2>1. e.ran <= e.spent
    BY <1>1, <1>3 DEF Waiting, Budgeted
  <2>2. f.frames[1].agent \in Agent
    <3>1. f.frames \in Seq(Frames)
      BY <1>2 DEF Executions
    <3>2. f.frames[1] \in Frames
      BY <1>3, <3>1
    <3> QED
      BY <3>2 DEF Frames
  <2>3. Limit(f) \in Nat
    BY <2>2, OrchestrationAssumption DEF Limit, Manifests
  <2>4. ~(f.spent > Limit(f))
    BY DEF Exceeded, f
  <2> QED
    BY <1>1, <1>2, <2>1, <2>3, <2>4
<1>4. Sound(RunSkill(f, s))
  BY <1>1, <1>2, <1>3, RunSkillSound DEF Waiting
<1> QED
  BY <1>4 DEF f

LEMMA ExecuteSound ==
    ASSUME AgentsTypeOK, ExecInv, NEW x \in Exec, NEW c \in Capability, Execute(x, c)
    PROVE  Sound(exec'[x]) /\ Moves(x)
<1>1. exec[x] = Idle
  BY DEF Execute, Standing, ExecInv, Sound, Placed
<1>2. Idle.frames = <<>> /\ Idle.goal = None /\ Idle.skill = None /\ Idle.ran = 0 /\ Idle.spent = 0 /\ Len(Idle.frames) = 0
  BY DEF Idle
<1>3. Waiting(Idle)
  BY <1>2, OverSound DEF Sound, Waiting
<1> HIDE DEF Idle
<1>4. CASE Resolve(c) = None
  BY <1>4, OverSound, SetEffect DEF Execute
<1>5. CASE Resolve(c) # None /\ Resolve(c) \in Skill
  <2>1. Set(x, RunSkill(Idle, Resolve(c)))
    BY <1>1, <1>5 DEF Execute
  <2>2. Sound(RunSkill(Idle, Resolve(c)))
    BY <1>2, <1>3, <1>5, RunSkillSound DEF Waiting
  <2> QED
    BY <2>1, <2>2, SetEffect
<1>6. CASE Resolve(c) # None /\ Resolve(c) \notin Skill
  <2>1. Set(x, Enter(Idle, Resolve(c)))
    BY <1>1, <1>6 DEF Execute
  <2>2. Sound(Enter(Idle, Resolve(c)))
    BY <1>2, <1>3, EnterSound
  <2> QED
    BY <2>1, <2>2, SetEffect
<1> QED
  BY <1>4, <1>5, <1>6

LEMMA WorkSound ==
    ASSUME AgentsTypeOK, ExecInv, NEW x \in Exec, Work(x)
    PROVE  Sound(exec'[x]) /\ Moves(x)
<1> DEFINE e == exec[x]
           f == Charge(e)
<1>1. Sound(e) /\ e.pc = "work" /\ Top(e).todo # <<>>
  BY DEF ExecInv, Work, Working, Standing
<1>2. e.goal = None /\ e.frames # <<>> /\ e \in Executions
  BY <1>1 DEF Sound, Placed
<1>3. Waiting(e)
  BY <1>1, <1>2, SoundWaiting
<1>4. Waiting(f) /\ f.frames = e.frames
  BY <1>3, ChargeWaiting
<1>5. CASE Exceeded(f) \/ f.cancelled
  <2>1. Set(x, Raise(f))
    BY <1>5 DEF Work
  <2> HIDE DEF f
  <2> QED
    BY <1>4, <2>1, RaiseSound, SetEffect
<1>6. CASE ~(Exceeded(f) \/ f.cancelled)
  <2>1. Set(x, RunSkill(f, Head1(f).name))
    BY <1>6 DEF Work
  <2>2. Head1(f).name \in Skill
    <3>1. e.frames \in Seq(Frames) /\ e.frames # <<>> /\ Len(e.frames) \in 1..Len(e.frames)
      BY <1>2 DEF Executions
    <3>2. Top(e) \in Frames
      BY <3>1 DEF Top
    <3>3. Head(Top(e).todo) \in Items
      BY <1>1, <3>2 DEF Frames
    <3>4. Head1(f) = Head(Top(e).todo) /\ Head1(f).kind = "skill"
      BY <1>4 DEF Head1, Top, Work, Working
    <3> QED
      BY <3>3, <3>4 DEF Items
  <2>3. Sound(RunSkill(f, Head1(f).name))
    BY <1>3, <1>6, <2>2, RunAfterCharge
  <2> HIDE DEF f
  <2> QED
    BY <2>1, <2>3, SetEffect
<1> QED
  BY <1>5, <1>6

LEMMA DelegateSound ==
    ASSUME AgentsTypeOK, ExecInv, NEW x \in Exec, Delegate(x)
    PROVE  Sound(exec'[x]) /\ Moves(x)
<1> DEFINE e == exec[x]
           f == Charge(e)
           ref == Resolve(Head1(e).name)
<1>1. Sound(e) /\ e.pc = "work" /\ Top(e).todo # <<>>
  BY DEF ExecInv, Delegate, Working, Standing
<1>2. e.goal = None /\ e.frames # <<>> /\ e.skill = None
  BY <1>1 DEF Sound, Placed
<1>3. Waiting(e) /\ Waiting(f)
  BY <1>1, <1>2, SoundWaiting, ChargeWaiting
<1>4. CASE Set(x, Raise(e))
  BY <1>3, <1>4, RaiseSound, SetEffect
<1>5. CASE Set(x, Raise(f))
  BY <1>3, <1>5, RaiseSound, SetEffect
<1>6. CASE ref \in Skill /\ ~Exceeded(f) /\ Set(x, RunSkill(f, ref))
  <2>1. Sound(RunSkill(f, ref))
    BY <1>3, <1>6, RunAfterCharge
  <2> QED
    BY <1>6, <2>1, SetEffect
<1>7. CASE Set(x, Enter(e, ref))
  <2>1. Sound(Enter(e, ref))
    BY <1>2, <1>3, EnterSound
  <2> QED
    BY <1>7, <2>1, SetEffect
<1> QED
  BY <1>4, <1>5, <1>6, <1>7 DEF Delegate

LEMMA SkillReturnsSound ==
    ASSUME AgentsTypeOK, ExecInv, NEW x \in Exec, SkillReturns(x)
    PROVE  Sound(exec'[x]) /\ Moves(x)
<1> DEFINE e == exec[x]
<1>1. Sound(e) /\ e.pc = "skill" /\ e.goal = None
  BY DEF ExecInv, SkillReturns, Standing
<1>2. Waiting(e)
  BY <1>1, SoundWaiting
<1>3. CASE Set(x, Raise(e))
  BY <1>2, <1>3, RaiseSound, SetEffect
<1>4. CASE e.frames = <<>> /\ Set(x, Over)
  BY <1>4, OverSound, SetEffect
<1>5. CASE e.frames # <<>> /\ Set(x, Next1(e))
  BY <1>2, <1>5, Next1Sound, SetEffect
<1> QED
  BY <1>3, <1>4, <1>5 DEF SkillReturns

\* The agent at the end of the chain leaves: those above it were waiting.
LEMMA LeaveWaiting ==
    ASSUME NEW e, Sound(e), e.goal = None, NEW f, f = [e EXCEPT !.frames = SubSeq(@, 1, Len(@) - 1)], e.frames # <<>>
    PROVE  Waiting(f) /\ (f.frames = <<>> <=> Len(e.frames) = 1)
<1> DEFINE k == Len(e.frames) - 1
<1>0. e \in Executions /\ e.frames \in Seq(Frames) /\ Len(e.frames) \in Nat /\ k \in Nat /\ Len(e.frames) = k + 1
  BY DEF Sound, Executions
<1>1. f.frames = SubSeq(e.frames, 1, k) /\ f.goal = None /\ f = [e EXCEPT !.frames = SubSeq(@, 1, k)]
  BY <1>0 DEF Executions
<1> HIDE DEF k
<1>2. CASE k = 0
  <2>1. f.frames = <<>>
    <3>1. f.frames = SubSeq(e.frames, 1, 0)
      BY <1>1, <1>2
    <3> QED
      BY <1>0, <3>1, SubSeqEmpty
  <2>2. f \in Executions
    BY <1>0, <1>1, <2>1, EmptySeq DEF Executions
  <2>3. Len(f.frames) = 0
    BY <2>1
  <2>4. Narrows(f) /\ Budgeted(f)
    BY <2>1, <2>3 DEF Narrows, Budgeted
  <2> QED
    BY <1>0, <1>1, <1>2, <2>1, <2>2, <2>3, <2>4 DEF Waiting
<1>3. CASE k # 0
  <2>1. k \in 1..Len(e.frames)
    BY <1>0, <1>3
  <2>2. /\ f \in Executions /\ Begins(f, e) /\ Len(f.frames) = k
        /\ \A m \in 1..k : f.frames[m] = e.frames[m]
        /\ f.ran = e.ran /\ f.spent = e.spent
    BY <1>0, <1>1, <2>1, CutFrames
  <2>3. Narrows(f) /\ Budgeted(f)
    BY <1>0, <2>2, BeginsKeeps DEF Sound
  <2>4. \A n \in 1..k : f.frames[n].todo # <<>>
    <3>1. Waits(e)
      BY DEF Sound
    <3>2. \A n \in 1..k : n \in 1..Len(e.frames) /\ n < Len(e.frames)
      BY <1>0
    <3>3. \A n \in 1..k : e.frames[n].todo # <<>>
      BY <3>1, <3>2 DEF Waits
    <3> QED
      BY <2>2, <3>3
  <2>5. f.frames # <<>>
    BY <1>3, <2>2
  <2> QED
    BY <1>0, <1>1, <1>3, <2>2, <2>3, <2>4, <2>5 DEF Waiting
<1> QED
  BY <1>2, <1>3

LEMMA ReturnSound ==
    ASSUME AgentsTypeOK, ExecInv, NEW x \in Exec, Return(x)
    PROVE  Sound(exec'[x]) /\ Moves(x)
<1> DEFINE e == exec[x]
           f == [e EXCEPT !.frames = SubSeq(@, 1, Len(@) - 1)]
<1>1. Sound(e) /\ e.pc = "work" /\ Set(x, IF f.frames = <<>> THEN Over ELSE Next1(f))
  BY DEF ExecInv, Return, Standing
<1>2. e.goal = None /\ e.frames # <<>>
  BY <1>1 DEF Sound, Placed
<1>3. Waiting(f)
  BY <1>1, <1>2, LeaveWaiting
<1> HIDE DEF f
<1>4. CASE f.frames = <<>>
  BY <1>1, <1>4, OverSound, SetEffect
<1>5. CASE f.frames # <<>>
  BY <1>1, <1>3, <1>5, Next1Sound, SetEffect
<1> QED
  BY <1>4, <1>5

\* What does not touch the chain nor the skill.
LEMMA SameChain ==
    ASSUME NEW e, Sound(e), NEW f \in Executions, f.frames = e.frames, f.skill = e.skill, f.goal = e.goal,
           f.ran = e.ran, f.spent = e.spent, e.pc \in {"enter", "work", "skill"},
           f.pc = e.pc \/ (e.pc = "enter" /\ f.pc = "work")
    PROVE  Sound(f)
<1>1. Waits(f) /\ Narrows(f) /\ Budgeted(f) /\ Permitted(f)
  BY DEF Sound, Waits, Narrows, Budgeted, Permitted, Limit, Top
<1>2. Placed(f)
  BY DEF Sound, Placed, Outside
<1> QED
  BY <1>1, <1>2 DEF Sound

LEMMA HandleSound ==
    ASSUME AgentsTypeOK, ExecInv, NEW x \in Exec, Handle(x)
    PROVE  Sound(exec'[x]) /\ Moves(x)
<1> DEFINE e == exec[x]
           f == [e EXCEPT !.frames = SubSeq(@, 1, Len(@) - 1)]
           g == [e EXCEPT !.pc = "work"]
<1>1. Sound(e) /\ e.pc = "enter"
  BY DEF ExecInv, Handle, Standing
<1>2. e.goal = None /\ e.frames # <<>> /\ e \in Executions
  BY <1>1 DEF Sound, Placed
<1>3. Waiting(f)
  BY <1>1, <1>2, LeaveWaiting
<1>4. Sound(g)
  <2>1. /\ g \in Executions /\ g.frames = e.frames /\ g.skill = e.skill /\ g.goal = e.goal
        /\ g.ran = e.ran /\ g.spent = e.spent /\ g.pc = "work"
    BY <1>2 DEF Executions, WorkPlaces
  <2> HIDE DEF g
  <2> QED
    BY <1>1, <2>1, SameChain
<1>5. Set(x, Over) \/ Set(x, Raise(f)) \/ Set(x, g)
  BY DEF Handle
<1> HIDE DEF f, g
<1> QED
  BY <1>3, <1>4, <1>5, OverSound, RaiseSound, SetEffect

LEMMA CancelSound ==
    ASSUME AgentsTypeOK, ExecInv, NEW x \in Exec, Cancel(x)
    PROVE  Sound(exec'[x]) /\ Moves(x)
<1> DEFINE e == exec[x]
           f == [e EXCEPT !.cancelled = TRUE]
<1>1. Sound(e) /\ e.pc \in {"enter", "work", "skill"} /\ Set(x, f)
  BY DEF ExecInv, Cancel
<1>2. /\ f \in Executions /\ f.frames = e.frames /\ f.skill = e.skill /\ f.goal = e.goal
      /\ f.ran = e.ran /\ f.spent = e.spent /\ f.pc = e.pc
  BY <1>1 DEF Sound, Executions
<1> HIDE DEF f
<1> QED
  BY <1>1, <1>2, SameChain, SetEffect

-----------------------------------------------------------------------------
(* A plan has no sandbox.                                                  *)

LEMMA OutsideSound ==
    ASSUME NEW e \in Executions, e.frames = <<>>, e.skill = None, e.goal # None,
           e.pc \in Outside \ {"idle"}
    PROVE  Sound(e)
<1>1. Len(e.frames) = 0 /\ e.pc # "skill" /\ e.pc # "idle"
  BY DEF Outside
<1> QED
  BY <1>1 DEF Sound, Waits, Narrows, Placed, Permitted, Budgeted, Outside

LEMMA AtGoal ==
    ASSUME NEW g \in Goal, NEW plan \in Seq(Steps)
    PROVE  Sound([Idle EXCEPT !.pc = "plan", !.goal = g, !.plan = plan])
<1> DEFINE e == [Idle EXCEPT !.pc = "plan", !.goal = g, !.plan = plan]
<1>1. Idle \in Executions /\ g # None
  BY OverSound, OrchestrationAssumption DEF Sound
<1>2. e \in Executions
  BY <1>1 DEF Executions, WorkPlaces
<1>3. e.frames = <<>> /\ e.skill = None /\ e.goal # None /\ e.pc \in Outside \ {"idle"}
  BY <1>1 DEF Idle, Outside
<1> HIDE DEF e
<1> QED
  BY <1>2, <1>3, OutsideSound DEF e

LEMMA AtStage ==
    ASSUME NEW g \in Goal, NEW pc \in {"ask", "search"}
    PROVE  Sound([Idle EXCEPT !.pc = pc, !.goal = g])
<1> DEFINE e == [Idle EXCEPT !.pc = pc, !.goal = g]
<1>1. Idle \in Executions /\ g # None
  BY OverSound, OrchestrationAssumption DEF Sound
<1>2. e \in Executions
  BY <1>1 DEF Executions, WorkPlaces
<1>3. e.frames = <<>> /\ e.skill = None /\ e.goal # None /\ e.pc \in Outside \ {"idle"}
  BY <1>1 DEF Idle, Outside
<1> HIDE DEF e
<1> QED
  BY <1>2, <1>3, OutsideSound DEF e

LEMMA AchieveSound ==
    ASSUME AgentsTypeOK, ExecInv, NEW x \in Exec, NEW g \in Goal, Achieve(x, g)
    PROVE  Sound(exec'[x]) /\ Moves(x)
<1>1. PlansOf[g] \in Seq(Steps) /\ <<>> \in Seq(Steps)
  BY OrchestrationAssumption, EmptySeq
<1>2. Sound([Idle EXCEPT !.pc = "ask", !.goal = g])
  BY AtStage
<1>3. Sound([Idle EXCEPT !.pc = "plan", !.goal = g, !.plan = PlansOf[g]])
  BY <1>1, AtGoal
<1>4. \/ Set(x, [Idle EXCEPT !.pc = "ask", !.goal = g])
      \/ Set(x, [Idle EXCEPT !.pc = "plan", !.goal = g, !.plan = PlansOf[g]])
  BY DEF Achieve, Planned
<1> QED
  BY <1>2, <1>3, <1>4, SetEffect

LEMMA PlanByLLMSound ==
    ASSUME AgentsTypeOK, ExecInv, NEW x \in Exec, PlanByLLM(x)
    PROVE  Sound(exec'[x]) /\ Moves(x)
<1>1. exec[x].goal \in Goal
  <2>1. exec[x] \in Executions /\ exec[x].goal # None
    BY DEF ExecInv, Sound, Placed, PlanByLLM, Standing
  <2> QED
    BY <2>1 DEF Executions
<1>2. CASE End(x)
  BY <1>2, OverSound, SetEffect DEF End
<1>3. ASSUME NEW plan \in LLMPlans, Planned(x, exec[x].goal, plan) PROVE Sound(exec'[x]) /\ Moves(x)
  <2>1. plan \in Seq(Steps)
    BY OrchestrationAssumption
  <2>2. Sound([Idle EXCEPT !.pc = "plan", !.goal = exec[x].goal, !.plan = plan])
    BY <1>1, <2>1, AtGoal
  <2>3. Set(x, [Idle EXCEPT !.pc = "plan", !.goal = exec[x].goal, !.plan = plan])
    BY <1>3 DEF Planned
  <2> QED
    BY <2>2, <2>3, SetEffect
<1> QED
  BY <1>2, <1>3 DEF PlanByLLM

LEMMA ResultSound ==
    ASSUME NEW e, Sound(e), e.goal # None, NEW status \in {"completed", "failed", "skipped"}
    PROVE  Sound(Result(e, status))
<1> DEFINE f == Result(e, status)
<1>1. e \in Executions /\ e.frames = <<>>
  BY DEF Sound, Placed
<1>2. Append(e.results, status) \in Seq({"completed", "failed", "skipped"})
  BY <1>1 DEF Executions
<1>3. f \in Executions
  BY <1>1, <1>2 DEF Result, Executions, WorkPlaces
<1>4. f.frames = <<>> /\ f.skill = None /\ f.goal # None /\ f.pc \in Outside \ {"idle"}
  BY <1>1 DEF Result, Executions, Outside
<1> QED
  BY <1>3, <1>4, OutsideSound

LEMMA RunStepSound ==
    ASSUME AgentsTypeOK, ExecInv, NEW x \in Exec, RunStep(x)
    PROVE  Sound(exec'[x]) /\ Moves(x)
<1> DEFINE e == exec[x]
           s == e.plan[Index(e)].skill
<1>1. Sound(e) /\ e.pc = "plan" /\ e \in Executions
  BY DEF ExecInv, RunStep, Standing, Sound
<1>2. e.goal # None /\ e.frames = <<>> /\ Len(e.frames) = 0
  BY <1>1 DEF Sound, Placed
<1>3. s \in Skill
  <2>1. e.results \in Seq({"completed", "failed", "skipped"}) /\ e.plan \in Seq(Steps)
    BY <1>1 DEF Executions
  <2>2. Index(e) \in 1..Len(e.plan)
    BY <2>1 DEF RunStep, Index
  <2>3. e.plan[Index(e)] \in Steps
    BY <2>1, <2>2
  <2> QED
    BY <2>3 DEF Steps
<1>4. CASE Set(x, Result(e, "skipped")) \/ Set(x, Result(e, "failed"))
  BY <1>1, <1>2, <1>4, ResultSound, SetEffect
<1>5. CASE Allowed(e, s) /\ Set(x, RunSkill(e, s))
  <2>1. Sound(RunSkill(e, s))
    BY <1>1, <1>2, <1>3, <1>5, RunSkillSound DEF Sound
  <2> QED
    BY <1>5, <2>1, SetEffect
<1> QED
  BY <1>4, <1>5 DEF RunStep

LEMMA StepReturnsSound ==
    ASSUME AgentsTypeOK, ExecInv, NEW x \in Exec, StepReturns(x)
    PROVE  Sound(exec'[x]) /\ Moves(x)
<1>1. PICK status \in {"completed", "failed"} : Set(x, Result(exec[x], status))
  BY DEF StepReturns
<1>2. Sound(Result(exec[x], status))
  BY ResultSound DEF ExecInv, StepReturns
<1> QED
  BY <1>1, <1>2, SetEffect

LEMMA EndPlanSound ==
    ASSUME AgentsTypeOK, ExecInv, NEW x \in Exec, EndPlan(x)
    PROVE  Sound(exec'[x]) /\ Moves(x)
<1>1. exec[x].goal \in Goal
  <2>1. exec[x] \in Executions /\ exec[x].goal # None
    BY DEF ExecInv, Sound, Placed, EndPlan, Standing
  <2> QED
    BY <2>1 DEF Executions
<1>2. Sound([Idle EXCEPT !.pc = "search", !.goal = exec[x].goal])
  BY <1>1, AtStage
<1>3. Set(x, [Idle EXCEPT !.pc = "search", !.goal = exec[x].goal]) \/ Set(x, Over)
  BY DEF EndPlan, End
<1> QED
  BY <1>2, <1>3, OverSound, SetEffect

\* The proposer goes from one look to the next, or gives up.
LEMMA ProposerSound ==
    ASSUME AgentsTypeOK, ExecInv, NEW x \in Exec,
           exec[x].pc \in {"search", "pending", "propose"}, NEW pc \in {"pending", "propose"},
           End(x) \/ Set(x, [exec[x] EXCEPT !.pc = pc])
    PROVE  Sound(exec'[x]) /\ Moves(x)
<1> DEFINE f == [exec[x] EXCEPT !.pc = pc]
<1>1. Sound(exec[x]) /\ exec[x] \in Executions /\ exec[x].goal # None /\ exec[x].frames = <<>> /\ exec[x].skill = None
  BY DEF ExecInv, Sound, Placed, Outside
<1>2. f \in Executions /\ f.frames = <<>> /\ f.skill = None /\ f.goal # None /\ f.pc \in Outside \ {"idle"}
  BY <1>1 DEF Executions, WorkPlaces, Outside
<1>3. Sound(f)
  BY <1>2, OutsideSound
<1> QED
  BY <1>3, OverSound, SetEffect DEF End

Proposer(x) == SearchPlaybooks(x) \/ SeePending(x) \/ Propose(x) \/ ProposalFails(x)

LEMMA ProposerStep ==
    ASSUME AgentsTypeOK, ExecInv, NEW x \in Exec, Proposer(x)
    PROVE  Sound(exec'[x]) /\ Moves(x)
<1>1. CASE SearchPlaybooks(x)
  <2>1. exec[x].pc = "search" /\ (End(x) \/ Set(x, [exec[x] EXCEPT !.pc = "pending"]))
    BY <1>1 DEF SearchPlaybooks, Standing
  <2> QED
    BY <2>1, ProposerSound
<1>2. CASE SeePending(x)
  <2>1. exec[x].pc = "pending" /\ (End(x) \/ Set(x, [exec[x] EXCEPT !.pc = "propose"]))
    BY <1>2 DEF SeePending, Standing
  <2> QED
    BY <2>1, ProposerSound
<1>3. CASE Propose(x) \/ ProposalFails(x)
  <2>1. exec[x].pc \in {"search", "pending", "propose"} /\ End(x)
    BY <1>3 DEF Propose, ProposalFails, Standing
  <2> QED
    BY <2>1, ProposerSound
<1> QED
  BY <1>1, <1>2, <1>3 DEF Proposer

-----------------------------------------------------------------------------
(* The kinds of steps.                                                     *)

Runs(x) == \/ Handle(x) \/ Work(x) \/ Delegate(x) \/ SkillReturns(x) \/ Return(x) \/ Cancel(x)
           \/ PlanByLLM(x) \/ RunStep(x) \/ StepReturns(x) \/ EndPlan(x)
           \/ \E c \in Capability : Execute(x, c)
           \/ \E g \in Goal : Achieve(x, g)
Registers == \E a \in Agent : Register(a) \/ Upgrade(a) \/ SetEnabled(a, TRUE) \/ SetEnabled(a, FALSE)
Decides == \E g \in Goal : Decide(g, TRUE) \/ Decide(g, FALSE) \/ WritePlaybook(g) \/ ForgetPlaybook(g)

LEMMA StepKinds == AgentsNext => Registers \/ (\E x \in Exec : Runs(x) \/ Proposer(x)) \/ Decides
BY DEF AgentsNext, Registers, Runs, Proposer, Decides

LEMMA RunsSound ==
    ASSUME AgentsTypeOK, ExecInv, NEW x \in Exec, Runs(x)
    PROVE  Sound(exec'[x]) /\ Moves(x) /\ UNCHANGED <<registry, learning>>
<1>1. UNCHANGED <<registry, learning>>
  BY DEF Runs, Handle, Work, Delegate, SkillReturns, Return, Cancel, PlanByLLM, RunStep, StepReturns, EndPlan,
         Execute, Achieve
<1>2. Sound(exec'[x]) /\ Moves(x)
  BY HandleSound, WorkSound, DelegateSound, SkillReturnsSound, ReturnSound, CancelSound, PlanByLLMSound,
     RunStepSound, StepReturnsSound, EndPlanSound, ExecuteSound, AchieveSound DEF Runs
<1> QED
  BY <1>1, <1>2

LEMMA ExecInit == AgentsInit => ExecInv
BY OverSound DEF AgentsInit, ExecInv

LEMMA SameExec == ASSUME ExecInv, exec' = exec PROVE ExecInv'
BY DEF ExecInv, Sound, Waits, Narrows, Placed, Permitted, Budgeted, Limit, Top

LEMMA ExecStep ==
    ASSUME AgentsTypeOK, ExecInv, [AgentsNext]_agentsVars
    PROVE  ExecInv' /\ exec' \in [Exec -> Executions]
<1>1. CASE exec' = exec
  BY <1>1, SameExec DEF AgentsTypeOK
<1>2. ASSUME NEW x \in Exec, Runs(x) \/ Proposer(x) PROVE ExecInv' /\ exec' \in [Exec -> Executions]
  BY <1>2, RunsSound, ProposerStep, MovesSound
<1>3. CASE Registers
  BY <1>1, <1>3 DEF Registers, Register, Upgrade, SetEnabled, Change
<1>4. CASE Decides
  BY <1>1, <1>4 DEF Decides, Decide, WritePlaybook, ForgetPlaybook
<1>5. CASE UNCHANGED agentsVars
  BY <1>1, <1>5 DEF agentsVars
<1> QED
  BY <1>2, <1>3, <1>4, <1>5, StepKinds

-----------------------------------------------------------------------------
(* Type correctness, scopes and budgets.                                   *)

LEMMA TypeInit == AgentsInit => AgentsTypeOK
<1> SUFFICES ASSUME AgentsInit PROVE AgentsTypeOK
  OBVIOUS
<1>1. agents \subseteq Agent
  BY OrchestrationAssumption DEF AgentsInit
<1>2. exec \in [Exec -> Executions]
  BY OverSound DEF AgentsInit, Sound
<1>3. changes \in 0..MaxChanges
  BY OrchestrationAssumption DEF AgentsInit
<1> QED
  BY <1>1, <1>2, <1>3 DEF AgentsInit, AgentsTypeOK

LEMMA CountsType ==
    ASSUME AgentsTypeOK, Decides
    PROVE  pending' \in [Goal -> Nat] /\ approved' \in [Goal -> Nat] /\ playbooks' \in [Goal -> Nat] /\ raced' \subseteq Goal
<1>0. PICK g \in Goal : Decide(g, TRUE) \/ Decide(g, FALSE) \/ WritePlaybook(g) \/ ForgetPlaybook(g)
  BY DEF Decides
<1>1. /\ pending \in [Goal -> Nat] /\ approved \in [Goal -> Nat] /\ playbooks \in [Goal -> Nat] /\ raced \subseteq Goal
      /\ pending[g] \in Nat /\ approved[g] \in Nat /\ playbooks[g] \in Nat
  BY DEF AgentsTypeOK
<1>2. ASSUME NEW n \in Nat PROVE n + 1 \in Nat /\ (n > 0 => n - 1 \in Nat)
  OBVIOUS
<1>3. CASE Decide(g, TRUE) \/ Decide(g, FALSE)
  <2>1. pending' = [pending EXCEPT ![g] = pending[g] - 1] /\ pending[g] > 0
    BY <1>3 DEF Decide
  <2>2. approved' = approved \/ approved' = [approved EXCEPT ![g] = approved[g] + 1]
    BY <1>3 DEF Decide
  <2>3. playbooks' = playbooks /\ raced' \subseteq Goal
    BY <1>1, <1>3 DEF Decide, Races
  <2> QED
    BY <1>1, <1>2, <2>1, <2>2, <2>3
<1>4. CASE WritePlaybook(g)
  <2>1. approved' = [approved EXCEPT ![g] = approved[g] - 1] /\ approved[g] > 0
    BY <1>4 DEF WritePlaybook
  <2>2. playbooks' = playbooks \/ playbooks' = [playbooks EXCEPT ![g] = playbooks[g] + 1]
    BY <1>4 DEF WritePlaybook
  <2>3. UNCHANGED <<pending, raced>>
    BY <1>4 DEF WritePlaybook
  <2> QED
    BY <1>1, <1>2, <2>1, <2>2, <2>3
<1>5. CASE ForgetPlaybook(g)
  <2>1. playbooks' = [playbooks EXCEPT ![g] = playbooks[g] - 1] /\ playbooks[g] > 0
    BY <1>5 DEF ForgetPlaybook
  <2>2. UNCHANGED <<pending, approved, raced>>
    BY <1>5 DEF ForgetPlaybook
  <2> QED
    BY <1>1, <1>2, <2>1, <2>2
<1> QED
  BY <1>0, <1>3, <1>4, <1>5

LEMMA ProposerGoal ==
    ASSUME AgentsTypeOK, ExecInv, NEW x \in Exec, Proposer(x)
    PROVE  exec[x].goal \in Goal
<1>1. exec[x].pc \in {"search", "pending", "propose"}
  BY DEF Proposer, SearchPlaybooks, SeePending, Propose, ProposalFails, Standing
<1>2. exec[x] \in Executions /\ exec[x].goal # None
  BY <1>1 DEF ExecInv, Sound, Placed
<1> QED
  BY <1>2 DEF Executions

LEMMA ProposerType ==
    ASSUME AgentsTypeOK, ExecInv, NEW x \in Exec, Proposer(x)
    PROVE  /\ pending' \in [Goal -> Nat] /\ raced' \subseteq Goal
           /\ UNCHANGED <<registry, approved, playbooks>>
<1>1. exec[x].goal \in Goal
  BY ProposerGoal
<1>2. UNCHANGED <<registry, approved, playbooks>>
  BY DEF Proposer, SearchPlaybooks, SeePending, Propose, ProposalFails, learning
<1>3. pending' = pending \/ pending' = [pending EXCEPT ![exec[x].goal] = pending[exec[x].goal] + 1]
  BY DEF Proposer, SearchPlaybooks, SeePending, Propose, ProposalFails, learning
<1>4. pending' \in [Goal -> Nat]
  <2>1. pending \in [Goal -> Nat] /\ pending[exec[x].goal] + 1 \in Nat
    BY <1>1 DEF AgentsTypeOK
  <2> QED
    BY <1>1, <1>3, <2>1
<1>5. raced' = raced \/ raced' = raced \cup {exec[x].goal}
  BY DEF Proposer, SearchPlaybooks, SeePending, Propose, ProposalFails, learning, Races
<1> QED
  BY <1>1, <1>2, <1>4, <1>5 DEF AgentsTypeOK

LEMMA TypeStep == ASSUME AgentsTypeOK, ExecInv, [AgentsNext]_agentsVars PROVE AgentsTypeOK'
<1>0. exec' \in [Exec -> Executions]
  BY ExecStep
<1>1. CASE Registers
  <2>1. PICK a \in Agent : Register(a) \/ Upgrade(a) \/ SetEnabled(a, TRUE) \/ SetEnabled(a, FALSE)
    BY <1>1 DEF Registers
  <2>2. agents' \subseteq agents \cup {a} /\ Change
    BY <2>1 DEF Register, Upgrade, SetEnabled
  <2>3. changes' \in 0..MaxChanges /\ UNCHANGED <<exec, learning>>
    BY <2>2, OrchestrationAssumption DEF Change, AgentsTypeOK
  <2> QED
    BY <2>2, <2>3 DEF AgentsTypeOK, learning
<1>2. ASSUME NEW x \in Exec, Runs(x) PROVE AgentsTypeOK'
  BY <1>0, <1>2, RunsSound DEF AgentsTypeOK, registry, learning
<1>3. ASSUME NEW x \in Exec, Proposer(x) PROVE AgentsTypeOK'
  BY <1>0, <1>3, ProposerType DEF AgentsTypeOK, registry
<1>4. CASE Decides
  <2>1. UNCHANGED registry
    BY <1>4 DEF Decides, Decide, WritePlaybook, ForgetPlaybook
  <2> QED
    BY <1>0, <1>4, <2>1, CountsType DEF AgentsTypeOK, registry
<1>5. CASE UNCHANGED agentsVars
  BY <1>5 DEF agentsVars, registry, learning, AgentsTypeOK
<1> QED
  BY <1>1, <1>2, <1>3, <1>4, <1>5, StepKinds

\* What a sandbox may run and spend is fixed by the chain it is in.
LEMMA AlwaysSound == AgentsSpec => [](AgentsTypeOK /\ ExecInv)
<1>1. AgentsInit => AgentsTypeOK /\ ExecInv
  BY TypeInit, ExecInit
<1>2. AgentsTypeOK /\ ExecInv /\ [AgentsNext]_agentsVars => (AgentsTypeOK /\ ExecInv)'
  BY ExecStep, TypeStep
<1> QED
  BY <1>1, <1>2, PTL DEF AgentsSpec

\* AgentsTypeOK: every execution is a record of its place, its chain of sandboxes
\* and its plan, and every goal counts its proposals (kernel/orchestrator.py).
THEOREM TypeCorrect == AgentsSpec => []AgentsTypeOK
BY AlwaysSound, PTL

\* WithinScopes: a delegate cannot run what one of those that delegated to it
\* could not, whatever agents are registered meanwhile (sandbox.py:108-127).
THEOREM NeverBeyondScopes == AgentsSpec => []WithinScopes
<1>1. AgentsTypeOK /\ ExecInv => WithinScopes
  <2> SUFFICES ASSUME ExecInv, NEW x \in Exec, exec[x].skill # None
               PROVE  /\ ScopeOf[exec[x].skill] \in Granted
                      /\ \A a \in Chain(exec[x]) : ScopeOf[exec[x].skill] \in Manifest[a].scopes
    BY DEF WithinScopes
  <2> DEFINE e == exec[x]
  <2>1. Sound(e) /\ e.frames \in Seq(Frames) /\ Len(e.frames) \in Nat
    BY DEF ExecInv, Sound, Executions
  <2>2. ASSUME NEW n \in 1..Len(e.frames) PROVE ScopeOf[e.skill] \in Manifest[e.frames[n].agent].scopes
    <3>1. e.frames # <<>> /\ Len(e.frames) \in 1..Len(e.frames) /\ n \in 1..Len(e.frames)
      BY <2>1, <2>2
    <3>2. ScopeOf[e.skill] \in e.frames[Len(e.frames)].scopes
      BY <2>1, <3>1 DEF Sound, Permitted, Top
    <3> QED
      BY <2>1, <3>1, <3>2 DEF Sound, Narrows
  <2> QED
    BY <2>1, <2>2 DEF Sound, Permitted, Chain
<1> QED
  BY <1>1, AlwaysSound, PTL

\* TreeWithinBudget: an agent that tolerates an exhausted budget does not
\* make the tree run more than its first agent declares (sandbox.py:88-102).
THEOREM NeverBeyondBudget == AgentsSpec => []TreeWithinBudget
<1>1. AgentsTypeOK /\ ExecInv => TreeWithinBudget
  BY DEF ExecInv, Sound, Budgeted, TreeWithinBudget
<1> QED
  BY <1>1, AlwaysSound, PTL

-----------------------------------------------------------------------------
(* Proposals.                                                              *)

Looks == {"pending", "propose"}

\* Only the proposer's own steps lead to its looks.
LEMMA RaisePlace == ASSUME NEW e \in Executions PROVE Raise(e).pc \in {"over", "work"}
BY DEF Raise, Next1, Over, Idle, Executions

LEMMA RunPlace == ASSUME NEW e \in Executions, NEW s PROVE RunSkill(e, s).pc \in {"over", "work", "skill"}
BY RaisePlace DEF RunSkill, Executions

LEMMA EnterPlace == ASSUME NEW e \in Executions, NEW a PROVE Enter(e, a).pc \in {"over", "work", "enter"}
BY RaisePlace DEF Enter, Executions

LEMMA ResultPlace == ASSUME NEW e \in Executions, NEW status PROVE Result(e, status).pc = "plan"
BY DEF Result, Executions

LEMMA RunsPlace ==
    ASSUME AgentsTypeOK, ExecInv, NEW x \in Exec, Runs(x)
    PROVE  exec[x].pc \notin Looks /\ exec'[x].pc \notin Looks
<1> DEFINE e == exec[x]
           out == [e EXCEPT !.frames = SubSeq(@, 1, Len(@) - 1)]
<1>0. e \in Executions /\ Charge(e) \in Executions /\ Idle.pc = "idle" /\ Over.pc = "over"
  <2>1. e \in Executions /\ e.spent + 1 \in Nat
    BY DEF AgentsTypeOK, Executions
  <2> QED
    BY <2>1 DEF Charge, Executions, Idle, Over
<1>1. CASE Handle(x)
  <2>1. Sound(e) /\ e.pc = "enter"
    BY <1>1 DEF ExecInv, Handle, Standing
  <2>2. Waiting(out)
    BY <2>1, LeaveWaiting DEF Sound, Placed
  <2>3. out \in Executions
    BY <2>2 DEF Waiting
  <2>4. Set(x, Over) \/ Set(x, Raise(out)) \/ Set(x, [e EXCEPT !.pc = "work"])
    BY <1>1 DEF Handle
  <2>5. [e EXCEPT !.pc = "work"].pc = "work"
    BY <1>0 DEF Executions
  <2> HIDE DEF out
  <2> QED
    BY <1>0, <2>1, <2>3, <2>4, <2>5, RaisePlace, SetEffect DEF Looks
<1>2. CASE Work(x)
  <2>1. e.pc = "work" /\ (Set(x, Raise(Charge(e))) \/ \E s : Set(x, RunSkill(Charge(e), s)))
    BY <1>2 DEF Work, Working, Standing
  <2> QED
    BY <1>0, <2>1, RaisePlace, RunPlace, SetEffect DEF Looks
<1>3. CASE Delegate(x)
  <2>1. e.pc = "work"
    BY <1>3 DEF Delegate, Working, Standing
  <2>2. CASE Set(x, Raise(e)) \/ Set(x, Raise(Charge(e)))
    BY <1>0, <2>1, <2>2, RaisePlace, SetEffect DEF Looks
  <2>3. CASE \E s : Set(x, RunSkill(Charge(e), s))
    BY <1>0, <2>1, <2>3, RunPlace, SetEffect DEF Looks
  <2>4. CASE \E a : Set(x, Enter(e, a))
    BY <1>0, <2>1, <2>4, EnterPlace, SetEffect DEF Looks
  <2> QED
    BY <1>3, <2>2, <2>3, <2>4 DEF Delegate
<1>4. CASE SkillReturns(x)
  <2>1. e.pc = "skill" /\ (Set(x, Raise(e)) \/ Set(x, Over) \/ Set(x, Next1(e)))
    BY <1>4 DEF SkillReturns, Standing
  <2>2. Next1(e).pc = "work"
    BY <1>0 DEF Next1, Executions
  <2> QED
    BY <1>0, <2>1, <2>2, RaisePlace, SetEffect DEF Looks
<1>5. CASE Return(x)
  <2>1. e.pc = "work" /\ (Set(x, Over) \/ Set(x, Next1(out)))
    BY <1>5 DEF Return, Standing
  <2>2. Next1(out).pc = "work"
    BY <1>0 DEF Next1, Executions
  <2> HIDE DEF out
  <2> QED
    BY <1>0, <2>1, <2>2, SetEffect DEF Looks
<1>6. CASE Cancel(x)
  <2>1. e.pc \in {"enter", "work", "skill"} /\ Set(x, [e EXCEPT !.cancelled = TRUE])
    BY <1>6 DEF Cancel
  <2>2. [e EXCEPT !.cancelled = TRUE].pc = e.pc
    BY <1>0 DEF Executions
  <2> QED
    BY <2>1, <2>2, SetEffect DEF Looks
<1>7. CASE PlanByLLM(x) \/ \E g \in Goal : Achieve(x, g)
  <2>1. e.pc \in {"ask", "idle"}
    BY <1>7 DEF PlanByLLM, Achieve, Standing
  <2>2. \A g, plan : /\ [Idle EXCEPT !.pc = "ask", !.goal = g].pc = "ask"
                     /\ [Idle EXCEPT !.pc = "plan", !.goal = g, !.plan = plan].pc = "plan"
    BY DEF Idle
  <2>3. CASE Set(x, Over)
    BY <1>0, <2>1, <2>3, SetEffect DEF Looks
  <2>4. ASSUME NEW g, Set(x, [Idle EXCEPT !.pc = "ask", !.goal = g]) PROVE e.pc \notin Looks /\ exec'[x].pc \notin Looks
    <3>1. exec'[x] = [Idle EXCEPT !.pc = "ask", !.goal = g]
      BY <2>4, SetEffect
    <3>2. exec'[x].pc = "ask"
      BY <2>2, <3>1
    <3> QED
      BY <2>1, <3>2 DEF Looks
  <2>5. ASSUME NEW g, NEW plan, Set(x, [Idle EXCEPT !.pc = "plan", !.goal = g, !.plan = plan])
        PROVE  e.pc \notin Looks /\ exec'[x].pc \notin Looks
    <3>1. exec'[x] = [Idle EXCEPT !.pc = "plan", !.goal = g, !.plan = plan]
      BY <2>5, SetEffect
    <3>2. exec'[x].pc = "plan"
      BY <2>2, <3>1
    <3> QED
      BY <2>1, <3>2 DEF Looks
  <2> QED
    BY <1>7, <2>3, <2>4, <2>5 DEF PlanByLLM, Achieve, Planned, End
<1>8. CASE RunStep(x)
  <2>1. e.pc = "plan" /\ ((\E status : Set(x, Result(e, status))) \/ \E s : Set(x, RunSkill(e, s)))
    BY <1>8 DEF RunStep, Standing
  <2> QED
    BY <1>0, <2>1, ResultPlace, RunPlace, SetEffect DEF Looks
<1>9. CASE StepReturns(x)
  <2>1. e.pc = "skill" /\ \E status : Set(x, Result(e, status))
    BY <1>9 DEF StepReturns, Standing
  <2> QED
    BY <1>0, <2>1, ResultPlace, SetEffect DEF Looks
<1>10. CASE EndPlan(x)
  <2>1. e.pc = "plan" /\ (Set(x, [Idle EXCEPT !.pc = "search", !.goal = exec[x].goal]) \/ Set(x, Over))
    BY <1>10 DEF EndPlan, End, Standing
  <2>2. [Idle EXCEPT !.pc = "search", !.goal = exec[x].goal].pc = "search"
    BY DEF Idle
  <2> QED
    BY <1>0, <2>1, <2>2, SetEffect DEF Looks
<1>11. CASE \E c \in Capability : Execute(x, c)
  <2>1. e.pc = "idle" /\ (Set(x, Over) \/ (\E s : Set(x, RunSkill(e, s))) \/ \E a : Set(x, Enter(e, a)))
    BY <1>11 DEF Execute, Standing
  <2> QED
    BY <1>0, <2>1, RunPlace, EnterPlace, SetEffect DEF Looks
<1> QED
  BY <1>1, <1>2, <1>3, <1>4, <1>5, <1>6, <1>7, <1>8, <1>9, <1>10, <1>11 DEF Runs

LEMMA SameProposing ==
    ASSUME AgentsTypeOK, NEW x \in Exec, Moves(x), exec[x].pc \notin Looks, exec'[x].pc \notin Looks, NEW g \in Goal
    PROVE  Proposing(g)' = Proposing(g)
<1>1. \A y \in Exec : y # x => exec'[y] = exec[y]
  BY DEF Moves, AgentsTypeOK
<1> QED
  BY <1>1 DEF Proposing, Looks

LEMMA RunsProposal ==
    ASSUME AgentsTypeOK, ExecInv, ProposalInv, NEW x \in Exec, Runs(x)
    PROVE  ProposalInv'
<1>1. exec[x].pc \notin Looks /\ exec'[x].pc \notin Looks /\ Moves(x) /\ UNCHANGED learning
  BY RunsPlace, RunsSound
<1>2. \A g \in Goal : Proposing(g)' = Proposing(g)
  BY <1>1, SameProposing
<1>3. \A y \in Exec : exec'[y] = exec[y] \/ y = x
  BY <1>1 DEF Moves, AgentsTypeOK
<1>4. \A g \in Goal : x \notin Proposing(g)
  BY <1>1 DEF Proposing, Looks
<1>5. OnlyProposer'
  <2> SUFFICES ASSUME NEW g \in Goal \ raced', NEW y \in Proposing(g)'
               PROVE  /\ Proposing(g)' = {y} /\ approved'[g] = 0 /\ playbooks'[g] = 0
                      /\ exec'[y].pc = "propose" => pending'[g] = 0
    BY DEF OnlyProposer
  <2>1. y \in Proposing(g) /\ g \in Goal \ raced /\ Proposing(g)' = Proposing(g)
    BY <1>1, <1>2 DEF learning
  <2>2. exec'[y] = exec[y]
    BY <1>3, <1>4, <2>1 DEF Proposing
  <2> QED
    BY <1>1, <2>1, <2>2 DEF ProposalInv, OnlyProposer, learning
<1> QED
  BY <1>1, <1>5 DEF ProposalInv, OneProposal, learning

\* The proposer leaves its goal alone, or is the only one to look.
LEMMA ProposerProposal ==
    ASSUME AgentsTypeOK, ExecInv, ProposalInv, NEW x \in Exec, Proposer(x)
    PROVE  ProposalInv'
<1> DEFINE g == exec[x].goal
<1>0. g \in Goal /\ g # None /\ exec[x] \in Executions /\ UNCHANGED <<approved, playbooks>>
  BY ProposerGoal, ProposerType, OrchestrationAssumption DEF AgentsTypeOK
<1>1. \A y \in Exec : exec'[y] = exec[y] \/ y = x
  BY ProposerStep DEF Moves, AgentsTypeOK
<1>2. \A h \in Goal : pending[h] \in Nat /\ approved[h] \in Nat /\ playbooks[h] \in Nat
  BY DEF AgentsTypeOK
<1>3. Over.goal = None /\ Over.pc = "over"
  BY DEF Over, Idle
\* it gives up
<1>4. ASSUME exec'[x] = Over, UNCHANGED <<pending, raced>> PROVE ProposalInv'
  <2>1. \A h \in Goal : Proposing(h)' = Proposing(h) \ {x}
    BY <1>0, <1>1, <1>3, <1>4 DEF Proposing
  <2>2. \A h \in Goal : \A y \in Proposing(h)' : y \in Proposing(h) /\ y # x /\ exec'[y] = exec[y] /\ y \in Exec
    BY <1>1, <2>1 DEF Proposing
  <2>3. OnlyProposer'
    BY <1>0, <1>4, <2>1, <2>2 DEF ProposalInv, OnlyProposer
  <2> QED
    BY <1>0, <1>4, <2>3 DEF ProposalInv, OneProposal
<1>5. CASE SearchPlaybooks(x)
  <2>1. exec[x].pc = "search" /\ pending' = pending
    BY <1>5 DEF SearchPlaybooks, Standing
  <2>2. CASE End(x) /\ UNCHANGED raced
    BY <1>4, <2>1, <2>2, SetEffect DEF End
  <2>3. CASE ~(End(x) /\ UNCHANGED raced)
    <3>1. /\ playbooks[g] = 0 /\ Set(x, [exec[x] EXCEPT !.pc = "pending"])
          /\ raced' = Races(g, Proposing(g) # {} \/ approved[g] > 0)
      BY <1>5, <2>3 DEF SearchPlaybooks
    <3>2. exec'[x].pc = "pending" /\ exec'[x].goal = g
      BY <1>0, <3>1, SetEffect DEF Executions
    <3>3. \A h \in Goal : h # g => Proposing(h)' = Proposing(h)
      BY <1>0, <1>1, <2>1, <3>2 DEF Proposing
    <3>4. Proposing(g)' = Proposing(g) \cup {x}
      BY <1>0, <1>1, <3>2 DEF Proposing
    <3>5. raced \subseteq raced' /\ (g \notin raced' => Proposing(g) = {} /\ approved[g] = 0)
      BY <1>0, <1>2, <3>1 DEF Races
    <3>6. \A h \in Goal : h # g => x \notin Proposing(h)
      BY <1>0 DEF Proposing
    <3>7. OnlyProposer'
      <4> SUFFICES ASSUME NEW h \in Goal \ raced', NEW y \in Proposing(h)'
                   PROVE  /\ Proposing(h)' = {y} /\ approved'[h] = 0 /\ playbooks'[h] = 0
                          /\ exec'[y].pc = "propose" => pending'[h] = 0
        BY DEF OnlyProposer
      <4>1. CASE h = g
        BY <1>0, <2>1, <3>1, <3>2, <3>4, <3>5, <4>1
      <4>2. CASE h # g
        <5>1. y \in Proposing(h) /\ y # x /\ h \in Goal \ raced /\ Proposing(h)' = Proposing(h) /\ y \in Exec
          BY <3>3, <3>5, <3>6, <4>2 DEF Proposing
        <5> QED
          BY <1>0, <1>1, <2>1, <5>1 DEF ProposalInv, OnlyProposer
      <4> QED
        BY <4>1, <4>2
    <3> QED
      BY <1>0, <2>1, <3>5, <3>7 DEF ProposalInv, OneProposal
  <2> QED
    BY <2>2, <2>3
<1>6. CASE SeePending(x)
  <2>1. exec[x].pc = "pending" /\ UNCHANGED <<pending, raced>>
    BY <1>6 DEF SeePending, Standing, learning
  <2>2. CASE pending[g] > 0
    BY <1>4, <1>6, <2>1, <2>2, SetEffect DEF SeePending, End
  <2>3. CASE ~(pending[g] > 0)
    <3>1. Set(x, [exec[x] EXCEPT !.pc = "propose"])
      BY <1>6, <2>3 DEF SeePending
    <3>2. exec'[x].pc = "propose" /\ exec'[x].goal = g
      BY <1>0, <3>1, SetEffect DEF Executions
    <3>3. \A h \in Goal : Proposing(h)' = Proposing(h)
      BY <1>0, <1>1, <2>1, <3>2 DEF Proposing
    <3>4. \A h \in Goal : x \in Proposing(h) => h = g
      BY <1>0 DEF Proposing
    <3>5. pending[g] = 0
      BY <1>0, <1>2, <2>3
    <3>6. OnlyProposer'
      BY <1>0, <1>1, <2>1, <3>3, <3>4, <3>5 DEF ProposalInv, OnlyProposer, Proposing
    <3> QED
      BY <1>0, <2>1, <3>6 DEF ProposalInv, OneProposal
  <2> QED
    BY <2>2, <2>3
<1>7. CASE Propose(x)
  <2>1. exec[x].pc = "propose" /\ exec'[x] = Over /\ UNCHANGED raced /\ pending' = [pending EXCEPT ![g] = pending[g] + 1]
    BY <1>7, SetEffect DEF Propose, End, Standing
  <2>2. \A h \in Goal : Proposing(h)' = Proposing(h) \ {x}
    BY <1>0, <1>1, <1>3, <2>1 DEF Proposing
  <2>3. x \in Proposing(g)
    BY <1>0, <2>1 DEF Proposing
  <2>4. \A h \in Goal : pending'[h] = IF h = g THEN pending[g] + 1 ELSE pending[h]
    BY <1>0, <2>1 DEF AgentsTypeOK
  <2>5. g \notin raced => Proposing(g) = {x} /\ approved[g] = 0 /\ playbooks[g] = 0 /\ pending[g] = 0
    BY <1>0, <2>1, <2>3 DEF ProposalInv, OnlyProposer
  <2>6. OnlyProposer'
    <3> SUFFICES ASSUME NEW h \in Goal \ raced', NEW y \in Proposing(h)'
                 PROVE  /\ Proposing(h)' = {y} /\ approved'[h] = 0 /\ playbooks'[h] = 0
                        /\ exec'[y].pc = "propose" => pending'[h] = 0
      BY DEF OnlyProposer
    <3>1. h \in Goal \ raced /\ y \in Proposing(h) /\ y # x /\ Proposing(h)' = Proposing(h) \ {x}
      BY <2>1, <2>2
    <3>2. h # g
      BY <2>5, <3>1
    <3>3. Proposing(h) = {y} /\ approved[h] = 0 /\ playbooks[h] = 0 /\ (exec[y].pc = "propose" => pending[h] = 0)
      BY <3>1 DEF ProposalInv, OnlyProposer
    <3>4. exec'[y] = exec[y] /\ pending'[h] = pending[h]
      BY <1>1, <2>4, <3>1, <3>2 DEF Proposing
    <3> QED
      BY <1>0, <3>1, <3>3, <3>4
  <2>7. OneProposal'
    BY <1>0, <1>2, <2>1, <2>4, <2>5 DEF ProposalInv, OneProposal
  <2> QED
    BY <2>6, <2>7 DEF ProposalInv
<1>8. CASE ProposalFails(x)
  BY <1>4, <1>8, SetEffect DEF ProposalFails, End, learning
<1> QED
  BY <1>5, <1>6, <1>7, <1>8 DEF Proposer

\* A decision while another looks at the goal is the race that is told.
LEMMA DecidesProposal ==
    ASSUME AgentsTypeOK, ProposalInv, Decides
    PROVE  ProposalInv'
<1>0. PICK g \in Goal : Decide(g, TRUE) \/ Decide(g, FALSE) \/ WritePlaybook(g) \/ ForgetPlaybook(g)
  BY DEF Decides
<1>1. exec' = exec
  BY <1>0 DEF Decide, WritePlaybook, ForgetPlaybook
<1>2. \A h \in Goal : Proposing(h)' = Proposing(h)
  BY <1>1 DEF Proposing
<1>3. \A h \in Goal : pending[h] \in Nat /\ approved[h] \in Nat /\ playbooks[h] \in Nat
  BY DEF AgentsTypeOK
<1>4. \A h \in Goal : h # g => /\ pending'[h] = pending[h] /\ approved'[h] = approved[h]
                                /\ playbooks'[h] = playbooks[h] /\ (h \in raced' <=> h \in raced)
  BY <1>0 DEF Decide, WritePlaybook, ForgetPlaybook, Races, AgentsTypeOK
<1>5. raced \subseteq raced'
  BY <1>0 DEF Decide, WritePlaybook, ForgetPlaybook, Races
<1>6. pending'[g] + approved'[g] + playbooks'[g] <= pending[g] + approved[g] + playbooks[g]
  <2>1. CASE Decide(g, TRUE) \/ Decide(g, FALSE)
    <3>1. /\ pending'[g] = pending[g] - 1 /\ playbooks' = playbooks
          /\ approved'[g] = approved[g] \/ approved'[g] = approved[g] + 1
      BY <2>1 DEF Decide, AgentsTypeOK
    <3> QED
      BY <1>3, <3>1
  <2>2. CASE WritePlaybook(g)
    <3>1. /\ approved'[g] = approved[g] - 1 /\ pending' = pending
          /\ playbooks'[g] = playbooks[g] \/ playbooks'[g] = playbooks[g] + 1
      BY <2>2 DEF WritePlaybook, AgentsTypeOK
    <3> QED
      BY <1>3, <3>1
  <2>3. CASE ForgetPlaybook(g)
    <3>1. playbooks'[g] = playbooks[g] - 1 /\ UNCHANGED <<pending, approved>>
      BY <2>3 DEF ForgetPlaybook, AgentsTypeOK
    <3> QED
      BY <1>3, <3>1
  <2> QED
    BY <1>0, <2>1, <2>2, <2>3
<1>7. OneProposal'
  <2> SUFFICES ASSUME NEW h \in Goal \ raced'
               PROVE  pending'[h] + approved'[h] + playbooks'[h] <= 1
    BY DEF OneProposal
  <2>1. pending[h] + approved[h] + playbooks[h] <= 1
    BY <1>5 DEF ProposalInv, OneProposal
  <2>2. CASE h # g
    BY <1>4, <2>1, <2>2
  <2>3. CASE h = g
    <3>1. pending'[g] \in Nat /\ approved'[g] \in Nat /\ playbooks'[g] \in Nat
      BY CountsType
    <3> QED
      BY <1>3, <1>6, <2>1, <2>3, <3>1
  <2> QED
    BY <2>2, <2>3
<1>8. g \in raced' \/ Proposing(g) = {} \/ g \in raced
  <2>1. CASE Decide(g, TRUE) \/ Decide(g, FALSE)
    BY <2>1 DEF Decide, Races
  <2>2. CASE WritePlaybook(g) \/ ForgetPlaybook(g)
    <3>1. approved[g] > 0 \/ playbooks[g] > 0
      BY <2>2 DEF WritePlaybook, ForgetPlaybook
    <3>2. approved[g] # 0 \/ playbooks[g] # 0
      BY <1>3, <3>1
    <3> QED
      BY <3>2 DEF ProposalInv, OnlyProposer
  <2> QED
    BY <1>0, <2>1, <2>2
<1>9. OnlyProposer'
  <2> SUFFICES ASSUME NEW h \in Goal \ raced', NEW y \in Proposing(h)'
               PROVE  /\ Proposing(h)' = {y} /\ approved'[h] = 0 /\ playbooks'[h] = 0
                      /\ exec'[y].pc = "propose" => pending'[h] = 0
    BY DEF OnlyProposer
  <2>1. h \in Goal \ raced /\ y \in Proposing(h) /\ h # g
    BY <1>2, <1>5, <1>8
  <2> QED
    BY <1>1, <1>2, <1>4, <2>1 DEF ProposalInv, OnlyProposer
<1> QED
  BY <1>7, <1>9 DEF ProposalInv

LEMMA ProposalInit == AgentsInit => ProposalInv
<1> SUFFICES ASSUME AgentsInit PROVE ProposalInv
  OBVIOUS
<1>1. \A g \in Goal : pending[g] = 0 /\ approved[g] = 0 /\ playbooks[g] = 0
  BY DEF AgentsInit
<1>2. \A g \in Goal : Proposing(g) = {}
  BY DEF AgentsInit, Proposing, Idle
<1>3. OneProposal
  BY <1>1 DEF OneProposal
<1> QED
  BY <1>2, <1>3 DEF ProposalInv, OnlyProposer

LEMMA ProposalStep == ASSUME AgentsTypeOK, ExecInv, ProposalInv, [AgentsNext]_agentsVars PROVE ProposalInv'
<1>1. CASE UNCHANGED <<exec, learning>>
  <2>1. \A g : Proposing(g)' = Proposing(g)
    BY <1>1 DEF Proposing
  <2> QED
    BY <1>1, <2>1 DEF ProposalInv, OneProposal, OnlyProposer, learning
<1>2. CASE Registers
  BY <1>1, <1>2 DEF Registers, Register, Upgrade, SetEnabled, Change
<1>3. CASE UNCHANGED agentsVars
  BY <1>1, <1>3 DEF agentsVars
<1> QED
  BY <1>2, <1>3, StepKinds, RunsProposal, ProposerProposal, DecidesProposal

\* OneProposal: unless another execution proposes the same goal or the user
\* decides meanwhile, a goal has one ticket or playbook (learning.py:110-119).
THEOREM ProposedOnce == AgentsSpec => []OneProposal
<1>1. AgentsTypeOK /\ ExecInv /\ ProposalInv /\ [AgentsNext]_agentsVars => ProposalInv'
  BY ProposalStep
<1>2. ProposalInv => OneProposal
  BY DEF ProposalInv
<1> QED
  BY <1>1, <1>2, ProposalInit, AlwaysSound, PTL DEF AgentsSpec
==============================================================================
