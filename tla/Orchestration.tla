---------------------------- MODULE Orchestration ----------------------------
(***************************************************************************)
(* The orchestrator (kernel/orchestrator.py): a capability is resolved to  *)
(* a skill or to an agent that works in a sandbox and may delegate         *)
(* (kernel/sandbox.py, agents/), over registries that change meanwhile; a  *)
(* goal is planned and run step by step (kernel/planning.py,               *)
(* kernel/llm_planner.py), and a plan that worked is proposed to the user  *)
(* as a playbook (kernel/learning.py, modules/playbooks.py).               *)
(*                                                                         *)
(* An agent's work is the sequence of the skills it runs and of the        *)
(* capabilities it delegates; what they return is abstracted to whether    *)
(* they fail.                                                              *)
(***************************************************************************)
EXTENDS Naturals, Sequences, FiniteSets

CONSTANTS Exec,         \* executions
          Agent, Capability, Skill, Scope, Goal,
          Manifest,     \* [Agent -> what it declares, and its work]
          ScopeOf,      \* [Skill -> the scope it requires]
          Granted,      \* scopes the permissions allow the user
          Specs,        \* capabilities with a specification
          Offered,      \* [Capability -> sequence of the skills that provide it]
          Registered0,  \* agents registered when the node starts, in order
          PlansOf,      \* [Goal -> the keyword planner's plan]
          LLMPlans,     \* what the planner of the last layer may answer
          MinSteps,     \* of a plan worth a proposal
          None
\* Bounds: registrations and switches of agents while executions run.
CONSTANTS MaxChanges

\* An agent's work: what it runs and what it delegates, in order.
Items == [kind : {"skill"}, name : Skill] \cup [kind : {"delegate"}, name : Capability]
Manifests == [capabilities : Seq(Capability), scopes : SUBSET Scope, work : Seq(Items), partial : BOOLEAN,
              canDelegate : BOOLEAN, to : SUBSET Capability, maxSteps : Nat, maxDepth : Nat]
Steps == [skill : Skill, dependsOn : SUBSET Nat]

ASSUME OrchestrationAssumption ==
    /\ Specs \subseteq Capability /\ ScopeOf \in [Skill -> Scope] /\ Manifest \in [Agent -> Manifests]
    /\ PlansOf \in [Goal -> Seq(Steps)] /\ LLMPlans \subseteq Seq(Steps)
    /\ Registered0 \in Seq(Agent)
    /\ None \notin Agent \cup Skill \cup Goal
    /\ MinSteps \in Nat /\ MaxChanges \in Nat

VARIABLES
    agents,     \* agents registered
    providers,  \* [Capability -> sequence of the providers published]
    exec,       \* [Exec -> the execution]
    pending,    \* [Goal -> tickets of a proposal not decided]
    approved,   \* [Goal -> tickets approved, whose playbook is not written yet]
    playbooks,  \* [Goal -> playbooks written]
    changes,
    raced       \* history: goals a proposal was looked for while another moved

registry == <<agents, providers, changes>>
learning == <<pending, approved, playbooks, raced>>
agentsVars == <<registry, exec, learning>>

-----------------------------------------------------------------------------
(* The registries.                                                         *)

Provider(ref) == [ref |-> ref, enabled |-> TRUE]

\* register_provider: the provider of the same name is replaced.
PublishProvider(ps, c, ref) ==
    [ps EXCEPT ![c] = Append(SelectSeq(@, LAMBDA p : p.ref # ref), Provider(ref))]

\* The capabilities of a, up to the first that has no specification.
Publishable(a) ==
    LET caps == Manifest[a].capabilities IN
    {caps[n] : n \in {k \in 1..Len(caps) : \A m \in 1..k : caps[m] \in Specs}}

PublishAll(ps, a) ==
    [c \in Capability |-> IF c \in Publishable(a) THEN PublishProvider(ps, c, a)[c] ELSE ps[c]]

Complete(a) == \A n \in 1..Len(Manifest[a].capabilities) : Manifest[a].capabilities[n] \in Specs

\* resolve: equal priorities, all local: the first that is enabled.
Enabled(c) == {n \in 1..Len(providers[c]) : providers[c][n].enabled}
Resolve(c) == IF c \notin Specs \/ Enabled(c) = {} THEN None
              ELSE providers[c][CHOOSE n \in Enabled(c) : \A m \in Enabled(c) : n <= m].ref

Idle == [pc |-> "idle", frames |-> <<>>, spent |-> 0, ran |-> 0, cancelled |-> FALSE, skill |-> None,
         goal |-> None, plan |-> <<>>, results |-> <<>>]

AgentsInit ==
    /\ agents = {Registered0[n] : n \in 1..Len(Registered0)}
    /\ providers = [c \in Capability |->
         LET refs == Offered[c] \o SelectSeq(Registered0, LAMBDA a : c \in Publishable(a))
         IN [n \in 1..Len(refs) |-> Provider(refs[n])]]
    /\ exec = [x \in Exec |-> Idle]
    /\ pending = [g \in Goal |-> 0] /\ approved = [g \in Goal |-> 0] /\ playbooks = [g \in Goal |-> 0]
    /\ changes = 0 /\ raced = {}

Change ==
    /\ changes < MaxChanges
    /\ changes' = changes + 1
    /\ UNCHANGED <<exec, learning>>

\* A registration publishes the providers first: when a specification is
\* missing it stops there, and the agent is not registered.
Register(a) ==
    /\ Change
    /\ a \notin agents
    /\ providers' = PublishAll(providers, a)
    /\ agents' = IF Complete(a) THEN agents \cup {a} ELSE agents

\* Another version of an agent: its providers are published again, enabled.
Upgrade(a) ==
    /\ Change
    /\ a \in agents
    /\ providers' = PublishAll(providers, a)
    /\ UNCHANGED agents

SetEnabled(a, on) ==
    /\ Change
    /\ a \in agents
    /\ providers' = [c \in Capability |->
         [n \in DOMAIN providers[c] |->
            IF providers[c][n].ref = a THEN [providers[c][n] EXCEPT !.enabled = on] ELSE providers[c][n]]]
    /\ UNCHANGED agents

-----------------------------------------------------------------------------
(* The sandbox.                                                            *)

Standing(x, label) == exec[x].pc = label
Set(x, fields) == exec' = [exec EXCEPT ![x] = fields]

\* What ends keeps nothing: its sandboxes are discarded.
Over == [Idle EXCEPT !.pc = "over"]
End(x) == Set(x, Over)

Top(e) == e.frames[Len(e.frames)]
Head1(e) == Head(Top(e).todo)
Chain(e) == {e.frames[n].agent : n \in 1..Len(e.frames)}
Frame(a, scopes) == [agent |-> a, scopes |-> scopes, todo |-> Manifest[a].work]

\* The item that is done, or whose failure an agent put up with, leaves.
Next1(e) == [e EXCEPT !.frames[Len(e.frames)].todo = Tail(@), !.pc = "work", !.skill = None]

\* An exception leaves every agent but the first that answers with what it has.
Catcher(e) == {n \in 1..Len(e.frames) : Manifest[e.frames[n].agent].partial}
Raise(e) ==
    IF Catcher(e) = {} THEN Over
    ELSE LET n == CHOOSE n \in Catcher(e) : \A m \in Catcher(e) : m <= n
         IN Next1([e EXCEPT !.frames = SubSeq(@, 1, n)])

\* BudgetTracker.charge, of the tree: the limit is the first agent's.
Limit(e) == Manifest[e.frames[1].agent].maxSteps
Charge(e) == [e EXCEPT !.spent = @ + 1]
\* Variant: the limit is compared before the step is debited.
CheckedFirst(e) == e.spent > Limit(e) + 1
Exceeded(e) == e.spent > Limit(e)

\* Variant: a delegate has what it declares, whoever delegated to it.
OwnScopes(e, a) == Manifest[a].scopes
\* AgentSandbox.child, and the first sandbox.
ChildScopes(e, a) == IF e.frames = <<>> THEN Manifest[a].scopes ELSE Top(e).scopes \cap Manifest[a].scopes

\* ScopedPermissions.is_allowed, over the permissions of the user.
Allowed(e, s) == ScopeOf[s] \in Granted /\ (e.frames = <<>> \/ ScopeOf[s] \in Top(e).scopes)

\* skills.execute: nothing runs without permission.
RunSkill(e, s) == IF Allowed(e, s) THEN [e EXCEPT !.pc = "skill", !.skill = s, !.ran = @ + 1] ELSE Raise(e)

Enter(e, a) ==
    IF a \notin agents THEN Raise(e)
    ELSE [e EXCEPT !.frames = Append(@, Frame(a, ChildScopes(e, a))), !.pc = "enter"]

-----------------------------------------------------------------------------
(* Layers 1 and 2, and delegation.                                         *)

Execute(x, c) ==
    /\ Standing(x, "idle")
    /\ Set(x, IF Resolve(c) = None THEN Over
              ELSE IF Resolve(c) \in Skill THEN RunSkill(exec[x], Resolve(c))
              ELSE Enter(exec[x], Resolve(c)))
    /\ UNCHANGED <<registry, learning>>

\* The head of an agent's handler.  One that only delegates observes the
\* cancellation here; one that runs skills, before each.
Handle(x) ==
    /\ Standing(x, "enter")
    /\ LET e == exec[x] IN
       \* the handler's own catch does not cover its first lines
       Set(x, IF e.cancelled /\ Manifest[Top(e).agent].partial
              THEN IF Len(e.frames) = 1 THEN Over
                   ELSE Raise([e EXCEPT !.frames = SubSeq(@, 1, Len(@) - 1)])
              ELSE [e EXCEPT !.pc = "work"])
    /\ UNCHANGED <<registry, learning>>

Working(x, kind) == Standing(x, "work") /\ Top(exec[x]).todo # <<>> /\ Head1(exec[x]).kind = kind

Work(x) ==
    /\ Working(x, "skill")
    /\ LET e == Charge(exec[x]) IN
       Set(x, IF Exceeded(e) \/ e.cancelled THEN Raise(e) ELSE RunSkill(e, Head1(e).name))
    /\ UNCHANGED <<registry, learning>>

\* delegate: an empty list of capabilities forbids none.
MayDelegate(e, c) ==
    LET m == Manifest[Top(e).agent] IN m.canDelegate /\ (m.to = {} \/ c \in m.to)

\* child: no agent twice in a chain, nor deeper than the delegator's limit.
MayEnter(e, a) == a \notin Chain(e) /\ Len(e.frames) <= Manifest[Top(e).agent].maxDepth

Delegate(x) ==
    /\ Working(x, "delegate")
    /\ LET e == exec[x]
           c == Head1(e).name
           ref == Resolve(c)
       IN Set(x, IF ~MayDelegate(e, c) \/ ref = None THEN Raise(e)
                 ELSE IF ref \in Skill
                      THEN IF Exceeded(Charge(e)) THEN Raise(Charge(e)) ELSE RunSkill(Charge(e), ref)
                 ELSE IF MayEnter(e, ref) THEN Enter(e, ref) ELSE Raise(e))
    /\ UNCHANGED <<registry, learning>>

\* A skill returns or raises.
SkillReturns(x) ==
    /\ Standing(x, "skill") /\ exec[x].goal = None
    /\ \/ Set(x, IF exec[x].frames = <<>> THEN Over ELSE Next1(exec[x]))
       \/ Set(x, Raise(exec[x]))
    /\ UNCHANGED <<registry, learning>>

Return(x) ==
    /\ Standing(x, "work") /\ Top(exec[x]).todo = <<>>
    /\ LET e == [exec[x] EXCEPT !.frames = SubSeq(@, 1, Len(@) - 1)]
       IN Set(x, IF e.frames = <<>> THEN Over ELSE Next1(e))
    /\ UNCHANGED <<registry, learning>>

Cancel(x) ==
    /\ exec[x].pc \in {"enter", "work", "skill"} /\ ~exec[x].cancelled /\ exec[x].goal = None
    /\ Set(x, [exec[x] EXCEPT !.cancelled = TRUE])
    /\ UNCHANGED <<registry, learning>>

-----------------------------------------------------------------------------
(* Layers 3 and 4: a plan.                                                 *)

Planned(x, g, plan) == Set(x, [Idle EXCEPT !.pc = "plan", !.goal = g, !.plan = plan])

Achieve(x, g) ==
    /\ Standing(x, "idle")
    /\ IF PlansOf[g] = <<>> THEN Set(x, [Idle EXCEPT !.pc = "ask", !.goal = g]) ELSE Planned(x, g, PlansOf[g])
    /\ UNCHANGED <<registry, learning>>

\* The planner of the last layer answers with steps that exist, or with none.
PlanByLLM(x) ==
    /\ Standing(x, "ask")
    /\ \/ \E plan \in LLMPlans : Planned(x, exec[x].goal, plan)
       \/ End(x)
    /\ UNCHANGED <<registry, learning>>

Index(e) == Len(e.results) + 1
FailedDependency(e) == \E d \in e.plan[Index(e)].dependsOn : e.results[d] # "completed"
Result(e, status) == [e EXCEPT !.results = Append(@, status), !.pc = "plan", !.skill = None]

RunStep(x) ==
    /\ Standing(x, "plan") /\ Index(exec[x]) <= Len(exec[x].plan)
    /\ LET e == exec[x]
           s == e.plan[Index(e)].skill
       IN Set(x, IF FailedDependency(e) THEN Result(e, "skipped")
                 ELSE IF Allowed(e, s) THEN RunSkill(e, s) ELSE Result(e, "failed"))
    /\ UNCHANGED <<registry, learning>>

StepReturns(x) ==
    /\ Standing(x, "skill") /\ exec[x].goal # None
    /\ \E status \in {"completed", "failed"} : Set(x, Result(exec[x], status))
    /\ UNCHANGED <<registry, learning>>

Succeeded(e) == \A n \in DOMAIN e.results : e.results[n] = "completed"

EndPlan(x) ==
    /\ Standing(x, "plan") /\ Index(exec[x]) > Len(exec[x].plan)
    /\ IF Succeeded(exec[x]) /\ Len(exec[x].results) >= MinSteps
       THEN Set(x, [Idle EXCEPT !.pc = "search", !.goal = exec[x].goal])
       ELSE End(x)
    /\ UNCHANGED <<registry, learning>>

-----------------------------------------------------------------------------
(* The learning loop: what is known, what is pending, a new ticket.         *)

Proposing(g) == {x \in Exec : exec[x].goal = g /\ exec[x].pc \in {"pending", "propose"}}
Races(g, others) == IF others THEN raced \cup {g} ELSE raced

\* The words of a goal may also find the playbook of another.
SearchPlaybooks(x) ==
    /\ Standing(x, "search")
    /\ LET g == exec[x].goal IN
       \/ /\ \E h \in Goal : playbooks[h] > 0
          /\ End(x) /\ UNCHANGED raced
       \/ /\ playbooks[g] = 0
          /\ Set(x, [exec[x] EXCEPT !.pc = "pending"])
          /\ raced' = Races(g, Proposing(g) # {} \/ approved[g] > 0)
    /\ UNCHANGED <<registry, pending, approved, playbooks>>

\* Variant: a ticket that waits for the user is not looked for.
IgnorePending(x) ==
    /\ Standing(x, "pending")
    /\ Set(x, [exec[x] EXCEPT !.pc = "propose"])
    /\ UNCHANGED <<registry, learning>>

SeePending(x) ==
    /\ Standing(x, "pending")
    /\ IF pending[exec[x].goal] > 0 THEN End(x) ELSE Set(x, [exec[x] EXCEPT !.pc = "propose"])
    /\ UNCHANGED <<registry, learning>>

Propose(x) ==
    /\ Standing(x, "propose")
    /\ pending' = [pending EXCEPT ![exec[x].goal] = @ + 1]
    /\ End(x)
    /\ UNCHANGED <<registry, approved, playbooks, raced>>

\* A proposal that fails does not fail the plan.
ProposalFails(x) ==
    /\ exec[x].pc \in {"search", "pending", "propose"}
    /\ End(x)
    /\ UNCHANGED <<registry, learning>>

\* The user decides; what was approved is executed next, and may fail.
Decide(g, yes) ==
    /\ pending[g] > 0
    /\ pending' = [pending EXCEPT ![g] = @ - 1]
    /\ approved' = IF yes THEN [approved EXCEPT ![g] = @ + 1] ELSE approved
    /\ raced' = Races(g, Proposing(g) # {})
    /\ UNCHANGED <<registry, exec, playbooks>>

WritePlaybook(g) ==
    /\ approved[g] > 0
    /\ approved' = [approved EXCEPT ![g] = @ - 1]
    /\ \/ playbooks' = [playbooks EXCEPT ![g] = @ + 1]
       \/ UNCHANGED playbooks
    /\ UNCHANGED <<registry, exec, pending, raced>>

ForgetPlaybook(g) ==
    /\ playbooks[g] > 0
    /\ playbooks' = [playbooks EXCEPT ![g] = @ - 1]
    /\ UNCHANGED <<registry, exec, pending, approved, raced>>

-----------------------------------------------------------------------------
AgentsNext == \/ \E a \in Agent : Register(a) \/ Upgrade(a) \/ SetEnabled(a, TRUE) \/ SetEnabled(a, FALSE)
        \/ \E x \in Exec : \/ Handle(x) \/ Work(x) \/ Delegate(x) \/ SkillReturns(x) \/ Return(x)
                           \/ Cancel(x) \/ PlanByLLM(x) \/ RunStep(x) \/ StepReturns(x) \/ EndPlan(x)
                           \/ SearchPlaybooks(x) \/ SeePending(x) \/ Propose(x) \/ ProposalFails(x)
                           \/ \E c \in Capability : Execute(x, c)
                           \/ \E g \in Goal : Achieve(x, g)
        \/ \E g \in Goal : \/ Decide(g, TRUE) \/ Decide(g, FALSE)
                           \/ WritePlaybook(g) \/ ForgetPlaybook(g)

AgentsSpec == AgentsInit /\ [][AgentsNext]_agentsVars

-----------------------------------------------------------------------------
(* Types.                                                                  *)
WorkPlaces == {"idle", "enter", "work", "skill", "plan", "ask", "search", "pending", "propose", "over"}
Frames == [agent : Agent, scopes : SUBSET Scope, todo : Seq(Items)]
Executions == [pc : WorkPlaces, frames : Seq(Frames), spent : Nat, ran : Nat, cancelled : BOOLEAN,
               skill : Skill \cup {None}, goal : Goal \cup {None}, plan : Seq(Steps),
               results : Seq({"completed", "failed", "skipped"})]

\* The registry of providers is left out: whoever it names is entered only
\* when it is registered, and run only when it is a skill.
AgentsTypeOK ==
    /\ agents \subseteq Agent /\ changes \in 0..MaxChanges
    /\ exec \in [Exec -> Executions]
    /\ pending \in [Goal -> Nat] /\ approved \in [Goal -> Nat] /\ playbooks \in [Goal -> Nat]
    /\ raced \subseteq Goal

\* A skill that runs for an agent requires what every agent of the chain
\* declares and the user was granted, over delegations and agents that come
\* and go (sandbox.py:108-127, 186-203).
WithinScopes ==
    \A x \in Exec : exec[x].skill # None =>
        /\ ScopeOf[exec[x].skill] \in Granted
        /\ \A a \in Chain(exec[x]) : ScopeOf[exec[x].skill] \in Manifest[a].scopes

\* The skills a tree of delegations ran are within what its first agent
\* declares, however many failed and were tolerated (sandbox.py:170-172).
TreeWithinBudget ==
    \A x \in Exec : exec[x].frames # <<>> => exec[x].ran <= Limit(exec[x])

\* One proposal of a goal: pending, being written or known, unless another
\* proposer or the user's decision came between the looks (learning.py:110-119).
OneProposal ==
    \A g \in Goal \ raced : pending[g] + approved[g] + playbooks[g] <= 1
==============================================================================
