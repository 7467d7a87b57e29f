---------------------------- MODULE MCRedisAgents ----------------------------
(***************************************************************************)
(* The bus of a node over Redis, and the agents of another, in one run.    *)
(* They share no state: a behaviour is of the one or of the other, whose   *)
(* variables alone move.                                                   *)
(*                                                                         *)
(* The three agents of api/main.py, with a smaller budget, and two of a    *)
(* plugin: one that delegates anything, one with a capability that has no  *)
(* specification.                                                          *)
(***************************************************************************)
EXTENDS MCRedisBus, Orchestration

VARIABLE part

Runs(s) == [kind |-> "skill", name |-> s]
To(c) == [kind |-> "delegate", name |-> c]

MCManifestOf(caps, scopes, does, partial, to, steps, depth) ==
    [capabilities |-> caps, scopes |-> scopes, work |-> does, partial |-> partial,
     canDelegate |-> partial \/ depth < 3, to |-> to, maxSteps |-> steps, maxDepth |-> depth]

MCManifest ==
    [research |-> MCManifestOf(<<"gather">>, {"read:d", "read:m"}, <<To("documents"), To("memory")>>, TRUE,
                          {"documents", "memory"}, 2, 2),
     documents |-> MCManifestOf(<<"documents">>, {"read:d"}, <<Runs("find")>>, FALSE, {}, 4, 3),
     plugin |-> MCManifestOf(<<"documents", "memory">>, {"read:d", "read:m", "write:m"},
                        <<Runs("recall"), To("note"), To("gather")>>, FALSE, {}, 2, 1),
     odd |-> MCManifestOf(<<"memory", "weather">>, {"read:m"}, <<Runs("recall")>>, FALSE, {}, 4, 3)]

MCOffered == [c \in Capability |-> IF c = "note" THEN <<"remember">> ELSE <<>>]
MCAgents == {"research", "documents", "plugin", "odd"}
MCRegistered0 == <<"documents", "research">>
MCScopeOf == [s \in {"find", "recall", "remember"} |->
                CASE s = "find" -> "read:d" [] s = "recall" -> "read:m" [] OTHER -> "write:m"]
OneStep(s, deps) == [skill |-> s, dependsOn |-> deps]
MCPlansOf == [g \in {"known", "obscure"} |->
                IF g = "known" THEN <<OneStep("find", {}), OneStep("recall", {1})>> ELSE <<>>]
MCLLMPlans == {<<OneStep("recall", {})>>, <<OneStep("recall", {}), OneStep("find", {})>>}

PartInit == part \in {"bus", "agents"} /\ Init /\ AgentsInit

Serves == part = "bus" /\ UNCHANGED <<agentsVars, part>>
Works == part = "agents" /\ UNCHANGED <<vars, part>>

PartNext ==
    \/ Serves /\ Next
    \/ \E a \in Agent :
          \/ Works /\ Register(a)
          \/ Works /\ Upgrade(a)
          \/ Works /\ SetEnabled(a, TRUE)
          \/ Works /\ SetEnabled(a, FALSE)
    \/ \E z \in Exec :
          \/ Works /\ Handle(z)
          \/ Works /\ Work(z)
          \/ Works /\ Delegate(z)
          \/ Works /\ SkillReturns(z)
          \/ Works /\ Return(z)
          \/ Works /\ Cancel(z)
          \/ Works /\ PlanByLLM(z)
          \/ Works /\ RunStep(z)
          \/ Works /\ StepReturns(z)
          \/ Works /\ EndPlan(z)
          \/ Works /\ SearchPlaybooks(z)
          \/ Works /\ SeePending(z)
          \/ Works /\ Propose(z)
          \/ Works /\ ProposalFails(z)
          \/ \E c \in Capability : Works /\ Execute(z, c)
          \/ \E g \in Goal : Works /\ Achieve(z, g)
    \/ \E g \in Goal :
          \/ Works /\ Decide(g, TRUE)
          \/ Works /\ Decide(g, FALSE)
          \/ Works /\ WritePlaybook(g)
          \/ Works /\ ForgetPlaybook(g)
    \* The agents may have nothing left to do; the bus always has.
    \/ Works /\ UNCHANGED agentsVars

PartSpec == PartInit /\ [][PartNext]_<<vars, agentsVars, part>> /\ Fairness
==============================================================================
