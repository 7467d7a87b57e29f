--------------------------- MODULE MCMemoryApprovals ---------------------------
(***************************************************************************)
(* What a user is remembered by and what he is asked to approve, in one    *)
(* run.  The two share no state: a behaviour is of the one or of the       *)
(* other, whose variables alone move.                                      *)
(*                                                                         *)
(* Two conversations that say the same fact, and then a credential.  A     *)
(* gated request, a harmless one with no owner, and a proposal with the    *)
(* title of the first.                                                     *)
(***************************************************************************)
EXTENDS Memory, Approvals, TLC

CONSTANTS f, secret, write, search, learned, ana, rui

VARIABLE part

MCAnswers == [c \in Conversation |-> IF c = "c" THEN 3 ELSE 2]
MCBefore == [c \in Conversation |-> 1]
MCSays == [c \in Conversation |-> [n \in 1..MaxAnswers[c] |-> IF n = 2 THEN {f, secret} ELSE {}]]
MCAlready == {<<>>, <<[fact |-> secret, kind |-> "temporary"]>>}

MCRequests == {write, search}
MCProposals == {learned}
MCDecisions == {1, 2}
MCUsers == {ana, rui}
MCOwner == write :> ana @@ search :> Nobody @@ learned :> ana
MCTitle == write :> 1 @@ search :> 2 @@ learned :> 1
MCGated == {write, learned}

\* The part that does not move rests in one of its initial states.
NothingKnown == mem = [i \in Id |-> NoRow]
NothingAsked == durable /\ granted

PartInit ==
    /\ part \in {"memories", "approvals"}
    /\ MemoryInit /\ ApprovalsInit
    /\ part # "memories" => NothingKnown
    /\ part # "approvals" => NothingAsked

Memories == part = "memories" /\ UNCHANGED <<approvalsVars, part>>
Confirms == part = "approvals" /\ UNCHANGED <<memoryVars, part>>

PartNext ==
    \/ \E p \in Call :
          \/ Memories /\ Search(p)
          \/ Memories /\ Consolidate(p)
          \/ Memories /\ ListWeak(p)
          \/ Memories /\ Consolidated(p)
          \/ \E fact \in Fact, kind \in {"temporary", "permanent"} : Memories /\ Remember(p, fact, kind)
          \/ \E i \in Id : Memories /\ ForgetMemory(p, i)
          \/ \E i \in Id : Memories /\ ArchiveOne(p, i)
    \/ \E p \in Process : Memories /\ Touch(p)
    \/ \E c \in Conversation :
          \/ Memories /\ Answer(c)
          \/ Memories /\ HandleAnswered(c)
          \/ Memories /\ Extract(c)
          \/ Memories /\ Learn(c)
          \/ Memories /\ Reflected(c)
          \/ Memories /\ ReflectionFails(c)
          \/ \E fact \in Fact : Memories /\ Look(c, fact)
          \/ \E fact \in Fact : Memories /\ LookFails(c, fact)
    \/ Memories /\ Age
    \/ Memories /\ Crash
    \/ \E p \in Procs :
          \/ Confirms /\ Scopes(p)
          \/ Confirms /\ Gate(p)
          \/ Confirms /\ HandlerReturns(p)
          \/ Confirms /\ HandlerRaises(p)
          \/ Confirms /\ PublishEvent(p)
          \/ Confirms /\ PublishFails(p)
    \/ \E c \in Calls :
          \/ Confirms /\ CallSkill(c)
          \/ Confirms /\ ProposePlaybook(c)
          \/ Confirms /\ SeePending(c)
          \/ Confirms /\ AddTicket(c)
    \/ \E d \in Decisions :
          \/ Confirms /\ ResolveTicket(d)
          \/ Confirms /\ ResolveTicketFails(d)
          \/ \E t \in Task : Confirms /\ AskToDecide(d, t)
    \/ Confirms /\ Restart

PartSpec == PartInit /\ [][PartNext]_<<memoryVars, approvalsVars, part>>
==============================================================================
