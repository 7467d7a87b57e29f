------------------------------ MODULE ChatProofs ------------------------------
(***************************************************************************)
(* What is proved of a conversation: its types, that no text leaves the    *)
(* machine without its opt-in, that the stop button reaches a stream, that *)
(* an answer is kept once and told afterwards, and that a turn is asked    *)
(* its own question whenever the store can give it.                        *)
(***************************************************************************)
EXTENDS Chat, TLAPS

-----------------------------------------------------------------------------
(* Types.                                                                  *)

LEMMA DefaultType == Default \in Policy
  BY DEF Default, Policy, Privacies

LEMMA IdleType == Idle \in Held
  BY DefaultType DEF Idle, Held, Labels, Unasked, Told

LEMMA GoneType ==
    ASSUME NEW label \in {"over", "killed"}, NEW told \in Told
    PROVE  /\ Gone(label, told) \in Held
           /\ Gone(label, told).pc = label
           /\ Gone(label, told).via = None
           /\ Gone(label, told).told = told
  BY DefaultType DEF Idle, Gone, Held, Labels, Told

\* A policy that is asked for is one, and Valid is not part of its type.
LEMMA OverType ==
    ASSUME NEW old \in Policy, NEW ask \in Wanted
    PROVE  Over(old, ask) \in Policy
  <1>1. ask \in SetPolicy
    BY ChatAssumption
  <1>2. (CASE ask.provider = None -> old.provider
           [] ask.provider = "" -> None
           [] OTHER -> ask.provider) \in Names \cup {None}
    BY <1>1 DEF SetPolicy, Policy
  <1> QED
    BY <1>1, <1>2 DEF Over, SetPolicy, Policy

LEMMA PickType ==
    ASSUME NEW p \in Policy
    PROVE  /\ PickChatter(p) \in Names \cup {None}
           /\ PickChatter(p) = "cloud" => p.privacy = "allow_cloud"
  BY ChatAssumption DEF PickChatter, Names

LEMMA LastType ==
    ASSUME TypeOK
    PROVE  LastQuestion(History(messages)) \in Turn \cup {None}
  <1>1. Len(messages) \in Nat /\ Window \in Nat /\ messages \in Seq(Row)
    BY ChatAssumption DEF TypeOK, Row
  <1>2. \A m, n \in Nat : 1 <= m /\ n <= Len(messages) => SubSeq(messages, m, n) \in Seq(Row)
    BY <1>1
  <1>3. History(messages) \in Seq(Row)
    BY <1>1, <1>2, ChatAssumption DEF History, Oldest
  <1>4. \A s \in Seq(Row) : s # <<>> => s[Len(s)] \in Row
    OBVIOUS
  <1> QED
    BY <1>3, <1>4 DEF LastQuestion, Row

LEMMA InitTyped == Init => TypeOK
  <1> SUFFICES ASSUME Init PROVE TypeOK
    OBVIOUS
  <1>1. policy \in Policy
    BY OverType, DefaultType DEF Init
  <1>2. turn \in [Turn -> Held]
    BY IdleType DEF Init
  <1>3. patch \in [Patch -> [pc : {"idle", "writing", "over"}, wanted : Policy]]
    BY DefaultType DEF Init
  <1>4. titled \in BOOLEAN /\ store \in Stores
    BY DEF Init
  <1>5. messages \in Seq(Row)
    BY DEF Init
  <1>6. token \in [Turn -> {"none", "live", "cancelled"}]
    BY DEF Init
  <1>7. trace \in [Turn -> Seq(Outcomes)]
    BY DEF Init
  <1>8. met \in [Turn -> SUBSET Turn] /\ running \in [Users -> Turn \cup {None}]
    BY DEF Init
  <1> QED
    BY <1>1, <1>2, <1>3, <1>4, <1>5, <1>6, <1>7, <1>8 DEF TypeOK

\* A step of a turn leaves to the others what they hold.
LEMMA TypeFrame ==
    ASSUME TypeOK, turn' \in [Turn -> Held], running' \in [Users -> Turn \cup {None}],
           messages' \in Seq(Row), trace' \in [Turn -> Seq(Outcomes)], titled' \in BOOLEAN,
           UNCHANGED <<store, policy, token, patch, met>>
    PROVE  TypeOK'
  BY DEF TypeOK

LEMMA PcType ==
    ASSUME NEW h \in Held, NEW label \in Labels
    PROVE  [h EXCEPT !.pc = label] \in Held
  BY DEF Held

LEMMA UpdateType ==
    ASSUME TypeOK, NEW t \in Turn, NEW h \in Held, turn' = [turn EXCEPT ![t] = h]
    PROVE  turn' \in [Turn -> Held]
  BY DEF TypeOK

\* The steps of a turn that only move it.
LEMMA MoveType ==
    ASSUME TypeOK, NEW t \in Turn, NEW label \in Labels, Goto(t, label)
    PROVE  turn' \in [Turn -> Held]
  <1>1. turn[t] \in Held
    BY DEF TypeOK
  <1>2. turn' = [turn EXCEPT ![t] = [turn[t] EXCEPT !.pc = label]]
    BY DEF Goto
  <1> QED
    BY <1>1, <1>2, PcType, UpdateType

LEMMA EndType ==
    ASSUME TypeOK, NEW t \in Turn, NEW told \in Told, Ends(t, told)
    PROVE  /\ turn' \in [Turn -> Held]
           /\ running' \in [Users -> Turn \cup {None}]
  <1>1. Gone("over", told) \in Held
    BY GoneType
  <1>2. turn' \in [Turn -> Held]
    BY <1>1, UpdateType DEF Ends
  <1>3. running' \in [Users -> Turn \cup {None}]
    BY DEF Ends, TypeOK
  <1> QED
    BY <1>2, <1>3

LEMMA AddType ==
    ASSUME TypeOK, NEW t \in Turn, NEW role \in {"user", "assistant"}, AddMessage(t, role)
    PROVE  messages' \in Seq(Row)
  <1>1. turn[t].text \in Nat
    BY DEF TypeOK, Held
  <1>2. [turn |-> t, role |-> role, text |-> turn[t].text] \in Row
    BY <1>1 DEF Row
  <1>3. messages \in Seq(Row)
    BY DEF TypeOK
  <1> QED
    BY <1>2, <1>3 DEF AddMessage

LEMMA RecordType ==
    ASSUME TypeOK, NEW t \in Turn, NEW outcome \in Outcomes, Record(t, outcome)
    PROVE  trace' \in [Turn -> Seq(Outcomes)]
  <1>1. trace \in [Turn -> Seq(Outcomes)]
    BY DEF TypeOK
  <1>2. Append(trace[t], outcome) \in Seq(Outcomes)
    BY <1>1
  <1>3. trace' = [trace EXCEPT ![t] = Append(trace[t], outcome)]
    BY DEF Record
  <1> QED
    BY <1>1, <1>2, <1>3

\* What a turn does by itself.
LEMMA TurnType ==
    ASSUME TypeOK, NEW t \in Turn, Step(t) \/ Model(t)
    PROVE  TypeOK'
  <1>0. /\ turn[t] \in Held /\ turn \in [Turn -> Held] /\ running \in [Users -> Turn \cup {None}]
        /\ messages \in Seq(Row) /\ trace \in [Turn -> Seq(Outcomes)] /\ titled \in BOOLEAN
        /\ policy \in Policy
    BY DEF TypeOK
  <1>a. {"nothing", "done", "cancelled", "error"} \subseteq Told
    BY DEF Told
  <1>b. {"gathering", "reading", "calling", "generating", "storing", "naming", "publishing", "asking"}
           \subseteq Labels
    BY DEF Labels, Unasked, Asked, Answered
  <1>c. {"completed", "cancelled", "failed"} \subseteq Outcomes
    BY DEF Outcomes
  <1>1. CASE ReadConversation(t)
    <2>1. [turn[t] EXCEPT !.pc = "asking", !.policy = policy, !.untitled = ~titled] \in Held
      BY <1>0, <1>b DEF Held
    <2>2. \/ /\ turn' = [turn EXCEPT ![t] = [turn[t] EXCEPT !.pc = "asking", !.policy = policy, !.untitled = ~titled]]
             /\ UNCHANGED running
          \/ Ends(t, "error")
      BY <1>1 DEF ReadConversation
    <2>3. turn' \in [Turn -> Held] /\ running' \in [Users -> Turn \cup {None}]
      BY <1>0, <1>a, <2>1, <2>2, UpdateType, EndType
    <2> QED
      BY <1>0, <1>1, <2>3, TypeFrame DEF ReadConversation
  <1>2. CASE StoreQuestion(t)
    <2>1. turn' \in [Turn -> Held] /\ messages' \in Seq(Row)
      BY <1>2, <1>b, MoveType, AddType DEF StoreQuestion
    <2> QED
      BY <1>0, <1>2, <2>1, TypeFrame DEF StoreQuestion
  <1>3. CASE Gathered(t)
    <2>1. turn' \in [Turn -> Held] /\ running' \in [Users -> Turn \cup {None}]
      BY <1>0, <1>3, <1>a, <1>b, MoveType, EndType DEF Gathered
    <2> QED
      BY <1>0, <1>3, <2>1, TypeFrame DEF Gathered
  <1>4. CASE ReadHistory(t)
    <2> DEFINE q == LastQuestion(History(messages))
    <2>1. q \in Turn \cup {None}
      BY LastType
    <2>2. turn' = [turn EXCEPT ![t] = [turn[t] EXCEPT !.pc = "calling", !.asks = q]]
      BY <1>4 DEF ReadHistory
    <2> HIDE DEF q
    <2>3. [turn[t] EXCEPT !.pc = "calling", !.asks = q] \in Held
      BY <1>0, <1>b, <2>1 DEF Held
    <2>4. turn' \in [Turn -> Held]
      BY <2>2, <2>3, UpdateType
    <2> QED
      BY <1>0, <1>4, <2>4, TypeFrame DEF ReadHistory
  <1>5. CASE CallModel(t)
    <2> DEFINE n == PickChatter(turn[t].policy)
    <2>1. n \in Names \cup {None}
      BY <1>0, PickType DEF Held
    <2>2. \/ /\ turn' = [turn EXCEPT ![t] = [turn[t] EXCEPT !.pc = "generating", !.via = n, !.asks = None]]
             /\ UNCHANGED running
          \/ Ends(t, "error")
      BY <1>5 DEF CallModel
    <2> HIDE DEF n
    <2>3. [turn[t] EXCEPT !.pc = "generating", !.via = n, !.asks = None] \in Held
      BY <1>0, <1>b, <2>1 DEF Held
    <2>4. turn' \in [Turn -> Held] /\ running' \in [Users -> Turn \cup {None}]
      BY <1>0, <1>a, <2>2, <2>3, UpdateType, EndType
    <2> QED
      BY <1>0, <1>5, <2>4, TypeFrame DEF CallModel
  <1>6. CASE Interrupted(t)
    <2>1. turn' \in [Turn -> Held] /\ trace' \in [Turn -> Seq(Outcomes)]
      BY <1>6, <1>b, <1>c, MoveType, RecordType DEF Interrupted
    <2> QED
      BY <1>0, <1>6, <2>1, TypeFrame DEF Interrupted
  <1>7. CASE StoreAnswer(t)
    <2>1. turn' \in [Turn -> Held] /\ messages' \in Seq(Row)
      BY <1>7, <1>b, MoveType, AddType DEF StoreAnswer
    <2> QED
      BY <1>0, <1>7, <2>1, TypeFrame DEF StoreAnswer
  <1>8. CASE Name(t)
    <2>1. turn' \in [Turn -> Held]
      BY <1>8, <1>b, MoveType DEF Name
    <2> QED
      BY <1>0, <1>8, <2>1, TypeFrame DEF Name
  <1>9. CASE Publish(t) \/ PublishFails(t)
    <2>1. turn' \in [Turn -> Held] /\ running' \in [Users -> Turn \cup {None}]
      BY <1>9, <1>a, EndType DEF Publish, PublishFails
    <2> QED
      BY <1>0, <1>9, <2>1, TypeFrame DEF Publish, PublishFails
  <1>10. CASE Piece(t)
    <2>1. turn[t].text + 1 \in Nat
      BY <1>0 DEF Held
    <2>2. [turn[t] EXCEPT !.text = turn[t].text + 1] \in Held
      BY <1>0, <2>1 DEF Held
    <2>3. turn' = [turn EXCEPT ![t] = [turn[t] EXCEPT !.text = turn[t].text + 1]]
      BY <1>10 DEF Piece
    <2>4. turn' \in [Turn -> Held]
      BY <2>2, <2>3, UpdateType
    <2> QED
      BY <1>0, <1>10, <2>4, TypeFrame DEF Piece
  <1>11. CASE ModelEnds(t)
    <2>1. turn' \in [Turn -> Held] /\ trace' \in [Turn -> Seq(Outcomes)]
      BY <1>11, <1>b, <1>c, MoveType, RecordType DEF ModelEnds
    <2> QED
      BY <1>0, <1>11, <2>1, TypeFrame DEF ModelEnds
  <1>12. CASE ModelFails(t)
    <2>1. /\ turn' \in [Turn -> Held] /\ running' \in [Users -> Turn \cup {None}]
          /\ trace' \in [Turn -> Seq(Outcomes)]
      BY <1>12, <1>a, <1>c, EndType, RecordType DEF ModelFails
    <2> QED
      BY <1>0, <1>12, <2>1, TypeFrame DEF ModelFails
  <1> QED
    BY <1>1, <1>2, <1>3, <1>4, <1>5, <1>6, <1>7, <1>8, <1>9, <1>10, <1>11, <1>12 DEF Step, Model

LEMMA TypeStep == TypeOK /\ [Next]_vars => TypeOK'
  <1> SUFFICES ASSUME TypeOK, [Next]_vars PROVE TypeOK'
    OBVIOUS
  <1>0. turn \in [Turn -> Held] /\ running \in [Users -> Turn \cup {None}]
    BY DEF TypeOK
  <1>1. ASSUME NEW p \in Patch, ReadPolicy(p) PROVE TypeOK'
    <2>1. PICK ask \in Wanted :
            patch' = [patch EXCEPT ![p] = [pc |-> IF Valid(Over(policy, ask)) THEN "writing" ELSE "over",
                                           wanted |-> Over(policy, ask)]]
      BY <1>1 DEF ReadPolicy
    <2>2. Over(policy, ask) \in Policy
      BY OverType DEF TypeOK
    <2>3. patch' \in [Patch -> [pc : {"idle", "writing", "over"}, wanted : Policy]]
      BY <2>1, <2>2 DEF TypeOK
    <2> QED
      BY <1>1, <2>3 DEF ReadPolicy, TypeOK, turnVars
  <1>2. ASSUME NEW p \in Patch, WritePolicy(p) PROVE TypeOK'
    <2>1. policy' \in Policy /\ patch' \in [Patch -> [pc : {"idle", "writing", "over"}, wanted : Policy]]
      BY <1>2 DEF WritePolicy, TypeOK
    <2> QED
      BY <1>2, <2>1 DEF WritePolicy, TypeOK, turnVars
  <1>3. ASSUME NEW t \in Turn, NEW u \in Users, NEW streamed \in BOOLEAN, Arrive(t, u, streamed)
        PROVE  TypeOK'
    <2>0. "opened" \in Labels
      BY DEF Labels, Unasked
    <2>1. [turn[t] EXCEPT !.pc = "opened", !.user = u] \in Held
      BY <1>0, <2>0 DEF Held
    <2>a. turn' = [turn EXCEPT ![t] = [turn[t] EXCEPT !.pc = "opened", !.user = u]]
      BY <1>3 DEF Arrive
    <2>2. turn' \in [Turn -> Held]
      BY <2>1, <2>a, UpdateType
    <2>3. met' \in [Turn -> SUBSET Turn]
      <3> DEFINE others == {o \in Turn : Active(o) /\ User(o) = u}
      <3>1. met' = [o \in Turn |-> IF o = t THEN others ELSE met[o] \cup {n \in {t} : o \in others}]
        BY <1>3, Zenon DEF Arrive
      <3>2. others \subseteq Turn
        OBVIOUS
      <3> HIDE DEF others
      <3>3. met \in [Turn -> SUBSET Turn]
        BY DEF TypeOK
      <3>4. \A o \in Turn : {n \in {t} : o \in others} \subseteq Turn
        OBVIOUS
      <3> QED
        BY <3>1, <3>2, <3>3, <3>4
    <2>4. /\ token \in [Turn -> {"none", "live", "cancelled"}]
          /\ \/ token' = [token EXCEPT ![t] = "live"] /\ running' = [running EXCEPT ![u] = t]
             \/ UNCHANGED <<token, running>>
      BY <1>3 DEF Arrive, TypeOK
    <2>5. token' \in [Turn -> {"none", "live", "cancelled"}] /\ running' \in [Users -> Turn \cup {None}]
      BY <1>0, <2>4
    <2> QED
      BY <1>3, <2>2, <2>3, <2>5 DEF Arrive, TypeOK
  <1>4. ASSUME NEW t \in Turn, CancelToken(t) PROVE token' \in [Turn -> {"none", "live", "cancelled"}]
    BY <1>4 DEF CancelToken, TypeOK
  <1>5. ASSUME NEW t \in Turn, WatcherSees(t) PROVE TypeOK'
    BY <1>4, <1>5 DEF WatcherSees, TypeOK
  <1>6. ASSUME NEW t \in Turn, Killed(t) PROVE TypeOK'
    <2>1. Gone("killed", "nothing") \in Held /\ "killed" \in Labels
      BY GoneType DEF Told, Labels
    <2>2. turn' \in [Turn -> Held]
      BY <1>6, <2>1, MoveType, UpdateType DEF Killed
    <2>3. running' \in [Users -> Turn \cup {None}]
      BY <1>0, <1>6 DEF Killed
    <2> QED
      BY <1>6, <2>2, <2>3 DEF Killed, TypeOK
  <1>7. ASSUME NEW u \in Users, CancelGeneration(u) PROVE TypeOK'
    <2>1. running[u] \in Turn
      BY <1>0, <1>7 DEF CancelGeneration
    <2>2. token' \in [Turn -> {"none", "live", "cancelled"}]
      BY <1>4, <1>7, <2>1 DEF CancelGeneration
    <2> QED
      BY <1>7, <2>2 DEF CancelGeneration, TypeOK
  <1>8. CASE UNCHANGED vars
    BY <1>8 DEF vars, turnVars, TypeOK
  <1> QED
    BY <1>1, <1>2, <1>3, <1>5, <1>6, <1>7, <1>8, TurnType DEF Next

THEOREM TypeCorrect == Spec => []TypeOK
  BY InitTyped, TypeStep, PTL DEF Spec
-----------------------------------------------------------------------------
(* Four kinds of steps, as far as turns and streams go.                    *)

Alone(t) == \A o \in Turn \ {t} : turn'[o] = turn[o]

\* A turn goes on, or leaves; or a token is signalled and no turn moves.
GoesOn(t) ==
    /\ Active(t) /\ turn'[t].pc \notin {"idle", "over", "killed"}
    /\ turn'[t].user = turn[t].user
    /\ Alone(t)
    /\ UNCHANGED <<token, running, met>>

Leaves(t) ==
    /\ Active(t) /\ turn'[t].pc \in {"over", "killed"}
    /\ \/ UNCHANGED running
       \/ Streamed(t) /\ running' = [running EXCEPT ![User(t)] = None]
    /\ Alone(t)
    /\ UNCHANGED <<token, met>>

Signals ==
    /\ \A o \in Turn : token'[o] = "none" <=> token[o] = "none"
    /\ UNCHANGED <<turn, running, met>>

LEMMA EndsLeaves ==
    ASSUME TypeOK, NEW t \in Turn, NEW told, Active(t), Ends(t, told), UNCHANGED <<token, met>>
    PROVE  Leaves(t)
  <1>1. turn' = [turn EXCEPT ![t] = Gone("over", told)] /\ Gone("over", told).pc = "over"
    BY DEF Ends, Gone, Idle
  <1>2. turn'[t].pc = "over" /\ Alone(t)
    BY <1>1 DEF TypeOK, Alone
  <1> QED
    BY <1>2 DEF Ends, Leaves

LEMMA GotoGoesOn ==
    ASSUME TypeOK, NEW t \in Turn, NEW label, label \notin {"idle", "over", "killed"},
           Active(t), Goto(t, label), UNCHANGED <<token, running, met>>
    PROVE  GoesOn(t)
  <1>1. turn \in [Turn -> Held] /\ turn[t] \in Held
    BY DEF TypeOK
  <1>2. turn' = [turn EXCEPT ![t] = [turn[t] EXCEPT !.pc = label]]
    BY DEF Goto
  <1>3. turn'[t].pc = label /\ turn'[t].user = turn[t].user /\ Alone(t)
    BY <1>1, <1>2 DEF Alone, Held
  <1> QED
    BY <1>3 DEF GoesOn

LEMMA TurnKinds ==
    ASSUME TypeOK, NEW t \in Turn, Step(t) \/ Model(t)
    PROVE  GoesOn(t) \/ Leaves(t)
  <1>0. turn \in [Turn -> Held] /\ turn[t] \in Held
    BY DEF TypeOK
  <1>1. ASSUME turn[t].pc \in {"opened", "asking", "gathering", "reading", "calling", "generating",
                               "storing", "naming", "publishing"}
        PROVE  Active(t)
    BY <1>1 DEF Active
  <1>2. CASE ReadConversation(t)
    <2>1. Active(t) /\ UNCHANGED <<token, met>>
      BY <1>1, <1>2 DEF ReadConversation
    <2>2. CASE Ends(t, "error")
      BY <2>1, <2>2, EndsLeaves
    <2>3. CASE ~Ends(t, "error")
      <3>1. /\ turn' = [turn EXCEPT ![t] = [turn[t] EXCEPT !.pc = "asking", !.policy = policy,
                                                          !.untitled = ~titled]]
            /\ UNCHANGED running
        BY <1>2, <2>3 DEF ReadConversation
      <3>2. turn'[t].pc = "asking" /\ turn'[t].user = turn[t].user /\ Alone(t)
        BY <1>0, <3>1 DEF Alone, Held
      <3> QED
        BY <2>1, <3>1, <3>2 DEF GoesOn
    <2> QED
      BY <2>2, <2>3
  <1>3. CASE StoreQuestion(t)
    BY <1>1, <1>3, GotoGoesOn DEF StoreQuestion
  <1>4. CASE Gathered(t)
    BY <1>1, <1>4, GotoGoesOn, EndsLeaves DEF Gathered
  <1>5. CASE ReadHistory(t)
    <2> DEFINE q == LastQuestion(History(messages))
    <2>1. turn' = [turn EXCEPT ![t] = [turn[t] EXCEPT !.pc = "calling", !.asks = q]]
      BY <1>5 DEF ReadHistory
    <2> HIDE DEF q
    <2>2. turn'[t].pc = "calling" /\ turn'[t].user = turn[t].user /\ Alone(t)
      BY <1>0, <2>1 DEF Alone, Held
    <2> QED
      BY <1>1, <1>5, <2>2 DEF GoesOn, ReadHistory
  <1>6. CASE CallModel(t)
    <2> DEFINE n == PickChatter(turn[t].policy)
    <2>1. Active(t) /\ UNCHANGED <<token, met>>
      BY <1>1, <1>6 DEF CallModel
    <2>2. CASE Ends(t, "error")
      BY <2>1, <2>2, EndsLeaves
    <2>3. CASE ~Ends(t, "error")
      <3>1. /\ turn' = [turn EXCEPT ![t] = [turn[t] EXCEPT !.pc = "generating", !.via = n, !.asks = None]]
            /\ UNCHANGED running
        BY <1>6, <2>3 DEF CallModel
      <3> HIDE DEF n
      <3>2. turn'[t].pc = "generating" /\ turn'[t].user = turn[t].user /\ Alone(t)
        BY <1>0, <3>1 DEF Alone, Held
      <3> QED
        BY <2>1, <3>1, <3>2 DEF GoesOn
    <2> QED
      BY <2>2, <2>3
  <1>7. CASE Interrupted(t)
    BY <1>1, <1>7, GotoGoesOn DEF Interrupted, GuardRaises
  <1>8. CASE StoreAnswer(t)
    BY <1>1, <1>8, GotoGoesOn DEF StoreAnswer
  <1>9. CASE Name(t)
    BY <1>1, <1>9, GotoGoesOn DEF Name
  <1>10. CASE Publish(t)
    BY <1>1, <1>10, EndsLeaves DEF Publish
  <1>11. CASE PublishFails(t)
    BY <1>1, <1>11, EndsLeaves DEF PublishFails
  <1>12. CASE Piece(t)
    <2>1. turn' = [turn EXCEPT ![t] = [turn[t] EXCEPT !.text = turn[t].text + 1]]
      BY <1>12 DEF Piece
    <2>2. turn'[t].pc = turn[t].pc /\ turn'[t].user = turn[t].user /\ Alone(t)
      BY <1>0, <2>1 DEF Alone, Held
    <2> QED
      BY <1>1, <1>12, <2>2 DEF GoesOn, Piece
  <1>13. CASE ModelEnds(t)
    BY <1>1, <1>13, GotoGoesOn DEF ModelEnds
  <1>14. CASE ModelFails(t)
    BY <1>1, <1>14, EndsLeaves DEF ModelFails
  <1> QED
    BY <1>2, <1>3, <1>4, <1>5, <1>6, <1>7, <1>8, <1>9, <1>10, <1>11, <1>12, <1>13, <1>14 DEF Step, Model

LEMMA KilledLeaves == ASSUME TypeOK, NEW t \in Turn, Killed(t) PROVE Leaves(t)
  <1>0. turn \in [Turn -> Held] /\ turn[t] \in Held
    BY DEF TypeOK
  <1>1. \/ turn' = [turn EXCEPT ![t] = [turn[t] EXCEPT !.pc = "killed"]] /\ UNCHANGED running
        \/ /\ turn' = [turn EXCEPT ![t] = Gone("killed", "nothing")]
           /\ running' = [running EXCEPT ![User(t)] = None]
    BY DEF Killed, Goto
  <1>2. Gone("killed", "nothing").pc = "killed"
    BY DEF Gone, Idle
  <1>3. turn'[t].pc = "killed" /\ Alone(t)
    BY <1>0, <1>1, <1>2 DEF Alone, Held
  <1>4. running' = running \/ running' = [running EXCEPT ![User(t)] = None]
    BY <1>1
  <1> QED
    BY <1>3, <1>4 DEF Killed, Leaves

LEMMA Kinds ==
    ASSUME TypeOK, [Next]_vars
    PROVE  \/ Signals
           \/ \E t \in Turn : GoesOn(t) \/ Leaves(t)
           \/ \E t \in Turn, u \in Users, streamed \in BOOLEAN : Arrive(t, u, streamed)
  <1>1. ASSUME NEW p \in Patch, ReadPolicy(p) \/ WritePolicy(p) PROVE Signals
    BY <1>1 DEF ReadPolicy, WritePolicy, turnVars, Signals
  <1>2. ASSUME NEW t \in Turn, CancelToken(t), UNCHANGED <<turn, running, met>> PROVE Signals
    <2>1. token \in [Turn -> {"none", "live", "cancelled"}]
      BY DEF TypeOK
    <2> QED
      BY <1>2, <2>1 DEF CancelToken, Signals
  <1>3. ASSUME NEW t \in Turn, WatcherSees(t) PROVE Signals
    BY <1>2, <1>3 DEF WatcherSees
  <1>4. ASSUME NEW u \in Users, CancelGeneration(u) PROVE Signals
    <2>1. running[u] \in Turn
      BY <1>4 DEF CancelGeneration, TypeOK
    <2> QED
      BY <1>2, <1>4, <2>1 DEF CancelGeneration
  <1>5. CASE UNCHANGED vars
    BY <1>5 DEF vars, turnVars, Signals
  <1> QED
    BY <1>1, <1>3, <1>4, <1>5, TurnKinds, KilledLeaves DEF Next
-----------------------------------------------------------------------------
(* The stop button.  StopReaches is not inductive: it has to be known that *)
(* a turn remembers every other one of its user under way, whose end drops *)
(* the registered token whoever's it is.                                   *)

Remembered(t, o) == Active(t) /\ Active(o) /\ User(t) = User(o) => o \in met[t]
Reached(t) ==
    Active(t) /\ Streamed(t) /\ (\A o \in met[t] : ~Streamed(o)) => running[User(t)] = t

StopInv ==
    /\ \A t \in Turn : turn[t].pc = "idle" => ~Streamed(t)
    /\ \A t \in Turn : Active(t) => User(t) \in Users
    /\ \A t, o \in Turn : t # o => Remembered(t, o)
    /\ \A t \in Turn : Reached(t)

LEMMA InitStop == Init => StopInv
  <1> SUFFICES ASSUME Init PROVE StopInv
    OBVIOUS
  <1>1. \A t \in Turn : turn[t].pc = "idle" /\ token[t] = "none"
    BY DEF Init, Idle
  <1> QED
    BY <1>1 DEF StopInv, Remembered, Reached, Active, Streamed

LEMMA StopStep == TypeOK /\ StopInv /\ [Next]_vars => StopInv'
  <1> SUFFICES ASSUME TypeOK, StopInv, [Next]_vars PROVE StopInv'
    OBVIOUS
  <1>0. /\ turn \in [Turn -> Held] /\ running \in [Users -> Turn \cup {None}]
        /\ token \in [Turn -> {"none", "live", "cancelled"}] /\ met \in [Turn -> SUBSET Turn]
    BY DEF TypeOK
  <1>1. CASE Signals
    BY <1>0, <1>1 DEF Signals, StopInv, Remembered, Reached, Active, Streamed, User
  <1>2. ASSUME NEW t \in Turn, GoesOn(t) PROVE StopInv'
    <2>1. \A o \in Turn : /\ Active(o)' <=> Active(o)
                          /\ User(o)' = User(o)
                          /\ turn'[o].pc = "idle" <=> turn[o].pc = "idle"
      BY <1>2 DEF GoesOn, Alone, Active, User
    <2> QED
      BY <1>2, <2>1 DEF GoesOn, StopInv, Remembered, Reached, Streamed
  <1>3. ASSUME NEW t \in Turn, Leaves(t) PROVE StopInv'
    <2>1. ~Active(t)' /\ turn'[t].pc # "idle"
      BY <1>3 DEF Leaves, Active
    <2>2. \A o \in Turn \ {t} : turn'[o] = turn[o]
      BY <1>3 DEF Leaves, Alone
    <2>3. \A o \in Turn \ {t} : (Active(o)' <=> Active(o)) /\ User(o)' = User(o)
      BY <2>2 DEF Active, User
    <2>4. token' = token /\ met' = met /\ Active(t)
      BY <1>3 DEF Leaves
    <2>5. ASSUME NEW o \in Turn, Active(o)', Streamed(o)', \A n \in met'[o] : ~Streamed(n)'
          PROVE  running'[User(o)'] = o
      <3>1. o # t /\ Active(o) /\ User(o)' = User(o)
        BY <2>1, <2>3, <2>5
      <3>2. running[User(o)] = o
        BY <2>4, <2>5, <3>1 DEF StopInv, Reached, Streamed
      <3>3. User(o) = User(t) => t \in met[o]
        BY <2>4, <3>1 DEF StopInv, Remembered
      <3>4. CASE UNCHANGED running
        BY <3>1, <3>2, <3>4
      <3>5. CASE Streamed(t) /\ running' = [running EXCEPT ![User(t)] = None]
        <4>1. User(o) # User(t)
          BY <2>4, <2>5, <3>3, <3>5 DEF Streamed
        <4>2. DOMAIN running = Users
          BY <1>0
        <4>3. User(o) \in DOMAIN running => running'[User(o)] = running[User(o)]
          BY <3>5, <4>1
        <4>4. User(o) \in Users
          BY <3>1 DEF StopInv
        <4> QED
          BY <3>1, <3>2, <4>2, <4>3, <4>4
      <3> QED
        BY <1>3, <3>4, <3>5 DEF Leaves
    <2>6. \A o \in Turn : Reached(o)'
      BY <2>5 DEF Reached
    <2>7. \A o, n \in Turn : o # n => Remembered(o, n)'
      BY <2>1, <2>3, <2>4 DEF StopInv, Remembered
    <2>8. \A o \in Turn : turn'[o].pc = "idle" => ~Streamed(o)'
      BY <2>1, <2>2, <2>4 DEF StopInv, Streamed
    <2>9. \A o \in Turn : Active(o)' => User(o)' \in Users
      BY <2>1, <2>3 DEF StopInv
    <2> QED
      BY <2>6, <2>7, <2>8, <2>9 DEF StopInv
  <1>4. ASSUME NEW t \in Turn, NEW u \in Users, NEW streamed \in BOOLEAN, Arrive(t, u, streamed)
        PROVE  StopInv'
    <2> DEFINE others == {o \in Turn : Active(o) /\ User(o) = u}
    <2>1. /\ turn' = [turn EXCEPT ![t] = [turn[t] EXCEPT !.pc = "opened", !.user = u]]
          /\ turn[t].pc = "idle"
      BY <1>4 DEF Arrive
    <2>2. turn'[t].pc = "opened" /\ turn'[t].user = u /\ \A o \in Turn \ {t} : turn'[o] = turn[o]
      BY <1>0, <2>1 DEF Held
    <2>3. Active(t)' /\ User(t)' = u /\ ~Active(t) /\ ~Streamed(t)
      BY <2>1, <2>2 DEF Active, User, StopInv
    <2>4. \A o \in Turn \ {t} : (Active(o)' <=> Active(o)) /\ User(o)' = User(o)
      BY <2>2 DEF Active, User
    <2>5. \/ token' = [token EXCEPT ![t] = "live"] /\ running' = [running EXCEPT ![u] = t]
          \/ UNCHANGED <<token, running>>
      BY <1>4 DEF Arrive
    <2>6. \A o \in Turn \ {t} : token'[o] = token[o]
      BY <1>0, <2>5
    <2>7. met' = [o \in Turn |-> IF o = t THEN others ELSE met[o] \cup {n \in {t} : o \in others}]
      BY <1>4, Zenon DEF Arrive
    <2>8. \A o \in Turn : o \in others <=> Active(o) /\ User(o) = u
      OBVIOUS
    <2> HIDE DEF others
    <2>9. /\ met'[t] = others
          /\ \A o \in Turn \ {t} : met[o] \subseteq met'[o] /\ (o \in others => t \in met'[o])
      BY <2>7
    <2>10. ASSUME NEW o \in Turn, NEW n \in Turn, o # n PROVE Remembered(o, n)'
      BY <2>3, <2>4, <2>8, <2>9, <2>10 DEF StopInv, Remembered
    <2>11. ASSUME NEW o \in Turn, Active(o)', Streamed(o)', \A n \in met'[o] : ~Streamed(n)'
           PROVE  running'[User(o)'] = o
      <3>1. CASE o = t
        <4>1. running' = [running EXCEPT ![u] = t]
          BY <2>3, <2>5, <2>11, <3>1 DEF Streamed
        <4> QED
          BY <1>0, <2>3, <3>1, <4>1
      <3>2. CASE o # t
        <4>1. Active(o) /\ User(o)' = User(o) /\ Streamed(o)
          BY <2>4, <2>6, <2>11, <3>2 DEF Streamed
        <4>2. \A n \in met[o] : n \in Turn /\ ~Streamed(n)'
          BY <1>0, <2>9, <2>11, <3>2
        <4>3. \A n \in met[o] : ~Streamed(n)
          BY <2>3, <2>6, <4>2 DEF Streamed
        <4>4. running[User(o)] = o
          BY <4>1, <4>3 DEF StopInv, Reached
        <4>5. CASE User(o) = u
          <5>1. t \in met'[o]
            BY <2>8, <2>9, <3>2, <4>1, <4>5
          <5>2. token'[t] = "none"
            BY <2>11, <5>1 DEF Streamed
          <5>3. UNCHANGED running
            BY <1>0, <2>5, <5>2
          <5> QED
            BY <4>1, <4>4, <5>3
        <4>6. CASE User(o) # u
          <5>1. User(o) \in Users
            BY <4>1 DEF StopInv
          <5>2. running'[User(o)] = running[User(o)]
            BY <1>0, <2>5, <4>6, <5>1
          <5> QED
            BY <4>1, <4>4, <5>2
        <4> QED
          BY <4>5, <4>6
      <3> QED
        BY <3>1, <3>2
    <2>12. \A o \in Turn : Reached(o)'
      BY <2>11 DEF Reached
    <2>13. \A o \in Turn : turn'[o].pc = "idle" => ~Streamed(o)'
      BY <2>2, <2>6 DEF StopInv, Streamed
    <2>14. \A o \in Turn : Active(o)' => User(o)' \in Users
      BY <2>3, <2>4 DEF StopInv
    <2> QED
      BY <2>10, <2>12, <2>13, <2>14 DEF StopInv
  <1> QED
    BY <1>1, <1>2, <1>3, <1>4, Kinds

\* StopReaches: a stop button finds the stream of its user unless that user
\* opened another one while it was under way (api/chat.py, _em_andamento).
THEOREM StopButtonReaches == Spec => []StopReaches
  <1>1. StopInv => StopReaches
    BY DEF StopInv, Reached, StopReaches
  <1> QED
    BY InitTyped, TypeStep, InitStop, StopStep, <1>1, PTL DEF Spec
-----------------------------------------------------------------------------
(* Consent.  A turn has chosen its model only while it calls it or keeps   *)
(* its answer, and the policy it chose by is the one it still holds.       *)

Calling == {"generating", "storing", "naming", "publishing"}

Faithful(t) ==
    /\ turn[t].via # None => turn[t].pc \in Calling
    /\ turn[t].via = "cloud" => turn[t].policy.privacy = "allow_cloud"

ConsentInv ==
    /\ Valid(policy)
    /\ \A p \in Patch : patch[p].pc = "writing" => Valid(patch[p].wanted)
    /\ \A t \in Turn : Faithful(t)

LEMMA NoneIsNoCloud == None # "cloud"
  BY ChatAssumption DEF Names

LEMMA InitConsent == Init => ConsentInv
  <1> SUFFICES ASSUME Init PROVE ConsentInv
    OBVIOUS
  <1>1. Valid(policy)
    BY DEF Init
  <1>2. \A p \in Patch : patch[p].pc = "idle"
    BY DEF Init
  <1>3. \A t \in Turn : turn[t].via = None
    BY DEF Init, Idle
  <1> QED
    BY <1>1, <1>2, <1>3, NoneIsNoCloud DEF ConsentInv, Faithful

\* A turn that is gone calls nobody; one that moves keeps its choice.
LEMMA GoneFaithful ==
    ASSUME TypeOK, NEW t \in Turn, NEW label, NEW told, turn' = [turn EXCEPT ![t] = Gone(label, told)]
    PROVE  Faithful(t)'
  <1>1. turn'[t] = Gone(label, told)
    BY DEF TypeOK
  <1>2. turn'[t].via = None
    BY <1>1 DEF Gone, Idle
  <1> QED
    BY <1>2, NoneIsNoCloud DEF Faithful

LEMMA GotoFaithful ==
    ASSUME TypeOK, NEW t \in Turn, NEW label, Faithful(t), Goto(t, label),
           turn[t].pc \in Calling => label \in Calling
    PROVE  Faithful(t)'
  <1>0. turn \in [Turn -> Held] /\ turn[t] \in Held
    BY DEF TypeOK
  <1>1. turn' = [turn EXCEPT ![t] = [turn[t] EXCEPT !.pc = label]]
    BY DEF Goto
  <1>2. /\ turn'[t].pc = label /\ turn'[t].via = turn[t].via
        /\ turn'[t].policy = turn[t].policy
    BY <1>0, <1>1 DEF Held
  <1> QED
    BY <1>2 DEF Faithful

LEMMA EndsFaithful ==
    ASSUME TypeOK, NEW t \in Turn, NEW told, Ends(t, told) PROVE Faithful(t)'
  BY GoneFaithful DEF Ends

LEMMA TurnConsent ==
    ASSUME TypeOK, NEW t \in Turn, Faithful(t), Step(t) \/ Model(t)
    PROVE  Faithful(t)'
  <1>0. turn \in [Turn -> Held] /\ turn[t] \in Held
    BY DEF TypeOK
  <1>1. CASE ReadConversation(t)
    <2>1. CASE Ends(t, "error")
      BY <2>1, EndsFaithful
    <2>2. CASE ~Ends(t, "error")
      <3>1. turn' = [turn EXCEPT ![t] = [turn[t] EXCEPT !.pc = "asking", !.policy = policy,
                                                      !.untitled = ~titled]]
        BY <1>1, <2>2 DEF ReadConversation
      <3>2. turn'[t].via = turn[t].via
        BY <1>0, <3>1 DEF Held
      <3>3. turn[t].via = None
        BY <1>1 DEF Faithful, Calling, ReadConversation
      <3> QED
        BY <3>2, <3>3, NoneIsNoCloud DEF Faithful
    <2> QED
      BY <2>1, <2>2
  <1>2. CASE ReadHistory(t)
    <2> DEFINE q == LastQuestion(History(messages))
    <2>1. turn' = [turn EXCEPT ![t] = [turn[t] EXCEPT !.pc = "calling", !.asks = q]]
      BY <1>2 DEF ReadHistory
    <2> HIDE DEF q
    <2>2. turn'[t].via = turn[t].via
      BY <1>0, <2>1 DEF Held
    <2>3. turn[t].via = None
      BY <1>2 DEF Faithful, Calling, ReadHistory
    <2> QED
      BY <2>2, <2>3, NoneIsNoCloud DEF Faithful
  <1>3. CASE CallModel(t)
    <2> DEFINE n == PickChatter(turn[t].policy)
    <2>1. CASE Ends(t, "error")
      BY <2>1, EndsFaithful
    <2>2. CASE ~Ends(t, "error")
      <3>1. turn' = [turn EXCEPT ![t] = [turn[t] EXCEPT !.pc = "generating", !.via = n, !.asks = None]]
        BY <1>3, <2>2 DEF CallModel
      <3>2. n = "cloud" => turn[t].policy.privacy = "allow_cloud"
        BY <1>0, PickType DEF Held
      <3> HIDE DEF n
      <3>3. turn'[t].pc = "generating" /\ turn'[t].via = n /\ turn'[t].policy = turn[t].policy
        BY <1>0, <3>1 DEF Held
      <3> QED
        BY <3>2, <3>3 DEF Faithful, Calling
    <2> QED
      BY <2>1, <2>2
  <1>4. CASE Piece(t)
    <2>1. turn' = [turn EXCEPT ![t] = [turn[t] EXCEPT !.text = turn[t].text + 1]]
      BY <1>4 DEF Piece
    <2>2. turn'[t].pc = turn[t].pc /\ turn'[t].via = turn[t].via /\ turn'[t].policy = turn[t].policy
      BY <1>0, <2>1 DEF Held
    <2> QED
      BY <2>2 DEF Faithful
  <1>5. CASE StoreQuestion(t) \/ Gathered(t)
    BY <1>5, GotoFaithful, EndsFaithful DEF StoreQuestion, Gathered, Calling
  <1>6. CASE Interrupted(t) \/ ModelEnds(t) \/ StoreAnswer(t) \/ Name(t)
    BY <1>6, GotoFaithful DEF Interrupted, ModelEnds, StoreAnswer, Name, Calling
  <1>7. CASE Publish(t) \/ PublishFails(t) \/ ModelFails(t)
    BY <1>7, EndsFaithful DEF Publish, PublishFails, ModelFails
  <1> QED
    BY <1>1, <1>2, <1>3, <1>4, <1>5, <1>6, <1>7 DEF Step, Model

LEMMA ConsentStep == TypeOK /\ ConsentInv /\ [Next]_vars => ConsentInv'
  <1> SUFFICES ASSUME TypeOK, ConsentInv, [Next]_vars PROVE ConsentInv'
    OBVIOUS
  <1>0. turn \in [Turn -> Held]
    BY DEF TypeOK
  <1>2. ASSUME NEW t \in Turn, Alone(t), Faithful(t)', UNCHANGED <<policy, patch>>
        PROVE  ConsentInv'
    <2>1. \A o \in Turn : Faithful(o)'
      BY <1>2 DEF ConsentInv, Faithful, Alone
    <2> QED
      BY <1>2, <2>1 DEF ConsentInv
  <1>3. ASSUME NEW t \in Turn, Step(t) \/ Model(t) PROVE ConsentInv'
    <2>1. Alone(t)
      BY <1>3, TurnKinds DEF GoesOn, Leaves
    <2>2. UNCHANGED <<policy, patch>>
      BY <1>3 DEF Step, Model, ReadConversation, StoreQuestion, Gathered, ReadHistory, CallModel,
                  Interrupted, StoreAnswer, Name, Publish, PublishFails, Piece, ModelEnds, ModelFails
    <2>3. Faithful(t)'
      BY <1>3, TurnConsent DEF ConsentInv
    <2> QED
      BY <1>2, <2>1, <2>2, <2>3
  <1>4. ASSUME NEW t \in Turn, Killed(t) PROVE ConsentInv'
    <2>1. Alone(t) /\ UNCHANGED <<policy, patch>>
      BY <1>4, KilledLeaves DEF Leaves, Killed
    <2>2. CASE turn[t].pc = "opened"
      <3>1. turn[t].via = None /\ Goto(t, "killed")
        BY <1>4, <2>2 DEF ConsentInv, Faithful, Calling, Killed
      <3>2. Faithful(t)'
        BY <2>2, <3>1, GotoFaithful DEF ConsentInv, Calling
      <3> QED
        BY <1>2, <2>1, <3>2
    <2>3. CASE turn[t].pc # "opened"
      <3>1. turn' = [turn EXCEPT ![t] = Gone("killed", "nothing")]
        BY <1>4, <2>3 DEF Killed
      <3>2. Faithful(t)'
        BY <3>1, GoneFaithful
      <3> QED
        BY <1>2, <2>1, <3>2
    <2> QED
      BY <2>2, <2>3
  <1>5. ASSUME NEW t \in Turn, NEW u \in Users, NEW streamed \in BOOLEAN, Arrive(t, u, streamed)
        PROVE  ConsentInv'
    <2>1. /\ turn' = [turn EXCEPT ![t] = [turn[t] EXCEPT !.pc = "opened", !.user = u]]
          /\ turn[t].pc = "idle" /\ UNCHANGED <<policy, patch>>
      BY <1>5 DEF Arrive
    <2>2. turn[t].via = None
      BY <2>1 DEF ConsentInv, Faithful, Calling
    <2>3. turn'[t].via = turn[t].via /\ Alone(t)
      BY <1>0, <2>1 DEF Held, Alone
    <2>4. Faithful(t)'
      BY <2>2, <2>3, NoneIsNoCloud DEF Faithful
    <2> QED
      BY <1>2, <2>1, <2>3, <2>4
  <1>6. ASSUME UNCHANGED <<turn, policy, patch>> PROVE ConsentInv'
    BY <1>6 DEF ConsentInv, Faithful
  <1>7. ASSUME NEW p \in Patch, ReadPolicy(p) PROVE ConsentInv'
    <2>1. PICK ask \in Wanted :
            patch' = [patch EXCEPT ![p] = [pc |-> IF Valid(Over(policy, ask)) THEN "writing" ELSE "over",
                                           wanted |-> Over(policy, ask)]]
      BY <1>7 DEF ReadPolicy
    <2> DEFINE w == Over(policy, ask)
    <2> HIDE DEF w
    <2>2. patch' = [patch EXCEPT ![p] = [pc |-> IF Valid(w) THEN "writing" ELSE "over", wanted |-> w]]
      BY <2>1 DEF w
    <2>3. \A q \in Patch : patch'[q].pc = "writing" => Valid(patch'[q].wanted)
      BY <2>2 DEF ConsentInv, TypeOK
    <2>4. UNCHANGED <<policy, turn>>
      BY <1>7 DEF ReadPolicy, turnVars
    <2> QED
      BY <2>3, <2>4 DEF ConsentInv, Faithful
  <1>8. ASSUME NEW p \in Patch, WritePolicy(p) PROVE ConsentInv'
    <2>1. /\ policy' = patch[p].wanted /\ patch[p].pc = "writing"
          /\ patch' = [patch EXCEPT ![p].pc = "over"] /\ UNCHANGED turn
      BY <1>8 DEF WritePolicy, turnVars
    <2>2. Valid(policy')
      BY <2>1 DEF ConsentInv
    <2>3. \A q \in Patch : patch'[q].pc = "writing" => Valid(patch'[q].wanted)
      BY <2>1 DEF ConsentInv, TypeOK
    <2> QED
      BY <2>1, <2>2, <2>3 DEF ConsentInv, Faithful
  <1> QED
    BY <1>3, <1>4, <1>5, <1>6, <1>7, <1>8 DEF Next, WatcherSees, CancelGeneration, vars, turnVars

\* NoCloudWithoutConsent: no saved policy names a cloud provider under
\* local_only, and no turn goes to one under a local promise, however PATCHes
\* and turns interleave (modules/chat.py, _set_policy and _prepare).
THEOREM ConsentFirst == Spec => []NoCloudWithoutConsent
  <1>1. ConsentInv => NoCloudWithoutConsent
    <2> SUFFICES ASSUME ConsentInv PROVE NoCloudWithoutConsent
      OBVIOUS
    <2>1. policy.provider = "cloud" => policy.provider # None
      BY NoneIsNoCloud
    <2>2. policy.provider = "cloud" => policy.privacy = "allow_cloud"
      BY <2>1 DEF ConsentInv, Valid
    <2> QED
      BY <2>2 DEF ConsentInv, Faithful, NoCloudWithoutConsent
  <1> QED
    BY InitTyped, TypeStep, InitConsent, ConsentStep, <1>1, PTL DEF Spec
-----------------------------------------------------------------------------
(* The rows of a conversation.                                             *)

LEMMA RowsAdded ==
    ASSUME TypeOK, NEW t \in Turn, NEW role \in {"user", "assistant"}, AddMessage(t, role)
    PROVE  /\ Len(messages') = Len(messages) + 1 /\ Len(messages) \in Nat
           /\ \A i \in 1..Len(messages) : messages'[i] = messages[i]
           /\ messages'[Len(messages) + 1] = [turn |-> t, role |-> role, text |-> turn[t].text]
  <1>1. messages \in Seq(Row)
    BY DEF TypeOK
  <1> DEFINE m == [turn |-> t, role |-> role, text |-> turn[t].text]
  <1>2. messages' = Append(messages, m)
    BY DEF AddMessage
  <1> HIDE DEF m
  <1>3. /\ Len(messages') = Len(messages) + 1 /\ Len(messages) \in Nat
        /\ \A i \in 1..Len(messages) : messages'[i] = messages[i]
        /\ messages'[Len(messages) + 1] = m
    BY <1>1, <1>2
  <1> QED
    BY <1>3 DEF m

LEMMA SameElements == ASSUME NEW A, NEW B, \A i : i \in A <=> i \in B PROVE A = B
  OBVIOUS

\* An answer adds a row to its turn's answers, a question to nobody's.
LEMMA AnswersAdded ==
    ASSUME TypeOK, NEW t \in Turn, NEW role \in {"user", "assistant"}, AddMessage(t, role),
           NEW o \in Turn
    PROVE  Answers(o)' = IF o = t /\ role = "assistant" THEN Answers(o) \cup {Len(messages) + 1}
                         ELSE Answers(o)
  <1> DEFINE n == Len(messages)
  <1>1. /\ Len(messages') = n + 1 /\ n \in Nat
        /\ \A i \in 1..n : messages'[i] = messages[i]
        /\ messages'[n + 1] = [turn |-> t, role |-> role, text |-> turn[t].text]
    BY RowsAdded
  <1>a. messages'[n + 1].turn = t /\ messages'[n + 1].role = role
    BY <1>1
  <1>2. 1..(n + 1) = 1..n \cup {n + 1}
    BY <1>1
  <1>3. \A i : i \in Answers(o)' <=> (i \in 1..(n + 1) /\ messages'[i].turn = o /\ messages'[i].role = "assistant")
    BY <1>1 DEF Answers
  <1>4. \A i : i \in Answers(o) <=> (i \in 1..n /\ messages[i].turn = o /\ messages[i].role = "assistant")
    BY DEF Answers
  <1> HIDE DEF n
  <1>5. n + 1 \notin 1..n
    BY <1>1
  <1>6. ASSUME NEW i
        PROVE  i \in Answers(o)' <=> (i \in Answers(o) \/ (i = n + 1 /\ o = t /\ role = "assistant"))
    <2>1. CASE i \in 1..n
      <3>1. messages'[i] = messages[i] /\ i # n + 1 /\ i \in 1..(n + 1)
        BY <1>1, <1>2, <1>5, <2>1
      <3> QED
        BY <1>3, <1>4, <2>1, <3>1
    <2>2. CASE i = n + 1
      <3>1. i \in 1..(n + 1) /\ i \notin Answers(o)
        BY <1>2, <1>4, <1>5, <2>2
      <3> QED
        BY <1>3, <1>a, <2>2, <3>1
    <2>3. CASE i \notin 1..(n + 1)
      BY <1>2, <1>3, <1>4, <2>3
    <2> QED
      BY <1>2, <2>1, <2>2, <2>3
  <1>7. CASE o = t /\ role = "assistant"
    <2>1. Answers(o)' = Answers(o) \cup {n + 1}
      BY <1>6, <1>7, SameElements
    <2> QED
      BY <1>7, <2>1 DEF n
  <1>8. CASE ~(o = t /\ role = "assistant")
    <2>1. Answers(o)' = Answers(o)
      BY <1>6, <1>8, SameElements
    <2> QED
      BY <1>8, <2>1
  <1> QED
    BY <1>7, <1>8

-----------------------------------------------------------------------------
(* One answer, after its question, with what went out, told afterwards.    *)

Before == {"idle", "opened", "asking", "gathering", "reading", "calling", "generating"}
Kept == {<<"completed">>, <<"cancelled">>}

\* The question of t is among the first n rows.
Question(t, n) == \E q \in 1..n : messages[q].turn = t /\ messages[q].role = "user"

Answer(t) ==
    /\ \A i, j \in Answers(t) : i = j
    /\ \A i \in Answers(t) : Question(t, i - 1)
    /\ turn[t].pc \in Unasked \cup Asked => Answers(t) = {}
    /\ turn[t].pc \in Asked => Question(t, Len(messages))
    /\ turn[t].pc \in Answered =>
         Answers(t) # {} /\ \A i \in Answers(t) : messages[i].text = turn[t].text
    /\ turn[t].told \in {"done", "cancelled"} => Answers(t) # {}

Trace(t) ==
    /\ turn[t].pc \in Before => trace[t] = <<>>
    /\ turn[t].pc \in {"storing"} \cup Answered => trace[t] \in Kept
    /\ Len(trace[t]) <= 1
    /\ turn[t].pc = "over" /\ trace[t] \in Kept => Answers(t) # {}

AnswerInv == \A t \in Turn : Answer(t) /\ Trace(t)

LEMMA Traces ==
    /\ Append(<<>>, "completed") \in Kept /\ Append(<<>>, "cancelled") \in Kept
    /\ Append(<<>>, "failed") \notin Kept /\ <<>> \notin Kept
    /\ Len(<<>>) = 0 /\ Len(Append(<<>>, "failed")) = 1
    /\ \A s \in Kept : Len(s) = 1
  <1>1. Append(<<>>, "failed") = <<"failed">> /\ Append(<<>>, "completed") = <<"completed">>
        /\ Append(<<>>, "cancelled") = <<"cancelled">>
    OBVIOUS
  <1>2. <<"failed">>[1] = "failed" /\ <<"completed">>[1] = "completed" /\ <<"cancelled">>[1] = "cancelled"
    OBVIOUS
  <1>3. Len(<<>>) = 0 /\ Len(<<"failed">>) = 1 /\ Len(<<"completed">>) = 1 /\ Len(<<"cancelled">>) = 1
    OBVIOUS
  <1>4. "failed" # "completed" /\ "failed" # "cancelled"
    OBVIOUS
  <1> QED
    BY <1>1, <1>2, <1>3, <1>4 DEF Kept

LEMMA InitAnswer == Init => AnswerInv
  <1> SUFFICES ASSUME Init PROVE AnswerInv
    OBVIOUS
  <1>1. \A t \in Turn : /\ turn[t].pc = "idle" /\ turn[t].told = "nothing"
                        /\ trace[t] = <<>> /\ Answers(t) = {}
    BY DEF Init, Idle, Answers
  <1> QED
    BY <1>1, Traces DEF AnswerInv, Answer, Trace, Asked, Answered

\* Rows are only added: what a turn asked and answered stays where it is.
Growing == /\ Len(messages) \in Nat /\ Len(messages') \in Nat /\ Len(messages) <= Len(messages')
           /\ \A i \in 1..Len(messages) : messages'[i] = messages[i]

LEMMA QuestionStays ==
    ASSUME Growing, NEW t, NEW n \in Nat, NEW m \in Nat, n <= m, n <= Len(messages), Question(t, n)
    PROVE  Question(t, m)'
  <1>1. PICK q \in 1..n : messages[q].turn = t /\ messages[q].role = "user"
    BY DEF Question
  <1>2. q \in 1..Len(messages) /\ q \in 1..m
    BY DEF Growing
  <1>3. messages'[q] = messages[q]
    BY <1>2 DEF Growing
  <1> QED
    BY <1>1, <1>2, <1>3 DEF Question

LEMMA AnswerFrame ==
    ASSUME TypeOK, Growing, NEW o \in Turn, Answer(o) /\ Trace(o), Answers(o)' = Answers(o),
           turn'[o] = turn[o], trace'[o] = trace[o]
    PROVE  Answer(o)' /\ Trace(o)'
  <1>1. Answers(o) \subseteq 1..Len(messages)
    BY DEF Answers
  <1>2. \A i \in Answers(o) : messages'[i] = messages[i] /\ i - 1 \in Nat /\ i - 1 <= Len(messages)
    BY <1>1 DEF Growing
  <1>3. \A i \in Answers(o) : Question(o, i - 1)'
    <2> SUFFICES ASSUME NEW i \in Answers(o) PROVE Question(o, i - 1)'
      OBVIOUS
    <2>1. Question(o, i - 1) /\ i - 1 \in Nat /\ i - 1 <= Len(messages)
      BY <1>2 DEF Answer
    <2> QED
      BY <2>1, QuestionStays
  <1>4. Question(o, Len(messages)) => Question(o, Len(messages))'
    BY QuestionStays DEF Growing, Question
  <1>5. Answer(o)'
    BY <1>2, <1>3, <1>4 DEF Answer
  <1>6. Trace(o)'
    BY DEF Trace
  <1> QED
    BY <1>5, <1>6

LEMMA Still ==
    ASSUME TypeOK, UNCHANGED messages
    PROVE  Growing /\ \A o \in Turn : Answers(o)' = Answers(o)
  <1>1. Len(messages) \in Nat
    BY DEF TypeOK
  <1> QED
    BY <1>1 DEF Growing, Answers

LEMMA Grown ==
    ASSUME TypeOK, NEW t \in Turn, NEW role \in {"user", "assistant"}, AddMessage(t, role)
    PROVE  Growing
  <1>1. /\ Len(messages') = Len(messages) + 1 /\ Len(messages) \in Nat
        /\ \A i \in 1..Len(messages) : messages'[i] = messages[i]
    BY RowsAdded
  <1> QED
    BY <1>1 DEF Growing

\* The turn that acts, when no row is added.
LEMMA GotoAnswer ==
    ASSUME TypeOK, NEW t \in Turn, NEW label, Goto(t, label), UNCHANGED messages,
           Answer(t), Trace(t),
           label \in Unasked => turn[t].pc \in Unasked,
           label \in Asked => turn[t].pc \in Asked,
           label \in Answered => turn[t].pc \in Answered
    PROVE  Answer(t)'
  <1>0. turn \in [Turn -> Held] /\ turn[t] \in Held
    BY DEF TypeOK
  <1>1. turn' = [turn EXCEPT ![t] = [turn[t] EXCEPT !.pc = label]]
    BY DEF Goto
  <1>2. turn'[t].pc = label /\ turn'[t].told = turn[t].told /\ turn'[t].text = turn[t].text
    BY <1>0, <1>1 DEF Held
  <1>3. Answers(t)' = Answers(t)
    BY Still
  <1>4. \A i \in Answers(t) : Question(t, i - 1)'
    BY DEF Answer, Question
  <1>5. Question(t, Len(messages)) => Question(t, Len(messages))'
    BY DEF Question
  <1> QED
    BY <1>2, <1>3, <1>4, <1>5 DEF Answer

LEMMA GoneAnswer ==
    ASSUME TypeOK, NEW t \in Turn, NEW label \in {"over", "killed"}, NEW told,
           turn' = [turn EXCEPT ![t] = Gone(label, told)], UNCHANGED messages, Answer(t),
           told \in {"done", "cancelled"} => Answers(t) # {}
    PROVE  Answer(t)'
  <1>1. turn'[t] = Gone(label, told)
    BY DEF TypeOK
  <1>0. Gone(label, told).pc = label /\ Gone(label, told).told = told
    BY DEF Gone, Idle
  <1>2. turn'[t].pc = label /\ turn'[t].told = told
    BY <1>0, <1>1
  <1>3. Answers(t)' = Answers(t)
    BY Still
  <1>4. \A i \in Answers(t) : Question(t, i - 1)'
    BY DEF Answer, Question
  <1>5. label \notin Unasked \cup Asked \cup Answered
    BY DEF Unasked, Asked, Answered
  <1> QED
    BY <1>2, <1>3, <1>4, <1>5 DEF Answer

LEMMA EndsAnswer ==
    ASSUME TypeOK, NEW t \in Turn, NEW told \in Told, Ends(t, told), UNCHANGED messages,
           Answer(t), told \in {"done", "cancelled"} => Answers(t) # {},
           Len(trace'[t]) <= 1, trace'[t] \in Kept => Answers(t) # {}
    PROVE  Answer(t)' /\ Trace(t)'
  <1>1. turn' = [turn EXCEPT ![t] = Gone("over", told)]
    BY DEF Ends
  <1>2. turn'[t].pc = "over"
    BY <1>1 DEF TypeOK, Gone, Idle
  <1>3. Answer(t)'
    BY <1>1, GoneAnswer
  <1>4. Answers(t)' = Answers(t)
    BY Still
  <1>5. Trace(t)'
    BY <1>2, <1>4 DEF Trace, Before, Answered
  <1> QED
    BY <1>3, <1>5

\* A step that only rewrites fields of a turn that has no answer yet.
LEMMA EarlyAnswer ==
    ASSUME TypeOK, NEW t \in Turn, UNCHANGED <<messages, trace>>, Answer(t), Trace(t),
           turn'[t].told = turn[t].told,
           \/ turn[t].pc \in Unasked /\ turn'[t].pc \in Unasked
           \/ turn[t].pc \in Asked /\ turn'[t].pc \in Asked,
           turn[t].pc \in Before, turn'[t].pc \in Before
    PROVE  Answer(t)' /\ Trace(t)'
  <1>1. Answers(t)' = Answers(t) /\ Answers(t) = {}
    BY Still DEF Answer
  <1>2. Question(t, Len(messages)) => Question(t, Len(messages))'
    BY DEF Question
  <1>3. turn'[t].pc \notin Answered /\ turn'[t].pc \notin {"storing", "over"}
    BY DEF Answered, Before
  <1>4. turn'[t].pc \in Asked => turn[t].pc \in Asked
    BY DEF Asked, Unasked
  <1>5. Answer(t)'
    BY <1>1, <1>2, <1>3, <1>4 DEF Answer
  <1>6. Trace(t)'
    BY <1>1, <1>3 DEF Trace
  <1> QED
    BY <1>5, <1>6
\* What the gateway records of a call is its only record.
LEMMA OneRecord ==
    ASSUME TypeOK, NEW t \in Turn, turn[t].pc = "generating", Trace(t),
           NEW outcome \in Outcomes, Record(t, outcome)
    PROVE  /\ trace'[t] = Append(<<>>, outcome) /\ Len(trace'[t]) = 1
           /\ \A o \in Turn \ {t} : trace'[o] = trace[o]
  <1>1. trace[t] = <<>>
    BY DEF Trace, Before
  <1>2. trace \in [Turn -> Seq(Outcomes)]
    BY DEF TypeOK
  <1>3. trace' = [trace EXCEPT ![t] = Append(<<>>, outcome)]
    BY <1>1 DEF Record
  <1>4. trace'[t] = Append(<<>>, outcome) /\ \A o \in Turn \ {t} : trace'[o] = trace[o]
    BY <1>2, <1>3
  <1>5. Append(<<>>, outcome) = <<outcome>> /\ Len(<<outcome>>) = 1
    OBVIOUS
  <1> QED
    BY <1>4, <1>5

\* The question and the answer, each as it is added.
LEMMA QuestionAdded ==
    ASSUME TypeOK, NEW t \in Turn, Answer(t), Trace(t), StoreQuestion(t)
    PROVE  Answer(t)' /\ Trace(t)'
  <1>0. turn \in [Turn -> Held] /\ turn[t] \in Held
    BY DEF TypeOK
  <1>1. AddMessage(t, "user") /\ turn[t].pc = "asking" /\ trace' = trace
        /\ turn' = [turn EXCEPT ![t] = [turn[t] EXCEPT !.pc = "gathering"]]
    BY DEF StoreQuestion, Goto
  <1>2. turn'[t].pc = "gathering" /\ turn'[t].told = turn[t].told
    BY <1>0, <1>1 DEF Held
  <1>3. Answers(t)' = Answers(t)
    BY <1>1, AnswersAdded
  <1>4. Answers(t) = {}
    BY <1>1 DEF Answer, Unasked
  <1>5. /\ Len(messages') = Len(messages) + 1 /\ Len(messages) \in Nat
        /\ messages'[Len(messages) + 1] = [turn |-> t, role |-> "user", text |-> turn[t].text]
    BY <1>1, RowsAdded
  <1>6. Len(messages) + 1 \in 1..Len(messages')
    BY <1>5
  <1>7. messages'[Len(messages) + 1].turn = t /\ messages'[Len(messages) + 1].role = "user"
    BY <1>5
  <1>8. Question(t, Len(messages))'
    BY <1>6, <1>7 DEF Question
  <1>9. turn'[t].pc \notin Answered
    BY <1>2 DEF Answered
  <1>10. Answer(t)'
    BY <1>2, <1>3, <1>4, <1>8, <1>9 DEF Answer
  <1>11. Trace(t)'
    BY <1>1, <1>2, Traces DEF Trace, Before, Answered
  <1> QED
    BY <1>10, <1>11

LEMMA AnswerAdded ==
    ASSUME TypeOK, NEW t \in Turn, Answer(t), Trace(t), StoreAnswer(t)
    PROVE  Answer(t)' /\ Trace(t)'
  <1>c. PICK n \in Nat : n = Len(messages) + 1
    BY DEF TypeOK
  <1>0. turn \in [Turn -> Held] /\ turn[t] \in Held
    BY DEF TypeOK
  <1>1. AddMessage(t, "assistant") /\ turn[t].pc = "storing" /\ trace' = trace
    BY DEF StoreAnswer
  <1>2. PICK label \in {"naming", "publishing"} :
          turn' = [turn EXCEPT ![t] = [turn[t] EXCEPT !.pc = label]]
    BY DEF StoreAnswer, Goto
  <1>3. turn'[t].pc = label /\ turn'[t].told = turn[t].told /\ turn'[t].text = turn[t].text
    BY <1>0, <1>2 DEF Held
  <1>4. label \in Answered /\ label \notin Unasked \cup Asked /\ label \notin Before
        /\ label # "over"
    BY DEF Answered, Unasked, Asked, Before
  <1>5. Answers(t) = {} \/ Answers(t) # {}
    OBVIOUS
  <1>6. Question(t, Len(messages)) /\ "storing" \in Asked
    BY <1>1 DEF Answer, Asked
  <1>7. Answers(t)' = Answers(t) \cup {n}
    BY <1>1, <1>c, AnswersAdded
  <1>8. Answers(t) = {}
    BY <1>1, <1>6 DEF Answer
  <1>a. Len(messages) \in Nat
        /\ messages'[n] = [turn |-> t, role |-> "assistant", text |-> turn[t].text]
    BY <1>1, <1>c, RowsAdded
  <1>9. n - 1 = Len(messages) /\ Len(messages) \in Nat
    BY <1>a, <1>c
  <1>10. Growing
    BY <1>1, Grown
  <1>11. Question(t, Len(messages))' /\ Question(t, n - 1)'
    BY <1>6, <1>9, <1>10, QuestionStays DEF Growing
  <1>12. messages'[n].text = turn'[t].text
    BY <1>3, <1>a
  <1>13. Answers(t)' = {n}
    BY <1>7, <1>8
  <1>b. /\ \A i, j \in Answers(t)' : i = j
        /\ \A i \in Answers(t)' : Question(t, i - 1)'
        /\ Answers(t)' # {}
        /\ \A i \in Answers(t)' : messages'[i].text = turn'[t].text
    BY <1>11, <1>12, <1>13
  <1>14. Answer(t)'
    BY <1>3, <1>4, <1>11, <1>b DEF Answer
  <1>15. Trace(t)'
    BY <1>1, <1>3, <1>4 DEF Trace, Answered
  <1> QED
    BY <1>14, <1>15

\* What one turn does keeps what is said of its own answer.
LEMMA TurnAnswer ==
    ASSUME TypeOK, NEW t \in Turn, Answer(t), Trace(t), Step(t) \/ Model(t)
    PROVE  Answer(t)' /\ Trace(t)'
  <1>0. turn \in [Turn -> Held] /\ turn[t] \in Held
    BY DEF TypeOK
  <1>t. "error" \in Told /\ "error" \notin {"done", "cancelled"} /\ {"done", "cancelled"} \subseteq Told
    BY DEF Told
  <1>e. ASSUME Ends(t, "error"), UNCHANGED <<messages, trace>>, turn[t].pc \in Before PROVE Answer(t)' /\ Trace(t)'
    <2>1. trace'[t] = <<>>
      BY <1>e DEF Trace
    <2> QED
      BY <1>e, <1>t, <2>1, EndsAnswer, Traces
  <1>1. CASE ReadConversation(t)
    <2>1. turn[t].pc = "opened" /\ UNCHANGED <<messages, trace>>
      BY <1>1 DEF ReadConversation
    <2>2. CASE Ends(t, "error")
      BY <1>e, <2>1, <2>2 DEF Before
    <2>3. CASE ~Ends(t, "error")
      <3>1. turn' = [turn EXCEPT ![t] = [turn[t] EXCEPT !.pc = "asking", !.policy = policy,
                                                        !.untitled = ~titled]]
        BY <1>1, <2>3 DEF ReadConversation
      <3>2. turn'[t].pc = "asking" /\ turn'[t].told = turn[t].told
        BY <1>0, <3>1 DEF Held
      <3> QED
        BY <2>1, <3>2, EarlyAnswer DEF Unasked, Before
    <2> QED
      BY <2>2, <2>3
  <1>2. CASE StoreQuestion(t)
    BY <1>2, QuestionAdded
  <1>3. CASE Gathered(t)
    <2>1. turn[t].pc = "gathering" /\ UNCHANGED <<messages, trace>>
      BY <1>3 DEF Gathered
    <2>2. CASE Ends(t, "error")
      BY <1>e, <2>1, <2>2 DEF Before
    <2>3. CASE ~Ends(t, "error")
      <3>1. turn' = [turn EXCEPT ![t] = [turn[t] EXCEPT !.pc = "reading"]]
        BY <1>3, <2>3 DEF Gathered, Goto
      <3>2. turn'[t].pc = "reading" /\ turn'[t].told = turn[t].told
        BY <1>0, <3>1 DEF Held
      <3> QED
        BY <2>1, <3>2, EarlyAnswer DEF Asked, Before
    <2> QED
      BY <2>2, <2>3
  <1>4. CASE ReadHistory(t)
    <2> DEFINE q == LastQuestion(History(messages))
    <2>1. /\ turn' = [turn EXCEPT ![t] = [turn[t] EXCEPT !.pc = "calling", !.asks = q]]
          /\ turn[t].pc = "reading" /\ UNCHANGED <<messages, trace>>
      BY <1>4 DEF ReadHistory
    <2> HIDE DEF q
    <2>2. turn'[t].pc = "calling" /\ turn'[t].told = turn[t].told
      BY <1>0, <2>1 DEF Held
    <2> QED
      BY <2>1, <2>2, EarlyAnswer DEF Asked, Before
  <1>5. CASE CallModel(t)
    <2> DEFINE n == PickChatter(turn[t].policy)
    <2>1. turn[t].pc = "calling" /\ UNCHANGED <<messages, trace>>
      BY <1>5 DEF CallModel
    <2>2. CASE Ends(t, "error")
      BY <1>e, <2>1, <2>2 DEF Before
    <2>3. CASE ~Ends(t, "error")
      <3>1. turn' = [turn EXCEPT ![t] = [turn[t] EXCEPT !.pc = "generating", !.via = n, !.asks = None]]
        BY <1>5, <2>3 DEF CallModel
      <3> HIDE DEF n
      <3>2. turn'[t].pc = "generating" /\ turn'[t].told = turn[t].told
        BY <1>0, <3>1 DEF Held
      <3> QED
        BY <2>1, <3>2, EarlyAnswer DEF Asked, Before
    <2> QED
      BY <2>2, <2>3
  <1>6. ASSUME NEW outcome \in {"completed", "cancelled"}, turn[t].pc = "generating",
               Record(t, outcome), Goto(t, "storing"), UNCHANGED messages
        PROVE  Answer(t)' /\ Trace(t)'
    <2>1. trace'[t] = Append(<<>>, outcome) /\ Len(trace'[t]) = 1
      BY <1>6, OneRecord DEF Outcomes
    <2>2. trace'[t] \in Kept
      BY <1>6, <2>1, Traces
    <2>3. turn' = [turn EXCEPT ![t] = [turn[t] EXCEPT !.pc = "storing"]]
      BY <1>6 DEF Goto
    <2>4. turn'[t].pc = "storing"
      BY <1>0, <2>3 DEF Held
    <2>5. Answer(t)'
      BY <1>6, GotoAnswer DEF Unasked, Asked, Answered
    <2>6. Trace(t)'
      BY <2>1, <2>2, <2>4 DEF Trace, Before
    <2> QED
      BY <2>5, <2>6
  <1>7. CASE Interrupted(t)
    BY <1>6, <1>7 DEF Interrupted, GuardRaises
  <1>8. CASE ModelEnds(t)
    BY <1>6, <1>8 DEF ModelEnds
  <1>9. CASE ModelFails(t)
    <2>1. turn[t].pc = "generating" /\ Record(t, "failed") /\ Ends(t, "error") /\ UNCHANGED messages
      BY <1>9 DEF ModelFails
    <2>2. trace'[t] = Append(<<>>, "failed") /\ Len(trace'[t]) = 1
      BY <2>1, OneRecord DEF Outcomes
    <2>3. trace'[t] \notin Kept /\ Len(trace'[t]) <= 1
      BY <2>2, Traces
    <2>4. Answer(t)' /\ Trace(t)'
      BY <1>t, <2>1, <2>3, EndsAnswer
    <2> QED
      BY <2>4
  <1>10. CASE StoreAnswer(t)
    BY <1>10, AnswerAdded
  <1>11. CASE Name(t)
    <2>1. turn[t].pc = "naming" /\ Goto(t, "publishing") /\ UNCHANGED <<messages, trace>>
      BY <1>11 DEF Name
    <2>2. Answer(t)'
      BY <2>1, GotoAnswer DEF Unasked, Asked, Answered
    <2>3. turn' = [turn EXCEPT ![t] = [turn[t] EXCEPT !.pc = "publishing"]]
      BY <2>1 DEF Goto
    <2>4. turn'[t].pc = "publishing"
      BY <1>0, <2>3 DEF Held
    <2>5. trace[t] \in Kept
      BY <2>1 DEF Trace, Answered
    <2>6. Trace(t)'
      BY <2>1, <2>4, <2>5 DEF Trace, Before
    <2> QED
      BY <2>2, <2>6
  <1>12. CASE Publish(t) \/ PublishFails(t)
    <2>1. PICK told \in {"done", "cancelled", "error"} : Ends(t, told)
      BY <1>12 DEF Publish, PublishFails
    <2>2. turn[t].pc = "publishing" /\ UNCHANGED <<messages, trace>>
      BY <1>12 DEF Publish, PublishFails
    <2>3. Answers(t) # {} /\ Len(trace'[t]) <= 1
      BY <2>2 DEF Answer, Trace, Answered
    <2> QED
      BY <1>t, <2>1, <2>2, <2>3, EndsAnswer
  <1>13. CASE Piece(t)
    <2>1. turn[t].text + 1 \in Nat
      BY <1>0 DEF Held
    <2>2. /\ turn' = [turn EXCEPT ![t] = [turn[t] EXCEPT !.text = turn[t].text + 1]]
          /\ turn[t].pc = "generating" /\ UNCHANGED <<messages, trace>>
      BY <1>13 DEF Piece
    <2>3. turn'[t].pc = "generating" /\ turn'[t].told = turn[t].told
      BY <1>0, <2>1, <2>2 DEF Held
    <2> QED
      BY <2>2, <2>3, EarlyAnswer DEF Asked, Before
  <1> QED
    BY <1>1, <1>2, <1>3, <1>4, <1>5, <1>7, <1>8, <1>9, <1>10, <1>11, <1>12, <1>13 DEF Step, Model
LEMMA AnswerStep == TypeOK /\ AnswerInv /\ [Next]_vars => AnswerInv'
  <1> SUFFICES ASSUME TypeOK, AnswerInv, [Next]_vars PROVE AnswerInv'
    OBVIOUS
  <1>0. turn \in [Turn -> Held]
    BY DEF TypeOK
  <1>1. ASSUME NEW t \in Turn, Alone(t), Growing, Answer(t)', Trace(t)',
               \A o \in Turn \ {t} : Answers(o)' = Answers(o) /\ trace'[o] = trace[o]
        PROVE  AnswerInv'
    <2>1. ASSUME NEW o \in Turn, o # t PROVE Answer(o)' /\ Trace(o)'
      <3>1. turn'[o] = turn[o] /\ Answers(o)' = Answers(o) /\ trace'[o] = trace[o]
        BY <1>1, <2>1 DEF Alone
      <3>2. Answer(o) /\ Trace(o)
        BY DEF AnswerInv
      <3> QED
        BY <1>1, <3>1, <3>2, AnswerFrame
    <2> QED
      BY <1>1, <2>1 DEF AnswerInv
  <1>2. ASSUME NEW t \in Turn, Step(t) \/ Model(t) PROVE AnswerInv'
    <2>1. Alone(t)
      BY <1>2, TurnKinds DEF GoesOn, Leaves
    <2>2. Answer(t)' /\ Trace(t)'
      BY <1>2, TurnAnswer DEF AnswerInv
    <2>3. \/ UNCHANGED messages
          \/ AddMessage(t, "user") \/ AddMessage(t, "assistant")
      BY <1>2 DEF Step, Model, ReadConversation, StoreQuestion, Gathered, ReadHistory, CallModel,
                  Interrupted, StoreAnswer, Name, Publish, PublishFails, Piece, ModelEnds, ModelFails
    <2>4. Growing /\ \A o \in Turn \ {t} : Answers(o)' = Answers(o)
      <3>1. CASE UNCHANGED messages
        BY <3>1, Still
      <3>2. ASSUME NEW role \in {"user", "assistant"}, AddMessage(t, role)
            PROVE  Growing /\ \A o \in Turn \ {t} : Answers(o)' = Answers(o)
        <4>1. \A o \in Turn \ {t} : Answers(o)' = Answers(o)
          BY <3>2, AnswersAdded
        <4> QED
          BY <3>2, <4>1, Grown
      <3> QED
        BY <2>3, <3>1, <3>2
    <2>5. \/ UNCHANGED trace
          \/ \E outcome \in Outcomes : Record(t, outcome)
      BY <1>2 DEF Step, Model, ReadConversation, StoreQuestion, Gathered, ReadHistory, CallModel,
                  Interrupted, StoreAnswer, Name, Publish, PublishFails, Piece, ModelEnds, ModelFails,
                  Outcomes
    <2>6. \A o \in Turn \ {t} : trace'[o] = trace[o]
      BY <2>5 DEF Record, TypeOK
    <2> QED
      BY <1>1, <2>1, <2>2, <2>4, <2>6
  <1>3. ASSUME UNCHANGED messages, UNCHANGED trace, NEW t \in Turn, Alone(t), Answer(t)', Trace(t)'
        PROVE  AnswerInv'
    <2>1. Growing /\ \A o \in Turn : Answers(o)' = Answers(o)
      BY <1>3, Still
    <2> QED
      BY <1>1, <1>3, <2>1
  <1>4. ASSUME NEW t \in Turn, Killed(t) PROVE AnswerInv'
    <2>1. Alone(t) /\ messages' = messages /\ trace' = trace
      BY <1>4, KilledLeaves DEF Leaves, Killed
    <2>2. Answer(t) /\ Trace(t)
      BY DEF AnswerInv
    <2>3. CASE turn[t].pc = "opened"
      <3>1. turn' = [turn EXCEPT ![t] = [turn[t] EXCEPT !.pc = "killed"]] /\ Goto(t, "killed")
        BY <1>4, <2>3 DEF Killed, Goto
      <3>2. turn'[t].pc = "killed"
        BY <1>0, <3>1 DEF Held
      <3>3. Trace(t)'
        BY <2>1, <2>2, <3>2 DEF Trace, Before, Answered
      <3>4. Answer(t)'
        BY <2>1, <2>2, <3>1, GotoAnswer DEF Unasked, Asked, Answered
      <3> QED
        BY <1>3, <2>1, <3>3, <3>4
    <2>4. CASE turn[t].pc # "opened"
      <3>1. turn' = [turn EXCEPT ![t] = Gone("killed", "nothing")]
        BY <1>4, <2>4 DEF Killed
      <3>2. turn'[t].pc = "killed"
        BY <1>0, <3>1 DEF Gone, Idle
      <3>3. Trace(t)'
        BY <2>1, <2>2, <3>2 DEF Trace, Before, Answered
      <3>4. Answer(t)'
        BY <2>1, <2>2, <3>1, GoneAnswer
      <3> QED
        BY <1>3, <2>1, <3>3, <3>4
    <2> QED
      BY <2>3, <2>4
  <1>5. ASSUME NEW t \in Turn, NEW u \in Users, NEW streamed \in BOOLEAN, Arrive(t, u, streamed)
        PROVE  AnswerInv'
    <2>1. /\ turn' = [turn EXCEPT ![t] = [turn[t] EXCEPT !.pc = "opened", !.user = u]]
          /\ turn[t].pc = "idle" /\ messages' = messages /\ trace' = trace
      BY <1>5 DEF Arrive
    <2>2. turn'[t].pc = "opened" /\ turn'[t].told = turn[t].told /\ Alone(t)
      BY <1>0, <2>1 DEF Held, Alone
    <2>3. Answer(t)' /\ Trace(t)'
      BY <2>1, <2>2, EarlyAnswer DEF AnswerInv, Unasked, Before
    <2> QED
      BY <1>3, <2>1, <2>2, <2>3
  <1>6. ASSUME UNCHANGED <<turn, messages, trace>> PROVE AnswerInv'
    <2>1. Growing /\ \A o \in Turn : Answers(o)' = Answers(o)
      BY <1>6, Still
    <2>2. ASSUME NEW o \in Turn PROVE Answer(o)' /\ Trace(o)'
      BY <1>6, <2>1, AnswerFrame DEF AnswerInv
    <2> QED
      BY <2>2 DEF AnswerInv
  <1>7. ASSUME NEW p \in Patch, ReadPolicy(p) \/ WritePolicy(p) PROVE AnswerInv'
    BY <1>6, <1>7 DEF ReadPolicy, WritePolicy, turnVars
  <1> QED
    BY <1>2, <1>4, <1>5, <1>6, <1>7 DEF Next, WatcherSees, CancelGeneration, vars, turnVars

\* AnswerKept: a turn has at most one answer, after its question and with
\* every piece that went out, there before the client is told, and one record
\* of every call that was not killed (modules/chat.py, _finalize; gateway.py,
\* _record_chat).
THEOREM AnswerNeverLost == Spec => []AnswerKept
  <1>1. TypeOK /\ ConsentInv /\ AnswerInv => AnswerKept
    <2> SUFFICES ASSUME TypeOK, ConsentInv, AnswerInv, NEW t \in Turn
                 PROVE  /\ \A i, j \in Answers(t) : i = j
                        /\ \A i \in Answers(t) :
                             /\ Active(t) => messages[i].text = turn[t].text
                             /\ \E q \in 1..(i - 1) : messages[q].turn = t /\ messages[q].role = "user"
                        /\ turn[t].told \in {"done", "cancelled"} => Answers(t) # {}
                        /\ Len(trace[t]) <= 1
                        /\ Active(t) /\ turn[t].via # None /\ turn[t].pc # "generating" => trace[t] # <<>>
                        /\ turn[t].pc = "over" /\ trace[t] \in {<<"completed">>, <<"cancelled">>}
                             => Answers(t) # {}
      BY DEF AnswerKept
    <2>1. Answer(t) /\ Trace(t) /\ Faithful(t)
      BY DEF AnswerInv, ConsentInv
    <2>2. turn[t].pc \in Labels
      BY DEF TypeOK, Held
    <2>3. ASSUME NEW i \in Answers(t)
          PROVE  /\ Active(t) => messages[i].text = turn[t].text
                 /\ \E q \in 1..(i - 1) : messages[q].turn = t /\ messages[q].role = "user"
      <3>1. Active(t) => turn[t].pc \in Answered
        BY <2>1, <2>2 DEF Active, Answer, Labels, Unasked
      <3> QED
        BY <2>1, <3>1 DEF Answer, Question
    <2>4. ASSUME turn[t].via # None, turn[t].pc # "generating" PROVE trace[t] # <<>>
      <3>1. turn[t].pc \in {"storing"} \cup Answered
        BY <2>1, <2>4 DEF Faithful, Calling, Answered
      <3> QED
        BY <2>1, <3>1, Traces DEF Trace
    <2>5. Len(trace[t]) <= 1 /\ (turn[t].pc = "over" /\ trace[t] \in {<<"completed">>, <<"cancelled">>}
             => Answers(t) # {})
      BY <2>1 DEF Trace, Kept
    <2> QED
      BY <2>1, <2>3, <2>4, <2>5 DEF Answer
  <1> QED
    BY InitTyped, TypeStep, InitConsent, ConsentStep, InitAnswer, AnswerStep, <1>1, PTL DEF Spec
-----------------------------------------------------------------------------
(* Asking the right question.  The store in memory always gives the newest *)
(* rows, the one in Postgres the oldest: over it the question is there as  *)
(* long as the conversation fits the window, and not beyond.               *)

\* The last row is the question of t.
LastIs(t) ==
    /\ messages # <<>>
    /\ messages[Len(messages)].turn = t
    /\ messages[Len(messages)].role = "user"

\* The history that is read ends with the last row.
Fits == store = "memory" \/ Len(messages) <= Window

Opened == {"asking"} \cup Asked \cup Answered

Asking(t) ==
    /\ turn[t].pc \in Opened => User(t) = Owner
    /\ turn[t].pc \in {"gathering", "reading"} /\ met[t] = {} => LastIs(t)
    /\ turn[t].pc = "calling" /\ met[t] = {} /\ Fits => turn[t].asks = t

AsksInv == \A t \in Turn : Asking(t)

LEMMA InitAsks == Init => AsksInv
  <1> SUFFICES ASSUME Init PROVE AsksInv
    OBVIOUS
  <1>1. \A t \in Turn : turn[t].pc = "idle"
    BY DEF Init, Idle
  <1> QED
    BY <1>1 DEF AsksInv, Asking, Opened, Asked, Answered

\* What fits ends with the newest row.
LEMMA NewestIsSeen ==
    ASSUME TypeOK, Fits, NEW t \in Turn, LastIs(t)
    PROVE  LastQuestion(History(messages)) = t
  <1> DEFINE n == Len(messages)
             h == History(messages)
  <1>1. messages \in Seq(Row) /\ n \in Nat \ {0} /\ Window \in Nat \ {0}
    BY ChatAssumption DEF TypeOK, LastIs
  <1>2. CASE n <= Window
    <2>1. h = SubSeq(messages, 1, n)
      BY <1>1, <1>2 DEF History, Oldest
    <2>2. Len(h) = n /\ h[n] = messages[n]
      BY <1>1, <2>1
    <2>3. h # <<>> /\ h[Len(h)] = messages[n]
      BY <1>1, <2>2
    <2> HIDE DEF h
    <2> QED
      BY <2>3 DEF LastQuestion, LastIs, h
  <1>3. CASE n > Window
    <2>1. h = SubSeq(messages, n - Window + 1, n)
      BY <1>1, <1>3 DEF History, Fits
    <2>2. n - Window + 1 \in 1..n /\ (n - Window + 1) + Window - 1 = n
      BY <1>1, <1>3
    <2>3. Len(h) = Window /\ h[Window] = messages[n]
      BY <1>1, <2>1, <2>2
    <2>4. h # <<>> /\ h[Len(h)] = messages[n]
      BY <1>1, <2>3
    <2> HIDE DEF h
    <2> QED
      BY <2>4 DEF LastQuestion, LastIs, h
  <1> QED
    BY <1>1, <1>2, <1>3

LEMMA GoneAsks ==
    ASSUME TypeOK, NEW t \in Turn, NEW label \in {"over", "killed"}, NEW told,
           turn' = [turn EXCEPT ![t] = Gone(label, told)]
    PROVE  Asking(t)'
  <1>1. turn'[t].pc = label
    BY DEF TypeOK, Gone, Idle
  <1> QED
    BY <1>1 DEF Asking, Opened, Asked, Answered

LEMMA EndsAsks ==
    ASSUME TypeOK, NEW t \in Turn, NEW told, Ends(t, told) PROVE Asking(t)'
  BY GoneAsks DEF Ends

\* Once its prompt is built a turn asks nothing more.
LEMMA LateAsks ==
    ASSUME TypeOK, NEW t \in Turn, Asking(t), turn[t].pc \in Opened,
           turn'[t].pc \in {"generating", "storing", "naming", "publishing", "asking"},
           turn'[t].user = turn[t].user
    PROVE  Asking(t)'
  BY DEF Asking, User

LEMMA GotoAsks ==
    ASSUME TypeOK, NEW t \in Turn, Asking(t), turn[t].pc \in Opened, Goto(t, "storing")
                                               \/ Goto(t, "naming") \/ Goto(t, "publishing")
    PROVE  Asking(t)'
  <1>0. turn \in [Turn -> Held] /\ turn[t] \in Held
    BY DEF TypeOK
  <1>1. PICK label \in {"storing", "naming", "publishing"} :
          turn' = [turn EXCEPT ![t] = [turn[t] EXCEPT !.pc = label]]
    BY DEF Goto
  <1>2. turn'[t].pc = label /\ turn'[t].user = turn[t].user
    BY <1>0, <1>1 DEF Held
  <1> QED
    BY <1>2, LateAsks

LEMMA TurnAsks ==
    ASSUME TypeOK, NEW t \in Turn, Asking(t), Step(t) \/ Model(t)
    PROVE  Asking(t)'
  <1>0. turn \in [Turn -> Held] /\ turn[t] \in Held
    BY DEF TypeOK
  <1>1. CASE ReadConversation(t)
    <2>1. CASE User(t) # Owner
      BY <1>1, <2>1, EndsAsks DEF ReadConversation
    <2>2. CASE User(t) = Owner
      <3>1. turn' = [turn EXCEPT ![t] = [turn[t] EXCEPT !.pc = "asking", !.policy = policy,
                                                        !.untitled = ~titled]]
        BY <1>1, <2>2 DEF ReadConversation
      <3>2. turn'[t].pc = "asking" /\ turn'[t].user = turn[t].user
        BY <1>0, <3>1 DEF Held
      <3> QED
        BY <2>2, <3>2 DEF Asking, User
    <2> QED
      BY <2>1, <2>2
  <1>2. CASE StoreQuestion(t)
    <2>1. /\ turn[t].pc = "asking" /\ AddMessage(t, "user")
          /\ turn' = [turn EXCEPT ![t] = [turn[t] EXCEPT !.pc = "gathering"]]
      BY <1>2 DEF StoreQuestion, Goto
    <2>2. turn'[t].pc = "gathering" /\ turn'[t].user = turn[t].user
      BY <1>0, <2>1 DEF Held
    <2>3. /\ Len(messages') = Len(messages) + 1 /\ Len(messages) \in Nat
          /\ messages'[Len(messages) + 1] = [turn |-> t, role |-> "user", text |-> turn[t].text]
      BY <2>1, RowsAdded
    <2>4. messages'[Len(messages')].turn = t /\ messages'[Len(messages')].role = "user"
      BY <2>3
    <2>5. messages' # <<>>
      BY <2>3
    <2>6. LastIs(t)'
      BY <2>4, <2>5 DEF LastIs
    <2> QED
      BY <2>1, <2>2, <2>6 DEF Asking, User, Opened
  <1>3. CASE Gathered(t)
    <2>1. CASE Cancelled(t)
      BY <1>3, <2>1, EndsAsks DEF Gathered
    <2>2. CASE ~Cancelled(t)
      <3>1. /\ turn[t].pc = "gathering" /\ UNCHANGED <<messages, met>>
            /\ turn' = [turn EXCEPT ![t] = [turn[t] EXCEPT !.pc = "reading"]]
        BY <1>3, <2>2 DEF Gathered, Goto
      <3>2. turn'[t].pc = "reading" /\ turn'[t].user = turn[t].user
        BY <1>0, <3>1 DEF Held
      <3>3. LastIs(t)' <=> LastIs(t)
        BY <3>1 DEF LastIs
      <3> QED
        BY <3>1, <3>2, <3>3 DEF Asking, User, Opened, Asked
    <2> QED
      BY <2>1, <2>2
  <1>4. CASE ReadHistory(t)
    <2> DEFINE q == LastQuestion(History(messages))
    <2>1. /\ turn' = [turn EXCEPT ![t] = [turn[t] EXCEPT !.pc = "calling", !.asks = q]]
          /\ turn[t].pc = "reading" /\ UNCHANGED met
      BY <1>4 DEF ReadHistory
    <2>2. met[t] = {} /\ Fits => q = t
      BY <2>1, NewestIsSeen DEF Asking
    <2>4. Fits' <=> Fits
      BY <1>4 DEF ReadHistory, Fits
    <2> HIDE DEF q
    <2>3. turn'[t].pc = "calling" /\ turn'[t].user = turn[t].user /\ turn'[t].asks = q
      BY <1>0, <2>1 DEF Held
    <2> QED
      BY <2>1, <2>2, <2>3, <2>4 DEF Asking, User, Opened, Asked
  <1>5. CASE CallModel(t)
    <2> DEFINE n == PickChatter(turn[t].policy)
    <2>1. CASE Ends(t, "error")
      BY <2>1, EndsAsks
    <2>2. CASE ~Ends(t, "error")
      <3>1. /\ turn' = [turn EXCEPT ![t] = [turn[t] EXCEPT !.pc = "generating", !.via = n, !.asks = None]]
            /\ turn[t].pc = "calling"
        BY <1>5, <2>2 DEF CallModel
      <3> HIDE DEF n
      <3>2. turn'[t].pc = "generating" /\ turn'[t].user = turn[t].user
        BY <1>0, <3>1 DEF Held
      <3> QED
        BY <3>1, <3>2, LateAsks DEF Opened, Asked
    <2> QED
      BY <2>1, <2>2
  <1>6. CASE Interrupted(t) \/ ModelEnds(t)
    BY <1>6, GotoAsks DEF Interrupted, GuardRaises, ModelEnds, Opened, Asked
  <1>7. CASE StoreAnswer(t)
    <2>1. Goto(t, "naming") \/ Goto(t, "publishing")
      BY <1>7 DEF StoreAnswer
    <2> QED
      BY <1>7, <2>1, GotoAsks DEF StoreAnswer, Opened, Asked
  <1>8. CASE Name(t)
    BY <1>8, GotoAsks DEF Name, Opened, Answered
  <1>9. CASE Publish(t) \/ PublishFails(t) \/ ModelFails(t)
    BY <1>9, EndsAsks DEF Publish, PublishFails, ModelFails
  <1>10. CASE Piece(t)
    <2>1. turn[t].text + 1 \in Nat
      BY <1>0 DEF Held
    <2>2. /\ turn' = [turn EXCEPT ![t] = [turn[t] EXCEPT !.text = turn[t].text + 1]]
          /\ turn[t].pc = "generating"
      BY <1>10 DEF Piece
    <2>3. turn'[t].pc = "generating" /\ turn'[t].user = turn[t].user
      BY <1>0, <2>1, <2>2 DEF Held
    <2> QED
      BY <2>2, <2>3, LateAsks DEF Opened, Asked
  <1> QED
    BY <1>1, <1>2, <1>3, <1>4, <1>5, <1>6, <1>7, <1>8, <1>9, <1>10 DEF Step, Model

\* A turn that has met nobody has the rows to itself.
LEMMA AsksStep ==
    TypeOK /\ StopInv /\ AsksInv /\ [Next]_vars => AsksInv'
  <1> SUFFICES ASSUME TypeOK, StopInv, AsksInv, [Next]_vars PROVE AsksInv'
    OBVIOUS
  <1>0. turn \in [Turn -> Held] /\ met \in [Turn -> SUBSET Turn]
    BY DEF TypeOK
  <1>f. Fits' => Fits
    <2>1. store' = store
      BY DEF Next, Step, Model, ReadPolicy, WritePolicy, Arrive, ReadConversation, StoreQuestion,
             Gathered, ReadHistory, CallModel, Interrupted, StoreAnswer, Name, Publish,
             PublishFails, Piece, ModelEnds, ModelFails, WatcherSees, Killed, CancelGeneration, vars
    <2>2. \/ messages' = messages
          \/ \E t \in Turn, role \in {"user", "assistant"} : AddMessage(t, role)
      BY DEF Next, Step, Model, ReadPolicy, WritePolicy, Arrive, ReadConversation, StoreQuestion,
             Gathered, ReadHistory, CallModel, Interrupted, StoreAnswer, Name, Publish,
             PublishFails, Piece, ModelEnds, ModelFails, WatcherSees, Killed, CancelGeneration, vars
    <2>3. Len(messages) \in Nat /\ Len(messages') \in Nat /\ Window \in Nat
      BY ChatAssumption, TypeStep DEF TypeOK
    <2>4. messages' = messages \/ Len(messages') = Len(messages) + 1
      BY <2>2, RowsAdded
    <2> QED
      BY <2>1, <2>3, <2>4 DEF Fits
  <1>1. ASSUME NEW o \in Turn, turn'[o] = turn[o], met'[o] = {} => met[o] = {},
               UNCHANGED messages \/ met[o] # {} \/ turn[o].pc \notin {"gathering", "reading"}
        PROVE  Asking(o)'
    <2>1. UNCHANGED messages => (LastIs(o)' <=> LastIs(o))
      BY DEF LastIs
    <2> QED
      BY <1>f, <1>1, <2>1 DEF AsksInv, Asking, User
  <1>2. ASSUME NEW t \in Turn, Step(t) \/ Model(t) PROVE AsksInv'
    <2>1. Alone(t) /\ met' = met
      BY <1>2, TurnKinds DEF GoesOn, Leaves
    <2>2. \/ UNCHANGED messages
          \/ turn[t].pc \in {"asking", "storing"}
      BY <1>2 DEF Step, Model, ReadConversation, StoreQuestion, Gathered, ReadHistory, CallModel,
                  Interrupted, StoreAnswer, Name, Publish, PublishFails, Piece, ModelEnds, ModelFails
    <2>3. ASSUME NEW o \in Turn \ {t} PROVE Asking(o)'
      <3>1. CASE UNCHANGED messages
        BY <1>1, <2>1, <2>3, <3>1 DEF Alone
      <3>2. CASE turn[o].pc \notin {"gathering", "reading"}
        BY <1>1, <2>1, <2>3, <3>2 DEF Alone
      <3>3. CASE turn[t].pc \in {"asking", "storing"} /\ turn[o].pc \in {"gathering", "reading"}
        <4>1. Active(t) /\ Active(o) /\ User(t) = Owner /\ User(o) = Owner
          BY <3>3 DEF AsksInv, Asking, Opened, Asked, Active
        <4>2. t \in met[o]
          BY <2>3, <4>1 DEF StopInv, Remembered
        <4> QED
          BY <1>1, <2>1, <2>3, <4>2 DEF Alone
      <3> QED
        BY <2>2, <3>1, <3>2, <3>3
    <2>4. Asking(t)'
      BY <1>2, TurnAsks DEF AsksInv
    <2> QED
      BY <2>3, <2>4 DEF AsksInv
  <1>3. ASSUME NEW t \in Turn, Killed(t) PROVE AsksInv'
    <2>1. Alone(t) /\ met' = met /\ messages' = messages
      BY <1>3, KilledLeaves DEF Leaves, Killed
    <2>2. turn'[t].pc \in {"over", "killed"}
      BY <1>3, KilledLeaves DEF Leaves
    <2>3. Asking(t)'
      BY <2>2 DEF Asking, Opened, Asked, Answered
    <2>4. ASSUME NEW o \in Turn \ {t} PROVE Asking(o)'
      BY <1>1, <2>1, <2>4 DEF Alone
    <2> QED
      BY <2>3, <2>4 DEF AsksInv
  <1>4. ASSUME NEW t \in Turn, NEW u \in Users, NEW streamed \in BOOLEAN, Arrive(t, u, streamed)
        PROVE  AsksInv'
    <2> DEFINE others == {o \in Turn : Active(o) /\ User(o) = u}
    <2>1. /\ turn' = [turn EXCEPT ![t] = [turn[t] EXCEPT !.pc = "opened", !.user = u]]
          /\ messages' = messages
      BY <1>4 DEF Arrive
    <2>2. met' = [o \in Turn |-> IF o = t THEN others ELSE met[o] \cup {n \in {t} : o \in others}]
      BY <1>4, Zenon DEF Arrive
    <2> HIDE DEF others
    <2>3. \A o \in Turn \ {t} : turn'[o] = turn[o] /\ (met'[o] = {} => met[o] = {})
      BY <1>0, <2>1, <2>2
    <2>4. turn'[t].pc = "opened"
      BY <1>0, <2>1 DEF Held
    <2>5. Asking(t)'
      BY <2>4 DEF Asking, Opened, Asked, Answered
    <2>6. ASSUME NEW o \in Turn \ {t} PROVE Asking(o)'
      BY <1>1, <2>1, <2>3, <2>6
    <2> QED
      BY <2>5, <2>6 DEF AsksInv
  <1>5. ASSUME UNCHANGED <<turn, messages, met>> PROVE AsksInv'
    BY <1>1, <1>5 DEF AsksInv
  <1>6. ASSUME NEW p \in Patch, ReadPolicy(p) \/ WritePolicy(p) PROVE AsksInv'
    BY <1>5, <1>6 DEF ReadPolicy, WritePolicy, turnVars
  <1> QED
    BY <1>2, <1>3, <1>4, <1>5, <1>6 DEF Next, WatcherSees, CancelGeneration, vars, turnVars

\* AsksWhatFits: the prompt of a turn that had the conversation to itself ends
\* with its question, over the store in memory for any window and any length of
\* the conversation, over Postgres as long as it fits the window
\* (modules/chat.py, _build_messages; adapters/conversations).
THEOREM QuestionIsAsked == Spec => []AsksWhatFits
  <1>1. AsksInv => AsksWhatFits
    BY DEF AsksInv, Asking, AsksWhatFits, Fits
  <1> QED
    BY InitTyped, TypeStep, InitStop, StopStep, InitAsks, AsksStep, <1>1, PTL DEF Spec
=============================================================================
