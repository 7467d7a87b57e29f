-------------------------------- MODULE Chat --------------------------------
(***************************************************************************)
(* One conversation: the turns of modules/chat.py (chat.send and the       *)
(* stream of api/chat.py), the policy a PATCH changes under them, the      *)
(* routing and the trace of the AI gateway (adapters/ai/gateway.py), the   *)
(* registry of streams a stop button looks up, and the two stores          *)
(* (adapters/conversations).                                               *)
(*                                                                         *)
(* A turn is one request; it gives way where the code awaits.  A text is   *)
(* the number of pieces the model sent.                                    *)
(***************************************************************************)
EXTENDS Naturals, Sequences, FiniteSets

CONSTANTS Turn,         \* requests that send a message
          Users,        \* who sends them
          Owner,        \* whose conversation it is
          Patch,        \* requests to change the policy
          Registered,   \* chat providers of the gateway, out of Names
          Stores,       \* the stores it may be assembled with
          Window,       \* _HISTORY_TURNS * 2
          None

\* Bounds: the pieces of one answer, what POSTs and PATCHes ask for.
CONSTANTS MaxPieces, Wanted

Names == {"local", "cloud"}
Privacies == {"local_only", "allow_cloud"}
Policy == [privacy : Privacies, provider : Names \cup {None}]
\* SetPolicyInput: None leaves a key alone, "" clears the provider.
SetPolicy == [privacy : Privacies \cup {None}, provider : Names \cup {None, ""}]

ASSUME ChatAssumption ==
    /\ Owner \in Users
    /\ IsFiniteSet(Turn)
    /\ Registered \subseteq Names
    /\ Stores \subseteq {"memory", "postgres"}
    /\ Window \in Nat \ {0}
    /\ None \notin Turn
    /\ None \notin Names
    /\ None \notin Users
    /\ MaxPieces \in Nat
    /\ Wanted \subseteq SetPolicy

VARIABLES
    store,      \* "memory" or "postgres", for good
    policy,     \* model_policy of the conversation
    titled,     \* has it been named
    messages,   \* the rows of the conversation, oldest first
    turn,       \* [Turn -> what the turn holds between its awaits]
    token,      \* [Turn -> "none" of chat.send, "live" or "cancelled"]
    running,    \* _em_andamento: [user -> the turn whose token is registered]
    trace,      \* [Turn -> outcomes the gateway recorded for its call]
    patch,      \* [Patch -> where it is and the policy it will write]
    met         \* history: [Turn -> turns of the same user it overlapped]

turnVars == <<turn, token, running>>
vars == <<store, policy, titled, messages, turnVars, trace, patch, met>>

-----------------------------------------------------------------------------
User(t) == turn[t].user
Streamed(t) == token[t] # "none"
Active(t) == turn[t].pc \notin {"idle", "over", "killed"}
Cancelled(t) == token[t] = "cancelled"

\* _validate_policy
Valid(p) == p.provider # None => /\ p.provider \in Registered
                                 /\ p.provider = "cloud" => p.privacy = "allow_cloud"

\* What _set_policy asks for, over the policy it read.
Over(old, ask) ==
    [privacy |-> IF ask.privacy = None THEN old.privacy ELSE ask.privacy,
     provider |-> CASE ask.provider = None -> old.provider
                    [] ask.provider = "" -> None
                    [] OTHER -> ask.provider]

Default == [privacy |-> "local_only", provider |-> None]

\* _Turn, with what has been generated and what the client was told last.
Idle == [pc |-> "idle", user |-> None, policy |-> Default,
         untitled |-> FALSE, asks |-> None, via |-> None, text |-> 0, told |-> "nothing"]

\* chat.start, with a policy that is valid.
Init ==
    /\ store \in Stores
    /\ policy \in {p \in {Over(Default, ask) : ask \in Wanted} : Valid(p)}
    /\ titled = FALSE
    /\ messages = <<>>
    /\ turn = [t \in Turn |-> Idle]
    /\ token = [t \in Turn |-> "none"]
    /\ running = [u \in Users |-> None]
    /\ trace = [t \in Turn |-> <<>>]
    /\ patch = [p \in Patch |-> [pc |-> "idle", wanted |-> Default]]
    /\ met = [t \in Turn |-> {}]

Goto(t, label) == turn' = [turn EXCEPT ![t].pc = label]

\* The locals of a request go with it.
Gone(label, told) == [Idle EXCEPT !.pc = label, !.told = told]

\* Variant: streams are registered by conversation, not by user.
EndsForAll(t, told) ==
    /\ turn' = [turn EXCEPT ![t] = Gone("over", told)]
    /\ running' = IF Streamed(t) THEN [u \in Users |-> None] ELSE running

\* The end of a request; events() drops the registered token, whoever's it is.
Ends(t, told) ==
    /\ turn' = [turn EXCEPT ![t] = Gone("over", told)]
    /\ running' = IF Streamed(t) THEN [running EXCEPT ![User(t)] = None] ELSE running

-----------------------------------------------------------------------------
(* PATCH of the policy: _set_policy reads, checks and writes.              *)

ReadPolicy(p) ==
    /\ patch[p].pc = "idle"
    /\ \E ask \in Wanted : LET wanted == Over(policy, ask) IN
         patch' = [patch EXCEPT ![p] = [pc |-> IF Valid(wanted) THEN "writing" ELSE "over",
                                        wanted |-> wanted]]
    /\ UNCHANGED <<store, policy, titled, messages, turnVars, trace, met>>

\* Variant: the UPDATE sets the provider and leaves the privacy alone.
WriteProvider(p) ==
    /\ patch[p].pc = "writing"
    /\ policy' = [policy EXCEPT !.provider = patch[p].wanted.provider]
    /\ patch' = [patch EXCEPT ![p].pc = "over"]
    /\ UNCHANGED <<store, titled, messages, turnVars, trace, met>>

\* The second half: set_model_policy replaces the whole policy.
WritePolicy(p) ==
    /\ patch[p].pc = "writing"
    /\ policy' = patch[p].wanted
    /\ patch' = [patch EXCEPT ![p].pc = "over"]
    /\ UNCHANGED <<store, titled, messages, turnVars, trace, met>>

-----------------------------------------------------------------------------
(* A request arrives, and _prepare.                                        *)

\* send_stream registers a child of the kernel's token; chat.send has none.
Arrive(t, u, streamed) ==
    LET others == {o \in Turn : Active(o) /\ User(o) = u} IN
    /\ turn[t].pc = "idle"
    /\ turn' = [turn EXCEPT ![t].pc = "opened", ![t].user = u]
    /\ IF streamed
       THEN /\ token' = [token EXCEPT ![t] = "live"]
            /\ running' = [running EXCEPT ![u] = t]
       ELSE UNCHANGED <<token, running>>
    /\ met' = [o \in Turn |-> IF o = t THEN others
                              ELSE met[o] \cup {n \in {t} : o \in others}]
    /\ UNCHANGED <<store, policy, titled, messages, trace, patch>>

\* store.get, and whose conversation it is.
ReadConversation(t) ==
    /\ turn[t].pc = "opened"
    /\ IF User(t) # Owner
       THEN Ends(t, "error")
       ELSE /\ turn' = [turn EXCEPT ![t].pc = "asking", ![t].policy = policy,
                                    ![t].untitled = ~titled]
            /\ UNCHANGED running
    /\ UNCHANGED <<store, policy, titled, messages, token, trace, patch, met>>

AddMessage(t, role) ==
    messages' = Append(messages, [turn |-> t, role |-> role, text |-> turn[t].text])

StoreQuestion(t) ==
    /\ turn[t].pc = "asking"
    /\ AddMessage(t, "user")
    /\ Goto(t, "gathering")
    /\ UNCHANGED <<store, policy, titled, token, running, trace, patch, met>>

\* context.gather, then raise_if_cancelled: an error for the stream.
Gathered(t) ==
    /\ turn[t].pc = "gathering"
    /\ IF Cancelled(t) THEN Ends(t, "error") ELSE Goto(t, "reading") /\ UNCHANGED running
    /\ UNCHANGED <<store, policy, titled, messages, token, trace, patch, met>>

\* Variant: a page of the oldest rows, as a listing would take.
Oldest(rows) == SubSeq(rows, 1, IF Len(rows) < Window THEN Len(rows) ELSE Window)

\* store.history(limit): the last rows in memory, the first ones in Postgres.
History(rows) ==
    IF store = "postgres" \/ Len(rows) <= Window
    THEN Oldest(rows)
    ELSE SubSeq(rows, Len(rows) - Window + 1, Len(rows))

\* _build_messages: the question at the end of the prompt.
LastQuestion(rows) ==
    IF rows # <<>> /\ rows[Len(rows)].role = "user" THEN rows[Len(rows)].turn ELSE None

\* The prompt is built, and a stream sends its sources.
ReadHistory(t) ==
    /\ turn[t].pc = "reading"
    /\ turn' = [turn EXCEPT ![t].pc = "calling", ![t].asks = LastQuestion(History(messages))]
    /\ UNCHANGED <<store, policy, titled, messages, token, running, trace, patch, met>>

-----------------------------------------------------------------------------
(* The gateway.                                                            *)

\* _pick_chatter: local providers are registered first.
PickChatter(p) ==
    LET eligible == {n \in Registered : n = "local" \/ p.privacy = "allow_cloud"}
        wanted == IF p.provider = None THEN eligible ELSE eligible \cap {p.provider}
    IN  IF wanted = {} THEN None ELSE IF "local" \in wanted THEN "local" ELSE "cloud"

CallModel(t) ==
    LET chosen == PickChatter(turn[t].policy) IN
    /\ turn[t].pc = "calling"
    /\ IF chosen = None
       THEN Ends(t, "error")
       ELSE /\ turn' = [turn EXCEPT ![t].pc = "generating", ![t].via = chosen,
                                    ![t].asks = None]
            /\ UNCHANGED running
    /\ UNCHANGED <<store, policy, titled, messages, token, trace, patch, met>>

\* A piece that comes with the cancellation still goes out.
Piece(t) ==
    /\ Streamed(t)
    /\ turn[t].pc = "generating"
    /\ turn[t].text < MaxPieces
    /\ turn' = [turn EXCEPT ![t].text = @ + 1]
    /\ UNCHANGED <<store, policy, titled, messages, token, running, trace, patch, met>>

\* _record_chat
Record(t, outcome) == trace' = [trace EXCEPT ![t] = Append(@, outcome)]

ModelEnds(t) ==
    /\ turn[t].pc = "generating"
    /\ Record(t, "completed")
    /\ Goto(t, "storing")
    /\ UNCHANGED <<store, policy, titled, messages, token, running, patch, met>>

ModelFails(t) ==
    /\ turn[t].pc = "generating"
    /\ Record(t, "failed")
    /\ Ends(t, "error")
    /\ UNCHANGED <<store, policy, titled, messages, token, patch, met>>

\* Variant: the interrupted call is recorded, and its text is dropped.
DropPartial(t) ==
    /\ turn[t].pc = "generating"
    /\ Cancelled(t)
    /\ Record(t, "cancelled")
    /\ Ends(t, "cancelled")
    /\ UNCHANGED <<store, policy, titled, messages, token, patch, met>>

\* Variant: nobody looks at the token while the model is silent.
BetweenPieces(t) ==
    /\ turn[t].pc = "generating"
    /\ turn[t].text = MaxPieces
    /\ Cancelled(t)

\* guard and guard_stream race the source with the token.
GuardRaises(t) ==
    /\ turn[t].pc = "generating"
    /\ Cancelled(t)

\* What was generated becomes a message all the same.
Interrupted(t) ==
    /\ GuardRaises(t)
    /\ Record(t, "cancelled")
    /\ Goto(t, "storing")
    /\ UNCHANGED <<store, policy, titled, messages, token, running, patch, met>>

-----------------------------------------------------------------------------
(* _finalize                                                               *)

StoreAnswer(t) ==
    /\ turn[t].pc = "storing"
    /\ AddMessage(t, "assistant")
    /\ Goto(t, IF turn[t].untitled THEN "naming" ELSE "publishing")
    /\ UNCHANGED <<store, policy, titled, token, running, trace, patch, met>>

Name(t) ==
    /\ turn[t].pc = "naming"
    /\ titled' = TRUE
    /\ Goto(t, "publishing")
    /\ UNCHANGED <<store, policy, messages, token, running, trace, patch, met>>

Publish(t) ==
    /\ turn[t].pc = "publishing"
    /\ Ends(t, IF trace[t] = <<"cancelled">> THEN "cancelled" ELSE "done")
    /\ UNCHANGED <<store, policy, titled, messages, token, trace, patch, met>>

PublishFails(t) ==
    /\ turn[t].pc = "publishing"
    /\ Ends(t, "error")
    /\ UNCHANGED <<store, policy, titled, messages, token, trace, patch, met>>

-----------------------------------------------------------------------------
(* Stop buttons and closed connections.                                    *)

\* token.cancel, without the reason it reports.
CancelToken(t) == token' = [token EXCEPT ![t] = IF @ = "live" THEN "cancelled" ELSE @]

\* cancel_generation: the key is the user's own.
CancelGeneration(u) ==
    /\ running[u] # None
    /\ CancelToken(running[u])
    /\ UNCHANGED <<store, policy, titled, messages, turn, running, trace, patch, met>>

\* The client may leave at any moment.  vigiar_desconexao runs while events() does.
WatcherSees(t) ==
    /\ Streamed(t)
    /\ Active(t)
    /\ turn[t].pc # "opened"
    /\ token[t] = "live"
    /\ CancelToken(t)
    /\ UNCHANGED <<store, policy, titled, messages, turn, running, trace, patch, met>>

\* The server may cancel the task of a response nobody reads, at any await;
\* before its first event the body of events() has no finally to run.
Killed(t) ==
    /\ Streamed(t)
    /\ Active(t)
    /\ IF turn[t].pc = "opened" THEN Goto(t, "killed") /\ UNCHANGED running
       ELSE /\ turn' = [turn EXCEPT ![t] = Gone("killed", "nothing")]
            /\ running' = [running EXCEPT ![User(t)] = None]
    /\ UNCHANGED <<store, policy, titled, messages, token, trace, patch, met>>

-----------------------------------------------------------------------------
\* What the code goes on with by itself, once it was asked.
Step(t) ==
    \/ ReadConversation(t) \/ StoreQuestion(t) \/ Gathered(t) \/ ReadHistory(t)
    \/ CallModel(t) \/ Interrupted(t) \/ StoreAnswer(t) \/ Name(t)
    \/ Publish(t) \/ PublishFails(t)

\* What the model does; it need never answer.
Model(t) == Piece(t) \/ ModelEnds(t) \/ ModelFails(t)

Next ==
    \/ \E p \in Patch : ReadPolicy(p) \/ WritePolicy(p)
    \/ \E t \in Turn : \/ \E u \in Users, streamed \in BOOLEAN : Arrive(t, u, streamed)
                       \/ Step(t) \/ Model(t)
                       \/ WatcherSees(t) \/ Killed(t)
    \/ \E u \in Users : CancelGeneration(u)

Spec == Init /\ [][Next]_vars /\ \A t \in Turn : WF_vars(Step(t))

-----------------------------------------------------------------------------
Answers(t) == {i \in 1..Len(messages) : messages[i].turn = t /\ messages[i].role = "assistant"}

\* Where a turn may be: before its question is stored, before its answer is, after.
Unasked == {"idle", "opened", "asking"}
Asked == {"gathering", "reading", "calling", "generating", "storing"}
Answered == {"naming", "publishing"}
Labels == Unasked \cup Asked \cup Answered \cup {"over", "killed"}

Told == {"nothing", "done", "cancelled", "error"}
Held == [pc : Labels, user : Users \cup {None}, policy : Policy, untitled : BOOLEAN,
         asks : Turn \cup {None}, via : Names \cup {None}, text : Nat, told : Told]
Row == [turn : Turn, role : {"user", "assistant"}, text : Nat]
Outcomes == {"completed", "cancelled", "failed"}

TypeOK ==
    /\ store \in Stores
    /\ policy \in Policy
    /\ titled \in BOOLEAN
    /\ messages \in Seq(Row)
    /\ turn \in [Turn -> Held]
    /\ token \in [Turn -> {"none", "live", "cancelled"}]
    /\ running \in [Users -> Turn \cup {None}]
    /\ trace \in [Turn -> Seq(Outcomes)]
    /\ patch \in [Patch -> [pc : {"idle", "writing", "over"}, wanted : Policy]]
    /\ met \in [Turn -> SUBSET Turn]

\* Nothing leaves the machine without the opt-in of the conversation, however
\* PATCHes and turns interleave: no saved policy names a cloud provider under
\* local_only, and no turn is sent to one under a local promise.
NoCloudWithoutConsent ==
    /\ policy.provider = "cloud" => policy.privacy = "allow_cloud"
    /\ \A t \in Turn : Active(t) /\ turn[t].via = "cloud"
                         => turn[t].policy.privacy = "allow_cloud"

\* Interrupting throws nothing away, and nothing is told twice: a turn has at
\* most one answer, after its question and with every piece that went out; it
\* is there before the client hears that the turn is done or cancelled, and
\* the trace holds one record of every call that was not killed.
AnswerKept ==
    \A t \in Turn :
        /\ \A i, j \in Answers(t) : i = j
        /\ \A i \in Answers(t) : /\ Active(t) => messages[i].text = turn[t].text
                                 /\ \E q \in 1..(i - 1) : /\ messages[q].turn = t
                                                          /\ messages[q].role = "user"
        /\ turn[t].told \in {"done", "cancelled"} => Answers(t) # {}
        /\ Len(trace[t]) <= 1
        /\ Active(t) /\ turn[t].via # None /\ turn[t].pc # "generating" => trace[t] # <<>>
        /\ turn[t].pc = "over" /\ trace[t] \in {<<"completed">>, <<"cancelled">>}
             => Answers(t) # {}

\* A turn that had the conversation to itself is asked its own question, over
\* the store in memory however long the conversation has become, and over
\* Postgres as long as the conversation fits the window.
AsksWhatFits ==
    \A t \in Turn :
        turn[t].pc = "calling" /\ met[t] = {} /\ (store = "memory" \/ Len(messages) <= Window)
          => turn[t].asks = t

\* What _build_messages is tested to promise, whatever the store: the prompt of
\* a turn that had the conversation to itself ends with its own question.
AsksItsQuestion ==
    \A t \in Turn : turn[t].pc = "calling" /\ met[t] = {} => turn[t].asks = t

\* The stop button reaches a stream as long as its user opened no other one
\* while it was under way.
StopReaches ==
    \A t \in Turn :
        Active(t) /\ Streamed(t) /\ (\A o \in met[t] : ~Streamed(o)) => running[User(t)] = t

\* A cancelled stream ends without any help of the model's.
StopIsHeard == \A t \in Turn : (Active(t) /\ Cancelled(t)) ~> ~Active(t)
=============================================================================
