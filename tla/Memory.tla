-------------------------------- MODULE Memory --------------------------------
(***************************************************************************)
(* The memories of one user: the skills of modules/memory.py over the      *)
(* store (adapters/memory), the strength of domain/memory.py, and the      *)
(* reflection that learns facts from conversations                         *)
(* (modules/reflection.py).                                                *)
(*                                                                         *)
(* A memory says one fact; two texts whose similarity is above the         *)
(* threshold of the reflection are the same fact.  Importance is counted   *)
(* in boosts and age is fresh or stale.                                    *)
(***************************************************************************)
EXTENDS Naturals, Sequences

CONSTANTS Conversation,
          Call,         \* calls of the skills memory.*
          Id,           \* memories there is room for
          Fact,
          Sensitive,    \* facts that look like a credential
          Says,         \* [Conversation -> [answers so far -> facts in the turn]]
          Already,      \* memories the user may have: sequences of facts with a kind
          Before,       \* answers of each conversation already stored and handled
          Every,        \* every_n_answers
          Window,       \* answers in the history that is analysed
          Horizon,      \* answers in the history that is counted
          Postgres,     \* the history of conversations is Postgres', or in memory
          Base,         \* importance of a new memory
          Full,         \* importance 1.0
          Threshold,    \* ARCHIVE_THRESHOLD, for one that is stale
          Nil

\* Bounds: answers of each conversation, calls, changes of the clock, crashes.
CONSTANTS MaxAnswers, MaxCalls, MaxAges, MaxCrashes

Kinds == {"temporary", "permanent", "episodic"}

ASSUME MemoryAssumption ==
    /\ Sensitive \subseteq Fact
    /\ Already \subseteq Seq([fact : Fact, kind : Kinds])
    /\ Before \in [Conversation -> 0..(Every - 1)] /\ \A c \in Conversation : Before[c] <= MaxAnswers[c]
    /\ \A c \in Conversation : \A n \in 1..MaxAnswers[c] : Says[c][n] \subseteq Fact
    /\ Conversation \cap Call = {}
    /\ Id \subseteq Nat
    /\ Postgres \in BOOLEAN
    /\ Every \in Nat \ {0} /\ Window \in Nat /\ Horizon \in Nat
    /\ Base \in 1..Full /\ Full \in Nat /\ Threshold \in Nat
    /\ Nil \notin Fact /\ Nil \notin Id
    /\ MaxAnswers \in [Conversation -> Nat] /\ MaxCalls \in Nat /\ MaxAges \in Nat /\ MaxCrashes \in Nat

VARIABLES
    mem,        \* [Id -> the row, or NoRow]
    proc,       \* [Call \cup Conversation -> what a call, or a reflection, holds]
    answers,    \* [Conversation -> answers stored]
    events,     \* [Conversation -> MessageAnswered not acknowledged]
    calls, ages, crashes,
    reflected,  \* history: [Conversation -> answers counted by the reflections it began]
    late,       \* history: [Conversation -> answers whose event was handled after the next]
    lost,       \* history: [Conversation -> answers whose event a crash took unhandled]
    doubled,    \* history: facts two writers had a reason to write twice
    clash       \* history: memories two recalls read before either wrote

histories == <<doubled, clash>>
feed == <<answers, events, reflected, late, lost>>
bounds == <<calls, ages, crashes>>
memoryVars == <<mem, proc, feed, bounds, histories>>

Process == Call \cup Conversation

-----------------------------------------------------------------------------
Row(fact, kind, fresh) == [state |-> "live", fact |-> fact, kind |-> kind,
                           importance |-> Base, count |-> 0, fresh |-> fresh]
NoRow == [state |-> "none", fact |-> Nil, kind |-> Nil, importance |-> 0,
          count |-> 0, fresh |-> FALSE]
Nothing == [pc |-> "idle", fact |-> Nil, known |-> FALSE, seen |-> {}, todo |-> {}]

Live == {i \in Id : mem[i].state = "live"}
Of(fact) == {i \in Live : mem[i].fact = fact}
SaidTwice(fact) == \E i, j \in Of(fact) : i # j

MemoryInit ==
    /\ mem \in {[i \in Id |-> IF i \in DOMAIN old THEN Row(old[i].fact, old[i].kind, FALSE) ELSE NoRow] :
                old \in Already}
    /\ proc = [p \in Process |-> Nothing]
    /\ answers = Before
    /\ events = [c \in Conversation |-> 0]
    /\ calls = 0 /\ ages = 0 /\ crashes = 0
    /\ reflected = [c \in Conversation |-> {}] /\ late = [c \in Conversation |-> {}]
    /\ lost = [c \in Conversation |-> {}]
    /\ doubled = {fact \in Fact : SaidTwice(fact)} /\ clash = {}

\* effective_strength: a permanent memory does not decay.
Strength(i) == IF mem[i].fresh \/ mem[i].kind = "permanent" THEN Full ELSE mem[i].importance
\* Variant: a recall adds two boosts.
Doubled(n) == IF n + 1 < Full THEN n + 2 ELSE Full
Boosted(n) == IF n < Full THEN n + 1 ELSE Full

Doing(p, label) == proc[p].pc = label
SetProc(p, fields) == proc' = [proc EXCEPT ![p] = fields]
Goto(p, label) == proc' = [proc EXCEPT ![p].pc = label]

-----------------------------------------------------------------------------
(* The store.                                                              *)

Add(fact, kind) ==
    \E i \in Id :
        /\ mem[i].state = "none"
        /\ \A j \in Id : mem[j].state = "none" => i <= j
        /\ mem' = [mem EXCEPT ![i] = Row(fact, kind, TRUE)]

\* The importance is the caller's; the count is the row's, up to Full here.
\* (Nothing brings an archived row back: what it says is not kept.)
TouchMany(seen) ==
    mem' = [i \in Id |->
        IF i \in Live /\ \E s \in seen : s.id = i
        THEN [mem[i] EXCEPT !.importance = (CHOOSE s \in seen : s.id = i).importance,
                            !.count = IF @ < Full THEN @ + 1 ELSE @, !.fresh = TRUE]
        ELSE mem[i]]

Gone(state) == [NoRow EXCEPT !.state = state]
Archive(i) == mem' = IF i \in Live THEN [mem EXCEPT ![i] = Gone("archived")] ELSE mem
Forget(i) == mem' = [mem EXCEPT ![i] = Gone("forgotten")]

\* expire_temporary: what the clock has let expire.
ExpireTemporary ==
    mem' = [i \in Id |-> IF i \in Live /\ mem[i].kind = "temporary" /\ ~mem[i].fresh
                         THEN Gone("archived") ELSE mem[i]]

-----------------------------------------------------------------------------
Begin(p) ==
    /\ Doing(p, "idle") /\ calls < MaxCalls
    /\ calls' = calls + 1
    /\ UNCHANGED <<feed, ages, crashes>>

(* memory.search: the rows are read, then touched with what was read.      *)

Read(p, found, fields) ==
    /\ clash' = clash \cup {i \in found : \E q \in Process \ {p} : \E s \in proc[q].seen : s.id = i}
    /\ SetProc(p, [fields EXCEPT !.pc = "touch",
                             !.seen = {[id |-> i, importance |-> Boosted(mem[i].importance)] : i \in found}])

\* What the lexical and the vector halves find, fused and limited.
Hits == (SUBSET Live) \ {{}}

Search(p) ==
    /\ Begin(p)
    /\ \E found \in Hits : Read(p, found, Nothing)
    /\ UNCHANGED <<mem, doubled>>

Touch(p) ==
    /\ Doing(p, "touch")
    /\ TouchMany(proc[p].seen)
    /\ IF p \in Call THEN SetProc(p, Nothing)
       ELSE SetProc(p, [proc[p] EXCEPT !.pc = "decide", !.seen = {}])
    /\ UNCHANGED <<feed, bounds, doubled, clash>>

-----------------------------------------------------------------------------
(* memory.remember, memory.forget, memory.consolidate.                     *)

\* Who is between looking for a fact and writing it.
Writers(fact) == {p \in Process : proc[p].fact = fact}
Doubles(p, fact) == IF Of(fact) # {} \/ Writers(fact) \ {p} # {} THEN doubled \cup {fact} ELSE doubled

\* The user's word is not compared with what is known.
Remember(p, fact, kind) ==
    /\ Begin(p)
    /\ Add(fact, kind)
    /\ doubled' = Doubles(p, fact)
    /\ UNCHANGED <<proc, clash>>

ForgetMemory(p, i) ==
    /\ Begin(p) /\ mem[i].state \in {"live", "archived"}
    /\ Forget(i)
    /\ UNCHANGED <<proc, histories>>

Consolidate(p) ==
    /\ Begin(p)
    /\ ExpireTemporary
    /\ Goto(p, "list")
    /\ UNCHANGED <<histories>>

Weak(i) == Strength(i) < Threshold

ListWeak(p) ==
    /\ Doing(p, "list")
    /\ SetProc(p, [Nothing EXCEPT !.pc = "archive", !.todo = {i \in Live : Weak(i)}])
    /\ UNCHANGED <<mem, feed, bounds, doubled, clash>>

\* A row that is gone by then is left alone.
ArchiveOne(p, i) ==
    /\ Doing(p, "archive") /\ i \in proc[p].todo
    /\ Archive(i)
    /\ SetProc(p, [proc[p] EXCEPT !.todo = @ \ {i}])
    /\ UNCHANGED <<feed, bounds, histories>>

Consolidated(p) ==
    /\ Doing(p, "archive") /\ proc[p].todo = {}
    /\ SetProc(p, Nothing)
    /\ UNCHANGED <<mem, feed, bounds, histories>>

-----------------------------------------------------------------------------
(* The reflection: _on_message_answered, one event of a conversation at a   *)
(* time, and _reflect.                                                     *)

\* The number of the answer whose event is the first not acknowledged.
Number(c) == answers[c] - events[c] + 1
Acknowledge(c) == events' = [events EXCEPT ![c] = @ - 1]

Answer(c) ==
    /\ answers[c] < MaxAnswers[c]
    /\ answers' = [answers EXCEPT ![c] = @ + 1]
    /\ events' = [events EXCEPT ![c] = @ + 1]
    /\ UNCHANGED <<mem, proc, reflected, late, lost, bounds, histories>>

Due(n) == n % Every = 0
\* The answers are counted when the event is handled, in a history of limited
\* length: either store returns no more of them than the horizon.
InSight(c) == IF answers[c] < Horizon THEN answers[c] ELSE Horizon
\* Variant: a reflection every so many answers after the first.
AfterFirst(c) == InSight(c) > 1 /\ Due(InSight(c) - 1)
IsTime(c) == Due(InSight(c))

HandleAnswered(c) ==
    /\ Doing(c, "idle") /\ events[c] > 0
    /\ late' = [late EXCEPT ![c] = IF Due(Number(c)) /\ Number(c) # answers[c] THEN @ \cup {Number(c)} ELSE @]
    /\ IF IsTime(c)
       THEN /\ reflected' = [reflected EXCEPT ![c] = @ \cup {answers[c]}]
            /\ Goto(c, "reflect") /\ UNCHANGED events
       ELSE Acknowledge(c) /\ UNCHANGED <<proc, reflected>>
    /\ UNCHANGED <<mem, answers, lost, bounds, histories>>

\* The turns of the history: Postgres orders and limits it from the oldest.
Turns(c) == IF Postgres THEN {n \in 1..answers[c] : n <= Window}
            ELSE {n \in 1..answers[c] : n + Window > answers[c]}

\* What the model may answer, without what looks like a credential.
Sayings(c) == SUBSET ((UNION {Says[c][n] : n \in Turns(c)}) \ Sensitive)

Extract(c) ==
    /\ Doing(c, "reflect")
    /\ \E facts \in Sayings(c) : SetProc(c, [Nothing EXCEPT !.pc = "next", !.todo = facts])
    /\ UNCHANGED <<mem, feed, bounds, histories>>

\* The first hit by score: of the fact, or of another that is stronger.
Tops(fact) == {i \in Live : mem[i].fact = fact \/ \A j \in Of(fact) : Strength(i) > Strength(j)}

\* _ja_sabemos: memory.search of the candidate, limited to one hit.
Look(c, fact) ==
    /\ Doing(c, "next") /\ fact \in proc[c].todo
    /\ \/ \E i \in Tops(fact) :
            /\ Read(c, {i}, [proc[c] EXCEPT !.fact = fact, !.known = mem[i].fact = fact])
            /\ doubled' = IF mem[i].fact = fact THEN doubled ELSE Doubles(c, fact)
       \* nothing above _MIN_SIMILARITY
       \/ /\ Of(fact) = {}
          /\ SetProc(c, [proc[c] EXCEPT !.fact = fact, !.known = FALSE, !.pc = "decide"])
          /\ doubled' = Doubles(c, fact) /\ UNCHANGED clash
    /\ UNCHANGED <<mem, feed, bounds>>

\* A search that fails does not keep the fact from being remembered.
LookFails(c, fact) ==
    /\ Doing(c, "next") /\ fact \in proc[c].todo
    /\ SetProc(c, [proc[c] EXCEPT !.fact = fact, !.known = FALSE, !.pc = "decide"])
    /\ doubled' = Doubles(c, fact)
    /\ UNCHANGED <<mem, feed, bounds, clash>>

Decided(c) == [proc[c] EXCEPT !.pc = "next", !.fact = Nil, !.known = FALSE, !.todo = @ \ {proc[c].fact}]

\* Variant: the candidate is remembered whatever is known.
LearnAnyway(c) ==
    /\ Doing(c, "decide")
    /\ Add(proc[c].fact, "episodic")
    /\ SetProc(c, Decided(c))
    /\ UNCHANGED <<feed, bounds, histories>>

Learn(c) ==
    /\ Doing(c, "decide")
    /\ IF proc[c].known THEN UNCHANGED mem ELSE Add(proc[c].fact, "episodic")
    /\ SetProc(c, Decided(c))
    /\ UNCHANGED <<feed, bounds, histories>>

\* ReflectionCompleted, or an exception: either way the event is acknowledged.
Reflected(c) ==
    /\ Doing(c, "next") /\ proc[c].todo = {}
    /\ SetProc(c, Nothing)
    /\ Acknowledge(c)
    /\ UNCHANGED <<mem, answers, reflected, late, lost, bounds, histories>>

ReflectionFails(c) ==
    /\ ~Doing(c, "idle")
    /\ SetProc(c, Nothing)
    /\ Acknowledge(c)
    /\ UNCHANGED <<mem, answers, reflected, late, lost, bounds, histories>>

-----------------------------------------------------------------------------
Age ==
    /\ ages < MaxAges
    /\ ages' = ages + 1
    /\ mem' = [i \in Id |-> [mem[i] EXCEPT !.fresh = FALSE]]
    /\ UNCHANGED <<proc, feed, calls, crashes, histories>>

\* Of the events not acknowledged, those that survive.  The bus in memory
\* keeps none.  Redis keeps those no handler has begun; one that was begun,
\* and perhaps had not counted yet, is acknowledged unhandled when it comes back.
Survivors ==
    {[c \in Conversation |-> 0]} \cup
    {kept \in [Conversation -> UNION {0..events[c] : c \in Conversation}] :
        \A c \in Conversation : \/ kept[c] = events[c] /\ Doing(c, "idle")
                                \/ events[c] > 0 /\ kept[c] = events[c] - 1}

Crash ==
    /\ crashes < MaxCrashes
    /\ crashes' = crashes + 1
    /\ proc' = [p \in Process |-> Nothing]
    /\ \E kept \in Survivors :
        /\ events' = kept
        /\ lost' = [c \in Conversation |->
                lost[c] \cup {n \in 1..(answers[c] - kept[c]) :
                              n > Number(c) \/ (n = Number(c) /\ Doing(c, "idle"))}]
    /\ UNCHANGED <<mem, answers, reflected, late, calls, ages, histories>>

MemoryNext == \/ \E p \in Call : \/ Search(p) \/ Consolidate(p) \/ ListWeak(p) \/ Consolidated(p)
                           \/ \E fact \in Fact, kind \in {"temporary", "permanent"} : Remember(p, fact, kind)
                           \/ \E i \in Id : ForgetMemory(p, i) \/ ArchiveOne(p, i)
        \/ \E p \in Process : Touch(p)
        \/ \E c \in Conversation : \/ Answer(c) \/ HandleAnswered(c) \/ Extract(c) \/ Learn(c)
                                   \/ Reflected(c) \/ ReflectionFails(c)
                                   \/ \E fact \in Fact : Look(c, fact) \/ LookFails(c, fact)
        \/ Age
        \/ Crash

MemorySpec == MemoryInit /\ [][MemoryNext]_memoryVars

-----------------------------------------------------------------------------
(* Types.                                                                  *)
Rows == [state : {"none", "live", "archived", "forgotten"}, fact : Fact \cup {Nil},
         kind : Kinds \cup {Nil}, importance : Nat, count : Nat, fresh : BOOLEAN]
Processes == [pc : {"idle", "touch", "list", "archive", "reflect", "next", "decide"}, fact : Fact \cup {Nil},
              known : BOOLEAN, seen : SUBSET [id : Id, importance : Nat], todo : SUBSET (Fact \cup Id)]

MemoryTypeOK ==
    /\ mem \in [Id -> Rows] /\ proc \in [Process -> Processes]
    /\ answers \in [Conversation -> Nat] /\ \A c \in Conversation : answers[c] <= MaxAnswers[c]
    /\ events \in [Conversation -> Nat]
    /\ reflected \in [Conversation -> SUBSET Nat] /\ late \in [Conversation -> SUBSET Nat]
    /\ lost \in [Conversation -> SUBSET Nat]
    /\ calls \in 0..MaxCalls /\ ages \in 0..MaxAges /\ crashes \in 0..MaxCrashes
    /\ doubled \subseteq Fact /\ clash \subseteq Id

\* A fact is remembered once, over reflections that run at once, or later
\* over turns an earlier one has read or a crash cut short, except where two writers could not see each other, the
\* search failed, a stronger memory hid the one that was there, or the user
\* said it again (reflection.py:286-307).
OneMemoryPerFact == \A fact \in Fact \ doubled : ~SaidTwice(fact)

\* The importance of a memory is what it began with and its recalls, unless
\* two recalls read it before either wrote (memory.py:293-298).
ImportanceEarned ==
    \A i \in Live \ clash :
        mem[i].importance = IF Base + mem[i].count < Full THEN Base + mem[i].count ELSE Full

\* Every answer that is due, within the history that is counted, begins its
\* reflection, unless its event was handled after the next answer was stored
\* or a crash took it (reflection.py:160-188).
EveryNth ==
    \A c \in Conversation : \A n \in 1..answers[c] :
        Due(n) /\ n <= Horizon /\ n < Number(c) => n \in reflected[c] \cup late[c] \cup lost[c]
==============================================================================
