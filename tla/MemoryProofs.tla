----------------------------- MODULE MemoryProofs -----------------------------
(***************************************************************************)
(* Proofs about the memories of module Memory: its type correctness, that  *)
(* every answer that is due is reflected on, that the importance of a      *)
(* memory is what its recalls earned, and that a fact is learned once.     *)
(*                                                                         *)
(* Each has its invariant over what a call or a reflection holds between   *)
(* a read and the write that follows it.                                   *)
(***************************************************************************)
EXTENDS Memory, SequenceTheorems, TLAPS

\* What a process holds at each place.
Holding ==
    /\ \A p \in Process : proc[p].pc # "touch" => proc[p].seen = {}
    /\ \A p \in Call : proc[p].fact = Nil
    /\ \A c \in Conversation :
         /\ proc[c].fact # Nil <=> proc[c].pc \in {"touch", "decide"}
         /\ proc[c].pc # "idle" => events[c] > 0
         /\ events[c] <= answers[c]

\* The event of a reflection that runs is counted before it is acknowledged.
Counted ==
    \A c \in Conversation :
        proc[c].pc # "idle" /\ Due(Number(c)) /\ Number(c) <= Horizon =>
            Number(c) \in reflected[c] \cup late[c]
EveryInv == EveryNth /\ Counted

Earned(count) == IF Base + count < Full THEN Base + count ELSE Full

\* Of a memory that no two recalls read at once, the one that has read it
\* writes what it earned.
OneReader ==
    \A i \in Id \ clash :
        \A p, q \in Process : \A s \in proc[p].seen, t \in proc[q].seen :
            s.id = i /\ t.id = i => p = q /\ s = t
ReadIsCurrent ==
    \A i \in Id \ clash : \A p \in Process : \A s \in proc[p].seen :
        s.id = i => mem[i].state # "none" /\ (i \in Live => s.importance = Boosted(mem[i].importance))
EarnedInv == ImportanceEarned /\ OneReader /\ ReadIsCurrent

\* Who is about to write a fact nobody else writes did not find it.
OneWriter ==
    \A fact \in Fact \ doubled : \A p \in Process :
        proc[p].fact = fact /\ ~proc[p].known => Writers(fact) = {p} /\ Of(fact) = {}
OnceInv == OneMemoryPerFact /\ OneWriter

-----------------------------------------------------------------------------
(* Type correctness.                                                       *)

LEMMA Numbers == Base \in Nat /\ Full \in Nat /\ Base >= 1 /\ Base <= Full /\ Every \in Nat \ {0}
BY MemoryAssumption

LEMMA NoRowIsRow == NoRow \in Rows /\ NoRow.state = "none" /\ \A state \in {"archived", "forgotten"} : Gone(state) \in Rows
<1>1. NoRow \in Rows
  BY DEF NoRow, Rows
<1>2. NoRow.state = "none"
  BY DEF NoRow
<1>3. ASSUME NEW state \in {"archived", "forgotten"} PROVE Gone(state) \in Rows
  BY <1>1 DEF Gone, Rows
<1> QED
  BY <1>1, <1>2, <1>3

LEMMA RowIsRow == ASSUME NEW fact \in Fact, NEW kind \in Kinds, NEW fresh \in BOOLEAN PROVE Row(fact, kind, fresh) \in Rows
BY Numbers DEF Row, Rows

LEMMA NothingTyped == Nothing \in Processes /\ Nothing.pc = "idle" /\ Nothing.fact = Nil /\ Nothing.seen = {}
<1>1. Nothing \in Processes
  BY DEF Nothing, Processes
<1> QED
  BY <1>1 DEF Nothing

LEMMA TypeInit == MemoryInit => MemoryTypeOK
<1> SUFFICES ASSUME MemoryInit PROVE MemoryTypeOK
  OBVIOUS
<1>1. mem \in [Id -> Rows]
  <2>1. PICK old \in Already : mem = [i \in Id |-> IF i \in DOMAIN old THEN Row(old[i].fact, old[i].kind, FALSE) ELSE NoRow]
    BY DEF MemoryInit
  <2>2. ASSUME NEW i \in Id, i \in DOMAIN old PROVE Row(old[i].fact, old[i].kind, FALSE) \in Rows
    <3>1. old \in Seq([fact : Fact, kind : Kinds])
      BY MemoryAssumption
    <3>2. old[i] \in [fact : Fact, kind : Kinds]
      BY <2>2, <3>1, ElementOfSeq, LenProperties
    <3>3. old[i].fact \in Fact /\ old[i].kind \in Kinds
      BY <3>2
    <3> QED
      BY <3>3, RowIsRow
  <2> QED
    BY <2>1, <2>2, NoRowIsRow
<1>2. proc \in [Process -> Processes]
  BY NothingTyped DEF MemoryInit
<1>3. answers \in [Conversation -> Nat] /\ events \in [Conversation -> Nat]
  BY MemoryAssumption DEF MemoryInit
<1>7. \A c \in Conversation : answers[c] <= MaxAnswers[c]
  BY MemoryAssumption DEF MemoryInit
<1>4. /\ reflected \in [Conversation -> SUBSET Nat] /\ late \in [Conversation -> SUBSET Nat]
      /\ lost \in [Conversation -> SUBSET Nat]
  BY DEF MemoryInit
<1>5. calls \in 0..MaxCalls /\ ages \in 0..MaxAges /\ crashes \in 0..MaxCrashes
  BY MemoryAssumption DEF MemoryInit
<1>6. doubled \subseteq Fact /\ clash \subseteq Id
  BY DEF MemoryInit
<1> QED
  BY <1>1, <1>2, <1>3, <1>4, <1>5, <1>6, <1>7 DEF MemoryTypeOK

\* One process moves, the others do not.
Others(p) == \A q \in Process : q # p => proc'[q] = proc[q]

LEMMA SetEffect ==
    ASSUME MemoryTypeOK, NEW p \in Process, NEW e \in Processes, SetProc(p, e)
    PROVE  proc' \in [Process -> Processes] /\ proc'[p] = e /\ Others(p)
BY DEF MemoryTypeOK, SetProc, Others

LEMMA GotoEffect ==
    ASSUME MemoryTypeOK, NEW p \in Process, NEW label \in {"list", "reflect"}, Goto(p, label)
    PROVE  /\ proc' \in [Process -> Processes] /\ Others(p)
           /\ proc'[p].pc = label /\ proc'[p].fact = proc[p].fact /\ proc'[p].known = proc[p].known
           /\ proc'[p].seen = proc[p].seen
<1> DEFINE e == [proc[p] EXCEPT !.pc = label]
<1>1. proc[p] \in Processes
  BY DEF MemoryTypeOK
<1>2. e \in Processes /\ e.pc = label /\ e.fact = proc[p].fact /\ e.known = proc[p].known /\ e.seen = proc[p].seen
  BY <1>1 DEF Processes
<1>3. SetProc(p, e)
  BY DEF Goto, SetProc
<1> HIDE DEF e
<1> QED
  BY <1>2, <1>3, SetEffect

\* What a read hands to the write that follows it.
SeenOf(found) == {[id |-> i, importance |-> Boosted(mem[i].importance)] : i \in found}

LEMMA ReadEffect ==
    ASSUME MemoryTypeOK, NEW p \in Process, NEW found \in SUBSET Id, NEW fields \in Processes, Read(p, found, fields)
    PROVE  /\ proc' \in [Process -> Processes] /\ Others(p)
           /\ proc'[p].pc = "touch" /\ proc'[p].fact = fields.fact /\ proc'[p].known = fields.known
           /\ proc'[p].seen = SeenOf(found)
           /\ clash' \subseteq Id
<1> DEFINE e == [fields EXCEPT !.pc = "touch", !.seen = SeenOf(found)]
<1>1. ASSUME NEW i \in Id PROVE Boosted(mem[i].importance) \in Nat
  BY Numbers DEF MemoryTypeOK, Rows, Boosted
<1>2. SeenOf(found) \in SUBSET [id : Id, importance : Nat]
  BY <1>1 DEF SeenOf
<1>3. /\ e \in Processes /\ e.pc = "touch" /\ e.fact = fields.fact /\ e.known = fields.known
      /\ e.seen = SeenOf(found)
  BY <1>2 DEF Processes
<1>4. SetProc(p, e)
  BY DEF Read, SeenOf
<1>5. clash' \subseteq Id
  BY DEF Read, MemoryTypeOK
<1> HIDE DEF e
<1> QED
  BY <1>3, <1>4, <1>5, SetEffect

-----------------------------------------------------------------------------
(* What the actions make of the memories and of the processes.             *)

\* A memory stays what it says, or is gone.
Same(i) == /\ mem'[i].state = mem[i].state /\ mem'[i].fact = mem[i].fact
           /\ mem'[i].importance = mem[i].importance /\ mem'[i].count = mem[i].count
Shrinks ==
    /\ mem' \in [Id -> Rows]
    /\ \A i \in Id : Same(i) \/ (mem[i].state # "none" /\ mem'[i].state \in {"archived", "forgotten"})

\* A process drops what it holds, or part of it.
Frees ==
    /\ proc' \in [Process -> Processes]
    /\ \A p \in Process :
         /\ proc'[p].seen \subseteq proc[p].seen
         /\ proc'[p].fact = Nil \/ (proc'[p].fact = proc[p].fact /\ proc'[p].known = proc[p].known)

Quiet == Shrinks /\ Frees /\ UNCHANGED <<doubled, clash>>

LEMMA SameMem == ASSUME MemoryTypeOK, mem' = mem PROVE Shrinks
BY DEF MemoryTypeOK, Shrinks, Same

LEMMA SameProc == ASSUME MemoryTypeOK, proc' = proc PROVE Frees
BY DEF MemoryTypeOK, Frees

LEMMA GoneShrinks ==
    ASSUME MemoryTypeOK, NEW state \in {"archived", "forgotten"}, NEW G \in SUBSET Id, \A i \in G : mem[i].state # "none",
           mem' = [i \in Id |-> IF i \in G THEN Gone(state) ELSE mem[i]]
    PROVE  Shrinks
<1>1. Gone(state) \in Rows /\ Gone(state).state = state
  BY NoRowIsRow DEF Gone, NoRow
<1> QED
  BY <1>1 DEF MemoryTypeOK, Shrinks, Same

LEMMA GoneOne ==
    ASSUME MemoryTypeOK, NEW state \in {"archived", "forgotten"}, NEW i \in Id, mem[i].state # "none",
           mem' = [mem EXCEPT ![i] = Gone(state)]
    PROVE  Shrinks
<1>1. Gone(state) \in Rows /\ Gone(state).state = state
  BY NoRowIsRow DEF Gone, NoRow
<1> QED
  BY <1>1 DEF MemoryTypeOK, Shrinks, Same

LEMMA ArchiveShrinks == ASSUME MemoryTypeOK, NEW i \in Id, Archive(i) PROVE Shrinks
<1>1. CASE i \in Live
  BY <1>1, GoneOne DEF Archive, Live
<1>2. CASE i \notin Live
  BY <1>2, SameMem DEF Archive
<1> QED
  BY <1>1, <1>2

LEMMA FreeOne ==
    ASSUME MemoryTypeOK, NEW p \in Process, proc' \in [Process -> Processes], Others(p), proc'[p].seen \subseteq proc[p].seen,
           \/ proc'[p].fact = proc[p].fact /\ proc'[p].known = proc[p].known
           \/ proc'[p].fact = Nil
    PROVE  Frees
BY DEF Others, Frees

LEMMA LeaveFrees ==
    ASSUME MemoryTypeOK, NEW p \in Process, NEW e \in Processes, SetProc(p, e), e.seen = {}, e.fact = Nil
    PROVE  Frees /\ proc'[p] = e /\ Others(p)
BY SetEffect, FreeOne

LEMMA AgeQuiet == ASSUME MemoryTypeOK, Age PROVE Quiet
<1>1. \A i \in Id : mem[i] \in Rows /\ mem'[i] = [mem[i] EXCEPT !.fresh = FALSE]
  BY DEF MemoryTypeOK, Age
<1>2. ASSUME NEW i \in Id
      PROVE  /\ mem'[i] \in Rows /\ mem'[i].state = mem[i].state /\ mem'[i].fact = mem[i].fact
             /\ mem'[i].importance = mem[i].importance /\ mem'[i].count = mem[i].count
  BY <1>1 DEF Rows
<1>3. Shrinks
  BY <1>2 DEF Age, Shrinks, Same
<1>4. proc' = proc /\ UNCHANGED <<doubled, clash>>
  BY DEF Age, histories
<1> QED
  BY <1>3, <1>4, SameProc DEF Quiet

LEMMA CrashQuiet == ASSUME MemoryTypeOK, Crash PROVE Quiet
<1>1. Frees
  BY NothingTyped DEF Crash, Frees
<1> QED
  BY <1>1, SameMem DEF Quiet, Crash, histories

\* The steps of a consolidation, and the user's forgetting.
Tidies(p) == \/ Consolidate(p) \/ ListWeak(p) \/ Consolidated(p)
             \/ \E i \in Id : ForgetMemory(p, i) \/ ArchiveOne(p, i)

LEMMA TidiesQuiet == ASSUME MemoryTypeOK, NEW p \in Call, Tidies(p) PROVE Quiet /\ UNCHANGED feed
<1>0. p \in Process /\ proc[p] \in Processes
  BY DEF Process, MemoryTypeOK
<1>1. CASE Consolidate(p)
  <2>1. Shrinks
    <3> DEFINE G == {i \in Live : mem[i].kind = "temporary" /\ ~mem[i].fresh}
    <3>1. mem' = [i \in Id |-> IF i \in G THEN Gone("archived") ELSE mem[i]]
      BY <1>1 DEF Consolidate, ExpireTemporary, Live
    <3>2. G \in SUBSET Id /\ \A i \in G : mem[i].state # "none"
      BY DEF Live
    <3> HIDE DEF G
    <3> QED
      BY <3>1, <3>2, GoneShrinks
  <2>2. Frees
    <3>1. Goto(p, "list")
      BY <1>1 DEF Consolidate
    <3> QED
      BY <1>0, <3>1, GotoEffect, FreeOne
  <2> QED
    BY <1>1, <2>1, <2>2 DEF Quiet, Consolidate, Begin, histories
<1>2. CASE ListWeak(p)
  <2> DEFINE e == [Nothing EXCEPT !.pc = "archive", !.todo = {i \in Live : Weak(i)}]
  <2>1. e \in Processes /\ e.seen = {} /\ e.fact = Nil
    BY NothingTyped DEF Processes, Live
  <2>2. SetProc(p, e)
    BY <1>2 DEF ListWeak
  <2> HIDE DEF e
  <2>3. Frees
    BY <1>0, <2>1, <2>2, LeaveFrees
  <2> QED
    BY <1>2, <2>3, SameMem DEF Quiet, ListWeak
<1>3. CASE Consolidated(p)
  <2>1. Frees
    BY <1>0, <1>3, NothingTyped, LeaveFrees DEF Consolidated
  <2> QED
    BY <1>3, <2>1, SameMem DEF Quiet, Consolidated, histories
<1>4. ASSUME NEW i \in Id, ForgetMemory(p, i) PROVE Quiet /\ UNCHANGED feed
  <2>1. mem' = [mem EXCEPT ![i] = Gone("forgotten")] /\ mem[i].state # "none"
    BY <1>4 DEF ForgetMemory, Forget
  <2>2. Shrinks
    BY <2>1, GoneOne
  <2> QED
    BY <1>4, <2>2, SameProc DEF Quiet, ForgetMemory, Begin, histories
<1>5. ASSUME NEW i \in Id, ArchiveOne(p, i) PROVE Quiet /\ UNCHANGED feed
  <2> DEFINE e == [proc[p] EXCEPT !.todo = @ \ {i}]
  <2>1. e \in Processes /\ e.seen = proc[p].seen /\ e.fact = proc[p].fact /\ e.known = proc[p].known
    BY <1>0 DEF Processes
  <2>2. SetProc(p, e)
    BY <1>5 DEF ArchiveOne
  <2> HIDE DEF e
  <2>3. Frees
    BY <1>0, <2>1, <2>2, SetEffect, FreeOne
  <2> QED
    BY <1>5, <2>3, ArchiveShrinks DEF Quiet, ArchiveOne, histories
<1> QED
  BY <1>1, <1>2, <1>3, <1>4, <1>5 DEF Tidies

LEMMA CountsType == ASSUME MemoryTypeOK, NEW c \in Conversation PROVE answers[c] \in Nat /\ events[c] \in Nat
BY DEF MemoryTypeOK

LEMMA AnswerQuiet == ASSUME MemoryTypeOK, NEW c \in Conversation, Answer(c) PROVE Quiet
BY SameMem, SameProc DEF Quiet, Answer, histories

LEMMA HandleQuiet == ASSUME MemoryTypeOK, NEW c \in Conversation, HandleAnswered(c) PROVE Quiet
<1>0. c \in Process
  BY DEF Process
<1>1. mem' = mem /\ UNCHANGED <<doubled, clash>>
  BY DEF HandleAnswered, histories
<1>2. CASE Goto(c, "reflect")
  <2>1. Frees
    BY <1>0, <1>2, GotoEffect, FreeOne
  <2> QED
    BY <1>1, <2>1, SameMem DEF Quiet
<1>3. CASE proc' = proc
  BY <1>1, <1>3, SameMem, SameProc DEF Quiet
<1> QED
  BY <1>2, <1>3 DEF HandleAnswered

LEMMA SayingsAreFacts == ASSUME MemoryTypeOK, NEW c \in Conversation PROVE Sayings(c) \subseteq SUBSET Fact
<1>1. ASSUME NEW n \in Turns(c) PROVE Says[c][n] \subseteq Fact
  <2>1. answers[c] \in Nat /\ answers[c] <= MaxAnswers[c] /\ MaxAnswers[c] \in Nat
    BY MemoryAssumption DEF MemoryTypeOK
  <2>2. n \in 1..answers[c]
    BY <1>1 DEF Turns
  <2>3. n \in 1..MaxAnswers[c]
    BY <2>1, <2>2
  <2> QED
    BY <2>3, MemoryAssumption
<1> QED
  BY <1>1 DEF Sayings

\* The steps of a reflection that drop what it holds.
Drops(c) == Extract(c) \/ Reflected(c) \/ ReflectionFails(c)

LEMMA DropsQuiet ==
    ASSUME MemoryTypeOK, NEW c \in Conversation, Drops(c)
    PROVE  /\ Quiet /\ Others(c) /\ UNCHANGED <<answers, reflected, late, lost>>
           /\ \/ proc'[c].pc = "idle" /\ Acknowledge(c) /\ proc[c].pc # "idle"
              \/ proc'[c].pc = "next" /\ events' = events /\ proc[c].pc # "idle"
           /\ proc'[c].fact = Nil /\ proc'[c].seen = {}
<1>0. c \in Process
  BY DEF Process
<1>1. mem' = mem /\ UNCHANGED <<doubled, clash, answers, reflected, late, lost>>
  BY DEF Drops, Extract, Reflected, ReflectionFails, histories, feed
<1>2. CASE Extract(c)
  <2>1. PICK facts \in Sayings(c) : SetProc(c, [Nothing EXCEPT !.pc = "next", !.todo = facts])
    BY <1>2 DEF Extract
  <2> DEFINE e == [Nothing EXCEPT !.pc = "next", !.todo = facts]
  <2>2. e \in Processes /\ e.seen = {} /\ e.fact = Nil /\ e.pc = "next"
    <3>1. facts \in SUBSET (Fact \cup Id)
      BY SayingsAreFacts
    <3> QED
      BY <3>1, NothingTyped DEF Processes
  <2>3. SetProc(c, e)
    BY <2>1
  <2> HIDE DEF e
  <2>4. Frees /\ proc'[c] = e /\ Others(c)
    BY <1>0, <2>2, <2>3, LeaveFrees
  <2> QED
    BY <1>1, <1>2, <2>2, <2>4, SameMem DEF Quiet, Extract, Doing, feed
<1>3. CASE Reflected(c) \/ ReflectionFails(c)
  <2>1. SetProc(c, Nothing) /\ Acknowledge(c) /\ proc[c].pc # "idle"
    BY <1>3 DEF Reflected, ReflectionFails, Doing
  <2>2. Frees /\ proc'[c] = Nothing /\ Others(c)
    BY <1>0, <2>1, NothingTyped, LeaveFrees
  <2> QED
    BY <1>1, <2>1, <2>2, NothingTyped, SameMem DEF Quiet
<1> QED
  BY <1>2, <1>3 DEF Drops

\* A memory that was not there is.
Adds(fact, i) ==
    /\ mem' \in [Id -> Rows] /\ mem[i].state = "none"
    /\ mem'[i].state = "live" /\ mem'[i].fact = fact /\ mem'[i].importance = Base /\ mem'[i].count = 0
    /\ \A j \in Id : j # i => mem'[j] = mem[j]

LEMMA AddEffect ==
    ASSUME MemoryTypeOK, NEW fact \in Fact, NEW kind \in Kinds, Add(fact, kind)
    PROVE  \E i \in Id : Adds(fact, i)
<1>1. PICK i \in Id : mem[i].state = "none" /\ mem' = [mem EXCEPT ![i] = Row(fact, kind, TRUE)]
  BY DEF Add
<1> DEFINE row == Row(fact, kind, TRUE)
<1>2. row \in Rows /\ row.state = "live" /\ row.fact = fact /\ row.importance = Base /\ row.count = 0
  BY RowIsRow DEF Row
<1> HIDE DEF row
<1>3. Adds(fact, i)
  BY <1>1, <1>2 DEF Adds, MemoryTypeOK, row
<1> QED
  BY <1>3

\* A process reads some memories, none when its search finds none.
Reads(p, found) ==
    /\ mem' = mem /\ proc' \in [Process -> Processes] /\ Others(p)
    /\ proc[p].seen = {} /\ proc'[p].seen = SeenOf(found)
    /\ clash' = clash \cup {i \in found : \E q \in Process \ {p} : \E s \in proc[q].seen : s.id = i}

LEMMA SearchReads ==
    ASSUME MemoryTypeOK, Holding, NEW p \in Call, Search(p)
    PROVE  /\ \E found \in SUBSET Live : Reads(p, found)
           /\ proc'[p].fact = Nil /\ UNCHANGED <<feed, doubled>>
<1>0. p \in Process /\ proc[p].pc = "idle"
  BY DEF Process, Search, Begin, Doing
<1>1. PICK found \in SUBSET Live : Read(p, found, Nothing)
  BY DEF Search, Hits
<1>2. found \in SUBSET Id
  BY DEF Live
<1>3. /\ proc' \in [Process -> Processes] /\ Others(p)
      /\ proc'[p].pc = "touch" /\ proc'[p].fact = Nil /\ proc'[p].seen = SeenOf(found)
  BY <1>0, <1>1, <1>2, NothingTyped, ReadEffect
<1>4. Reads(p, found)
  BY <1>0, <1>1, <1>3 DEF Reads, Read, Holding, Search
<1> QED
  BY <1>3, <1>4 DEF Search, Begin

Looks(c) == \E fact \in Fact : Look(c, fact) \/ LookFails(c, fact)

LEMMA LooksReads ==
    ASSUME MemoryTypeOK, Holding, NEW c \in Conversation, Looks(c)
    PROVE  \E fact \in Fact :
              /\ \E found \in SUBSET Live : Reads(c, found)
              /\ proc'[c].fact = fact /\ proc'[c].pc \in {"touch", "decide"} /\ (proc'[c].pc # "touch" => proc'[c].seen = {})
              /\ proc[c].pc = "next" /\ UNCHANGED feed
              /\ IF proc'[c].known THEN doubled' = doubled /\ Of(fact) # {} ELSE doubled' = Doubles(c, fact)
<1>0. c \in Process /\ proc[c] \in Processes
  BY DEF Process, MemoryTypeOK
<1>1. PICK fact \in Fact : Look(c, fact) \/ LookFails(c, fact)
  BY DEF Looks
<1>2. /\ proc[c].pc = "next" /\ UNCHANGED <<mem, feed>> /\ proc[c].seen = {}
  BY <1>0, <1>1 DEF Look, LookFails, Doing, Holding
<1> DEFINE miss == [proc[c] EXCEPT !.fact = fact, !.known = FALSE, !.pc = "decide"]
<1>3. /\ miss \in Processes /\ miss.fact = fact /\ miss.known = FALSE /\ miss.pc = "decide" /\ miss.seen = {}
  BY <1>0, <1>2 DEF Processes
<1>4. CASE SetProc(c, miss) /\ doubled' = Doubles(c, fact) /\ UNCHANGED clash
  <2> HIDE DEF miss
  <2>1. proc' \in [Process -> Processes] /\ proc'[c] = miss /\ Others(c)
    BY <1>0, <1>3, <1>4, SetEffect
  <2>2. SeenOf({}) = {} /\ {} \in SUBSET Live
    BY DEF SeenOf
  <2>3. Reads(c, {})
    BY <1>2, <1>3, <1>4, <2>1, <2>2 DEF Reads
  <2> QED
    BY <1>2, <1>3, <1>4, <2>1, <2>2, <2>3
<1>5. CASE \E i \in Tops(fact) :
             /\ Read(c, {i}, [proc[c] EXCEPT !.fact = fact, !.known = mem[i].fact = fact])
             /\ doubled' = IF mem[i].fact = fact THEN doubled ELSE Doubles(c, fact)
  <2>1. PICK i \in Tops(fact) :
             /\ Read(c, {i}, [proc[c] EXCEPT !.fact = fact, !.known = mem[i].fact = fact])
             /\ doubled' = IF mem[i].fact = fact THEN doubled ELSE Doubles(c, fact)
    BY <1>5
  <2> DEFINE hit == [proc[c] EXCEPT !.fact = fact, !.known = mem[i].fact = fact]
  <2>2. i \in Live /\ {i} \in SUBSET Live /\ {i} \in SUBSET Id
    BY DEF Tops, Live
  <2>3. hit \in Processes /\ hit.fact = fact /\ hit.known = (mem[i].fact = fact)
    BY <1>0 DEF Processes
  <2>4. Read(c, {i}, hit)
    BY <2>1
  <2> HIDE DEF hit
  <2>5. /\ proc' \in [Process -> Processes] /\ Others(c)
        /\ proc'[c].pc = "touch" /\ proc'[c].fact = fact /\ proc'[c].known = (mem[i].fact = fact)
        /\ proc'[c].seen = SeenOf({i})
    BY <1>0, <2>2, <2>3, <2>4, ReadEffect
  <2>6. Reads(c, {i})
    BY <1>2, <2>4, <2>5 DEF Reads, Read
  <2>7. mem[i].fact = fact => Of(fact) # {}
    BY <2>2 DEF Of
  <2> QED
    BY <1>2, <2>1, <2>2, <2>5, <2>6, <2>7
<1> QED
  BY <1>1, <1>4, <1>5 DEF Look, LookFails

LEMMA DecidedTyped ==
    ASSUME NEW c \in Process, proc[c] \in Processes
    PROVE  Decided(c) \in Processes /\ Decided(c).fact = Nil /\ Decided(c).seen = proc[c].seen /\ Decided(c).pc = "next"
BY DEF Decided, Processes

LEMMA LearnEffect ==
    ASSUME MemoryTypeOK, Holding, NEW c \in Conversation, Learn(c)
    PROVE  /\ proc[c].pc = "decide" /\ proc[c].fact \in Fact /\ UNCHANGED <<feed, doubled, clash>>
           /\ proc' \in [Process -> Processes] /\ Others(c)
           /\ proc'[c].fact = Nil /\ proc'[c].seen = {} /\ proc'[c].pc = "next"
           /\ \/ proc[c].known /\ mem' = mem
              \/ ~proc[c].known /\ \E i \in Id : Adds(proc[c].fact, i)
<1>0. c \in Process /\ proc[c] \in Processes /\ proc[c].pc = "decide" /\ SetProc(c, Decided(c))
  BY DEF Process, MemoryTypeOK, Learn, Doing
<1>1. proc[c].seen = {} /\ proc[c].fact \in Fact
  BY <1>0 DEF Holding, Processes
<1>2. proc' \in [Process -> Processes] /\ proc'[c] = Decided(c) /\ Others(c)
  BY <1>0, DecidedTyped, SetEffect
<1>3. \/ proc[c].known /\ mem' = mem
      \/ ~proc[c].known /\ \E i \in Id : Adds(proc[c].fact, i)
  <2>1. "episodic" \in Kinds
    BY DEF Kinds
  <2> QED
    BY <1>1, <2>1, AddEffect DEF Learn
<1> QED
  BY <1>0, <1>1, <1>2, <1>3, DecidedTyped DEF Learn, histories

LEMMA RememberEffect ==
    ASSUME MemoryTypeOK, NEW p \in Call, NEW fact \in Fact, NEW kind \in {"temporary", "permanent"}, Remember(p, fact, kind)
    PROVE  /\ \E i \in Id : Adds(fact, i)
           /\ doubled' = Doubles(p, fact) /\ UNCHANGED <<feed, proc, clash>>
<1>1. kind \in Kinds
  BY DEF Kinds
<1> QED
  BY <1>1, AddEffect DEF Remember, Begin

\* The write of a recall.
Touched(p, i) == i \in Live /\ \E s \in proc[p].seen : s.id = i
TheSeen(p, i) == CHOOSE s \in proc[p].seen : s.id = i

LEMMA TouchEffect ==
    ASSUME MemoryTypeOK, NEW p \in Process, Touch(p)
    PROVE  /\ mem' \in [Id -> Rows] /\ proc' \in [Process -> Processes] /\ Others(p)
           /\ UNCHANGED <<feed, doubled, clash>> /\ proc[p].pc = "touch"
           /\ proc'[p].seen = {}
           /\ IF p \in Call THEN proc'[p] = Nothing
              ELSE proc'[p].pc = "decide" /\ proc'[p].fact = proc[p].fact /\ proc'[p].known = proc[p].known
           /\ \A i \in Id : IF Touched(p, i)
                            THEN /\ TheSeen(p, i) \in proc[p].seen /\ TheSeen(p, i).id = i
                                 /\ mem'[i].state = "live" /\ mem'[i].fact = mem[i].fact
                                 /\ mem'[i].importance = TheSeen(p, i).importance
                                 /\ mem'[i].count = IF mem[i].count < Full THEN mem[i].count + 1 ELSE mem[i].count
                            ELSE mem'[i] = mem[i]
<1>0. proc[p] \in Processes /\ proc[p].seen \subseteq [id : Id, importance : Nat] /\ proc[p].pc = "touch"
  BY DEF MemoryTypeOK, Processes, Touch, Doing
<1> DEFINE rest == [proc[p] EXCEPT !.pc = "decide", !.seen = {}]
<1>1. rest \in Processes /\ rest.seen = {} /\ rest.pc = "decide" /\ rest.fact = proc[p].fact /\ rest.known = proc[p].known
  BY <1>0 DEF Processes
<1>2. SetProc(p, IF p \in Call THEN Nothing ELSE rest)
  BY DEF Touch
<1> HIDE DEF rest
<1>3. proc' \in [Process -> Processes] /\ Others(p) /\ proc'[p] = IF p \in Call THEN Nothing ELSE rest
  BY <1>1, <1>2, NothingTyped, SetEffect
<1>4. mem' = [i \in Id |->
        IF Touched(p, i)
        THEN [mem[i] EXCEPT !.importance = TheSeen(p, i).importance,
                            !.count = IF mem[i].count < Full THEN mem[i].count + 1 ELSE mem[i].count, !.fresh = TRUE]
        ELSE mem[i]]
  BY DEF Touch, TouchMany, Touched, TheSeen
<1>5. ASSUME NEW i \in Id, Touched(p, i)
      PROVE  /\ TheSeen(p, i) \in proc[p].seen /\ TheSeen(p, i).id = i
             /\ mem'[i] \in Rows /\ mem'[i].state = "live" /\ mem'[i].fact = mem[i].fact
             /\ mem'[i].importance = TheSeen(p, i).importance
             /\ mem'[i].count = IF mem[i].count < Full THEN mem[i].count + 1 ELSE mem[i].count
  <2>1. TheSeen(p, i) \in proc[p].seen /\ TheSeen(p, i).id = i
    BY <1>5 DEF Touched, TheSeen
  <2> DEFINE n == IF mem[i].count < Full THEN mem[i].count + 1 ELSE mem[i].count
             k == TheSeen(p, i).importance
  <2>2. k \in Nat
    BY <1>0, <2>1
  <2>3. mem[i] \in Rows /\ mem[i].state = "live"
    BY <1>5 DEF MemoryTypeOK, Touched, Live
  <2>4. n \in Nat
    BY <2>3, Numbers DEF Rows
  <2>5. mem'[i] = [mem[i] EXCEPT !.importance = k, !.count = n, !.fresh = TRUE]
    BY <1>4, <1>5
  <2> HIDE DEF n, k
  <2>6. /\ mem'[i] \in Rows /\ mem'[i].state = "live" /\ mem'[i].fact = mem[i].fact
        /\ mem'[i].importance = k /\ mem'[i].count = n
    BY <2>2, <2>3, <2>4, <2>5 DEF Rows
  <2> QED
    BY <2>1, <2>6 DEF n, k
<1>6. mem' \in [Id -> Rows]
  BY <1>4, <1>5 DEF MemoryTypeOK
<1>7. \A i \in Id : ~Touched(p, i) => mem'[i] = mem[i]
  BY <1>4
<1> QED
  BY <1>0, <1>1, <1>3, <1>5, <1>6, <1>7, NothingTyped DEF Touch

-----------------------------------------------------------------------------
(* The kinds of steps, and type correctness.                               *)

Remembers(p) == \E fact \in Fact, kind \in {"temporary", "permanent"} : Remember(p, fact, kind)

LEMMA StepKinds ==
    MemoryNext => \/ \E p \in Call : Search(p) \/ Tidies(p) \/ Remembers(p)
            \/ \E p \in Process : Touch(p)
            \/ \E c \in Conversation : Answer(c) \/ HandleAnswered(c) \/ Drops(c) \/ Looks(c) \/ Learn(c)
            \/ Age \/ Crash
BY DEF MemoryNext, Tidies, Remembers, Drops, Looks

LEMMA ClashType == ASSUME MemoryTypeOK, NEW p, NEW found \in SUBSET Live, Reads(p, found) PROVE clash' \subseteq Id
BY DEF MemoryTypeOK, Reads, Live

LEMMA DoublesType == ASSUME MemoryTypeOK, NEW p, NEW fact \in Fact PROVE Doubles(p, fact) \subseteq Fact
BY DEF MemoryTypeOK, Doubles

LEMMA StateTyped ==
    ASSUME MemoryTypeOK, Holding, [MemoryNext]_memoryVars
    PROVE  /\ mem' \in [Id -> Rows] /\ proc' \in [Process -> Processes]
           /\ doubled' \subseteq Fact /\ clash' \subseteq Id
<1>0. doubled \subseteq Fact /\ clash \subseteq Id /\ mem \in [Id -> Rows] /\ proc \in [Process -> Processes]
  BY DEF MemoryTypeOK
<1>1. CASE Quiet
  BY <1>0, <1>1 DEF Quiet, Shrinks, Frees
<1>2. ASSUME NEW p \in Call, Search(p) \/ Remembers(p)
      PROVE  mem' \in [Id -> Rows] /\ proc' \in [Process -> Processes] /\ doubled' \subseteq Fact /\ clash' \subseteq Id
  <2>1. CASE Search(p)
    BY <1>0, <2>1, SearchReads, ClashType DEF Reads
  <2>2. CASE Remembers(p)
    <3>1. PICK fact \in Fact, kind \in {"temporary", "permanent"} : Remember(p, fact, kind)
      BY <2>2 DEF Remembers
    <3> QED
      BY <1>0, <3>1, RememberEffect, DoublesType DEF Adds
  <2> QED
    BY <1>2, <2>1, <2>2
<1>3. ASSUME NEW p \in Process, Touch(p)
      PROVE  mem' \in [Id -> Rows] /\ proc' \in [Process -> Processes] /\ doubled' \subseteq Fact /\ clash' \subseteq Id
  BY <1>0, <1>3, TouchEffect
<1>4. ASSUME NEW c \in Conversation, Looks(c) \/ Learn(c)
      PROVE  mem' \in [Id -> Rows] /\ proc' \in [Process -> Processes] /\ doubled' \subseteq Fact /\ clash' \subseteq Id
  <2>1. CASE Looks(c)
    <3>1. PICK fact \in Fact : /\ \E found \in SUBSET Live : Reads(c, found)
                               /\ IF proc'[c].known THEN doubled' = doubled ELSE doubled' = Doubles(c, fact)
      BY <2>1, LooksReads
    <3> QED
      BY <1>0, <3>1, ClashType, DoublesType DEF Reads
  <2>2. CASE Learn(c)
    BY <1>0, <2>2, LearnEffect DEF Adds
  <2> QED
    BY <1>4, <2>1, <2>2
<1>5. CASE UNCHANGED memoryVars
  BY <1>0, <1>5 DEF memoryVars, histories
<1> QED
  BY <1>1, <1>2, <1>3, <1>4, <1>5, StepKinds, TidiesQuiet, AnswerQuiet, HandleQuiet, DropsQuiet, AgeQuiet, CrashQuiet

\* Nobody starts a reflection but the handler.
Goes(c) == proc'[c].pc # "idle" => proc[c].pc # "idle"

\* The steps that are not of a conversation's events.
Elsewhere == UNCHANGED feed /\ \A c \in Conversation : Goes(c)

LEMMA StepFeed ==
    ASSUME MemoryTypeOK, Holding, [MemoryNext]_memoryVars
    PROVE  Elsewhere \/ Crash \/ \E c \in Conversation : Answer(c) \/ HandleAnswered(c) \/ Drops(c)
<1>0. Call \cap Conversation = {} /\ Conversation \subseteq Process
  BY MemoryAssumption DEF Process
<1>1. ASSUME NEW p \in Call, Search(p) \/ Tidies(p) \/ Remembers(p) PROVE Elsewhere
  <2>1. UNCHANGED feed
    BY <1>1, SearchReads, TidiesQuiet, RememberEffect DEF Remembers
  <2>2. \A c \in Conversation : proc'[c] = proc[c]
    <3>1. CASE proc' = proc
      BY <3>1
    <3>2. ASSUME NEW e, SetProc(p, e) PROVE \A c \in Conversation : proc'[c] = proc[c]
      BY <1>0, <3>2 DEF SetProc, MemoryTypeOK
    <3>3. CASE Goto(p, "list")
      BY <1>0, <3>3 DEF Goto, MemoryTypeOK
    <3> QED
      BY <1>1, <3>1, <3>2, <3>3
         DEF Search, Read, Tidies, Consolidate, ListWeak, Consolidated, ForgetMemory, ArchiveOne, Remembers, Remember
  <2> QED
    BY <2>1, <2>2 DEF Elsewhere, Goes
<1>2. ASSUME NEW p \in Process, Touch(p) PROVE Elsewhere
  BY <1>0, <1>2, TouchEffect DEF Elsewhere, Goes, Others
<1>3. ASSUME NEW c \in Conversation, Looks(c) \/ Learn(c) PROVE Elsewhere
  <2>1. UNCHANGED feed /\ Others(c) /\ proc[c].pc # "idle"
    BY <1>3, LooksReads, LearnEffect DEF Reads
  <2> QED
    BY <1>0, <2>1 DEF Elsewhere, Goes, Others
<1>4. CASE Age
  BY <1>4 DEF Age, Elsewhere, Goes
<1>6. CASE UNCHANGED memoryVars
  BY <1>6 DEF memoryVars, Elsewhere, Goes
<1> QED
  BY <1>1, <1>2, <1>3, <1>4, <1>6, StepKinds

\* What a call, and a reflection, hold at each place.
HoldsCall(e) == (e.pc # "touch" => e.seen = {}) /\ e.fact = Nil
HoldsTurn(e) == (e.pc # "touch" => e.seen = {}) /\ (e.fact # Nil <=> e.pc \in {"touch", "decide"})
Held == (\A p \in Call : HoldsCall(proc[p])) /\ (\A c \in Conversation : HoldsTurn(proc[c]))

LEMMA HeldHolding == Holding <=> Held /\ \A c \in Conversation : (proc[c].pc # "idle" => events[c] > 0) /\ events[c] <= answers[c]
BY DEF Holding, Held, HoldsCall, HoldsTurn, Process

LEMMA HeldOne ==
    ASSUME Held, NEW p \in Process, Others(p), p \in Call => HoldsCall(proc'[p]), p \in Conversation => HoldsTurn(proc'[p])
    PROVE  Held'
<1>1. \A q \in Process : proc'[q] = proc[q] \/ q = p
  BY DEF Others
<1>2. \A q \in Call : HoldsCall(proc'[q])
  BY <1>1 DEF Held, Process
<1>3. \A q \in Conversation : HoldsTurn(proc'[q])
  BY <1>1 DEF Held, Process
<1> QED
  BY <1>2, <1>3 DEF Held, HoldsCall, HoldsTurn

LEMMA HeldStep == ASSUME MemoryTypeOK, Holding, [MemoryNext]_memoryVars PROVE Held'
<1>0. /\ Call \cap Conversation = {} /\ Conversation \subseteq Process /\ Call \subseteq Process /\ Held
      /\ HoldsCall(Nothing) /\ HoldsTurn(Nothing)
  BY MemoryAssumption, HeldHolding, NothingTyped DEF Process, HoldsCall, HoldsTurn
<1>1. CASE proc' = proc
  BY <1>0, <1>1 DEF Held, HoldsCall, HoldsTurn
<1>2. ASSUME NEW p \in Call, Search(p) \/ Tidies(p) \/ Remembers(p) PROVE Held'
  <2>0. p \in Process /\ p \notin Conversation /\ proc[p] \in Processes /\ HoldsCall(proc[p])
    BY <1>0 DEF MemoryTypeOK, Held
  <2>1. CASE Search(p)
    <3>1. Others(p) /\ proc'[p].fact = Nil /\ proc'[p].pc = "touch"
      <4>1. PICK found \in SUBSET Live : Read(p, found, Nothing)
        BY <2>1 DEF Search, Hits
      <4> QED
        BY <2>0, <4>1, NothingTyped, ReadEffect DEF Live
    <3> QED
      BY <1>0, <2>0, <3>1, HeldOne DEF HoldsCall
  <2>2. CASE Consolidate(p)
    <3>1. Goto(p, "list") /\ proc[p].pc = "idle"
      BY <2>2 DEF Consolidate, Begin, Doing
    <3>2. Others(p) /\ proc'[p].fact = proc[p].fact /\ proc'[p].seen = proc[p].seen
      BY <2>0, <3>1, GotoEffect
    <3> QED
      BY <1>0, <2>0, <3>1, <3>2, HeldOne DEF HoldsCall
  <2>3. CASE ListWeak(p)
    <3> DEFINE e == [Nothing EXCEPT !.pc = "archive", !.todo = {i \in Live : Weak(i)}]
    <3>1. e \in Processes /\ HoldsCall(e)
      BY NothingTyped DEF Processes, Live, HoldsCall
    <3>2. SetProc(p, e)
      BY <2>3 DEF ListWeak
    <3> HIDE DEF e
    <3> QED
      BY <1>0, <2>0, <3>1, <3>2, SetEffect, HeldOne
  <2>4. ASSUME NEW i \in Id, ArchiveOne(p, i) PROVE Held'
    <3> DEFINE e == [proc[p] EXCEPT !.todo = @ \ {i}]
    <3>1. e \in Processes /\ HoldsCall(e)
      BY <2>0 DEF Processes, HoldsCall
    <3>2. SetProc(p, e)
      BY <2>4 DEF ArchiveOne
    <3> HIDE DEF e
    <3> QED
      BY <1>0, <2>0, <3>1, <3>2, SetEffect, HeldOne
  <2>5. CASE SetProc(p, Nothing)
    BY <1>0, <2>0, <2>5, NothingTyped, SetEffect, HeldOne
  <2> QED
    BY <1>1, <1>2, <2>1, <2>2, <2>3, <2>4, <2>5 DEF Tidies, Remembers, Remember, ForgetMemory, Consolidated
<1>3. ASSUME NEW p \in Process, Touch(p) PROVE Held'
  <2>1. Others(p) /\ proc'[p].seen = {} /\ proc[p].pc = "touch"
    BY <1>3, TouchEffect
  <2>2. p \in Call => HoldsCall(proc'[p])
    BY <1>0, <1>3, TouchEffect
  <2>3. ASSUME p \in Conversation PROVE HoldsTurn(proc'[p])
    <3>1. p \notin Call /\ proc[p].fact # Nil
      BY <1>0, <2>1, <2>3 DEF Held, HoldsTurn
    <3>2. proc'[p].pc = "decide" /\ proc'[p].fact = proc[p].fact
      BY <1>3, <3>1, TouchEffect
    <3> QED
      BY <2>1, <3>1, <3>2 DEF HoldsTurn
  <2> QED
    BY <1>0, <2>1, <2>2, <2>3, HeldOne
<1>4. ASSUME NEW c \in Conversation, HandleAnswered(c) \/ Drops(c) \/ Looks(c) \/ Learn(c) PROVE Held'
  <2>0. c \in Process /\ c \notin Call /\ HoldsTurn(proc[c])
    BY <1>0 DEF Held
  <2>1. CASE HandleAnswered(c)
    <3>1. CASE Goto(c, "reflect")
      <4>1. Others(c) /\ proc'[c].fact = proc[c].fact /\ proc'[c].seen = proc[c].seen /\ proc'[c].pc = "reflect"
        BY <2>0, <3>1, GotoEffect
      <4>2. proc[c].pc = "idle"
        BY <2>1 DEF HandleAnswered, Doing
      <4> QED
        BY <1>0, <2>0, <4>1, <4>2, HeldOne DEF HoldsTurn
    <3> QED
      BY <1>1, <2>1, <3>1 DEF HandleAnswered
  <2>2. CASE Drops(c)
    BY <1>0, <2>0, <2>2, DropsQuiet, HeldOne DEF HoldsTurn
  <2>3. CASE Looks(c)
    <3>1. PICK fact \in Fact :
              /\ \E found \in SUBSET Live : Reads(c, found)
              /\ proc'[c].fact = fact /\ proc'[c].pc \in {"touch", "decide"} /\ (proc'[c].pc # "touch" => proc'[c].seen = {})
      BY <2>3, LooksReads
    <3>2. Others(c) /\ fact # Nil
      BY <3>1, MemoryAssumption DEF Reads
    <3> QED
      BY <1>0, <2>0, <3>1, <3>2, HeldOne DEF HoldsTurn
  <2>4. CASE Learn(c)
    BY <1>0, <2>0, <2>4, LearnEffect, HeldOne DEF HoldsTurn
  <2> QED
    BY <1>4, <2>1, <2>2, <2>3, <2>4
<1>5. CASE Crash
  <2>1. \A p \in Process : proc'[p] = Nothing
    BY <1>5 DEF Crash
  <2> QED
    BY <1>0, <2>1 DEF Held, HoldsCall, HoldsTurn
<1>6. CASE Age \/ UNCHANGED memoryVars \/ \E c \in Conversation : Answer(c)
  BY <1>1, <1>6 DEF Age, memoryVars, Answer
<1> QED
  BY <1>2, <1>3, <1>4, <1>5, <1>6, StepKinds

-----------------------------------------------------------------------------
(* The events of a conversation.                                           *)

FeedTyped ==
    /\ answers \in [Conversation -> Nat] /\ \A c \in Conversation : answers[c] <= MaxAnswers[c]
    /\ events \in [Conversation -> Nat]
    /\ reflected \in [Conversation -> SUBSET Nat] /\ late \in [Conversation -> SUBSET Nat]
    /\ lost \in [Conversation -> SUBSET Nat]

Pending == \A c \in Conversation : (proc[c].pc # "idle" => events[c] > 0) /\ events[c] <= answers[c]

FeedInv == FeedTyped /\ Pending /\ EveryInv

\* What the steps of the events of c leave of the other conversations.
OnlyFeedOf(c) ==
    \A d \in Conversation : d # c => /\ answers'[d] = answers[d] /\ events'[d] = events[d]
                                     /\ reflected'[d] = reflected[d] /\ late'[d] = late[d]
                                     /\ lost'[d] = lost[d] /\ proc'[d] = proc[d]

\* The invariant of one conversation.
FeedOf(c) ==
    /\ (proc[c].pc # "idle" => events[c] > 0) /\ events[c] <= answers[c]
    /\ \A n \in 1..answers[c] :
         Due(n) /\ n <= Horizon /\ n < Number(c) => n \in reflected[c] \cup late[c] \cup lost[c]
    /\ proc[c].pc # "idle" /\ Due(Number(c)) /\ Number(c) <= Horizon =>
         Number(c) \in reflected[c] \cup late[c]

LEMMA FeedParts == FeedInv <=> FeedTyped /\ \A c \in Conversation : FeedOf(c)
BY DEF FeedInv, Pending, EveryInv, EveryNth, Counted, FeedOf

LEMMA FeedOthers ==
    ASSUME FeedInv, NEW c \in Conversation, OnlyFeedOf(c), FeedTyped', FeedOf(c)'
    PROVE  FeedInv'
<1>1. ASSUME NEW d \in Conversation, d # c PROVE FeedOf(d)'
  <2>1. FeedOf(d)
    BY FeedParts
  <2> QED
    BY <1>1, <2>1 DEF OnlyFeedOf, FeedOf, Number
<1>2. \A d \in Conversation : FeedOf(d)'
  BY <1>1
<1>3. FeedInv' <=> FeedTyped' /\ \A d \in Conversation : FeedOf(d)'
  BY DEF FeedInv, FeedTyped, Pending, EveryInv, EveryNth, Counted, FeedOf
<1> QED
  BY <1>2, <1>3

LEMMA AnswerFeed ==
    ASSUME MemoryTypeOK, FeedInv, NEW c \in Conversation, Answer(c)
    PROVE  FeedInv'
<1>0. answers[c] \in Nat /\ events[c] \in Nat /\ answers[c] < MaxAnswers[c] /\ MaxAnswers[c] \in Nat /\ FeedOf(c)
  BY MemoryAssumption, FeedParts DEF MemoryTypeOK, Answer
<1>1. /\ answers' = [answers EXCEPT ![c] = answers[c] + 1] /\ events' = [events EXCEPT ![c] = events[c] + 1]
      /\ UNCHANGED <<proc, reflected, late, lost>>
  BY DEF Answer
<1>2. answers'[c] = answers[c] + 1 /\ events'[c] = events[c] + 1
  BY <1>1 DEF MemoryTypeOK
<1>3. Number(c)' = Number(c)
  BY <1>0, <1>2 DEF Number
<1>4. OnlyFeedOf(c)
  BY <1>1 DEF OnlyFeedOf, MemoryTypeOK
<1>5. FeedTyped'
  <2>1. answers' \in [Conversation -> Nat] /\ events' \in [Conversation -> Nat]
    BY <1>0, <1>1 DEF MemoryTypeOK
  <2>2. \A d \in Conversation : answers'[d] <= MaxAnswers[d]
    BY <1>0, <1>1 DEF MemoryTypeOK
  <2> QED
    BY <1>1, <2>1, <2>2 DEF FeedTyped, MemoryTypeOK
<1>6. FeedOf(c)'
  <2>1. \A n \in 1..answers'[c] : n < Number(c) => n \in 1..answers[c]
    BY <1>0, <1>2 DEF Number, FeedOf
  <2> QED
    BY <1>0, <1>1, <1>2, <1>3, <2>1 DEF FeedOf
<1> QED
  BY <1>4, <1>5, <1>6, FeedOthers

\* The answer whose event leaves is accounted for.
LEMMA AckFeed ==
    ASSUME MemoryTypeOK, FeedInv, NEW c \in Conversation, Acknowledge(c), events[c] > 0,
           UNCHANGED <<answers, reflected, lost>>,
           late' = [late EXCEPT ![c] = late'[c]], late[c] \subseteq late'[c], late'[c] \subseteq Nat,
           Due(Number(c)) /\ Number(c) <= Horizon => Number(c) \in reflected[c] \cup late'[c],
           \A d \in Conversation : d # c => proc'[d] = proc[d],
           proc'[c].pc = "idle"
    PROVE  FeedInv'
<1>0. answers[c] \in Nat /\ events[c] \in Nat /\ FeedOf(c)
  BY FeedParts DEF MemoryTypeOK
<1>1. events' = [events EXCEPT ![c] = events[c] - 1] /\ events[c] - 1 \in Nat
  BY <1>0 DEF Acknowledge
<1>2. events'[c] = events[c] - 1
  BY <1>1 DEF MemoryTypeOK
<1>3. Number(c)' = Number(c) + 1 /\ Number(c) \in Nat
  BY <1>0, <1>2 DEF Number, FeedOf
<1>4. OnlyFeedOf(c)
  BY <1>1 DEF OnlyFeedOf, MemoryTypeOK
<1>5. FeedTyped'
  BY <1>1 DEF FeedTyped, MemoryTypeOK
<1>6. FeedOf(c)'
  <2>1. ASSUME NEW n \in 1..answers[c], Due(n), n <= Horizon, n < Number(c) + 1 PROVE n \in reflected[c] \cup late'[c] \cup lost[c]
    <3>1. n < Number(c) \/ n = Number(c)
      BY <1>3, <2>1
    <3> QED
      BY <1>0, <2>1, <3>1 DEF FeedOf
  <2>2. events'[c] <= answers'[c]
    BY <1>0, <1>2 DEF FeedOf
  <2> QED
    BY <1>3, <2>1, <2>2 DEF FeedOf
<1> QED
  BY <1>4, <1>5, <1>6, FeedOthers

LEMMA HandleFeed ==
    ASSUME MemoryTypeOK, FeedInv, NEW c \in Conversation, HandleAnswered(c)
    PROVE  FeedInv'
<1>0. /\ answers[c] \in Nat /\ events[c] \in Nat /\ FeedOf(c) /\ events[c] > 0 /\ proc[c].pc = "idle" /\ answers' = answers
      /\ lost' = lost /\ c \in Process
  BY FeedParts DEF MemoryTypeOK, HandleAnswered, Doing, Process
<1>1. Number(c) \in Nat
  BY <1>0 DEF Number, FeedOf
<1>2. /\ late' = [late EXCEPT ![c] = IF Due(Number(c)) /\ Number(c) # answers[c] THEN late[c] \cup {Number(c)} ELSE late[c]]
      /\ late'[c] = IF Due(Number(c)) /\ Number(c) # answers[c] THEN late[c] \cup {Number(c)} ELSE late[c]
  BY DEF HandleAnswered, MemoryTypeOK
<1>3. late[c] \subseteq late'[c] /\ late'[c] \subseteq Nat /\ late' = [late EXCEPT ![c] = late'[c]]
  BY <1>1, <1>2 DEF MemoryTypeOK
<1>4. CASE IsTime(c)
  <2>1. reflected' = [reflected EXCEPT ![c] = reflected[c] \cup {answers[c]}] /\ Goto(c, "reflect") /\ events' = events
    BY <1>4 DEF HandleAnswered
  <2>2. reflected'[c] = reflected[c] \cup {answers[c]} /\ reflected' \in [Conversation -> SUBSET Nat]
    BY <1>0, <2>1 DEF MemoryTypeOK
  <2>3. Others(c) /\ Conversation \subseteq Process
    BY <1>0, <2>1, GotoEffect DEF Process
  <2>4. OnlyFeedOf(c)
    BY <1>0, <1>3, <2>1, <2>3 DEF OnlyFeedOf, MemoryTypeOK, Others
  <2>5. FeedTyped'
    BY <1>0, <1>3, <2>1, <2>2 DEF FeedTyped, MemoryTypeOK
  <2>6. FeedOf(c)'
    <3>1. Number(c)' = Number(c)
      BY <1>0, <2>1 DEF Number
    <3>2. Due(Number(c)) => Number(c) \in reflected'[c] \cup late'[c]
      BY <1>2, <2>2
    <3> QED
      BY <1>0, <1>3, <2>1, <2>2, <3>1, <3>2 DEF FeedOf
  <2> QED
    BY <2>4, <2>5, <2>6, FeedOthers
<1>5. CASE ~IsTime(c)
  <2>1. Acknowledge(c) /\ UNCHANGED <<proc, reflected>>
    BY <1>5 DEF HandleAnswered
  <2>2. ASSUME Due(Number(c)), Number(c) <= Horizon PROVE Number(c) \in late'[c]
    <3>1. CASE Number(c) = answers[c]
      <4>1. InSight(c) = answers[c]
        BY <1>0, <2>2, <3>1, MemoryAssumption DEF InSight
      <4> QED
        BY <1>5, <2>2, <3>1, <4>1 DEF IsTime
    <3>2. CASE Number(c) # answers[c]
      BY <1>2, <2>2, <3>2
    <3> QED
      BY <3>1, <3>2
  <2> QED
    BY <1>0, <1>3, <2>1, <2>2, AckFeed
<1> QED
  BY <1>4, <1>5

LEMMA DropsFeed ==
    ASSUME MemoryTypeOK, FeedInv, NEW c \in Conversation, Drops(c)
    PROVE  FeedInv'
<1>0. c \in Process /\ Conversation \subseteq Process /\ FeedOf(c)
  BY FeedParts DEF Process
<1>1. /\ Others(c) /\ UNCHANGED <<answers, reflected, late, lost>> /\ proc[c].pc # "idle"
      /\ (proc'[c].pc = "idle" /\ Acknowledge(c)) \/ (proc'[c].pc = "next" /\ events' = events)
  BY DropsQuiet
<1>2. CASE proc'[c].pc = "idle" /\ Acknowledge(c)
  <2>1. events[c] > 0 /\ (Due(Number(c)) /\ Number(c) <= Horizon => Number(c) \in reflected[c] \cup late[c])
    BY <1>0, <1>1 DEF FeedOf
  <2>2. late' = [late EXCEPT ![c] = late'[c]] /\ late'[c] \subseteq Nat
    BY <1>1 DEF MemoryTypeOK
  <2> QED
    BY <1>0, <1>1, <1>2, <2>1, <2>2, AckFeed DEF Others
<1>3. CASE events' = events
  <2>1. OnlyFeedOf(c)
    BY <1>0, <1>1, <1>3 DEF OnlyFeedOf, Others
  <2>2. FeedTyped'
    BY <1>1, <1>3 DEF FeedTyped, MemoryTypeOK
  <2>3. FeedOf(c)'
    BY <1>0, <1>1, <1>3 DEF FeedOf, Number
  <2> QED
    BY <2>1, <2>2, <2>3, FeedOthers
<1> QED
  BY <1>1, <1>2, <1>3

\* Of the events a crash takes, the first may be the one in hand.
LEMMA CrashFeed ==
    ASSUME MemoryTypeOK, FeedInv, Crash
    PROVE  FeedInv'
<1>1. PICK kept \in Survivors :
        /\ events' = kept
        /\ lost' = [c \in Conversation |->
               lost[c] \cup {n \in 1..(answers[c] - kept[c]) :
                             n > Number(c) \/ (n = Number(c) /\ Doing(c, "idle"))}]
  BY DEF Crash
<1>2. UNCHANGED <<answers, reflected, late>> /\ \A c \in Conversation : proc'[c].pc = "idle"
  BY NothingTyped DEF Crash, Process
<1>3. ASSUME NEW c \in Conversation PROVE kept[c] \in Nat /\ kept[c] <= events[c]
  <2>1. events[c] \in Nat
    BY DEF MemoryTypeOK
  <2> QED
    BY <1>1, <2>1 DEF Survivors
<1>4. FeedTyped'
  <2>1. events' \in [Conversation -> Nat]
    <3>1. kept = [c \in Conversation |-> kept[c]]
      BY <1>1 DEF Survivors
    <3> QED
      BY <1>1, <1>3, <3>1
  <2>2. lost' \in [Conversation -> SUBSET Nat]
    <3>1. ASSUME NEW c \in Conversation, NEW n \in 1..(answers[c] - kept[c]) PROVE n \in Nat
      BY <1>3 DEF MemoryTypeOK
    <3> QED
      BY <1>1, <3>1 DEF MemoryTypeOK
  <2> QED
    BY <1>2, <2>1, <2>2 DEF FeedTyped, MemoryTypeOK
<1>5. ASSUME NEW c \in Conversation PROVE FeedOf(c)'
  <2>0. answers[c] \in Nat /\ events[c] \in Nat /\ events[c] <= answers[c] /\ FeedOf(c)
    BY FeedParts DEF MemoryTypeOK, FeedOf
  <2>1. kept[c] \in Nat /\ kept[c] <= events[c] /\ events'[c] = kept[c]
    BY <1>1, <1>3
  <2>2. Number(c) = answers[c] - events[c] + 1 /\ Number(c)' = answers[c] - kept[c] + 1
    BY <1>2, <2>1 DEF Number
  <2>3. ASSUME NEW n \in 1..answers[c], Due(n), n <= Horizon, n < answers[c] - kept[c] + 1
        PROVE  n \in reflected[c] \cup late[c] \cup lost'[c]
    <3>1. CASE n < Number(c)
      BY <1>1, <2>0, <2>3, <3>1 DEF FeedOf
    <3>2. CASE n = Number(c) /\ proc[c].pc # "idle"
      BY <2>0, <2>3, <3>2 DEF FeedOf
    <3>3. CASE n > Number(c) \/ (n = Number(c) /\ proc[c].pc = "idle")
      <4>1. n \in 1..(answers[c] - kept[c])
        BY <2>0, <2>1, <2>3
      <4> QED
        BY <1>1, <3>3, <4>1 DEF Doing
    <3> QED
      BY <2>0, <2>2, <3>1, <3>2, <3>3
  <2>4. (\A n \in 1..answers[c] : Due(n) /\ n <= Horizon /\ n < Number(c) => n \in reflected[c] \cup late[c] \cup lost[c])'
    BY <1>2, <2>2, <2>3 DEF Due
  <2>5. (events[c] <= answers[c] /\ proc[c].pc = "idle")'
    BY <1>2, <2>0, <2>1
  <2> QED
    BY <2>4, <2>5 DEF FeedOf
<1>6. FeedInv' <=> FeedTyped' /\ \A c \in Conversation : FeedOf(c)'
  BY DEF FeedInv, FeedTyped, Pending, EveryInv, EveryNth, Counted, FeedOf
<1> QED
  BY <1>4, <1>5, <1>6

LEMMA FeedStep == ASSUME MemoryTypeOK, Holding, FeedInv, [MemoryNext]_memoryVars PROVE FeedInv'
<1>1. CASE Elsewhere
  <2>1. FeedTyped' /\ \A c \in Conversation : FeedOf(c)
    BY <1>1, FeedParts DEF Elsewhere, feed, FeedTyped
  <2>2. \A c \in Conversation : FeedOf(c)'
    BY <1>1, <2>1 DEF Elsewhere, Goes, feed, FeedOf, Number
  <2>3. FeedInv' <=> FeedTyped' /\ \A d \in Conversation : FeedOf(d)'
    BY DEF FeedInv, FeedTyped, Pending, EveryInv, EveryNth, Counted, FeedOf
  <2> QED
    BY <2>1, <2>2, <2>3
<1> QED
  BY <1>1, StepFeed, AnswerFeed, HandleFeed, DropsFeed, CrashFeed

LEMMA FeedInit == MemoryInit => FeedInv
<1> SUFFICES ASSUME MemoryInit PROVE FeedInv
  OBVIOUS
<1>1. FeedTyped
  BY TypeInit DEF MemoryTypeOK, FeedTyped
<1>2. ASSUME NEW c \in Conversation PROVE FeedOf(c)
  <2>1. answers[c] \in 0..(Every - 1) /\ events[c] = 0 /\ proc[c].pc = "idle"
    BY MemoryAssumption, NothingTyped DEF MemoryInit, Process
  <2>2. ASSUME NEW n \in 1..answers[c], Due(n) PROVE FALSE
    BY <2>1, <2>2, Numbers DEF Due
  <2> QED
    BY <2>1, <2>2 DEF FeedOf
<1> QED
  BY <1>1, <1>2, FeedParts

LEMMA HoldingInit == MemoryInit => Holding
BY TypeInit, NothingTyped, MemoryAssumption DEF MemoryInit, Holding, MemoryTypeOK, Process

LEMMA BoundsStep == ASSUME MemoryTypeOK, [MemoryNext]_memoryVars PROVE calls' \in 0..MaxCalls /\ ages' \in 0..MaxAges /\ crashes' \in 0..MaxCrashes
<1>0. MaxCalls \in Nat /\ MaxAges \in Nat /\ MaxCrashes \in Nat
  BY MemoryAssumption
<1>1. CASE UNCHANGED bounds
  BY <1>1 DEF bounds, MemoryTypeOK
<1>2. ASSUME NEW p, Begin(p) PROVE calls' \in 0..MaxCalls /\ ages' \in 0..MaxAges /\ crashes' \in 0..MaxCrashes
  BY <1>0, <1>2 DEF Begin, MemoryTypeOK
<1>3. CASE Age
  BY <1>0, <1>3 DEF Age, MemoryTypeOK
<1>4. CASE Crash
  BY <1>0, <1>4 DEF Crash, MemoryTypeOK
<1> QED
  BY <1>1, <1>2, <1>3, <1>4 
     DEF MemoryNext, memoryVars, Search, Touch, Remember, ForgetMemory, Consolidate, ListWeak, ArchiveOne, Consolidated, Answer, HandleAnswered,
         Extract, Look, LookFails, Learn, Reflected, ReflectionFails

Invariant == MemoryTypeOK /\ Holding /\ FeedInv

LEMMA InvariantStep == Invariant /\ [MemoryNext]_memoryVars => Invariant'
<1> SUFFICES ASSUME MemoryTypeOK, Holding, FeedInv, [MemoryNext]_memoryVars PROVE Invariant'
  BY DEF Invariant
<1>1. FeedInv'
  BY FeedStep
<1>2. MemoryTypeOK'
  BY <1>1, StateTyped, BoundsStep DEF FeedInv, FeedTyped, MemoryTypeOK
<1>3. Holding'
  <2>1. Held'
    BY HeldStep
  <2> QED
    BY <1>1, <2>1 DEF FeedInv, Pending, Held, HoldsCall, HoldsTurn, Holding, Process
<1> QED
  BY <1>1, <1>2, <1>3 DEF Invariant

THEOREM AlwaysInvariant == MemorySpec => []Invariant
<1>1. MemoryInit => Invariant
  BY TypeInit, HoldingInit, FeedInit DEF Invariant
<1> QED
  BY <1>1, InvariantStep, PTL DEF MemorySpec

\* The variables of the memories stay in their types, whatever the calls, the
\* reflections, the clock and the crashes do.
THEOREM TypeCorrect == MemorySpec => []MemoryTypeOK
<1>1. Invariant => MemoryTypeOK
  BY DEF Invariant
<1> QED
  BY <1>1, AlwaysInvariant, PTL

\* Every answer whose number is due is counted by a reflection of its
\* conversation, or its event was handled after the next answer was stored
\* (EveryNth), for any number of conversations and any interval.
THEOREM DueIsReflected == MemorySpec => []EveryNth
<1>1. Invariant => EveryNth
  BY DEF Invariant, FeedInv, EveryInv
<1> QED
  BY <1>1, AlwaysInvariant, PTL

-----------------------------------------------------------------------------
(* The importance of a memory.                                             *)

LEMMA BoostedEarned ==
    ASSUME NEW n \in Nat
    PROVE  /\ n < Full => Boosted(Earned(n)) = Earned(n + 1)
           /\ ~(n < Full) => Boosted(Earned(n)) = Earned(n)
BY Numbers DEF Boosted, Earned

LEMMA EarnedAsSaid == ImportanceEarned <=> \A i \in Live \ clash : mem[i].importance = Earned(mem[i].count)
BY DEF ImportanceEarned, Earned

\* No process reads, and a memory changes only as Shrinks or Adds says.
LEMMA EarnedKept ==
    ASSUME MemoryTypeOK, EarnedInv, UNCHANGED clash, \A p \in Process : proc'[p].seen \subseteq proc[p].seen,
           \A i \in Id : \/ Same(i) \/ (mem[i].state # "none" /\ mem'[i].state \in {"archived", "forgotten"})
                         \/ mem[i].state = "none" /\ mem'[i].importance = Base /\ mem'[i].count = 0
    PROVE  EarnedInv'
<1>0. /\ ImportanceEarned /\ OneReader /\ ReadIsCurrent
      /\ \A i \in Live \ clash : mem[i].importance = Earned(mem[i].count)
  BY EarnedAsSaid DEF EarnedInv
<1>1. ImportanceEarned'
  <2>1. Earned(0) = Base
    BY Numbers DEF Earned
  <2>2. ASSUME NEW i \in Id \ clash, mem'[i].state = "live" PROVE mem'[i].importance = Earned(mem'[i].count)
    BY <1>0, <2>1, <2>2 DEF Same, Live
  <2> QED
    BY <2>2 DEF ImportanceEarned, Earned, Live
<1>2. OneReader'
  BY <1>0 DEF OneReader
<1>3. ReadIsCurrent'
  <2>1. ASSUME NEW i \in Id \ clash, NEW p \in Process, NEW s \in proc'[p].seen, s.id = i
        PROVE  mem'[i].state # "none" /\ (mem'[i].state = "live" => s.importance = Boosted(mem'[i].importance))
    <3>1. mem[i].state # "none" /\ (mem[i].state = "live" => s.importance = Boosted(mem[i].importance))
      BY <1>0, <2>1 DEF ReadIsCurrent, Live
    <3> QED
      BY <3>1 DEF Same
  <2> QED
    BY <2>1 DEF ReadIsCurrent, Live, Boosted
<1> QED
  BY <1>1, <1>2, <1>3 DEF EarnedInv

LEMMA EarnedReads ==
    ASSUME MemoryTypeOK, EarnedInv, NEW p \in Process, NEW found \in SUBSET Live, Reads(p, found)
    PROVE  EarnedInv'
<1>0. /\ ImportanceEarned /\ OneReader /\ ReadIsCurrent /\ mem' = mem /\ clash \subseteq clash'
      /\ \A q \in Process : q # p => proc'[q] = proc[q]
  BY DEF EarnedInv, Reads, Others
<1>1. ImportanceEarned'
  BY <1>0 DEF ImportanceEarned, Live
<1>2. \A s \in proc'[p].seen : s.id \in found /\ s = [id |-> s.id, importance |-> Boosted(mem[s.id].importance)]
  BY DEF Reads, SeenOf
<1>3. ASSUME NEW i \in Id \ clash', NEW s \in proc'[p].seen, s.id = i, NEW q \in Process, q # p, NEW t \in proc[q].seen, t.id = i
      PROVE  FALSE
  BY <1>2, <1>3 DEF Reads
<1>4. OneReader'
  <2>1. ASSUME NEW i \in Id \ clash', NEW q \in Process, NEW r \in Process, NEW s \in proc'[q].seen, NEW t \in proc'[r].seen,
               s.id = i, t.id = i
        PROVE  q = r /\ s = t
    <3>1. CASE q = p /\ r = p
      BY <1>2, <2>1, <3>1
    <3>2. CASE q # p /\ r # p
      BY <1>0, <2>1, <3>2 DEF OneReader
    <3> QED
      BY <1>0, <1>3, <2>1, <3>1, <3>2
  <2> QED
    BY <2>1 DEF OneReader
<1>5. ReadIsCurrent'
  <2>1. ASSUME NEW i \in Id \ clash', NEW q \in Process, NEW s \in proc'[q].seen, s.id = i
        PROVE  mem[i].state # "none" /\ (i \in Live => s.importance = Boosted(mem[i].importance))
    <3>1. CASE q = p
      BY <1>2, <2>1, <3>1 DEF Live
    <3>2. CASE q # p
      BY <1>0, <2>1, <3>2 DEF ReadIsCurrent
    <3> QED
      BY <3>1, <3>2
  <2> QED
    BY <1>0, <2>1 DEF ReadIsCurrent, Live, Boosted
<1> QED
  BY <1>1, <1>4, <1>5 DEF EarnedInv

LEMMA EarnedTouch ==
    ASSUME MemoryTypeOK, EarnedInv, NEW p \in Process, Touch(p)
    PROVE  EarnedInv'
<1>0. /\ ImportanceEarned /\ OneReader /\ ReadIsCurrent /\ clash' = clash
      /\ \A i \in Live \ clash : mem[i].importance = Earned(mem[i].count)
      /\ \A q \in Process : q # p => proc'[q] = proc[q]
      /\ proc'[p].seen = {}
  BY EarnedAsSaid, TouchEffect DEF EarnedInv, Others
<1>1. \A i \in Id : IF Touched(p, i)
                    THEN /\ TheSeen(p, i) \in proc[p].seen /\ TheSeen(p, i).id = i
                         /\ mem'[i].state = "live" /\ mem'[i].importance = TheSeen(p, i).importance
                         /\ mem'[i].count = IF mem[i].count < Full THEN mem[i].count + 1 ELSE mem[i].count
                    ELSE mem'[i] = mem[i]
  BY TouchEffect
<1>2. ASSUME NEW i \in Id \ clash, Touched(p, i) PROVE mem'[i].importance = Earned(mem'[i].count)
  <2>1. i \in Live /\ mem[i].count \in Nat /\ mem[i].importance = Earned(mem[i].count)
    BY <1>0, <1>2 DEF Touched, MemoryTypeOK, Rows
  <2>2. mem'[i].importance = Boosted(Earned(mem[i].count))
    BY <1>0, <1>1, <1>2, <2>1 DEF ReadIsCurrent
  <2> QED
    BY <1>1, <1>2, <2>1, <2>2, BoostedEarned
<1>3. ImportanceEarned'
  <2>1. ASSUME NEW i \in Id \ clash, mem'[i].state = "live" PROVE mem'[i].importance = Earned(mem'[i].count)
    <3>1. CASE Touched(p, i)
      BY <1>2, <3>1
    <3>2. CASE ~Touched(p, i)
      BY <1>0, <1>1, <2>1, <3>2 DEF Live
    <3> QED
      BY <3>1, <3>2
  <2> QED
    BY <1>0, <2>1 DEF ImportanceEarned, Earned, Live
<1>4. OneReader'
  BY <1>0 DEF OneReader
<1>5. ReadIsCurrent'
  <2>1. ASSUME NEW i \in Id \ clash, NEW q \in Process, NEW s \in proc'[q].seen, s.id = i
        PROVE  mem'[i].state # "none" /\ (mem'[i].state = "live" => s.importance = Boosted(mem'[i].importance))
    <3>1. q # p /\ s \in proc[q].seen
      BY <1>0, <2>1
    <3>2. ~Touched(p, i)
      BY <1>0, <2>1, <3>1 DEF Touched, OneReader
    <3>3. mem'[i] = mem[i]
      BY <1>1, <3>2
    <3> QED
      BY <1>0, <2>1, <3>1, <3>3 DEF ReadIsCurrent, Live
  <2> QED
    BY <1>0, <2>1 DEF ReadIsCurrent, Live, Boosted
<1> QED
  BY <1>3, <1>4, <1>5 DEF EarnedInv

LEMMA EarnedStep ==
    ASSUME MemoryTypeOK, Holding, EarnedInv, [MemoryNext]_memoryVars
    PROVE  EarnedInv'
<1>1. CASE Quiet
  BY <1>1, EarnedKept DEF Quiet, Shrinks, Frees
<1>2. ASSUME NEW p \in Process, NEW fact \in Fact, NEW i \in Id, Adds(fact, i), UNCHANGED clash,
             \A q \in Process : proc'[q].seen \subseteq proc[q].seen
      PROVE  EarnedInv'
  BY <1>2, EarnedKept DEF Adds, Same
<1>3. ASSUME NEW p \in Call, Search(p) \/ Remembers(p) PROVE EarnedInv'
  <2>0. p \in Process
    BY DEF Process
  <2>1. CASE Search(p)
    BY <2>0, <2>1, SearchReads, EarnedReads
  <2>2. CASE Remembers(p)
    BY <1>2, <2>0, <2>2, RememberEffect DEF Remembers
  <2> QED
    BY <1>3, <2>1, <2>2
<1>4. ASSUME NEW c \in Conversation, Looks(c) \/ Learn(c) PROVE EarnedInv'
  <2>0. c \in Process
    BY DEF Process
  <2>1. CASE Looks(c)
    BY <2>0, <2>1, LooksReads, EarnedReads
  <2>2. CASE Learn(c)
    <3>1. UNCHANGED clash /\ \A q \in Process : proc'[q].seen \subseteq proc[q].seen
      BY <2>0, <2>2, LearnEffect DEF Others
    <3>2. CASE mem' = mem
      BY <3>1, <3>2, EarnedKept DEF Same
    <3> QED
      BY <1>2, <2>0, <2>2, <3>1, <3>2, LearnEffect
  <2> QED
    BY <1>4, <2>1, <2>2
<1>5. CASE UNCHANGED memoryVars
  BY <1>5, EarnedKept DEF memoryVars, histories, Same
<1> QED
  BY <1>1, <1>3, <1>4, <1>5, StepKinds, EarnedTouch, TidiesQuiet, AnswerQuiet, HandleQuiet, DropsQuiet, AgeQuiet, CrashQuiet

LEMMA EarnedInit == MemoryInit => EarnedInv
<1> SUFFICES ASSUME MemoryInit PROVE EarnedInv
  OBVIOUS
<1>1. PICK old \in Already : mem = [i \in Id |-> IF i \in DOMAIN old THEN Row(old[i].fact, old[i].kind, FALSE) ELSE NoRow]
  BY DEF MemoryInit
<1>2. ASSUME NEW i \in Live PROVE mem[i].importance = Base /\ mem[i].count = 0
  BY <1>1, NoRowIsRow DEF Live, Row
<1>3. \A p \in Process : proc[p].seen = {}
  BY NothingTyped DEF MemoryInit
<1> QED
  BY <1>2, <1>3, Numbers DEF EarnedInv, ImportanceEarned, OneReader, ReadIsCurrent

\* The importance of a memory is what it began with and one boost for each of
\* its recalls, up to the highest, unless two recalls read it before either
\* wrote (ImportanceEarned).
THEOREM RecallsAreCounted == MemorySpec => []ImportanceEarned
<1>1. MemoryInit => EarnedInv
  BY EarnedInit
<1>2. Invariant /\ EarnedInv /\ [MemoryNext]_memoryVars => EarnedInv'
  BY EarnedStep DEF Invariant
<1>3. EarnedInv => ImportanceEarned
  BY DEF EarnedInv
<1> QED
  BY <1>1, <1>2, <1>3, AlwaysInvariant, PTL DEF MemorySpec

-----------------------------------------------------------------------------
(* One memory of a fact.                                                   *)

LEMMA OfTyped == ASSUME NEW fact \in Fact PROVE \A i : i \in Of(fact) <=> i \in Id /\ mem[i].state = "live" /\ mem[i].fact = fact
BY DEF Of, Live

\* The invariant of one fact.
OnceOf(fact) ==
    /\ ~SaidTwice(fact)
    /\ \A p \in Process : proc[p].fact = fact /\ ~proc[p].known => Writers(fact) = {p} /\ Of(fact) = {}

LEMMA OnceParts == OnceInv <=> \A fact \in Fact \ doubled : OnceOf(fact)
BY DEF OnceInv, OneMemoryPerFact, OneWriter, OnceOf

LEMMA OnceAll == ASSUME \A fact \in Fact \ doubled' : OnceOf(fact)' PROVE OnceInv'
BY DEF OnceInv, OneMemoryPerFact, OneWriter, OnceOf

\* No memory and no process is new to the fact.
LEMMA OnceKept ==
    ASSUME NEW fact \in Fact, OnceOf(fact),
           \A i \in Id : mem'[i].state = "live" /\ mem'[i].fact = fact => mem[i].state = "live" /\ mem[i].fact = fact,
           \A p \in Process : proc'[p].fact = fact => proc[p].fact = fact /\ proc'[p].known = proc[p].known
    PROVE  OnceOf(fact)'
<1>1. Of(fact)' \subseteq Of(fact)
  BY DEF Of, Live
<1>2. ~SaidTwice(fact)'
  BY <1>1 DEF OnceOf, SaidTwice
<1>3. ASSUME NEW p \in Process, proc'[p].fact = fact, ~proc'[p].known PROVE Writers(fact)' = {p} /\ Of(fact)' = {}
  <2>1. Writers(fact) = {p} /\ Of(fact) = {}
    BY <1>3 DEF OnceOf
  <2>2. Writers(fact)' \subseteq Writers(fact) /\ p \in Writers(fact)'
    BY <1>3 DEF Writers
  <2> QED
    BY <1>1, <2>1, <2>2
<1> QED
  BY <1>2, <1>3 DEF OnceOf

\* Its first memory is written, and its only writer leaves it.
LEMMA OnceAdded ==
    ASSUME NEW fact \in Fact, NEW i \in Id, Adds(fact, i), Of(fact) = {},
           \A p \in Process : proc'[p].fact # fact
    PROVE  OnceOf(fact)'
<1>1. Of(fact)' \subseteq {i}
  BY DEF Of, Live, Adds
<1>2. ~SaidTwice(fact)'
  BY <1>1 DEF SaidTwice
<1> QED
  BY <1>2 DEF OnceOf

LEMMA AddsElsewhere ==
    ASSUME NEW fact, NEW i \in Id, Adds(fact, i), NEW other, other # fact
    PROVE  \A j \in Id : mem'[j].state = "live" /\ mem'[j].fact = other => mem[j].state = "live" /\ mem[j].fact = other
BY DEF Adds

LEMMA OnceQuiet == ASSUME MemoryTypeOK, OnceInv, Quiet PROVE OnceInv'
<1>1. ASSUME NEW fact \in Fact \ doubled PROVE OnceOf(fact)'
  <2>1. fact # Nil
    BY MemoryAssumption
  <2>2. \A i \in Id : mem'[i].state = "live" /\ mem'[i].fact = fact => mem[i].state = "live" /\ mem[i].fact = fact
    BY DEF Quiet, Shrinks, Same
  <2>3. \A p \in Process : proc'[p].fact = fact => proc[p].fact = fact /\ proc'[p].known = proc[p].known
    BY <2>1 DEF Quiet, Frees
  <2> QED
    BY <2>2, <2>3, OnceParts, OnceKept
<1> QED
  BY <1>1, OnceAll DEF Quiet

LEMMA OnceSearch == ASSUME MemoryTypeOK, Holding, OnceInv, NEW p \in Call, Search(p) PROVE OnceInv'
<1>0. mem' = mem /\ proc'[p].fact = Nil /\ doubled' = doubled /\ \A q \in Process : q # p => proc'[q] = proc[q]
  BY SearchReads DEF Reads, Others
<1>1. ASSUME NEW fact \in Fact \ doubled PROVE OnceOf(fact)'
  <2>1. fact # Nil
    BY MemoryAssumption
  <2>2. \A q \in Process : proc'[q].fact = fact => proc[q].fact = fact /\ proc'[q].known = proc[q].known
    BY <1>0, <2>1
  <2> QED
    BY <1>0, <2>2, OnceParts, OnceKept
<1> QED
  BY <1>0, <1>1, OnceAll

LEMMA OnceTouch == ASSUME MemoryTypeOK, OnceInv, NEW p \in Process, Touch(p) PROVE OnceInv'
<1>0. doubled' = doubled /\ \A q \in Process : q # p => proc'[q] = proc[q]
  BY TouchEffect DEF Others
<1>1. ASSUME NEW fact \in Fact \ doubled PROVE OnceOf(fact)'
  <2>1. fact # Nil
    BY MemoryAssumption
  <2>2. proc'[p].fact = fact => proc[p].fact = fact /\ proc'[p].known = proc[p].known
    BY <2>1, TouchEffect, NothingTyped
  <2>3. \A i \in Id : mem'[i].state = "live" /\ mem'[i].fact = fact => mem[i].state = "live" /\ mem[i].fact = fact
    <3>1. ASSUME NEW i \in Id, mem'[i].state = "live", mem'[i].fact = fact PROVE mem[i].state = "live" /\ mem[i].fact = fact
      <4>1. CASE Touched(p, i)
        BY <3>1, <4>1, TouchEffect DEF Touched, Live
      <4>2. CASE ~Touched(p, i)
        BY <3>1, <4>2, TouchEffect
      <4> QED
        BY <4>1, <4>2
    <3> QED
      BY <3>1
  <2> QED
    BY <1>0, <2>2, <2>3, OnceParts, OnceKept
<1> QED
  BY <1>0, <1>1, OnceAll

\* Who does not find a fact has it counted as written twice, if it is.
LEMMA DoublesSays ==
    ASSUME MemoryTypeOK, NEW p, NEW fact \in Fact, doubled' = Doubles(p, fact)
    PROVE  /\ doubled \subseteq doubled' /\ doubled' \subseteq doubled \cup {fact}
           /\ fact \notin doubled' => Of(fact) = {} /\ Writers(fact) \ {p} = {}
BY DEF Doubles

LEMMA OnceLooks == ASSUME MemoryTypeOK, Holding, OnceInv, NEW c \in Conversation, Looks(c) PROVE OnceInv'
<1>0. PICK fact \in Fact :
          /\ \E found \in SUBSET Live : Reads(c, found)
          /\ proc'[c].fact = fact /\ proc[c].pc = "next"
          /\ IF proc'[c].known THEN doubled' = doubled /\ Of(fact) # {} ELSE doubled' = Doubles(c, fact)
  BY LooksReads
<1>1. /\ c \in Process /\ mem' = mem /\ \A q \in Process : q # c => proc'[q] = proc[q]
      /\ proc[c].fact = Nil /\ doubled \subseteq doubled'
  BY <1>0, DoublesSays DEF Reads, Others, Holding, Process
<1>2. ASSUME NEW other \in Fact \ doubled', other # fact PROVE OnceOf(other)'
  <2>1. \A q \in Process : proc'[q].fact = other => proc[q].fact = other /\ proc'[q].known = proc[q].known
    BY <1>0, <1>1, <1>2
  <2> QED
    BY <1>1, <2>1, OnceParts, OnceKept
<1>3. ASSUME fact \notin doubled' PROVE OnceOf(fact)'
  <2>0. OnceOf(fact) /\ Of(fact)' = Of(fact)
    BY <1>1, <1>3, OnceParts DEF Of, Live
  <2>1. ~SaidTwice(fact)'
    BY <2>0 DEF OnceOf, SaidTwice
  <2>2. ASSUME NEW p \in Process, proc'[p].fact = fact, ~proc'[p].known PROVE Writers(fact)' = {p} /\ Of(fact)' = {}
    <3>1. CASE proc'[c].known
      <4>1. Of(fact) # {} /\ p # c
        BY <1>0, <2>2, <3>1
      <4> QED
        BY <1>1, <2>0, <2>2, <4>1 DEF OnceOf
    <3>2. CASE ~proc'[c].known
      <4>1. Of(fact) = {} /\ Writers(fact) \ {c} = {}
        BY <1>0, <1>3, <3>2, DoublesSays
      <4>2. Writers(fact)' = {c}
        BY <1>0, <1>1, <4>1 DEF Writers
      <4>3. p \in Writers(fact)'
        BY <2>2 DEF Writers
      <4> QED
        BY <2>0, <4>1, <4>2, <4>3
    <3> QED
      BY <3>1, <3>2
  <2> QED
    BY <2>1, <2>2 DEF OnceOf
<1> QED
  BY <1>2, <1>3, OnceAll

LEMMA OnceLearn == ASSUME MemoryTypeOK, Holding, OnceInv, NEW c \in Conversation, Learn(c) PROVE OnceInv'
<1> PICK said : said = proc[c].fact
  OBVIOUS
<1>0. /\ c \in Process /\ said \in Fact /\ doubled' = doubled /\ proc'[c].fact = Nil
      /\ \A q \in Process : q # c => proc'[q] = proc[q]
      /\ \/ proc[c].known /\ mem' = mem
         \/ ~proc[c].known /\ \E i \in Id : Adds(said, i)
  BY LearnEffect DEF Others, Process
<1>1. \A fact \in Fact : \A q \in Process : proc'[q].fact = fact => proc[q].fact = fact /\ proc'[q].known = proc[q].known
  BY <1>0, MemoryAssumption
<1>2. CASE mem' = mem
  BY <1>0, <1>1, <1>2, OnceParts, OnceKept, OnceAll
<1>3. ASSUME ~proc[c].known, NEW i \in Id, Adds(said, i) PROVE OnceInv'
  <2>1. ASSUME NEW fact \in Fact \ doubled, fact # said PROVE OnceOf(fact)'
    BY <1>1, <1>3, <2>1, AddsElsewhere, OnceParts, OnceKept
  <2>2. ASSUME said \notin doubled PROVE OnceOf(said)'
    <3>1. Writers(said) = {c} /\ Of(said) = {}
      BY <1>0, <1>3, <2>2, OnceParts DEF OnceOf
    <3>2. \A q \in Process : proc'[q].fact # said
      BY <1>0, <3>1, MemoryAssumption DEF Writers
    <3> QED
      BY <1>0, <1>3, <3>1, <3>2, OnceAdded
  <2> QED
    BY <1>0, <2>1, <2>2, OnceAll
<1> QED
  BY <1>0, <1>2, <1>3

LEMMA OnceRemember == ASSUME MemoryTypeOK, Holding, OnceInv, NEW p \in Call, Remembers(p) PROVE OnceInv'
<1>0. PICK fact \in Fact, kind \in {"temporary", "permanent"} : Remember(p, fact, kind)
  BY DEF Remembers
<1>1. doubled' = Doubles(p, fact) /\ proc' = proc
  BY <1>0, RememberEffect
<1>2. PICK i \in Id : Adds(fact, i)
  BY <1>0, RememberEffect
<1>3. ASSUME NEW other \in Fact \ doubled', other # fact PROVE OnceOf(other)'
  BY <1>1, <1>2, <1>3, DoublesSays, AddsElsewhere, OnceParts, OnceKept
<1>4. ASSUME fact \notin doubled' PROVE OnceOf(fact)'
  <2>1. Of(fact) = {} /\ Writers(fact) \ {p} = {}
    BY <1>1, <1>4, DoublesSays
  <2>2. \A q \in Process : proc'[q].fact # fact
    BY <1>1, <2>1, MemoryAssumption DEF Writers, Holding
  <2> QED
    BY <1>2, <2>1, <2>2, OnceAdded
<1> QED
  BY <1>3, <1>4, OnceAll

LEMMA OnceStep == ASSUME MemoryTypeOK, Holding, OnceInv, [MemoryNext]_memoryVars PROVE OnceInv'
<1>1. CASE UNCHANGED memoryVars
  BY <1>1, SameMem, SameProc, OnceQuiet DEF memoryVars, histories, Quiet
<1>2. ASSUME NEW p \in Call, Tidies(p) PROVE OnceInv'
  BY <1>2, TidiesQuiet, OnceQuiet
<1> QED
  BY <1>1, <1>2, StepKinds, OnceQuiet, OnceSearch, OnceTouch, OnceLooks, OnceLearn, OnceRemember,
     AnswerQuiet, HandleQuiet, DropsQuiet, AgeQuiet, CrashQuiet

LEMMA OnceInit == MemoryInit => OnceInv
<1> SUFFICES ASSUME MemoryInit PROVE OnceInv
  OBVIOUS
<1>1. \A p \in Process : proc[p].fact = Nil
  BY NothingTyped DEF MemoryInit
<1>2. doubled = {fact \in Fact : SaidTwice(fact)}
  BY DEF MemoryInit
<1> QED
  BY <1>1, <1>2, MemoryAssumption DEF OnceInv, OneMemoryPerFact, OneWriter

\* A fact is remembered once, however reflections overlap each other, calls of
\* the skills and crashes, except where two writers could not see each other,
\* the search failed, a stronger memory hid the one that was there, or the user
\* said it again (OneMemoryPerFact).
THEOREM LearnedOnce == MemorySpec => []OneMemoryPerFact
<1>1. MemoryInit => OnceInv
  BY OnceInit
<1>2. Invariant /\ OnceInv /\ [MemoryNext]_memoryVars => OnceInv'
  BY OnceStep DEF Invariant
<1>3. OnceInv => OneMemoryPerFact
  BY DEF OnceInv
<1> QED
  BY <1>1, <1>2, <1>3, AlwaysInvariant, PTL DEF MemorySpec
===============================================================================
