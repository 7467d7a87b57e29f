---------------------------- MODULE IngestionProofs ----------------------------
(***************************************************************************)
(* Proofs about the ingestion of module Ingestion: its type correctness,   *)
(* that what is indexed is current, that no version is forgotten and that  *)
(* an attachment says what can be cited from it.                           *)
(***************************************************************************)
EXTENDS Ingestion, TLAPS

-----------------------------------------------------------------------------
(* The invariants.                                                         *)

Process == Docs \cup Request

\* What a call holds at each place.
Holds(e) ==
    /\ e.pc \in {"register", "reset", "publish", "process"} <=> e.doc # None
    /\ e.pc \notin {"idle", "over"} => e.op \in {"scan", "force", "ingest", "enqueue", "attach"}
    /\ e.pc = "publish" => e.op \in {"scan", "force", "enqueue"}
    /\ e.pc = "process" => e.op \in {"ingest", "attach"}
    /\ e.doc # None => e.hash # None

\* What a run holds at each place.
Shaped(e) ==
    /\ e.pc = "idle" => e.raw = None
    /\ e.pc \in {"work", "save"} => e.context.done < 6
    /\ e.pc \in {"mark", "indexed"} => e.context.done = 6

\* A run is a worker's with an event, or of a call that waits.
Holding ==
    /\ \A r \in Request : /\ Holds(req[r])
                          /\ req[r].pc \in {"reset", "publish", "process"} => row[req[r].doc].hash # None
                          /\ run[r].pc # "idle" => req[r].pc = "process"
    /\ \A d \in Docs : /\ run[d].pc # "idle" => queue[d] > 0
                       /\ queue[d] > 0 => row[d].hash # None
    /\ \A p \in Process : Shaped(run[p])

\* What has gone through n stages is of the content h: the context c, and the
\* chunks k.
Good(c, n, h, k) ==
    /\ c.text \in {None, h} /\ c.chunks \in {None, h}
    /\ n >= 1 => c.text = h
    /\ n >= 3 => c.chunks = h
    /\ n >= 4 => k.text = h
    /\ n >= 5 => k.vectors = h

\* How many stages what a run holds has gone through.
Gone(e) == IF e.pc = "save" THEN e.context.done + 1 ELSE e.context.done

\* A run holds what is of the content h, and no less than what is saved.
Carries(e, h, k, saved) ==
    /\ e.raw \in {None, h}
    /\ e.pc = "work" => e.raw = h
    /\ Good(e.context, Gone(e), h, k)
    /\ saved <= e.context.done

\* Of a document nobody raced for, who is there is alone, with the content of
\* the file.
Alone(d) ==
    /\ \A r, q \in Callers(d) : r = q
    /\ Callers(d) # {} => queue[d] = 0
    /\ queue[d] <= 1
    /\ \A r \in Callers(d) : disk[d] = IF req[r].pc = "register" THEN req[r].hash ELSE row[d].hash
    /\ queue[d] > 0 => disk[d] = row[d].hash

\* ... and what it left, and holds, is of that content.
Coming(d) == queue[d] > 0 \/ \E r \in Callers(d) : req[r].pc \in {"publish", "process"}
OfContent(d) ==
    /\ Coming(d) => Good(ctx[d], ctx[d].done, row[d].hash, chunks[d])
    /\ \A p \in Process : run[p].pc \notin {"idle", "failed"} /\ DocOf(p) = d =>
         Carries(run[p], row[d].hash, chunks[d], ctx[d].done)

CurrentInv == \A d \in Docs : ~raced[d] => Alone(d) /\ OfContent(d)

\* Who will take the version of a document to its end.
Ended(p) == run[p].pc \in {"indexed", "failed"}
Taker(d) ==
    \/ \E r \in Callers(d) : req[r].pc \in {"reset", "publish", "process"} /\ ~Ended(r)
    \/ queue[d] > IF Ended(d) THEN 1 ELSE 0
    \/ dropped[d]
ForgottenInv ==
    \A d \in Docs : row[d].hash # None /\ ~row[d].stamped /\ row[d].state # "failed" => Taker(d)

\* An attachment has one call, and no event.
OneCall(u) ==
    /\ queue[u] = 0 /\ ~raced[u]
    /\ \A r, q \in Sent(u) : r = q
    /\ \A r \in Sent(u) : req[r].op = "attach" /\ attachment[u] = "pending"
    /\ \A r \in Request : u \in req[r].todo => req[r].pc = "read" /\ req[r].todo = {u}
    /\ \A r \in Sent(u) : req[r].pc \in {"read", "register"} => row[u].hash = None
    /\ \A r \in Callers(u) : At(r, "failed") => row[u].state = "failed"
    /\ attachment[u] = "none" => row[u].hash = None
    /\ attachment[u] # "none" => disk[u] # None
AttachmentInv == AttachmentHonest /\ \A u \in Upload : OneCall(u)

-----------------------------------------------------------------------------
(* What the operators return.                                              *)

Ops == {"scan", "force", "ingest", "enqueue", "attach", None}
Labels == {"idle", "read", "register", "reset", "publish", "process", "over"}
Places == {"idle", "stage", "work", "save", "mark", "indexed", "failed"}

LEMMA SixStages ==
    /\ Stages = 6
    /\ \A d : /\ Plan(d)[1] \in {"extract", "ocr"} /\ Plan(d)[2] = "metadata" /\ Plan(d)[3] = "chunk"
              /\ Plan(d)[4] = "index" /\ Plan(d)[5] = "embedding" /\ Plan(d)[6] = "kg"
BY DEF Stages, Plan

LEMMA StageIsOf ==
    ASSUME NEW p, Context(p).done \in 0..5
    PROVE  /\ StateOf(Stage(p)) \in RowStates
           /\ Stage(p) = "extract" => Context(p).done = 0
           /\ Stage(p) = "metadata" => Context(p).done = 1
           /\ Stage(p) = "chunk" => Context(p).done = 2
           /\ Stage(p) = "index" => Context(p).done = 3
           /\ Stage(p) = "embedding" => Context(p).done = 4
           /\ Stage(p) = "kg" => Context(p).done = 5
<1> DEFINE n == Context(p).done
<1>1. n = 0 \/ n = 1 \/ n = 2 \/ n = 3 \/ n = 4 \/ n = 5
  OBVIOUS
<1>2. Stage(p) = Plan(DocOf(p))[n + 1]
  BY DEF Stage
<1> HIDE DEF n
<1>3. \/ n = 0 /\ Stage(p) \in {"extract", "ocr"}
      \/ n = 1 /\ Stage(p) = "metadata"
      \/ n = 2 /\ Stage(p) = "chunk"
      \/ n = 3 /\ Stage(p) = "index"
      \/ n = 4 /\ Stage(p) = "embedding"
      \/ n = 5 /\ Stage(p) = "kg"
  BY <1>1, <1>2, SixStages
<1>4. \A stage \in {"extract", "ocr", "metadata", "chunk", "index", "embedding", "kg"} : StateOf(stage) \in RowStates
  BY DEF StateOf, RowStates
<1> QED
  BY <1>3, <1>4 DEF n

LEMMA Nothings ==
    /\ NoContext \in Contexts /\ NoContext.text = None /\ NoContext.chunks = None /\ NoContext.done = 0
    /\ NoRun \in RunStates /\ NoRun.pc = "idle" /\ NoRun.raw = None
    /\ NoRequest \in Requests /\ NoRequest.pc = "idle" /\ NoRequest.doc = None /\ NoRequest.hash = None
    /\ NoRequest.todo = {} /\ NoRequest.op = None
<1>1. NoContext \in Contexts
  BY SixStages DEF NoContext, Contexts, Hash
<1>2. NoContext.text = None /\ NoContext.chunks = None /\ NoContext.done = 0
  BY DEF NoContext
<1>3. NoRun \in RunStates
  BY <1>1 DEF NoRun, RunStates, Hash
<1>4. NoRun.pc = "idle" /\ NoRun.raw = None
  BY DEF NoRun
<1>5. NoRequest \in Requests
  BY DEF NoRequest, Requests, Hash
<1>6. NoRequest.pc = "idle" /\ NoRequest.doc = None /\ NoRequest.hash = None /\ NoRequest.todo = {} /\ NoRequest.op = None
  BY DEF NoRequest
<1> QED
  BY <1>1, <1>2, <1>3, <1>4, <1>5, <1>6

LEMMA RequestFields ==
    ASSUME NEW e \in Requests
    PROVE  e.pc \in Labels /\ e.op \in Ops /\ e.doc \in Docs \cup {None} /\ e.hash \in Hash /\ e.todo \in SUBSET Docs
BY DEF Requests, Labels, Ops

LEMMA RunFields ==
    ASSUME NEW e \in RunStates
    PROVE  /\ e.pc \in Places /\ e.raw \in Hash /\ e.context \in Contexts
           /\ e.context.text \in Hash /\ e.context.chunks \in Hash /\ e.context.done \in 0..6
BY SixStages DEF RunStates, Places, Contexts

-----------------------------------------------------------------------------
(* What becomes of a call, and of a run.                                   *)

OthersReq(r) == \A q \in Request : q # r => req'[q] = req[q]
OthersRun(p) == \A q \in Process : q # p => run'[q] = run[q]

LEMMA ReqEffect ==
    ASSUME TypeOK, NEW r \in Request, NEW e \in Requests, req' = [req EXCEPT ![r] = e]
    PROVE  req' \in [Request -> Requests] /\ req'[r] = e /\ OthersReq(r)
BY DEF TypeOK, OthersReq

LEMMA RunEffect ==
    ASSUME TypeOK, NEW p \in Process, NEW e \in RunStates, run' = [run EXCEPT ![p] = e]
    PROVE  run' \in [Process -> RunStates] /\ run'[p] = e /\ OthersRun(p)
BY DEF TypeOK, OthersRun, Process

LEMMA GotoEffect ==
    ASSUME TypeOK, NEW r \in Request, NEW label \in Labels, Goto(r, label)
    PROVE  /\ req' \in [Request -> Requests] /\ OthersReq(r)
           /\ req'[r].pc = label /\ req'[r].op = req[r].op /\ req'[r].doc = req[r].doc
           /\ req'[r].hash = req[r].hash /\ req'[r].todo = req[r].todo
<1> DEFINE e == [req[r] EXCEPT !.pc = label]
<1>0. req[r] \in Requests
  BY DEF TypeOK
<1>1. /\ e \in Requests /\ e.pc = label /\ e.op = req[r].op /\ e.doc = req[r].doc /\ e.hash = req[r].hash
      /\ e.todo = req[r].todo
  BY <1>0 DEF Requests, Labels
<1>2. req' = [req EXCEPT ![r] = e]
  BY DEF Goto
<1> HIDE DEF e
<1> QED
  BY <1>1, <1>2, ReqEffect

\* A call at its end, or at the next file.
LEMMA LeavesEffect ==
    ASSUME TypeOK, NEW r \in Request, Leaves(r)
    PROVE  /\ req' \in [Request -> Requests] /\ OthersReq(r)
           /\ req'[r].pc = "over" /\ req'[r].doc = None /\ req'[r].todo = {}
<1> DEFINE e == [NoRequest EXCEPT !.pc = "over"]
<1>1. e \in Requests /\ e.pc = "over" /\ e.doc = None /\ e.todo = {}
  BY Nothings DEF Requests
<1>2. req' = [req EXCEPT ![r] = e]
  BY DEF Leaves
<1> HIDE DEF e
<1> QED
  BY <1>1, <1>2, ReqEffect

LEMMA NextItemEffect ==
    ASSUME TypeOK, NEW r \in Request, NextItem(r)
    PROVE  /\ req' \in [Request -> Requests] /\ OthersReq(r)
           /\ req'[r].pc \in {"read", "over"} /\ req'[r].doc = None /\ req'[r].todo = req[r].todo
           /\ req'[r].pc = "read" => req'[r].op = req[r].op
<1>1. CASE req[r].todo = {}
  BY <1>1, LeavesEffect DEF NextItem
<1>2. CASE req[r].todo # {}
  <2> DEFINE e == [req[r] EXCEPT !.pc = "read", !.doc = None, !.hash = None]
  <2>0. req[r] \in Requests
    BY DEF TypeOK
  <2>1. e \in Requests /\ e.pc = "read" /\ e.doc = None /\ e.op = req[r].op /\ e.todo = req[r].todo
    BY <2>0 DEF Requests, Hash
  <2>2. req' = [req EXCEPT ![r] = e]
    BY <1>2 DEF NextItem
  <2> HIDE DEF e
  <2> QED
    BY <2>1, <2>2, ReqEffect
<1> QED
  BY <1>1, <1>2

-----------------------------------------------------------------------------
(* The steps of a run.                                                     *)

LEMMA RunDoc ==
    ASSUME TypeOK, Holding, NEW p \in Process, p \in Docs \/ req[p].pc = "process"
    PROVE  DocOf(p) \in Docs /\ (p \in Docs => DocOf(p) = p) /\ (p \notin Docs => p \in Request /\ DocOf(p) = req[p].doc /\ p \in Callers(DocOf(p)))
<1>1. CASE p \in Docs
  BY <1>1 DEF DocOf
<1>2. CASE p \notin Docs
  <2>1. p \in Request /\ req[p].pc = "process"
    BY <1>2 DEF Process
  <2>2. req[p].doc # None
    BY <2>1 DEF Holding, Holds
  <2>3. req[p] \in Requests
    BY <2>1 DEF TypeOK
  <2> QED
    BY <1>2, <2>1, <2>2, <2>3, RequestFields DEF DocOf, Callers
<1> QED
  BY <1>1, <1>2

LEMMA Active ==
    ASSUME TypeOK, Holding, NEW p \in Process, run[p].pc # "idle"
    PROVE  /\ DocOf(p) \in Docs /\ row[DocOf(p)].hash # None /\ Coming(DocOf(p))
           /\ p \in Docs => DocOf(p) = p /\ queue[p] > 0
           /\ p \notin Docs => p \in Request /\ DocOf(p) = req[p].doc /\ req[p].pc = "process" /\ p \in Callers(DocOf(p))
<1>1. p \in Docs => queue[p] > 0
  BY DEF Holding
<1>2. p \notin Docs => p \in Request /\ req[p].pc = "process"
  BY DEF Holding, Process
<1> QED
  BY <1>1, <1>2, RunDoc DEF Holding, Coming

\* One step of p within its run: the version stays, and no other document is
\* touched.
InRun(p) ==
    /\ run' \in [Process -> RunStates] /\ OthersRun(p) /\ run[p].pc # "idle" /\ run'[p].pc # "idle"
    /\ UNCHANGED <<disk, queue, tries, req, attachment, edits, crashes, abandoned, raced, dropped>>
    /\ row' \in [Docs -> [hash : Hash, state : RowStates, stamped : BOOLEAN]]
    /\ ctx' \in [Docs -> Contexts] /\ chunks' \in [Docs -> [text : Hash, vectors : Hash]]
    /\ \A d \in Docs : row'[d].hash = row[d].hash
    /\ \A d \in Docs : d # DocOf(p) => row'[d] = row[d] /\ ctx'[d] = ctx[d] /\ chunks'[d] = chunks[d]

LEMMA SetStateEffect ==
    ASSUME TypeOK, NEW d \in Docs, NEW state \in RowStates, SetState(d, state)
    PROVE  /\ row' \in [Docs -> [hash : Hash, state : RowStates, stamped : BOOLEAN]]
           /\ \A e \in Docs : row'[e].hash = row[e].hash /\ row'[e].stamped = row[e].stamped
           /\ row'[d].state = state /\ \A e \in Docs : e # d => row'[e] = row[e]
BY DEF TypeOK, SetState

LEMMA MarkEffect ==
    ASSUME TypeOK, NEW d \in Docs, MarkIndexed(d)
    PROVE  /\ row' \in [Docs -> [hash : Hash, state : RowStates, stamped : BOOLEAN]]
           /\ \A e \in Docs : row'[e].hash = row[e].hash /\ row'[e].state = row[e].state
           /\ row'[d].stamped = TRUE /\ \A e \in Docs : e # d => row'[e] = row[e]
BY DEF TypeOK, MarkIndexed

LEMMA EnterEffect ==
    ASSUME TypeOK, Holding, NEW p \in Process, Enter(p)
    PROVE  /\ InRun(p) /\ run[p].pc = "stage" /\ run'[p].pc = "work" /\ run'[p].context = run[p].context
           /\ run'[p].raw = IF run[p].raw = None THEN disk[DocOf(p)] ELSE run[p].raw
           /\ Context(p).done < 6 /\ UNCHANGED <<ctx, chunks>>
           /\ \A d \in Docs : row'[d].stamped = row[d].stamped
<1>0. run[p] \in RunStates /\ run[p].pc = "stage" /\ DocOf(p) \in Docs /\ Context(p).done \in 0..5
  <2>1. run[p] \in RunStates /\ run[p].pc = "stage"
    BY DEF TypeOK, Enter, At, Process
  <2> QED
    BY <2>1, Active, RunFields, SixStages DEF Enter, Context
<1> DEFINE e == [run[p] EXCEPT !.pc = "work", !.raw = IF run[p].raw = None THEN disk[DocOf(p)] ELSE run[p].raw]
<1>1. /\ e \in RunStates /\ e.pc = "work" /\ e.context = run[p].context
      /\ e.raw = IF run[p].raw = None THEN disk[DocOf(p)] ELSE run[p].raw
  <2>1. disk[DocOf(p)] \in Hash
    BY <1>0 DEF TypeOK
  <2> QED
    BY <1>0, <2>1 DEF RunStates
<1>2. run' = [run EXCEPT ![p] = e]
  BY Zenon DEF Enter
<1> HIDE DEF e
<1>3. run' \in [Process -> RunStates] /\ run'[p] = e /\ OthersRun(p)
  BY <1>1, <1>2, RunEffect
<1>4. /\ row' \in [Docs -> [hash : Hash, state : RowStates, stamped : BOOLEAN]]
      /\ \A d \in Docs : row'[d].hash = row[d].hash /\ row'[d].stamped = row[d].stamped
      /\ \A d \in Docs : d # DocOf(p) => row'[d] = row[d]
  <2>1. SetState(DocOf(p), StateOf(Stage(p))) /\ StateOf(Stage(p)) \in RowStates
    BY <1>0, StageIsOf DEF Enter
  <2> QED
    BY <1>0, <2>1, SetStateEffect
<1>5. UNCHANGED <<disk, queue, tries, req, attachment, edits, crashes, abandoned, raced, dropped, ctx, chunks>>
  BY DEF Enter, bus, bounds
<1>6. ctx' \in [Docs -> Contexts] /\ chunks' \in [Docs -> [text : Hash, vectors : Hash]]
  BY <1>5 DEF TypeOK
<1> QED
  BY <1>0, <1>1, <1>3, <1>4, <1>5, <1>6 DEF InRun

LEMMA WorkEffect ==
    ASSUME TypeOK, Holding, NEW p \in Process, Work(p)
    PROVE  /\ InRun(p) /\ run[p].pc = "work" /\ run'[p].pc = "save" /\ run'[p].raw = run[p].raw
           /\ run'[p].context.done = Context(p).done /\ UNCHANGED <<row, ctx>>
           /\ \/ /\ Context(p).done = 0 /\ chunks' = chunks
                 /\ run'[p].context.text = run[p].raw /\ run'[p].context.chunks = Context(p).chunks
              \/ Context(p).done \in {1, 5} /\ chunks' = chunks /\ run'[p].context = Context(p)
              \/ /\ Context(p).done = 2 /\ chunks' = chunks /\ Context(p).text # None
                 /\ run'[p].context.text = Context(p).text /\ run'[p].context.chunks = Context(p).text
              \/ /\ Context(p).done = 3 /\ run'[p].context = Context(p) /\ Context(p).chunks # None
                 /\ chunks'[DocOf(p)].text = Context(p).chunks
              \/ /\ Context(p).done = 4 /\ run'[p].context = Context(p) /\ Context(p).chunks # None
                 /\ chunks'[DocOf(p)].text = chunks[DocOf(p)].text
                 /\ chunks[DocOf(p)].text # None => chunks'[DocOf(p)].vectors = Context(p).chunks
<1> DEFINE d == DocOf(p)
           c == Context(p)
<1>0. run[p] \in RunStates /\ run[p].pc = "work" /\ d \in Docs /\ c \in Contexts /\ run[p].raw \in Hash
      /\ c.text \in Hash /\ c.chunks \in Hash /\ c.done \in 0..6
  <2>1. run[p] \in RunStates /\ run[p].pc = "work"
    BY DEF TypeOK, Work, At, Process
  <2> QED
    BY <2>1, Active, RunFields DEF Context
<1>1. ASSUME NEW context \in Contexts, Gives(p, context)
      PROVE  /\ run' \in [Process -> RunStates] /\ OthersRun(p) /\ run'[p].pc = "save" /\ run'[p].raw = run[p].raw
             /\ run'[p].context = context
  <2> DEFINE e == [run[p] EXCEPT !.pc = "save", !.context = context]
  <2>1. e \in RunStates /\ e.pc = "save" /\ e.raw = run[p].raw /\ e.context = context
    BY <1>0 DEF RunStates
  <2>2. run' = [run EXCEPT ![p] = e]
    BY <1>1 DEF Gives
  <2> HIDE DEF e
  <2> QED
    BY <2>1, <2>2, RunEffect
<1>2. UNCHANGED <<disk, queue, tries, req, attachment, edits, crashes, abandoned, raced, dropped, row, ctx>>
  BY DEF Work, bus, bounds
<1>3. ASSUME NEW context \in Contexts, Gives(p, context), chunks' \in [Docs -> [text : Hash, vectors : Hash]],
             \A e \in Docs : e # d => chunks'[e] = chunks[e]
      PROVE  InRun(p)
  <2>1. run' \in [Process -> RunStates] /\ OthersRun(p) /\ run'[p].pc # "idle"
    BY <1>1, <1>3
  <2>2. row' \in [Docs -> [hash : Hash, state : RowStates, stamped : BOOLEAN]] /\ ctx' \in [Docs -> Contexts]
    BY <1>2 DEF TypeOK
  <2> QED
    BY <1>0, <1>2, <1>3, <2>1, <2>2 DEF InRun
<1>4. chunks \in [Docs -> [text : Hash, vectors : Hash]]
  BY DEF TypeOK
<1>5. c.done \in 0..5
  BY <1>0 DEF Holding, Shaped, Context
<1>6. /\ Stage(p) = "extract" => c.done = 0
      /\ Stage(p) = "metadata" => c.done = 1
      /\ Stage(p) = "chunk" => c.done = 2
      /\ Stage(p) = "index" => c.done = 3
      /\ Stage(p) = "embedding" => c.done = 4
      /\ Stage(p) = "kg" => c.done = 5
  BY <1>5, StageIsOf
<1>7. CASE Extract(p)
  <2> DEFINE context == [c EXCEPT !.text = run[p].raw]
  <2>1. context \in Contexts /\ context.text = run[p].raw /\ context.chunks = c.chunks /\ context.done = c.done
    BY <1>0 DEF Contexts
  <2>2. Gives(p, context) /\ chunks' = chunks /\ Stage(p) = "extract"
    BY <1>7 DEF Extract
  <2> HIDE DEF context
  <2> QED
    BY <1>0, <1>1, <1>2, <1>3, <1>4, <1>6, <2>1, <2>2
<1>8. CASE Metadata(p) \/ Graph(p)
  <2>1. Gives(p, c) /\ chunks' = chunks /\ Stage(p) \in {"metadata", "kg"}
    BY <1>8 DEF Metadata, Graph
  <2> QED
    BY <1>0, <1>1, <1>2, <1>3, <1>4, <1>6, <2>1
<1>9. CASE Chunk(p)
  <2> DEFINE context == [c EXCEPT !.chunks = c.text]
  <2>1. context \in Contexts /\ context.text = c.text /\ context.chunks = c.text /\ context.done = c.done
    BY <1>0 DEF Contexts
  <2>2. Gives(p, context) /\ chunks' = chunks /\ Stage(p) = "chunk" /\ c.text # None
    BY <1>9 DEF Chunk
  <2> HIDE DEF context
  <2> QED
    BY <1>0, <1>1, <1>2, <1>3, <1>4, <1>6, <2>1, <2>2
<1>10. CASE Index(p)
  <2>1. Gives(p, c) /\ ReplaceChunks(d, c.chunks) /\ Stage(p) = "index" /\ c.chunks # None
    BY <1>10 DEF Index
  <2>2. /\ chunks' \in [Docs -> [text : Hash, vectors : Hash]] /\ \A e \in Docs : e # d => chunks'[e] = chunks[e]
        /\ chunks'[d].text = c.chunks
    BY <1>0, <1>4, <2>1 DEF ReplaceChunks, Hash
  <2> QED
    BY <1>0, <1>1, <1>2, <1>3, <1>6, <2>1, <2>2
<1>11. CASE Embed(p)
  <2>1. Gives(p, c) /\ SetChunkEmbeddings(d, c.chunks) /\ Stage(p) = "embedding" /\ c.chunks # None
    BY <1>11 DEF Embed
  <2>2. /\ chunks' \in [Docs -> [text : Hash, vectors : Hash]] /\ \A e \in Docs : e # d => chunks'[e] = chunks[e]
        /\ chunks'[d].text = chunks[d].text
        /\ chunks[d].text # None => chunks'[d].vectors = c.chunks
    BY <1>0, <1>4, <2>1 DEF SetChunkEmbeddings, ChunksOf
  <2> QED
    BY <1>0, <1>1, <1>2, <1>3, <1>6, <2>1, <2>2
<1> QED
  BY <1>7, <1>8, <1>9, <1>10, <1>11 DEF Work

LEMMA RunPcEffect ==
    ASSUME TypeOK, NEW p \in Process, NEW label \in Places, run' = [run EXCEPT ![p].pc = label]
    PROVE  /\ run' \in [Process -> RunStates] /\ OthersRun(p)
           /\ run'[p].pc = label /\ run'[p].raw = run[p].raw /\ run'[p].context = run[p].context
<1> DEFINE e == [run[p] EXCEPT !.pc = label]
<1>0. run[p] \in RunStates
  BY DEF TypeOK, Process
<1>1. e \in RunStates /\ e.pc = label /\ e.raw = run[p].raw /\ e.context = run[p].context
  BY <1>0 DEF RunStates, Places
<1>2. run' = [run EXCEPT ![p] = e]
  OBVIOUS
<1> HIDE DEF e
<1> QED
  BY <1>1, <1>2, RunEffect

LEMMA WorkFailsEffect ==
    ASSUME TypeOK, Holding, NEW p \in Process, WorkFails(p)
    PROVE  /\ InRun(p) /\ run[p].pc = "work" /\ run'[p].pc = "failed" /\ UNCHANGED <<ctx, chunks>>
           /\ row'[DocOf(p)].state = "failed" /\ run'[p].context = run[p].context /\ run'[p].raw = run[p].raw
           /\ \A d \in Docs : row'[d].stamped = row[d].stamped
<1>0. run[p].pc = "work" /\ DocOf(p) \in Docs
  BY Active DEF WorkFails, At
<1>1. /\ run' = [run EXCEPT ![p].pc = "failed"] /\ SetState(DocOf(p), "failed")
      /\ UNCHANGED <<disk, queue, tries, req, attachment, edits, crashes, abandoned, raced, dropped, ctx, chunks>>
  BY DEF WorkFails, bus, bounds
<1>2. "failed" \in Places /\ "failed" \in RowStates
  BY DEF Places, RowStates
<1>3. /\ run' \in [Process -> RunStates] /\ OthersRun(p)
      /\ run'[p].pc = "failed" /\ run'[p].raw = run[p].raw /\ run'[p].context = run[p].context
  BY <1>1, <1>2, RunPcEffect
<1>4. ctx' \in [Docs -> Contexts] /\ chunks' \in [Docs -> [text : Hash, vectors : Hash]]
  BY <1>1 DEF TypeOK
<1> QED
  BY <1>0, <1>1, <1>2, <1>3, <1>4, SetStateEffect DEF InRun

LEMMA CloseEffect ==
    ASSUME TypeOK, Holding, NEW p \in Process, Close(p)
    PROVE  /\ InRun(p) /\ run[p].pc = "stage" /\ run'[p].pc = "mark" /\ UNCHANGED <<ctx, chunks>>
           /\ run'[p].context = run[p].context /\ run'[p].raw = run[p].raw /\ Context(p).done = 6
           /\ row'[DocOf(p)].state = "indexed"
           /\ \A d \in Docs : row'[d].stamped = row[d].stamped
<1>0. run[p].pc = "stage" /\ DocOf(p) \in Docs /\ Context(p).done = 6
  BY Active, SixStages DEF Close, At
<1>1. /\ run' = [run EXCEPT ![p].pc = "mark"] /\ SetState(DocOf(p), "indexed")
      /\ UNCHANGED <<disk, queue, tries, req, attachment, edits, crashes, abandoned, raced, dropped, ctx, chunks>>
  BY DEF Close, bus, bounds
<1>2. "mark" \in Places /\ "indexed" \in RowStates
  BY DEF Places, RowStates
<1>3. /\ run' \in [Process -> RunStates] /\ OthersRun(p)
      /\ run'[p].pc = "mark" /\ run'[p].raw = run[p].raw /\ run'[p].context = run[p].context
  BY <1>1, <1>2, RunPcEffect
<1>4. ctx' \in [Docs -> Contexts] /\ chunks' \in [Docs -> [text : Hash, vectors : Hash]]
  BY <1>1 DEF TypeOK
<1> QED
  BY <1>0, <1>1, <1>2, <1>3, <1>4, SetStateEffect DEF InRun

LEMMA MarkRunEffect ==
    ASSUME TypeOK, Holding, NEW p \in Process, Mark(p)
    PROVE  /\ InRun(p) /\ run[p].pc = "mark" /\ run'[p].pc = "indexed" /\ UNCHANGED <<ctx, chunks>>
           /\ run'[p].context = run[p].context /\ run'[p].raw = run[p].raw
           /\ row'[DocOf(p)].stamped = TRUE
           /\ \A d \in Docs : row'[d].state = row[d].state
<1>0. run[p].pc = "mark" /\ DocOf(p) \in Docs
  BY Active DEF Mark, At
<1>1. /\ run' = [run EXCEPT ![p].pc = "indexed"] /\ MarkIndexed(DocOf(p))
      /\ UNCHANGED <<disk, queue, tries, req, attachment, edits, crashes, abandoned, raced, dropped, ctx, chunks>>
  BY DEF Mark, bus, bounds
<1>2. "indexed" \in Places
  BY DEF Places
<1>3. /\ run' \in [Process -> RunStates] /\ OthersRun(p)
      /\ run'[p].pc = "indexed" /\ run'[p].raw = run[p].raw /\ run'[p].context = run[p].context
  BY <1>1, <1>2, RunPcEffect
<1>4. ctx' \in [Docs -> Contexts] /\ chunks' \in [Docs -> [text : Hash, vectors : Hash]]
  BY <1>1 DEF TypeOK
<1> QED
  BY <1>0, <1>1, <1>3, <1>4, MarkEffect DEF InRun

LEMMA SaveEffect ==
    ASSUME TypeOK, Holding, NEW p \in Process, Save(p)
    PROVE  /\ InRun(p) /\ run[p].pc = "save" /\ run'[p].pc = "stage" /\ UNCHANGED <<row, chunks>>
           /\ run'[p].raw = run[p].raw /\ run'[p].context.done = Context(p).done + 1
           /\ run'[p].context.text = Context(p).text /\ run'[p].context.chunks = Context(p).chunks
           /\ ctx'[DocOf(p)] = run'[p].context
<1>0. run[p] \in RunStates /\ run[p].pc = "save" /\ DocOf(p) \in Docs /\ Context(p) \in Contexts /\ Context(p).done \in 0..5
  <2>1. run[p] \in RunStates /\ run[p].pc = "save"
    BY DEF TypeOK, Save, At, Process
  <2>2. Context(p).done \in 0..6 /\ Context(p).done < 6 /\ Context(p) \in Contexts
    BY <2>1, RunFields DEF Holding, Shaped, Context
  <2> QED
    BY <2>1, <2>2, Active
<1> DEFINE saved == [Context(p) EXCEPT !.done = Context(p).done + 1]
           e == [run[p] EXCEPT !.pc = "stage", !.context = saved]
<1>1. /\ saved \in Contexts /\ saved.done = Context(p).done + 1 /\ saved.text = Context(p).text
      /\ saved.chunks = Context(p).chunks
  BY <1>0, SixStages DEF Contexts
<1>2. SaveContext(DocOf(p), saved) /\ run' = [run EXCEPT ![p] = e]
  BY Zenon DEF Save
<1> HIDE DEF saved
<1>3. e \in RunStates /\ e.pc = "stage" /\ e.raw = run[p].raw /\ e.context = saved
  BY <1>0, <1>1 DEF RunStates
<1> HIDE DEF e
<1>4. run' \in [Process -> RunStates] /\ run'[p] = e /\ OthersRun(p)
  BY <1>2, <1>3, RunEffect
<1>5. UNCHANGED <<disk, queue, tries, req, attachment, edits, crashes, abandoned, raced, dropped, row, chunks>>
  BY DEF Save, bus, bounds
<1>6. ctx' \in [Docs -> Contexts] /\ ctx'[DocOf(p)] = saved /\ \A d \in Docs : d # DocOf(p) => ctx'[d] = ctx[d]
  BY <1>0, <1>1, <1>2 DEF TypeOK, SaveContext
<1>7. /\ row' \in [Docs -> [hash : Hash, state : RowStates, stamped : BOOLEAN]]
      /\ chunks' \in [Docs -> [text : Hash, vectors : Hash]]
  BY <1>5 DEF TypeOK
<1> QED
  BY <1>0, <1>1, <1>3, <1>4, <1>5, <1>6, <1>7 DEF InRun

\* A run begins with what is persisted, and ends with nothing.
LEMMA LoadEffect ==
    ASSUME TypeOK, Holding, NEW p \in Process, Load(p)
    PROVE  /\ run' \in [Process -> RunStates] /\ OthersRun(p) /\ run[p].pc = "idle" /\ run'[p].pc = "stage"
           /\ run'[p].raw = None /\ run'[p].context = ctx[DocOf(p)] /\ DocOf(p) \in Docs
           /\ UNCHANGED <<disk, row, ctx, chunks, queue, tries, req, attachment, edits, crashes, abandoned, raced>>
           /\ IF p \in Docs THEN queue[p] > 0 /\ dropped' = dropped
              ELSE req[p].pc = "process" /\ dropped' = [dropped EXCEPT ![DocOf(p)] = FALSE]
<1>0. /\ run[p] \in RunStates /\ run[p].pc = "idle"
      /\ IF p \in Docs THEN queue[p] > 0 ELSE req[p].pc = "process"
  BY DEF TypeOK, Load, At, Process
<1>1. DocOf(p) \in Docs /\ run[p].raw = None
  BY <1>0, RunDoc DEF Holding, Shaped
<1> DEFINE e == [run[p] EXCEPT !.pc = "stage", !.context = ctx[DocOf(p)]]
<1>2. run' = [run EXCEPT ![p] = e]
  BY Zenon DEF Load, LoadContext
<1>3. e \in RunStates /\ e.pc = "stage" /\ e.raw = None /\ e.context = ctx[DocOf(p)]
  <2>1. ctx[DocOf(p)] \in Contexts
    BY <1>1 DEF TypeOK
  <2> QED
    BY <1>0, <1>1, <2>1 DEF RunStates
<1> HIDE DEF e
<1>4. run' \in [Process -> RunStates] /\ run'[p] = e /\ OthersRun(p)
  BY <1>2, <1>3, RunEffect
<1>5. UNCHANGED <<disk, row, ctx, chunks, queue, tries, req, attachment, edits, crashes, abandoned, raced>>
  BY DEF Load, stores, bus, bounds
<1>6. dropped' = IF p \in Docs THEN dropped ELSE [dropped EXCEPT ![DocOf(p)] = FALSE]
  BY DEF Load
<1> QED
  BY <1>0, <1>1, <1>3, <1>4, <1>5, <1>6

LEMMA NoRunEffect ==
    ASSUME TypeOK, NEW p \in Process, run' = [run EXCEPT ![p] = NoRun]
    PROVE  run' \in [Process -> RunStates] /\ OthersRun(p) /\ run'[p] = NoRun
BY Nothings, RunEffect

LEMMA RefusedEffect ==
    ASSUME TypeOK, NEW d \in Docs, queue[d] > 0, Refused(d)
    PROVE  /\ queue' \in [Docs -> Nat] /\ tries' \in [Docs -> Nat] /\ dropped' \in [Docs -> BOOLEAN]
           /\ \A e \in Docs : e # d => queue'[e] = queue[e] /\ dropped'[e] = dropped[e]
           /\ queue'[d] \in {queue[d], queue[d] - 1} /\ (dropped[d] => dropped'[d])
           /\ queue'[d] = queue[d] \/ dropped'[d]
<1>0. queue[d] \in Nat /\ tries[d] \in Nat /\ dropped[d] \in BOOLEAN
  BY DEF TypeOK
<1>1. CASE tries' = [tries EXCEPT ![d] = tries[d] + 1] /\ UNCHANGED <<queue, dropped>>
  BY <1>0, <1>1 DEF TypeOK
<1>2. CASE /\ tries' = [tries EXCEPT ![d] = 0] /\ queue' = [queue EXCEPT ![d] = queue[d] - 1]
           /\ dropped' = [dropped EXCEPT ![d] = TRUE]
  <2>1. queue[d] - 1 \in Nat
    BY <1>0
  <2> QED
    BY <1>0, <1>2, <2>1 DEF TypeOK
<1> QED
  BY <1>1, <1>2, Zenon DEF Refused

\* What a call that raises does, and its attachment.
LEMMA RaisesEffect ==
    ASSUME TypeOK, NEW r \in Request, req[r].doc \in Docs, Raises(r)
    PROVE  /\ req' \in [Request -> Requests] /\ OthersReq(r)
           /\ req'[r].pc = "over" /\ req'[r].doc = None /\ req'[r].todo = {}
           /\ IF req[r].op = "attach" THEN attachment' = [attachment EXCEPT ![req[r].doc] = "failed"] ELSE attachment' = attachment
           /\ attachment' \in [Upload -> {"none", "pending", "ready", "unsupported", "failed"}]
<1>1. attachment' \in [Upload -> {"none", "pending", "ready", "unsupported", "failed"}]
  BY DEF Raises, MarkAttachment, TypeOK
<1>2. Leaves(r) /\ IF req[r].op = "attach" THEN attachment' = [attachment EXCEPT ![req[r].doc] = "failed"] ELSE attachment' = attachment
  BY DEF Raises, MarkAttachment
<1> QED
  BY <1>1, <1>2, LeavesEffect

LEMMA EnterMissingEffect ==
    ASSUME TypeOK, Holding, NEW p \in Process, EnterMissing(p)
    PROVE  /\ run' \in [Process -> RunStates] /\ OthersRun(p) /\ run[p].pc = "stage" /\ run'[p] = NoRun
           /\ row' \in [Docs -> [hash : Hash, state : RowStates, stamped : BOOLEAN]]
           /\ \A d \in Docs : row'[d].hash = row[d].hash /\ row'[d].stamped = row[d].stamped
           /\ \A d \in Docs : d # DocOf(p) => row'[d] = row[d]
           /\ UNCHANGED <<disk, ctx, chunks, edits, crashes, abandoned, raced>>
           /\ disk[DocOf(p)] = None /\ run[p].raw = None
           /\ IF p \in Docs THEN Refused(p) /\ UNCHANGED <<req, attachment>>
              ELSE Raises(p) /\ dropped' = [dropped EXCEPT ![DocOf(p)] = TRUE] /\ UNCHANGED <<queue, tries>>
<1>0. run[p].pc = "stage" /\ run[p] \in RunStates /\ Context(p).done < 6 /\ Context(p).done \in 0..6 /\ DocOf(p) \in Docs
  <2>1. run[p] \in RunStates /\ run[p].pc = "stage" /\ Context(p).done < 6
    BY SixStages DEF TypeOK, EnterMissing, At, Process
  <2> QED
    BY <2>1, Active, RunFields DEF Context
<1>1. StateOf(Stage(p)) \in RowStates /\ SetState(DocOf(p), StateOf(Stage(p)))
  BY <1>0, StageIsOf DEF EnterMissing
<1>2. run' = [run EXCEPT ![p] = NoRun] /\ UNCHANGED <<disk, ctx, chunks, edits, crashes, abandoned, raced>>
  BY DEF EnterMissing, bounds
<1>3. /\ disk[DocOf(p)] = None /\ run[p].raw = None
      /\ IF p \in Docs THEN Refused(p) /\ UNCHANGED <<req, attachment>>
         ELSE Raises(p) /\ dropped' = [dropped EXCEPT ![DocOf(p)] = TRUE] /\ UNCHANGED <<queue, tries>>
  BY DEF EnterMissing, bus
<1> QED
  BY <1>0, <1>1, <1>2, <1>3, SetStateEffect, NoRunEffect

-----------------------------------------------------------------------------
(* The steps of a call.                                                    *)

\* What a call does not touch.
NoRuns == UNCHANGED <<run, chunks, edits, crashes, abandoned>>

LEMMA CallEffect ==
    ASSUME TypeOK, Holding, NEW r \in Request, Call(r)
    PROVE  /\ req' \in [Request -> Requests] /\ OthersReq(r) /\ req[r].pc = "idle"
           /\ req'[r].pc = "read" /\ req'[r].doc = None /\ req'[r].hash = req[r].hash
           /\ \/ req'[r].op \in {"scan", "force"} /\ req'[r].todo = Scanned
              \/ req'[r].op \in {"ingest", "enqueue"} /\ \E d \in Direct : req'[r].todo = {d}
           /\ NoRuns /\ UNCHANGED <<disk, row, ctx, queue, tries, attachment, raced, dropped>>
<1>0. req[r] \in Requests /\ req[r].pc = "idle" /\ req[r].doc = None
  BY DEF TypeOK, Call, Holding, Holds
<1>1. NoRuns /\ UNCHANGED <<disk, row, ctx, queue, tries, attachment, raced, dropped>>
  BY DEF Call, stores, bus, bounds, NoRuns
<1>2. ASSUME NEW op \in {"scan", "force", "ingest", "enqueue"}, NEW T \in SUBSET Docs,
             req' = [req EXCEPT ![r] = [req[r] EXCEPT !.pc = "read", !.op = op, !.todo = T]]
      PROVE  /\ req' \in [Request -> Requests] /\ OthersReq(r)
             /\ req'[r].pc = "read" /\ req'[r].doc = None /\ req'[r].hash = req[r].hash
             /\ req'[r].op = op /\ req'[r].todo = T
  <2> DEFINE e == [req[r] EXCEPT !.pc = "read", !.op = op, !.todo = T]
  <2>1. e \in Requests /\ e.pc = "read" /\ e.doc = None /\ e.hash = req[r].hash /\ e.op = op /\ e.todo = T
    BY <1>0 DEF Requests
  <2>2. req' = [req EXCEPT ![r] = e]
    BY <1>2
  <2> HIDE DEF e
  <2> QED
    BY <2>1, <2>2, ReqEffect
<1>3. Scanned \in SUBSET Docs /\ \A d \in Direct : {d} \in SUBSET Docs
  BY DEF Docs
<1>4. CASE \E op \in {"scan", "force"} : req' = [req EXCEPT ![r] = [req[r] EXCEPT !.pc = "read", !.op = op, !.todo = Scanned]]
  BY <1>0, <1>1, <1>2, <1>3, <1>4
<1>5. CASE \E op \in {"ingest", "enqueue"}, d \in Direct : req' = [req EXCEPT ![r] = [req[r] EXCEPT !.pc = "read", !.op = op, !.todo = {d}]]
  <2>1. PICK op \in {"ingest", "enqueue"}, d \in Direct : req' = [req EXCEPT ![r] = [req[r] EXCEPT !.pc = "read", !.op = op, !.todo = {d}]]
    BY <1>5
  <2> QED
    BY <1>0, <1>1, <1>2, <1>3, <2>1
<1> QED
  BY <1>4, <1>5, Zenon DEF Call

LEMMA AttachEffect ==
    ASSUME TypeOK, Holding, NEW r \in Request, NEW u \in Upload, NEW content \in Content, Attach(r, u, content)
    PROVE  /\ req' \in [Request -> Requests] /\ OthersReq(r) /\ req[r].pc = "idle"
           /\ req'[r].pc = "read" /\ req'[r].doc = None /\ req'[r].hash = req[r].hash
           /\ req'[r].op = "attach" /\ req'[r].todo = {u}
           /\ attachment[u] = "none" /\ attachment' = [attachment EXCEPT ![u] = "pending"]
           /\ disk' = [disk EXCEPT ![u] = content] /\ u \in Docs
           /\ NoRuns /\ UNCHANGED <<row, ctx, queue, tries, raced, dropped>>
<1>0. req[r] \in Requests /\ req[r].pc = "idle" /\ req[r].doc = None /\ u \in Docs
  BY DEF TypeOK, Attach, Holding, Holds, Docs
<1> DEFINE e == [req[r] EXCEPT !.pc = "read", !.op = "attach", !.todo = {u}]
<1>1. e \in Requests /\ e.pc = "read" /\ e.doc = None /\ e.hash = req[r].hash /\ e.op = "attach" /\ e.todo = {u}
  BY <1>0 DEF Requests
<1>2. req' = [req EXCEPT ![r] = e]
  BY Zenon DEF Attach
<1> HIDE DEF e
<1>3. /\ attachment[u] = "none" /\ attachment' = [attachment EXCEPT ![u] = "pending"]
      /\ disk' = [disk EXCEPT ![u] = content]
      /\ NoRuns /\ UNCHANGED <<row, ctx, queue, tries, raced, dropped>>
  BY DEF Attach, CreateAttachment, stores, bus, bounds, NoRuns
<1> QED
  BY <1>0, <1>1, <1>2, <1>3, ReqEffect

LEMMA ReadEffect ==
    ASSUME TypeOK, Holding, NEW r \in Request, NEW d \in Docs, Read(r, d)
    PROVE  /\ req' \in [Request -> Requests] /\ OthersReq(r) /\ req[r].pc = "read" /\ req[r].doc = None
           /\ req'[r].pc = "register" /\ req'[r].doc = d /\ req'[r].hash = disk[d] /\ disk[d] # None
           /\ req'[r].op = req[r].op /\ d \in req[r].todo /\ req'[r].todo = req[r].todo \ {d}
           /\ raced' = [raced EXCEPT ![d] = raced[d] \/ Busy(d)]
           /\ NoRuns /\ UNCHANGED <<disk, row, ctx, queue, tries, attachment, dropped>>
<1>0. req[r] \in Requests /\ req[r].pc = "read" /\ req[r].doc = None /\ disk[d] # None /\ disk[d] \in Hash /\ d \in req[r].todo
  BY DEF TypeOK, Read, Holding, Holds
<1> DEFINE e == [req[r] EXCEPT !.pc = "register", !.doc = d, !.hash = disk[d], !.todo = req[r].todo \ {d}]
<1>1. /\ e \in Requests /\ e.pc = "register" /\ e.doc = d /\ e.hash = disk[d] /\ e.op = req[r].op
      /\ e.todo = req[r].todo \ {d}
  BY <1>0 DEF Requests
<1>2. req' = [req EXCEPT ![r] = e]
  BY Zenon DEF Read
<1> HIDE DEF e
<1>3. /\ raced' = [raced EXCEPT ![d] = raced[d] \/ Busy(d)]
      /\ NoRuns /\ UNCHANGED <<disk, row, ctx, queue, tries, attachment, dropped>>
  BY DEF Read, stores, bus, bounds, NoRuns
<1> QED
  BY <1>0, <1>1, <1>2, <1>3, ReqEffect

LEMMA ReadMissingEffect ==
    ASSUME TypeOK, Holding, NEW r \in Request, NEW d \in Docs, ReadMissing(r, d)
    PROVE  /\ req' \in [Request -> Requests] /\ OthersReq(r) /\ req[r].pc = "read" /\ req[r].doc = None
           /\ req'[r].pc \in {"read", "over"} /\ req'[r].doc = None
           /\ d \in req[r].todo /\ disk[d] = None
           /\ req'[r].todo \subseteq req[r].todo /\ (req'[r].pc = "read" => req'[r].op = req[r].op)
           /\ NoRuns /\ UNCHANGED <<disk, row, ctx, queue, tries, attachment, raced, dropped>>
<1>0. /\ req[r] \in Requests /\ req[r].pc = "read" /\ req[r].doc = None /\ d \in req[r].todo /\ disk[d] = None
      /\ NoRuns /\ UNCHANGED <<disk, row, ctx, queue, tries, attachment, raced, dropped>>
  BY DEF TypeOK, ReadMissing, Holding, Holds, NoRuns, stores, bus, bounds
<1>1. CASE Leaves(r)
  BY <1>0, <1>1, LeavesEffect
<1>2. CASE req' = [req EXCEPT ![r] = [req[r] EXCEPT !.todo = req[r].todo \ {d}]] /\ req[r].op \in {"scan", "force"}
  <2> DEFINE e == [req[r] EXCEPT !.todo = req[r].todo \ {d}]
  <2>1. e \in Requests /\ e.pc = "read" /\ e.doc = None /\ e.op = req[r].op /\ e.todo = req[r].todo \ {d}
    BY <1>0 DEF Requests
  <2>2. req' = [req EXCEPT ![r] = e]
    BY <1>2
  <2> HIDE DEF e
  <2> QED
    BY <1>0, <1>2, <2>1, <2>2, ReqEffect
<1>3. CASE req' = [req EXCEPT ![r] = [NoRequest EXCEPT !.pc = "over"]]
  BY <1>1, <1>3 DEF Leaves
<1>4. CASE /\ req[r].op \in {"scan", "force"}
           /\ req' = [req EXCEPT ![r] = IF req[r].todo = {d} THEN [NoRequest EXCEPT !.pc = "over"]
                                       ELSE [req[r] EXCEPT !.todo = req[r].todo \ {d}]]
  BY <1>2, <1>3, <1>4
<1>5. \/ Leaves(r)
      \/ /\ req[r].op \in {"scan", "force"}
         /\ req' = [req EXCEPT ![r] = IF req[r].todo = {d} THEN [NoRequest EXCEPT !.pc = "over"]
                                     ELSE [req[r] EXCEPT !.todo = req[r].todo \ {d}]]
  BY Zenon DEF ReadMissing
<1> QED
  BY <1>1, <1>4, <1>5

LEMMA CallerDoc ==
    ASSUME TypeOK, Holding, NEW r \in Request, req[r].pc \in {"register", "reset", "publish", "process"}
    PROVE  /\ req[r].doc \in Docs /\ req[r] \in Requests /\ req[r].hash \in Hash /\ req[r].hash # None
           /\ r \in Callers(req[r].doc) /\ req[r].op \in Ops
<1>1. req[r] \in Requests /\ req[r].doc # None /\ req[r].hash # None
  BY DEF TypeOK, Holding, Holds
<1> QED
  BY <1>1, RequestFields DEF Callers

LEMMA RegisterEffect ==
    ASSUME TypeOK, Holding, NEW r \in Request, Register(r)
    PROVE  /\ req' \in [Request -> Requests] /\ OthersReq(r) /\ req[r].pc = "register" /\ req[r].doc \in Docs
           /\ req'[r].pc = "reset" /\ req'[r].op = req[r].op /\ req'[r].doc = req[r].doc
           /\ req'[r].hash = req[r].hash /\ req'[r].todo = req[r].todo
           /\ row[req[r].doc].hash # req[r].hash
           /\ row' \in [Docs -> [hash : Hash, state : RowStates, stamped : BOOLEAN]]
           /\ row'[req[r].doc].hash = req[r].hash /\ req[r].hash # None
           /\ \A d \in Docs : d # req[r].doc => row'[d] = row[d]
           /\ NoRuns /\ UNCHANGED <<disk, ctx, queue, tries, attachment, raced, dropped>>
<1>0. req[r].pc = "register" /\ Goto(r, "reset") /\ "reset" \in Labels /\ "pending" \in RowStates
  BY DEF Register, Labels, RowStates
<1>1. req[r].doc \in Docs /\ req[r].hash \in Hash /\ req[r].hash # None
  BY <1>0, CallerDoc
<1>2. /\ row[req[r].doc].hash # req[r].hash
      /\ row' = [row EXCEPT ![req[r].doc] = [hash |-> req[r].hash, state |-> "pending", stamped |-> FALSE]]
      /\ NoRuns /\ UNCHANGED <<disk, ctx, queue, tries, attachment, raced, dropped>>
  BY DEF Register, RegisterVersion, bus, bounds, NoRuns
<1>3. /\ row' \in [Docs -> [hash : Hash, state : RowStates, stamped : BOOLEAN]]
      /\ row'[req[r].doc].hash = req[r].hash
      /\ \A d \in Docs : d # req[r].doc => row'[d] = row[d]
  BY <1>0, <1>1, <1>2 DEF TypeOK
<1> QED
  BY <1>0, <1>1, <1>2, <1>3, GotoEffect

LEMMA UnchangedEffect ==
    ASSUME TypeOK, Holding, NEW r \in Request, Unchanged(r)
    PROVE  /\ req' \in [Request -> Requests] /\ OthersReq(r) /\ req[r].pc = "register" /\ req[r].doc \in Docs
           /\ row[req[r].doc].hash = req[r].hash /\ req[r].hash # None
           /\ req'[r].todo = req[r].todo
           /\ \/ /\ req'[r].pc = "reset" /\ req'[r].op = req[r].op /\ req'[r].doc = req[r].doc
                 /\ req'[r].hash = req[r].hash
              \/ /\ req'[r].pc \in {"read", "over"} /\ req'[r].doc = None
                 /\ req'[r].pc = "read" => req'[r].op = req[r].op
           /\ NoRuns /\ UNCHANGED <<disk, row, ctx, queue, tries, attachment, raced, dropped>>
<1>0. req[r].pc = "register" /\ row[req[r].doc].hash = req[r].hash /\ "reset" \in Labels
  BY DEF Unchanged, Labels
<1>1. req[r].doc \in Docs /\ req[r].hash # None
  BY <1>0, CallerDoc
<1>2. (Goto(r, "reset") \/ NextItem(r)) /\ NoRuns /\ UNCHANGED <<disk, row, ctx, queue, tries, attachment, raced, dropped>>
  BY DEF Unchanged, stores, bus, bounds, NoRuns
<1> QED
  BY <1>0, <1>1, <1>2, GotoEffect, NextItemEffect

LEMMA ResetEffect ==
    ASSUME TypeOK, Holding, NEW r \in Request, Reset(r)
    PROVE  /\ req' \in [Request -> Requests] /\ OthersReq(r) /\ req[r].pc = "reset" /\ req[r].doc \in Docs
           /\ req'[r].pc \in {"process", "publish"} /\ req'[r].op = req[r].op /\ req'[r].doc = req[r].doc
           /\ req'[r].hash = req[r].hash /\ req'[r].todo = req[r].todo
           /\ IF req'[r].pc = "process" THEN req[r].op \in {"ingest", "attach"} ELSE req[r].op \notin {"ingest", "attach"}
           /\ ctx' \in [Docs -> Contexts] /\ ctx'[req[r].doc] = NoContext
           /\ \A d \in Docs : d # req[r].doc => ctx'[d] = ctx[d]
           /\ raced' = [raced EXCEPT ![req[r].doc] = raced[req[r].doc] /\ ~(/\ Callers(req[r].doc) = {r} /\ queue[req[r].doc] = 0
                                                                   /\ disk[req[r].doc] = row[req[r].doc].hash)]
           /\ NoRuns /\ UNCHANGED <<disk, row, queue, tries, attachment, dropped>>
<1>0. req[r].pc = "reset" /\ {"process", "publish"} \subseteq Labels
  BY DEF Reset, Labels
<1>1. req[r].doc \in Docs
  BY <1>0, CallerDoc
<1>2. /\ ctx' = [ctx EXCEPT ![req[r].doc] = NoContext]
      /\ Goto(r, IF Waits(r) THEN "process" ELSE "publish")
      /\ raced' = [raced EXCEPT ![req[r].doc] = raced[req[r].doc] /\ ~(/\ Callers(req[r].doc) = {r} /\ queue[req[r].doc] = 0
                                                                   /\ disk[req[r].doc] = row[req[r].doc].hash)]
      /\ NoRuns /\ UNCHANGED <<disk, row, queue, tries, attachment, dropped>>
  BY DEF Reset, ResetContext, bus, bounds, NoRuns
<1>3. ctx' \in [Docs -> Contexts] /\ ctx'[req[r].doc] = NoContext /\ \A d \in Docs : d # req[r].doc => ctx'[d] = ctx[d]
  BY <1>1, <1>2, Nothings DEF TypeOK
<1>4. CASE Waits(r)
  BY <1>0, <1>1, <1>2, <1>3, <1>4, GotoEffect DEF Waits
<1>5. CASE ~Waits(r)
  BY <1>0, <1>1, <1>2, <1>3, <1>5, GotoEffect DEF Waits
<1> QED
  BY <1>4, <1>5

LEMMA PublishEffect ==
    ASSUME TypeOK, Holding, NEW r \in Request, Publish(r) \/ PublishFails(r)
    PROVE  /\ req' \in [Request -> Requests] /\ OthersReq(r) /\ req[r].pc = "publish" /\ req[r].doc \in Docs
           /\ req'[r].pc \in {"read", "over"} /\ req'[r].doc = None
           /\ req'[r].todo \subseteq req[r].todo /\ (req'[r].pc = "read" => req'[r].op = req[r].op)
           /\ \/ /\ queue' = [queue EXCEPT ![req[r].doc] = queue[req[r].doc] + 1]
                 /\ dropped' = [dropped EXCEPT ![req[r].doc] = FALSE]
              \/ queue' = queue /\ dropped' = [dropped EXCEPT ![req[r].doc] = TRUE]
           /\ NoRuns /\ UNCHANGED <<disk, row, ctx, tries, attachment, raced>>
<1>0. req[r].pc = "publish"
  BY DEF Publish, PublishFails
<1>1. req[r].doc \in Docs
  BY <1>0, CallerDoc
<1>2. CASE Publish(r)
  BY <1>0, <1>1, <1>2, NextItemEffect DEF Publish, stores, bounds, NoRuns
<1>3. CASE PublishFails(r)
  BY <1>0, <1>1, <1>3, LeavesEffect DEF PublishFails, stores, bus, bounds, NoRuns
<1> QED
  BY <1>2, <1>3

LEMMA CancelledEffect ==
    ASSUME TypeOK, Holding, NEW r \in Request, CancelledAtStep(r)
    PROVE  /\ req[r].pc = "process" /\ req[r].doc \in Docs /\ run[r].pc = "idle" /\ Raises(r)
           /\ dropped' = [dropped EXCEPT ![req[r].doc] = TRUE]
           /\ NoRuns /\ UNCHANGED <<disk, row, ctx, queue, tries, raced>>
<1>0. req[r].pc = "process"
  BY DEF CancelledAtStep
<1> QED
  BY <1>0, CallerDoc DEF CancelledAtStep, stores, bus, bounds, NoRuns

LEMMA AnswerEffect ==
    ASSUME TypeOK, Holding, NEW r \in Request, Answer(r)
    PROVE  /\ req[r].pc = "process" /\ req[r].doc \in Docs /\ run[r].pc \in {"indexed", "failed"}
           /\ req' \in [Request -> Requests] /\ OthersReq(r)
           /\ req'[r].pc = "over" /\ req'[r].doc = None /\ req'[r].todo = {}
           /\ run' \in [Process -> RunStates] /\ OthersRun(r) /\ run'[r] = NoRun
           /\ IF req[r].op = "attach"
              THEN attachment' = [attachment EXCEPT ![req[r].doc] = IF Usable(r) THEN "ready" ELSE "unsupported"]
              ELSE attachment' = attachment
           /\ UNCHANGED <<disk, row, ctx, chunks, queue, tries, edits, crashes, abandoned, raced, dropped>>
<1>0. run[r].pc \in {"indexed", "failed"} /\ r \in Process
  BY DEF Answer, At, Process
<1>1. req[r].pc = "process"
  BY <1>0 DEF Holding
<1>2. /\ run' = [run EXCEPT ![r] = NoRun] /\ Leaves(r)
      /\ IF req[r].op = "attach"
         THEN attachment' = [attachment EXCEPT ![req[r].doc] = IF Usable(r) THEN "ready" ELSE "unsupported"]
         ELSE attachment' = attachment
      /\ UNCHANGED <<disk, row, ctx, chunks, queue, tries, edits, crashes, abandoned, raced, dropped>>
  BY DEF Answer, MarkAttachment, stores, bus, bounds
<1> QED
  BY <1>0, <1>1, <1>2, CallerDoc, LeavesEffect, NoRunEffect

LEMMA KillEffect ==
    ASSUME TypeOK, NEW r \in Request, Kill(r)
    PROVE  /\ req[r].pc \notin {"idle", "over"}
           /\ req' \in [Request -> Requests] /\ OthersReq(r)
           /\ req'[r].pc = "over" /\ req'[r].doc = None /\ req'[r].todo = {}
           /\ run' \in [Process -> RunStates] /\ OthersRun(r) /\ run'[r] = NoRun
           /\ dropped' \in [Docs -> BOOLEAN]
           /\ \A d \in Docs : dropped[d] \/ r \in Callers(d) => dropped'[d]
           /\ \A d \in Docs : r \notin Callers(d) => dropped'[d] = dropped[d]
           /\ abandoned \subseteq abandoned' /\ abandoned' \subseteq Upload
           /\ \A u \in Upload : r \in Sent(u) => u \in abandoned'
           /\ crashes' \in Nat /\ UNCHANGED <<disk, row, ctx, chunks, queue, tries, attachment, edits, raced>>
<1>1. /\ req[r].pc \notin {"idle", "over"} /\ Leaves(r) /\ run' = [run EXCEPT ![r] = NoRun] /\ r \in Process
      /\ crashes' = crashes + 1
      /\ UNCHANGED <<disk, row, ctx, chunks, queue, tries, attachment, edits, raced>>
  BY DEF Kill, stores, bus, Process
<1>2. dropped' = [d \in Docs |-> dropped[d] \/ r \in Callers(d)]
  BY DEF Kill
<1>3. abandoned' = abandoned \cup {u \in Upload : r \in Sent(u)} /\ abandoned \subseteq Upload /\ crashes \in Nat
  BY DEF Kill, TypeOK
<1>4. /\ dropped' \in [Docs -> BOOLEAN]
      /\ \A d \in Docs : dropped[d] \/ r \in Callers(d) => dropped'[d]
      /\ \A d \in Docs : r \notin Callers(d) => dropped'[d] = dropped[d]
  <2>1. dropped \in [Docs -> BOOLEAN]
    BY DEF TypeOK
  <2> QED
    BY <1>2, <2>1
<1>5. /\ abandoned \subseteq abandoned' /\ abandoned' \subseteq Upload
      /\ \A u \in Upload : r \in Sent(u) => u \in abandoned'
  BY <1>3
<1>6. crashes' \in Nat
  BY <1>1, <1>3
<1>7. /\ req' \in [Request -> Requests] /\ OthersReq(r)
      /\ req'[r].pc = "over" /\ req'[r].doc = None /\ req'[r].todo = {}
  BY <1>1, LeavesEffect
<1>8. run' \in [Process -> RunStates] /\ OthersRun(r) /\ run'[r] = NoRun
  BY <1>1, NoRunEffect
<1> QED
  BY <1>1, <1>4, <1>5, <1>6, <1>7, <1>8

LEMMA AnnounceEffect ==
    ASSUME TypeOK, Holding, NEW d \in Docs, Announce(d) \/ AnnounceFails(d)
    PROVE  /\ run[d].pc \in {"indexed", "failed"} /\ queue[d] > 0
           /\ run' \in [Process -> RunStates] /\ OthersRun(d) /\ run'[d] = NoRun
           /\ queue' \in [Docs -> Nat] /\ tries' \in [Docs -> Nat] /\ dropped' \in [Docs -> BOOLEAN]
           /\ \A e \in Docs : e # d => queue'[e] = queue[e] /\ dropped'[e] = dropped[e]
           /\ queue'[d] <= queue[d] /\ (dropped[d] => dropped'[d])
           /\ queue'[d] >= queue[d] - 1
           /\ UNCHANGED <<disk, row, ctx, chunks, req, attachment, edits, crashes, abandoned, raced>>
<1>0. run[d].pc \in {"indexed", "failed"} /\ d \in Process
  BY DEF Announce, AnnounceFails, At, Process
<1>1. queue[d] > 0 /\ queue[d] \in Nat
  BY <1>0 DEF Holding, TypeOK
<1>2. run' = [run EXCEPT ![d] = NoRun] /\ UNCHANGED <<disk, row, ctx, chunks, req, attachment, edits, crashes, abandoned, raced>>
  BY DEF Announce, AnnounceFails, stores, bounds
<1>3. run' \in [Process -> RunStates] /\ OthersRun(d) /\ run'[d] = NoRun
  BY <1>0, <1>2, NoRunEffect
<1>4. CASE Announce(d)
  <2>1. queue' = [queue EXCEPT ![d] = queue[d] - 1] /\ tries' = [tries EXCEPT ![d] = 0] /\ dropped' = dropped
    BY <1>4 DEF Announce
  <2>2. queue[d] - 1 \in Nat
    BY <1>1
  <2> QED
    BY <1>0, <1>1, <1>2, <1>3, <2>1, <2>2 DEF TypeOK
<1>5. CASE AnnounceFails(d)
  <2>1. Refused(d)
    BY <1>5 DEF AnnounceFails
  <2> QED
    BY <1>0, <1>1, <1>2, <1>3, <2>1, RefusedEffect
<1> QED
  BY <1>4, <1>5

LEMMA EditEffect ==
    ASSUME TypeOK, NEW d \in Docs, NEW content \in Hash, Edit(d, content)
    PROVE  /\ disk' = [disk EXCEPT ![d] = content] /\ raced' = [raced EXCEPT ![d] = raced[d] \/ Busy(d)]
           /\ edits' = edits + 1
           /\ UNCHANGED <<row, ctx, chunks, queue, tries, run, req, attachment, crashes, abandoned, dropped>>
BY DEF Edit, stores, bus

-----------------------------------------------------------------------------
(* Types.                                                                  *)

Uploaded == {"none", "pending", "ready", "unsupported", "failed"}

LEMMA TypeInit == Init => TypeOK
<1> SUFFICES ASSUME Init PROVE TypeOK
  OBVIOUS
<1>1. disk \in [Docs -> Hash]
  BY DEF Init, Hash
<1>2. row \in [Docs -> [hash : Hash, state : RowStates, stamped : BOOLEAN]]
  BY DEF Init, Hash, RowStates
<1>3. ctx \in [Docs -> Contexts] /\ run \in [Docs \cup Request -> RunStates] /\ req \in [Request -> Requests]
  BY Nothings DEF Init
<1>4. chunks \in [Docs -> [text : Hash, vectors : Hash]]
  BY DEF Init, Hash
<1>5. /\ queue \in [Docs -> Nat] /\ tries \in [Docs -> Nat]
      /\ attachment \in [Upload -> {"none", "pending", "ready", "unsupported", "failed"}]
      /\ edits \in Nat /\ crashes \in Nat /\ abandoned \subseteq Upload
      /\ raced \in [Docs -> BOOLEAN] /\ dropped \in [Docs -> BOOLEAN]
  BY DEF Init
<1> QED
  BY <1>1, <1>2, <1>3, <1>4, <1>5 DEF TypeOK

\* A step of a run, but for its last.
Going(p) == Enter(p) \/ Work(p) \/ WorkFails(p) \/ Save(p) \/ Close(p) \/ Mark(p)

LEMMA GoingIsInRun ==
    ASSUME TypeOK, Holding, NEW p \in Process, Going(p)
    PROVE  InRun(p) /\ Shaped(run'[p]) /\ (run'[p].pc = "failed" => row'[DocOf(p)].state = "failed")
<1>0. run[p] \in RunStates /\ Shaped(run[p])
  BY DEF TypeOK, Holding, Process
<1>1. CASE Enter(p)
  BY <1>1, EnterEffect DEF Shaped, Context
<1>2. CASE Work(p)
  BY <1>0, <1>2, WorkEffect DEF Shaped, Context
<1>3. CASE WorkFails(p)
  BY <1>3, WorkFailsEffect DEF Shaped
<1>4. CASE Save(p)
  BY <1>4, SaveEffect DEF Shaped
<1>5. CASE Close(p)
  BY <1>5, CloseEffect DEF Shaped, Context
<1>6. CASE Mark(p)
  BY <1>0, <1>6, MarkRunEffect DEF Shaped
<1> QED
  BY <1>1, <1>2, <1>3, <1>4, <1>5, <1>6 DEF Going

LEMMA TypeGoing ==
    ASSUME TypeOK, NEW p \in Process, InRun(p)
    PROVE  TypeOK'
BY DEF TypeOK, InRun, Process

LEMMA TypeRuns ==
    ASSUME TypeOK, Holding, NEW p \in Process, Load(p) \/ EnterMissing(p)
    PROVE  TypeOK'
<1>1. CASE Load(p)
  <2>1. dropped' \in [Docs -> BOOLEAN]
    BY <1>1, LoadEffect DEF TypeOK
  <2> QED
    BY <1>1, <2>1, LoadEffect DEF TypeOK, Process
<1>2. CASE EnterMissing(p)
  <2>0. run[p].pc # "idle" /\ DocOf(p) \in Docs
    BY <1>2, EnterMissingEffect, Active
  <2>1. CASE p \in Docs
    <3>1. queue[p] > 0 /\ Refused(p) /\ UNCHANGED <<req, attachment>>
      BY <1>2, <2>0, <2>1, EnterMissingEffect, Active
    <3> QED
      BY <1>2, <2>1, <3>1, EnterMissingEffect, RefusedEffect DEF TypeOK, Process
  <2>2. CASE p \notin Docs
    <3>1. p \in Request /\ req[p].doc \in Docs
      BY <2>0, <2>2, Active
    <3>2. Raises(p) /\ dropped' = [dropped EXCEPT ![DocOf(p)] = TRUE] /\ UNCHANGED <<queue, tries>>
      BY <1>2, <2>2, EnterMissingEffect
    <3>3. dropped' \in [Docs -> BOOLEAN]
      BY <3>2 DEF TypeOK
    <3>4. /\ req' \in [Request -> Requests]
          /\ attachment' \in [Upload -> {"none", "pending", "ready", "unsupported", "failed"}]
      <4>1. Raises(p) /\ p \in Request /\ req[p].doc \in Docs
        BY <3>1, <3>2
      <4> QED
        BY <4>1, RaisesEffect
    <3>5. /\ run' \in [Process -> RunStates]
          /\ row' \in [Docs -> [hash : Hash, state : RowStates, stamped : BOOLEAN]]
          /\ UNCHANGED <<disk, ctx, chunks, edits, crashes, abandoned, raced>>
      BY <1>2, EnterMissingEffect
    <3> QED
      BY <3>2, <3>3, <3>4, <3>5 DEF TypeOK, Process
  <2> QED
    BY <2>1, <2>2
<1> QED
  BY <1>1, <1>2

LEMMA TypeCalls ==
    ASSUME TypeOK, Holding, NEW r \in Request, Calls(r)
    PROVE  TypeOK'
<1>0. r \in Process
  BY DEF Process
<1>1. CASE Call(r)
  BY <1>1, CallEffect DEF TypeOK, NoRuns
<1>2. CASE Register(r)
  BY <1>2, RegisterEffect DEF TypeOK, NoRuns
<1>3. CASE Unchanged(r)
  BY <1>3, UnchangedEffect DEF TypeOK, NoRuns
<1>4. CASE Reset(r)
  <2>1. raced' \in [Docs -> BOOLEAN]
    BY <1>4, ResetEffect DEF TypeOK
  <2> QED
    BY <1>4, <2>1, ResetEffect DEF TypeOK, NoRuns
<1>5. CASE Publish(r) \/ PublishFails(r)
  <2>0. req[r].doc \in Docs
    BY <1>5, PublishEffect
  <2>a. queue \in [Docs -> Nat] /\ dropped \in [Docs -> BOOLEAN]
    BY DEF TypeOK
  <2>b. queue[req[r].doc] + 1 \in Nat
    BY <2>0, <2>a
  <2>c. \/ /\ queue' = [queue EXCEPT ![req[r].doc] = queue[req[r].doc] + 1]
           /\ dropped' = [dropped EXCEPT ![req[r].doc] = FALSE]
        \/ queue' = queue /\ dropped' = [dropped EXCEPT ![req[r].doc] = TRUE]
    BY <1>5, PublishEffect
  <2>1. queue' \in [Docs -> Nat] /\ dropped' \in [Docs -> BOOLEAN]
    BY <2>0, <2>a, <2>b, <2>c
  <2> QED
    BY <1>5, <2>1, PublishEffect DEF TypeOK, NoRuns
<1>6. CASE CancelledAtStep(r)
  <2>1. dropped' \in [Docs -> BOOLEAN] /\ req[r].doc \in Docs /\ Raises(r)
    BY <1>6, CancelledEffect DEF TypeOK
  <2> QED
    BY <1>6, <2>1, CancelledEffect, RaisesEffect DEF TypeOK, NoRuns
<1>7. CASE Answer(r)
  <2>1. attachment' \in [Upload -> {"none", "pending", "ready", "unsupported", "failed"}]
    BY <1>7, AnswerEffect DEF TypeOK
  <2> QED
    BY <1>0, <1>7, <2>1, AnswerEffect DEF TypeOK, Process
<1>8. CASE Kill(r)
  BY <1>8, KillEffect DEF TypeOK, Process
<1> QED
  BY <1>1, <1>2, <1>3, <1>4, <1>5, <1>6, <1>7, <1>8 DEF Calls

\* What a crash leaves.
LEMMA CrashEffect ==
    ASSUME TypeOK, Holding, Crash
    PROVE  /\ crashes' \in Nat
           /\ \A d \in Docs : /\ dropped'[d] \in BOOLEAN /\ queue'[d] \in Nat
                              /\ dropped[d] \/ Callers(d) # {} => dropped'[d]
                              /\ queue'[d] <= queue[d]
                              /\ queue[d] > 0 => queue'[d] > 0 \/ dropped'[d]
           /\ dropped' \in [Docs -> BOOLEAN] /\ queue' \in [Docs -> Nat] /\ tries' \in [Docs -> Nat]
           /\ abandoned \subseteq abandoned' /\ abandoned' \subseteq Upload
           /\ \A u \in Upload : Sent(u) # {} => u \in abandoned'
           /\ run' \in [Process -> RunStates] /\ \A p \in Process : run'[p] = NoRun
           /\ req' \in [Request -> Requests]
           /\ \A r \in Request : /\ req'[r].doc = None /\ req'[r].pc \in {"idle", "over"}
                                 /\ \/ req'[r] = req[r] /\ req[r].pc = "idle"
                                    \/ req'[r].todo = {}
           /\ UNCHANGED <<disk, row, ctx, chunks, attachment, edits, raced>>
<1>1. crashes' \in Nat /\ UNCHANGED <<disk, row, ctx, chunks, attachment, edits, raced>>
  BY DEF Crash, TypeOK, stores
<1>2. PICK begun \in SUBSET {d \in Docs : queue[d] > 0} :
        /\ queue' = [d \in Docs |-> IF ~Durable THEN 0
                                    ELSE IF d \in begun THEN queue[d] - 1 ELSE queue[d]]
        /\ tries' = [d \in Docs |-> IF Durable /\ d \notin begun THEN tries[d] ELSE 0]
        /\ dropped' = [d \in Docs |-> \/ dropped[d]
                                      \/ Callers(d) # {}
                                      \/ queue[d] > 0 /\ queue'[d] = 0]
        /\ abandoned' = abandoned \cup {u \in Upload : Sent(u) # {}}
        /\ run' = [p \in Process |-> NoRun]
  BY DEF Crash, Process
<1>3. \A d \in Docs : queue[d] \in Nat /\ tries[d] \in Nat /\ dropped[d] \in BOOLEAN /\ (d \in begun => queue[d] - 1 \in Nat)
  BY DEF TypeOK
<1>4. /\ queue' \in [Docs -> Nat] /\ tries' \in [Docs -> Nat] /\ dropped' \in [Docs -> BOOLEAN]
      /\ \A d \in Docs : queue'[d] \in Nat /\ queue'[d] <= queue[d]
  <2>1. \A d \in Docs : queue'[d] = IF ~Durable THEN 0 ELSE IF d \in begun THEN queue[d] - 1 ELSE queue[d]
    BY <1>2
  <2>2. \A d \in Docs : queue'[d] \in Nat /\ queue'[d] <= queue[d]
    BY <1>3, <2>1
  <2> QED
    BY <1>2, <1>3, <2>2
<1>n. \A d \in Docs : /\ dropped'[d] \in BOOLEAN /\ queue'[d] \in Nat
                      /\ dropped[d] \/ Callers(d) # {} => dropped'[d]
                      /\ queue'[d] <= queue[d]
                      /\ queue[d] > 0 => queue'[d] > 0 \/ dropped'[d]
  <2>1. \A d \in Docs : dropped'[d] = (dropped[d] \/ Callers(d) # {} \/ (queue[d] > 0 /\ queue'[d] = 0))
    BY <1>2
  <2> QED
    BY <1>4, <2>1
<1>a. /\ abandoned \subseteq abandoned' /\ abandoned' \subseteq Upload
      /\ \A u \in Upload : Sent(u) # {} => u \in abandoned'
  BY <1>2 DEF TypeOK
<1>p. run' \in [Process -> RunStates] /\ \A p \in Process : run'[p] = NoRun
  BY <1>2, Nothings
<1> DEFINE gone == [NoRequest EXCEPT !.pc = "over"]
<1>5. gone \in Requests /\ gone.pc = "over" /\ gone.doc = None /\ gone.todo = {}
  BY Nothings DEF Requests
<1>6. req' = [r \in Request |-> IF req[r].pc = "idle" THEN req[r] ELSE gone]
  BY DEF Crash
<1> HIDE DEF gone
<1>7. \A r \in Request : req[r] \in Requests /\ (req[r].pc = "idle" => req[r].doc = None)
  BY DEF TypeOK, Holding, Holds
<1>8. req' \in [Request -> Requests]
  BY <1>5, <1>6, <1>7
<1>9. ASSUME NEW r \in Request
      PROVE  /\ req'[r].doc = None /\ req'[r].pc \in {"idle", "over"}
             /\ \/ req'[r] = req[r] /\ req[r].pc = "idle"
                \/ req'[r].todo = {}
  BY <1>5, <1>6, <1>7
<1> QED
  BY <1>1, <1>4, <1>n, <1>a, <1>p, <1>8, <1>9

LEMMA TypeNext ==
    ASSUME TypeOK, Holding, [Next]_vars
    PROVE  TypeOK'
<1>1. CASE UNCHANGED vars
  BY <1>1 DEF vars, stores, bus, bounds, TypeOK
<1>2. ASSUME NEW d \in Scanned \cup Direct, NEW c \in Content \cup {None}, Edit(d, c) PROVE TypeOK'
  <2>0. d \in Docs /\ c \in Hash
    BY DEF Docs, Hash
  <2>1. disk' \in [Docs -> Hash] /\ raced' \in [Docs -> BOOLEAN] /\ edits' \in Nat
    <3>1. edits' = edits + 1 /\ disk' = [disk EXCEPT ![d] = c] /\ raced' = [raced EXCEPT ![d] = raced[d] \/ Busy(d)]
      BY <1>2, <2>0, EditEffect
    <3>2. (raced[d] \/ Busy(d)) \in BOOLEAN
      BY DEF Busy
    <3> QED
      BY <2>0, <3>1, <3>2 DEF TypeOK
  <2> QED
    BY <1>2, <2>0, <2>1, EditEffect DEF TypeOK
<1>3. ASSUME NEW r \in Request, NEW u \in Upload, NEW c \in Content, Attach(r, u, c) PROVE TypeOK'
  <2>0. c \in Hash /\ disk' = [disk EXCEPT ![u] = c] /\ attachment' = [attachment EXCEPT ![u] = "pending"]
    BY <1>3, AttachEffect DEF Hash
  <2>1. disk' \in [Docs -> Hash] /\ attachment' \in [Upload -> {"none", "pending", "ready", "unsupported", "failed"}]
    BY <2>0 DEF TypeOK
  <2> QED
    BY <1>3, <2>1, AttachEffect DEF TypeOK, NoRuns
<1>4. ASSUME NEW r \in Request, NEW d \in Docs, Read(r, d) PROVE TypeOK'
  <2>1. raced' \in [Docs -> BOOLEAN]
    <3>1. raced' = [raced EXCEPT ![d] = raced[d] \/ Busy(d)]
      BY <1>4, ReadEffect
    <3>2. (raced[d] \/ Busy(d)) \in BOOLEAN
      BY DEF Busy
    <3> QED
      BY <3>1, <3>2 DEF TypeOK
  <2> QED
    BY <1>4, <2>1, ReadEffect DEF TypeOK, NoRuns
<1>5. ASSUME NEW r \in Request, NEW d \in Docs, ReadMissing(r, d) PROVE TypeOK'
  BY <1>5, ReadMissingEffect DEF TypeOK, NoRuns
<1>6. ASSUME NEW p \in Docs \cup Request, Runs(p) PROVE TypeOK'
  BY <1>6, GoingIsInRun, TypeGoing, TypeRuns DEF Runs, Going, Process
<1>7. ASSUME NEW d \in Docs, Announce(d) \/ AnnounceFails(d) PROVE TypeOK'
  BY <1>7, AnnounceEffect DEF TypeOK, Process
<1>8. CASE Crash
  BY <1>8, CrashEffect DEF TypeOK, Process
<1> QED
  BY <1>1, <1>2, <1>3, <1>4, <1>5, <1>6, <1>7, <1>8, TypeCalls DEF Next

-----------------------------------------------------------------------------
(* What calls and runs hold.                                               *)

Placed == {"reset", "publish", "process"}

LEMMA HoldingGoing ==
    ASSUME TypeOK, Holding, NEW p \in Process, Going(p)
    PROVE  Holding'
<1>0. InRun(p) /\ Shaped(run'[p])
  BY GoingIsInRun
<1>1. ASSUME NEW r \in Request
      PROVE  /\ Holds(req'[r])
             /\ req'[r].pc \in Placed => row'[req'[r].doc].hash # None
             /\ run'[r].pc # "idle" => req'[r].pc = "process"
  <2>1. req' = req /\ r \in Process
    BY <1>0 DEF InRun, Process
  <2>2. /\ Holds(req[r]) /\ (req[r].pc \in Placed => row[req[r].doc].hash # None)
        /\ run[r].pc # "idle" => req[r].pc = "process"
    BY DEF Holding, Placed
  <2>3. req[r].pc \in Placed => req[r].doc \in Docs
    BY CallerDoc DEF Placed
  <2>4. run'[r].pc # "idle" => run[r].pc # "idle"
    BY <1>0, <2>1 DEF InRun, OthersRun
  <2> QED
    BY <1>0, <2>1, <2>2, <2>3, <2>4 DEF InRun
<1>2. ASSUME NEW d \in Docs
      PROVE  (run'[d].pc # "idle" => queue'[d] > 0) /\ (queue'[d] > 0 => row'[d].hash # None)
  <2>1. d \in Process /\ (run'[d].pc # "idle" => run[d].pc # "idle")
    BY <1>0 DEF InRun, OthersRun, Process
  <2> QED
    BY <1>0, <2>1 DEF InRun, Holding
<1>3. ASSUME NEW q \in Process PROVE Shaped(run'[q])
  BY <1>0 DEF InRun, OthersRun, Holding
<1> QED
  BY <1>1, <1>2, <1>3 DEF Holding, Placed

\* A step of the call r, which has no run.
LEMMA HoldingCall ==
    ASSUME TypeOK, Holding, NEW r \in Request, OthersReq(r), run' = run,
           Holds(req'[r]), req'[r].pc \in Placed => row'[req'[r].doc].hash # None,
           run[r].pc = "idle",
           \A d \in Docs : /\ row[d].hash # None => row'[d].hash # None
                           /\ queue[d] > 0 => queue'[d] > 0
                           /\ queue'[d] > 0 => row'[d].hash # None
    PROVE  Holding'
<1>1. ASSUME NEW q \in Request
      PROVE  /\ Holds(req'[q])
             /\ req'[q].pc \in Placed => row'[req'[q].doc].hash # None
             /\ run'[q].pc # "idle" => req'[q].pc = "process"
  <2>1. CASE q = r
    BY <2>1
  <2>2. CASE q # r
    <3>1. req'[q] = req[q]
      BY <2>2 DEF OthersReq
    <3>2. req[q].pc \in Placed => req[q].doc \in Docs
      BY CallerDoc DEF Placed
    <3> QED
      BY <3>1, <3>2 DEF Holding, Placed
  <2> QED
    BY <2>1, <2>2
<1> QED
  BY <1>1 DEF Holding, Placed

LEMMA IdleRun ==
    ASSUME Holding, NEW r \in Request, req[r].pc # "process"
    PROVE  run[r].pc = "idle"
BY DEF Holding

LEMMA HoldingCalls ==
    ASSUME TypeOK, Holding, NEW r \in Request,
           Call(r) \/ Register(r) \/ Unchanged(r) \/ Reset(r) \/ Publish(r) \/ PublishFails(r) \/ CancelledAtStep(r)
    PROVE  Holding'
<1>0. Holds(req[r]) /\ (req[r].pc \in Placed => row[req[r].doc].hash # None)
  BY DEF Holding, Placed
<1>1. \A d \in Docs : queue[d] \in Nat /\ (queue[d] > 0 => row[d].hash # None)
  BY DEF Holding, TypeOK
<1>2. CASE Call(r)
  <2>1. OthersReq(r) /\ run' = run /\ row' = row /\ queue' = queue /\ run[r].pc = "idle"
    BY <1>2, CallEffect, IdleRun DEF NoRuns
  <2>2. Holds(req'[r]) /\ req'[r].pc \notin Placed
    BY <1>2, CallEffect DEF Holds, Placed
  <2> QED
    BY <1>1, <2>1, <2>2, HoldingCall
<1>3. CASE Register(r)
  <2>1. OthersReq(r) /\ run' = run /\ queue' = queue /\ run[r].pc = "idle"
    BY <1>3, RegisterEffect, IdleRun DEF NoRuns
  <2>2. Holds(req'[r]) /\ row'[req'[r].doc].hash # None
    BY <1>0, <1>3, RegisterEffect DEF Holds
  <2>3. \A d \in Docs : row[d].hash # None => row'[d].hash # None
    BY <1>3, RegisterEffect
  <2> QED
    BY <1>1, <2>1, <2>2, <2>3, HoldingCall
<1>4. CASE Unchanged(r)
  <2>1. OthersReq(r) /\ run' = run /\ row' = row /\ queue' = queue /\ run[r].pc = "idle"
    BY <1>4, UnchangedEffect, IdleRun DEF NoRuns
  <2>2. Holds(req'[r]) /\ (req'[r].pc \in Placed => row[req'[r].doc].hash # None)
    BY <1>0, <1>4, UnchangedEffect DEF Holds, Placed
  <2> QED
    BY <1>1, <2>1, <2>2, HoldingCall
<1>5. CASE Reset(r)
  <2>1. OthersReq(r) /\ run' = run /\ row' = row /\ queue' = queue /\ run[r].pc = "idle"
    BY <1>5, ResetEffect, IdleRun DEF NoRuns
  <2>3. Holds(req'[r])
    <3>1. CASE req'[r].pc = "process"
      BY <1>0, <1>5, <3>1, ResetEffect DEF Holds
    <3>2. CASE req'[r].pc = "publish"
      <4>1. req[r].op \in {"scan", "force", "enqueue"}
        BY <1>0, <1>5, <3>2, ResetEffect DEF Holds
      <4> QED
        BY <1>0, <1>5, <3>2, <4>1, ResetEffect DEF Holds
    <3> QED
      BY <1>5, <3>1, <3>2, ResetEffect
  <2>4. row[req'[r].doc].hash # None
    BY <1>0, <1>5, ResetEffect DEF Placed
  <2> QED
    BY <1>1, <2>1, <2>3, <2>4, HoldingCall
<1>6. CASE Publish(r) \/ PublishFails(r)
  <2>0. req[r].pc = "publish" /\ req[r].doc \in Docs /\ row[req[r].doc].hash # None
    BY <1>0, <1>6, PublishEffect DEF Placed
  <2>1. OthersReq(r) /\ run' = run /\ row' = row /\ run[r].pc = "idle"
    BY <1>6, PublishEffect, IdleRun DEF NoRuns
  <2>2. Holds(req'[r]) /\ req'[r].pc \notin Placed
    BY <1>0, <1>6, PublishEffect DEF Holds, Placed
  <2>3. ASSUME NEW d \in Docs
        PROVE  (queue[d] > 0 => queue'[d] > 0) /\ (queue'[d] > 0 => row[d].hash # None)
    <3>1. queue' = queue \/ queue' = [queue EXCEPT ![req[r].doc] = queue[req[r].doc] + 1]
      BY <1>6, PublishEffect
    <3>2. queue \in [Docs -> Nat]
      BY DEF TypeOK
    <3>3. d = req[r].doc => queue'[d] = queue[d] \/ queue'[d] = queue[d] + 1
      BY <3>1, <3>2
    <3>4. d # req[r].doc => queue'[d] = queue[d]
      BY <3>1, <3>2
    <3> QED
      BY <1>1, <2>0, <3>3, <3>4
  <2> QED
    BY <2>1, <2>2, <2>3, HoldingCall
<1>7. CASE CancelledAtStep(r)
  <2>1. OthersReq(r) /\ run' = run /\ row' = row /\ queue' = queue /\ run[r].pc = "idle"
    BY <1>7, CancelledEffect, RaisesEffect DEF NoRuns
  <2>2. Holds(req'[r]) /\ req'[r].pc \notin Placed
    BY <1>7, CancelledEffect, RaisesEffect DEF Holds, Placed
  <2> QED
    BY <1>1, <2>1, <2>2, HoldingCall
<1> QED
  BY <1>2, <1>3, <1>4, <1>5, <1>6, <1>7

LEMMA HoldingInit == Init => Holding
<1> SUFFICES ASSUME Init PROVE Holding
  OBVIOUS
<1>1. /\ \A r \in Request : req[r] = NoRequest
      /\ \A p \in Process : run[p] = NoRun
      /\ \A d \in Docs : queue[d] = 0
  BY DEF Init, Process
<1>2. Holds(NoRequest) /\ Shaped(NoRun) /\ NoRequest.pc = "idle" /\ NoRun.pc = "idle"
  BY Nothings DEF Holds, Shaped
<1> QED
  BY <1>1, <1>2 DEF Holding, Process

\* A step that takes the run of p away, and with it the call p.
LEMMA HoldingEnd ==
    ASSUME TypeOK, Holding, NEW p \in Process, OthersRun(p), run'[p] = NoRun,
           IF p \in Docs THEN req' = req ELSE OthersReq(p) /\ req'[p].pc = "over" /\ req'[p].doc = None,
           \A d \in Docs : /\ row[d].hash # None => row'[d].hash # None
                           /\ queue'[d] <= queue[d] /\ queue'[d] \in Nat
                           /\ d # p => queue'[d] = queue[d]
    PROVE  Holding'
<1>1. ASSUME NEW q \in Request
      PROVE  /\ Holds(req'[q])
             /\ req'[q].pc \in Placed => row'[req'[q].doc].hash # None
             /\ run'[q].pc # "idle" => req'[q].pc = "process"
  <2>0. q \in Process /\ q \notin Docs
    BY IngestionAssumption DEF Process
  <2>1. CASE q = p
    BY <2>0, <2>1, Nothings DEF Holds, Placed
  <2>2. CASE q # p
    <3>1. req'[q] = req[q] /\ run'[q] = run[q]
      BY <2>0, <2>2 DEF OthersReq, OthersRun
    <3>2. req[q].pc \in Placed => req[q].doc \in Docs
      BY CallerDoc DEF Placed
    <3> QED
      BY <3>1, <3>2 DEF Holding, Placed
  <2> QED
    BY <2>1, <2>2
<1>2. ASSUME NEW d \in Docs
      PROVE  (run'[d].pc # "idle" => queue'[d] > 0) /\ (queue'[d] > 0 => row'[d].hash # None)
  <2>0. d \in Process /\ queue[d] \in Nat
    BY DEF Process, TypeOK
  <2>1. CASE d = p
    BY <2>0, <2>1, Nothings DEF Holding
  <2>2. CASE d # p
    BY <2>0, <2>2 DEF Holding, OthersRun
  <2> QED
    BY <2>1, <2>2
<1>3. ASSUME NEW q \in Process PROVE Shaped(run'[q])
  BY Nothings DEF OthersRun, Holding, Shaped
<1> QED
  BY <1>1, <1>2, <1>3 DEF Holding, Placed

LEMMA HoldingNext ==
    ASSUME TypeOK, Holding, [Next]_vars
    PROVE  Holding'
<1>0. /\ \A d \in Docs : queue[d] \in Nat /\ (queue[d] > 0 => row[d].hash # None)
      /\ \A r \in Request : Holds(req[r])
  BY DEF Holding, TypeOK
<1>1. CASE UNCHANGED vars
  BY <1>1 DEF vars, stores, bus, bounds, Holding
<1>2. ASSUME NEW d \in Scanned \cup Direct, NEW c \in Content \cup {None}, Edit(d, c) PROVE Holding'
  <2>0. d \in Docs /\ c \in Hash
    BY DEF Docs, Hash
  <2> QED
    BY <1>2, <2>0, EditEffect DEF Holding
<1>3. ASSUME NEW r \in Request, NEW u \in Upload, NEW c \in Content, Attach(r, u, c) PROVE Holding'
  <2>1. OthersReq(r) /\ run' = run /\ row' = row /\ queue' = queue /\ run[r].pc = "idle"
    BY <1>3, AttachEffect, IdleRun DEF NoRuns
  <2>2. Holds(req'[r]) /\ req'[r].pc \notin Placed
    BY <1>3, AttachEffect DEF Holds, Placed
  <2> QED
    BY <1>0, <2>1, <2>2, HoldingCall
<1>4. ASSUME NEW r \in Request, NEW d \in Docs, Read(r, d) \/ ReadMissing(r, d) PROVE Holding'
  <2>1. OthersReq(r) /\ run' = run /\ row' = row /\ queue' = queue /\ run[r].pc = "idle"
    BY <1>4, ReadEffect, ReadMissingEffect, IdleRun DEF NoRuns
  <2>2. CASE Read(r, d)
    <3>1. d # None
      BY IngestionAssumption
    <3>2. Holds(req'[r]) /\ req'[r].pc \notin Placed
      BY <1>0, <2>2, <3>1, ReadEffect DEF Holds, Placed
    <3> QED
      BY <1>0, <2>1, <3>2, HoldingCall
  <2>3. CASE ReadMissing(r, d)
    <3>2. Holds(req'[r]) /\ req'[r].pc \notin Placed
      BY <1>0, <2>3, ReadMissingEffect DEF Holds, Placed
    <3> QED
      BY <1>0, <2>1, <3>2, HoldingCall
  <2> QED
    BY <1>4, <2>2, <2>3
<1>5. ASSUME NEW r \in Request, Answer(r) PROVE Holding'
  <2>1. r \in Process /\ r \notin Docs
    BY IngestionAssumption DEF Process
  <2>2. OthersRun(r) /\ run'[r] = NoRun /\ OthersReq(r) /\ req'[r].pc = "over" /\ req'[r].doc = None /\ row' = row /\ queue' = queue
    BY <1>5, AnswerEffect
  <2> QED
    BY <1>0, <2>1, <2>2, HoldingEnd
<1>k. ASSUME NEW r \in Request, Kill(r) PROVE Holding'
  <2>1. r \in Process /\ r \notin Docs
    BY IngestionAssumption DEF Process
  <2>2. OthersRun(r) /\ run'[r] = NoRun /\ OthersReq(r) /\ req'[r].pc = "over" /\ req'[r].doc = None /\ row' = row /\ queue' = queue
    BY <1>k, KillEffect
  <2> QED
    BY <1>0, <2>1, <2>2, HoldingEnd
<1>6. ASSUME NEW r \in Request, Calls(r) PROVE Holding'
  BY <1>5, <1>k, <1>6, HoldingCalls DEF Calls
<1>7. ASSUME NEW p \in Process, Load(p) PROVE Holding'
  <2>1. /\ OthersRun(p) /\ Shaped(run'[p]) /\ row' = row /\ queue' = queue /\ req' = req
        /\ p \in Docs => queue[p] > 0
        /\ p \notin Docs => req[p].pc = "process"
    BY <1>7, LoadEffect DEF Shaped
  <2>2. ASSUME NEW r \in Request PROVE run'[r].pc # "idle" => req[r].pc = "process"
    BY <2>1, IngestionAssumption DEF OthersRun, Process, Holding
  <2>3. ASSUME NEW d \in Docs PROVE run'[d].pc # "idle" => queue[d] > 0
    BY <2>1 DEF OthersRun, Process, Holding
  <2>4. ASSUME NEW q \in Process PROVE Shaped(run'[q])
    BY <2>1 DEF OthersRun, Holding
  <2> QED
    BY <2>1, <2>2, <2>3, <2>4 DEF Holding
<1>8. ASSUME NEW p \in Process, EnterMissing(p) PROVE Holding'
  <2>0. /\ run[p].pc # "idle" /\ DocOf(p) \in Docs
        /\ p \in Docs => queue[p] > 0
        /\ p \notin Docs => p \in Request /\ req[p].doc \in Docs
    BY <1>8, EnterMissingEffect, Active
  <2>1. OthersRun(p) /\ run'[p] = NoRun /\ \A d \in Docs : row[d].hash # None => row'[d].hash # None
    BY <1>8, EnterMissingEffect
  <2>2. CASE p \in Docs
    <3>1. Refused(p) /\ req' = req
      BY <1>8, <2>2, EnterMissingEffect
    <3>2. \A d \in Docs : queue'[d] \in Nat /\ queue'[d] <= queue[d] /\ (d # p => queue'[d] = queue[d])
      BY <1>0, <2>0, <2>2, <3>1, RefusedEffect
    <3> QED
      BY <2>1, <2>2, <3>1, <3>2, HoldingEnd
  <2>3. CASE p \notin Docs
    <3>1. OthersReq(p) /\ req'[p].pc = "over" /\ req'[p].doc = None /\ queue' = queue
      BY <1>8, <2>0, <2>3, EnterMissingEffect, RaisesEffect
    <3> QED
      BY <1>0, <2>1, <2>3, <3>1, HoldingEnd
  <2> QED
    BY <2>2, <2>3
<1>9. ASSUME NEW p \in Docs \cup Request, Runs(p) PROVE Holding'
  BY <1>7, <1>8, <1>9, HoldingGoing DEF Runs, Going, Process
<1>10. ASSUME NEW d \in Docs, Announce(d) \/ AnnounceFails(d) PROVE Holding'
  <2>1. /\ d \in Process /\ OthersRun(d) /\ run'[d] = NoRun /\ req' = req /\ row' = row
        /\ queue'[d] <= queue[d] /\ queue' \in [Docs -> Nat]
        /\ \A e \in Docs : e # d => queue'[e] = queue[e]
    BY <1>10, AnnounceEffect DEF Process
  <2>2. \A e \in Docs : queue'[e] \in Nat /\ queue'[e] <= queue[e]
    BY <1>0, <2>1
  <2> QED
    BY <2>1, <2>2, HoldingEnd
<1>11. CASE Crash
  <2>1. /\ \A p \in Process : run'[p] = NoRun
        /\ \A r \in Request : req'[r].doc = None /\ req'[r].pc \in {"idle", "over"}
        /\ \A d \in Docs : queue'[d] \in Nat /\ queue'[d] <= queue[d]
        /\ row' = row
    BY <1>11, CrashEffect
  <2>2. \A r \in Request : Holds(req'[r]) /\ req'[r].pc \notin Placed
    BY <2>1 DEF Holds, Placed
  <2>3. Shaped(NoRun) /\ NoRun.pc = "idle"
    BY Nothings DEF Shaped
  <2>4. \A d \in Docs : queue'[d] > 0 => row[d].hash # None
    BY <1>0, <2>1
  <2> QED
    BY <2>1, <2>2, <2>3, <2>4 DEF Holding, Placed, Process
<1> QED
  BY <1>1, <1>2, <1>3, <1>4, <1>6, <1>9, <1>10, <1>11 DEF Next

-----------------------------------------------------------------------------
(* What is indexed is current.                                             *)

\* Who is at d, stays at d or goes; nothing of d changes.
LEMMA FewerAt ==
    ASSUME TypeOK, Holding, NEW d \in Docs, Alone(d), OfContent(d),
           disk'[d] = disk[d], row'[d].hash = row[d].hash, ctx'[d] = ctx[d], chunks'[d] = chunks[d],
           queue'[d] \in Nat, queue'[d] <= queue[d],
           \A r \in Request : req'[r].doc = d => req'[r] = req[r],
           \A p \in Process : run'[p].pc # "idle" /\ DocOf(p)' = d => run'[p] = run[p]
    PROVE  Alone(d)' /\ OfContent(d)'
<1>0. queue[d] \in Nat
  BY DEF TypeOK
<1>1. Callers(d)' \subseteq Callers(d) /\ \A r \in Callers(d)' : req'[r] = req[r]
  BY DEF Callers
<1>2. Alone(d)'
  <2>1. \A r, q \in Callers(d)' : r = q
    BY <1>1 DEF Alone
  <2>2. queue'[d] <= 1 /\ (Callers(d)' # {} => queue'[d] = 0)
    BY <1>0, <1>1 DEF Alone
  <2>3. \A r \in Callers(d)' : disk'[d] = IF req'[r].pc = "register" THEN req'[r].hash ELSE row'[d].hash
    BY <1>1 DEF Alone
  <2>4. queue'[d] > 0 => disk'[d] = row'[d].hash
    BY <1>0 DEF Alone
  <2> QED
    BY <2>1, <2>2, <2>3, <2>4 DEF Alone
<1>3. Coming(d)' => Coming(d)
  BY <1>0, <1>1 DEF Coming
<1>4. ASSUME NEW p \in Process, run'[p].pc \notin {"idle", "failed"}, DocOf(p)' = d
      PROVE  Carries(run'[p], row'[d].hash, chunks'[d], ctx'[d].done)
  <2>1. run'[p] = run[p]
    BY <1>4
  <2>2. DocOf(p) = d
    BY <1>4 DEF DocOf, Process
  <2> QED
    BY <1>4, <2>1, <2>2 DEF OfContent
<1> QED
  BY <1>2, <1>3, <1>4 DEF OfContent

\* Nobody runs at d, and at most one call is there.
LEMMA QuietAt ==
    ASSUME NEW d \in Docs, NEW r \in Request, queue'[d] = 0, run'[d].pc = "idle",
           \A q \in Request : req'[q].doc = d =>
             /\ q = r /\ run'[q].pc = "idle"
             /\ disk'[d] = IF req'[q].pc = "register" THEN req'[q].hash ELSE row'[d].hash
             /\ req'[q].pc \in {"publish", "process"} => Good(ctx'[d], ctx'[d].done, row'[d].hash, chunks'[d])
    PROVE  Alone(d)' /\ OfContent(d)'
<1>1. Alone(d)'
  BY DEF Alone, Callers
<1>2. Coming(d)' => Good(ctx'[d], ctx'[d].done, row'[d].hash, chunks'[d])
  BY DEF Coming, Callers
<1>3. ASSUME NEW p \in Process, DocOf(p)' = d PROVE run'[p].pc = "idle"
  BY <1>3 DEF DocOf, Process
<1> QED
  BY <1>1, <1>2, <1>3 DEF OfContent

\* Nobody at all.
LEMMA NobodyAt ==
    ASSUME NEW d \in Docs, queue'[d] = 0, run'[d].pc = "idle", \A q \in Request : req'[q].doc # d
    PROVE  Alone(d)' /\ OfContent(d)'
<1>1. Callers(d)' = {} /\ ~Coming(d)'
  BY DEF Coming, Callers
<1>2. ASSUME NEW p \in Process, DocOf(p)' = d PROVE run'[p].pc = "idle"
  BY <1>2 DEF DocOf, Process
<1> QED
  BY <1>1, <1>2 DEF OfContent, Alone

LEMMA OneRun ==
    ASSUME TypeOK, Holding, NEW d \in Docs, Alone(d), NEW p \in Process, NEW q \in Process,
           run[p].pc # "idle", run[q].pc # "idle", DocOf(p) = d, DocOf(q) = d
    PROVE  p = q
<1>1. queue[d] \in Nat
  BY DEF TypeOK
<1>2. /\ p \in Docs => p = d /\ queue[d] > 0
      /\ q \in Docs => q = d /\ queue[d] > 0
      /\ p \notin Docs => p \in Callers(d)
      /\ q \notin Docs => q \in Callers(d)
  BY Active
<1> QED
  BY <1>1, <1>2 DEF Alone

\* The file is what the run of p is about.
LEMMA RunIsOfDisk ==
    ASSUME TypeOK, Holding, NEW p \in Process, run[p].pc # "idle" \/ (p \in Docs /\ queue[p] > 0) \/ (p \notin Docs /\ req[p].pc = "process"),
           Alone(DocOf(p))
    PROVE  disk[DocOf(p)] = row[DocOf(p)].hash /\ Coming(DocOf(p)) /\ DocOf(p) \in Docs
<1>1. CASE p \in Docs
  <2>1. DocOf(p) = p /\ queue[p] > 0
    BY <1>1, Active, IngestionAssumption DEF DocOf
  <2> QED
    BY <1>1, <2>1 DEF Alone, Coming
<1>2. CASE p \notin Docs
  <2>1. p \in Request /\ req[p].pc = "process"
    BY <1>2, Active DEF Process
  <2>2. DocOf(p) \in Docs /\ p \in Callers(DocOf(p))
    BY <1>2, <2>1, RunDoc
  <2> QED
    BY <2>1, <2>2 DEF Alone, Coming
<1> QED
  BY <1>1, <1>2

\* One stage, or one step between two of them.
LEMMA GoingCarries ==
    ASSUME TypeOK, Holding, NEW p \in Process, NEW d \in Docs, d = DocOf(p), Going(p), NEW h, h # None,
           disk[d] = h, Carries(run[p], h, chunks[d], ctx[d].done), Good(ctx[d], ctx[d].done, h, chunks[d])
    PROVE  /\ Good(ctx'[d], ctx'[d].done, h, chunks'[d])
           /\ run'[p].pc # "failed" => Carries(run'[p], h, chunks'[d], ctx'[d].done)
<1> DEFINE n == run[p].context.done
           m == ctx[d].done
<1>0. /\ n \in 0..6 /\ m \in 0..6 /\ m <= n
      /\ run[p].pc \in {"work", "save"} => n < 6
  <2>1. run[p] \in RunStates /\ Shaped(run[p]) /\ ctx[d] \in Contexts
    BY DEF TypeOK, Process, Holding
  <2>2. m \in 0..6
    BY <2>1, SixStages DEF Contexts
  <2> QED
    BY <2>1, <2>2, RunFields DEF Shaped, Carries
<1> HIDE DEF n, m
<1>1. CASE Enter(p)
  <2>1. /\ run[p].pc = "stage" /\ run'[p].pc = "work" /\ run'[p].context = run[p].context
        /\ run'[p].raw = h /\ ctx' = ctx /\ chunks' = chunks
    BY <1>1, EnterEffect DEF Carries
  <2>2. Gone(run'[p]) = Gone(run[p])
    BY <2>1 DEF Gone
  <2> QED
    BY <2>1, <2>2 DEF Carries
<1>2. CASE Work(p)
  <2>1. /\ run[p].pc = "work" /\ run'[p].pc = "save" /\ run'[p].raw = run[p].raw /\ run[p].raw = h
        /\ run'[p].context.done = n /\ ctx' = ctx
    BY <1>2, WorkEffect DEF Carries, Context, n
  <2>2. Gone(run'[p]) = n + 1 /\ Gone(run[p]) = n
    BY <2>1 DEF Gone, n
  <2>3. SUFFICES Good(ctx[d], m, h, chunks'[d]) /\ Good(run'[p].context, n + 1, h, chunks'[d])
    BY <1>0, <2>1, <2>2 DEF Carries, m
  <2>4. /\ \/ n = 0 /\ chunks' = chunks /\ run'[p].context.text = h /\ run'[p].context.chunks = run[p].context.chunks
           \/ n \in {1, 5} /\ chunks' = chunks /\ run'[p].context = run[p].context
           \/ /\ n = 2 /\ chunks' = chunks /\ run[p].context.text # None
              /\ run'[p].context.text = run[p].context.text /\ run'[p].context.chunks = run[p].context.text
           \/ /\ n = 3 /\ run'[p].context = run[p].context /\ chunks'[d].text = run[p].context.chunks
           \/ /\ n = 4 /\ run'[p].context = run[p].context
              /\ chunks'[d].text = chunks[d].text
              /\ chunks[d].text # None => chunks'[d].vectors = run[p].context.chunks
    BY <1>2, <2>1, WorkEffect DEF Context, n
  <2>5. Good(run[p].context, n, h, chunks[d]) /\ Good(ctx[d], m, h, chunks[d])
    BY <2>2 DEF Carries, m
  <2> QED
    BY <1>0, <2>4, <2>5 DEF Good
<1>3. CASE WorkFails(p)
  BY <1>3, WorkFailsEffect
<1>4. CASE Save(p)
  <2>1. /\ run[p].pc = "save" /\ run'[p].pc = "stage" /\ chunks' = chunks
        /\ run'[p].raw = run[p].raw /\ run'[p].context.done = n + 1
        /\ run'[p].context.text = run[p].context.text /\ run'[p].context.chunks = run[p].context.chunks
        /\ ctx'[d] = run'[p].context
    BY <1>4, SaveEffect DEF Context, n
  <2>2. Gone(run'[p]) = n + 1 /\ Gone(run[p]) = n + 1
    BY <2>1 DEF Gone, n
  <2>3. Good(run'[p].context, n + 1, h, chunks[d])
    BY <2>1, <2>2 DEF Carries, Good
  <2> QED
    BY <1>0, <2>1, <2>2, <2>3 DEF Carries
<1>5. CASE Close(p) \/ Mark(p)
  <2>1. /\ run[p].pc \in {"stage", "mark"} /\ run'[p].pc \in {"mark", "indexed"} /\ ctx' = ctx /\ chunks' = chunks
        /\ run'[p].context = run[p].context /\ run'[p].raw = run[p].raw
    BY <1>5, CloseEffect, MarkRunEffect
  <2>2. Gone(run'[p]) = Gone(run[p])
    BY <2>1 DEF Gone
  <2> QED
    BY <2>1, <2>2 DEF Carries
<1> QED
  BY <1>1, <1>2, <1>3, <1>4, <1>5 DEF Going

Current(d) == ~raced[d] => Alone(d) /\ OfContent(d)

\* A step that leaves d, or takes from it (FewerAt).
LEMMA CurrentFewer ==
    ASSUME TypeOK, Holding, NEW d \in Docs, Current(d), raced'[d] = raced[d],
           disk'[d] = disk[d], row'[d].hash = row[d].hash, ctx'[d] = ctx[d], chunks'[d] = chunks[d],
           queue'[d] \in Nat, queue'[d] <= queue[d],
           \A r \in Request : req'[r].doc = d => req'[r] = req[r],
           \A p \in Process : run'[p].pc # "idle" /\ DocOf(p)' = d => run'[p] = run[p]
    PROVE  Current(d)'
<1>1. CASE raced[d]
  BY <1>1 DEF Current
<1>2. CASE ~raced[d]
  BY <1>2, FewerAt DEF Current
<1> QED
  BY <1>1, <1>2 DEF Current

LEMMA CurrentGoing ==
    ASSUME TypeOK, Holding, NEW p \in Process, Going(p), NEW d \in Docs, Current(d)
    PROVE  Current(d)'
<1>0. InRun(p) /\ \A q \in Process : DocOf(q)' = DocOf(q)
  BY GoingIsInRun DEF InRun, DocOf
<1>1. CASE d # DocOf(p)
  <2>1. /\ raced'[d] = raced[d] /\ disk'[d] = disk[d] /\ row'[d].hash = row[d].hash
        /\ ctx'[d] = ctx[d] /\ chunks'[d] = chunks[d] /\ queue' = queue /\ req' = req
    BY <1>0, <1>1 DEF InRun
  <2>2. queue'[d] \in Nat /\ queue'[d] <= queue[d]
    BY <2>1 DEF TypeOK
  <2>3. \A q \in Process : run'[q].pc # "idle" /\ DocOf(q)' = d => run'[q] = run[q]
    BY <1>0, <1>1 DEF InRun, OthersRun
  <2> QED
    BY <2>1, <2>2, <2>3, CurrentFewer
<1>2. CASE d = DocOf(p) /\ ~raced[d]
  <2>0. /\ Alone(d) /\ OfContent(d) /\ run[p].pc # "idle" /\ run[p].pc # "failed" /\ run'[p].pc # "idle"
        /\ disk' = disk /\ queue' = queue /\ req' = req /\ row'[d].hash = row[d].hash
    <3>1. run[p].pc # "failed"
      BY EnterEffect, WorkEffect, WorkFailsEffect, SaveEffect, CloseEffect, MarkRunEffect DEF Going
    <3> QED
      BY <1>0, <1>2, <3>1 DEF InRun, Current
  <2>1. disk[d] = row[d].hash /\ Coming(d) /\ row[d].hash # None
    BY <1>2, <2>0, RunIsOfDisk, Active
  <2>2. /\ Good(ctx'[d], ctx'[d].done, row[d].hash, chunks'[d])
        /\ run'[p].pc # "failed" => Carries(run'[p], row[d].hash, chunks'[d], ctx'[d].done)
    <3>1. Carries(run[p], row[d].hash, chunks[d], ctx[d].done) /\ Good(ctx[d], ctx[d].done, row[d].hash, chunks[d])
      BY <1>2, <2>0, <2>1 DEF OfContent
    <3> QED
      BY <1>2, <2>1, <3>1, GoingCarries
  <2>3. Alone(d)'
    BY <2>0 DEF Alone, Callers
  <2>4. ASSUME NEW q \in Process, run'[q].pc \notin {"idle", "failed"}, DocOf(q)' = d
        PROVE  Carries(run'[q], row'[d].hash, chunks'[d], ctx'[d].done)
    <3>1. q = p
      <4>1. DocOf(q) = d /\ (q # p => run[q].pc # "idle")
        BY <1>0, <2>4 DEF InRun, OthersRun
      <4> QED
        BY <1>2, <2>0, <4>1, OneRun
    <3> QED
      BY <2>0, <2>2, <2>4, <3>1
  <2> QED
    BY <2>0, <2>2, <2>3, <2>4 DEF OfContent, Current
<1>3. CASE raced[d]
  BY <1>0, <1>3 DEF Current, InRun
<1> QED
  BY <1>1, <1>2, <1>3

LEMMA CurrentLoad ==
    ASSUME TypeOK, Holding, NEW p \in Process, Load(p), NEW d \in Docs, Current(d)
    PROVE  Current(d)'
<1>0. /\ OthersRun(p) /\ run'[p].pc = "stage" /\ run'[p].raw = None /\ run'[p].context = ctx[DocOf(p)]
      /\ disk' = disk /\ row' = row /\ ctx' = ctx /\ chunks' = chunks /\ queue' = queue /\ req' = req /\ raced' = raced
      /\ (p \in Docs /\ queue[p] > 0) \/ (p \notin Docs /\ req[p].pc = "process")
  BY LoadEffect
<1>1. \A q \in Process : DocOf(q)' = DocOf(q)
  BY <1>0 DEF DocOf
<1>2. CASE ~raced[d]
  <2>1. Alone(d) /\ OfContent(d)
    BY <1>2 DEF Current
  <2>2. Alone(d)' /\ (Coming(d)' => Coming(d))
    BY <1>0, <2>1 DEF Alone, Callers, Coming
  <2>3. ASSUME NEW q \in Process, run'[q].pc \notin {"idle", "failed"}, DocOf(q)' = d
        PROVE  Carries(run'[q], row'[d].hash, chunks'[d], ctx'[d].done)
    <3>1. CASE q # p
      <4>1. run'[q] = run[q] /\ DocOf(q) = d
        BY <1>0, <1>1, <2>3, <3>1 DEF OthersRun
      <4> QED
        BY <1>0, <2>1, <2>3, <4>1 DEF OfContent
    <3>2. CASE q = p
      <4>1. DocOf(p) = d
        BY <1>1, <2>3, <3>2
      <4>2. Coming(d)
        BY <1>0, <2>1, <4>1, RunIsOfDisk
      <4>3. Good(ctx[d], ctx[d].done, row[d].hash, chunks[d])
        BY <2>1, <4>2 DEF OfContent
      <4>4. Gone(run'[q]) = ctx[d].done /\ run'[q].context = ctx[d] /\ run'[q].raw = None /\ run'[q].pc = "stage"
        BY <1>0, <3>2, <4>1 DEF Gone
      <4>5. ctx[d].done <= ctx[d].done
        <5>1. ctx[d] \in Contexts
          BY DEF TypeOK
        <5>2. ctx[d].done \in 0..6
          BY <5>1, SixStages DEF Contexts
        <5> QED
          BY <5>2
      <4> QED
        BY <1>0, <4>3, <4>4, <4>5 DEF Carries
    <3> QED
      BY <3>1, <3>2
  <2> QED
    BY <1>0, <2>1, <2>2, <2>3 DEF OfContent, Current
<1>3. CASE raced[d]
  BY <1>0, <1>3 DEF Current
<1> QED
  BY <1>2, <1>3

\* The end of a run.
LEMMA CurrentEnd ==
    ASSUME TypeOK, Holding, NEW p \in Process, OthersRun(p), run'[p] = NoRun, NEW d \in Docs, Current(d),
           UNCHANGED <<disk, ctx, chunks, raced>>, row'[d].hash = row[d].hash,
           queue'[d] \in Nat, queue'[d] <= queue[d],
           req' = req \/ (p \in Request /\ OthersReq(p) /\ req'[p].doc = None)
    PROVE  Current(d)'
<1>1. d # None
  BY IngestionAssumption
<1>2. \A r \in Request : req'[r].doc = d => req'[r] = req[r]
  BY <1>1 DEF OthersReq
<1>3. \A q \in Process : run'[q].pc # "idle" /\ DocOf(q)' = d => run'[q] = run[q]
  BY Nothings DEF OthersRun
<1> QED
  BY <1>2, <1>3, CurrentFewer

\* A step of the call r, with no run, where d is not its document.
LEMMA CurrentElsewhere ==
    ASSUME TypeOK, Holding, NEW r \in Request, OthersReq(r), NEW d \in Docs, Current(d), req'[r].doc # d,
           run' = run, disk'[d] = disk[d], row'[d].hash = row[d].hash, ctx'[d] = ctx[d], chunks'[d] = chunks[d],
           queue'[d] = queue[d], raced'[d] = raced[d]
    PROVE  Current(d)'
<1>1. \A q \in Request : req'[q].doc = d => req'[q] = req[q]
  BY DEF OthersReq
<1>2. queue'[d] \in Nat /\ queue'[d] <= queue[d]
  BY DEF TypeOK
<1> QED
  BY <1>1, <1>2, CurrentFewer

\* The call r is alone at d, with no event of it, before it processes.
LEMMA CurrentPlaced ==
    ASSUME TypeOK, Holding, NEW r \in Request, OthersReq(r), NEW d \in Docs,
           run' = run, run[r].pc = "idle", queue'[d] = 0, queue[d] = 0, Callers(d) \subseteq {r},
           disk'[d] = IF req'[r].pc = "register" THEN req'[r].hash ELSE row'[d].hash,
           req'[r].pc \in {"publish", "process"} => Good(ctx'[d], ctx'[d].done, row'[d].hash, chunks'[d])
    PROVE  Alone(d)' /\ OfContent(d)'
<1>1. run'[d].pc = "idle"
  BY DEF Holding, TypeOK
<1>2. ASSUME NEW q \in Request, req'[q].doc = d PROVE q = r
  BY <1>2 DEF OthersReq, Callers
<1> QED
  BY <1>1, <1>2, QuietAt

LEMMA CurrentCalls ==
    ASSUME TypeOK, Holding, NEW d \in Docs, Current(d), NEW r \in Request,
           Call(r) \/ Register(r) \/ Unchanged(r) \/ Reset(r) \/ Publish(r) \/ PublishFails(r) \/ CancelledAtStep(r)
    PROVE  Current(d)'
<1>0. d # None /\ queue[d] \in Nat
  BY IngestionAssumption DEF TypeOK
<1>1. CASE Call(r)
  <2>1. OthersReq(r) /\ req'[r].doc # d /\ NoRuns /\ UNCHANGED <<disk, row, ctx, queue, raced>>
    BY <1>0, <1>1, CallEffect
  <2> QED
    BY <2>1, CurrentElsewhere DEF NoRuns
<1>2. CASE Register(r)
  <2>1. /\ OthersReq(r) /\ NoRuns /\ UNCHANGED <<disk, ctx, queue, raced>> /\ req'[r].pc = "reset"
        /\ req[r].pc = "register" /\ req'[r].doc = req[r].doc /\ run[r].pc = "idle"
    BY <1>2, RegisterEffect, IdleRun
  <2>2. CASE d # req[r].doc
    <3>1. row'[d] = row[d]
      BY <1>2, <2>2, RegisterEffect
    <3> QED
      BY <2>1, <2>2, <3>1, CurrentElsewhere DEF NoRuns
  <2>3. CASE d = req[r].doc /\ ~raced[d]
    <3>1. Alone(d) /\ r \in Callers(d)
      BY <2>3 DEF Current, Callers
    <3>2. disk[d] = req[r].hash /\ queue[d] = 0 /\ Callers(d) \subseteq {r}
      BY <2>1, <3>1 DEF Alone
    <3>3. row'[d].hash = req[r].hash
      BY <1>2, <2>3, RegisterEffect
    <3> QED
      BY <2>1, <3>2, <3>3, CurrentPlaced DEF Current, NoRuns
  <2> QED
    BY <2>1, <2>2, <2>3 DEF Current
<1>3. CASE Unchanged(r)
  <2>1. /\ OthersReq(r) /\ NoRuns /\ UNCHANGED <<disk, row, ctx, queue, raced>>
        /\ req[r].pc = "register" /\ run[r].pc = "idle" /\ row[req[r].doc].hash = req[r].hash
        /\ (req'[r].pc = "reset" /\ req'[r].doc = req[r].doc) \/ req'[r].doc = None
    BY <1>3, UnchangedEffect, IdleRun
  <2>2. CASE req'[r].doc # d
    BY <2>1, <2>2, CurrentElsewhere DEF NoRuns
  <2>3. CASE req'[r].doc = d /\ ~raced[d]
    <3>0. req'[r].pc = "reset" /\ req[r].doc = d
      BY <1>0, <2>1, <2>3
    <3>1. Alone(d) /\ r \in Callers(d)
      BY <2>3, <3>0 DEF Current, Callers
    <3>2. disk[d] = row[d].hash /\ queue[d] = 0 /\ Callers(d) \subseteq {r}
      BY <2>1, <3>0, <3>1 DEF Alone
    <3> QED
      BY <2>1, <3>0, <3>2, CurrentPlaced DEF Current, NoRuns
  <2> QED
    BY <2>1, <2>2, <2>3 DEF Current
<1>4. CASE Reset(r)
  <2>1. /\ OthersReq(r) /\ NoRuns /\ UNCHANGED <<disk, row, queue>> /\ req'[r].pc \in {"publish", "process"}
        /\ req[r].pc = "reset" /\ req'[r].doc = req[r].doc /\ run[r].pc = "idle" /\ req[r].doc \in Docs
        /\ ctx'[req[r].doc] = NoContext
        /\ raced' = [raced EXCEPT ![req[r].doc] = raced[req[r].doc] /\ ~(/\ Callers(req[r].doc) = {r} /\ queue[req[r].doc] = 0
                                                                /\ disk[req[r].doc] = row[req[r].doc].hash)]
    BY <1>4, ResetEffect, IdleRun
  <2>2. CASE d # req[r].doc
    <3>0. raced \in [Docs -> BOOLEAN]
      BY DEF TypeOK
    <3>a. ctx'[d] = ctx[d]
      BY <1>4, <2>2, ResetEffect
    <3>b. raced'[d] = raced[d]
      BY <2>1, <2>2, <3>0
    <3>1. ctx'[d] = ctx[d] /\ raced'[d] = raced[d]
      BY <3>a, <3>b
    <3> QED
      BY <2>1, <2>2, <3>1, CurrentElsewhere DEF NoRuns
  <2>3. CASE d = req[r].doc /\ ~raced'[d]
    <3>1. ~raced[d] \/ (Callers(d) = {r} /\ queue[d] = 0 /\ disk[d] = row[d].hash)
      <4>1. raced'[d] = (raced[d] /\ ~(Callers(d) = {r} /\ queue[d] = 0 /\ disk[d] = row[d].hash))
        BY <2>1, <2>3 DEF TypeOK
      <4> QED
        BY <2>3, <4>1
    <3>2. disk[d] = row[d].hash /\ queue[d] = 0 /\ Callers(d) \subseteq {r}
      <4>1. CASE ~raced[d]
        <5>1. Alone(d) /\ r \in Callers(d)
          BY <2>3, <4>1 DEF Current, Callers
        <5> QED
          BY <2>1, <5>1 DEF Alone
      <4> QED
        BY <3>1, <4>1
    <3>3. Good(ctx'[d], ctx'[d].done, row'[d].hash, chunks'[d])
      BY <2>1, <2>3, Nothings DEF Good
    <3> QED
      BY <2>1, <3>2, <3>3, CurrentPlaced DEF Current, NoRuns
  <2> QED
    BY <2>2, <2>3 DEF Current
<1>5. CASE Publish(r) \/ PublishFails(r)
  <2>1. /\ OthersReq(r) /\ NoRuns /\ UNCHANGED <<disk, row, ctx, raced>> /\ req[r].pc = "publish"
        /\ req'[r].doc = None /\ run[r].pc = "idle" /\ req[r].doc \in Docs
        /\ queue' = queue \/ queue' = [queue EXCEPT ![req[r].doc] = queue[req[r].doc] + 1]
    BY <1>5, PublishEffect, IdleRun
  <2>2. CASE queue'[d] = queue[d]
    BY <1>0, <2>1, <2>2, CurrentElsewhere DEF NoRuns
  <2>3. CASE queue'[d] # queue[d] /\ ~raced[d]
    <3>0. d = req[r].doc /\ queue'[d] = queue[d] + 1
      <4>1. queue \in [Docs -> Nat] /\ queue' = [queue EXCEPT ![req[r].doc] = queue[req[r].doc] + 1]
        BY <2>1, <2>3 DEF TypeOK
      <4> QED
        BY <2>3, <4>1
    <3>1. Alone(d) /\ OfContent(d) /\ r \in Callers(d) /\ Coming(d)
      BY <2>1, <2>3, <3>0 DEF Current, Callers, Coming
    <3>2. disk[d] = row[d].hash /\ queue'[d] = 1 /\ Callers(d) \subseteq {r}
      BY <2>1, <3>0, <3>1 DEF Alone
    <3>3. \A q \in Request : req'[q].doc # d
      BY <1>0, <2>1, <3>2 DEF OthersReq, Callers
    <3>4. Alone(d)'
      <4>1. Callers(d)' = {}
        BY <3>3 DEF Callers
      <4> QED
        BY <2>1, <3>2, <4>1 DEF Alone
    <3>5. ASSUME NEW p \in Process, run'[p].pc \notin {"idle", "failed"}, DocOf(p)' = d
          PROVE  Carries(run'[p], row'[d].hash, chunks'[d], ctx'[d].done)
      <4>1. p = d /\ DocOf(p) = d
        BY <3>3, <3>5 DEF DocOf, Process
      <4> QED
        BY <2>1, <3>1, <3>5, <4>1 DEF OfContent, NoRuns
    <3> QED
      BY <2>1, <3>1, <3>4, <3>5 DEF OfContent, Current, NoRuns
  <2> QED
    BY <2>1, <2>2, <2>3 DEF Current
<1>6. CASE CancelledAtStep(r)
  <2>1. OthersReq(r) /\ req'[r].doc # d /\ NoRuns /\ UNCHANGED <<disk, row, ctx, queue, raced>>
    BY <1>0, <1>6, CancelledEffect, RaisesEffect
  <2> QED
    BY <2>1, CurrentElsewhere DEF NoRuns
<1> QED
  BY <1>1, <1>2, <1>3, <1>4, <1>5, <1>6

\* Nobody is at d, and its file changes.
LEMMA CurrentNobody ==
    ASSUME TypeOK, Holding, NEW d \in Docs, queue' = queue, run' = run, queue[d] = 0,
           \A q \in Request : req'[q].doc # d
    PROVE  Current(d)'
<1>1. run'[d].pc = "idle"
  BY DEF Holding, TypeOK
<1> QED
  BY <1>1, NobodyAt DEF Current

LEMMA CurrentNext ==
    ASSUME TypeOK, Holding, CurrentInv, AttachmentInv, [Next]_vars
    PROVE  CurrentInv'
<1> SUFFICES ASSUME NEW d \in Docs PROVE Current(d)'
  BY DEF CurrentInv, Current
<1>0. Current(d) /\ d # None /\ queue[d] \in Nat /\ queue[d] <= queue[d]
  BY IngestionAssumption DEF CurrentInv, Current, TypeOK
<1>1. CASE UNCHANGED vars
  <2>1. UNCHANGED <<disk, row, ctx, chunks, queue, req, run, raced>>
    BY <1>1 DEF vars, stores, bus
  <2> QED
    BY <1>0, <2>1, CurrentFewer
<1>2. ASSUME NEW e \in Scanned \cup Direct, NEW c \in Content \cup {None}, Edit(e, c) PROVE Current(d)'
  <2>0. e \in Docs /\ c \in Hash
    BY DEF Docs, Hash
  <2>1. /\ UNCHANGED <<row, ctx, chunks, queue, req, run>>
        /\ disk' = [disk EXCEPT ![e] = c] /\ raced' = [raced EXCEPT ![e] = raced[e] \/ Busy(e)]
    BY <1>2, <2>0, EditEffect
  <2>2. CASE d # e
    <3>1. disk'[d] = disk[d] /\ raced'[d] = raced[d]
      BY <2>1, <2>2 DEF TypeOK
    <3> QED
      BY <1>0, <2>1, <3>1, CurrentFewer
  <2>3. CASE d = e /\ ~raced'[d]
    <3>1. ~Busy(d)
      <4>1. raced'[d] = (raced[d] \/ Busy(d))
        BY <2>0, <2>1, <2>3 DEF TypeOK
      <4> QED
        BY <2>3, <4>1
    <3>2. queue[d] = 0 /\ \A q \in Request : req[q].doc # d
      BY <1>0, <3>1 DEF Busy, Callers
    <3> QED
      BY <2>1, <3>2, CurrentNobody
  <2> QED
    BY <2>2, <2>3 DEF Current
<1>3. ASSUME NEW r \in Request, NEW u \in Upload, NEW c \in Content, Attach(r, u, c) PROVE Current(d)'
  <2>1. /\ OthersReq(r) /\ NoRuns /\ UNCHANGED <<row, ctx, queue, raced>> /\ req'[r].doc = None
        /\ disk' = [disk EXCEPT ![u] = c] /\ attachment[u] = "none"
    BY <1>3, AttachEffect
  <2>2. CASE d # u
    <3>1. disk'[d] = disk[d]
      BY <2>1, <2>2 DEF TypeOK
    <3> QED
      BY <1>0, <2>1, <3>1, CurrentElsewhere DEF NoRuns
  <2>3. CASE d = u
    <3>1. OneCall(u)
      BY DEF AttachmentInv
    <3>2. queue[d] = 0 /\ \A q \in Request : req[q].doc # d
      BY <2>1, <2>3, <3>1 DEF OneCall, Sent
    <3> QED
      BY <1>0, <2>1, <3>2, CurrentNobody DEF OthersReq, NoRuns
  <2> QED
    BY <2>2, <2>3
<1>4. ASSUME NEW r \in Request, NEW e \in Docs, Read(r, e) PROVE Current(d)'
  <2>1. /\ OthersReq(r) /\ NoRuns /\ UNCHANGED <<disk, row, ctx, queue>> /\ req'[r].doc = e
        /\ req'[r].pc = "register" /\ req'[r].hash = disk[e]
        /\ raced' = [raced EXCEPT ![e] = raced[e] \/ Busy(e)] /\ run[r].pc = "idle"
    BY <1>4, ReadEffect, IdleRun
  <2>2. CASE d # e
    <3>1. raced'[d] = raced[d]
      BY <2>1, <2>2 DEF TypeOK
    <3> QED
      BY <1>0, <2>1, <2>2, <3>1, CurrentElsewhere DEF NoRuns
  <2>3. CASE d = e /\ ~raced'[d]
    <3>1. ~Busy(d)
      <4>1. raced'[d] = (raced[d] \/ Busy(d))
        BY <2>1, <2>3 DEF TypeOK
      <4> QED
        BY <2>3, <4>1
    <3>2. queue[d] = 0 /\ Callers(d) \subseteq {r}
      BY <1>0, <3>1 DEF Busy
    <3> QED
      BY <2>1, <2>3, <3>2, CurrentPlaced DEF Current, NoRuns
  <2> QED
    BY <2>2, <2>3 DEF Current
<1>5. ASSUME NEW r \in Request, NEW e \in Docs, ReadMissing(r, e) PROVE Current(d)'
  <2>1. OthersReq(r) /\ NoRuns /\ UNCHANGED <<disk, row, ctx, queue, raced>> /\ req'[r].doc # d
    BY <1>0, <1>5, ReadMissingEffect
  <2> QED
    BY <1>0, <2>1, CurrentElsewhere DEF NoRuns
<1>6. ASSUME NEW r \in Request, Answer(r) PROVE Current(d)'
  <2>1. /\ OthersRun(r) /\ run'[r] = NoRun /\ OthersReq(r) /\ req'[r].doc = None
        /\ UNCHANGED <<disk, row, ctx, chunks, queue, raced>> /\ r \in Process
    BY <1>6, AnswerEffect DEF Process
  <2> QED
    BY <1>0, <2>1, CurrentEnd
<1>k. ASSUME NEW r \in Request, Kill(r) PROVE Current(d)'
  <2>1. /\ OthersRun(r) /\ run'[r] = NoRun /\ OthersReq(r) /\ req'[r].doc = None
        /\ UNCHANGED <<disk, row, ctx, chunks, queue, raced>> /\ r \in Process
    BY <1>k, KillEffect DEF Process
  <2> QED
    BY <1>0, <2>1, CurrentEnd
<1>7. ASSUME NEW r \in Request, Calls(r) PROVE Current(d)'
  BY <1>0, <1>6, <1>k, <1>7, CurrentCalls DEF Calls
<1>8. ASSUME NEW p \in Process, EnterMissing(p) PROVE Current(d)'
  <2>0. /\ p \in Docs => queue[p] > 0
        /\ p \notin Docs => p \in Request /\ req[p].doc \in Docs
    BY <1>8, EnterMissingEffect, Active
  <2>1. /\ OthersRun(p) /\ run'[p] = NoRun /\ UNCHANGED <<disk, ctx, chunks, raced>>
        /\ row'[d].hash = row[d].hash
    BY <1>8, EnterMissingEffect
  <2>2. CASE p \in Docs
    <3>1. Refused(p) /\ req' = req
      BY <1>8, <2>2, EnterMissingEffect
    <3>2. queue'[d] \in Nat /\ queue'[d] <= queue[d]
      BY <1>0, <2>0, <2>2, <3>1, RefusedEffect
    <3> QED
      BY <1>0, <2>1, <3>1, <3>2, CurrentEnd
  <2>3. CASE p \notin Docs
    <3>1. OthersReq(p) /\ req'[p].doc = None /\ queue' = queue /\ p \in Request
      BY <1>8, <2>0, <2>3, EnterMissingEffect, RaisesEffect
    <3> QED
      BY <1>0, <2>1, <3>1, CurrentEnd
  <2> QED
    BY <2>2, <2>3
<1>9. ASSUME NEW p \in Docs \cup Request, Runs(p) PROVE Current(d)'
  BY <1>0, <1>8, <1>9, CurrentGoing, CurrentLoad DEF Runs, Going, Process
<1>10. ASSUME NEW e \in Docs, Announce(e) \/ AnnounceFails(e) PROVE Current(d)'
  <2>1. /\ e \in Process /\ OthersRun(e) /\ run'[e] = NoRun /\ req' = req
        /\ UNCHANGED <<disk, row, ctx, chunks, raced>>
        /\ queue'[e] <= queue[e] /\ queue' \in [Docs -> Nat]
        /\ \A f \in Docs : f # e => queue'[f] = queue[f]
    BY <1>10, AnnounceEffect DEF Process
  <2>2. queue'[d] \in Nat /\ queue'[d] <= queue[d]
    BY <1>0, <2>1
  <2> QED
    BY <1>0, <2>1, <2>2, CurrentEnd
<1>11. CASE Crash
  <2>1. /\ \A p \in Process : run'[p] = NoRun
        /\ \A r \in Request : req'[r].doc = None
        /\ queue'[d] \in Nat /\ queue'[d] <= queue[d]
        /\ UNCHANGED <<disk, row, ctx, chunks, raced>>
    BY <1>11, CrashEffect
  <2> QED
    BY <1>0, <2>1, Nothings, CurrentFewer
<1> QED
  BY <1>1, <1>2, <1>3, <1>4, <1>5, <1>7, <1>9, <1>10, <1>11 DEF Next

LEMMA CurrentInit == Init => CurrentInv
<1> SUFFICES ASSUME Init, NEW d \in Docs PROVE Alone(d) /\ OfContent(d)
  BY DEF CurrentInv
<1>1. /\ queue[d] = 0 /\ \A p \in Process : run[p] = NoRun
      /\ \A r \in Request : req[r] = NoRequest
  BY DEF Init, Process
<1>2. Callers(d) = {} /\ ~Coming(d)
  BY <1>1, Nothings, IngestionAssumption DEF Callers, Coming
<1> QED
  BY <1>1, <1>2, Nothings DEF Alone, OfContent

\* What CurrentInv says of the end of a run.
LEMMA CurrentAtEnd ==
    ASSUME TypeOK, Holding, CurrentInv, NEW p \in Process, run[p].pc = "indexed", ~raced[DocOf(p)]
    PROVE  chunks[DocOf(p)] = [text |-> row[DocOf(p)].hash, vectors |-> row[DocOf(p)].hash]
<1> DEFINE d == DocOf(p)
<1>1. d \in Docs
  BY Active
<1>2. Carries(run[p], row[d].hash, chunks[d], ctx[d].done) /\ run[p].context.done = 6
  BY <1>1 DEF CurrentInv, OfContent, Holding, Shaped
<1>3. chunks[d].text = row[d].hash /\ chunks[d].vectors = row[d].hash
  BY <1>2 DEF Carries, Gone, Good
<1>4. chunks[d] \in [text : Hash, vectors : Hash]
  BY <1>1 DEF TypeOK
<1> QED
  BY <1>3, <1>4

-----------------------------------------------------------------------------
(* No version is forgotten.                                                *)

Pending(d) == row[d].hash # None /\ ~row[d].stamped /\ row[d].state # "failed"
Forgotten(d) == Pending(d) => Taker(d)

\* Who would take it stays.
LEMMA ForgottenKept ==
    ASSUME NEW d \in Docs, Forgotten(d), row'[d] = row[d], dropped[d] => dropped'[d], queue'[d] = queue[d],
           Ended(d)' => Ended(d), queue[d] \in Nat,
           \A q \in Callers(d) : req[q].pc \in Placed /\ ~Ended(q) => req'[q] = req[q] /\ run'[q] = run[q]
    PROVE  Forgotten(d)'
<1>1. Pending(d)' => Pending(d)
  BY DEF Pending
<1>2. ASSUME NEW r \in Callers(d), req[r].pc \in {"reset", "publish", "process"}, ~Ended(r) PROVE Taker(d)'
  BY <1>2 DEF Taker, Callers, Ended, Placed
<1>3. queue[d] > (IF Ended(d) THEN 1 ELSE 0) => Taker(d)'
  BY DEF Taker
<1>4. dropped[d] => Taker(d)'
  BY DEF Taker
<1> QED
  BY <1>1, <1>2, <1>3, <1>4 DEF Forgotten, Taker

LEMMA ForgottenCalls ==
    ASSUME TypeOK, Holding, NEW d \in Docs, Forgotten(d), NEW r \in Request,
           Call(r) \/ Register(r) \/ Unchanged(r) \/ Reset(r) \/ Publish(r) \/ PublishFails(r) \/ CancelledAtStep(r)
    PROVE  Forgotten(d)'
<1>0. queue[d] \in Nat /\ d # None /\ queue \in [Docs -> Nat] /\ dropped \in [Docs -> BOOLEAN]
  BY IngestionAssumption DEF TypeOK
\* Elsewhere, or before the call is placed.
<1>1. ASSUME OthersReq(r), NoRuns, row'[d] = row[d], dropped'[d] = dropped[d], queue'[d] = queue[d],
             d # req[r].doc \/ req[r].pc \notin Placed
      PROVE  Forgotten(d)'
  <2>1. \A q \in Callers(d) : req[q].pc \in Placed => req'[q] = req[q] /\ run'[q] = run[q]
    BY <1>1 DEF OthersReq, NoRuns, Callers
  <2>2. Ended(d)' => Ended(d)
    BY <1>1 DEF Ended, NoRuns
  <2> QED
    BY <1>0, <1>1, <2>1, <2>2, ForgottenKept
\* The call itself is the taker.
<1>2. ASSUME d = req[r].doc, req'[r].doc = d, req'[r].pc \in Placed, run'[r].pc = "idle" PROVE Forgotten(d)'
  BY <1>2 DEF Forgotten, Taker, Callers, Ended, Placed
<1>3. CASE Call(r)
  BY <1>0, <1>1, <1>3, CallEffect DEF Placed
<1>4. CASE Register(r)
  <2>1. /\ OthersReq(r) /\ NoRuns /\ dropped' = dropped /\ queue' = queue /\ req'[r].doc = req[r].doc
        /\ req'[r].pc = "reset" /\ run'[r].pc = "idle"
        /\ d # req[r].doc => row'[d] = row[d]
    BY <1>4, RegisterEffect, IdleRun DEF NoRuns
  <2> QED
    BY <1>1, <1>2, <2>1 DEF Placed
<1>5. CASE Unchanged(r)
  BY <1>1, <1>5, UnchangedEffect DEF Placed
<1>6. CASE Reset(r)
  <2>1. /\ OthersReq(r) /\ NoRuns /\ UNCHANGED <<row, dropped, queue>> /\ req'[r].doc = req[r].doc
        /\ req'[r].pc \in {"publish", "process"} /\ run'[r].pc = "idle"
    BY <1>6, ResetEffect, IdleRun DEF NoRuns
  <2> QED
    BY <1>1, <1>2, <2>1 DEF Placed
<1>7. CASE Publish(r) \/ PublishFails(r)
  <2>1. /\ OthersReq(r) /\ NoRuns /\ row' = row /\ req[r].doc \in Docs
        /\ \/ /\ queue' = [queue EXCEPT ![req[r].doc] = queue[req[r].doc] + 1]
              /\ dropped' = [dropped EXCEPT ![req[r].doc] = FALSE]
           \/ queue' = queue /\ dropped' = [dropped EXCEPT ![req[r].doc] = TRUE]
    BY <1>7, PublishEffect
  <2>2. CASE d # req[r].doc
    <3>1. queue'[d] = queue[d] /\ dropped'[d] = dropped[d]
      BY <1>0, <2>1, <2>2
    <3> QED
      BY <1>1, <2>1, <2>2, <3>1
  <2>3. CASE d = req[r].doc
    <3>1. queue'[d] = queue[d] + 1 \/ dropped'[d]
      BY <1>0, <2>1, <2>3
    <3>2. Ended(d)' => queue[d] > 0
      BY <2>1 DEF Ended, NoRuns, Holding
    <3>3. queue'[d] = queue[d] + 1 => queue'[d] > IF Ended(d)' THEN 1 ELSE 0
      BY <1>0, <3>2
    <3> QED
      BY <3>1, <3>3 DEF Forgotten, Taker
  <2> QED
    BY <2>2, <2>3
<1>8. CASE CancelledAtStep(r)
  <2>1. /\ OthersReq(r) /\ NoRuns /\ UNCHANGED <<row, queue>> /\ req[r].doc \in Docs
        /\ dropped' = [dropped EXCEPT ![req[r].doc] = TRUE]
    BY <1>8, CancelledEffect, RaisesEffect
  <2>2. CASE d # req[r].doc
    <3>1. dropped'[d] = dropped[d]
      BY <1>0, <2>1, <2>2
    <3> QED
      BY <1>1, <2>1, <2>2, <3>1
  <2>3. CASE d = req[r].doc
    <3>1. dropped'[d]
      BY <1>0, <2>1, <2>3
    <3> QED
      BY <3>1 DEF Forgotten, Taker
  <2> QED
    BY <2>2, <2>3
<1> QED
  BY <1>3, <1>4, <1>5, <1>6, <1>7, <1>8

\* The run itself is the taker, or the version has come to its end.
LEMMA ForgottenGoing ==
    ASSUME TypeOK, Holding, NEW d \in Docs, Forgotten(d), NEW p \in Process, Going(p) \/ Load(p)
    PROVE  Forgotten(d)'
<1>0. queue[d] \in Nat
  BY DEF TypeOK
<1>1. /\ OthersRun(p) /\ req' = req /\ queue' = queue
      /\ d # DocOf(p) => row'[d] = row[d] /\ dropped'[d] = dropped[d]
      /\ run'[p].pc = "failed" => row'[DocOf(p)].state = "failed"
      /\ run'[p].pc = "indexed" => row'[DocOf(p)].stamped
      /\ (p \in Docs /\ queue[p] > 0) \/ (p \in Request /\ p \notin Docs /\ req[p].pc = "process" /\ p \in Callers(DocOf(p)))
  <2>1. CASE Going(p)
    <3>1. InRun(p) /\ (run'[p].pc = "failed" => row'[DocOf(p)].state = "failed")
      BY <2>1, GoingIsInRun
    <3>2. run'[p].pc = "indexed" => row'[DocOf(p)].stamped
      BY <2>1, EnterEffect, WorkEffect, WorkFailsEffect, SaveEffect, CloseEffect, MarkRunEffect DEF Going
    <3>3. (p \in Docs /\ queue[p] > 0) \/ (p \in Request /\ p \notin Docs /\ req[p].pc = "process" /\ p \in Callers(DocOf(p)))
      BY <3>1, Active DEF InRun
    <3> QED
      BY <3>1, <3>2, <3>3 DEF InRun
  <2>2. CASE Load(p)
    <3>1. /\ OthersRun(p) /\ req' = req /\ queue' = queue /\ row' = row /\ run'[p].pc = "stage" /\ DocOf(p) \in Docs
          /\ IF p \in Docs THEN queue[p] > 0 /\ dropped' = dropped
             ELSE req[p].pc = "process" /\ dropped' = [dropped EXCEPT ![DocOf(p)] = FALSE]
      BY <2>2, LoadEffect
    <3>2. d # DocOf(p) => dropped'[d] = dropped[d]
      BY <3>1 DEF TypeOK
    <3>3. p \notin Docs => p \in Request /\ p \in Callers(DocOf(p))
      BY <3>1, RunDoc
    <3> QED
      BY <3>1, <3>2, <3>3
  <2> QED
    BY <2>1, <2>2
<1>2. CASE d # DocOf(p)
  <2>1. d # p /\ \A q \in Callers(d) : q # p /\ q \in Process
    BY <1>2, IngestionAssumption DEF DocOf, Callers, Process
  <2>2. Ended(d)' => Ended(d)
    BY <1>1, <2>1 DEF OthersRun, Ended, Process
  <2>3. \A q \in Callers(d) : req'[q] = req[q] /\ run'[q] = run[q]
    BY <1>1, <2>1 DEF OthersRun
  <2> QED
    BY <1>0, <1>1, <1>2, <2>2, <2>3, ForgottenKept
<1>3. CASE d = DocOf(p)
  <2>1. CASE run'[p].pc \in {"failed", "indexed"}
    BY <1>1, <1>3, <2>1 DEF Forgotten, Pending
  <2>2. CASE run'[p].pc \notin {"failed", "indexed"}
    <3>1. CASE p \in Docs
      <4>1. d = p
        BY <1>3, <3>1 DEF DocOf
      <4> QED
        BY <1>0, <1>1, <2>2, <3>1, <4>1, IngestionAssumption DEF Forgotten, Taker, Ended
    <3>2. CASE p \notin Docs
      <4>1. p \in Callers(d)' /\ req'[p].pc = "process" /\ ~Ended(p)'
        BY <1>1, <1>3, <2>2, <3>2 DEF Callers, Ended
      <4> QED
        BY <4>1 DEF Forgotten, Taker
    <3> QED
      BY <3>1, <3>2
  <2> QED
    BY <2>1, <2>2
<1> QED
  BY <1>2, <1>3

LEMMA ForgottenNext ==
    ASSUME TypeOK, Holding, ForgottenInv, [Next]_vars
    PROVE  ForgottenInv'
<1> SUFFICES ASSUME NEW d \in Docs PROVE Forgotten(d)'
  BY DEF ForgottenInv, Forgotten, Pending
<1>0. Forgotten(d) /\ queue[d] \in Nat /\ dropped \in [Docs -> BOOLEAN] /\ d \in Process
  BY DEF ForgottenInv, Forgotten, Pending, TypeOK, Process
\* No run moves, and no call that is placed.
<1>1. ASSUME run' = run, row' = row, dropped' = dropped, queue' = queue,
             \A q \in Request : req[q].pc \in Placed => req'[q] = req[q]
      PROVE  Forgotten(d)'
  BY <1>0, <1>1, ForgottenKept DEF Ended, Callers
<1>2. CASE UNCHANGED vars
  BY <1>1, <1>2 DEF vars, stores, bus
<1>3. ASSUME NEW e \in Scanned \cup Direct, NEW c \in Content \cup {None}, Edit(e, c) PROVE Forgotten(d)'
  <2>0. e \in Docs /\ c \in Hash
    BY DEF Docs, Hash
  <2> QED
    BY <1>1, <1>3, <2>0, EditEffect
<1>4. ASSUME NEW r \in Request, NEW u \in Upload, NEW c \in Content, Attach(r, u, c) PROVE Forgotten(d)'
  BY <1>1, <1>4, AttachEffect DEF OthersReq, NoRuns, Placed
<1>5. ASSUME NEW r \in Request, NEW e \in Docs, Read(r, e) \/ ReadMissing(r, e) PROVE Forgotten(d)'
  <2>1. /\ OthersReq(r) /\ NoRuns /\ UNCHANGED <<row, queue, dropped>> /\ req[r].pc = "read"
    BY <1>5, ReadEffect, ReadMissingEffect
  <2> QED
    BY <1>1, <2>1 DEF OthersReq, NoRuns, Placed
<1>6. ASSUME NEW r \in Request, Answer(r) PROVE Forgotten(d)'
  <2>1. /\ Ended(r) /\ OthersReq(r) /\ OthersRun(r) /\ row' = row /\ dropped' = dropped /\ queue' = queue
        /\ r \in Request /\ run'[r].pc = "idle"
    BY <1>6, AnswerEffect, Nothings DEF Ended
  <2>2. \A q \in Callers(d) : ~Ended(q) => req'[q] = req[q] /\ run'[q] = run[q]
    BY <2>1 DEF OthersReq, OthersRun, Callers, Process
  <2>3. Ended(d)' => Ended(d)
    BY <1>0, <2>1 DEF OthersRun, Ended
  <2> QED
    BY <1>0, <2>1, <2>2, <2>3, ForgottenKept
<1>k. ASSUME NEW r \in Request, Kill(r) PROVE Forgotten(d)'
  <2>1. /\ OthersReq(r) /\ OthersRun(r) /\ row' = row /\ queue' = queue /\ run'[r].pc = "idle"
        /\ dropped[d] \/ r \in Callers(d) => dropped'[d]
    BY <1>k, KillEffect, Nothings
  <2>2. CASE r \in Callers(d)
    BY <2>1, <2>2 DEF Forgotten, Taker
  <2>3. CASE r \notin Callers(d)
    <3>1. \A q \in Callers(d) : req'[q] = req[q] /\ run'[q] = run[q]
      BY <2>1, <2>3 DEF OthersReq, OthersRun, Callers, Process
    <3>2. Ended(d)' => Ended(d)
      BY <1>0, <2>1 DEF OthersRun, Ended
    <3> QED
      BY <1>0, <2>1, <3>1, <3>2, ForgottenKept
  <2> QED
    BY <2>2, <2>3
<1>7. ASSUME NEW r \in Request, Calls(r) PROVE Forgotten(d)'
  BY <1>0, <1>6, <1>k, <1>7, ForgottenCalls DEF Calls
<1>8. ASSUME NEW p \in Process, EnterMissing(p) PROVE Forgotten(d)'
  <2>0. /\ p \in Docs => queue[p] > 0 /\ DocOf(p) = p
        /\ p \notin Docs => p \in Request /\ req[p].doc \in Docs /\ DocOf(p) = req[p].doc
        /\ OthersRun(p) /\ run'[p] = NoRun /\ run[p].pc = "stage"
        /\ d # DocOf(p) => row'[d] = row[d]
    BY <1>8, EnterMissingEffect, Active
  <2>1. CASE p \in Docs
    <3>1. Refused(p) /\ req' = req
      BY <1>8, <2>1, EnterMissingEffect
    <3>2. /\ d # p => queue'[d] = queue[d] /\ dropped'[d] = dropped[d]
          /\ queue'[p] = queue[p] \/ dropped'[p]
      BY <2>0, <2>1, <3>1, RefusedEffect
    <3>3. CASE d # p
      <4>1. \A q \in Callers(d) : q # p => req'[q] = req[q] /\ run'[q] = run[q]
        BY <2>0, <3>1 DEF OthersRun, Callers, Process
      <4>2. \A q \in Callers(d) : q # p
        BY <2>1, IngestionAssumption DEF Callers
      <4>3. Ended(d)' => Ended(d)
        BY <1>0, <2>0, <3>3 DEF OthersRun, Ended
      <4> QED
        BY <1>0, <2>0, <2>1, <3>2, <3>3, <4>1, <4>2, <4>3, ForgottenKept
    <3>4. CASE d = p
      <4>1. ~Ended(d)'
        BY <2>0, <3>4, Nothings DEF Ended
      <4> QED
        BY <2>0, <2>1, <3>2, <3>4, <4>1 DEF Forgotten, Taker
    <3> QED
      BY <3>3, <3>4
  <2>2. CASE p \notin Docs
    <3>1. OthersReq(p) /\ queue' = queue /\ dropped' = [dropped EXCEPT ![DocOf(p)] = TRUE]
      BY <1>8, <2>0, <2>2, EnterMissingEffect, RaisesEffect
    <3>2. CASE d # DocOf(p)
      <4>1. \A q \in Callers(d) : req'[q] = req[q] /\ run'[q] = run[q]
        BY <2>0, <2>2, <3>1, <3>2 DEF OthersRun, OthersReq, Callers, Process
      <4>2. Ended(d)' => Ended(d)
        BY <1>0, <2>0, <2>2 DEF OthersRun, Ended
      <4>3. dropped'[d] = dropped[d]
        BY <1>0, <3>1, <3>2
      <4> QED
        BY <1>0, <2>0, <3>1, <3>2, <4>1, <4>2, <4>3, ForgottenKept
    <3>3. CASE d = DocOf(p)
      <4>1. dropped'[d]
        BY <1>0, <3>1, <3>3
      <4> QED
        BY <4>1 DEF Forgotten, Taker
    <3> QED
      BY <3>2, <3>3
  <2> QED
    BY <2>1, <2>2
<1>9. ASSUME NEW p \in Docs \cup Request, Runs(p) PROVE Forgotten(d)'
  BY <1>0, <1>8, <1>9, ForgottenGoing DEF Runs, Going, Process
<1>10. ASSUME NEW e \in Docs, Announce(e) \/ AnnounceFails(e) PROVE Forgotten(d)'
  <2>1. /\ Ended(e) /\ OthersRun(e) /\ run'[e].pc = "idle" /\ req' = req /\ row' = row /\ queue[e] > 0
        /\ \A f \in Docs : f # e => queue'[f] = queue[f] /\ dropped'[f] = dropped[f]
        /\ queue'[e] >= queue[e] - 1 /\ (dropped[e] => dropped'[e]) /\ queue' \in [Docs -> Nat]
    BY <1>10, AnnounceEffect, Nothings DEF Ended
  <2>2. \A q \in Callers(d) : run'[q] = run[q] /\ req'[q] = req[q]
    BY <2>1, IngestionAssumption DEF OthersRun, Callers, Process
  <2>3. CASE d # e
    <3>1. Ended(d)' => Ended(d)
      BY <1>0, <2>1, <2>3 DEF OthersRun, Ended
    <3> QED
      BY <1>0, <2>1, <2>2, <2>3, <3>1, ForgottenKept
  <2>4. CASE d = e
    <3>1. Pending(d)' => Taker(d)
      BY <1>0, <2>1 DEF Forgotten, Pending
    <3>2. ASSUME NEW r \in Callers(d), req[r].pc \in {"reset", "publish", "process"}, ~Ended(r) PROVE Taker(d)'
      BY <2>2, <3>2 DEF Taker, Callers, Ended
    <3>3. queue[d] > 1 => Taker(d)'
      <4>1. queue[d] > 1 => queue'[d] > 0
        BY <1>0, <2>1, <2>4
      <4>2. ~Ended(d)'
        BY <2>1, <2>4 DEF Ended
      <4> QED
        BY <4>1, <4>2 DEF Taker
    <3>4. dropped[d] => Taker(d)'
      BY <2>1, <2>4 DEF Taker
    <3> QED
      BY <2>1, <2>4, <3>1, <3>2, <3>3, <3>4 DEF Forgotten, Taker
  <2> QED
    BY <2>3, <2>4
<1>11. CASE Crash
  <2>1. /\ run'[d].pc = "idle" /\ row' = row
        /\ dropped[d] \/ Callers(d) # {} => dropped'[d]
        /\ queue[d] > 0 => queue'[d] > 0 \/ dropped'[d]
    BY <1>0, <1>11, CrashEffect, Nothings
  <2>2. Pending(d)' => Taker(d)
    BY <1>0, <2>1 DEF Forgotten, Pending
  <2>3. Taker(d) => dropped'[d] \/ queue'[d] > 0
    <3>1. Taker(d) => Callers(d) # {} \/ queue[d] > 0 \/ dropped[d]
      BY <1>0 DEF Taker
    <3> QED
      BY <2>1, <3>1, IngestionAssumption
  <2>4. ~Ended(d)'
    BY <2>1 DEF Ended
  <2> QED
    BY <2>2, <2>3, <2>4 DEF Forgotten, Taker
<1> QED
  BY <1>2, <1>3, <1>4, <1>5, <1>7, <1>9, <1>10, <1>11 DEF Next

LEMMA ForgottenInit == Init => ForgottenInv
BY DEF Init, ForgottenInv

-----------------------------------------------------------------------------
(* What an attachment says.                                                *)

Honest(u) ==
    /\ attachment[u] = "ready" => chunks[u] = [text |-> disk[u], vectors |-> disk[u]]
    /\ attachment[u] = "pending" => Sent(u) # {} \/ u \in abandoned
    /\ attachment[u] = "unsupported" => row[u].state = "failed"
Attached(u) == Honest(u) /\ OneCall(u)

LEMMA AttachedForms == AttachmentInv <=> \A u \in Upload : Attached(u)
BY DEF AttachmentInv, AttachmentHonest, Attached, Honest

\* Nothing of u changes.
LEMMA AttachedKept ==
    ASSUME NEW u \in Upload, Attached(u),
           disk'[u] = disk[u], chunks'[u] = chunks[u], row'[u] = row[u], queue'[u] = queue[u], raced'[u] = raced[u],
           attachment'[u] = attachment[u], u \in abandoned => u \in abandoned',
           \A r \in Request : u \in req'[r].todo \/ req'[r].doc = u \/ r \in Sent(u) => req'[r] = req[r],
           \A r \in Callers(u) : run'[r] = run[r]
    PROVE  Attached(u)'
<1>1. Sent(u)' = Sent(u) /\ Callers(u)' = Callers(u)
  BY DEF Sent, Callers
<1>2. \A r \in Sent(u) : req'[r] = req[r] /\ r \in Request
  BY DEF Sent
<1>3. \A r \in Request : u \in req'[r].todo => u \in req[r].todo /\ req'[r] = req[r]
  BY DEF Sent
<1>4. Honest(u)'
  BY <1>1 DEF Attached, Honest
<1>5. OneCall(u)'
  <2>1. queue'[u] = 0 /\ ~raced'[u]
    BY DEF Attached, OneCall
  <2>2. \A r, q \in Sent(u)' : r = q
    BY <1>1 DEF Attached, OneCall
  <2>3. \A r \in Sent(u)' : req'[r].op = "attach" /\ attachment'[u] = "pending"
    BY <1>1, <1>2 DEF Attached, OneCall
  <2>4. \A r \in Request : u \in req'[r].todo => req'[r].pc = "read" /\ req'[r].todo = {u}
    BY <1>3 DEF Attached, OneCall
  <2>5. \A r \in Sent(u)' : req'[r].pc \in {"read", "register"} => row'[u].hash = None
    BY <1>1, <1>2 DEF Attached, OneCall
  <2>6. \A r \in Callers(u)' : At(r, "failed")' => row'[u].state = "failed"
    BY <1>1 DEF Attached, OneCall, At
  <2>7. /\ attachment'[u] = "none" => row'[u].hash = None
        /\ attachment'[u] # "none" => disk'[u] # None
    BY DEF Attached, OneCall
  <2> QED
    BY <2>1, <2>2, <2>3, <2>4, <2>5, <2>6, <2>7 DEF OneCall
<1> QED
  BY <1>4, <1>5 DEF Attached

\* The call r has u, and nobody else.
LEMMA AttachedSole ==
    ASSUME NEW u \in Upload, NEW r \in Request, queue'[u] = 0, ~raced'[u],
           \A q \in Request : u \in req'[q].todo \/ req'[q].doc = u => q = r,
           u \in req'[r].todo \/ req'[r].doc = u,
           req'[r].op = "attach", attachment'[u] = "pending", disk'[u] # None,
           u \in req'[r].todo => req'[r].pc = "read" /\ req'[r].todo = {u},
           req'[r].pc \in {"read", "register"} => row'[u].hash = None,
           run'[r].pc = "failed" => row'[u].state = "failed"
    PROVE  Attached(u)'
<1>1. Sent(u)' = {r} /\ Callers(u)' \subseteq {r}
  BY DEF Sent, Callers
<1>2. Honest(u)'
  BY <1>1 DEF Honest
<1>3. OneCall(u)'
  BY <1>1 DEF OneCall, At
<1> QED
  BY <1>2, <1>3 DEF Attached

\* Nobody has u.
LEMMA AttachedNobody ==
    ASSUME NEW u \in Upload, queue'[u] = 0, ~raced'[u],
           \A q \in Request : u \notin req'[q].todo /\ req'[q].doc # u,
           attachment'[u] = "none" => row'[u].hash = None,
           attachment'[u] # "none" => disk'[u] # None,
           attachment'[u] = "ready" => chunks'[u] = [text |-> disk'[u], vectors |-> disk'[u]],
           attachment'[u] = "pending" => u \in abandoned',
           attachment'[u] = "unsupported" => row'[u].state = "failed"
    PROVE  Attached(u)'
<1>1. Sent(u)' = {} /\ Callers(u)' = {}
  BY DEF Sent, Callers
<1>2. OneCall(u)'
  BY <1>1 DEF OneCall
<1>3. Honest(u)'
  BY <1>1 DEF Honest
<1> QED
  BY <1>2, <1>3 DEF Attached

\* The call that is at u.
LEMMA CallerOfUpload ==
    ASSUME TypeOK, Holding, NEW u \in Upload, Attached(u), NEW r \in Request, req[r].doc = u
    PROVE  /\ queue[u] = 0 /\ ~raced[u] /\ req[r].op = "attach" /\ attachment[u] = "pending" /\ disk[u] # None
           /\ req[r].pc \in {"register", "reset", "process"}
           /\ \A q \in Request : u \notin req[q].todo /\ (req[q].doc = u => q = r)
           /\ req[r].pc = "register" => row[u].hash = None
           /\ run[r].pc = "failed" => row[u].state = "failed"
<1>1. u \in Docs /\ u # None
  BY IngestionAssumption DEF Docs
<1>2. r \in Sent(u) /\ r \in Callers(u)
  BY DEF Sent, Callers
<1>3. Holds(req[r])
  BY DEF Holding
<1>4. /\ queue[u] = 0 /\ ~raced[u] /\ req[r].op = "attach" /\ attachment[u] = "pending" /\ disk[u] # None
      /\ req[r].pc = "register" => row[u].hash = None
      /\ run[r].pc = "failed" => row[u].state = "failed"
  BY <1>2 DEF Attached, OneCall, At
<1>5. req[r].pc \in {"register", "reset", "process"}
  BY <1>1, <1>3, <1>4 DEF Holds
<1>6. ASSUME NEW q \in Request PROVE u \notin req[q].todo /\ (req[q].doc = u => q = r)
  <2>1. u \in req[q].todo \/ req[q].doc = u => q = r
    BY <1>2 DEF Attached, OneCall, Sent
  <2>2. u \in req[q].todo => req[q].pc = "read"
    BY DEF Attached, OneCall
  <2> QED
    BY <1>5, <2>1, <2>2
<1> QED
  BY <1>4, <1>5, <1>6

\* A step of the call r, which is not at u and does not come to it.
LEMMA AttachedElsewhere ==
    ASSUME NEW u \in Upload, Attached(u), NEW r \in Request, OthersReq(r), r \notin Sent(u),
           u \notin req'[r].todo, req'[r].doc # u, OthersRun(r), u \in abandoned => u \in abandoned',
           disk'[u] = disk[u], chunks'[u] = chunks[u], row'[u] = row[u], queue'[u] = queue[u], raced'[u] = raced[u],
           attachment'[u] = attachment[u]
    PROVE  Attached(u)'
<1>1. \A q \in Request : u \in req'[q].todo \/ req'[q].doc = u \/ q \in Sent(u) => req'[q] = req[q]
  BY DEF OthersReq
<1>2. \A q \in Callers(u) : run'[q] = run[q]
  BY DEF Callers, Sent, OthersRun, Process
<1> QED
  BY <1>1, <1>2, AttachedKept

LEMMA AttachedCalls ==
    ASSUME TypeOK, Holding, NEW u \in Upload, Attached(u), NEW r \in Request,
           Call(r) \/ Register(r) \/ Unchanged(r) \/ Reset(r) \/ Publish(r) \/ PublishFails(r) \/ CancelledAtStep(r)
    PROVE  Attached(u)'
<1>0. u \in Docs /\ u # None /\ u \notin Scanned \cup Direct
  BY IngestionAssumption DEF Docs
<1>1. /\ queue \in [Docs -> Nat] /\ raced \in [Docs -> BOOLEAN]
      /\ attachment \in [Upload -> {"none", "pending", "ready", "unsupported", "failed"}]
  BY DEF TypeOK
\* The call is elsewhere.
<1>2. ASSUME OthersReq(r), NoRuns, req[r].doc # u, u \notin req[r].todo, u \notin req'[r].todo, req'[r].doc # u,
             disk'[u] = disk[u], row'[u] = row[u], queue'[u] = queue[u], raced'[u] = raced[u],
             attachment'[u] = attachment[u]
      PROVE  Attached(u)'
  BY <1>2, AttachedElsewhere DEF NoRuns, OthersRun, Sent
\* It is at u, and stays.
<1>3. ASSUME OthersReq(r), NoRuns, req[r].doc = u, req'[r].doc = u, req'[r].op = req[r].op, req'[r].todo = req[r].todo,
             req'[r].pc \in {"reset", "process", "publish"}, run[r].pc = "idle",
             disk'[u] = disk[u], queue'[u] = queue[u], ~raced'[u], attachment'[u] = attachment[u]
      PROVE  Attached(u)'
  <2>1. /\ queue[u] = 0 /\ req[r].op = "attach" /\ attachment[u] = "pending" /\ disk[u] # None
        /\ \A q \in Request : u \notin req[q].todo /\ (req[q].doc = u => q = r)
    BY <1>3, CallerOfUpload
  <2>2. \A q \in Request : u \in req'[q].todo \/ req'[q].doc = u => q = r
    BY <1>3, <2>1 DEF OthersReq
  <2> QED
    BY <1>3, <2>1, <2>2, AttachedSole DEF NoRuns
\* Of a call that is placed, u is not among the files to come.
<1>4. req[r].pc # "read" => u \notin req[r].todo
  BY DEF Attached, OneCall
<1>5. CASE Call(r)
  <2>1. /\ OthersReq(r) /\ NoRuns /\ UNCHANGED <<disk, row, queue, raced, attachment>> /\ req'[r].doc = None
        /\ req[r].pc = "idle" /\ req'[r].todo \subseteq Scanned \cup Direct
    BY <1>5, CallEffect
  <2>2. req[r].doc # u
    BY <1>0, <2>1 DEF Holding, Holds
  <2> QED
    BY <1>0, <1>2, <1>4, <2>1, <2>2
<1>6. CASE Register(r)
  <2>1. /\ OthersReq(r) /\ NoRuns /\ UNCHANGED <<disk, queue, raced, attachment>> /\ req'[r].doc = req[r].doc
        /\ req[r].pc = "register" /\ req'[r].pc = "reset" /\ req'[r].op = req[r].op /\ req'[r].todo = req[r].todo
        /\ run[r].pc = "idle" /\ (u # req[r].doc => row'[u] = row[u])
    BY <1>0, <1>6, RegisterEffect, IdleRun
  <2>2. CASE req[r].doc = u
    BY <1>3, <2>1, <2>2, CallerOfUpload
  <2> QED
    BY <1>2, <1>4, <2>1, <2>2
<1>7. CASE Unchanged(r)
  <2>1. /\ OthersReq(r) /\ NoRuns /\ UNCHANGED <<disk, row, queue, raced, attachment>>
        /\ req[r].pc = "register" /\ req'[r].todo = req[r].todo
        /\ req'[r].doc = req[r].doc \/ req'[r].doc = None
        /\ row[req[r].doc].hash = req[r].hash /\ req[r].hash # None
    BY <1>7, UnchangedEffect
  <2>2. req[r].doc # u
    BY <2>1, CallerOfUpload
  <2> QED
    BY <1>0, <1>2, <1>4, <2>1, <2>2
<1>8. CASE Reset(r)
  <2>1. /\ OthersReq(r) /\ NoRuns /\ UNCHANGED <<disk, row, queue, attachment>> /\ req'[r].doc = req[r].doc
        /\ req[r].pc = "reset" /\ req'[r].pc \in {"publish", "process"} /\ req'[r].op = req[r].op
        /\ req'[r].todo = req[r].todo /\ run[r].pc = "idle" /\ req[r].doc \in Docs
    BY <1>8, ResetEffect, IdleRun
  <2>2. (u # req[r].doc => raced'[u] = raced[u]) /\ (~raced[u] => ~raced'[u])
    <3>1. PICK x : raced' = [raced EXCEPT ![req[r].doc] = raced[req[r].doc] /\ x]
      BY <1>8, ResetEffect
    <3> QED
      BY <1>0, <1>1, <2>1, <3>1
  <2>3. CASE req[r].doc = u
    BY <1>3, <2>1, <2>2, <2>3, CallerOfUpload
  <2> QED
    BY <1>2, <1>4, <2>1, <2>2, <2>3
<1>9. CASE Publish(r) \/ PublishFails(r)
  <2>1. /\ OthersReq(r) /\ NoRuns /\ UNCHANGED <<disk, row, raced, attachment>> /\ req'[r].doc = None
        /\ req[r].pc = "publish" /\ req'[r].todo \subseteq req[r].todo
        /\ queue' = queue \/ queue' = [queue EXCEPT ![req[r].doc] = queue[req[r].doc] + 1]
    BY <1>9, PublishEffect
  <2>2. req[r].doc # u
    BY <2>1, CallerOfUpload
  <2>3. queue'[u] = queue[u]
    BY <1>0, <1>1, <2>1, <2>2
  <2> QED
    BY <1>0, <1>2, <1>4, <2>1, <2>2, <2>3
<1>10. CASE CancelledAtStep(r)
  <2>1. /\ OthersReq(r) /\ NoRuns /\ UNCHANGED <<disk, row, queue, raced>> /\ req'[r].doc = None /\ req'[r].todo = {}
        /\ req[r].pc = "process"
        /\ IF req[r].op = "attach" THEN attachment' = [attachment EXCEPT ![req[r].doc] = "failed"] ELSE attachment' = attachment
    BY <1>10, CancelledEffect, RaisesEffect
  <2>2. CASE req[r].doc # u
    <3>1. attachment'[u] = attachment[u]
      BY <1>1, <2>1, <2>2
    <3> QED
      BY <1>0, <1>2, <1>4, <2>1, <2>2, <3>1
  <2>3. CASE req[r].doc = u
    <3>1. /\ queue[u] = 0 /\ ~raced[u] /\ req[r].op = "attach" /\ disk[u] # None
          /\ \A q \in Request : u \notin req[q].todo /\ (req[q].doc = u => q = r)
      BY <2>3, CallerOfUpload
    <3>2. \A q \in Request : u \notin req'[q].todo /\ req'[q].doc # u
      BY <1>0, <2>1, <3>1 DEF OthersReq
    <3>3. attachment'[u] = "failed"
      BY <1>1, <2>1, <2>3, <3>1
    <3> QED
      BY <2>1, <3>1, <3>2, <3>3, AttachedNobody
  <2> QED
    BY <2>2, <2>3
<1> QED
  BY <1>5, <1>6, <1>7, <1>8, <1>9, <1>10

\* A run that goes on: its document keeps its version, and its call.
LEMMA AttachedRuns ==
    ASSUME TypeOK, Holding, NEW u \in Upload, Attached(u), NEW p \in Process, Going(p) \/ Load(p)
    PROVE  Attached(u)'
<1>0. u \in Docs /\ queue[u] = 0
  BY DEF Attached, OneCall, Docs
<1>1. /\ OthersRun(p) /\ UNCHANGED <<disk, queue, req, attachment, crashes, abandoned, raced>>
      /\ u # DocOf(p) => row'[u] = row[u] /\ chunks'[u] = chunks[u]
      /\ run'[p].pc = "failed" => row'[DocOf(p)].state = "failed"
      /\ (p \in Docs /\ DocOf(p) = p /\ queue[p] > 0) \/ (p \in Request /\ DocOf(p) = req[p].doc /\ req[p].pc = "process")
  <2>1. CASE Going(p)
    <3>1. InRun(p) /\ (run'[p].pc = "failed" => row'[DocOf(p)].state = "failed")
      BY <2>1, GoingIsInRun
    <3>2. (p \in Docs /\ DocOf(p) = p /\ queue[p] > 0) \/ (p \in Request /\ DocOf(p) = req[p].doc /\ req[p].pc = "process")
      BY <3>1, Active DEF InRun
    <3> QED
      BY <1>0, <3>1, <3>2 DEF InRun
  <2>2. CASE Load(p)
    <3>1. /\ OthersRun(p) /\ UNCHANGED <<disk, row, chunks, queue, req, attachment, crashes, abandoned, raced>> /\ run'[p].pc = "stage"
          /\ IF p \in Docs THEN queue[p] > 0 ELSE req[p].pc = "process"
      BY <2>2, LoadEffect
    <3>2. (p \in Docs => DocOf(p) = p) /\ (p \notin Docs => p \in Request /\ DocOf(p) = req[p].doc)
      BY DEF DocOf, Process
    <3> QED
      BY <3>1, <3>2
  <2> QED
    BY <2>1, <2>2
<1>2. CASE DocOf(p) # u
  <2>1. \A q \in Callers(u) : run'[q] = run[q]
    BY <1>1, <1>2, IngestionAssumption DEF OthersRun, Callers, Process, DocOf
  <2> QED
    BY <1>1, <1>2, <2>1, AttachedKept
<1>3. CASE DocOf(p) = u
  <2>1. p \in Request /\ req[p].doc = u /\ req[p].pc = "process"
    BY <1>0, <1>1, <1>3
  <2>2. /\ queue[u] = 0 /\ ~raced[u] /\ req[p].op = "attach" /\ attachment[u] = "pending" /\ disk[u] # None
        /\ \A q \in Request : u \notin req[q].todo /\ (req[q].doc = u => q = p)
    BY <2>1, CallerOfUpload
  <2> QED
    BY <1>1, <1>3, <2>1, <2>2, AttachedSole
<1> QED
  BY <1>2, <1>3

LEMMA AttachedAnswer ==
    ASSUME TypeOK, Holding, CurrentInv, NEW u \in Upload, Attached(u), NEW r \in Request, Answer(r)
    PROVE  Attached(u)'
<1>0. u \in Docs /\ u # None /\ attachment \in [Upload -> {"none", "pending", "ready", "unsupported", "failed"}] /\ r \in Process
  BY IngestionAssumption DEF Docs, TypeOK, Process
<1>1. /\ OthersRun(r) /\ OthersReq(r) /\ UNCHANGED <<disk, row, chunks, queue, crashes, abandoned, raced>>
      /\ req[r].pc = "process" /\ req'[r].doc = None /\ req'[r].todo = {} /\ run[r].pc \in {"indexed", "failed"}
      /\ IF req[r].op = "attach"
         THEN attachment' = [attachment EXCEPT ![req[r].doc] = IF Usable(r) THEN "ready" ELSE "unsupported"]
         ELSE attachment' = attachment
  BY <1>0, AnswerEffect
<1>2. CASE req[r].doc # u
  <2>1. attachment'[u] = attachment[u]
    BY <1>0, <1>1, <1>2
  <2>2. r \notin Sent(u)
    BY <1>1, <1>2 DEF Sent, Attached, OneCall
  <2> QED
    BY <1>0, <1>1, <2>1, <2>2, AttachedElsewhere
<1>3. CASE req[r].doc = u
  <2>1. /\ queue[u] = 0 /\ ~raced[u] /\ req[r].op = "attach" /\ disk[u] # None
        /\ \A q \in Request : u \notin req[q].todo /\ (req[q].doc = u => q = r)
        /\ run[r].pc = "failed" => row[u].state = "failed"
    BY <1>3, CallerOfUpload
  <2>2. \A q \in Request : u \notin req'[q].todo /\ req'[q].doc # u
    BY <1>0, <1>1, <2>1 DEF OthersReq
  <2>3. DocOf(r) = u
    BY <1>3, IngestionAssumption DEF DocOf
  <2>4. run[r].pc = "indexed" => chunks[u] = [text |-> row[u].hash, vectors |-> row[u].hash]
    BY <1>0, <2>1, <2>3, CurrentAtEnd
  <2>5. disk[u] = row[u].hash
    BY <1>0, <1>1, <1>3, <2>1 DEF CurrentInv, Alone, Callers
  <2>6. CASE Usable(r)
    <3>1. run[r].pc = "indexed" /\ attachment'[u] = "ready"
      BY <1>0, <1>1, <1>3, <2>1, <2>6 DEF Usable, At
    <3> QED
      BY <1>1, <2>1, <2>2, <2>4, <2>5, <3>1, AttachedNobody
  <2>7. CASE ~Usable(r)
    <3>1. attachment'[u] = "unsupported"
      BY <1>0, <1>1, <1>3, <2>1, <2>7
    <3>2. run[r].pc = "failed"
      BY <1>1, <2>1, <2>3, <2>4, <2>5, <2>7 DEF Usable, At, ChunksOf
    <3> QED
      BY <1>1, <2>1, <2>2, <3>1, <3>2, AttachedNobody
  <2> QED
    BY <2>6, <2>7
<1> QED
  BY <1>2, <1>3

LEMMA AttachedNext ==
    ASSUME TypeOK, Holding, CurrentInv, AttachmentInv, [Next]_vars
    PROVE  AttachmentInv'
<1> SUFFICES ASSUME NEW u \in Upload PROVE Attached(u)'
  BY DEF AttachmentInv, AttachmentHonest, Attached, Honest
<1>0. /\ Attached(u) /\ u \in Docs /\ u # None /\ u \notin Scanned \cup Direct
      /\ attachment \in [Upload -> {"none", "pending", "ready", "unsupported", "failed"}]
  BY AttachedForms, IngestionAssumption DEF Docs, TypeOK
<1>1. queue[u] = 0 /\ ~raced[u] /\ (attachment[u] # "none" => disk[u] # None)
  BY <1>0 DEF Attached, OneCall
<1>2. CASE UNCHANGED vars
  <2>1. UNCHANGED <<disk, chunks, row, queue, raced, attachment, crashes, abandoned, req, run>>
    BY <1>2 DEF vars, stores, bus, bounds
  <2> QED
    BY <1>0, <2>1, AttachedKept
<1>3. ASSUME NEW d \in Scanned \cup Direct, NEW c \in Content \cup {None}, Edit(d, c) PROVE Attached(u)'
  <2>0. d \in Docs /\ c \in Hash /\ d # u
    BY <1>0 DEF Docs, Hash
  <2>1. /\ UNCHANGED <<chunks, row, queue, attachment, crashes, abandoned, req, run>>
        /\ disk' = [disk EXCEPT ![d] = c] /\ raced' = [raced EXCEPT ![d] = raced[d] \/ Busy(d)]
    BY <1>3, <2>0, EditEffect
  <2>2. disk'[u] = disk[u] /\ raced'[u] = raced[u]
    BY <1>0, <2>0, <2>1 DEF TypeOK
  <2> QED
    BY <1>0, <2>1, <2>2, AttachedKept
<1>4. ASSUME NEW r \in Request, NEW v \in Upload, NEW c \in Content, Attach(r, v, c) PROVE Attached(u)'
  <2>1. /\ OthersReq(r) /\ NoRuns /\ UNCHANGED <<row, queue, raced>>
        /\ req[r].pc = "idle" /\ req'[r].pc = "read" /\ req'[r].doc = None /\ req'[r].op = "attach" /\ req'[r].todo = {v}
        /\ disk' = [disk EXCEPT ![v] = c] /\ attachment' = [attachment EXCEPT ![v] = "pending"] /\ attachment[v] = "none"
        /\ v \in Docs /\ run[r].pc = "idle"
    BY <1>4, AttachEffect, IdleRun
  <2>2. CASE v # u
    <3>1. disk'[u] = disk[u] /\ attachment'[u] = attachment[u]
      BY <1>0, <2>1, <2>2 DEF TypeOK
    <3>2. r \notin Sent(u)
      BY <1>0, <2>1 DEF Attached, OneCall, Sent, Holding, Holds
    <3> QED
      BY <1>0, <2>1, <2>2, <3>1, <3>2, AttachedElsewhere DEF NoRuns, OthersRun
  <2>3. CASE v = u
    <3>1. disk'[u] = c /\ attachment'[u] = "pending" /\ c # None
      BY <1>0, <2>1, <2>3, IngestionAssumption DEF TypeOK
    <3>2. row[u].hash = None /\ \A q \in Request : u \notin req[q].todo /\ req[q].doc # u
      BY <1>0, <2>1, <2>3 DEF Attached, OneCall, Sent
    <3>3. \A q \in Request : u \in req'[q].todo \/ req'[q].doc = u => q = r
      BY <2>1, <3>2 DEF OthersReq
    <3> QED
      BY <1>1, <2>1, <2>3, <3>1, <3>2, <3>3, AttachedSole DEF NoRuns
  <2> QED
    BY <2>2, <2>3
<1>5. ASSUME NEW r \in Request, NEW d \in Docs, Read(r, d) PROVE Attached(u)'
  <2>1. /\ OthersReq(r) /\ NoRuns /\ UNCHANGED <<disk, row, queue, attachment>>
        /\ req[r].pc = "read" /\ req[r].doc = None /\ req'[r].pc = "register" /\ req'[r].doc = d /\ req'[r].op = req[r].op
        /\ d \in req[r].todo /\ req'[r].todo = req[r].todo \ {d}
        /\ raced' = [raced EXCEPT ![d] = raced[d] \/ Busy(d)] /\ run[r].pc = "idle"
    BY <1>5, ReadEffect, IdleRun
  <2>2. u \in req[r].todo => req[r].todo = {u}
    BY <1>0 DEF Attached, OneCall
  <2>3. CASE d # u
    <3>1. u \notin req[r].todo /\ raced'[u] = raced[u]
      BY <1>0, <2>1, <2>2, <2>3 DEF TypeOK
    <3>2. r \notin Sent(u)
      BY <1>0, <2>1, <3>1 DEF Sent
    <3> QED
      BY <1>0, <2>1, <2>3, <3>1, <3>2, AttachedElsewhere DEF NoRuns, OthersRun
  <2>4. CASE d = u
    <3>1. r \in Sent(u) /\ req[r].todo = {u}
      BY <2>1, <2>2, <2>4 DEF Sent
    <3>2. /\ \A q \in Sent(u) : q = r
          /\ req[r].op = "attach" /\ attachment[u] = "pending" /\ row[u].hash = None
      BY <1>0, <2>1, <3>1 DEF Attached, OneCall
    <3>3. ~Busy(u)
      BY <1>0, <1>1, <2>1, <3>2 DEF Busy, Callers, Sent
    <3>4. ~raced'[u]
      BY <1>0, <1>1, <2>1, <2>4, <3>3 DEF TypeOK
    <3>5. \A q \in Request : u \in req'[q].todo \/ req'[q].doc = u => q = r
      BY <2>1, <3>2 DEF OthersReq, Sent
    <3> QED
      BY <1>1, <2>1, <2>4, <3>1, <3>2, <3>4, <3>5, AttachedSole DEF NoRuns
  <2> QED
    BY <2>3, <2>4
<1>6. ASSUME NEW r \in Request, NEW d \in Docs, ReadMissing(r, d) PROVE Attached(u)'
  <2>1. /\ OthersReq(r) /\ NoRuns /\ UNCHANGED <<disk, row, queue, raced, attachment>>
        /\ req[r].pc = "read" /\ req[r].doc = None /\ req'[r].doc = None /\ disk[d] = None
        /\ d \in req[r].todo /\ req'[r].todo \subseteq req[r].todo
    BY <1>6, ReadMissingEffect
  <2>2. u \notin req[r].todo
    <3>1. u \in req[r].todo => req[r].todo = {u} /\ attachment[u] = "pending"
      BY <1>0 DEF Attached, OneCall, Sent
    <3> QED
      BY <1>1, <2>1, <3>1
  <2>3. r \notin Sent(u)
    BY <1>0, <2>1, <2>2 DEF Sent
  <2> QED
    BY <1>0, <2>1, <2>2, <2>3, AttachedElsewhere DEF NoRuns, OthersRun
<1>k. ASSUME NEW r \in Request, Kill(r) PROVE Attached(u)'
  <2>1. /\ OthersReq(r) /\ OthersRun(r) /\ req'[r].doc = None /\ req'[r].todo = {}
        /\ abandoned \subseteq abandoned' /\ (r \in Sent(u) => u \in abandoned')
        /\ UNCHANGED <<disk, row, chunks, queue, attachment, raced>>
    BY <1>k, KillEffect
  <2>2. CASE r \in Sent(u)
    <3>1. \A q \in Request : u \in req[q].todo \/ req[q].doc = u => q = r
      BY <1>0, <2>2 DEF Attached, OneCall, Sent
    <3>2. \A q \in Request : u \notin req'[q].todo /\ req'[q].doc # u
      BY <1>0, <2>1, <3>1 DEF OthersReq
    <3>3. attachment[u] = "pending"
      BY <1>0, <2>2 DEF Attached, OneCall
    <3> QED
      BY <1>1, <2>1, <2>2, <3>2, <3>3, AttachedNobody
  <2>3. CASE r \notin Sent(u)
    BY <1>0, <2>1, <2>3, AttachedElsewhere
  <2> QED
    BY <2>2, <2>3
<1>7. ASSUME NEW r \in Request, Calls(r) PROVE Attached(u)'
  BY <1>0, <1>k, <1>7, AttachedAnswer, AttachedCalls DEF Calls
<1>8. ASSUME NEW p \in Process, EnterMissing(p) PROVE Attached(u)'
  <2>0. /\ p \in Docs => queue[p] > 0 /\ DocOf(p) = p
        /\ p \notin Docs => p \in Request /\ req[p].doc \in Docs /\ DocOf(p) = req[p].doc /\ req[p].pc = "process"
        /\ OthersRun(p) /\ UNCHANGED <<disk, chunks, crashes, abandoned, raced>> /\ disk[DocOf(p)] = None
        /\ u # DocOf(p) => row'[u] = row[u]
    BY <1>0, <1>8, EnterMissingEffect, Active
  <2>1. CASE p \in Docs
    <3>0. Refused(p) /\ req' = req /\ attachment' = attachment
      BY <1>8, <2>1, EnterMissingEffect
    <3>1. u # p
      BY <1>1, <2>0, <2>1
    <3>2. queue'[u] = queue[u]
      BY <1>0, <2>0, <2>1, <3>0, <3>1, RefusedEffect
    <3>3. \A q \in Callers(u) : run'[q] = run[q]
      BY <2>0, <2>1, IngestionAssumption DEF OthersRun, Callers, Process
    <3> QED
      BY <1>0, <2>0, <2>1, <3>0, <3>1, <3>2, <3>3, AttachedKept
  <2>2. CASE p \notin Docs
    <3>0. /\ OthersReq(p) /\ queue' = queue /\ req'[p].doc = None /\ req'[p].todo = {} /\ p \in Request
          /\ IF req[p].op = "attach" THEN attachment' = [attachment EXCEPT ![req[p].doc] = "failed"] ELSE attachment' = attachment
      BY <1>8, <2>0, <2>2, EnterMissingEffect, RaisesEffect
    <3>1. req[p].doc # u
      BY <1>0, <2>0, <2>2, CallerOfUpload
    <3>2. attachment'[u] = attachment[u] /\ p \notin Sent(u)
      <4>1. attachment'[u] = attachment[u]
        BY <1>0, <3>0, <3>1
      <4>2. u \notin req[p].todo
        BY <1>0, <2>0, <2>2 DEF Attached, OneCall
      <4> QED
        BY <3>1, <4>1, <4>2 DEF Sent
    <3> QED
      BY <1>0, <2>0, <2>2, <3>0, <3>1, <3>2, AttachedElsewhere
  <2> QED
    BY <2>1, <2>2
<1>9. ASSUME NEW p \in Docs \cup Request, Runs(p) PROVE Attached(u)'
  BY <1>0, <1>8, <1>9, AttachedRuns DEF Runs, Going, Process
<1>10. ASSUME NEW d \in Docs, Announce(d) \/ AnnounceFails(d) PROVE Attached(u)'
  <2>1. /\ OthersRun(d) /\ UNCHANGED <<disk, row, chunks, req, attachment, crashes, abandoned, raced>> /\ queue[d] > 0
        /\ \A e \in Docs : e # d => queue'[e] = queue[e]
    BY <1>10, AnnounceEffect
  <2>2. d # u
    BY <1>1, <2>1
  <2>3. \A q \in Callers(u) : run'[q] = run[q]
    BY <2>1, IngestionAssumption DEF OthersRun, Callers, Process
  <2> QED
    BY <1>0, <2>1, <2>2, <2>3, AttachedKept
<1>11. CASE Crash
  <2>1. /\ UNCHANGED <<disk, row, chunks, attachment, raced>>
        /\ abandoned \subseteq abandoned' /\ (Sent(u) # {} => u \in abandoned')
        /\ queue'[u] \in Nat /\ queue'[u] <= queue[u]
        /\ \A r \in Request : /\ req'[r].doc = None
                              /\ (req'[r] = req[r] /\ req[r].pc = "idle") \/ req'[r].todo = {}
    BY <1>0, <1>11, CrashEffect
  <2>2. \A r \in Request : u \notin req'[r].todo /\ req'[r].doc # u
    BY <1>0, <2>1 DEF Attached, OneCall
  <2>3. /\ attachment[u] = "none" => row[u].hash = None
        /\ attachment[u] = "ready" => chunks[u] = [text |-> disk[u], vectors |-> disk[u]]
        /\ attachment[u] = "unsupported" => row[u].state = "failed"
        /\ attachment[u] = "pending" => Sent(u) # {} \/ u \in abandoned
    BY <1>0 DEF Attached, OneCall, Honest
  <2>4. (attachment[u] = "pending" => u \in abandoned') /\ queue'[u] = 0
    BY <1>1, <2>1, <2>3
  <2> QED
    BY <1>1, <2>1, <2>2, <2>3, <2>4, AttachedNobody
<1> QED
  BY <1>2, <1>3, <1>4, <1>5, <1>6, <1>7, <1>9, <1>10, <1>11 DEF Next

LEMMA AttachedInit == Init => AttachmentInv
<1> SUFFICES ASSUME Init, NEW u \in Upload PROVE Attached(u)
  BY AttachedForms
<1>1. /\ u \in Docs /\ u # None /\ disk[u] = None /\ attachment[u] = "none" /\ queue[u] = 0 /\ ~raced[u] /\ row[u].hash = None
      /\ \A r \in Request : req[r].todo = {} /\ req[r].doc = None
  BY Nothings, IngestionAssumption DEF Init, Docs
<1>2. Sent(u) = {} /\ Callers(u) = {}
  BY <1>1 DEF Sent, Callers
<1> QED
  BY <1>1, <1>2 DEF Attached, Honest, OneCall

-----------------------------------------------------------------------------
(* The theorems.                                                           *)

IngestionInv == TypeOK /\ Holding /\ CurrentInv /\ ForgottenInv /\ AttachmentInv

LEMMA IngestionAlways == Spec => []IngestionInv
<1>1. Init => IngestionInv
  BY TypeInit, HoldingInit, CurrentInit, ForgottenInit, AttachedInit DEF IngestionInv
<1>2. IngestionInv /\ [Next]_vars => IngestionInv'
  BY TypeNext, HoldingNext, CurrentNext, ForgottenNext, AttachedNext DEF IngestionInv
<1> QED
  BY <1>1, <1>2, PTL DEF Spec

\* What the stores, the runs and the calls hold keeps its type through every
\* step of the skills, the runner and a crash (ingestion.py, runner.py).
THEOREM TypeCorrect == Spec => []TypeOK
<1>1. IngestionInv => TypeOK
  BY DEF IngestionInv
<1> QED
  BY <1>1, IngestionAlways, PTL

\* However many files, calls, edits and crashes: a run that ends INDEXED leaves
\* the chunks and the vectors of the version it marks, unless somebody touched
\* the document while it was being ingested (runner.py:130-138).
THEOREM RunLeavesItsVersion == Spec => []IndexedIsCurrent
<1>1. IngestionInv => IndexedIsCurrent
  BY CurrentAtEnd DEF IngestionInv, IndexedIsCurrent, At, Process
<1> QED
  BY <1>1, IngestionAlways, PTL

\* Every version registered has a call or an event that will take it to its
\* end, or was lost: an announcement that failed, an event given up, a call
\* that raised, was cancelled or killed, or an event whose handling had begun
\* when the node died (ingestion.py:240-252; redis_streams.py:281-284).
THEOREM VersionsHaveTakers == Spec => []NothingForgotten
<1>1. IngestionInv => NothingForgotten
  <2>1. ASSUME IngestionInv, NEW d \in Docs, Taker(d) PROVE Busy(d) \/ dropped[d]
    <3>1. queue[d] \in Nat
      BY <2>1 DEF IngestionInv, TypeOK
    <3> QED
      BY <2>1, <3>1 DEF Taker, Busy
  <2> QED
    BY <2>1 DEF IngestionInv, ForgottenInv, NothingForgotten
<1> QED
  BY <1>1, IngestionAlways, PTL

\* An attachment that is ready has the chunks and the vectors of the file that
\* was sent, and one that is pending has its call still, unless that call was
\* killed, alone or with the node (chat.py:701-740).
THEOREM AttachmentsAreCited == Spec => []AttachmentHonest
<1>1. IngestionInv => AttachmentHonest
  BY DEF IngestionInv, AttachmentInv
<1> QED
  BY <1>1, IngestionAlways, PTL
===============================================================================
