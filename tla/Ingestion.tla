------------------------------ MODULE Ingestion ------------------------------
(***************************************************************************)
(* How a file becomes a searchable document: the skills of                 *)
(* modules/ingestion.py and chat.attach, the stores they share             *)
(* (adapters/documents), the runner of the stages (pipeline/runner.py) and *)
(* the stages (pipeline/stages).                                           *)
(*                                                                         *)
(* A document is one (source, uri) of one user; a text, its chunks and     *)
(* their vectors are named by the content they come from.                  *)
(***************************************************************************)
EXTENDS Naturals, Sequences, FiniteSets

CONSTANTS Scanned,      \* documents of a folder that document.index walks
          Direct,       \* documents named to document.ingest_file
          Upload,       \* attachments: each has a blob, and a document, of its own
          Images,       \* the documents whose mime type is an image
          Request,      \* calls of the skills
          Content,
          Durable,      \* do events survive the node (Redis)
          MaxAttempts,  \* deliveries of one event
          None

\* Bounds: changes of files, crashes and forced cancellations together, and
\* the stages that may break.
CONSTANTS MaxEdits, MaxCrashes, Fragile

Docs == Scanned \cup Direct \cup Upload

ASSUME IngestionAssumption ==
    /\ IsFiniteSet(Docs)
    /\ Docs \cap Request = {} /\ Upload \cap (Scanned \cup Direct) = {}
    /\ None \notin Content /\ None \notin Docs
    /\ Durable \in BOOLEAN
    /\ MaxAttempts \in Nat \ {0}
    /\ MaxEdits \in Nat /\ MaxCrashes \in Nat

VARIABLES
    disk,       \* [Docs -> content of the file, or None]
    row,        \* [Docs -> hash of the current version, its state, has it indexed_at]
    ctx,        \* [Docs -> the persisted PipelineContext: text, stages done]
    chunks,     \* [Docs -> what the chunk rows say, what their vectors are of]
    queue,      \* [Docs -> FileDetected events of the document not acknowledged]
    tries,      \* [Docs -> failed deliveries of the first of them]
    run,        \* [Docs \cup Request -> a PipelineRunner.process: a worker's, a caller's]
    req,        \* [Request -> what a call holds between its awaits]
    attachment, \* [Upload -> its AttachmentState]
    edits, crashes,
    raced,      \* history: was the document touched while being ingested
    dropped,    \* history: did its announcement, or its run, get lost
    abandoned   \* history: attachments whose call died

stores == <<row, ctx, chunks>>
bus == <<queue, tries>>
bounds == <<edits, crashes, abandoned>>
vars == <<disk, stores, bus, run, req, attachment, bounds, raced, dropped>>

-----------------------------------------------------------------------------
\* default_resolver
Plan(d) == <<IF d \in Images THEN "ocr" ELSE "extract",
             "metadata", "chunk", "index", "embedding", "kg">>
Stages == Len(Plan(None))

\* The state each stage declares; IndexStage declares INDEXED.
StateOf(stage) ==
    CASE stage = "extract" -> "extracting"
      [] stage = "ocr" -> "ocr"
      [] stage = "metadata" -> "metadata"
      [] stage = "chunk" -> "chunking"
      [] stage = "index" -> "indexed"
      [] stage = "embedding" -> "embedding"
      [] stage = "kg" -> "knowledge_graph"

\* PipelineContext; stages_done is a prefix of the plan.
NoContext == [text |-> None, chunks |-> None, done |-> 0]
NoRun == [pc |-> "idle", raw |-> None, context |-> NoContext]
NoRequest == [pc |-> "idle", op |-> None, doc |-> None, hash |-> None, todo |-> {}]

Init ==
    /\ disk \in [Docs -> Content \cup {None}]
    /\ \A u \in Upload : disk[u] = None
    /\ row = [d \in Docs |-> [hash |-> None, state |-> "pending", stamped |-> FALSE]]
    /\ ctx = [d \in Docs |-> NoContext]
    /\ chunks = [d \in Docs |-> [text |-> None, vectors |-> None]]
    /\ queue = [d \in Docs |-> 0]
    /\ tries = [d \in Docs |-> 0]
    /\ run = [p \in Docs \cup Request |-> NoRun]
    /\ req = [r \in Request |-> NoRequest]
    /\ attachment = [u \in Upload |-> "none"]
    /\ edits = 0 /\ crashes = 0
    /\ raced = [d \in Docs |-> FALSE]
    /\ dropped = [d \in Docs |-> FALSE]
    /\ abandoned = {}

DocOf(p) == IF p \in Docs THEN p ELSE req[p].doc
Waits(r) == req[r].op \in {"ingest", "attach"}     \* wait=True
Forced(r) == req[r].op = "force"

\* Who is at d: calls past its read, and events of it not acknowledged.
Callers(d) == {r \in Request : req[r].doc = d}
Busy(d) == Callers(d) # {} \/ queue[d] > 0
\* The call an attachment came with.
Sent(u) == {r \in Request : u \in req[r].todo \/ req[r].doc = u}

Goto(r, label) == req' = [req EXCEPT ![r].pc = label]
Leaves(r) == req' = [req EXCEPT ![r] = [NoRequest EXCEPT !.pc = "over"]]
\* The next file of the folder, or the answer.
NextItem(r) ==
    IF req[r].todo = {} THEN Leaves(r)
    ELSE req' = [req EXCEPT ![r] = [@ EXCEPT !.pc = "read", !.doc = None, !.hash = None]]

-----------------------------------------------------------------------------
(* The stores: one transaction each.                                       *)

RegisterVersion(d, hash) ==
    row' = [row EXCEPT ![d] = [hash |-> hash, state |-> "pending", stamped |-> FALSE]]
SetState(d, state) == row' = [row EXCEPT ![d].state = state]
\* The version the row has by now.
MarkIndexed(d) == row' = [row EXCEPT ![d].stamped = TRUE]
SaveContext(d, context) == ctx' = [ctx EXCEPT ![d] = context]
LoadContext(d) == ctx[d]
\* Variant: a new version is processed over the context of the old one.
KeepContext(d) == ctx' = ctx
ResetContext(d) == ctx' = [ctx EXCEPT ![d] = NoContext]
ReplaceChunks(d, of) == chunks' = [chunks EXCEPT ![d] = [text |-> of, vectors |-> None]]
ChunksOf(d) == chunks[d].text
SetChunkEmbeddings(d, of) ==
    chunks' = IF ChunksOf(d) = None THEN chunks ELSE [chunks EXCEPT ![d].vectors = of]
CreateAttachment(u) == attachment' = [attachment EXCEPT ![u] = "pending"]
MarkAttachment(u, state) == attachment' = [attachment EXCEPT ![u] = state]

\* chat.attach marks what an ingestion that raised leaves, and raises too.
Raises(r) ==
    /\ Leaves(r)
    /\ IF req[r].op = "attach" THEN MarkAttachment(req[r].doc, "failed") ELSE UNCHANGED attachment

-----------------------------------------------------------------------------
(* The files, and the calls of the skills.                                 *)

Edit(d, content) ==
    /\ edits < MaxEdits /\ disk[d] # content
    /\ edits' = edits + 1
    /\ disk' = [disk EXCEPT ![d] = content]
    /\ raced' = [raced EXCEPT ![d] = @ \/ Busy(d)]
    /\ UNCHANGED <<stores, bus, run, req, attachment, crashes, dropped, abandoned>>

\* document.index, and document.ingest_file with and without wait.
Call(r) ==
    /\ req[r].pc = "idle"
    /\ \/ \E op \in {"scan", "force"} :
            req' = [req EXCEPT ![r] = [@ EXCEPT !.pc = "read", !.op = op, !.todo = Scanned]]
       \/ \E op \in {"ingest", "enqueue"}, d \in Direct :
            req' = [req EXCEPT ![r] = [@ EXCEPT !.pc = "read", !.op = op, !.todo = {d}]]
    /\ UNCHANGED <<disk, stores, bus, run, attachment, bounds, raced, dropped>>

\* upload: the blob is saved under a name of its own, then chat.attach.
Attach(r, u, content) ==
    /\ req[r].pc = "idle" /\ attachment[u] = "none"
    /\ disk' = [disk EXCEPT ![u] = content]
    /\ CreateAttachment(u)
    /\ req' = [req EXCEPT ![r] = [@ EXCEPT !.pc = "read", !.op = "attach", !.todo = {u}]]
    /\ UNCHANGED <<stores, bus, run, bounds, raced, dropped>>

\* FilesystemSource.read, _read_uri.
Read(r, d) ==
    /\ req[r].pc = "read" /\ d \in req[r].todo /\ disk[d] # None
    /\ req' = [req EXCEPT ![r] = [@ EXCEPT !.pc = "register", !.doc = d, !.hash = disk[d],
                                           !.todo = req[r].todo \ {d}]]
    /\ raced' = [raced EXCEPT ![d] = @ \/ Busy(d)]
    /\ UNCHANGED <<disk, stores, bus, run, attachment, bounds, dropped>>

\* A file that is gone is not in the listing of the folder; one that went
\* since, or was named to the skill, ends the call.
ReadMissing(r, d) ==
    /\ req[r].pc = "read" /\ d \in req[r].todo /\ disk[d] = None
    /\ \/ /\ req[r].op \in {"scan", "force"}
          /\ req' = [req EXCEPT ![r] = IF req[r].todo = {d} THEN [NoRequest EXCEPT !.pc = "over"]
                                       ELSE [@ EXCEPT !.todo = req[r].todo \ {d}]]
       \/ Leaves(r)
    /\ UNCHANGED <<disk, stores, bus, run, attachment, bounds, raced, dropped>>

\* NEW and NEW_VERSION.
Register(r) == LET d == req[r].doc IN
    /\ req[r].pc = "register" /\ row[d].hash # req[r].hash
    /\ RegisterVersion(d, req[r].hash)
    /\ Goto(r, "reset")
    /\ UNCHANGED <<disk, ctx, chunks, bus, run, attachment, bounds, raced, dropped>>

\* UNCHANGED: skipped by a scan that is not forced, answered by ingest_file
\* with the state and the chunks there are.
Unchanged(r) == LET d == req[r].doc IN
    /\ req[r].pc = "register" /\ row[d].hash = req[r].hash
    /\ IF Forced(r) THEN Goto(r, "reset") ELSE NextItem(r)
    /\ UNCHANGED <<disk, stores, bus, run, attachment, bounds, raced, dropped>>

Reset(r) == LET d == req[r].doc IN
    /\ req[r].pc = "reset"
    /\ ResetContext(d)
    /\ Goto(r, IF Waits(r) THEN "process" ELSE "publish")
    /\ raced' = [raced EXCEPT ![d] = @ /\ ~(/\ Callers(d) = {r} /\ queue[d] = 0
                                            /\ disk[d] = row[d].hash)]
    /\ UNCHANGED <<disk, row, chunks, bus, run, attachment, bounds, dropped>>

\* Variant: an event already waiting for the document is enough.
PublishOnce(r) == LET d == req[r].doc IN
    /\ req[r].pc = "publish"
    /\ queue' = [queue EXCEPT ![d] = 1]
    /\ dropped' = [dropped EXCEPT ![d] = FALSE]
    /\ NextItem(r)
    /\ UNCHANGED <<disk, stores, tries, run, attachment, bounds, raced>>

Publish(r) == LET d == req[r].doc IN
    /\ req[r].pc = "publish"
    /\ queue' = [queue EXCEPT ![d] = @ + 1]
    /\ dropped' = [dropped EXCEPT ![d] = FALSE]
    /\ NextItem(r)
    /\ UNCHANGED <<disk, stores, tries, run, attachment, bounds, raced>>

\* The event store or the bus refuses: the call raises, the rest of the
\* folder is not scanned and the document is left registered.
PublishFails(r) == LET d == req[r].doc IN
    /\ req[r].pc = "publish"
    /\ dropped' = [dropped EXCEPT ![d] = TRUE]
    /\ Leaves(r)
    /\ UNCHANGED <<disk, stores, bus, run, attachment, bounds, raced>>

\* cancellation.step("documento registrado")
CancelledAtStep(r) == LET d == req[r].doc IN
    /\ req[r].pc = "process" /\ run[r].pc = "idle"
    /\ dropped' = [dropped EXCEPT ![d] = TRUE]
    /\ Raises(r)
    /\ UNCHANGED <<disk, stores, bus, run, bounds, raced>>

-----------------------------------------------------------------------------
(* PipelineRunner.process, of the worker of d or of a call that waits.     *)

At(p, label) == run[p].pc = label
Context(p) == run[p].context
Stage(p) == Plan(DocOf(p))[Context(p).done + 1]

\* _on_file_detected (one at a time for a document: its key), _ingest_file.
Load(p) == LET d == DocOf(p) IN
    /\ At(p, "idle")
    /\ IF p \in Docs THEN queue[p] > 0 ELSE req[p].pc = "process"
    /\ run' = [run EXCEPT ![p] = [@ EXCEPT !.pc = "stage", !.context = LoadContext(d)]]
    /\ dropped' = IF p \in Docs THEN dropped ELSE [dropped EXCEPT ![d] = FALSE]
    /\ UNCHANGED <<disk, stores, bus, req, attachment, bounds, raced>>

\* set_state, and the bytes for the first stage that runs.
Enter(p) == LET d == DocOf(p)
                raw == IF run[p].raw = None THEN disk[d] ELSE run[p].raw
            IN
    /\ At(p, "stage") /\ Context(p).done < Stages
    /\ raw # None
    /\ SetState(d, StateOf(Stage(p)))
    /\ run' = [run EXCEPT ![p] = [@ EXCEPT !.pc = "work", !.raw = raw]]
    /\ UNCHANGED <<disk, ctx, chunks, bus, req, attachment, bounds, raced, dropped>>

\* A handler that raised: the event comes again until it was delivered
\* MaxAttempts times, and a delivery before a crash counts.
Refused(d) ==
    \/ /\ tries[d] + 1 < MaxAttempts
       /\ tries' = [tries EXCEPT ![d] = @ + 1]
       /\ UNCHANGED <<queue, dropped>>
    \/ /\ tries[d] + 1 >= MaxAttempts \/ crashes > 0
       /\ tries' = [tries EXCEPT ![d] = 0]
       /\ queue' = [queue EXCEPT ![d] = @ - 1]
       /\ dropped' = [dropped EXCEPT ![d] = TRUE]

\* read_raw is outside the try: the file is gone and the run raises.
EnterMissing(p) == LET d == DocOf(p) IN
    /\ At(p, "stage") /\ Context(p).done < Stages
    /\ run[p].raw = None /\ disk[d] = None
    /\ SetState(d, StateOf(Stage(p)))
    /\ run' = [run EXCEPT ![p] = NoRun]
    /\ IF p \in Docs THEN Refused(p) /\ UNCHANGED <<req, attachment>>
       ELSE /\ Raises(p)
            /\ dropped' = [dropped EXCEPT ![d] = TRUE]
            /\ UNCHANGED bus
    /\ UNCHANGED <<disk, ctx, chunks, bounds, raced>>

\* stage.run returned this context.
Gives(p, context) == run' = [run EXCEPT ![p] = [@ EXCEPT !.pc = "save", !.context = context]]

Extract(p) == /\ Stage(p) = "extract"
              /\ Gives(p, [Context(p) EXCEPT !.text = run[p].raw]) /\ UNCHANGED chunks
Metadata(p) == /\ Stage(p) = "metadata" /\ Context(p).text # None
               /\ Gives(p, Context(p)) /\ UNCHANGED chunks
Chunk(p) == /\ Stage(p) = "chunk" /\ Context(p).text # None
            /\ Gives(p, [Context(p) EXCEPT !.chunks = Context(p).text]) /\ UNCHANGED chunks
Index(p) == /\ Stage(p) = "index" /\ Context(p).chunks # None
            /\ Gives(p, Context(p)) /\ ReplaceChunks(DocOf(p), Context(p).chunks)
Embed(p) == /\ Stage(p) = "embedding" /\ Context(p).chunks # None
            /\ Gives(p, Context(p)) /\ SetChunkEmbeddings(DocOf(p), Context(p).chunks)
Graph(p) == /\ Stage(p) = "kg"
            /\ Gives(p, Context(p)) /\ UNCHANGED chunks

Work(p) ==
    /\ At(p, "work")
    /\ Extract(p) \/ Metadata(p) \/ Chunk(p) \/ Index(p) \/ Embed(p) \/ Graph(p)
    /\ UNCHANGED <<disk, row, ctx, bus, req, attachment, bounds, raced, dropped>>

\* _fail.  There is no OCR provider.
WorkFails(p) ==
    /\ At(p, "work")
    /\ Stage(p) \in Fragile \cup {"ocr"}
    /\ SetState(DocOf(p), "failed")
    /\ run' = [run EXCEPT ![p].pc = "failed"]
    /\ UNCHANGED <<disk, ctx, chunks, bus, req, attachment, bounds, raced, dropped>>

\* The whole context is written, whatever is there by now.
Save(p) == LET saved == [Context(p) EXCEPT !.done = @ + 1] IN
    /\ At(p, "save")
    /\ SaveContext(DocOf(p), saved)
    /\ run' = [run EXCEPT ![p] = [@ EXCEPT !.pc = "stage", !.context = saved]]
    /\ UNCHANGED <<disk, row, chunks, bus, req, attachment, bounds, raced, dropped>>

\* After the last stage.
Close(p) ==
    /\ At(p, "stage") /\ Context(p).done = Stages
    /\ SetState(DocOf(p), "indexed")
    /\ run' = [run EXCEPT ![p].pc = "mark"]
    /\ UNCHANGED <<disk, ctx, chunks, bus, req, attachment, bounds, raced, dropped>>

Mark(p) ==
    /\ At(p, "mark")
    /\ MarkIndexed(DocOf(p))
    /\ run' = [run EXCEPT ![p].pc = "indexed"]
    /\ UNCHANGED <<disk, ctx, chunks, bus, req, attachment, bounds, raced, dropped>>

\* The worker publishes DocumentIndexed or IndexingFailed and acknowledges.
Announce(d) ==
    /\ At(d, "indexed") \/ At(d, "failed")
    /\ queue' = [queue EXCEPT ![d] = @ - 1]
    /\ tries' = [tries EXCEPT ![d] = 0]
    /\ run' = [run EXCEPT ![d] = NoRun]
    /\ UNCHANGED <<disk, stores, req, attachment, bounds, raced, dropped>>

AnnounceFails(d) ==
    /\ At(d, "indexed") \/ At(d, "failed")
    /\ Refused(d)
    /\ run' = [run EXCEPT ![d] = NoRun]
    /\ UNCHANGED <<disk, stores, req, attachment, bounds, raced>>

\* Variant: an attachment is ready as soon as it has chunks.
ReadyWithChunks(p) == ChunksOf(DocOf(p)) # None
\* _attach: indexado and chunks.
Usable(p) == At(p, "indexed") /\ ChunksOf(DocOf(p)) # None

\* The answer of a call that waited; _attach marks the attachment.
Answer(r) == LET d == req[r].doc IN
    /\ r \in Request
    /\ At(r, "indexed") \/ At(r, "failed")
    /\ IF req[r].op = "attach" THEN MarkAttachment(d, IF Usable(r) THEN "ready" ELSE "unsupported")
       ELSE UNCHANGED attachment
    /\ run' = [run EXCEPT ![r] = NoRun]
    /\ Leaves(r)
    /\ UNCHANGED <<disk, stores, bus, bounds, raced, dropped>>

\* A forced cancellation goes through a call at any of its awaits: no except
\* of _attach sees it, and the attachment stays pending.
Kill(r) ==
    /\ crashes < MaxCrashes
    /\ req[r].pc \notin {"idle", "over"}
    /\ crashes' = crashes + 1
    /\ dropped' = [d \in Docs |-> dropped[d] \/ r \in Callers(d)]
    /\ abandoned' = abandoned \cup {u \in Upload : r \in Sent(u)}
    /\ run' = [run EXCEPT ![r] = NoRun]
    /\ Leaves(r)
    /\ UNCHANGED <<disk, stores, bus, attachment, edits, raced>>

\* The node dies and comes back.  In memory the events are gone.  Redis gives
\* back those whose handler had not begun; the key of one that had survives,
\* and the event is acknowledged unhandled.  A handler begins before it loads.
Crash == \E begun \in SUBSET {d \in Docs : queue[d] > 0} :
    /\ crashes < MaxCrashes
    /\ {d \in Docs : run[d].pc # "idle"} \subseteq begun
    /\ crashes' = crashes + 1
    /\ queue' = [d \in Docs |-> IF ~Durable THEN 0
                               ELSE IF d \in begun THEN queue[d] - 1 ELSE queue[d]]
    /\ tries' = [d \in Docs |-> IF Durable /\ d \notin begun THEN tries[d] ELSE 0]
    /\ dropped' = [d \in Docs |-> \/ dropped[d]
                                  \/ Callers(d) # {}
                                  \/ queue[d] > 0 /\ queue'[d] = 0]
    /\ abandoned' = abandoned \cup {u \in Upload : Sent(u) # {}}
    /\ run' = [p \in Docs \cup Request |-> NoRun]
    /\ req' = [r \in Request |-> IF req[r].pc = "idle" THEN req[r]
                                 ELSE [NoRequest EXCEPT !.pc = "over"]]
    /\ UNCHANGED <<disk, stores, attachment, edits, raced>>

Calls(r) == \/ Call(r) \/ Register(r) \/ Unchanged(r) \/ Reset(r) \/ Publish(r)
            \/ PublishFails(r) \/ CancelledAtStep(r) \/ Kill(r) \/ Answer(r)
Runs(p) == \/ Load(p) \/ Enter(p) \/ EnterMissing(p) \/ Work(p) \/ WorkFails(p)
           \/ Save(p) \/ Close(p) \/ Mark(p)

Next == \/ \E d \in Scanned \cup Direct, c \in Content \cup {None} : Edit(d, c)
        \/ \E r \in Request, u \in Upload, c \in Content : Attach(r, u, c)
        \/ \E r \in Request, d \in Docs : Read(r, d) \/ ReadMissing(r, d)
        \/ \E r \in Request : Calls(r)
        \/ \E p \in Docs \cup Request : Runs(p)
        \/ \E d \in Docs : Announce(d) \/ AnnounceFails(d)
        \/ Crash

Spec == Init /\ [][Next]_vars

-----------------------------------------------------------------------------
(* Types.                                                                  *)
Hash == Content \cup {None}
Contexts == [text : Hash, chunks : Hash, done : 0..Stages]
RowStates == {"pending", "extracting", "ocr", "metadata", "chunking", "indexed", "embedding", "knowledge_graph", "failed"}
RunStates == [pc : {"idle", "stage", "work", "save", "mark", "indexed", "failed"}, raw : Hash, context : Contexts]
Requests == [pc : {"idle", "read", "register", "reset", "publish", "process", "over"},
             op : {"scan", "force", "ingest", "enqueue", "attach", None},
             doc : Docs \cup {None}, hash : Hash, todo : SUBSET Docs]

TypeOK ==
    /\ disk \in [Docs -> Hash]
    /\ row \in [Docs -> [hash : Hash, state : RowStates, stamped : BOOLEAN]]
    /\ ctx \in [Docs -> Contexts] /\ chunks \in [Docs -> [text : Hash, vectors : Hash]]
    /\ queue \in [Docs -> Nat] /\ tries \in [Docs -> Nat]
    /\ run \in [Docs \cup Request -> RunStates] /\ req \in [Request -> Requests]
    /\ attachment \in [Upload -> {"none", "pending", "ready", "unsupported", "failed"}]
    /\ edits \in Nat /\ crashes \in Nat
    /\ raced \in [Docs -> BOOLEAN] /\ dropped \in [Docs -> BOOLEAN]
    /\ abandoned \subseteq Upload

\* A run that comes to its end with INDEXED leaves the chunks, and the
\* vectors, of the version it marks, through crashes, further deliveries and
\* stages that failed before, unless the file was touched or asked for while it was
\* being ingested (runner.py:130-138, postgres.py:218-233).
IndexedIsCurrent ==
    \A p \in Docs \cup Request : At(p, "indexed") /\ ~raced[DocOf(p)] =>
        LET d == DocOf(p) IN chunks[d] = [text |-> row[d].hash, vectors |-> row[d].hash]

\* The same without the proviso, where nothing was lost, nobody is at the
\* document any more and its file is the one that was registered: the next scan
\* would answer UNCHANGED for ever (ingestion.py:246 "reprocessa do zero").
NeverStaleForGood ==
    \A d \in Scanned :
        row[d].stamped /\ ~Busy(d) /\ ~dropped[d] /\ disk[d] = row[d].hash =>
            chunks[d].text = disk[d]

\* A version that is neither indexed nor failed has someone to take it there,
\* through restarts and failed deliveries too, as long as its announcement was
\* made and its handling had not begun when the node died: else it was lost, and
\* nobody will (ingestion.py:240-252; redis_streams.py:281-284).
NothingForgotten ==
    \A d \in Docs : row[d].hash # None /\ ~row[d].stamped /\ row[d].state # "failed" =>
        Busy(d) \/ dropped[d]

\* What an attachment says is what can be cited from it: ready with the chunks
\* and the vectors of the file sent, pending only while its call has it, or
\* after that call was killed, alone or with the node (chat.py:701-740).
AttachmentHonest ==
    \A u \in Upload :
        /\ attachment[u] = "ready" => chunks[u] = [text |-> disk[u], vectors |-> disk[u]]
        /\ attachment[u] = "pending" => Sent(u) # {} \/ u \in abandoned
        /\ attachment[u] = "unsupported" => row[u].state = "failed"
==============================================================================
