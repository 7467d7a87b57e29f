# Lumbra in TLA+

A model of the parts of Lumbra whose correctness depends on the order in which
things happen: the event bus, executions and their cancellation, the approval
gate, a conversation and its streams, the ingestion of documents and their
chunks, memories and reflections, the orchestrator with its agents, the node
and the Postgres it brings, and the client's session.  Paths below are
relative to `src/core/src/lumbra/` unless they start with `src/`; those of the
client are under `src/clients/app/lib/core/`.

## 1. The system

Lumbra is a local assistant platform: one asyncio process (the *node*) that
hosts a kernel, a handful of modules (chat, memory, ingestion, reflection,
playbooks) and an HTTP API; a Flutter client starts the node and talks to it.
Postgres holds the data, Redis (optional) carries the events.

| Component | State it keeps | Operations | Interacts through |
|---|---|---|---|
| Redis event bus `adapters/eventbus/redis_streams.py` | streams, consumer groups (PEL, delivery counters), dedup keys, DLQ streams; in memory: reader loop, batches | publish with retry, consume loop, reclaim, process, dead-letter, redrive, start/stop | Redis commands; submits to one dispatcher per consumer |
| In-memory event bus `adapters/eventbus/in_memory.py` | processed set and DLQ per consumer | publish, process with retry, redrive, drain, start/stop | same dispatcher; handlers publish in turn |
| Partitioned dispatcher `shared/partitioning.py` | a bounded FIFO, an unfinished counter and a task per worker | submit (waits when full), join, stop, worker loop | called by both buses |
| Event bus port `ports/event_bus.py` | - | the contract of both adapters | |
| Kernel `kernel/kernel.py` | modules, root cancellation token, started flag | start, stop, publish (event store, then bus) | modules, bus, event store |
| Cancellation `shared/cancellation.py` | tree of tokens with reason and callbacks | cancel (propagates), child, guard | every long operation |
| Executions `kernel/executions.py` | records by id, bounded history, handles | start, finish, cancel, cancel_tree, forced cancel after a grace period | tokens, asyncio tasks |
| Skill registry and approvals `kernel/skill_registry.py`, `kernel/approval*.py`, `adapters/approvals/*` | tickets with a state, audit events | execute through scopes, validation and the gate; decide | event bus, stores, API |
| Chat `modules/chat.py`, `api/chat.py` | conversations, messages, policy; streams in flight per user and conversation | prepare, stream, finalize, cancel, attach, change the policy | AI gateway, stores, bus |
| AI gateway `adapters/ai/gateway.py` | traces | complete/stream with a fallback, within the privacy of the call | providers |
| Ingestion and pipeline `modules/ingestion.py`, `pipeline/*`, `adapters/documents/*` | documents, versions, the context of a run, chunks | scan, ingest, register, run the stages, retry, attach | bus, document store, search index |
| Chunking `adapters/chunking/*`, `pipeline/structure.py` | - | extract blocks, chunk them | called by a stage |
| Memory and reflection `modules/memory.py`, `modules/reflection.py` | memories, every-N counters | remember, search (touch), consolidate, expire, reflect | bus, stores, skills |
| Orchestrator, planner, sandbox `kernel/orchestrator.py`, `kernel/planning.py`, `kernel/sandbox.py`, `agents/` | registries; budgets and delegation chain of an execution | resolve, delegate, charge, run a plan | skills, agents |
| Learning loop and playbooks `kernel/learning.py`, `modules/playbooks.py` | proposals, playbooks | look, propose, write, forget | orchestrator, approvals |
| Embedded Postgres `adapters/persistence/embedded.py` and the node's command `cli/main.py` | data directory, owner pids file | check, wake, attach, migrate, serve, leave (the last one stops the server) | operating system |
| Devices and authentication `api/devices.py`, `api/auth.py`, `domain/scopes.py` | users, devices with a state, stateless tokens | register, login, refresh, guard; pair, list, revoke | stores, bus |
| Client session `session.dart`, `http_renovavel.dart` | token pair, renewal in flight | login, renew (single flight), resend, logout | HTTP |
| Client node process `node_process_io.dart`, `node_status.dart` | child process handle | start, watch, stop, kill | operating system |

Hard behaviours.  Everything on the engine's side runs in one event loop, so
the interleavings are those of `await`: state read before an await and used
after it.  Stores are reached in transactions of their own, so what one read
another may have changed.  On the Redis side several processes share groups,
every command is a step, and a process may die between two of them.  Timeouts
appear as idle limits (reclaim), key expiry (dedup), grace periods (forced
cancel), ages of tokens.  Bounded queues can make everyone wait on everyone.

What makes each component correct:

- bus: no event lost, one handler per event, bounded retry, order per key, a
  stop that drains, every event eventually settled;
- executions: a record ends once and for the reason that ended it; a cancelled
  parent leaves no live child; a cancelled execution ends;
- approvals: an action above the automatic limit runs only after its owner's
  yes, once, after the audit and within its scopes;
- chat: no text leaves the machine without consent; an answer is stored whole,
  once, before it is told; a stop button works;
- ingestion: what is marked indexed is what the index holds; no version is
  forgotten; an attachment says what can be cited; chunks lose no line;
- memory: a fact is learned once, importance is what recalls earned, answers
  that are due are reflected on;
- orchestration: scopes and budgets only shrink down a chain; a goal is
  proposed once;
- desktop: the last node to leave stops the server, and no node outlives the
  application;
- access: a revocation is announced, and a request is refused only when the
  session is over.

## 2. Plan

Done, the most important behaviour first:

1. `EventBusPort`, `RedisBus` and `InMemoryBus`, with the refinement of the
   port by both, and the proofs about `RedisBus`, that of the refinement among
   them.
2. `Approvals` and `Executions` with their proofs.
3. `Chat`, `Ingestion` with `Chunking`, `Memory`, `Orchestration`, `Desktop`,
   `Access`.
4. Proofs about `Chat`, `Access`, `Orchestration`, `Memory` and `Ingestion`.
5. Proofs about `InMemoryBus`: its properties, for any number of consumers, and
   its refinement of the port; proofs about `Desktop`.

Next:

6. The client's conversation (`conversa_estado.dart`): retries of a stream,
   composed with `Chat`.

## 3. The modules

Every action is one stretch of code between two awaits, one transaction, or one
Redis command, with everything that stretch does.  Definitions called "variant"
are plausible bugs that serve to see each property fail; they are used nowhere.
Variables called "history" are read by properties alone.

### `EventBusPort`

What `ports/event_bus.py` promises to one consumer: an event is `new`,
`pending`, `done` or `dead`; it is handled after at most `MaxAttempts`
failures, dead-lettered after exactly that many, redriven from the dead
letters, and a pending event does not stay pending for ever.

### `RedisBus`

One consumer group, several processes (`Nodes`) that run it.

| Model | Code |
|---|---|
| `stream`, `count`, `pel`, `dedup`, `dlq`, `removed` | what Redis keeps: entries, `times_delivered`, pending list, dedup keys, dead-letter stream and what XDEL took from it |
| `node`, `phase`, `batch`, `scan`, `todo` | a process, where its `_consume_loop` is, what XREADGROUP and XPENDING answered |
| `queue`, `work` | the partitioned dispatcher: FIFO per worker, and the stage of `_process` a worker is in |
| `admin` | calls of `redrive()` and the command each is at |
| `Publish`, `PublishDuplicate` | `publish()`, and its retry after an XADD whose reply was lost |
| `ReadGroup`, `Submit`, `ListPending`, `XClaim`, `EndCycle`, `LoopError` | the consume loop and `_reclaim_pending`, a command at a time |
| `Take`, `SetDedup`, `HandlerReturns`, `HandlerRaises`, `Release`, `ToDlq`, `Ack`, `CommandError` | `_process` and `_to_dlq` |
| `Redrive...` | find, DEL, publish, XDEL; `RedriveAbandoned` between any two |
| `Stop`, `Stopped`, `Start`, `Crash`, `DedupExpires` | life cycle of a process, expiry of a key |

`faults` counts what went wrong, and each property says which faults it
survives: `Unharmed` (no crash, no failed command, no entry reclaimed from a
process still at it) for `NoEventLost` and `DedupHasOwner`, none for
`DeliveryCountSound`.

### `InMemoryBus`

All consumers of the in-process bus. `queue`, `unfinished`, `inflight` and
`worker` are an `asyncio.Queue` with its counter, the dispatcher's `_inflight`
and a worker's task; `caller` is a publication or redrive that waits in `put()`
with the consumers it has still to serve, next the one registered first
(`NextTarget`). Handlers publish through `Child`. `Stop`, `Join`, `Drained`,
`CancelDispatcher` are `stop()` down to the cancellation of each worker, which
accounts for the item it interrupts as the two clauses of `_run` do. Nothing
waits for callers or for the handlers of other queues: `LumbraKernel.stop` does
not, so a stop may begin at any moment and what it cancels in hand is in `cut`.
The names `BusInit`, `BusNext`, `BusSpec` leave the plain ones to `Access`,
whose proofs stand in one module with those of the bus and of `Desktop`
(`DesktopInit`, `DesktopNext`, `DesktopSpec`).

### `Executions`

`status`, `recorded`, `parent`, `history` are the records and their ring;
`reason` is the token of each execution; `stage` is what its task awaits:
`gate` (scopes, validation, approval), `handler`, `guarded` and `aborting`
(`token.guard`), `emitting` (the event that ends `SkillRegistry.execute`).
`Cancel`, `CancelTree`, `ForceFires`, `ForceSpared`, `DeadlineFires` are
`cancel`, `cancel_tree`, the two ends of `_force_after_grace` and
`with_deadline`; `KernelStop` signals the root and every child.  `Stubborn`
executions never look at their token.  `swept` remembers what was running in
the branches of a `cancel_tree` whose tops the ring held: that is all it can
promise, since it looks children up in a ring of the last `HistorySize`.

### `Approvals`

A process is a call (a request to `SkillRegistry.execute` or a proposal of the
learning loop) or a request to decide a ticket. `pc` is the await it is in.
`Scopes`, `Gate`, `HandlerReturns`, `HandlerRaises`, `PublishEvent` serve a
request and, a second time, the execution after the yes, which runs through a
view of the registry whose gate is open. `AskToDecide` is the route,
`ResolveTicket` the UPDATE that filters on `pending` and on the user,
`ResolveTicketFails` one that fails or commits without an answer, `PublishFails`
an append or a bus that raises. `durable` chooses the store: `Restart` empties
the one in memory. `granted` can change only with a restart, because
`StaticPermissionAdapter` is built from the settings once.

### `Chat`

One conversation. `turn` holds what a request (`chat.send` or a stream of the
API) knows: the policy it read, the provider it was routed to, the question its
prompt ends with, the pieces sent, what it told the client; `pc` is its await.
`running` is `_running` of `api/chat.py`, one stream per user and conversation;
`token` the token a stop button signals; `trace` the gateway's record of each
call; `messages` the rows and `store` which of the two stores keeps them.
`History` reads a window: the newest rows in memory, the oldest with Postgres.
`patch` is a PATCH of the policy, validated against a first read and merged into
a second.

### `Ingestion` and `Chunking`

`disk` is a file, `row` its document (hash, state, `indexed_at`), `ctx` the
persisted `PipelineContext`, `chunks` the rows and the content their vectors
come from.  `req` is a call of `document.index`, `document.ingest_file` or
`chat.attach`; `run` a `PipelineRunner.process`, of a worker of the bus or of a
caller.  A run enters, loads the context or starts a new one, works through the
six stages with a save after each, marks the row and announces.  `queue` and
`tries` are the part of the bus a document meets.  `Crash` keeps what the stores
keep and, if `Durable`, the events whose handling had not begun: the dedup key
of the one in hand outlives the process, and the entry is acknowledged unhandled
when it is reclaimed.  `Kill` is the forced cancellation of a call, which no
`except Exception` sees.  `dropped` are the versions whose announcement or last
handling was lost, `abandoned` the attachments whose call died.

`Chunking` is a pure function from a document (a sequence of lines of which
only the kind matters) to its chunks: `ExtractBlocks` per format, the chunker
that knows the structure, the ones that do not, and the stage that chooses.
`LinesLost` and `Strayed` count the documents whose chunks disagree with what
the lines themselves say.

### `Memory`

`mem` is the table of one user; `proc` a call of a skill, or the reflection of
a conversation, and what it read before its await (`seen`, `fact`).  `Search`
reads and `Touch` writes importances computed from the read; `HandleAnswered`,
`Extract`, `Look` and `Learn` are a reflection that counts the answers, asks
the model for facts, searches each and remembers what it did not find.
`events` are the `MessageAnswered` not yet acknowledged; a `Crash` keeps those
not begun with Redis, none in memory, and `lost` has the rest.  `Horizon` is how
many answers the history holds in which a reflection counts (`limit=200`).

### `Orchestration`

`exec` holds an execution: its chain of sandboxes (`frames`: agent, effective
scopes, what is left of its work), the budget the chain shares (`spent`), the
plan it runs. `Execute`, `Handle`, `Work`, `Delegate`, `SkillReturns`, `Return`
follow `Orchestrator` and `AgentSandbox`; `Achieve` takes the keyword planner's
plan, `PlanByLLM` any that the model's planner may answer, `RunStep` runs it;
`SearchPlaybooks`, `SeePending`, `Propose` are the three transactions of the
learning loop. `Register`, `Upgrade` and `SetEnabled` change the registries
meanwhile.

### `Desktop`

The processes of one computer over one data folder.  `pg` and `owners` are the
server and the pids file; a `Reused` node has the pid of a killed one of the
file; `DesligarPostmaster` may fail and leave the server as it is, with no
retry; a node (`cli/main.py up`) is at one step of checking,
waking or attaching, migrating, serving or leaving, and may be killed anywhere.
`app`, `handle`, `tried`, `asked` are the application: whether it lives, the
child it believes to own, whether it already tried, whose standard input it
closed.  The library that runs the server is modelled from how
`embedded.py` uses it.

### `Access`

A token is its user and the age in which it was issued; `Vencer` ends an age.
`session`, `emCurso`, `signIn` are the client's pair, its single renewal and its
form; `req` a request of the client and, once received, its handler at the
node: a guard, then the transactions of `/devices`.  `devices`, `announced` are
the store of the chosen kind and what was handed to the kernel to publish.

## 4. The runs

| Run | Bounds | Shows |
|---|---|---|
| `redis_safe` | 2 processes, a failing event, 3 messages, a redrive, one fault of each kind but one at a time (crash, stop, failed command, duplicate, expiry, slow handler, abandoned redrive) | `NoEventLost`, `DedupHasOwner`, `HandlerExclusive`, `DeliveryCountSound` |
| `redis_agents` | bus: 1 process, 2 workers, 2 failing events of one key, a redrive, a stop and a restart, fair; agents: 2 executions, the agents of `api/main.py` with smaller budgets and two of a plugin, 2 registrations or switches, plans of up to 2 steps, 2 goals | `KeyOrder`, `StopDrains`, and `PortSpec`: the adapter implements `EventBusPort`, liveness included; `WithinScopes`, `TreeWithinBudget`, `OneProposal` |
| `inmem_all` | 2 callers, 2 events of one key one of which is published twice, 2 consumers, 2 workers, queues of 3, a redrive, a handler that publishes to both consumers, a stop at any moment and a restart, fair | `NoEventLost`, `HandledOnce`, `KeyOrder`, `JoinWaits`, `PortSpec` |
| `inmem_stop` | the same instance | violation, see section 7 |
| `executions_all` | 3 executions in any tree under a ring of 2 records, 2 of them stubborn, a timeout, a cancellation, a failed publication, a stop and a restart, fair | `ReasonExplains`, `CancelTreeReaches`, `EndsOnce`, `EventuallyEnds` |
| `memory_approvals` | memories: 2 conversations of 3 and 2 answers that say one fact and a credential, 1 call, room for 2 memories, one older or none, 1 change of the clock, 1 crash, Postgres; approvals: a gated request, a harmless one without an owner, a proposal with the first one's title, 2 decisions by 2 users, a failure, a restart, both stores | `OneMemoryPerFact`, `ImportanceEarned`, `EveryNth`; `RunsAfterOneYes`, `TrailBeforeRun`, `YesIsExecuted`, `ConfirmingNeverWidens` |
| `chat_all` | 2 turns, streamed or not, of either user, a PATCH, 1 piece per answer, a window of 2, both stores, fair | `NoCloudWithoutConsent`, `AnswerKept`, `AsksWhatFits`, `StopReaches`, `StopIsHeard` |
| `chat_window` | the same over Postgres | violation, see section 7 |
| `ingestion_all` | a scanned file, an image, an attachment, 2 calls, 1 change of a file, 1 crash or forced cancellation, 2 stages that may fail, 2 deliveries, Redis; every document of up to 5 lines of each format, chunks of 2 to 3 lines | `IndexedIsCurrent`, `NothingForgotten`, `AttachmentHonest`, `EveryLineKept`, `TrailEncloses` |
| `ingestion_stale` | a scanned file and an image, 2 calls, 1 change; nothing fails, nobody dies | violation, see section 7 |
| `desktop_all` | 2 nodes of the application and one by hand whose pid may be that of a killed one, a folder that is new, interrupted or left by a killed node, a machine without Ollama or without a writable folder, a stop of the server that may fail, fair | `LastOutStops`, `AppGoneNodesGone` |
| `access_all` | 2 users, 2 requests in flight, a device, both stores, 2 ages of tokens | `RevocationAnnounced`, `RefusedOnlyWhenSignedOut` |

`redis_agents` and `memory_approvals` each check two parts that share no state:
`part` chooses the one whose variables move, so a behaviour is one of either
part and their states add up instead of multiplying.

Why the bounds are enough: each hazard needs two actors and one fault of its
kind (two messages of one event, two processes on one group, two decisions of
one ticket, a turn and a PATCH, a run and a scan, two recalls, two revocations),
and every run allows these at once.  Three messages are an event, its duplicate
or redrive, and another of the key.  `MaxAttempts = 2` is the least with both a
retry and a last attempt; the Redis queues of one are full after one put; a
window of two is left behind by the second turn; a budget of two is exhausted by
a chain of two agents that tolerate it (`redis_agents` gives two agents 2 steps
where the code gives 8 and 16).  Three executions under a ring of two forget a
parent that has a child; but the ring keeps the newest, and that whatever it
holds it holds whole, for any number of executions, is the theorem's part.  Five
lines hold a heading, a table with header and row, and a neighbour on either
side.  `SYMMETRY` is used where the permuted values are interchangeable and the
run checks no liveness.  What the bounds cannot show, the theorems do.

What a run does not exercise: `redis_agents` has no faults, because a crash may
lose an event (section 7) and the contract would rightly fail.  The queues of
`inmem_all` hold 3 and are never full: a retry into a full queue of its own
blocks a worker for ever (section 7).  In `redis_agents` the user was granted
every scope, so that what is granted bounds a chain is shown by
`NeverBeyondScopes` alone.  The memories of
`memory_approvals` count in a history of two answers, which a third leaves as
the 101st does in the code: see section 7.

`CHECK_DEADLOCK FALSE` is set where the system may rest: all executions over,
all decisions taken, the bus stopped, nobody asking.  The Redis runs check
deadlock: its readers never rest.

Fairness is what the code's scheduling gives and no more. In one asyncio loop a
task that can run is run (`Loop`, `Process`, `Work`, `Emitted`, the guard's two
steps, `Step` of a turn), a timer that is due fires (`ForceFires`), a process
that went down is started again (`Start`, by the client or the service manager),
a handler returns or raises, a wait of a node ends (`NodeStep`, `Iniciar`). No
handler is assumed to fail, no message to be duplicated, nobody to cancel or
decide, and no model to send its next piece: `StopIsHeard` holds without. That a
node ends when it is asked to rests on its requests and handlers ending:
`uvicorn` is given no limit for its graceful shutdown and `join()` has none
either. In `Executions` a stubborn skill is not even assumed to return: that is
what the forced cancellation is for.

## 5. What is proved

The proofs hold for every value of the constants: any events, keys, workers,
processes, users, tickets, turns, agents, facts, and any number of faults.
What they assume of the constants is the `ASSUME` of the module: the kinds the
code gives its parameters, finiteness where a set is counted, and that the
value that stands for "none" is no member of the others.  Three
theorems have a further hypothesis, because without it they are false:

- `BusImplementsPort` and `KeysInOrder` of Redis speak of one process, one
  redrive at a time, and behaviours whose only faults are stops (`[]Calm`);
- `BusImplementsPort` of the bus in memory assumes that an event whose handler
  may fail is published once: each of its copies carries an attempt of its own,
  which one count of failures cannot follow.  It assumes nothing of stops.

What a property excuses, it says itself and the proof covers: what a stop cut
off in hand (`cut`), what a crash took (`lost`, `dropped`, `abandoned`), a
conversation beyond its window over Postgres, a branch whose top the ring
forgot, a server whose `pg_ctl stop` failed. Section 7 lists these as what the
code does.

Each proof follows one argument: an invariant stronger than the property, one
lemma per kind of step that says all such steps do to the state, one step per
action that cites it, and a last step of temporal logic.  The properties are
seldom inductive; what had to be added is this.

- `RedisBusProofs`: `TypeCorrect`, and `DeliveryCountNeverAhead`
  (`DeliveryCountSound`) under every fault, from an invariant that relates
  every place a delivery can be (batch, snapshot, queue, worker) to Redis'
  counter.  `AtLeastOnce` (`NoEventLost`) and `DedupKeysOwned`
  (`DedupHasOwner`) while no process was harmed; duplicates, expiries, stops
  and abandoned redrives stay unbounded.  `SafeInv` adds that a message is held
  in one place only (`HeldOnce`) and is pending while held (`HeldPending`),
  that a dedup key has an owner, and `Kept`, which replaces "in the DLQ" by "in
  the DLQ and not about to be deleted by a redrive that already published", and
  "outstanding" by "outstanding and not about to be acknowledged".
  `OneHandlerPerEvent` (`HandlerExclusive`) holds through every fault that
  deletes no dedup key: `OneHandler` says that who is between SET NX and XACK
  has the key to itself, and that a key outlives the handler that returned.
  `StopLeavesOnlyFailures` (`StopDrains`) rests on `Drained`: a loop that ended
  holds nothing, a process that is down has drained its workers, and every
  pending entry is in hand or its handler failed.
  `BusImplementsPort` is the safety half of `PortSpec`: each action of the bus
  is shown to be an action of `EventBusPort` under the mapping of `status`, or a
  stutter (`PortStep`).  It needs `OneLife`: an event has one live message or
  one open DLQ entry, and neither once it is handled; and `Counts`: every copy
  of a delivery number, in the batch, the snapshot, the queue or the worker,
  agrees with the failures the event has had, so that `dc >= max_attempts` is
  reached at exactly that many.  Two processes that listed the same pending
  entry number their deliveries alike, and two redrives publish an event twice:
  hence the hypotheses.
  `KeysInOrder` (`KeyOrder`) adds `Ordered`: a message is only ever at its own
  worker (`Routed`), an event of a key that has not failed was appended once
  (`Single`), and wherever the later of two such messages has got (delivered,
  queued, at the worker, handled), the earlier one is ahead of it (`Ahead`).  A
  message of such a key never rests unhandled in the pending list, so no reclaim
  overtakes.  Two processes may hold messages of one key at once, and after a
  crash a later message may be read before an earlier one is reclaimed: hence,
  again, the hypotheses.
- `ApprovalsProofs`: `TypeCorrect`; `OneYesOneRun` (`RunsAfterOneYes`);
  `TrailFirst` (`TrailBeforeRun`); `ApprovalKeepsScopes`
  (`ConfirmingNeverWidens`); `YesNeverForgotten` (`YesIsExecuted`).  The
  invariant says of a gated call where it may stand before its ticket exists,
  that an undecided ticket has no yes and no run, and that a decision past
  `deciding` is the sole bearer of the one verdict its ticket has.
  `ApprovalKeepsScopes` needs in addition that whatever is past `scopes` passed
  it while they were granted, and that a restart, the only step that withdraws
  them, leaves nobody past it.
- `ExecutionsProofs`: `TypeCorrect`; `ReasonsTold` (`ReasonExplains`);
  `ShutdownSignal` (`ShutdownReaches`); `SingleEnding` (`EndsOnce`).  Record and
  task agree on whether it began and ended (`Phase`), nothing happened before it
  was started (`Fresh`), only a running one has a deadline (`Timer`), and
  whoever interrupts one signalled its token before (`Signalled`), so the reason
  in the record is that of the first signal.  `TreeReached`
  (`CancelTreeReaches`) needs that the ring holds the newest executions, newest
  first (`Newest`, `Descending`), and that a parent began before its child
  (`Descent`): so below a record the ring holds, it holds the whole branch
  (`WholeBranch`), for any number of executions and any size of the ring; and
  that no signal is taken back (`Sealed`).
- `ChatProofs`: `TypeCorrect`; `ConsentFirst` (`NoCloudWithoutConsent`), for
  which what a turn carries is `Faithful` to a policy that was once whole, and a
  PATCH under way writes one that is; `StopButtonReaches` (`StopReaches`), for
  which two streams of one user that are under way together remember each other
  (`Remembered`) until one of them ends; `AnswerNeverLost` (`AnswerKept`), for
  which each place of a turn says what is stored and traced by then;
  `QuestionIsAsked` (`AsksWhatFits`), for which the last message of the
  conversation is the question of a turn nobody met, and the page that is read
  ends with it, over Postgres as long as the conversation fits.
- `LocalNodeProofs`, its first part about `Access`: `TypeCorrect`, with the
  shapes a request may have in each of its four kinds of handler;
  `RevocationsAreTold` (`RevocationAnnounced`), for which whoever turned a row
  to revoked is still to announce it, unless somebody did (`RevokeInv`);
  `RenewalMends` (`RefusedOnlyWhenSignedOut`), for which a request that comes
  back was sent in the age of its session or is in the list of those the session
  ended under (`SignedInv`).
- `LocalNodeProofs`, its second part about `InMemoryBus`: `BusTypeCorrect`, of
  which the part that matters is that items and tasks are only ever at the
  worker of their key. So an event has one place per consumer, and its copies
  are sets: `Slots` and `Tags` (positions and attempts in the queue), `Holds`,
  `Failed`, `GivingUp` (the task), `Letters`, `Calls` and `Puts` (calls and
  handlers that wait to put it). Every step does one of eleven things to these
  sets for a given consumer and event (`KnownStep` and the others go through
  them once each): a publication begins, the event is put, taken, skipped,
  returned, raised, retried, buried, redriven, passed over, or cut off by a
  stop. `DrainIsComplete` (`JoinWaits`) rests on `Drains`: unless a stop
  cancelled its worker in its work, the counter of a queue is its length plus
  the item in hand (`Counted`), through any stops and whoever publishes
  meanwhile. `NothingIsLost` (`NoEventLost`) follows from `Kept`: an accepted
  event is somewhere, or was cut off in hand. `HandlerReturnsOnce`
  (`HandledOnce`) needs `Single`, which excludes each pair of places for an
  event published once, and `Remembers`: an event in hand is not remembered as
  processed. `HandledInOrder` (`KeyOrder`) needs `Ordered`: of two events of a
  clean key, the earlier is handled, or cut off, or in hand, or has a slot
  before all slots of the later (`Ahead`), which no step reverses because queues
  are appended at the back and only a failure puts an item back.
  `BusImplementsPort` is the safety half of `PortSpec`, for each consumer: it
  needs `Attempts`, by which the attempt of the one live copy of a failing event
  is its count of failures plus one.
- `LocalNodeProofs`, its third part about `Desktop`: `DesktopTypeCorrect`;
  `LastOneStops` (`LastOutStops`), for which the ways for a process to end are
  listed (`Endings`): whoever ends while others live ends nothing, and the last
  one to end in order either saw no server or stopped it;
  `OrphansAreAsked`, the safety half of `AppGoneNodesGone`: when the
  application is gone, each of its nodes has its input closed or has ended.
- `OrchestrationProofs`: `TypeCorrect`; `NeverBeyondScopes` (`WithinScopes`) and
  `NeverBeyondBudget` (`TreeWithinBudget`), from `Sound`: the effective scopes
  of a frame are within the manifest of every agent above it (`Narrows`), what
  ran is within what was debited and that within the first agent's limit
  (`Budgeted`); `ProposedOnce` (`OneProposal`), for which whoever is between the
  looks of an unraced goal is the only proposer and nothing is proposed yet
  (`OnlyProposer`).
- `MemoryProofs`: `TypeCorrect`; `DueIsReflected` (`EveryNth`), for which a
  running reflection has counted the answer it runs for, and one that never
  began was late or lost; `RecallsAreCounted` (`ImportanceEarned`), for which a
  memory outside `clash` has one reader at a time (`OneReader`) and what it read
  is current (`ReadIsCurrent`); `LearnedOnce` (`OneMemoryPerFact`), for which
  whoever is about to write a fact outside `doubled` is alone and nothing says
  it yet (`OneWriter`).
- `IngestionProofs`: `TypeCorrect`, with what a call and a run hold at each of
  their places (`Holding`); `RunLeavesItsVersion` (`IndexedIsCurrent`), for
  which whoever is at a document nobody raced for is `Alone` there with the
  content of the file, and what has gone through n stages, in the run, in the
  saved context and in the chunks, is of that content (`Good`, `Carries`): a
  run that failed or a crash may leave any prefix of it, never anything else;
  `VersionsHaveTakers` (`NothingForgotten`), for which a version not at its end
  has a `Taker`: a call whose run has not ended, or one event more than the
  worker is about to acknowledge, unless its announcement or its handling was
  lost (`dropped`); `AttachmentsAreCited` (`AttachmentHonest`),
  for which an attachment has one call and never an event (`OneCall`), so
  nobody races for it and what is current is what was sent, and it is pending
  only in that call, or after the call was killed (`abandoned`).

## 6. What is only model-checked, or not modelled

Only model-checked:

- liveness: `EventuallyEnds`, `StopIsHeard`, `AppGoneNodesGone` and the liveness
  half of `PortSpec` need ENABLED and fairness, which the prover does not reach;
- `EveryLineKept` and `TrailEncloses`: what a fold computes for every document
  needs an induction over data with an operator as its parameter, which none of
  the provers takes.

`ShutdownReaches` and `AskedAll` are proved only, and so are the type
invariants: no run spends a property on them.

Not modelled:

- `stream_maxlen` and `dlq_maxlen`: trimming is approximate and depends on
  configuration alone; the streams of the model grow.  The COUNT of XPENDING
  (64) changes nothing with fewer pending entries.
- Metrics, logs, health and listings, which only read; registration of modules
  and skills, which is over before anything is called.
- A ticket whose INSERT fails: the request ends without one, as if refused.
- Similarity of texts: two memories say the same fact or do not, and a
  document is its hash.  The lexical fallback of the search, whose similarity
  is 0, is the case where the look fails.
- Chunk sizes: a line is one character, so a long table row, which the code
  never cuts, and the overflow of a chunk that takes in a tiny rest are not
  seen.  `SentenceChunker` is never mapped to a format; the repair of glued
  words and the legibility check change text, not structure.
- The components listed as not modelled in `PROJECT.json`, with the reason of
  each.

## 7. Disagreements between the code and what it says

With a run:

- `inmem_stop`: nothing keeps a publication that is under way, or a handler of
  another queue, from submitting after a join has returned; the worker that took
  the event is cancelled, and the event is nowhere.  `partitioning.py:137` says
  of a stop that drains "nenhum trabalho aceito é perdido", and
  `LumbraKernel.stop` waits for no execution before it stops the bus.
- `chat_window`: with Postgres the history is the oldest rows, not the newest
  (`adapters/conversations/postgres.py:144`): beyond the window a prompt does
  not hold its own question.
- `ingestion_stale`: a run saves its whole context after every stage, whether or
  not it was reset since. While the run of the first version is at one of its
  stages, a second scan registers a new version and resets the context; the
  older run writes its own back, and the run of the new version finds every
  stage done and marks it indexed over the chunks of the old content. Nothing
  fails and nobody dies; every later scan answers UNCHANGED
  (`pipeline/runner.py:119`, against "reprocessa do zero" in
  `modules/ingestion.py:246`).

Seen while modelling, where a property says so by its exceptions or a bound
avoids it:

Event bus.
- The dedup key survives a crash or a failed command between SET NX and the
  acknowledgement: the reclaimed entry is acknowledged without being handled,
  while `redis_streams.py:310-312` calls itself the recovery after a crash, by
  which any instance claims the entry and handles it again ("qualquer instância
  a reclama e reprocessa").  `Ingestion.Crash` and `Memory.Crash` follow the
  code: events in hand are gone.
- A redrive abandoned before XDEL leaves the entry, and the next one publishes
  it again; a redrive deletes the dedup key while a duplicate may be processed.
- A worker submits a retry to its own bounded queue; if it is full the worker
  waits for itself (`partitioning.py:23` says that a handler's failure never
  affects other items).  A worker cancelled in its work counts its item twice,
  so after a restart `join()` may return with an item in the queue.
- A retry is put behind later events of its key in both buses, and events of one
  key on two streams are handled in the order of the streams: `KeyOrder` speaks
  of one stream and of keys none of whose events failed.

Executions and approvals.
- `cancel_tree` looks children up in a ring of 200 records: below a root it has
  forgotten, it reaches only the branches whose tops it still holds.
- A kernel that was stopped keeps its cancelled root token when it is started
  again, so everything it then starts is cancelled at birth (`ShutdownReaches`).
- No step of `LumbraKernel.stop` waits for the executions it signals, although
  `kernel/kernel.py:237` says that no long operation survives it.
- A crash, a failed publication or a commit whose answer is lost leaves a ticket
  approved and its action never run; asking again is refused.
- Two looks and an INSERT in separate transactions: two proposals of one title
  may become two tickets.

Chat.
- Two concurrent PATCHes of a policy: one is lost.
- A cancellation during the preparation is told as an error, with the question
  left without an answer; turns that overlap may ask each other's question; a
  response that is killed loses its partial text and its trace.

Ingestion.
- The index stage declares the state INDEXED, so a node that dies in it leaves a
  document that says it is indexed, and no event comes back to it; a version
  whose announcement failed is never announced again (`NothingForgotten` counts
  both as `dropped`); `last_error` is never set.
- An attachment whose embedding failed is told as "nothing indexed" though its
  chunks can be found; one whose call was cancelled by force stays pending for
  ever.
- Chunks: a heading without a body is in no chunk; the prose chunks of a
  structured document do not carry their heading; a `~~~` closes a fence opened
  by three backticks; a ruled PDF page tells its tables before its prose.

Memory.
- The answers are counted in `history(limit=200)`, the oldest with Postgres:
  beyond it the count stands still at 100 answers, a multiple of the interval of
  4, so that every answer triggers a reflection, with Postgres over the same old
  turns.
- A candidate is compared with the best match by score, not by similarity, and a
  lexical match has similarity 0: a known fact may be learned again.
- A late recall may lower an importance; a memory recalled after it was listed
  as weak is archived all the same; a forgotten fact comes back with the next
  reflection; `expire_temporary` is for all users; archiving a forgotten row
  raises in memory and not in Postgres.

Orchestration.
- `ports/agents.py:53` says that an empty `to_capabilities` allows none;
  `orchestrator.py:239` treats it as no restriction.
- The depth limit that counts is the delegator's, not the first agent's.
- A cancelled plan or delegation is recorded as a failed step, and the following
  steps still run.
- `AgentRegistry.get` compares versions as strings; a new version enables its
  disabled agent's providers again; a registration that fails half way leaves
  providers without an agent; the keyword planner plans a skill once per
  matching capability; the listing shows the first provider, not the resolved
  one.
- A rejected proposal is proposed again; a playbook that shares one word with a
  goal keeps it from being learned.

Desktop.
- The owners' file is read and written back without a lock
  (`embedded.py:138`): a serving node's entry may be erased, and the next to
  leave stops the server under it.  Between the check and the stop (428) another
  may join.
- A server found starting is left running by the last node, and so is one whose
  `pg_ctl stop` raises, times out or returns an error (`embedded.py:394-399`: a
  warning, no retry), or whose list of owners holds the pid of a killed node
  that another process has now (`embedded.py:121-123`).
- `check_postgres` reports an embedded server that does not run as a warning.
- A second start in the application loses the first child's handle.

Access.
- A logout or login during a renewal is undone by `session.dart:158`; any
  failure of a renewal logs out, while the comment speaks of an expired refresh
  token only; the node does not refuse a refresh token that was used before,
  although `session.dart:136` says so.
- With Postgres a pairing that read before a revocation and wrote after it
  brings the device back, though `domain/devices.py` says that the two never
  cross; two revocations may both announce, and a failed announcement is not
  repeated.
- An account whose event fails exists without a session; the prefix form of a
  scope matches only whole segments; two first starts may each write a local
  secret.
