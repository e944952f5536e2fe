# TLA+ models of Tempest

Tempest proves what a code change does: it takes two revisions of a repository,
generates inputs, executes both sides in isolated worker processes, compares the
results and reports a verdict with a replayable evidence bundle. A desktop host
(Rust/Tauri) supervises a Python sidecar; the sidecar is a FastAPI application
over a local SQLite store and a content-addressed bundle store; the engine is a
Python library that the sidecar calls on threads of its own. The window is a chat
platform (TypeScript, `packages/platform`) with Tempest's own transport and editor
in `platform/client/tempest`; the platform's server side brings a resumable event
stream over Redis and a human-in-the-loop approval protocol.

The arithmetic of a verdict is well covered by the repository's unit tests. What
they hardly reach is the machinery around it: cancelling a prove while it spawns
workers, a watch loop that is stopped and restarted, a run row written by several
tasks, a store that prunes while it is filled, a child process that dies while
the application exits, a chat answer that is streamed, replayed and pushed at once,
two clicks on the same approval, an answer to a question that was typed over. Those
are the parts modelled here.

All paths below are relative to the repository root (`src/` in `PROJECT.json`).

## 1. Inventory

### Parts that are modelled

| Part | Code | State it keeps | Operations |
| --- | --- | --- | --- |
| Cancellation scope | `packages/engine/src/tempest/execute/cancel.py`, `_spawn` and `_kill` of `execute/runner.py`, `kill_container` of `execute/sandbox.py` | the registry of worker processes, the cancelled flag, a lock; the registry of containers | `register`, `unregister`, `cancel`, `raise_if_cancelled`, `kill_container` |
| Watch session | `packages/api/src/tempest_api/watchsession.py` | `WatchState`, the stop event, the pause scope, one loop thread per start | `start`, `stop`, the loop (`_loop`, `_prove_commit`, `_fail`) |
| Local prove of one run | `tempest_api/localprove.py`, `ledger.py`, `ingest.py`, endpoints of `routers/runs.py` | the run row, its timeline (`run_events`), the registry of active proves, the ledger lock | create, spawn, emit an event, ingest, mark cancelled / error, cancel, upload |
| Bundle store | `tempest_api/bundlestore.py` under `ingest.py` and `routers/runs.py` | blobs on disk, `runs.bundle_digest` | `put`, `prune_over_budget`, `collect_garbage`, import, upload |
| Sidecar supervisor | `packages/desktop/src-tauri/src/supervisor.rs`, start thread and exit sweep of `lib.rs` | the child in the slot, `shutting_down`, the request stream | `start`, `monitor_loop`, `call`, `shutdown`, `spawn_child`, `kill_group` |
| Chat turn | `tempest_api/chatturn.py` over `platformstore.py` | the registry of jobs, a job's frames and pending batch, the `turns` row and `turn_events` | `start_turn`, the turn's thread with its flushes and its terminal commit, `cancel_turn`, eviction, `events_after` with reconciliation |
| Chat stream | `desktop/src-tauri/src/agent_chat.rs`, `commands.rs`, `platform/client/tempest/stream/TempestSSE.ts` | the poller that owns a stream, a reader's cursor, held pushes, what is on screen | `replay_chat_turn`, `spawn_poller`; `stream`, `attach`, `receive`, `release`, `deliver`, `fail`, `close` |
| Inline completion | `platform/client/tempest/views/editor/` (`inlineCompletion.ts`, `completionPolicy.ts`, `modelSource.ts`, `risk.ts`) | the policy and risk fields, a generation counter, the session's metrics | F11, Tab, Escape, blur, edits, caret moves, the answers of source and risk lookup |
| Approval lifecycle | `platform/api/src/stream/ApprovalLifecycle.ts`, `InMemoryJobStore.ts`, `server/controllers/agents/resume.js`, `request.js` | the job record of a stream id: generation, status, action, private action id, barrier | pause, save, release or fail the barrier, resolve, expire, stop, finish, replace, clean up a stale barrier |
| Event transport | `platform/api/src/stream/implementations/RedisEventTransport.ts` and the early buffer and first subscription of `GenerationJobManager.ts` | coalescing window, sequence counter, publication receipts, early buffer, reorder buffer | emit a delta, a chunk, DONE; the publish script; settle; subscribe, replay, synchronise; ordered delivery, force flush |

How they interact:

- The desktop host starts the sidecar and speaks length-prefixed JSON-RPC to it over
  a single stream, one request at a time (`call` holds the `live` mutex from the
  write to the answer). A monitor thread polls the child and respawns it. The exit
  handler calls `shutdown`.
- In the sidecar, `startLocalProve` and the watch loop create a PENDING run row and
  call `spawn_prove_thread`, which registers a `CancelScope` under the run id and
  starts a thread with an event loop of its own. `cancelRun` and the watch session's
  `stop` reach that scope through the registry.
- The prove thread calls the engine's `run_prove`, which spawns and kills workers
  through the scope, then ingests the bundle: rows and events in SQLite, bytes in the
  bundle store. Uploads and imports arrive on the server's event loop and write the
  same tables.
- A chat turn is a thread of the sidecar that appends frames to a ledger in memory and,
  in batches, to the store. The webview subscribes to the host's pushes, then calls
  `replay_chat_turn`; the host fetches the first page with `listChatTurnEvents`, answers
  with it, and starts a poller behind it that pushes the rest. The calls go through the
  supervisor, so that the engine may die and come back, with an empty registry, between
  any two of them.
- In the platform's server, `GenerationJobManager` emits a run's events through the
  transport and keeps the job record in a job store, on which `ApprovalLifecycle`
  works by compare-and-set. The run that pauses owes the database the unfinished
  response; resume, stop and expiry wait for it at the barrier.
- The editor asks a local model through the host and looks up the risk of what was
  suggested; both are promises that settle in any order.

What is hard about each, and the properties that make it correct:

- *Cancellation*: the flag is raised outside the lock and kills happen outside it, so
  a spawn can straddle a cancel. No worker may outlive a cancel, nor the container
  behind a worker the prove (`SweptOnReturn`, `RunningIsRegistered`, `GroupsSwept`,
  `ContainersSwept`).
- *Watch*: two loops can exist at once, because `start` replaces the event the old
  loop looks at. The runs of a session must follow each other without a gap, one loop
  must not prove two commits at once, Stop must end the loops, and the loop must catch up
  with HEAD (`RunsChain`, `OnePerLoop`, `StopEndsLoops`, `CatchesUp`, `WatchingHasLoop`).
  Two loops do prove at once: `OneAtATime` is refuted (section 4).
- *Local prove*: three kinds of writer (the coroutine, fire-and-forget pause tasks,
  requests on another event loop) on one row and one timeline, with a cancel that can
  arrive at any point (`KeepsLifecycle`, `ProvedEndsTimeline`, `SeqStaysFree`,
  `OneIngest`).
- *Bundle store*: the database is transactional and the file system is not
  (`OwnEvidenceKept`, `NewestKept`, `FitsAfterCommit`).
- *Supervisor*: death, respawn, call timeout and exit race each other, and a request is
  written, without a timeout, under the lock that all of them need (`OwnedGroups`,
  `SecondIsDropped`, `RespawnsSwept`, `CallIntegrity`, `DeathNoticed`, `ShutdownReturns`).
- *Chat turn*: two ledgers, of which the durable one lags behind the one that is read;
  commits that fail, a process that dies in between, and a reader that reconciles what
  the dead process left (`LedgerWhole`, `PublishedIsDurable`).
- *Chat stream*: a page and a stream of pushes overtake each other, deltas are merged
  at different places by every reader, sessions follow each other on one stream id, and
  a spinner must stop even if the engine never comes back (`ExactWhenAlone`,
  `NothingLost`, `NoFalseAlarm`, `StreamsEnd`).
- *Inline completion*: answers to questions that were typed over, undone back to or
  asked again (`ShownFits`, `BadgeIsItsOwn`, `PendingResolves`, `BadgeArrives`,
  `RateIsARate`).
- *Approval*: two decisions on one action, a decision on an action that is gone, a
  resume that overtakes the save of what it resumes, a process that dies holding the
  barrier (`OneDriver`, `DecidedOnce`, `SavedBeforeOutcome`, `RequestsReturn`).
- *Event transport*: what Redis publishes arrives in any order, or not; the answer that
  tells the producer its sequence may come after the message, or never; the first
  subscriber gets some events from a buffer and some from the channel (`NoDuplicates`,
  `NoSilentLoss`, `InOrder`, `NothingParked`, `StreamEnds`).

### Parts that are not modelled, or not yet

`PROJECT.json` lists every part with its reason. In short:

- *On the plan*: the persistent worker and its batches (`execute/runner.py`), the prove
  pipeline and its verdicts (`prove.py`, `dual.py`), stdio RPC and framing, cassettes,
  ddmin, the comparison lattice, the worktree cache, the agent turn with its journal
  and turn log, the cost limit, model downloads, the MCP client, the local model server,
  the language-server multiplexer, cloud sync, schema migration.
- *Left out*: input generation, harness synthesis, target selection, indexing and
  ranking (functions of text or random data, no protocol); sandbox command lines, the
  keychain and path canonicalisation (operating system behaviour); serialisation,
  generated schemas, UI plumbing, the command line.
- *The chat platform*. Most of the repository's lines are the upstream chat platform
  (`packages/platform`): React components, provider adapters, schemas, translations and
  the CRUD endpoints of its server. They have no protocol of their own; its core logic,
  as far as concurrency and failure go, is `api/src/stream`. Of that, the approval
  lifecycle and the path of one generation's events to its first subscriber are
  modelled. The share of the repository's lines that a definition stands for is
  therefore small, and would stay small with everything on the plan.

## 2. Modules

| Module | Role |
| --- | --- |
| `CancelScope` | the scope, the prove thread's `_spawn` and `_kill`, any number of cancelling threads |
| `WatchSession` | the handlers, the loop threads, the repository and the power supply |
| `RunLifecycle` | abstract specification of one run row |
| `LocalProve` | one run: creator, coroutine, pause tasks, uploads, cancels; implements `RunLifecycle` |
| `BundleStore` | runs, blobs, ingests under SQLite's write lock, pruning and collection |
| `Supervisor` | start thread, monitor, callers, exit handler, sidecar processes |
| `ChatTurns` | the engine's side of one stream id: registry, thread, store, crash, reconciliation |
| `ChatStream` | extends `ChatTurns` with its readers: the host's command and pollers, the webview's sessions |
| `InlineCompletion` | the editor's two state fields against two promise chains per question |
| `ApprovalLifecycle` | one stream id's job record, the runs on it, and the requests that race on it |
| `EventReorder` | one generation's events: producer, Redis, channel, first subscriber |
| `...Proofs` | the theorems about the module of that name (`ApprovalProofs`: about `ApprovalLifecycle`; `WebviewProofs`: about `InlineCompletion`, `ChatTurns` and `ChatStream`) |
| `MC...` | instances for TLC; each has one `.cfg` per run |

Each module's header says what one step stands for. The conventions that matter for
reading them against the code:

**CancelScope.** `leader[p]` distinguishes a running leader, a zombie and a reaped one,
because `_kill_group` is only safe, and only effective, before the reap. `kin[p]` says
that a descendant in the group is alive. `_spawn` is four steps (check, `Popen`, insert
into the registry, the flag test under the lock); `cancel()` is the flag, the snapshot
under the lock, then one kill at a time. Under Docker a worker is the client of a
container that the daemon starts and that outlives it: `box[p]` is that container,
`entries` is `_CONTAINERS`. Each kill path calls `kill_container`, which pops the entry, so
that a container gets one `docker kill`, from whichever path came first; taking the entry
and the end of the command are two steps, except in `register`, which does both under the
scope's lock, as the code does. The command may fail, or come before the container exists;
`missed` remembers that.

**WatchSession.** A *generation* numbers the pair of stop event and pause scope that
`start` installs. Loop `g` is the thread of the `g`-th start and, as in the code, reads
the pair through the session and not through a local, except the scope it captured for
the hold. The steps of a loop are the stretches between lock releases, waits and calls
that can raise. The handlers do not await inside `start` or `stop`, so they exclude each
other. A prove is a row, an entry in the registry, then over.

**LocalProve.** SQLite with the driver's default isolation: a SELECT outside a
transaction sees what is committed at that moment; the first INSERT or UPDATE takes the
write lock, and reads after it are inside the transaction. From the first write to the
commit a transaction is therefore one step, and only the reads *before* the first write
are steps of their own: `session.get(Run)` and, where an event is the only write, the
`max(seq)` of `append_run_event`. In `_mark_cancelled`, `_mark_error` and the ingest the
pending UPDATE is flushed before `max(seq)` is read, so there it is inside. The ledger
lock is an `asyncio.Lock`: FIFO, modelled by `queue`, whose head holds it. Pause tasks
are scheduled from the prove thread before `run_prove` returns, so they are queued ahead
of the coroutine's next event. `asyncio.run` cancels the tasks left over when the
coroutine ends. What `run_prove` computes is abstracted to: it returns, unwinds with
`ProveCancelled`, or raises.

**BundleStore.** The write lock is taken with the first flush of an ingest, before
`put()`, and kept to the commit. The references that `collect_garbage` compares with are
read in one step and the unlinks happen later, one per step, without the lock. A crash
rolls back every transaction under way and leaves the blobs. The loop of
`prune_over_budget` is one step, as it runs inside the write lock: `Doomed` is the set of
runs it takes, each of which was the oldest prunable one while the store was over budget.
The sizes it adds up are those of the files it finds (`BundleStore.size` is 0 for a missing
one); `counted`, a history variable, remembers which files those were.

**Supervisor.** Every use of the `live` mutex but `call` is one step; a call holds it
from its write to its answer, error or timeout. The write is a step of its own: `call`
and `shutdown` write the frame (`supervisor.rs:260` and `:326`, `framing.rs:38`) before
any deadline is armed (`supervisor.rs:265`), and a write to a full pipe blocks for as long
as the sidecar lives and does not read. Request ids are the counters of one
sidecar's stream: what was sent, answered and read. Timers may fire at any time.
`spawn_child`'s early returns after the process exists are the `...Leaks` actions: such a
sidecar is `lost`, it runs on and nothing in the supervisor refers to it any more.

**ChatTurns and ChatStream.** A frame is its kind; what the model says is a number of
deltas. The opening frames are appended and committed together and are one frame here. A
commit to the platform store is one step, which may fail; taking the batch and committing
it are two, because readers and a crash come in between. `events_after` is one step when
it is served from a job in the registry (under the job's lock, `chatturn.py:784`) and two when it is served from the store (the
`turns` row, then the events). A served page is a set of events `[turn, from, seq,
final]`: `seq` is what the reader is told, `from..seq` the run of raw frames that
`_coalesce_deltas` merged into it, so that a property can speak of raw frames. Session `s`
is the `s`-th `TempestSSE` on the stream id; replay calls run one after the other on the
host's main thread, so that the generation a call draws is the session's number. A poller
that lost its claim notices at its next check and not before, so its last batch may reach
the next session; `heard` remembers which pollers a session heard, and `opened` which turn
was the newest when a session opened.

**InlineCompletion.** The document is one of a few texts and the caret one of a few
offsets, so that an undo brings an old text back under an old question. An answer is
known by the question it answers, by whether it is empty and by whether it names a
symbol. Every `setPolicy` effect clears the badge, as `riskField` does. `late` is a
history variable: an answer to an older question landed on the suggestion now shown. The
module's specification, type invariant and tuple of variables carry the word `Editor`,
because `WebviewProofs` extends this module together with `ChatStream`.

**ApprovalLifecycle.** `transitionStatus` is one atomic compare-and-set, guarded by the
status and, where given, by the action and the generation; a read before it is a step of
its own wherever the caller keeps what it read. What it keeps is a copy, as the Redis store
returns it. `InMemoryJobStore.getJob` returns the live record (`InMemoryJobStore.ts:647`), so
that with that store a stop compares with the action id of the moment
(`GenerationJobManager.ts:3826`). The two differ only if the job is resumed and pauses again
between the look and the attempt, where the code in memory has no I/O to wait for. `mirror` is `pendingActionId`, which
holds the private id `Pausing(a)` from the pause to the save of the unfinished response.
A run may die anywhere, in particular between pause and save. `due` and `lapsed` stand
for the two clocks, the barrier's lease and the action's expiry. A stop reads and retries
up to `MaxAttempts` times, as `abortJob` does.

**EventReorder.** Events are numbered as they are emitted and a message is an event: a
coalesced frame is unpacked at ingress. Scripts and the GET of the counter run in the
order in which they were issued; what they publish arrives in any order, or never, and
the promise of a command may reject whether or not it ran. The subscriber's attachment is
a sequence of awaits (`ready`, `fence`, `sync`, `check`, `live`), between which everything
else goes on. `hist` remembers what went wrong, for the properties: lost, refused,
unanswered, skipped by a force flush, passed over by a trusted counter, cut by an
attachment that came when an overflowed early buffer could no longer be replayed and the
generation was over. `EmitDone` issues the batch that is left and DONE in one step: the
code awaits the flush before it publishes DONE (`RedisEventTransport.ts:1091`), nothing else
is emitted in between, and the status fence that could refuse the batch is left out
(section 6).

### Abstract specification

`RunLifecycle` states what the code keeps, unconditionally, of the life of a run row. A
cancelled run never gets the verdict or the error of its own prove; a run that has either
is never marked CANCELLED; an error is never replaced by the prove's verdict; only a
complete run is pruned, and for good. `LocalProve` implements it under the mapping
`status <- row.status, verdict <- row.verdict` (`KeepsLifecycle`), with uploads into the
run, statements that fail before or after the commit, pruning and a crash.

The comment of `RunStatus` (`schemas/enums.py:9`) promises more: PENDING, then COMPLETE
with a verdict or CANCELLED with none, both final. That does not hold (section 4), which is
why the abstract specification has the steps `Upload`, from CANCELLED too, and `Fail`, from
COMPLETE too.

## 3. Runs

| Run | Checks | Instance |
| --- | --- | --- |
| `cancel_scope` | `SweptOnReturn`, `GroupsSwept`, `ContainersSwept` | two workers, both clients of a container, one of which forks; two cancels |
| `watch_session` | `RunsChain`, `CatchesUp` | three commits, two moves of HEAD, one start, two stops, three runs |
| `watch_restart` | `WatchingHasLoop`, `OnePerLoop`, `StopEndsLoops` | two starts and two stops, so that two loops coexist, and a move of HEAD for both to take; three runs |
| `watch_overlap` | `OneAtATime`, refuted | two starts, one stop, one move of HEAD, two runs |
| `local_prove` | `ProvedEndsTimeline`, `SeqStaysFree`, `OneIngest`, `KeepsLifecycle` | two pauses, two uploads, two cancels, failing statements, failures after the commit, crash, pruning |
| `bundle_store` | `OwnEvidenceKept`, `FitsAfterCommit` | five runs, two of them imports; three carry the same bytes, two have bytes of their own |
| `supervisor` | `OwnedGroups`, `SecondIsDropped`, `RespawnsSwept`, `CallIntegrity`, `DeathNoticed`, `ShutdownReturns` | two sidecars, two requests each, one caller beside start and monitor |
| `chat_stream` | `LedgerWhole`, `PublishedIsDurable`, `NothingLost`, `ExactWhenAlone`, `NoFalseAlarm` | one turn of two deltas, two sessions, one crash |
| `chat_live` | `StreamsEnd` | one turn of one delta, one session, one crash, one timeout, one retry |
| `approval` | `OneDriver`, `DecidedOnce`, `SavedBeforeOutcome`, `RequestsReturn` | two concurrent requests, two pauses, one replacement, three attempts of a stop |
| `inline_completion` | `ShownFits`, `BadgeIsItsOwn`, `PendingResolves`, `BadgeArrives` | two texts, two offsets, three questions |
| `event_reorder` | `TypeOK`, `NoDuplicates`, `NoSilentLoss`, `InOrder`, `StreamEnds` | four events, early buffer of two, reorder buffer of two, one rejected command, one lost message |

All of them pass but `watch_overlap`, whose counterexample is a finding: the code against
its own docstring (section 4). What each shows is what section 1 asks of its part, as far
as the instance goes; every property of a passing run has a mutant in `PROJECT.json`, a
plausible slip in the code that makes TLC refute it.

### Bounds, and why they are enough

- Two workers are needed for a kill of one to interleave with the spawn of the other;
  workers are spawned one after the other by one thread, so a third repeats the second.
  Both are in `Dockered`, so that two kill paths meet at one container while the other is
  starting; a worker without a container behaves as one that never asks for it.
  The theorems drop the bound.
- One start and two moves of HEAD let HEAD move at every point of an iteration and again
  in the next; two starts and one stop are the least that give two loops, and one move is
  enough for each of them to take a commit and prove it. `MaxRuns` is one more than the
  instance needs to catch up; `MaxStops` bounds the handler, not the loops. With everything
  at once, the state space is too large for liveness, hence two configurations beside
  `MCWatchOverlap.cfg`.
- Two pauses are the least for a pause to wait behind another and behind the coroutine;
  the second upload and the second cancel of `local_prove` find the first one's effect.
- Five runs, three of which carry the same bytes, are the least for a blob to be
  collected after it was committed again, to be counted as missing by the prune of a
  later ingest, and to be put back by an import before that ingest commits. With bundles
  of size one and two and a budget of two, every ingest of a second bundle prunes.
- Two sidecars are one start and one respawn; two requests are a timed-out call and the
  one that meets its late answer. `MaxCalls` also keeps a caller from taking the mutex for
  ever: `std::sync::Mutex` is not fair, and with unboundedly many calls no thread would be
  sure to get it.
- Two deltas are the least that can be merged, flushed apart, or fall on two sides of a
  page. Two sessions are the least for one to hear the other's poller. One crash puts a
  death and a reconciliation at every point of a turn.
- Two pauses and two requests let a decision on the first action meet the second one; a
  stop, a resume and an expiry meet in pairs. Three attempts are `abortJob`'s own bound.
- Three questions let an answer be overtaken by a newer one and that by a third.
- Four events are one more than either buffer holds plus DONE, so that both overflow, and
  enough for a coalesced pair, a chunk behind it and the DONE.

`CHECK_DEADLOCK FALSE` is used where the modelled thing ends: a prove, a run, a turn, a
generation, a finite set of ingests or requests. `WatchSession`, `Supervisor` and
`InlineCompletion` are checked for deadlock.

### Fairness

- `CancelScope`, `LocalProve`: none, and no liveness property. That a cancelled prove ends
  is not something the code guarantees: `proc.wait()` has no timeout (`runner.py:325`,
  `:449`, `:655`), and a mark that fails leaves the row as it is (section 4).
- `WatchSession`: weak fairness of every loop thread and of a `stop()` under way. A prove
  may run for ever, HEAD need not move, and the machine may stay on battery: `CatchesUp`
  assumes that it does not, and that the registry is empty again and again.
- `Supervisor`: weak fairness of the start thread, the monitor, a `shutdown()` that has
  begun and the end of a call that waits for its answer, which its timeout guarantees. A
  write is only sure to return when the sidecar's group is dead. The sidecar need never
  answer and never read, hence the condition `[]<>~Writing` of `DeathNoticed` and
  `ShutdownReturns`.
- `ChatStream`: weak fairness of the turn's thread, of the host's main thread and pollers
  (their calls have timeouts) and of the webview's handlers. Nothing makes a dead engine
  come back, and nobody has to close a stream.
- `ApprovalLifecycle`: requests are served, the lease of a barrier runs out, the periodic
  sweep runs. Runs are obliged to nothing, since their process may be gone.
- `InlineCompletion`: every call settles; `local_completion` has a deadline of its own
  and the risk lookup returns or fails.
- `EventReorder`: Redis answers, timers fire, a published message is delivered unless it
  is lost, an attachment that began goes on. Nothing makes the model emit or a client
  subscribe.

## 4. Where the promises end

### Sentences of the repository that do not hold as they stand

Each is stated as a definition of its module, and adding it to the named configuration
gives the counterexample. The second is the run `watch_overlap`; no run lists the others.

- `stop()`: "An in-flight prove is cancelled (L11) — Stop must mean stop, not "stop
  eventually"." (`watchsession.py:128`). `StopCancelsProve`, `MCWatchSession.cfg`:
  `stop()` reads `active_run_id` before the loop sets it; the prove is spawned
  afterwards and nobody cancels it.
- "it proves one commit at a time and never overlaps" (`watchsession.py:10`).
  `OneAtATime`, `MCWatchOverlap.cfg`: `start()` replaces the stop event (line 108), so
  after stop and start the old loop sees the new, unset event, goes on, and proves
  beside the new loop. For the same reason it may write `watching = False` into the new
  session's state. `OnePerLoop` is what remains: no loop proves two commits at once.
- `cancelRun`: "the prove thread unwinds into the CANCELLED state — no verdict claimed"
  (`routers/runs.py:242`). `CancelIsKept`, `MCLocalProve.cfg`: a cancel accepted after
  the last checkpoint (`localprove.py:207`) is followed by COMPLETE with a verdict.
- `RunStatus`: "PENDING (created) → COMPLETE (bundle ingested), or CANCELLED (the user
  stopped the prove — honest terminal state, no verdict ever claimed, L2/L11)"
  (`schemas/enums.py:9`). A bundle uploaded into a run that is being proved leaves its
  verdict on the row that `_mark_cancelled` then marks; a run cancelled between the status
  check of an upload and its write (`ingest.py:154` and `:165`) is completed by it. And
  `collect_garbage` and `record_run_aggregate` run after the commit of the ingest but inside
  the same `try` (`localprove.py:233`), so that an exception there lets `_mark_error` put ERROR over a
  committed verdict. Restrict `Upload`, `Fail` and `Cancel` of `RunLifecycle` to PENDING
  rows without a verdict, and `KeepsLifecycle` fails in `MCLocalProve.cfg`. What remains is
  `RunLifecycle` as it stands.
- "row and blob together, so every surviving run keeps its evidence"
  (`bundlestore.py:10`). `NoDangling`, `MCBundleStore.cfg`: a collector with old
  references (`bundlestore.py:158`) deletes the blob that a second run with the same
  bytes relies on. `OwnEvidenceKept` is what remains.
- `prune_over_budget`: "until the store fits the budget" (`bundlestore.py:101`).
  `FitsAtCommit`, `MCBundleStore.cfg`: a collection with old references unlinks a blob that
  a newer run relies on; the prune of the next ingest counts that blob as nothing
  (`bundlestore.py:54`) and stops early; an import of the same bytes puts the blob back
  before the ingest commits, and the store is over its budget although the newest bundle
  fits. It takes five runs, three of them with the same bytes. `FitsAfterCommit` is what
  remains.
- `shutdown()`: "After this returns, no process of the sidecar's group exists"
  (`supervisor.rs:307`). `ShutdownSweeps`, `MCSupervisor.cfg`: `shutdown()` finds the
  slot empty before `start()` has spawned (line 158), or while the monitor respawns
  (line 212); it returns and a sidecar lives on, in the first case for good. And it need not
  return: a sidecar that lives and does not read its input blocks the write of the shutdown
  request (line 326), or that of a call whose lock `shutdown()` waits for (line 260), so that
  the SIGKILL behind it is never reached.
- "a held push can only contain frames the page does not, and releasing the queue
  afterwards can neither duplicate nor lose" (`TempestSSE.ts:143`). `RenderedOnce`,
  `MCChatStream.cfg`: the poller of the session before checks its claim, then emits
  (`agent_chat.rs:652` and `:661`); its batch can reach the new session beside the page
  or after it, with a merged run of deltas that begins on the page. `ExactWhenAlone` is
  what remains of "duplicate": nothing is shown twice to a session that heard no poller but
  its own.
- The same sentence, "nor lose". A poller whose session was opened in an earlier turn keeps
  that turn's cursor (`after`, `agent_chat.rs:620`), while the frames of a new turn are
  numbered from one again. If it has checked its claim and not yet emitted when the next
  session asks for its page, its batch holds the end of the new turn without the beginning;
  with the final frame in it the session ends, and the frames between its page and that
  batch are never shown. It takes two turns and two sessions (`MaxTurns = 2`,
  `MaxDeltas = 1`, `MaxCrashes = 0`, `MaxSessions = 2`; drop `sse.heard \subseteq Peers`
  from `NothingLost`). `NothingLost` is what remains: a session that got its page and
  heard only pollers of this turn's sessions, its own or older ones, shows the whole turn
  when it ends on the final frame.

### Exemptions in the properties that are checked

Each stands for a behaviour of the code.

- `GroupsSwept` spares a worker whose leader exited by itself: `poll()` inside `cancel()`
  reaps it, and after the reap neither `cancel()` nor `_kill` signals the group, though a
  child may live in it (`cancel.py:64`).
- `ContainersSwept` spares a container that its only `docker kill` missed: the command failed
  and the failure is suppressed, or it came before the daemon had started the container
  (`sandbox.py:265`).
- `WatchingHasLoop` spares a loop thread that died: nobody catches an exception of
  `spawn_prove_thread` there (`watchsession.py:185`).
- `ProvedEndsTimeline` speaks of local verdicts. After `_mark_error`, which takes no
  ledger lock, a pause task may append its event after the error event
  (`localprove.py:269`).
- `SeqStaysFree` speaks of PENDING runs. `_mark_cancelled` and `_mark_error` may take the
  `seq` that a pause task has read; the task's insert then fails and the pause is lost.
- `KeepsLifecycle` is the refinement of `RunLifecycle`, which is weaker than the comment of
  `RunStatus`, as described above.
- `OneIngest` needs `EmptyBundles = FALSE`: the loser of a double submit dies on the
  unique target positions, which a bundle without targets does not have.
- `FitsAfterCommit` speaks of the sizes that the ingest's own prune counted, for the reason
  given above, and of referenced bundles. The blob of an ingest that rolled back
  or crashed is referenced by no row, hence neither counted nor collected
  (`BundleStore.gc` has no caller).
- `OwnedGroups` spares the child that `spawn_child` drops when a helper thread cannot be
  started (the `?` at `supervisor.rs:397`): an orphan that nothing sweeps. `SecondIsDropped`
  counts it, and says what it can be: when two sidecars live at once and neither is the one
  that `shutdown()` is ending, one of them is a respawn that was dropped in this way.
- `DeathNoticed` and `ShutdownReturns` assume that no write blocks for ever (`Writing`), for
  the reason given above.
- `OwnEvidenceKept` spares a run whose bytes another run may carry too, for the reason given
  above (`NoDangling`).
- `NothingLost` spares a session that heard a poller left over from an earlier turn, as
  described above, and one that ended before its page came.
- `NoFalseAlarm` spares a session that heard another session's poller: that poller's last
  batch may carry a verdict on the feed that the new session takes for its own
  (`agent_chat.rs:656`).
- `BadgeIsItsOwn` and `BadgeArrives` spare a suggestion on which a late answer landed
  (`late`): dropping a stale answer is itself a `setPolicy` effect and clears the badge
  of the suggestion on screen, and a stale answer that names no symbol puts its own
  "names no symbol" badge beside it. A record is never shown beside the wrong suggestion.
- `NoDuplicates` spares events whose publication ran and whose answer was lost
  (`RedisEventTransport.ts:424`): the producer cannot know their sequence, so that the
  replay cannot prune them.
- `NoSilentLoss` names the five ways in which an event may be missing: refused, lost by the
  channel, given up by a force flush, `passed` and `cut`. The last two need no fault. A first
  attachment with an empty early buffer trusts the counter (`RedisEventTransport.ts:634`),
  which may be past events still under way. And after the early buffer has overflowed, an
  attachment that comes while the generation runs is sent away to reconnect
  (`GenerationJobManager.ts:4530`); one that comes when the generation is over is not, and
  what was published below the counter it starts from does not reach it.
- `StreamEnds` spares a DONE that the channel lost after the attachment's one look at the
  stored terminal row: nothing tells the client later.
- `SavedBeforeOutcome` lets the sweep of stale barriers mark the job as failed while a
  slow writer still holds its barrier (`ApprovalLifecycle.ts:235`): the writer's own
  release then finds the job gone.

### Hazards seen and not covered by a property

- The process dies during a prove: the row stays PENDING and nothing at startup looks for
  it (`localprove.py:195`). The same when the statement of `_mark_cancelled` or `_mark_error`
  fails (`localprove.py:287`, `:300`). Both are in the model; that a cancelled run ends in a
  final state is therefore not stated.
- A cancel may be accepted when the prove is past its last look at the scope
  (`localprove.py:207`); the run then completes (`CancelIsKept` above).
- A worker that survives its kill, in uninterruptible sleep, holds the prove thread in a
  `proc.wait()` without a timeout (`runner.py:325`, `:449`, `:655`).
- Two imports of the same bytes may both look before either commits, and create two runs
  (`routers/runs.py:201`).
- Two collections may check and unlink the same blob; the loser raises
  `FileNotFoundError` (`bundlestore.py:161`).
- Runner workers are in sessions of their own (`execute/sandbox.py:115`), so that the
  sweep of the sidecar's group (`supervisor.rs:376`) does not reach them.
- A worker that misses a deadline is killed and respawned while its last line may still
  be in the reader's queue (`runner.py:320`); first on the plan.
- A document change while a question is pending counts it as stale, and its answer counts
  it again; the `.catch` of a failed question sets the policy to idle without looking at
  the generation (`inlineCompletion.ts`). Both are in the model; no property speaks of
  the `stale` counter.

## 5. Proofs

| Theorem | Statement | Assumptions |
| --- | --- | --- |
| `ScopeTypeCorrect`, `NoUntrackedWorker`, `CancelSweeps`, `CancelSweepsGroups`, `ContainersAreSwept` | `TypeOK`, `RunningIsRegistered`, `SweptOnReturn`, `GroupsSwept`, `ContainersSwept` | `ScopeAssumption` |
| `SupervisorTypeCorrect`, `CallsKeepStep`, `GroupsAreOwned`, `SecondSidecarIsDropped`, `RespawnRaceClosed` | `TypeOK`, `CallIntegrity`, `OwnedGroups`, `SecondIsDropped`, `RespawnsSwept` | `SupervisorAssumption` |
| `StoreTypeCorrect`, `EvidenceSurvives`, `NewestSurvives`, `CommitFits` | `TypeOK`, `OwnEvidenceKept`, `NewestKept`, `FitsAfterCommit` | `StoreAssumption` |
| `ProveKeepsLifecycle` | `Spec => KeepsLifecycle`, the refinement of `RunLifecycle` | `ProveAssumption` |
| `ProveTypeCorrect`, `TimelineEnds`, `SeqIsFree` | `TypeOK`, `ProvedEndsTimeline`, `SeqStaysFree` | `ProveAssumption` |
| `IngestsOnce` | `OneIngest` | `ProveAssumption`, bundles have targets (`EmptyBundles = FALSE`) |
| `WatchTypeCorrect`, `WatchedByLoop`, `LoopProvesOneAtATime` | `TypeOK`, `WatchingHasLoop`, `OnePerLoop` | `WatchAssumption` |
| `RunsFollow` | `RunsChain` | `WatchAssumption`, `MaxStarts = 1` |
| `CompletionTypeCorrect`, `SuggestionFits`, `BadgesAreOwned`, `RateBounded` | `EditorTypeOK`, `ShownFits`, `BadgeIsItsOwn`, `RateIsARate` | `AsksBound` |
| `ApprovalTypeCorrect`, `DrivenOnce`, `AnsweredOnce`, `PersistedFirst` | `TypeOK`, `OneDriver`, `DecidedOnce`, `SavedBeforeOutcome` | `ApprovalBounds` |
| `LedgerIsWhole`, `PublishedStays` | `LedgerWhole`, `PublishedIsDurable` | `ChatBounds`, `StreamBounds` |
| `StreamTypeCorrect`, `AloneIsExact`, `AlarmsAreTrue` | `TypeOK`, `ExactWhenAlone`, `NoFalseAlarm` (of `ChatStream`) | `ChatBounds`, `StreamBounds` |
| `TurnShownWhole` | `NothingLost` | `ChatBounds`, `StreamBounds` |
| `TransportTypeCorrect`, `DeliveredOnce`, `LossIsExcused`, `ClientInOrder`, `NothingStranded` | `TypeOK`, `NoDuplicates`, `NoSilentLoss`, `InOrder`, `NothingParked` | `TransportBounds` |

Each holds for every value of the constants that meets the assumption: any number of
workers, cancelling threads, callers, sidecars, requests, runs, pauses, cancels, commits,
questions, generations, turns, deltas, sessions and events. `RunningIsRegistered`,
`NewestKept`, `RateIsARate`, `NothingParked` and the type invariants of the modules other
than `EventReorder` are proved and not listed in a run.

The arguments:

- *CancelScope* (`IInv`). `SweptOnReturn` speaks of finished cancels only. While a
  `cancel()` is killing, the claim that carries it is `CancelShape`: every worker that
  runs, or whose group is alive and still signalable, is in its remaining snapshot or is one
  whose `register()` is under way. It survives
  a concurrent spawn because the flag is up before the snapshot and `register()` tests
  the flag after inserting; `ThreadShape` ties the lock and the worker in hand to the
  prove thread's place, and says that a zombie is registered too. With it,
  `RunningIsRegistered` is what makes the snapshot complete. For the containers, `BoxShape`:
  one that is up or coming up, or whose client could still ask for it, has its entry in
  `_CONTAINERS`, was missed, or has its kill under way, and the client of an entry is in the
  scope's registry, which is empty when the prove ends.
- *Supervisor* (`CInv`, `OInv`). `CallIntegrity` needs that the lock holder's call is the
  only waiting one, that it is on the sidecar in the slot, and that the stream's counters
  are ordered (`CallShape`). `OwnedGroups` needs to know who holds which child and that a
  slot is empty from the monitor's sweep to its store (`SpawnShape`, `HandShape`); for
  `RespawnsSwept`, `AfterTake` says that once `shutdown()` has emptied the slot only
  start's child, or one the monitor is about to re-check, can be in it. `DropShape`, for
  `SecondIsDropped`: a dropped sidecar is in nobody's hand, and after start's own was dropped
  no other is spawned.
- *BundleStore* (`IInv`). At most one ingest is between its first write and its commit
  (`WriterShape`); a digest on its way to a row has its blob (`BytesShape`); a digest
  being collected belonged to a run that is retired for good (`CandShape`). A run whose
  bytes nobody shares is therefore never the owner of a digest another run collects.
  `NewestKept` is an action property: what `prune_over_budget` is about to retire never
  includes the newest bearing run (`NewestSpared`), and no other step takes a digest away.
- *BundleStore's budget* (`FitShape`). Two facts carry `FitsAfterCommit`. The loop takes the
  prunable runs oldest first, so that what it takes is a prefix of them; had it stopped with
  the store over budget, the oldest one left would have to go too (`LoopStops`, with the
  extremal runs from `LeastRun` and `NewestExists`, each by a least counterexample). And
  from the count to the commit nobody else writes a digest, since the ingest holds the write
  lock, so that the commit finds the rows that were counted (`FitKept`, `OnlyCommitCollects`).
- *LocalProve* (`LInv`). As long as the coroutine may still claim its verdict or mark the
  run CANCELLED, nobody has claimed that verdict, failed or cancelled (`Claimless`): uploads
  may have come and gone, but they claim nothing for the prove. Where it may mark an error,
  the run is not CANCELLED. Each of these writes moves the coroutine out of the part where
  another of them could follow, but for the error after the commit, which `Fail` allows.
- *LocalProve's timeline* (`TInv`). Both properties rest on the ledger lock being first
  come, first served. `QueueFits`: the coroutine is last in the queue and there once, and
  whoever is about to insert is at its head. Hence what a writer read as `max(seq)` is
  still the maximum when it inserts (`SeqFits`), and when the coroutine ingests nobody is
  left behind it (`ProvedFits`).
- *LocalProve's ingest* (`IngestFits`). Whoever ingests after the first one finds its
  targets in the way, and rolls back. What has to be carried is that a run without targets
  has no ingest in its timeline: the two appear in one commit, and neither cancel, error
  nor prune takes the targets away.
- *WatchSession* (`WInv`, `LInv`, `SInv`). `WatchFits`: while the session says it is watching, the
  thread of the newest start is at a place from which it has still to unpublish before it
  ends. `OnePerLoop` holds for any number of starts: a loop whose prove of the present start
  still runs waits for it, or has seen the stop event and is on its way out (`LoopFits`),
  and a row about to be proved has no brother that runs (`SpawnFits`). With one start,
  `ChainFits` says that the last commit taken is the head of the newest run, except between
  the row and the update that follows it.
- *InlineCompletion*. Each property is inductive beside `TypeOK`. What is pending or shown
  was asked of the present text and caret, because every change of either sets the policy
  to idle in the same transaction; only the two `setRisk` dispatches add a badge and every
  `setPolicy` drops it; the rate counts a suggestion on screen as one acceptance still to
  come.
- *ApprovalLifecycle* (`IInv`). None of the three properties is inductive. `OneDriver`
  rests on `RunsFit`: once the job waits for review, the run of its generation is no
  longer executing, so that a resume adds the only one. The other two rest on the two
  names of an action (`ReviewFits`): the private one is there exactly as long as the
  barrier, nobody but the pausing run can match it (`RequestsFit`), and the public one is
  written after the save; an action under review has been answered by nobody
  (`AnswersFit`).
- *Chat turn* (`EInv`, over the whole of `ChatStream`, whose readers write to the store too
  when they reconcile). `StoreFits`: the store holds a prefix of one turn's frames, ended by
  a final frame exactly when its row is settled. `FramesFit` gives the shape of the frames
  in memory. `WorkerFits` relates the two at each place of the turn's thread: while the
  turn runs the store lacks exactly what is pending or in the batch of the commit under
  way; between the terminal commit and its publication it is one frame ahead of memory,
  which is why a crash there takes nothing back.
- *Chat stream* (`StreamInv`, `LInv`). `StreamInv` adds to `EInv` what the readers are:
  `TurnFits` and `HostFits` say that every batch can be sorted by sequence, that sessions
  call in turn, and that the open one has its call, its answer or its screen. While a stream
  is open its turn stays and the turn's body only grows (`Steady`), so that a frame read
  earlier is still a frame of the ledger. `LInv` carries the two properties. A page or a push
  is a `Chain`: coalescing loses no frame and shows none twice (`CoalescedChains`). The
  session's own pushes, held and in flight, are strung one behind the other from the end of
  the page or the screen to its poller's cursor (`Feed`, `LineFits`); nothing of that poller
  is under way before the page is (`UnheardFits`); a verdict without events comes behind the
  final frame or from trouble (`Verdicts`). `release` is handled by induction over the held
  pushes (`ReleaseTidy`), and the sort in `deliver` by a least counterexample
  (`SortedExists`).
- *Chat stream, whichever poller is heard* (`KInv`, on top of `LInv`). `NothingLost` speaks
  of a session that may also hear pollers of sessions before it, whose pushes do not start
  where its page ends. What they have in common is that none leaves a gap. A page is `Whole`:
  it covers every frame up to each of its events (`PagesWhole`). A push of a poller of this
  turn is `Grounded` on the page and on the pushes before it, and that poller's cursor lies
  within what is shown, held or under way (`FlowFits`). A session of this turn is opened
  after the turn's opening commit (`PeerFits`), and what its poller has read begins behind
  its cursor (`PeersFit`). `LineBound` keeps every push within the frames that exist; their
  number, `Reach`, only grows while the stream is open (`Onward`), so that what was read
  earlier stays a part of the turn. `deliver` drops an event only if one of the same
  sequence is on screen, and a whole screen covers all that lies below that
  (`ShownCovers`); `release` follows by induction over the held pushes. `EndFits` keeps
  the result once the session has ended. `Peers` is what makes this inductive: a poller
  of an earlier turn has a cursor that means nothing in this one (section 4).
- *EventReorder's order* (`OrderInv`). `PipeInv` describes the producer's side: the queue of
  commands is in the order of emission, sequences grow along it and stay below the counter,
  and a receipt tells the truth unless its answer was lost. `ClientInv` describes the
  subscriber: what it was given are the events replayed from the early buffer followed by
  sequences below `next`, the buffers hold only what is still to come, and everything below
  `next` that was not delivered is in one of the sets of `hist`. `NoDuplicates` and
  `NoSilentLoss` are parts of the invariant, `InOrder` follows from it. After an overflow the
  synchronisation either sends the client away, or every event has been emitted and what lies
  below `next` and was not delivered is in `cut` or `passed`.
- *EventReorder's timer* (`PInv`, `NumInv`). A message that is not next arms the timer unless
  delivery is deferred; one that is next releases at least itself, so that what is left
  was pending before and the timer with it; the end of an attachment re-arms. `NumInv`
  is what makes "next" meaningful: sequences are integers.

Model-checked only: all liveness (`StopEndsLoops`, `CatchesUp`, `DeathNoticed`, `ShutdownReturns`, `StreamsEnd`, `RequestsReturn`,
`PendingResolves`, `BadgeArrives`, `StreamEnds`), which is out of the proof system's
reach. Every invariant and every safety property of an action that a passing run checks is stated
by a theorem.

## 6. Abstractions

- Real time. Timeouts, polls, leases and backoffs may fire at any moment. The safety
  properties hold whatever the clock does.
- Payloads. A bundle is a digest with a size; a commit, a run id, an action and a request
  are values; events and frames are their kinds or numbers.
- The stdio server handles one frame at a time, so concurrent uploads or imports occur
  only under the HTTP server of the same application; both transports mount the same
  routes.
- `ChatTurns`: one stream id. Turns of other conversations appear as the eviction of a
  settled job. Agent steps, usage accounting and titles add frames and documents of other
  kinds and are left out.
- `InlineCompletion`: the editor is not destroyed while a question is open (switching the
  file does that, and ends the chains' effects).
- `ApprovalLifecycle`: one store, whose compare-and-set is atomic in both
  implementations. Steering messages, checkpoints and the transition to `error` from
  review without a failed barrier are left out.
- `EventReorder`: the first attachment of one subscriber. Resume attachments, further
  subscribers on other replicas, detaching during the attachment, the generation fences
  of the publish script and abort or preempt messages are left out.
- Runner workers are in sessions of their own (`execute/sandbox.py`). Neither
  `Supervisor` nor `CancelScope` alone can say what happens to them when the sidecar is
  killed: that is the first composition of the plan.

## 7. Plan

Done: cancellation scope, watch session, local prove with its abstract lifecycle, bundle
store, supervisor, chat turn and stream, inline completion, approval lifecycle, event
transport; inductive proofs about all of them.

Next, in this order:

1. `PersistentWorker` (`execute/runner.py`): boot, request, timeout, respawn, and the
   stale line in the reader's queue; `run_batch` on top. Property: an outcome is
   attributed to the input it was computed from. To be proved.
2. `ProvePipeline` (`prove.py`, `dual.py`): checkpoints, confirmation of a divergence on
   fresh pairs, aggregation of verdicts. Property: no divergence without a confirmed one;
   no clean verdict from inputs that did not run.
3. The composition of supervisor, scope and workers: who is alive after exit.
4. Resume attachments of the event transport, and the Redis job store's chunk log and
   snapshots they read from.
5. Pure algorithms against a reference: ddmin (one-minimality), framing, comparison.
6. The agent: parked approvals, stop and restart of a turn, the journal and turn log
   across a crash, undo.
7. The cost limit under concurrent calls, model downloads (resume, verify, publish), the
   worktree cache, schema migration with its backup.
8. The MCP client, the local model server, the language-server multiplexer, cloud sync.

Every safety property of the passing runs is proved; proofs to add come with these parts.
