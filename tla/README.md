# Specifications of ArcReel

ArcReel turns a novel into a video: a FastAPI server keeps projects, lets users
and an agent plan episodes and scripts, and has images, clips, voices and final
cuts generated by external providers that charge per call. The parts of it that
are concurrent, that survive crashes and partial failures, and that spend the
user's money or hold their text are specified here: the generation queue with
its worker and its batches, the selection of a generated video, the end of a
project, the sessions of the agent, and the source text with its episodes.

Paths below are relative to the repository.

| component | module | proofs | instance for TLC |
|---|---|---|---|
| task and call rows | `TaskQueue` | `TaskQueue_proofs` | through `GenerationBatch` |
| worker, recovery, resume, retry | `GenerationWorker`, abstract: `GenerationPromise` | `GenerationWorker_proofs` | `MCGenerationWorker` |
| batches of tasks | `GenerationBatch` (extends `TaskQueue`) | `ProjectTasks_proofs` | `MCGenerationBatch` |
| selection of a video unit | `MediaSelection` | `MediaSelection_proofs` | `MCMediaSelection` |
| end of a project, task claims | `ProjectRetirement` | `ProjectTasks_proofs` | `MCProjectRetirement` |
| the actor of a session | `SessionActor` | `SessionRuntime_proofs` | `MCSessionActor` |
| registry, creation, eviction | `SessionRegistry` | `SessionRegistry_proofs` | `MCSessionRegistry` |
| turns and statuses | `SessionTurns` | `SessionRuntime_proofs` | `MCSessionTurns` |
| queued messages | `QueuedMessages` | `QueuedMessages_proofs` | `MCQueuedMessages` |
| rewriting and deletion of sessions | `SessionRewrite` | `SessionRewrite_proofs` | `MCSessionRewrite` |
| ranges of episodes in the source | `SourceRemap` | | through `SourceFiles` |
| source files and episodes | `SourceFiles` | | `MCSourceFiles` |

One `.cfg` per run. `PROJECT.json` holds the components, runs, mutants, the map
from definitions to source lines, the hazards and the theorems.

## 1. Inventory

### Generation

**Queue rows** (`lib/db/repositories/task_repo.py`, `lib/db/models/task.py`).
State: one row per task with status (`queued`, `running`, `succeeded`, `failed`,
`cancelled`), dedupe key, dependency, provider, execution checkpoint, provider
job id; the `worker_lease` row. Operations: enqueue, claim, mark succeeded or
failed (with a cascade over queued dependents), cancel one or all, interrupt,
retry a download, put back, record provider / checkpoint / job id, acquire and
release the lease. Each is one transaction whose WHERE clause is its guard.
Hard: every guard has to hold against every other transaction. Correct when no
two unfinished rows share a key, dependencies are respected, nobody waits for a
dead task, and verdicts stand.

**Usage ledger rows** (`lib/db/repositories/usage_repo.py`, `lib/billing/ledger.py`).
Per provider call a row `pending`, `success`, `failed` or `cancelled`.
`Ledger.record` brackets the call; `finish_call` closes it without a status
guard, all other settlements touch pending rows only. Correct when a finished
task's call does not stay pending, and a success is not taken back.

**Worker** (`lib/generation/generation_worker.py`, `restart_recovery.py`,
`video_resume.py`, `media_generator.py`). State per process: lease ownership,
whether the start-up scan has been done, the capacity table, the slot table, the
row just claimed. One event loop: main loop and coroutines interleave at awaits;
all of it can die at any of them. After a restart, running rows with a
checkpoint and a job id are resumed and all others failed, never sent again.
Hard: lease expiry under a live process, the project's provider changing under a
claimed task, shutdown, a successor that knows only the database. Correct when
no task is submitted twice, no slot is leaked and no row is forgotten.

**Batches** (`generation_queue_client.py`, `generation_queue.py`,
`generation_batch.py`). Units of a request are enqueued one by one, each behind
the task of the unit it needs; a caller waits, leaves, cancels. Hard: two
batches meet in a unit; one of several enqueues fails; a wait is given up while
its task ends. Correct when units run in order, a cancellation is thorough, and
callers are told what became of each unit.

**Selection of a video** (`lib/artifacts`, `video_artifact_commit.py`). Formal
file, version history, manifest entry and script are separate writes under three
locks, each of which may fail and has a rollback that may fail. Generations,
restores, uploads and edits meet there. Correct when the four agree whenever the
locks are free, and nothing paid for is lost.

**Project retirement** (`project_retirement.py`, `project_archive.py`,
`project_records.py`, `task_project_claim.py`). A deletion or an overwriting
import moves the records of a project to a tombstone name, revokes the claims of
its running tasks, and takes both back when it fails. Hard: everything addresses
the project by its name. Correct when a retired project's tasks give up, and the
name is free of them afterwards.

### The agent (`server/agent_runtime`)

**Actor** (`session_actor.py`): the task around one SDK client, its command queue
and its message stream. Correct when every command is answered, in order, and no
frame is lost.
**Turns** (`session_manager.py`): status of a session in memory and in the
database, changed by requests, the inbox, timers and evictions. Correct when a
CLI at work counts as running and the database agrees with the session at rest.
**Queued messages** (same file): the tray of messages the CLI has not taken.
Correct when none hangs, none is processed twice or after its withdrawal.
**Rewrites** (`service.py`, `session_branch.py`, `session_repo.py`): a message is
rewritten in a branch that replaces its session. Correct when one timeline stays
and a refused rewrite leaves nothing.
**Registry** (`session_manager.py`, `service.py`): connection locks, capacity,
evictions, creation under a temporary id, client keys. Correct when a session has
at most one CLI process, none is lost, and a key has one first message.

Requests reach a session through the registry; the registry starts the actor;
the actor's frames feed the inbox, which settles turns and the tray; rewrites use
all of them. The models share the boundary (a command, a frame, a delivery) and
each leaves the others' inside out.

### Source text and episodes (`lib/episode`)

Files are edited, deleted, inserted, moved or changed outside the service;
the episodes cut out of them follow (`source_remap.py`, `source_file_changes.py`,
`episode_sources.py`). Correct when no text changes hands and nothing made of a
text outlives it unseen.

### Not modelled

Provider protocols, custom providers and ComfyUI adapters (HTTP and parsing),
prompts, speech, subtitles, exports, ffmpeg rendering (conversions), request
parsing of the routers, agent tools (contracts over the services), workflow plan
(a pure derivation with hundreds of rules over the shape of the data),
configuration, catalog, market, migrations of the schema, the front end and the
website. Candidates of later modules are listed in section 6.

## 2. How the models correspond to the code

A step is what one coroutine does between two awaits, or one transaction.
Everything else may happen in between. Outcomes of awaited calls are choices.
Data is reduced to what guards look at.

### TaskQueue

A task id is its place in `queued_at` order (a put-back row keeps its place, as
in `_requeue_single_task`). `status`, `key`, `dep`, `prov` are columns; `ckpts`
and `jobs` are the rows whose checkpoint or job id is set; `why` is the class of
`error_message` or `cancelled_by`, as far as a guard tells classes apart; `call`
is the status of the latest ledger row of the task. `late` is a history
variable: tasks enqueued behind one that had already failed or been cancelled,
which `enqueue` accepts without looking at the dependency and which nobody will
ever claim or cancel for that reason.

Each action is one transaction, guard and effect together. `Behind` is the
breadth-first walk of `_cascade_failed_queued`, written as the least closed set
so that it can be reasoned about. `RecordProvider`, `PersistJob` and `FinishCall`
have no status guard because the UPDATEs have none; `QueueNext` lets any of
them happen at any time, so the theorems hold for every caller.

### GenerationWorker and GenerationPromise

| model | code |
|---|---|
| `lease`, `Heartbeat`, `LeaseExpires`, `MayHold` | `acquire_or_renew_lease`, `_run_loop`; the wall clock is a choice, `Dead` is a lease whose holder is gone |
| `proc[p].scan`, `.lost` | `_orphan_handled_once`, `_lease_lost_monotonic`; whether three ttls have passed is a choice |
| `ScanList`, `ScanActive`, `FailOrphan`, `DispatchOrphan`, `ScanDone`, `Settle` | `handle_orphans`, one step per await, and `settle_interrupted_calls` |
| `proc[p].hand`, `Claim`, `ProjectProvider`, `RefuseLane`, `PutBack`, `Dispatch` | `_claim_tasks` and `_slot_provider` |
| `slots`, `Register`, `Vacated`, `Undrained`, `HasRoom`, `PoolFull` | `SlotTable`, `_pool_full_providers` |
| `proc[p].table`, `cfg.table`, `Reconfigure`, `ReloadLimits`, `Refreshed` | `CapacityTable`, the settings in the database, `reload_limits` |
| run coroutine, phases `exec` ... `quit` | `_process_task`, `_run_claimed_task`, `generate_video_async` |
| resume coroutine, phases `dispatch` ... `drop` | `dispatch_provider_bucket`, `_run_one`, `VideoResumeRunner.run` |
| `RunTornDown`, `ResumeTornDown` | the event loop cancelling what is left while the server stops |
| `Crash`, `StopSignal`, `StopDone`, `Start` | the process is killed; `stop()`; `_wait_inflight_completion` and the lease's release; `start()` |

A provider is charged at `Submit`; `submits` counts it. Two lanes (audio, text
and render tasks go through the claim loop like images and never have a provider
job), one project, capacity per provider and lane.

`GenerationPromise` has two variables, where the user sees the task and how often
a provider has accepted it. A task can go back in line only while nothing was
sent; it is sent at most once, while it runs or after its sender was declared
lost; it succeeds only from running; a failed task comes back only when it had
been sent. `PromiseKept` says every worker step is a promise step or leaves both
alone.

### GenerationBatch

Extends `TaskQueue` and uses its transactions. A unit is named by the dedupe key
of its task, so two batches requesting one unit meet in one active task
(`members` are the rows of `batch_tasks`, with `deduped`). `phase`, `at` are the
caller's place in `enqueue_units`; `report` is what it is told of each unit;
`open` are the waits that have read an unfinished task and now ask whether the
worker is online; `cancel` is a cancellation and its answer. `ReadFails` is a wait
that ends with an unexpected error (`_wait_one`'s `except Exception`), whatever
became of the task; `Misreads` are the batches that meet one. One enqueue and the
online check before it are one step; a timeout is a choice; conflicts, migration
and database failures are one nondeterministic failure. `BatchOrder` (each unit
once, waiting only for an earlier one) is what `generation_batch.py:77`,
`plan_asset_sheet_batch` and `build_storyboard_dependency_plan` ensure.

### MediaSelection

`formal`, `recs`, `cur`, `snaps`, `manifest`, `uri` are the formal file,
`versions.json`, the snapshot files, the manifest entry and the address in the
script; `adm`, `doc`, `ver` the admission, document and version locks, taken in
this order. Each write and each rollback write is a step of its own and may
fail; `damage` and `stuck` record what no handler repaired, as the code's
handlers log and give up there. `want` is the basis the unit has now.

### ProjectRetirement

One project name; directories have identities and `named` is the one that carries
it. `row`, `tomb`, `born`, `orphans` are the task rows, `revoked` is
`_revoked_task_ids`, `co` the place of the worker coroutine, `stale` those that
were claimed under the tombstone. `swap` and `backup` are the renames of
`_replace_project_dir`; `op` and `ids` the request and its `running_task_ids`.
`retired`, `restored` and `belated` are histories.

### SessionActor

`queue`, `getter` and `current` are `_cmd_queue`, `cmd_task` and the command
being dispatched; `reader`, `written`, `taken`, `delivered` the pump and the
stream; `cause` and `fatal` the error before and after it leaves the client's
context. `order` and `begun` are histories.

### SessionTurns, QueuedMessages, SessionRewrite, SessionRegistry

*Turns* follow one session id over its connections: the `ManagedSession` of each,
the epochs of `enter_running`, what the CLI holds, the frames read but not yet
settled, and the row. The commit of a write and the return of its coroutine are
one step. A request reads the row first (`ReadMeta`) and may connect much later,
after an eviction it waited for: a connection starts with what was read, and
`assumed` records those that run for no other reason. A request in `Repeats` may
find that its key was sent before and then delivers nothing (`Repeated`). Not in it:
creating a session, interrupts, what a turn cost.

*Queued messages* follow the tray of one session: keys, uuids, states, intents to
withdraw, the send lock with its FIFO of deliverers, what pages show. Requests of
the user are serialised by the admission lock as in `service.py`. Not in it: the
shutdown of the server, failing log writes.

*Rewrites* have rows with successor pointers, transcripts, logs, trays and
statuses; requests run step by step through `rewrite_message`, `send_message` and
`delete_session`, with the withdrawal of a branch as five steps over four stores,
none of which fails in the model. A message is named by the request that sends it.
A page addresses old sessions or branches it was answered with (ADR 0058).

*The registry* has `_sessions` (`reg`, `temp`), `_connect_locks` (numbered, since
an eviction throws a lock object away while somebody may wait for it),
`_disconnecting` (`evicting`, with the object it is about, `victim`), the processes
and first messages. A message is sent under the send lock of the object the request
got: it counts as running (`Send`), then its row is written and the actor takes it
(`Delivered`), or either fails (`WriteFails`, `Undelivered`), and who settles the
object then depends on whether it ran before and on the eviction (`Settles`). A CLI
that ends is noticed by the inbox later (`Exit`, `Settle`); an inbox may fail before
(`InboxFails`); an eviction disconnects, waits for the inbox and takes the id from
the registry in steps of their own. `runs` is the status in memory, by which
evictions choose; the row in the database and who writes it last are the matter of
`SessionTurns`, and retried keys of a message that of `QueuedMessages`. The
in-process map of client keys is a cache of the look-up in the log and left out.
A new session is addressed only after its request is over, and evicted under its
real id; the window between its row and its registration is described in section 5.

### SourceRemap and SourceFiles

`SourceRemap` is a module of operators, for `source_remap.py`: a cell of text is a
number of its own so that it can be followed, and the alignment of an old text
with a new one is the identity of cells (the code uses `difflib` on strings).
`SourceFiles` has the files, their fingerprints and snapshots, the ledger with its
ranges, the derived texts and the products, and the dialog in which the user
confirms what a command will do. A command is one step under the project lock.

## 3. Runs

| run | instance | asks | states |
|---|---|---|---|
| `restart` | one server, an image and a video that may wait for it, pools of one, 3 coroutines, 1 restart, fairness | no row is left without an owner, slots are kept, every row and call moves | 0.11 M |
| `retry` | one video, providers `a` (can resume) and `b`, 2 restarts, 1 expired lease, 1 retry, 1 change of the project's provider, video taken out of the settings | the ledger is settled, recorded jobs can be resumed, successes stay, the promise | 1.18 M |
| `overlap` | two servers, one task, 3 coroutines, 1 restart, a lease that expires under its holder | one submission, one worker of a task in a process, what waits is free | 0.38 M |
| `batch` | 3 units, 4 rows, two batches that meet in a unit: `a` waits and may leave, `b` stops at its first failure and may be cancelled; 1 put-back, 1 crash, the worker offline, a failing look at a task of `a`, at most 2 of these together | rows are sound, units in order, thorough cancellation, true answers | 0.71 M |
| `media` | 2 generations, a restore, an upload, 2 bases; 1 edit, 2 failing writes, 1 crash, at most 2 of these together | file, history, manifest and script agree; what is paid for stays; only what is current is selected | 0.92 M |
| `retirement` | 2 tasks, a deletion, an import over the project, a creation, 2 directories, 1 trouble, one request at a time, fairness | claims follow the records, the name is free, every task ends | 0.45 M |
| `actor` | 2 queries, a withdrawal, a disconnect, 2 frames, fairness | nobody is forgotten, streams are kept, one answer each | 0.09 M |
| `turns` | 2 senders, one of which may repeat a key, 2 connections, an own turn of the CLI, 1 trouble, fairness | work counts as running, the database agrees, runs end | 0.57 M |
| `queue` | 2 messages, 4 requests of 5 kinds, 1 trouble, fairness | the tray is true, messages are taken once, nobody is stuck | 0.30 M |
| `rewrite` | two attempts of one rewrite, another rewrite, a message, a deletion, 3 kinds of anchor, 1 trouble | no message in a hidden session, one timeline, a withdrawn branch leaves nothing | 0.63 M |
| `registry` | an old session, 3 requests to it or to a new one, 2 attempts of one creation, at most 3 of these (2 beside a round of the patrol or a stop of the server), room for one, 1 trouble | one process per session and none lost, true records, running sessions spared | 0.58 M |
| `sources` | 112 ways to cut a small text in two; two of them with 3 changes, commands or not | episodes agree, no text changes hands, nothing goes unseen | 0.15 M |

"A trouble" is one of the faults of the module (a failing write, an exit, a
crash, a time-out); where the bound is two, they may fall on each other's
handlers, which is how far the code's own handlers go. Capacity one makes each
decision on a pool a boundary case; the second task is what a slot, a lane, a
dependency or a name is contended by; two processes with one task are enough for
two workers to meet on a row; two batches need three units to meet in one and
still have an order; four requests on two messages include each pair on one and
a bystander. `MaxBegun` bounds how many requests of a run start, the sets are
larger so that all combinations of that many occur. Symmetry is used in `media`
(generations, bases) and `registry` (requests), where no constant or property
tells the elements apart and no liveness is checked.

`batch`, `retirement`, `actor`, `turns`, `queue` and `sources` turn the deadlock
check off: there the system really stops once all requests are over and nothing
is left to happen. In the others something can always happen, and a run would
show a state where all wait for all.

**Fairness.** `GenerationWorker`: weak fairness per process for the main loop, for
starting a stopped server and finishing a shutdown; per coroutine for its next
step; for the lease of a dead process running out. `ProjectRetirement`: of
claiming, of each task's steps, of the request's steps. `SessionActor`: of the
pump, the getter and the dispatcher. `SessionTurns` and `QueuedMessages`: of
requests, the inbox, an eviction under way, and of the CLI working on what it
holds. It is weak because each of these is enabled until it is taken: asyncio
runs every ready task, polls of a provider have a `max_wait`, semaphores and
locks are released in `finally`, FIFO locks are handed on, and a supervisor
restarts the server (`restart: unless-stopped` of the deployment files). Nothing
is assumed of users, crashes, time-outs or of which answer a provider gives.
`QueuedMoves` excuses states with a `late` task, which really is stuck for good.

## 4. Proofs

A run looks at one instance; the theorems hold for every number of tasks,
processes, coroutines, batches, sessions, requests and commands and for every
value of the bounds. What is assumed of the constants is named in the modules
that declare them: that markers such as `None` are not values, that bounds are
naturals, that a resumable provider is a provider, that a rewrite points at
something (`Anchors # {}`), that there are client keys (`Keys # {}`), that a
batch's order is one (`OrderIsSound`).

| module | theorems |
|---|---|
| `TaskQueue_proofs` | `TypeCorrect`, `OneActive`, `DependenciesHold`, `NoDeadWait`, `VerdictsHold`, together `RowsSound` |
| `GenerationWorker_proofs` | `WorkerTypeCorrect`; `WorkerIsQueue`: `WorkerSpec => QueueSpec`; hence `WorkerKeepsRows`, `WorkerKeepsVerdicts`; `SubmittedOnce`: `AtMostOneSubmission`; `QueuedCostsNothing`: `QueuedIsFree`; `JobsCanBeResumed`: `JobIsResumable`; `PromiseIsKept`: `GenerationWorker` implements `GenerationPromise`; while nothing is retried `OneWorkerWithoutRetry`: `OneWorkerPerTask`, and `SlotsWithoutRetry`: `EveryCoroutineHasItsSlot`; `LedgerSettled`: `LedgerIsSettled`; with one server process `NoOrphanWithOneServer`: `OwnerLeavesNoOrphan`, `SuccessKeptWithOneServer`: `SuccessIsKept`, and, with fixed limits and no retry, `SlotsKeptWithOneServer`: `SlotsAreKept` |
| `ProjectTasks_proofs` | of `GenerationBatch`: `BatchIsQueue`: `Spec => QueueSpec`; `OrderKept`, `CancelThorough`, `AnswersTrue`, `BatchKeepsRows`; of `ProjectRetirement`: `ClaimsAgree`, `RetiredTasksGiveUp`; of one request at a time `NamesAreFree`, `RetirementsDecide` |
| `MediaSelection_proofs` | `SelectionHolds`: `SelectionAgrees`; `PaidStays`: `PaidResultStays`; `OnlyCurrent`: `SelectsOnlyCurrent` |
| `SessionRuntime_proofs` | of `SessionActor`: `TypeCorrect`, `NobodyForgotten`, `SettledOnce`, `CommandOrder`, `FramesDelivered`, together `StreamsKept`; of `SessionTurns`: `WorkInvHolds`, hence `TurnsTypeCorrect` and `WorkRunning`: `WorkIsRunning`; `CalmInvHolds`, hence `StatusTrue`: `StatusIsTrue` |
| `QueuedMessages_proofs` | `MessagesInvHolds`, hence `MessagesTypeCorrect`, `TrayTrue`: `TrayIsTrue`, and `TakenOnlyOnce`: `TakenOnce` |
| `SessionRegistry_proofs` | `ProcessesKnown`, `RecordsTrue`, `RunningSpared` |
| `SessionRewrite_proofs` | `RewriteTypeCorrect`; `HiddenSessionsAreSilent`: `HiddenIsSilent`; `RetriesFindTheirBranch`: `RetryFindsItsBranch`; `KeyedMessageIsOnce`; `RefusedBranchIsGone`; where no session is deleted `WithdrawnCompletely`: `WithdrawalIsComplete`, and `ConversationIsOne`: `OneConversation` |

**The rows.** The type invariant and `OneActivePerKey` are inductive as they
stand: only `Enqueue` and `RetryArtifactDownload` make a row active, and both
look at the key. `DependencyRespected` needs that a succeeded row never leaves
that status, which is the first part of `Verdict`. `CascadeComplete` needs two
strengthenings: rows ended by `EndWithCascade` include *every* queued row behind
them (lemmas on `Behind`: what it contains is queued, and it is closed), and a
queued render has no dependency (`RenderStandsAlone`), without which
`CancelAllQueued`, which skips renders and does not cascade, would leave a render
waiting for a cancelled task.

**The worker implements the queue.** `TypeInv` adds two facts without which a
step of the worker would not be a transaction of the queue: a task the scan has
put aside for a resume is on record with its provider (`ReadyIsKnown`), and a
coroutine that is about to fail its task knows why (`WhyIsKnown`).
`MildSimulation`, `PlainSimulation` and `QueueSimulation` say which steps of the
worker are which transactions, from the harmless ones to all.

**Submitted once.** The invariant is one of ownership (`HolderInv`): no task is
in two hands, in two runs, or in a hand and a run; a task in a hand, or in a run
before its billing bracket, has no call row; one in a run before its submission
has not been submitted; an untouched task has neither, and nobody holds it. Six
kinds of step move ownership, one lemma each; `QuietStepKeepsHolder` covers all
others. That a scan may declare a held task lost does not disturb it: only the
retry of a *recorded job* brings a failed task back.

**The promise.** `Send` requires that the task is running or failed when it is
submitted: `JobInv` says that whoever is about to submit has a task in one of
these states, that resumes and the scan's list hold recorded jobs only, and that
a recorded job was submitted from behind a checkpoint. A resume's verdict then
cannot hit a task that somebody is still about to submit.

**Slots, and two workers on one task.** While nothing is retried (`MaxRetries = 0`),
however many processes there are, `SlotInv` is inductive: no two coroutines of one
process that still need their slot work on one task (`OneSlotted`), and what a scan
has put aside for a resume is not in the process's table (`ReadyIsFree`), because
scan, hand and coroutines of a process are looked at in one pass of its loop
(`HandIsLaned`: a hand is full only while the loop is in a lane). Resumes keep their
slot until they end, so the table is what scan and claim may go by. The hypothesis
is needed: a retried download asks no slot table (section 5, *Worker*).

**The ledger.** `LedgerInv` needs no hypothesis: a pending call has a coroutine that
will settle it whatever answer comes (`Answers`: a run in its billing bracket, a
resume that has not looked up its call or found it pending), or there is a process
that will come to it (`Due`): one on its way down, which scans when it is up again,
or one that has not scanned yet, does not work on the task and has not left it out.
An argument about one process would not do: while one scans, another may bring the
task back and die over it, and then the dead one is the one to wait for.

**One server process.** `OneServer` says that the set of processes has one member,
which is how the application is deployed (one uvicorn process, `Dockerfile:83`; ADR
0007, `docs/adr/0007-orphan-tasks-not-requeued-on-restart.md:16`, rests on it);
crashes, stops, restarts, expiries of the lease, retries and changes of provider and limits are those of the specification.
`OneInv` then is inductive. A run is alone with its task, its task is running and its
call pending while it is in its billing bracket (`RunIsSole`); a running task nobody
tends is a stray, and the process has still to scan and will find it
(`StrayIsScanned`). With a second process both properties fail: it takes over what a
slow one is still working on (section 5).

**The pools.** `SlotsAreKept` asks three hypotheses, those of the run `restart`: one
server, no retry, and limits that stand (`LimitsStand`: the settings hold the built-in
table). TLC violates it without any one of them: two processes that rescan run more
resumes than a pool has room for, a retry asks no pool, a smaller table is below what
was dispatched before. Under them `PoolInv` is inductive. A pool is filled by two
gates that do not know of each other, the slot table for runs and the semaphore of a
scan's group for resumes, so the argument is about *when* each is open: a process
that scans has no runs (`ScanIsFirst`, since the one server never loses its lease,
`LeaseIsKept`), hence all its resumes are of one group (`ResumeIsGrouped`) whose
semaphore bounds those past it (`BegunFit`); and once it scans no more, a run is
dispatched only where the resumes leave room, which counts the waiting ones too
(`RunsFit`).

These proofs share one lemma each for what a step may do to a coroutine
(`CoroutinesMove`), a row (`RowsMove`), a call (`CallsMove`), a slot table
(`SlotsMove`) and a process (`ProcessesMove`), and argue by these alone.

**Batches.** A batch is a caller of the queue, so `BatchIsQueue` carries the
queue's invariants over. `BatchInv` adds what ties the batch to the rows:
`OneTaskPerUnit` (a unit's row has the unit's key, so two batches meet in it),
where the caller stands in its order, and `CancelInv` for a cancellation between
its transactions. `CreatedRunsInOrder` follows from the dependency a created row
carries and `DependencyRespected`; rows a batch only joined are exempt, because
there the code drops the dependency (section 5).

**Selection.** One invariant (`MediaInv`) for all four kinds of actors and every
fault. Its core is an argument about the lock of `versions.json`: while an actor
holds it nobody else touches file, history or manifest (`LockGuards`), and the
actor's locals name a whole selection that a rollback leads back to
(`ChangeStands`, `CopyStands`, `RejectionStands`, `UploadStands`). What an actor
remembers *without* the lock, between commit and finalization or between asking
for a restore and doing it, are version numbers. They stay valid because a
rollback only takes back what the same upload has appended under the same lock:
such versions are not `Kept`, all others are, and what is kept is never changed
(`HistoryKept`). A paid medium that is the formal file, or that a rollback may
make the formal file again, has a kept version (`PaidIsKept`), hence
`PaidResultStays`. The address in the script is written outside that lock, so
`AddressStands` says what it will be once the holder of the *admission* lock has
finished or gone back. Each conjunct has a lemma for a step of any actor;
`EditKeeps` and `CrashKeeps` are the environment. The exemptions of the properties
(a rollback or compensation that failed as well, a crash in between, an upload
for the address) are those of the run: the theorem adds no hypothesis.

**Retirement.** `RetirementInv` (the type, `ClaimInv`, `InheritsNothing`) holds of
any number of overlapping requests. The claims live in memory and the records in
the database; what ties them is the retirement's transaction, between whose ends
no row changes its status, so what it revoked at its start is what its end moves
or gives back (`OpenRetirement`). `NameIsFree` and
`RetirementDecides` need that requests about the project do not overlap: a
creation could take the name between a deletion's two steps. This is the
hypothesis `[]OneRequest`, as in the run; it says what one user does, and
`SerialInv` is the strengthening under it.

**The actor.** `Inv` is the type with `HeldOnce` (a command is in one of the
queue, the getter, the dispatcher, or settled) and `Hands` (what getter and
dispatcher hold at each point of the loop); from it `NobodyIsForgotten` is
inductive although the actor may end at each of its awaits. `OrderInv` splits the
history of commands into those begun and those in the queue, in that order.

**Turns and statuses.** `WorkIsRunning` is about the idle that is settled late.
`WorkInv` keeps it out: epochs only grow, an idle carries the epoch at which it
was read, so the idles in an inbox are of the present epoch at most (`IdlesBelow`),
and of an earlier one while the CLI works, since every turn begins with a new
epoch. It also says who may be where (`Places`): only the live connection has an
actor that is up, an eviction is of the live one, one request at a time is under way;
and that no inbox holds a last notice while its actor is up. What each action does to a connection
is stated once (`Becomes`, one `Moves` lemma per action), so that the two
invariants read the same facts. It holds through crashes, failed writes and
evictions; `WorkIsRunning` excepts only a delivery that could not be written, whose
error may hit a turn that began meanwhile. `StatusIsTrue` is
about the end of a race of four writers: the request, the inbox, the settling and
the eviction. `CalmInv` says of each state in which the status of the row is not
the session's that a writer is still to come, and of each writer that is to come
that nobody writes after it what is older: a request before its `running`
(`Served`), an inbox that settles or resumes (`Lively`, `Quiet`), a busy notice,
before which every idle is of an earlier epoch (`BusyBehind`), an eviction in its
last write. At rest there is no writer, so the two agree.

**Queued messages.** `TrayIsTrue` and `TakenOnce` look at states in which nothing
moves, or at histories; `MessagesInv` says what holds while everything does. A
delivery is known by its uuid, the message with the number of the delivery, and has
one place: nobody's, while a coroutine has it in hand or the message is unsent
(`Placed`), or the CLI's, or a frame's on its way back, or a turn's (`Flows`). A
frame of an earlier delivery settles nothing, because its uuid is not the
message's any more (`Subject`); of the present delivery the frame `started` comes
before any other, so what entered a turn is still in the tray only until the inbox
logs it. Who delivers holds the send lock, whose queue has each of the two
coroutines once (`Locked`), and before the actor there is one query and one cancel
at most (`Commanded`), each of a coroutine that waits for it (`Paired`). `Keyed` ties tray,
keys and log: a key names the one message of the tray that has it, and a logged
message has left the tray; so a retry after an exit, when the tray moves to the new
connection, finds one or the other. `Wished` is what makes a withdrawal final: when
the CLI has answered that it gave a message back, nobody can have delivered it
again, since the inbox would have needed the lock the request holds, or has seen
the intent; and where an actor ends in between, the answer is an error (`Closed`).
No conjunct asks which fault has happened, so the theorems hold for any number of
exits, refusals, evictions and failed writes together; only that the page shows the tray
(`Paged`) is said as long as no actor has ended, which is the condition the
property itself has.

**The registry.** A lock is thrown away only when nobody holds it, so whoever
holds one holds the *current* one (`LocksStand`), although waiters may have an old
one; behind the lock there is no process until its holder registers its own
(`RegisteredStands`), so a second cannot start; a new session is nobody else's until
its request is over (`RequestInv`). An eviction ends one process (`EvictionsStand`:
it stays its victim until the end, and a request that evicts waits for it), and what
leaves the registry then is that process or one registered meanwhile, which
`strays` records. For what counts as running: one message at a time is on its way to
an object, and one that found the object idle is to settle it when it fails
(`DeliveriesStand`); so an object whose inbox has ended can run only while such a
delivery is under way or an eviction has begun, since the next sender cannot find it
any more (`Usable` asks for the actor). The failed inbox is the exception, and the
only one.

**Rewrites.** All of it rests on where the branch of a rewrite can be known
(`BaseInv`): its id was given to nobody else, no page addresses it before it was
answered with it, and a message of a rewrite is in the session that replaced the
old one only. What one step may do to a request, a row, a queue, a log, a
transcript and an agent is stated once each (`EveryoneMoves`, `RowKnown`,
`TrayKnown`, `TurnKnown`, `TextKnown`), and four invariants follow. `SilenceInv`:
from the look at its queue to the pointer the admission lock of a session is its
rewrite's, and a message that was admitted keeps its session unhidden; hence
`HiddenIsSilent`. `KeyInv`: the attempts of one key run one at a time, the first
session is hidden behind the one that has their message, and an attempt that
passed its look at the row found none; a deletion takes the message with the
session. Hence a retry finds its branch and the message is in one session.
`BranchIsQuiet`: nobody writes to a branch that is not handed out, and what was
withdrawn of it does not come back. `PointerInv`: without deletions a pointer is
what a rewrite wrote, and only its origin has it. `WithdrawnCompletely` needs that
hypothesis: a deletion that has read a successor may hand it on after the
successor went (section 5, `session_repo.py:122`). In the run a deletion meets one
rewrite at most, which is too few for that.
`TimelineInv`, under the same hypothesis: a branch has a greater id than its
origin and a pointer leads to a row that is there, and from the publication of a
branch on its origin is hidden behind it, until the server stops. Hence
`ConversationIsOne`. That of two sessions of one conversation the older is hidden
is an argument about chains of any length, by the least session for which it would
fail (`WFMin`): the younger one has an origin that is hidden behind it, and the
older one is that origin or, by the induction, hidden behind something up to it
(`OlderIsHidden`; `RootIsDefined` and `RootIsBefore` for the recursive `Root`).

**Only model-checked.** All liveness, and everything about `ENABLED`, which the
prover does not reach. `SourceRemap` and `SourceFiles` compute over sequences of
cells with folds and recursion, where a proof for every text would be an
induction over data.
With deletions
`OneConversation` and `WithdrawalIsComplete` are checked only, where a deletion
meets one rewrite at most.

## 5. What is left out, and where code and documents disagree

Left out beyond section 2: failing writes of the worker's main loop and terminal
updates (they end the worker or leave the row to the next start); prices,
durations, prompts, files; calls without a task; older ledger rows of a task.
`UriFollowsSelection` is stated while no upload began, `DeletedNameIsFree`
exempts tasks enqueued behind the retirement, crashes, and overwrites that failed
after the directory was moved; `SparesRunning` exempts the patrol;
`RunningIsServed` exempts a session whose inbox has failed, `OneProcess` and
`NoLostProcess` the `strays`; `AnswerIsTrue` says nothing of the task of a unit whose
wait an error ended; `EveryRunEnds` and `DatabaseAgrees` exempt a session that
runs because a stale row said so; a failure inside the withdrawal of a branch is not
modelled, only a stop of the server between its steps; the runs of the rewrite let a
deletion meet one rewrite; `OneTimeline` assumes no stop of the server between
the row of a branch and its pointer. Most of these exemptions are places where the
code does not do what its comments say. They were met while modelling:

* *Worker.* A retried download asks neither its pool nor the slot table: it runs
  beside a full pool, and the start-up scan may resume the same job a second time
  (`retry_artifact_download`). A process that dies between closing the call as
  failed and failing the task leaves a task the next start lands without a
  pending call to settle. `CapacityTable.from_env()` stands until somebody saves
  provider settings. ADR 0006 calls the source of an interruption `user`, the
  code `interrupted`. A second process that takes an expired lease, claims and
  dies within three ttls leaves its row running until the next restart, so
  `OwnerLeavesNoOrphan` is asked of one process.
* *Batches.* `task_repo.py:277`: a unit that joins an active task drops the
  dependency the batch resolved for it. `generation_queue_client.py:620`: a unit
  enqueued behind a task that has just failed waits for ever, and its batch is
  never `done`. `generation_queue_client.py:817`: any other error while a wait polls
  is told as `failed`, and `record_batch_outcomes` (`generation_result.py:1014`)
  passes it on as such, although the task may be running and succeed: the blind retry
  that the comment at :807-810 wants to prevent. `generation_queue.py:604`: a cancellation cascades to units that
  only another batch asked for.
* *Selection.* `reference_videos.py:800`: the upload takes no admission lock, so a
  generation that committed before it writes its video's address beside the
  uploaded video.
* *Retirement.* `formal_write.py:72` looks at the claim before it waits for the
  lock, so a revoked task may write into the project imported meanwhile.
  `projects.py:1183` retires the records before it removes the directory, so a
  task enqueued in between starts in a directory half deleted.
  `project_archive.py:2233` restores claims before it renames the directories
  back, so a running task can make the directory anew and the rename fails.
  `project_manager.py:508` tells a new project of the same name by a file
  `create_project` writes last.
* *Actor.* `session_actor.py:208`: a command taken in the turn in which the actor
  ends gets `_ActorClosed` in place of the exception.
* *Turns* (`session_manager.py`). :1421 a delivery enters `running` after the inbox
  has stopped, for good; :1448 a failing write of `running` puts a turn that began
  meanwhile into `error`; :408 an idle read between the last `enter_running` and
  the delivery settles a CLI that holds a message; :1430 a request that waited
  through an eviction revives the old object's status; :2017 an exit during an
  eviction leaves `running` in the database. `service.py:298`: the row is read before
  a request waits for an eviction, so a session that was settled meanwhile is revived
  as `running` over an idle CLI; when the first write of `running` then fails
  (`abandon_running` finds no idle of this connection), or the key was sent before
  (:1384), it stays so until a message is sent or it is closed, which the comment at
  :2009-2011 says the last write of an eviction prevents.
* *Queue* (same file). :1641 a delivery that fails after an eviction puts its message
  back on the pages only; :1572 a click on a withdrawn message is answered
  `accepted`; :1640 the intent to withdraw outlives the delivery it was about.
* *Rewrites.* `service.py:544` and `:554`: a branch is listed before its first
  message, so another page may write to it or branch from it, and a withdrawal
  deletes what it wrote. `session_repo.py:122`: two deletions may leave a pointer
  to a row that is gone. `service.py:524`, `:598`: a question asked, or an anchor
  not yet written, is noticed after the turn has been interrupted. `:533`: a stop
  of the server there leaves the origin hidden.
* *Registry.* `session_manager.py:2100`: the patrol evicts the object that has
  taken the place of the one it looked at; :2056 capacity is checked but not
  reserved; :2288 a new session is listed before it is registered, and a request
  in that window starts a second CLI, which is the window the registry's model
  excludes; :971 a creation that times out leaves `running` in the list;
  `service.py:376` a retry is answered with a session that was torn down; :2021 the
  end of an eviction takes whatever is registered under the id by then from the
  registry, also the process of a request that came after the start of the evicted
  one had failed, and that process runs on unknown (the `strays`); :1421 a message to
  a session whose inbox has failed makes it running for good, and so it keeps its
  place in a full house.
* *Sources.* `source_remap.py:217`: text at the beginning of a file, where two
  episodes meet, goes to neither. `source_file_changes.py:442`, `:510`: a change
  looks for changes outside the service in one file only, so an episode whose
  other file was shortened loses text, or keeps a range in a file that is gone.

## 6. Plan

Further modules: the event log (gapless numbers under racing appends, idempotent
keys), the episode ledger and its migrations of derived texts, the staged swap of a
project's directory under crashes at each rename, the timeline of the final cut,
formal scripts and their review.
