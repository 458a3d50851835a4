# runroot in TLA+

runroot runs durable workflows: a run is an ordered list of steps whose state
is persisted at every step boundary, so that it can pause for an approval,
resume, be retried and be handed to a worker through a queue. This directory
models that machinery in TLA+, checks it with TLC on small instances and proves
part of it with TLAPS for every size.

Paths below are relative to `src/`.

## 1. The system

| Component | State it keeps | Operations |
| --- | --- | --- |
| Run and step model (`packages/domain`) | none: pure functions and two status tables | `transitionRunStatus`, `transitionStepStatus`, `advanceRunCursor`, the snapshot constructors |
| Runtime engine (`packages/core-runtime/src/runtime-engine.ts`) | none between calls; one call keeps the run snapshot it read, the latest checkpoint and where it is | `createRun`, `executeRun`, `queueRun`, `resumeRun`, `queueResumeRun`, `pauseRun`, `decideApproval` |
| Runtime store (`packages/persistence`: `runtime-store.ts`, `database-store.ts`) | run row, event log, checkpoints, approvals | `commitTransition`, reads; in memory, in a locked file, in SQLite, in Postgres |
| Dispatch queue (`packages/dispatch`, `packages/persistence/src/dispatch-store.ts`) | job rows | `enqueue`, `claimNext`, `complete`, `fail` |
| Worker (`packages/sdk/src/worker-service.ts`, `apps/worker`) | the job it holds | `processNextJob` in a polling loop, signals |
| Operator service (`packages/sdk/src/operator-service.ts`), behind the HTTP API and the CLI | none | `startRun`, `resumeRun`, `decideApproval`, and some seventy handlers of the audit catalog |
| Tool invoker (`packages/tools`, `packages/sdk/src/tool-telemetry.ts`) | tool history rows | `invoke`, with a permission gate and observers |
| Audit catalog (`packages/replay`, fourteen stores in `packages/persistence`) | saved views, catalog entries, visibility, review signals, assignments, checklists and eight layers of checklist items on top of each other | get, list, set, clear per layer; publish, share, unshare, archive, apply |
| Timeline and audit projections (`packages/replay`) | none | from events and tool history to views |
| HTTP API, CLI, web console, configuration, observability, templates, MCP adapter | none of interest | parsing, routing, rendering |

Interaction. The operator service and the workers each own a `RuntimeEngine`
over a shared store. An operator request either executes a run in its own
process (inline mode) or enqueues a job and marks the run as queued; a worker
claims the job, reads the run and calls the engine. The engine calls the step
functions of the workflow, and these call tools.

What is hard about it. Every engine call reads the run once, keeps the snapshot
over all its awaits and writes the whole snapshot back with each commit; a
commit is atomic but compares nothing, so calls that overlap overwrite each
other. Processes die between two commits. A commit can be rejected in the
middle of a step's completion; worse, on Postgres a commit can be stored and its
answer lost, and `withPostgresTransaction` throws in both cases: the engine, the
worker and the catalog then act on an error about something that was done. Workers race for jobs in two SQL statements with
clocks that disagree. A request is itself several steps (create, enqueue,
queue), and a worker can be faster than it. A request on the catalog walks down
up to fourteen layers, one read at a time, before it writes one record, and
nothing keeps the layers from changing meanwhile. A tool's work and the row that
tells of it are two steps. Every store of the catalog is written four times
over (memory, file, SQLite, Postgres), each with its own queue, lock or
transaction and its own migration of the shared database. A view joins four
reads made at different times and orders what it found by the clocks of several
processes. The hazards, each at its line, are in `PROJECT.json`.

What makes each part correct:

- *engine*: the row is always a well-formed snapshot; no commit is a transition
  the tables forbid; an approval is decided once; log, checkpoint, approvals
  and row tell one story; a step gets the attempts its policy allows; an ended
  run is not touched; a call settles its run.
- *queue*: a job has one holder; a settled job stays settled; jobs are settled.
- *file and SQLite store*: one process writes at a time; nothing stored is
  lost; what was reported as done is stored; readers always find a whole file.
- *Postgres store*: the rows of a run are those of one commit as a whole; an
  acknowledged commit stays.
- *audit catalog*: what a layer holds was taken from the layer below; a record
  is shown to, set and cleared by those it is meant for; an entry has one owner
  and only he decides about it; an archived entry stays archived; a request
  breaks only where something beneath it was lost.
- *catalog stores and tool history*: every operation is atomic, whatever the
  driver and however many handles and processes share the data; every table
  exists before it is used; every call ends.
- *tool invocation*: the history never tells what did not happen, and a result
  is handed out only once it is recorded.
- *views*: a view is not behind the row it shows, and what it links to exists.
- *operator and worker together*: one worker per run; no run is left waiting or
  running that nobody knows about; a rejection is final.

## 2. Modules

| Module | Models | Built on |
| --- | --- | --- |
| `Domain` | `packages/domain`: tables, snapshots, pure functions | |
| `RunStateMachine` | the abstract specification: the lifecycle a run promises, one table transition at a time | `Domain` |
| `RuntimeEngine` | the engine with its store, any number of calls in flight | `Domain`; instantiates `RunStateMachine` |
| `MCRuntimeEngine` | driver symmetry for TLC | `RuntimeEngine` |
| `RuntimeEngineProofs` | proofs about the engine, with any calls in flight and with one at a time; the refinement of `RunStateMachine` | `RuntimeEngine` |
| `DispatchQueue` | the queue and the workers' polling loop | |
| `DispatchQueueProofs` | proofs about the queue | `DispatchQueue` |
| `AtomicStore` | the abstract specification: commits stored one after the other, none lost | |
| `FileStore` | the file-backed stores: lock file, temporary file, rename and its fallback, crashes, failing operations | instantiates `AtomicStore` |
| `FileStoreProofs` | proofs about the file store, the refinement included | `FileStore` |
| `PostgresCommit` | `commitTransition` on Postgres, statement by statement | |
| `PostgresCommitProofs` | proofs about overlapping Postgres commits | `PostgresCommit` |
| `QueuedExecution` | operators and workers over one engine and one queue | instantiates `RuntimeEngine`, `DispatchQueue` |
| `QueuedExecutionProofs` | proofs about the services together; the refinement of `RuntimeEngine` | `QueuedExecution`; instantiates `RuntimeEngineProofs`, `DispatchQueueProofs` |
| `AuditViews` | timeline, audit view, cross-run summary, drilldowns and links, read while the services run | `QueuedExecution` |
| `MCAuditViews` | worker symmetry for TLC | `AuditViews` |
| `AuditViewsProofs` | proofs about views and links | `AuditViews`, `QueuedExecutionProofs` |
| `CatalogLayers` | the fourteen layers of the catalog: records, resolution for a viewer, items against the layer below, errors | |
| `AuditCatalog` | the requests on the layers, read by read | `CatalogLayers` |
| `MCAuditCatalog` | symmetry of items and entries for TLC | `AuditCatalog` |
| `AuditCatalogProofs` | proofs about the catalog: types, provenance, archives, owners; that requests stay within what their operator is entitled to; internal errors and entries without an owner | `AuditCatalog` |
| `AtomicRecords` | the abstract specification: calls on a set of records, each with one moment at which it happens | |
| `RecordStores` | the protocol all record stores follow, in memory, file, SQLite and Postgres, with migrations and crashes; the refinement of `AtomicRecords` | instantiates `AtomicRecords` |
| `CatalogStores` | the fifteen store modules, one by one | `RecordStores` |
| `ToolInvocation` | tool calls, their observers and their history, over the stores | `CatalogStores` |
| `MCToolInvocation` | the setups TLC starts from | `ToolInvocation` |
| `ToolInvocationProofs` | proofs about all record stores and the history of tool calls, the refinement included | `ToolInvocation` |

### RuntimeEngine

One run; its row is `run`, its events `log`, its latest checkpoint `checkpoint`
and its approvals `approvals`: together the store. `call[d]` is the engine call
of driver `d`: the operation, where it is (`pc`), the local snapshot `snap`, and
the step whose checkpoint payload the loop still holds (`loaded`).

A `pc` names the await the call is at, so one action is the code from one await
to the next: the entry (`requireRun` and the checks on the row), `ReadPending`,
one action per commit, `RestoreCheckpoint`, and `StepReturns` for the step
function, which may ask for an approval, pause, complete or throw. Each commit
writes row, events and checkpoint in one step, as `commitTransition` does. An
event is its name, its step and its status; outputs, errors and times are left
out. `NumSteps + 1` as a cursor is the code's index past the last step.

Faults are actions: `Crash` drops a call's local state between any two awaits;
a commit that raises an error was rolled back (`CommitRejected`) or was stored
and lost its answer (`AnswerLost`). So every commit is split into what it stores
(`StoreAwait`, `StoreComplete`, ...) and how its call goes on when the answer
arrives. Inside the try block of `runLoop` the error is handled as a failure of
the step (`commitStepFailure` with the old snapshot), elsewhere it ends the call
(`Raises`): also in `succeedRun`, whose promise the try block returns without
awaiting. `failures` counts the commits that raised, `lost` those of them that
were stored.

Details that are easy to miss and that the model has: `decideApproval` writes
the run it read even when the decision is "approved"; `queueResumeRun` returns
the run unchanged unless it is paused, but throws first when an approval is
pending; a step that was "running" when its driver died makes the next
`executeRun` throw at the head of the loop, so such a run never ends; a retry
is started at once, its delay is only recorded.

### DispatchQueue

`jobs` are the rows in insertion order, `worker[w]` where the polling loop of
`w` is and the job it is about. A claim is two actions, the SELECT and the
conditional UPDATE of one READ COMMITTED transaction; the in-memory queue and
the SQLite one, which do both at once, are the behaviours in which nothing
comes between. A job's stamp and the claimer's clock are independent. Faults:
a worker stops (crash or signal), a queue operation throws, rolled back
(`QueueRejects`) or stored (`QueueAnswerLost`). A complete that throws makes its
worker fail the job, any other throw ends the worker's loop (`Throws`).

### QueuedExecution

Operators are drivers of the engine and so are workers. A request of
`startRun` is `StartRun`, `EnqueueStart`, `QueueRun`; one of `resumeRun` is
`ResumeRun`, `ReadPending`, `EnqueueResume`, `QueueResumeRun`; between any two
of them others may act and the process may die. A worker's job is `Claim`,
`GetRun`, the engine call, `WorkEnds`, `Settle`. Engine steps are those of
`RuntimeEngine`, queue steps those of `DispatchQueue`: nothing is restated.

### FileStore

`file`, `temp` and `backup` are the store's file, `<path>.tmp` and
`<path>.bak`; `lock` says whether `<path>.lock` exists. The content of a file is
the sequence of the transitions in it: what one transition does to rows is
`RuntimeEngine`'s business. `client[p]` is one store object, whose access queue
lets one call through at a time, with the program counter of that call between
the file operations of `withFileLock`, `withMutablePersistence` and
`writeRuntimePersistenceSnapshot`. The SQLite store has the same shape: it reads
the database file, runs the transaction on the copy in memory, exports it and
replaces the file in the same way (`withSqliteClient`,
`writeBinaryFileAtomically`).

`writeFile` is two steps, so that a crash can leave half a temporary file.
`rename` onto an existing file may replace it or be refused, each time anew.
`OperationFails` makes any operation throw, with the catch of the fallback;
`Crash` drops a client where it is and leaves its lock file behind, after which
every later call times out. Failures of the lock file's own removal are left
out.

### PostgresCommit

`rows` are the committed row versions of one run, each with its key, its
sequence number and the transaction that inserted it; `tx[x]` is a commit: the
statement it is at, what its four SELECTs found, the rows it is to write, the
versions it has deleted and inserted. A SELECT is one step with its own
snapshot; a DELETE is two, the snapshot and the moment when none of its rows is
locked; rows that are gone by then are skipped, new ones not seen. INSERTs wait
for conflicting rows of others and violate the unique indexes of
`migrations.ts`. Waits, collisions and deadlock detection are PostgreSQL's,
taken from its documented behaviour and marked external. A DELETE and the
INSERTs of a table are taken as a whole: a statement that waits half way holds
the locks of no row in the model. `Fails` is a failing statement, a lost
connection, or a lost answer to COMMIT.

### CatalogLayers and AuditCatalog

A layer is a number, from the saved view (0) to the signoff of checklist items
(13); `row[l][e]` is the record of entry `e` in the store of layer `l`.
`CatalogLayers` translates `packages/replay` layer by layer: the record a layer
creates, when it resolves for a viewer given that the layers below do
(`resolveCatalog...View` and `...FromValue`), how its items are compared with
those below (`normalizeChecklistItem...Items`), and what the operator service
makes of the error messages (`normalizeCatalog...Error`: it recognises only the
messages of the layer that was set, an error from further down passes as an
internal one).

`AuditCatalog` gives every request a walk: `req[o]` is what operator `o` asked,
the layer it reads next (`at`) and the items it has read (`got`). `Walk` is one
read of a store; `View`, `ClearEnds`, `set...` and so on are what happens when
the walk is through. A save or delete is the same step as the decision before
it where nothing is awaited in between; the walk before it is not. Where the
record that is saved is made of the one it replaces, reading that one is a step
of its own, and `found` keeps it until the save: the owner record
(`setCatalogVisibilityState`, `saveCatalogVisibility`) and the entry to be
archived (`archiveCatalogEntry`, `saveArchivedEntry`). A list reads its own layer
first and then walks for each entry. `publishCatalogEntry` saves the entry and
then sets its visibility as any other request does: it walks to the entry, reads
the owner record and saves one. `StoreThrows` rejects an access; a rejected save
may have been done (`Reported`); `Dies` ends a request with its process between
any two steps. `ever`, `entitled` and `cut` are history variables: what a layer
has ever held, what an operator was entitled to at some moment of his request,
and the entries whose publishing came to no end.

`desk` keeps this checkable: a behaviour is about a few neighbouring layers, and
the walk reads the others, which nobody writes, together with the one above. A
behaviour starts from a stack filled up to some height by `Filled`, a state the
same requests produce, or one up to the catalog entry only: a legacy entry
without an owner (ADR-0017), which nobody is shown and which becomes the entry of
whoever shares it. One request per operator is in flight. Entry ids are random in
the code; an entry is known to all once it is saved and its publisher is no
longer busy with it, be it that he is done, that a store threw or that he died.

### RecordStores, CatalogStores and AtomicRecords

`packages/persistence` has fifteen store modules that differ in table, file and
operations and repeat everything else. `RecordStores` models what they repeat,
with the source lines of the blocker store; `CatalogStores` says of each module
which steps its objects make, with that module's lines. `disk` is what is
stored (the applied migrations and the rows), `lock` the lock files, `ready[p][s]`
the `schemaReadyPromise` of the handle of store `s` in process `p`, `queue[p][s]`
its `accessQueue`, `call[c]` the call of `c` with the image it has read.

A file store reads its whole file and writes it back under its lock file; the
SQLite form does so with the one database all stores share. Replacing a file is
one step here, `FileStore` is about its inside. Postgres is a SELECT, a write
that waits for the row, and COMMIT, whose answer may be lost. A handle migrates
on its first call: under the lock in SQLite, in one transaction in Postgres,
where two that run at once collide and the loser's promise stays rejected.
`Dies(p)` takes calls, promises and queues of a process and leaves its lock
files.

`AtomicRecords` is the specification all of this implements: a call asks, is
applied at one moment or not at all, and returns only if it was applied.
`Abstract` in `RecordStores` is the refinement mapping.

The directory of a file is taken to exist, and failures of the removal of the
lock file are left out, as is an error EEXIST of the work under the lock (the
code would take it for a lock file in its way and do the work again).

### ToolInvocation

`invocation[c]` is the stage of a tool call, `told` what its step was told,
`ran` the calls whose tool did its work. Saving a history entry is a call of the
tool history store, awaited before the invocation ends. A success whose entry
cannot be saved throws inside the try block, so `saveFails` saves it once more,
as failed. The step of a workflow calls again after an error, up to
`MaxAttempts`. Others use the catalog's stores meanwhile (`requestCatalog`), in
the same process or in another one.

### AuditViews

Adds to `QueuedExecution` what the views join by: the clock that stamped each
event, the worker named in each job, and the tool history. `view` is a view in
the making: the run row is read first (`listRuns`, `requireRun`), then events,
jobs and history in no order, and the view is projected in the turn its last
read arrives. Tool history is read together with the jobs, since no property
relates the two; each attempt of a step calls one tool, recorded before the
step returns; approval ids are positions in the log, one approval at a time
being pending, and are carried by the request, the decision and the cancellation
of the run that a refusal brings (`readApprovalId` takes the id from any payload
that has one); times are ticks of the log, ahead by a skew when a worker stamped
them, and job times are left out. `MaxDelay` bounds the steps of the services
between two reads.

## 3. Runs

Bounds are constants in the cfg files; each caps a counter in the guard of the
action that increments it.

| Run | Question | Bounds |
| --- | --- | --- |
| `engine_sequential` | With one call at a time, do row, log, checkpoint and approvals agree, through a crash and commits that raise, stored or not? Do completed steps stay completed as long as no commit raises? | 2 steps (one gated), 2 attempts, 6 calls, 1 crash, 2 commits that raise |
| `engine_concurrent` | With two calls at once, which promises survive? | 2 steps, 1 attempt, 2 drivers, 3 calls, 1 crash, 1 commit that raises |
| `engine_lifecycle` | Does the engine implement `RunStateMachine`, and does every call settle its run? | one driver, 5 calls, pauses and 2 crashes, no commit that raises; fairness |
| `queue` | Are claims exclusive, and who touches a settled job? | 3 workers, 2 jobs, 2 clock values, 2 stops or operations that throw |
| `queued_one_operator` | One operator, no faults: one worker per run, rejections final? Does a view read meanwhile agree with itself, and do its links keep leading somewhere? | 2 workers, 2 jobs, 3 requests, 1 gated step; clocks up to 4 ticks ahead, 6 steps between two reads |
| `queued_faults` | After a crash or an operation that throws, stored or not, does a run left running show in its jobs? Is every job settled, its run executed included, unless its worker dies? | 1 operator, 2 workers, 2 jobs, 3 requests, any one fault (`MaxFaults`); fairness |
| `queued_stranded` | *violation*: a run can stay queued for ever with its job completed | 1 operator, 1 worker, 1 job |
| `file_store` | Does the file store implement `AtomicStore`, and is the lock released? | 3 clients, 3 transitions, 1 crash, 1 failing operation; fairness |
| `postgres_commit` | What do overlapping commits leave behind, and do they all end? | 3 commits (one asks for an approval, one decides it), 1 failing statement; fairness |
| `postgres_lost_commit` | *violation*: an acknowledged commit can be overwritten | 2 commits, no failure |
| `audit_catalog` | While two requests overlap: are items traced to the layer below, records shown and set for those entitled only, do owners and archives last, and what can make a request break? | 3 operators (two in one scope), 2 entries, 2 items, 2 requests, 1 rejected access; 12 desks |
| `tool_history` | Do all stores implement `AtomicRecords` on every driver, does every table exist in time, does every call end, and does the history of tool calls tell the truth? | 2 callers in one process or in two, 14 catalog stores and the tool history, 2 attempts, 1 crash or failing write; 2 tasks for one store, from an empty database, 1 for the others, from databases of earlier releases (up to migration 0003, 0015 or 0016); fairness |

Two steps are enough for "the step before", "this step" and "the next step";
two drivers for every pairwise race, and the proofs cover the rest of
`RunWellFormed` and `TransitionsAllowed`; two attempts tell "retried" from
"given up"; three workers let one worker's stale selection meet another's
settled job; three commits are the least that deadlock on Postgres (one that
missed its rows, one that holds them, one that made them appear). `queued_faults`
has one fault per behaviour, of any kind (`MaxFaults` bounds all kinds together),
which is what its liveness property can be checked with; `StalledRunHasJob` is
proved for any number of faults. `MaxCalls` in the queued runs is larger than what
the other bounds allow, so it never binds.

Two requests on the catalog are every pair of a
request and one that gets between its reads; a desk holds the layers between
which they can meet, and an item layer alone on its desk repeats, over layers at
rest, what its neighbours show in pairs. Every property of this run is also proved,
for any number of requests (section 5). One store is run with two tasks from an
empty database, where everything can meet everything (migrations, queues,
locks, transactions); the others repeat its code.

The type invariants of engine and queue and the mutual exclusion of the file lock
are not in these runs, since they are proved; that of the Postgres commit is left
out.

Deadlock is not checked: every instance stops when its bounds are used up, and
a finished run is a proper end.

Fairness. `RuntimeEngine`: weak fairness of `Advance(d)`: a call in flight is a
chain of promises that the event loop settles, and step functions return.
`QueuedExecution`: also of `Handle(o)`, the steps of a request under way, and of
`Work(w)`: the worker loop polls again after every job and every `pollIntervalMs`
(`apps/worker/src/index.ts:41`). `FileStore` and `PostgresCommit`: weak fairness
of the steps of a call that is under way (file operations and statements return,
the server detects deadlocks). `ToolInvocation`: weak fairness of `Works(c)`,
the steps of a call under way, the timeout of its wait for a lock file included.
Nothing is assumed of crashes, rejected operations, restarts or new requests,
nor of the lock's retry loop against its timeout.

The one-call-at-a-time properties of `engine_sequential` really need that
premise. `pauseRun` is left out of that run's operations because pausing a run
that `queueResumeRun` has queued saves a checkpoint without a payload, after
which the gate asks for its approval a second time; `engine_lifecycle` and
`engine_concurrent` have it.

Each property has a mutant in `PROJECT.json`: a definition of the model with a
plausible bug (commented "Mutant" in the modules) that breaks it.

## 4. Findings

- `queued_stranded` (`packages/sdk/src/operator-service.ts:1688`).
  `docs/guides/queued-execution.md:14` promises that request processes need not
  stay alive for a run to finish. The job is enqueued before `queueRun`, whose
  write can follow the whole execution: the run ends as queued, without a job,
  and `resumeRun` returns queued runs unchanged.
- `postgres_lost_commit` (`packages/persistence/src/database-store.ts:253`).
  ADR-0004 adopts an immutable event log as the source of truth. On Postgres a
  commit reads the run's rows without a lock and writes all of them back: a
  commit that ends in between was acknowledged and its events are deleted. What
  does hold is checked by `postgres_commit`: the rows never mix two commits, and
  a commit that no other overlapped is kept. In the single-process stores the
  same two calls are serialised (`file_store`).

Met while modelling and visible in the models; most contradict no sentence of the
repository, and none has a run of its own:

- A call that read the run before a rejection writes it back as running
  (`runtime-engine.ts:544`): `RejectionCancelsRun` holds for one operator with
  his workers (`queued_one_operator`) and is not claimed for overlapping calls
  on one run.
- `completeStep` commits twice inside the try block (`runtime-engine.ts:743`):
  when the second commit raises an error, the step is put back and run again.
  `CompletedStaysCompleted` is therefore about behaviours in which no commit
  raised.
- An approval request inside that try block may be stored while the answer to its
  COMMIT is lost. The error is taken for a failure of the step: the run goes on, or
  fails, and the approval stays pending, though ADR-0006 has a waiting run be a
  paused one. What holds until an answer is lost is `PendingBlocksRun`;
  `LogTellsSnapshot`, `OneWorkerPerRun` and `RejectionCancelsRun` have the same
  premise, for the same reason.
- A job whose `complete` was stored but threw is failed by its own worker
  (`worker-service.ts:173`, `dispatch-store.ts:354`): `SettledIsFinal` allows
  this change of a settled job and no other.
- A rejected approval can be summarised as cancelled: `run.cancelled` carries the
  id and the time of the decision, and random ids decide which of the two events
  is the last (`audit.ts:286`, `runtime-engine.ts:272`). `ApprovalsShownInOrder`
  says that one of them is shown, and nothing else.
- Between the two renames of the fallback a reader of the file store finds no
  file, and takes the store for empty (`runtime-store.ts:533`, `594`).
- A checklist that is cleared or shrunk makes the records above it unreadable,
  for a list as a whole; setting the layers again from the bottom up mends it
  (`CrashOnlyAfterLoss`).
- An owner record is read before it is saved (`query.ts:876`, `902`): two operators
  who share an entry without a record - a legacy one, or one whose publishing was
  cut off - both create one, and the second replaces the first, though the error
  at line 883 says that only its owner updates a record. `OnlyOwnerDecides` says
  what holds: every entry that was published to its end keeps its owner, and one
  that was not does so as soon as nobody is about to save another.
- A save that fails between entry and owner, or an operator process that dies
  there, leaves an entry nobody can be shown (`OrphanOnlyWhenCutOff`).
- On Postgres a handle whose first use coincides with another's on a database
  to be migrated is refused until its process is restarted
  (`RejectedByTheOther`, a part of `SchemaReady`).

## 5. Proofs

`RuntimeEngineProofs` proves, from `DomainAssumption` and `EngineAssumption`
only (any number of steps, attempts, drivers and calls):

- `TypeCorrect`: `Spec => []TypeOK`;
- `RunAlwaysWellFormed`: `Spec => []RunWellFormed`;
- `AssertionsNeverFire`: `Spec => []TransitionsAllowed`.

`RunWellFormed` is not inductive: a commit writes a snapshot derived from the
*local* one, so the row is well formed only if every call in flight holds a
well-formed snapshot in which what its `pc` is about to do is allowed. The
invariant `IInv` is therefore about the row and about every call at once, and
says for each `pc` what run and step status the local snapshot has. It holds
without any agreement between calls, which is why overlapping calls cannot
break it: each overwrites a well-formed snapshot with a well-formed one. There
is one lemma per action, and under it one step for the row and one for the call
that moved.

It goes on to prove, for any number of drivers,

- `ApprovalsDecidedOnce`: `Spec => []DecidedOnce`;
- `EveryStatusWasLogged`: `Spec => []StatusTold`, the log has an event with the
  status of the row: a commit that changes the status logs it, and one that
  writes back what its call has read finds the event of that time still there;

and for a run driven by one call at a time, `OneAtATime` (any number of steps,
attempts, calls, crashes and commits that raise an error):

- `PendingApprovalBlocksRun`: `Spec => []PendingBlocksRun`, until the answer of a
  stored commit is lost;
- `CheckpointPointsAtCursor`: `Spec => []CheckpointAtCursor`;
- `LogIsSourceOfTruth`: `Spec => []LogTellsSnapshot`, under the same premise;
- `AttemptsAreAccounted`: `Spec => []AttemptsAccounted`;
- `CompletedStepsStay`: `Spec => CompletedStaysCompleted`;
- `EngineImplementsLifecycle`: `Spec /\ [](failures = 0) =>
  ImplementsLifecycle`, the refinement of `RunStateMachine`;
- `NeverAskedTwice`: `Spec => []AskedAgainOnlyAfterFailure`, if `pauseRun` is
  not among the operations.

`OneAtATime` is what these properties need, not a convenience of the proof:
`engine_concurrent` leaves them out because two overlapping calls break each of
them: TLC finds behaviours of two calls that do. The premises of the last two are
those of the runs that check them: a second commit of `completeStep` that raises takes a completed step back, and
a pause of a queued run makes its gate ask twice.

`SeqInv` says for every `pc` how the call's snapshot is related to the row
(`Follows`): they are the same, except between the two commits of a completed
step (the row is then one step ahead) and after the second was rejected. With
that, what a commit appends to the log is about the row it replaces, so that
`Account` (replaying the log gives the row's statuses, starts and retries)
survives every commit; the lemmas about it count in an appended sequence, one
event at a time. `AskInv` adds, for `NeverAskedTwice`, that where the cursor
stands either no request is unanswered or the checkpoint carries its payload
(`AskedUpToCursor`), and that a call about to run the step has loaded it
(`Remembers`).

`DispatchQueueProofs` proves, from `QueueAssumption` only:

- `TypeCorrect`: `Spec => []TypeOK`;
- `ClaimsAreExclusive`: `Spec => []ClaimsExclusive`;
- `SettledJobsStay`: `Spec => SettledIsFinal`.

The argument: the conditional UPDATE is the only way to hold a job and it needs
a queued row; only a holder writes a row back, and to a settled status; so a
job is claimed once and its holder is unique. A holder whose `complete` was
stored and threw still holds the completed job, and is the one who may fail it.

`FileStoreProofs` proves, from `FileStoreAssumption` only (any number of
clients, transitions, crashes and failing operations):

- `TypeCorrect`: `Spec => []TypeOK`;
- `LockIsExclusive`: `Spec => []OneHolder`;
- `StoredIsReadable`: `Spec => []ReadersSeeStored`;
- `FileStoreIsAtomic`: `Spec => ImplementsAtomicStore`, the refinement of
  `AtomicStore` under the mapping `Stored`.

The refinement needs to know, for the client inside the lock, that its content
is what is stored with its transition appended (`Knows`): so the step that
moves the temporary file in is `Store`, whichever branch of the replacement
does it, and every other file operation leaves `Stored` alone. `Settled` (a
missing file has no backup) is what a client may rely on when it enters; it is
lost only between `SetAside` and `MoveIn`, by a client that holds the lock, and
a client that dies there leaves the lock behind.

`PostgresCommitProofs` proves, from `PostgresAssumption` only (any number of
transitions and of failing statements):

- `RunRowsAreOneTransaction`: `Spec => []RunIsWhole`;
- `CommitAloneIsKept`: `Spec => []KeptUnlessOverlapped`.

A transaction may read each table from a different commit, and it replaces the
rows it saw, not those there are; why do the rows never mix? `ReadInv`: each
table read is the work of one transaction and numbered without a gap, so what is
applied and written is a whole run again (`AppliedWhole`). `DeleteInv`: the
DELETEs start with the events, so a transaction that has deleted the committed
start of the log (`HoldsLog`) has found and deleted the other tables of the same
commit too, as nobody can commit over it meanwhile: a second holder of a row is
excluded by the locks (`Exclusive`). And the INSERT of the events, the last one,
collides with the committed start of the log unless the transaction has deleted
it. So at COMMIT the transaction has deleted every committed row, and at most one
transaction is there. `KeepInv` then follows a commit that was never overlapped
through every later transaction: those began after its end, so what they read,
apply and write has its rows.

`AuditCatalogProofs` proves, from `LayersAssumption`,
`NoneAssumption` and `CatalogAssumption` only (any operators, scopes, entries,
items, desks and numbers of requests and rejected accesses):

- `TypeCorrect`: `Spec => []TypeOK`;
- `ItemsAreTraced`: `Spec => []ItemsTraced`;
- `ArchivedStays`: `Spec => ArchivedForGood`;
- `OwnerDecides`: `Spec => OnlyOwnerDecides`;
- `RequestsEntitled`: `Spec => OnlyEntitled`;
- `CrashesAreLosses`: `Spec => CrashOnlyAfterLoss`;
- `OrphansWereCutOff`: `Spec => []OrphanOnlyWhenCutOff`.

None of them follows from the rows alone, since a request decides by what it has
read. `IInv` says of every request in flight what of its reads is still true
(`Good`): the items it holds were in their layers when it read them, so they had
been in the layers below before, and what was ever there stays so (`Read`); an entry that is known stays known, an owner
that was checked stays the owner, and nobody else publishes the entry a request
publishes (`Owns`, `Alone`). `QuietStep` and `WriteStep` show once that a step
which writes nothing, or one record that `MayWrite` allows, preserves all of it;
the lemmas about the actions only show that they are such steps.

`OnlyEntitled` needs the order of the reads. The walk reads the assignment, then
the owner record, then the entry, and the record it has read may be gone when
the next one is read. `Found` says what each read has established: having read
the owner record, either the operator was shown the entry at that moment or the
entry is archived (`Shared`); an archived entry stays archived, so the walk that
finds the entry unarchived later was in the first case all along.

`CrashOnlyAfterLoss` follows from `Read`: `Explained` says of every way a step
can end a request with an internal error that a store threw or a layer was read
stale, and a stale item is one that `Read` knows to have been in the layer below.
`OrphanOnlyWhenCutOff` follows from `Tidy`: only a publish creates an entry, and
a publish ends by saving the owner record or by being cut off, since the walk back
to its entry cannot fail (`EntriesFirst`, `Owns`: the saved view and the entry are
there, unarchived, and nobody else makes an owner record, as nobody knows the
entry yet).

`OnlyOwnerDecides` is about requests that have made up their minds: `Settled`
says that everybody about to save the owner record or the entry is its owner.
`Owns` keeps what they found (`found` is no record, or one's own), and `Tidy`
that every entry with an owner record that was not cut off is settled; a cut-off
entry is settled from the save on after which nobody else is about to make a
record (`StaysSettled`), which the two operators of section 4 who share an
unowned entry are not yet.

`ToolInvocationProofs` proves, from `RecordStoresAssumption` and
`ToolInvocationAssumption` only (any number of callers, processes, entries, attempts,
crashes and failing operations, all four drivers, all fifteen stores):

- `SchemaIsReady`: `Spec => []SchemaReady`;
- `HistoryIsTrue`: `Spec => []HistoryTellsTruth`;
- `ToolTypesHold`: `Spec => []TypeOK`;
- `StoresImplementAtomicRecords`: `Spec => StoresAreAtomic`, the refinement of
  `AtomicRecords`.

`StoreInv` is what the stores need. `LockInv`: two calls between the creation
and the removal of a lock file have different files, so that (`Fresh`) the image
such a call has read is what is stored until it has written; this is why writing
a whole file or database back undoes nothing. `MigrationInv`: one call of a
handle migrates and the others wait for its promise. `SchemaInv` and `Schema`:
the database is as it was found or fully migrated, a ready handle and a call
past its handle know it to be migrated, and where a promise was refused there
was a fault or another handle has done the migration. `Moves` says what any step of
a store may do to locks, queues, promises, rows and the stage of its call; that
each of the steps is such a move (`AccessMoves`) is one lemma per step, and both
the invariant (`MovesKeep`) and the refinement (`MovesImplement`) follow from it.
The refinement holds because the rows change in one step, to what they are when
the pending call has had its effect (`StateMoves`).

`ToolInv` relates a tool call to its save: `Linked`, the save under way is the
one of the invocation's outcome under its call id; `Current`, an id not yet used
is in no history, and what the history has of the current one fits the outcome
to be saved (a call to be saved as failed may be there as succeeded: its first
save was done, but reported as an error); `Done`, a save the stores have applied
is in the history. Of the stores this proof uses no more than `Moves`.

`QueuedExecutionProofs` proves, from `ServiceAssumption` only (any number of
operators, workers, requests, jobs, steps, attempts and faults):

- `TypeCorrect`: `Spec => []TypeOK`;
- `RunStaysWellFormed`: `Spec => []RunWellFormed`;
- `JobsAreHeldOnce`: `Spec => []Queue!ClaimsExclusive /\ Queue!SettledIsFinal`;
- `StalledRunsHaveJobs`: `Spec => []StalledRunHasJob`;
- `ImplementsEngine`: `Spec => Engine!Spec`, and with it
  `DecisionsAreMadeOnce`: `Spec => []Engine!DecidedOnce`;
- `OneWorkerExecutes`: `OneOperator /\ Spec /\ [][RequestsRun]_vars =>
  []OneWorkerPerRun`, until the answer of a stored commit is lost;
- `RefusalIsFinal`: `RejectionCancelsRun` under the same premises.

Nothing of the engine or the queue is proved again. `EP` and `QP` instantiate
their proof modules with the variables of the composition, so every lemma there
is one here; `SameActions`, `SameProperties` and `SameQueue` say that `EP` and
`Engine`, and `QP` and `Queue`, are the same definitions. Every step of the
composition is a step of the engine or leaves it alone (`EngineStep`), and the
same of the queue (`QueueMoves`; only the count of stops also has the requests
that died, which is why the queue's specification itself is not refined). The
invariant `BInv` joins both with what ties them: a worker in an engine call holds
the job it works on, and every call is of a kind its driver makes (`CallFits`).
`WorkerDoes`, `OperatorDoes` and `CallDoes` say once what any step does to what
both parts share; the proofs after them look at those few cases instead of some
sixty actions.

`StalledRunHasJob` is not inductive, since between the calls of a run that is
running nobody is executing it. `RunningIsKnown` says who knows of it: a job that
failed, one that was claimed by a worker that is gone, or one whose worker is in
its call or left it by an exception and will fail the job.

`OneWorkerPerRun` rests on `TokenInv`. The run is handed on like a token: at most
one job is live (queued, or worked on by somebody who may still call the engine),
none is while an approval is pending, or while the run is paused, except between
the two steps in which the operator resumes it (`Resuming`); a refused approval
leaves a cancelled run, no live job and nobody who would write the row. The
operator's place in his request says which of these holds, so that he enqueues
only when no job is live (`RequestKnows`). The premises are needed: a second
operator, or the same one after his request died between `enqueue` and
`queueResumeRun`, finds the run still paused and enqueues a second job for it; TLC then finds two
workers executing the run, with either premise left out.
Workers may die, have commits rejected, and have queue operations throw, as often as
they like, which `queued_one_operator` leaves out.

`AuditViewsProofs` proves, from `ServiceAssumption` and `ViewsAssumption` only
(also any number of tools, any skew of the clocks and any delay between reads):

- `ViewTypeCorrect`: `ViewSpec => []ViewTypeOK`;
- `ViewsAgree`: `ViewSpec => []ViewAgrees`;
- `ApprovalsInOrder`: `ViewSpec => []ApprovalsShownInOrder`;
- `LinksNeverDangle`: `ViewSpec => LinksStayAlive`.

A view only looks, so all of the above holds under it (`ServicesRun`). Then
`Recorded` (stamps, claims and history belong to the log and the jobs),
`ViewKnows` and `Started`: when the row is read its status is in the log
(`EveryStatusWasLogged`) and, if it shows that the run was started, a job has
left the queue; the log only grows, a job does not come back and keeps the name
of the worker that took it, so the later reads find both. Links are followed
later than they were made: `Named` says which stored fact names what a link
leads to, and no step takes such a fact or a name in it away (`NamesStay`).

TLC checked the inductive invariants of these two modules before they were proved,
each as the invariant of an instance of its own: `TokenInv` with one operator and
faults of the workers, `RunningIsKnown` with two operators and one fault of each
kind, `Started` and `ViewKnows` on the views.

Only model-checked is liveness (`LoopSettlesRun`, `JobsSettle`,
`LockIsReleased`, `CommitsEnd`, `EveryCallEnds`): the prover has no rule for
fairness and ENABLED. Every other property that a passing run checks is proved.

## 6. Not modelled

- Outputs, error texts, metadata and notes; times, except where a clock decides
  (the queue's stamps, the order of a view). The checkpoint payload is present
  or absent. Sort orders of lists.
- `packages/domain/src/retry-policy.ts` beyond `maxAttempts`: the delay is put
  into an event and nothing waits for it.
- Definitions that do not match the run (`assertDefinitionCompatibility`) and
  missing templates: the constants fix one workflow. The templates themselves
  are example workflows.
- `save`, `append` and `put` of the runtime store: used by tests only.
- The HTTP API, the CLI and the web console: each request is parsed, becomes one
  call of the operator service, and its answer is rendered; none keeps state
  that another request reads.
- The MCP adapter, configuration and observability: no state, no decisions.
- Schemas of tools (`packages/tools/src/schema.ts`): input and output fit or not.
- In `RecordStores`, an EEXIST raised by the work under a lock, which the code
  takes for a lock in its way; in the file stores, a failing removal of the lock
  file.

## 7. Plan

Everything with state of its own is modelled. What is left:

1. Larger instances: three requests on the catalog, if a smaller state is found
   for the walk; every store of the catalog with two tasks.
2. Filters and orders of the lists of runs and of the cross-run summary.
