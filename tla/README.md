# ck3-index MCP: TLA+ specifications

Specifications, model-checking configurations and proofs for the concurrent core
of ck3-index: the MCP session that schedules tool calls, the manager of the
databases those calls read, the query runtime with its cache, the publication
of index generations by processes that share one index, and the transactional
migration of a project: its plan and review, its lock file, and its swaps. Paths below are relative to the repository root;
`server.go` and so on are files of `internal/mcpserver` unless said otherwise.

    tlc -workers 2 -config Leases.cfg MCDatabaseLeases.tla
    tlapm TaskSchedulerProofs.tla

`PROJECT.json` maps every definition to the source lines it stands for and lists
the runs, the hazards, the findings and the theorems.

## 1. Inventory

| Component | State | Operations | Talks to |
|---|---|---|---|
| MCP session and scheduler, `server.go` | `tasks`, `queuedTaskIDs`, `seenRequestIDs`, the limiter's six counters, handshake state, results channel | read a request, start / queue / refuse a call, cancel, expire, receive a result, dispatch, drain, stop | starts one goroutine per call; takes a lease from the database manager; answers on stdout |
| Database manager, `database_manager.go`, `tools_database.go` | `specs`, `loaded`, `active`, `epoch`, reservations, `switchGate`; per pool `refs`, `retired`, `deleteOnRetire` | `Acquire`, `release`, `ReloadCurrent`, `Switch`, `Close` | leases go to calls; reads the publication pointer; removes retired files |
| Refresh tool, rebinding, `tools_refresh.go` | the call's `Runtime` (`DB`, epoch, `releaseRebound`), one activity record per index | binding check, rebind, `full`, `files`, `status` | the indexer's refreshes, then `ReloadCurrent` |
| Generation publication, `internal/indexer/refresh_full.go`, `database_publication.go`, `publication_lock*.go`, `index_generation.go` | database files, the pointer file, the kernel lock, `meta` rows (status, generation, revision) | `ScanFullStaged`, CAS, pointer commit, retirement, orphan sweep, `MarkIndexStale` | every process (CLI, MCP servers) on the same index |
| Incremental refresh, `internal/indexer/scan_files.go` | rows of the current generation | `ScanFiles` | publication lock |
| Diagnostic baselines, `internal/indexer/diagnostic_baseline.go` | baseline tables | save, clear, copy into the next generation | publication lock |
| Migration lifecycle, `internal/migrator/rebase_lifecycle.go`, `rebase_recovery.go`, `rebase_store.go`, `rebase_resume.go` | the manifest with its revision, project / backup / output directories, the preserved entries in them | build, validate, approve-smoke, promote, rollback, resume | one process per command; marks the index stale, without the publication lock |
| Migration planning and review, `internal/migrator/rebase_plan.go`, `rebase_semantic.go`, `rebase_cross_file.go`, `rebase_review.go`, `rebase_resolution.go` | the decision journal and the conflicts, uploaded files, saved answers | classify every path, merge files three ways, look for objects across files, upload, answer, resolve, build | the three source trees; the lifecycle builds from its decisions |
| Migration lock, `internal/migrator/rebase_lock.go` | the lock file of a transaction, quarantined files | claim, heartbeat, reclaim of an abandoned lock, `Release` | every command of the lifecycle |
| Query runtime and read cache, `runtime.go`, `tool_cache.go` | process-wide LRU cache | check the generation, run the handler, retry once, cache | leased pool |
| Everything else | - | sequential computation over files and SQL | - |

What is hard, and what each component has to get right:

* **Session.** Requests, cancellations, results, two kinds of timeout, end of
  input and shutdown meet in one `select`. Counters must stay exact over every
  path; limits hold also for goroutines whose call was cancelled; an id is
  executed and answered once; an answer that invites a retry is truthful; a
  change that was made is reported; everything ends.
* **Manager.** Calls hold pools that others switch away from, reload or come back
  to. References must be exact through every failure path, a held pool open, an
  unused one closed, the budget kept, an epoch must name one pool, and a call
  must stay on the database it started with.
* **Publication.** Processes crash between two file operations, wait for a lock,
  or bypass it (the stale mark does). A complete database must be published in
  every state, each publication must follow on the one it replaces, baselines
  must survive, and nobody may read a ready index of a replaced tree.
* **Migration.** A swap of two directories is two renames with checkpoints between,
  moves of preserved entries, an undo of either rename, and resumption after a
  crash at any point. No tree and no preserved entry may be lost or doubled, and
  a later command must find from the manifest where things are. The lock must
  survive holders that die, and reclaimers that race.
* **Planning and review.** Decisions about whole files, merges within files and
  checks across files must agree on every object: no change of either side may be
  lost, and no object defined twice, without a conflict that asks. Uploads and
  answers may change at any time, also between a failed build and its resumption;
  what is built must be what was confirmed last.
* **Runtime.** Handlers read in several statements while writers commit. One
  certified answer comes from one state of one database; a cached answer belongs
  to the state it is filed under; a committed change is neither repeated nor
  reported as a conflict; the cache's byte counter does not drift.

The remaining packages (script parser, scanners, diagnostics, map and GUI
rendering, packager, save files, coat of arms, CLI, generated data) are
sequential transformations of file contents. They are not modelled: their
properties are about data that a small instance would not represent.

## 2. Modules

| Module | What it is |
|---|---|
| `TaskScheduler` | the session loop, limiter, queue and call goroutines |
| `AdmissionControl` | abstract promise of the limiter and queue: sets of calls instead of counters |
| `TaskSchedulerProofs` | theorems about `TaskScheduler`: types, counters and limits |
| `SchedulerAnswersProofs` | theorems about its answers |
| `AdmissionProofs` | work conservation, and `TaskScheduler` implements `AdmissionControl` |
| `DatabaseLeases` | database manager, leases, rebinding, switch and refresh handlers, other publishers |
| `DatabaseLeasesProofs` | theorems about `DatabaseLeases` |
| `QueryRuntime` | one tool call from its binding to its answer, the read cache, every writer of the index |
| `SnapshotReads` | abstract promise of a certified answer: one content of one file |
| `QueryRuntimeProofs` | theorems about `QueryRuntime`, among them that it implements `SnapshotReads` |
| `GenerationPublish` | full and incremental refreshes, baselines, stale marks, project replacement, crashes |
| `GenerationPublishProofs` | theorems about `GenerationPublish` |
| `RebaseLock` | the lock file of a migration transaction, one step per call of the file system |
| `RebaseLifecycle` | the commands of a migration under that lock: manifest, directories, preserved entries |
| `RebaseLifecycleProofs` | theorems about `RebaseLifecycle` and `RebaseLock` |
| `RebaseMerge` | the three-way merges of fields, objects and localization keys, and what a three-way merge is |
| `RebasePlanning` | the plan of a migration, its review and the build of the overlay |
| `RebasePlanningProofs` | theorems about `RebasePlanning` and `RebaseMerge` |
| `MCTaskScheduler`, `MCDatabaseLeases`, `MCQueryRuntime`, `MCGenerationPublish`, `MCRebaseLifecycle`, `MCRebasePlanning` | model values, bounds and symmetry for TLC |

`TaskScheduler` implements `AdmissionControl` and `QueryRuntime` implements
`SnapshotReads`, each by an `INSTANCE` with a refinement mapping.
`RebaseLifecycle` extends `RebaseLock`: its `Lock` and `Release` are the lock's
actions, its `Work` needs the lock held. `GenerationPublish` has the migration's
effect on the index, `RebaseLifecycle` its effect on the directories, and
`RebasePlanning`, which extends `RebaseMerge`, what is in the migration copy; reviewer
and build exclude each other there because both hold the lock of `RebaseLock`.

### TaskScheduler

One action per branch of the `select` in `serveWithToolCaller` and per kind of
request; `outbox` holds the responses the loop must write before it goes on
(`Write`, `WriteFails`), and `loop = "dispatch"` is the part of handling a result
that empties the queue, so that goroutines interleave with both. `phase` is the entry in
`tasks`; `work`, `ctx`, `committed` and `outcome` belong to the goroutine of
`runMCPToolTask`. `executions` and `replies` are history.

Abstractions. Ids are numbered in the order of their first arrival; with that the
queue order is the numeric order, and ids that linger in `queuedTaskIDs` after
their task left are not represented, because every reader of the slice skips
them. The class of a call, which `classifyMCPTask` derives from its arguments, is
arbitrary. Time is abstract: the queue deadlines of the oldest waiting calls, and the
execution deadline of a running one, may pass at any moment. The lease always
succeeds because `Serve` closes the manager after the loop has returned.

### AdmissionControl

`running`, `waiting` and `class`, and what a call may do. `TaskScheduler`
implements it with `running <- Running`, `waiting <- Queued`: at most the
configured calls of each kind run; a call waits only if it does not fit and is
refused only if the queue is full too; the oldest that fits is promoted; a
newcomer starts only if no call of its own class waits.

### DatabaseLeases

A file is a pair of target and generation. A call goes through lease, binding
check, perhaps a reload, its handler (query, switch, full refresh; a file refresh
changes the current generation in place and is like a query here), the deferred release of the pool it was rebound to, and the deferred release of its
lease. `switchGate` is `gate`; the manager's mutex makes each critical section one
step, and the file operations between them (opening a pool, reading the pointer)
are steps of their own. `Publish` is another process; `Close` is the end of the
session, at any time. Every failure return of `ReloadCurrent` and `Switch` is an
action that may be taken at its place. Only a full refresh rebinds its call; where that
fails the refresh stands, the call warns (`database_rebind_deferred`) and goes on with the
pool it was bound to. All pools have the same SQLite cache, so the
cache budget and the pool budget coincide.

### GenerationPublish

The pointer, the databases and the lock of one configured index. Database 0 is the
anchor file; a publication draws a new number, standing for its random revision. A
database carries its status, generation, baseline, and the version of the project
tree it describes; what a scan extracts is abstracted to that version. The lock is
released by a crash, as the kernel does it. `ResolveIndex`, `MarkIndexStale`,
`PersistIntent` and the two renames are the migration; its stale mark does not take
the publication lock. A migration whose process dies after the intent is resumed
from it, so only the earlier crash ends it (`CrashRebase`). File refreshes bring
the content forward within one project tree, but never make up for a replaced one,
because they only read the files they were told. `unguarded` records that a refresh
ran where its CAS cannot see a mark.

### QueryRuntime and SnapshotReads

`callMCPTool` in steps: read the published state, refuse or look up, run the
handler one statement at a time, read the state again, then encode, report, or
run the handler once more. The rows of a file are the number of the write that
left them, so that rows of two contents always differ. `Readings` gives every
state read the chance to fail. The tools stand for the kinds that the code tells
apart: cached or not, reading only or not, dependent on the index state or not,
and the two that write the index themselves. The writers are those of a published
index (`RefreshFiles`, `SaveBaseline`, `Publish`, `MarkIndexStale`) and the two commits of
a scan in place (`CommitScannedRows`, `FinishScan`), with the status `finalizing`
between them that the runtime distinguishes.

A scan of an index with older rules begins with `DB.reset`, which drops every table in a
statement of its own, `meta` last (`internal/indexer/db.go:245`), so that a reader would
find rows missing under an identity that is still ready. That is not modelled, because
no program does it to an index that is served: the servers and the CLI refresh with
`ScanFullStaged`, whose scan works on a stage that nobody reads; a scan in place
runs only on the private copies of `cmd/scan-perf` and of the migrator's validation.
Repairs of the schema when a database is opened are not modelled either.

The code's `before` and `cacheStart` are one field `start`, because `before` is
not used after the retry replaced `cacheStart`, except for `beforeErr`, which the
retry excludes. A cancelled context and a failed handler are one step,
`HandlerFails`. The clearing of a baseline that does not exist is left out: it
commits nothing. Arguments are abstracted to the tool.

`SnapshotReads` knows files, what they hold, what a call may have seen since it
began, and certified answers. `seen` in `QueryRuntime` is its history variable.

### RebaseLock and RebaseLifecycle

The lock file is claimed with `O_EXCL`, written, kept young, and removed; each is
a step, as are the inspection of a file that is there, the rename of an abandoned
one, the second look and the removal or the restoring. A nonce is the process
while its command runs; what an ended command leaves behind bears the name of a
*ghost*, so that the processes that come after it differ from it. Age is abstract: the lock
of a dead process is old when it is inspected, or the inspection fails as for a
young one. `displaced` records that a rename took or replaced a lock other than
the abandoned one.

Each command is a sequence of steps at `job[p].at`; `Persist` is
`persistRebaseLifecycle`: `CompareRevision`, then `MoveManifestAside` and `PutManifest`, the
two renames of `replaceRebaseFileAtomically`, the second with the report that is
written after it. Each may fail (`PersistFails`, `PutManifestFails`, an error in
`PutManifest`), the process may die between any two, and `Persist` says where the command
goes on with and without the error. While `aside` holds there is no manifest and
`manifest` is what its `.previous` says; `lost` records that a command ended so. `Fails` is the failure of any other call, `Crash` the death of a process.
Promotion and rollback are the same procedure in two directions (`SwapOf`), as
`resumeRebasePromotion` and `resumeRebaseRollback` are line by line. A directory
is the tree it came from, whether its hash still is the recorded one, and the
preserved entries in it. `behind` is the difference between the manifest's
revision and the one a command has in memory. `manifest` has the phases
`building`, `approved`, `blocked` and the two failures where the code reads phase,
approval or blocking along with the status.

The checkpoints within the copying and the validation rewrite the status that is
there and are collapsed; preserved entries are moved in any order, and the test
and the rename of one are one step; the upstream sources do not change, whose
change would make a command fail; the heartbeat's truncating write is one step.

### RebaseMerge and RebasePlanning

A file is there or not and has a set of definitions; a definition is an object's id
and its contents, a value for each of its fields. A merge returns the set of its
results, which is empty where the code stops for review. `ThreeWay` and
`ThreeWayObject` are the reference definitions of a merge; `mergePlainThreeWay`
makes the code's distinction of cases, which it shares with `mergeJominiChild`.

An input is the three layers, the kind of the files (objects in an allowlisted
domain or not, localization) and the paths that are owned or under a
`replace_path`. `Classify` decides about every path (`planRebasePath`);
`CheckObject` is one turn of `applyRebaseCrossFileSemanticSafety`, in the order of
the ids; `FinishPlan` sets the status and draws the order of the conflict ids, which are
hashes. `Upload` and `PostResolutions` are the two writing handlers of the review
server. `AcceptReview`, `Publish`, `BuildFails` and `Recover` are `BuildRebase`: it
resolves the answers anew each time, and may be killed between the journal and
the manifest, before the rename and after it. The copying in between is private
to its stage, and one step.

`Loaded` is what the game reads of a project over an upstream: the project's file
shadows the upstream's of the same path, and a `replace_path` hides what is below it.

Abstractions. Two files with the same definitions are the same file. Identical
definitions of an id in one file are one. Objects have no nested blocks, which
`mergeJominiBlock` merges by recursion. Answers that need a new plan
(`edit_project`) cannot be built and are left out. An answer names any file that may be
uploaded as the hash it confirms, whatever is in the upload when it is posted.

### Conventions

An empty database file without a `meta` table, which a file refresh on a missing
index leaves behind, counts as missing.

Operators commented `Fault:` are mutated forms of the operator after them. No
specification uses them: they document for each property a plausible mistake
that it catches (`mutants` in `PROJECT.json`).

## 3. Runs

| Run | Expectation | Instance |
|---|---|---|
| `SchedulerSafety` | 9 invariants, 1 action property, refines `AdmissionControl` | 5 requests, limits 2 / 1 / 1, queue 2 |
| `SchedulerLiveness` | 2 liveness properties | 3 requests, limits 1, queue 1 |
| `Leases` | 7 invariants | 2 calls, 3 targets, 5 pools, budget 2 |
| `HandlerPool`, `CallDatabase` | one violation each | as `Leases` |
| `QueryRuntime` | 4 invariants, refines `SnapshotReads` | 2 calls, 6 kinds of tools, 2 files, 4 writes |
| `Publication` | 4 invariants, 1 action property | 2 processes, 3 publications, 3 trees, 3 generations, 1 save |
| `StaleIndex` | one violation | as `Publication` |
| `RebaseLifecycle` | 6 invariants | 2 processes, 2 preserved entries |
| `PromotionIntent` | one violation | as `RebaseLifecycle` |
| `RebasePlanning` | 4 invariants | 8520 inputs of 2 objects in 3 files, 6 of them reviewed, 5 uploads and posts |
| `MovesAreAsked` | one violation | as `RebasePlanning` |

Bounds. *Scheduler*: two slots with one heavy slot are the least that tell the
total limit from the heavy one, and make a heavy call wait while a light one may
start. A handshake and three calls fill the slots and let two wait in the queue, in which
the order matters; the fifth request is there for a refusal by a full queue and for the
order of promotion, so it arrives only where nothing but calls has happened and is
followed until the second answer (`LastRequestBound`). A request the loop answers itself
leaves only a used id behind, so one beside the handshake and one refused repetition are
enough (`ImmediateBound`). *Leases*: two calls and three targets under a budget of two are the
least in which one call switches away from a pool the other holds and needs a third
one; five pools suffice for one switch or refresh per call and two publications
(`PublicationBound`). The limit of one switch or refresh per call is the protocol's:
one tool call performs one operation. *Runtime*: `MaxWrites` transactions after the first
content suffice for a scan in place (two commits) beside two other writes,
and for a change before, within and after a retry; two calls overlap while at most `PairWrites`
writes have been made (`PairBound`), which lets one backfill what the other
invalidates, and afterwards one call alone meets the longer histories. The cache
holds one large or two small results (`MaxBytes`, `MaxEntry`), so that insertions
evict. *Publication*: two processes give every
race for the lock; three publications allow two in a row and one attempt that is
swept; three tree versions allow an edit before a replacement. *Migration*: two
processes run any number of commands; a reclaim that races needs the file of a
dead one, the inspecting process and a second one, and `MaxGhosts` files of
ended commands exist at a time. `MaxBehind` bounds how far revisions may drift
apart while two commands overlap, and `OverlapBound` follows an overlap only
while the user changes nothing, the manifest is not lost and no completed swap is
undone. No number of commands, crashes or edits is bounded otherwise.

*Planning*: every layer has one object in either, both or none of two files, as it was
or changed by one or the other side (`MCMoves`), also where the first file is owned or under a
`replace_path` (`MCFlags`); an object with any contents of two
fields in each layer (`MCFields`); every kind and flag of a file that may define the
object twice (`MCKinds`). The six plans whose conflicts are answered (`MCReviewed`)
have a move, a move beside another conflict, two moves into a file, two
conflicts in a file, a deletion by the target, and an addition under a
`replace_path`. `MaxReviews` uploads and posts suffice to upload and confirm, build and fail,
replace the upload and post again before resuming.

Symmetry is used for calls and for processes, in runs without liveness.
Deadlock is checked in all runs but the four of the migration: its commands stop
for good at their bounds (no name left for a ghost, no revision to drift to), which
says nothing about the code, and a plan rests when it is built or nobody reviews it. A session and a manager may stop only where
`Terminated` says so; the publication protocol and the runtime never have to stop.

Fairness (`SchedulerLiveness` only). The loop takes the steps it is in the middle
of (weak fairness of `Write`, of dispatching and of the return). A branch of the
`select` that is ready again and again is chosen at last, because Go picks among
ready branches at random: strong fairness of `ReceiveResult` and `StopOnShutdown`;
a client that never stops sending does not starve them. A tool call returns:
its context has a deadline that the tools observe. No fairness is assumed
of the client, of deadlines in the queue or of cancellation.

### What the violation runs show

Each contradicts a statement of the repository, quoted in `PROJECT.json`.

* `HandlerPool`: `ReloadCurrent` returns an already reloaded active pool without
  taking a reference (`database_manager.go:453`). A switch, another reload or the end of the
  session closes it under the handler that was rebound to it. The other branch pins.
* `CallDatabase`: a call rebinds to whatever database is active
  (`database_manager.go:439`); after a switch by another call it goes on with
  the other database although a running call is promised to keep its own.
* `StaleIndex`: the stale mark is set without the publication lock
  (`rebase_lifecycle.go:553`). A second refresh has scanned the old tree, compared its base
  and renamed its stage when the published index is marked and the project moved
  aside; it then commits its pointer, and the published index of the old tree is ready.
  (Where no database exists yet the mark is skipped, `rebase_lifecycle.go:561`, also
  while the first refresh is about to publish one; its comment says that there is nothing to
  mislead anyone, so the run leaves that out.) `CASProtectsStaleMark` in run `Publication` shows the exact
  extent: wherever the CAS can see the mark, it holds.
* `PromotionIntent`: if the report cannot be written after the new manifest is in its place
  (`rebase_lifecycle.go:921`), the swap that the manifest records as complete is
  reversed (`rebase_recovery.go:192`). The manifest says `promoted`, the project is
  the previous one, and promote, rollback and resume all refuse.
  `StatusTellsLayoutUnlessUndone` shows that this is the only such way while
  commands exclude each other.

* `MovesAreAsked`: the new upstream moves an object to another file, the project changed
  it in the old one. The project's version is appended to the merged old file
  (`rebase_semantic.go:529`), the new file is inherited, and both define the object:
  the check across files only looks at objects that the project moved or added.
  The same happens without a
  change of the project where the old file is an owned copy of the old upstream's, which
  is kept as it is. `OneOwner` shows, and its theorem proves, that, of an object
  which every layer has at most once, these are the only ways to define it twice without
  asking.

More observations that the models record without a run of their own. A
promotion whose process ends between the second rename and its last checkpoint
is recorded as complete when it is resumed, without its preserved entries
(`stranded`; `rebase_recovery.go:199`). The retry of `callMCPTool` accepts a stale
index, which the first check refuses (`runtime.go:180`); its answer is not
certified. A claim that quarantines a lock which another process has just
reclaimed lets two commands run at once (`displaced`; `rebase_lock.go:201`); the
manifest's revision then decides between them. A pool that a reload replaces is in no
account while old leases hold it (`database_manager.go:492`), and the pool a
reload opens takes no reservation, so more pools than configured can be open:
`src/README.md:106` says 旧 lease 持有的 retired 池仍计入预算, "retired pools held by old
leases still count in the budget".
`PoolsWithinBudget` names these two exceptions, and shows that sentence for every
pool that a switch retired. Between the two renames that replace a manifest
(`internal/migrator/rebase_store.go:471`, :478) there is none at its path. A crash
there, or a failed rename whose undo fails as well, leaves only its `.previous`;
loading then fails (:299), and the only code that puts it back is the next
replacement, which no command reaches without loading first. The comment at :439
promises "a recoverable sibling" and "never a deliberate delete-before-replace
gap": the sibling still tells the layout (`StatusTellsLayoutUnlessUndone`), but somebody has to
rename it by hand. A process
cancelled while it waits for the publication lock records its failure
(`refresh_full.go:131`); if that creates the database, the lock holder's finished scan ends
in a conflict. Where a file has a move and another conflict, or two moves,
the answer applied last stands at its path and the other is dropped without a word
(`rebase_resolution.go:89`, `Replaces` in `ReviewHonoured`); the check for one owner then
refuses the build or not. A target file added under a `replace_path` stops for review
because its "adoption must be explicit" (`rebase_plan.go:529`), but where the reviewer adopts it
(`use_target`) it is resolved as `delete_project`, as if it were dropped, and remains hidden
(`rebase_resolution.go:202`); `HiddenTarget` is that exception in `ReviewHonoured`,
which without it fails in run `RebasePlanning`. A file the project has under its own `replace_path` is deleted as a redundant
shadow where it equals an upstream's (`rebase_plan.go:567`, also :557 and :586), although
nothing is loaded in its place; `docs/SEMANTIC_REBASE.md:101` counts effects of
`replace_path` among what blocks (`MergesObjects` therefore leaves those paths out). A resumed build follows the answers as they are
then, and does not write the journal again (`rebase_lifecycle.go:40`), which may
then differ from what was built.

`HandlerPool` and `Leases` do not contradict each other: reference counts are exact
and counted holders are safe; the rebound call is a reader nobody counts.

## 4. Proofs

`TaskSchedulerProofs` proves, for every number of requests and every positive
limit (`LimitAssumption`):

* `TypeOKHolds`, `CountersExactHolds`, `WithinLimitsHolds`, `ResultsNeverBlockHolds`,
  `NothingStartsAfterCloseHolds`, all from `IInvHolds`.

None of these is inductive as it stands. `WithinLimits` speaks of goroutines, but
the loop tests counters; it needs that counters equal the task map, that a
goroutine belongs to a running call as long as the loop serves, and that afterwards
no new one starts. The inductive invariant is therefore

    IInv == TypeOK /\ Counted /\ SeenInv /\ Within(limiter)
            /\ BusyRuns /\ BusyWithin /\ HasOutcome

* `Counted`: the limiter counts `Running` and `Queued` by class, in every state;
  after the loop returned both are empty.
* `Within(limiter)`: the counters are within the limits.
* `BusyRuns`, `BusyWithin`: goroutines that execute or have delivered belong to
  running calls while the loop serves; their number by class stays within the limits also
  after it returned.
* `SeenInv`: a request with an entry is remembered, so a fresh one has none and
  its class may be set without changing any count.
* `HasOutcome`: what is in the channel carries its outcome (needed for the type of `outbox`).

The argument has three layers: facts on cardinalities of sets split by class
(`OfAdd`, `OfRemove`, `OfDifference`, from `FiniteSetTheorems`); what each limiter
operation does to an exact limiter (`AcquireCounts`, `ReleaseCounts`,
`EnqueueCounts`, `DequeueCounts`); and one lemma per conjunct over the cases of
`Next` (`StepCases`, then `CountedStep`, `WithinStep`, `BusyRunsStep`,
`BusyWithinStep`, `SeenStep`, `OutcomeStep`, `TypeStep`).

`SchedulerAnswersProofs` proves, under the same assumption and with that `IInv`:

* `AtMostOnceHolds`, `RetryIsSafeHolds`, `CancelledIsSilentHolds`,
  `CommittedIsReportedHolds`, all from `AnswersInvHolds`.

`replies` alone does not carry them, because an answer is decided when it enters
`outbox` and the goroutine may still run then. The inductive invariant adds to `IInv`

    AnswersInv == OutboxInv /\ RepliesInv /\ TaskInv /\ DrainedIdle
                  /\ CommittedIsReported

* `OutboxInv`: an answer that waits to be written is the only one of its request,
  which is over and has none yet, and it is true already (`Truthful`): whoever is told
  to retry has not been executed or has not committed.
* `RepliesInv`: the same of the answer that was written. Both last because a closed
  request is never started or cancelled again (`ClosedStep`).
* `TaskInv`: a call that has not started has done nothing, it starts once, and a
  goroutine that delivers a timeout has not committed.
* `DrainedIdle`: the loop returns normally only when no goroutine is left, which is why
  no committed call is left without a report there.

`AdmissionProofs` proves:

* `WorkConservingHolds`: whenever the loop selects, no waiting call
  fits. Given the exact counters of `IInv` it is inductive by itself: slots are freed
  only by steps that go on to dispatch, and every other step leaves the slots and the
  queue or fills them (`StaysFull`).
* `AdmissionPolicyHolds`: `Spec => AdmissionPolicy`, the refinement of `AdmissionControl`.
  `FitsIsCanAcquire` turns the counters' test into the abstract one about sets of calls;
  `AdmissionStep` maps each action to a start, an entry into the queue, a refusal, a
  promotion of the oldest call that fits, an end or a stutter. That a call of a class
  with waiting calls is not overtaken needs `WorkConserving`.

`QueryRuntimeProofs` proves, for any calls, files, tools, sizes and bounds
(`RuntimeAssumption`):

* `TypeOKHolds`, `CacheIsTrueHolds`, `BytesExactHolds`, `CommittedStandsHolds`, and the
  refinement in `SnapshotAnswersHolds`, all from `IInvHolds`.

The inductive invariant is

    IInv == TypeOK /\ DiskInv /\ EntriesInv /\ BytesExact
            /\ (\A c \in Calls : SeenInv(c) /\ ReadInv(c) /\ CommitInv(c)) /\ AnswerInv

`CacheIsTrue` compares an entry with the state the file is in now, and says nothing of
one whose state is gone, so that it would not survive the state's return.
`Recorded(f, k, R)` says it for good: the file has left the identity `k` (revision, generation
and baseline) and never publishes it again, or it is in it and, when it is ready, holds
exactly the rows that were read. That generations and baselines only grow under one
revision, and that revisions are never drawn twice (`DiskInv`), makes it last over every
writer. `EntriesInv` states it of the cache, `ReadInv` of what a call has read under the
state it started in, so that what it files after the second check is true. `SeenInv`
(a call's file is always among what it has seen) gives the refinement: the
content certified by the second check was the file's at a moment of the call.
`CommitInv` and `AnswerInv`: only writing tools commit, only reading ones run twice.
`BytesExact` is preserved by sums over lists that insertions, evictions and
invalidations make.

`RebaseLifecycleProofs` proves, for every set of processes, every finite set of
preserved entries and all bounds (`LockAssumption`, `LifecycleAssumption`):

* `TypeCorrect`, `LockIsHolders`, `EntriesSurvive`, `EntriesFollow`, `LayoutKnown`,
  `TreesStay`, all from `Invariance`.

The inductive invariant is

    Inv == TypeOK /\ OwnersOwn /\ DirectoriesInv /\ LayoutInv /\ EntriesInv /\ AsideInv

* `OwnersOwn`: a process that has created the file, or holds or removes it, owns the
  file at the path, unless `displaced`. From it follows that one process at most is
  there, which the other parts need wherever another process takes a step.
* `DirectoriesInv`: a missing directory has no preserved entries, the previous
  tree is at exactly one path, and so is the original of every entry. It
  needs no mutual exclusion: each rename moves what is there to where nothing is.
* `LayoutInv`: the manifest restricts the layout (`StatusPlaces`), and what the
  running command has found out is still true where it is (`Knows`): a command about
  to park has the start layout, one about to swap has the middle one, and so on
  through the undo. `StatusTellsLayout` says nothing of a command's place and so is not
  inductive: a rename is safe because of what the command has persisted before it.
* `EntriesInv`: once a manifest says, or is about to say, that the trees are swapped, every
  preserved entry is in the project or among the entries still to carry; while a swap
  is undone they are with the tree that took them along. It is what `PreservedFollow`
  needs between the swap and the end of the carrying.
* `AsideInv`: the manifest is aside only while the running command replaces it, or for
  good after a command ended there (`lost`). It is inductive because one command runs at a
  time (`OwnersOwn`) and the others refuse a manifest that is aside.

The lock is treated first and alone (`LockPreserved`, on the effect `EndTypes` of
an ending command; `LockStepPlace` says what its steps leave of the others'
places). Then the directories, by what a step can do to the trees
(`TreeSteps`: nothing, a rename, a new copy, one carried entry, an edit), and the
layout, command by command (`WorkPlaces`) for the holder and by `KnowsStable` for
everybody else.

`RebasePlanningProofs` proves, for all inputs, paths, objects and values:

* `PlainIsThreeWay`, `ObjectIsThreeWay`, `LocalizationIsThreeWay`: the merges are
  three-way merges, of a value by cases and of an object and a file by extension;
* `ReviewIsHonoured`, from the inductive invariant
  `Attached(journal) /\ Droppable(input, journal) /\ Allowed /\ Ranked /\ ReviewHonoured`;
* `PlanTypes`, from `TypeInv`;
* `MergesObjectsHolds` and `OneOwnerHolds`, from `PlanInv == Unasked /\ Checked` on top of it.

`ReviewHonoured` speaks of the conflicts of a path, the build of its decision.
`Attached` says that a conflict is found at the path it names, and only a move at another
one, too; classification (`PlannedAtPath`) and the check across files
(`AttachKeepsAttached`, `CrossFileKeepsAttached`) establish it, and resolved decisions keep
their conflicts (`ResolvedKeepsConflicts`). `OverlayIsReviewed` then goes through a path's
conflicts. If one is not a move, the answers of all such are equal and decide
the path (`AnswerIsBuilt`), each is honoured, and a move there gives way to it. Otherwise
the last move in the order of the ids does (`LastMoveExists`, from `Ranked`; `MoveIsBuilt`),
and the others give way to that one. A manual answer is the confirmed file. An answer is
one its conflict allows (`Allowed`), so that a file is dropped only where the game
would load none (`Droppable`).

`TypeInv` adds to `TypeOK` that the journal decides every path with an action, a file and
its conflicts (`IsPlan`) and that nothing is answered before the plan is finished
(`Unanswered`). `Unasked` says what a plan without conflicts is, at every moment of its
making: the journal is what classification decided path by path (`FilePlan`), every object is
either `Settled` (unambiguous, and where project and target define it in different
files, unchanged in its place by the target) or still to be checked, and what is built is the
overlay of that plan. `Checked`: nothing is left to check once the plan is
finished. The two properties then are about the three layers alone, with no state in
them: `NewFile` gives the file loaded at a path from the decision about it (inherited, kept
or merged), `MergeBecomes` the records of a merge, `NewRecordFrom` where a record of the
new load stack comes from, `NotElsewhere` that a settled object is at no second path, and
`FileValue` that its value there is the three-way merge. The classes of
`planRebasePath` and of `mergeJominiThreeWay` are gone through once each.

`DatabaseLeasesProofs` proves, for every finite set of calls and of targets, any
pools, generations and limit (`LeaseAssumption`):

* `TypeCorrect`, `CountsExact`, `HeldStayOpen`, `PoolsAreClosed`, `ActiveServes`,
  `WithinBudget`, `OneEpochOnePool`, all from `Invariance`.

The inductive invariant is

    Inv == TypeOK /\ GateInv /\ PlaceInv /\ RegisterInv /\ RefsExact
           /\ BudgetInv /\ EpochInv

and `ChargedInv` on top of it.

* `GateInv`: a call between the tests and the commit of a reload or switch holds
  `switchGate`, so one at most is there.
* `PlaceInv`: which of lease, bound pool, pin and candidate a call has, by its place.
* `RegisterInv`: a name is registered for an open pool of that name; a candidate that
  was opened for a call is open, unreferenced and unregistered; an open pool is
  retired only while it is referenced. That last part (`RetiredInv`) is why a release may
  close on the last reference, and `NoPoolLeaks` follows from it.
* `BudgetInv`: one reservation is outstanding exactly while the gate's holder opens, or
  has opened, a pool.
* `ChargedInv`: no pool is registered under the name a reservation is for, and a pool that a
  switch retired stays registered under its name while it is open. So every pool that
  `PoolsWithinBudget` counts is registered or reserved (`ChargedAreAccounted`), which
  `BudgetInv` bounds: the manager's account (`AccountedPools`) alone says nothing of
  pools it has lost.
* `EpochInv`: a call that reports the current epoch is bound to the active pool.

The parts need each other: a release closes a retired pool on its last reference, which
keeps held pools open because the counts are exact (`Held`), and does not take the
pinned candidate of another call from the register because that one has a
reference of its own (`HeldTwice`). `Bystanders` says once, for all steps, that they leave
the places of other calls alone, also whether a candidate counts as newly opened;
`RefsBalance` reduces exactness to what a step does to one pool and its call, and
`RegisterStep`, `RefsStep`, `BudgetStep` and `EpochStep` go through the actions.

`GenerationPublishProofs` proves, for any processes and bounds (`PublicationAssumption`):

* `TypeCorrect`, `PublishedStaysComplete`, `BaselinesStay`, `MarkIsProtected` and the
  action property in `PublicationIsSuccessor`, all from `Invariance`.

The inductive invariant is `Inv == TypeOK /\ LockHeld /\ TreeInv /\ PublishInv /\ GuardInv`.
`LockHeld`: only the lock's holder is past the start of an operation, so what it read under
the lock is still so. `TreeInv`: nothing indexed is newer than the tree. `PublishInv`: a
renamed stage is the successor of the published database, baselines included, until the
pointer is written. `GuardInv`: unless a refresh was out of the sight of the publication check
(`unguarded`), a stale mark on the published database stays until a scan of the
new tree succeeds it, and a refresh that would publish an older scan read another status
before the mark, so its compare fails.

Every invariant, action property and refinement that a passing run checks is a
theorem. Only model-checked are the liveness properties of `SchedulerLiveness`
(`EveryCallSettles`, `SessionEnds`): liveness under fairness and ENABLED are out of the
prover's reach. The bounds of a run are not part of what is proved; where a theorem's module has
bounds as constants, it holds for all of their values.

## 5. Plan

1. The refresh tool's activity record (`tools_refresh.go:97`), which guards the tool against a second
   refresh of the same index, and the packager's staging directory.
2. An abstract specification of the migration (a project is the previous or the next
   tree, and each command moves between them) that `RebaseLifecycle` implements.
3. Nested blocks in `RebaseMerge`, by a recursive function on their depth.

## 6. Not modelled

Sequential computation over file contents: the script parser, what scans extract,
queries, diagnostics, map and GUI rendering, the
save reader, the packager, coat of arms, and the generated tables that make up
most of the repository's lines. A small instance of such a program has nothing of
its data, and there is no interleaving for a model checker to explore. Of the
migration's plan: map authority and province references, rasters, the game version gate,
parse errors, objects without a stable identity. The
transport and the tool catalogue decode and encode one message at a time. The
Windows variants of locks and renames, SQLite itself and the WAL checkpoint are
taken as the code uses them.
