-------------------------- MODULE GenerationPublish --------------------------
(***************************************************************************)
(* Publication of index generations (internal/indexer): processes that     *)
(* share one configured index publish full refreshes as new database       *)
(* files, refresh single files and save diagnostic baselines in the        *)
(* current one, all under the publication lock; a migration marks the      *)
(* index stale without that lock and then replaces the project tree.  Any  *)
(* process may crash between two steps.                                    *)
(*                                                                         *)
(* Databases are numbered: 0 is the configured anchor, used until the      *)
(* first publication, and every publication draws a new number, its random *)
(* revision.  A database's content is the version of the project tree that *)
(* it describes.                                                           *)
(***************************************************************************)
EXTENDS Integers

CONSTANTS Processes,
          MaxDatabases,     \* publications attempted (a bound)
          MaxTree,          \* versions of the project tree (a bound)
          MaxGeneration,    \* generation numbers (a bound)
          MaxSaves          \* baseline updates (a bound)

Databases == 0..MaxDatabases
Nobody == "nobody"

ASSUME PublicationAssumption ==
    /\ MaxDatabases \in Nat /\ MaxGeneration \in Nat /\ MaxSaves \in Nat
    /\ MaxTree \in Nat \ {0}
    /\ Nobody \notin Processes

VARIABLES
    db,          \* every database file: status, gen, content, baseline
    pointer,     \* the database ConfiguredDatabasePath resolves to
    drawn,       \* databases numbered so far
    lock,        \* holder of the publication lock
    pc,          \* where each process is
    base,        \* the publication base it read: file, gen, status
    stage,       \* the tree version its staged scan holds, or its new database
    tree,        \* version of the project tree
    present,     \* the formal project directory exists
    rebase,      \* the migration: "idle", "resolved", "marked", "intent", "aside"
    markFile,    \* the database path the migration resolved
    \* history
    saved,       \* the last baseline update that was acknowledged
    replacedAt,  \* the tree version the last replacement produced
    unguarded    \* a refresh ran where the publication CAS cannot see the mark

indexVars == <<db, pointer, drawn>>
processVars == <<lock, pc, base, stage>>
treeVars == <<tree, present, rebase, markFile, replacedAt>>
vars == <<indexVars, processVars, treeVars, saved, unguarded>>

Statuses == {"absent", "initializing", "ready", "stale"}
Absent == [status |-> "absent", gen |-> 0, content |-> 0, baseline |-> 0]
NoBase == [file |-> 0, gen |-> 0, status |-> "absent"]

Init ==
    /\ db = [d \in Databases |-> Absent]
    /\ pointer = 0
    /\ drawn = 0
    /\ lock = Nobody
    /\ pc = [p \in Processes |-> "idle"]
    /\ base = [p \in Processes |-> NoBase]
    /\ stage = [p \in Processes |-> 0]
    /\ tree = 1
    /\ present = TRUE
    /\ rebase = "idle"
    /\ markFile = 0
    /\ saved = 0
    /\ replacedAt = 0
    /\ unguarded = FALSE

-----------------------------------------------------------------------------
\* readPublicationBase, and its second reading before publication.
Current == [file |-> pointer, gen |-> db[pointer].gen, status |-> db[pointer].status]

\* Fault: the status is not compared.
SameBaseIgnoresStatus(p) ==
    Current.file = base[p].file /\ Current.gen = base[p].gen

SameBase(p) == Current = base[p]

\* OpenWithOptions and ensureSchema create a database that does not exist yet.
Created(d) == IF d.status = "absent" THEN [d EXCEPT !.status = "initializing"] ELSE d

\* recordStagedFullScanFailure writes the error into the configured database.
recordFailure == db' = [db EXCEPT ![pointer] = Created(@)]

\* Fault: only full refreshes exclude each other.
LockIsFreeOfRefreshes == \A p \in Processes : pc[p] \in {"idle", "files"}

LockIsFree == lock = Nobody

Acquire(p, step) ==
    /\ pc[p] = "idle"
    /\ LockIsFree
    /\ lock' = p
    /\ pc' = [pc EXCEPT ![p] = step]

Goto(p, step) == pc' = [pc EXCEPT ![p] = step]

\* The end of an operation, or of the process: the kernel frees its lock.
Leave(p) ==
    /\ pc' = [pc EXCEPT ![p] = "idle"]
    /\ lock' = IF lock = p THEN Nobody ELSE lock
    /\ base' = [base EXCEPT ![p] = NoBase]
    /\ stage' = [stage EXCEPT ![p] = 0]

-----------------------------------------------------------------------------
(***************************************************************************)
(* ScanFullStaged.                                                         *)
(***************************************************************************)
\* Fault: the newest database is spared instead of the published one.
OrphansButNewest == {d \in Databases \ {0, drawn} : db[d].status # "absent"}

\* removeOrphanedPublishedDatabaseGenerations: databases the pointer does not name.
Orphans == {d \in Databases \ {0, pointer} : db[d].status # "absent"}

\* The lock is taken and orphans are swept, each once it is an hour old.
StartRefresh(p) ==
    /\ Acquire(p, "base")
    /\ \E swept \in SUBSET Orphans :
           db' = [d \in Databases |-> IF d \in swept THEN Absent ELSE db[d]]
    /\ UNCHANGED <<pointer, drawn, base, stage, treeVars, saved, unguarded>>

\* Cancelled while it waits for the lock: the failure is recorded all the same.
AbandonWait(p) ==
    /\ pc[p] = "idle"
    /\ ~LockIsFree
    /\ recordFailure
    /\ UNCHANGED <<pointer, drawn, processVars, treeVars, saved, unguarded>>

ReadBase(p) ==
    /\ pc[p] = "base"
    /\ base' = [base EXCEPT ![p] = Current]
    /\ Goto(p, "scan")
    /\ UNCHANGED <<indexVars, lock, stage, treeVars, saved, unguarded>>

\* The staged scan reads the whole tree; seeded rows are verified against it.
ScanTree(p) ==
    /\ pc[p] = "scan"
    /\ present
    /\ stage' = [stage EXCEPT ![p] = tree]
    /\ unguarded' = (unguarded \/ rebase \in {"marked", "intent"})
    /\ Goto(p, "check")
    /\ UNCHANGED <<indexVars, lock, base, treeVars, saved>>

\* publishStagedFullScan: the base is unchanged, so the stage becomes the next
\* generation, with the baselines of the live database and a new revision; then
\* it is renamed to its final name.
\* Fault: the baselines come with the seed and are not copied again.
GenerationSeedBaselines(p) ==
    [status |-> "ready", gen |-> Current.gen + 1, content |-> stage[p], baseline |-> 0]

Generation(p) ==
    [status |-> "ready", gen |-> Current.gen + 1, content |-> stage[p],
     baseline |-> db[pointer].baseline]

RenameStage(p) ==
    /\ pc[p] = "check"
    /\ SameBase(p)
    /\ drawn < MaxDatabases /\ Current.gen < MaxGeneration
    /\ db' = [db EXCEPT ![drawn + 1] = Generation(p)]
    /\ stage' = [stage EXCEPT ![p] = drawn + 1]
    /\ drawn' = drawn + 1
    /\ Goto(p, "pointer")
    /\ UNCHANGED <<pointer, lock, base, treeVars, saved, unguarded>>

\* PublicationConflictError.
Conflict(p) ==
    /\ pc[p] = "check"
    /\ ~SameBase(p)
    /\ recordFailure
    /\ Leave(p)
    /\ UNCHANGED <<pointer, drawn, treeVars, saved, unguarded>>

\* publishDatabasePointer: one rename.
PublishPointer(p) ==
    /\ pc[p] = "pointer"
    /\ pointer' = stage[p]
    /\ Goto(p, "retire")
    /\ UNCHANGED <<db, drawn, lock, base, stage, treeVars, saved, unguarded>>

\* RemoveRetiredDatabaseGeneration: the database the refresh replaced, unless
\* the pointer still names it; best effort.  The lock is given back.
Retire(p) ==
    /\ pc[p] = "retire"
    /\ \/ /\ base[p].file # pointer
          /\ db' = [db EXCEPT ![base[p].file] = Absent]
       \/ UNCHANGED db
    /\ Leave(p)
    /\ UNCHANGED <<pointer, drawn, treeVars, saved, unguarded>>

\* Any step before the pointer commit may fail or be cancelled; most paths
\* record the failure.
FailRefresh(p) ==
    /\ pc[p] \in {"base", "scan", "check", "pointer"}
    /\ recordFailure \/ UNCHANGED db
    /\ Leave(p)
    /\ UNCHANGED <<pointer, drawn, treeVars, saved, unguarded>>

-----------------------------------------------------------------------------
(***************************************************************************)
(* ScanFiles and UpdateDiagnosticBaseline, in the current database.        *)
(***************************************************************************)
\* Fails without a trace unless the index is ready.
StartFiles(p) ==
    /\ Acquire(p, "files")
    /\ db[pointer].status = "ready"
    /\ base' = [base EXCEPT ![p] = Current]
    /\ UNCHANGED <<indexVars, stage, treeVars, saved, unguarded>>

\* One transaction on the database opened before; the status is not written.
\* Refreshing some files brings the index forward within the same project, and
\* never makes up for a tree that was replaced.
CommitFiles(p) ==
    LET f == base[p].file
    IN  /\ pc[p] = "files"
        /\ present
        /\ db[f].gen < MaxGeneration
        /\ \E v \in db[f].content..tree :
               /\ db[f].content < replacedAt => v < replacedAt
               /\ db' = [db EXCEPT ![f].content = v, ![f].gen = @ + 1]
        /\ Leave(p)
        /\ UNCHANGED <<pointer, drawn, treeVars, saved, unguarded>>

\* Nothing changed, or the transaction is rolled back.
AbandonFiles(p) ==
    /\ pc[p] = "files"
    /\ Leave(p)
    /\ UNCHANGED <<indexVars, treeVars, saved, unguarded>>

SaveBaseline(p) ==
    /\ pc[p] = "idle"
    /\ LockIsFree
    /\ saved < MaxSaves
    /\ saved' = saved + 1
    /\ db' = [db EXCEPT ![pointer] = [Created(@) EXCEPT !.baseline = saved + 1]]
    /\ UNCHANGED <<pointer, drawn, processVars, treeVars, unguarded>>

Crash(p) ==
    /\ pc[p] # "idle"
    /\ Leave(p)
    /\ UNCHANGED <<indexVars, treeVars, saved, unguarded>>

-----------------------------------------------------------------------------
(***************************************************************************)
(* The migration (PromoteRebase, RollbackRebase) and the user's editor.    *)
(***************************************************************************)
EditTree ==
    /\ present
    /\ tree < IF rebase = "idle" THEN MaxTree ELSE MaxTree - 1
    /\ tree' = tree + 1
    /\ UNCHANGED <<indexVars, processVars, present, rebase, markFile, replacedAt,
                   saved, unguarded>>

\* rebaseInvalidateIndex resolves the database path; there is nothing to mark
\* if no database exists yet, not even one that a first refresh will publish.
ResolveIndex ==
    /\ rebase = "idle"
    /\ tree < MaxTree
    /\ markFile' = pointer
    /\ \/ /\ db[pointer].status # "absent"
          /\ rebase' = "resolved"
          /\ UNCHANGED unguarded
       \/ /\ db[pointer].status = "absent"
          /\ rebase' = "marked"
          /\ unguarded' = (unguarded \/ \E p \in Processes : pc[p] \in {"check", "pointer"})
    /\ UNCHANGED <<indexVars, processVars, tree, present, replacedAt, saved>>

\* Fault: the reason is written where the status belongs.
MarkedReplaced(d) ==
    IF d.status = "absent" THEN d ELSE [d EXCEPT !.status = "project_tree_replaced"]

MarkedStale(d) == IF d.status = "absent" THEN d ELSE [d EXCEPT !.status = "stale"]

\* Otherwise that database is marked, without the publication lock.  The CAS of a
\* refresh misses the mark when it was evaluated before, when the mark went to
\* a database that was replaced meanwhile, or when its base was stale already.
MarkIndexStale ==
    /\ rebase = "resolved"
    /\ db' = [db EXCEPT ![markFile] = MarkedStale(@)]
    /\ rebase' = "marked"
    /\ unguarded' = (\/ unguarded
                     \/ markFile # pointer
                     \/ \E p \in Processes :
                            \/ pc[p] = "pointer"
                            \/ pc[p] = "check" /\ base[p].status = "stale")
    /\ UNCHANGED <<pointer, drawn, processVars, tree, present, markFile, replacedAt, saved>>

\* The durable intent, then the two renames; a process that died is resumed
\* from the intent, without another mark.
PersistIntent ==
    /\ rebase = "marked"
    /\ rebase' = "intent"
    /\ UNCHANGED <<indexVars, processVars, tree, present, markFile, replacedAt,
                   saved, unguarded>>

MoveProjectAside ==
    /\ rebase = "intent"
    /\ rebase' = "aside"
    /\ present' = FALSE
    /\ UNCHANGED <<indexVars, processVars, tree, markFile, replacedAt, saved, unguarded>>

MoveReplacementIn ==
    /\ rebase = "aside"
    /\ rebase' = "idle"
    /\ present' = TRUE
    /\ tree' = tree + 1
    /\ replacedAt' = tree + 1
    /\ UNCHANGED <<indexVars, processVars, markFile, saved, unguarded>>

CrashRebase ==
    /\ rebase \in {"resolved", "marked"}
    /\ rebase' = "idle"
    /\ UNCHANGED <<indexVars, processVars, tree, present, markFile, replacedAt,
                   saved, unguarded>>

-----------------------------------------------------------------------------
Process(p) ==
    \/ StartRefresh(p) \/ AbandonWait(p) \/ ReadBase(p) \/ ScanTree(p)
    \/ RenameStage(p) \/ Conflict(p) \/ PublishPointer(p) \/ Retire(p)
    \/ FailRefresh(p)
    \/ StartFiles(p) \/ CommitFiles(p) \/ AbandonFiles(p) \/ SaveBaseline(p)
    \/ Crash(p)

Migration ==
    \/ ResolveIndex \/ MarkIndexStale \/ PersistIntent
    \/ MoveProjectAside \/ MoveReplacementIn \/ CrashRebase

Next == (\E p \in Processes : Process(p)) \/ Migration \/ EditTree

Spec == Init /\ [][Next]_vars

-----------------------------------------------------------------------------
(***************************************************************************)
(* Properties.                                                             *)
(***************************************************************************)
\* Every variable has its type.
TypeOK ==
    /\ db \in [Databases -> [status : Statuses, gen : 0..MaxGeneration,
                             content : 0..MaxTree, baseline : 0..MaxSaves]]
    /\ pointer \in Databases
    /\ drawn \in Databases
    /\ lock \in Processes \cup {Nobody}
    /\ pc \in [Processes -> {"idle", "base", "scan", "check", "pointer", "retire", "files"}]
    /\ base \in [Processes -> [file : Databases, gen : 0..MaxGeneration, status : Statuses]]
    /\ stage \in [Processes -> Nat]
    /\ tree \in 0..MaxTree
    /\ present \in BOOLEAN
    /\ rebase \in {"idle", "resolved", "marked", "intent", "aside"}
    /\ markFile \in Databases
    /\ saved \in 0..MaxSaves
    /\ replacedAt \in 0..MaxTree
    /\ unguarded \in BOOLEAN

\* Once a generation was published, the pointer names a complete database in
\* every state, crashes, sweeps and removals included.
PublishedIsComplete == pointer # 0 => db[pointer].status \in {"ready", "stale"}

\* A publication follows on the generation it replaces: no generation, and no
\* incremental refresh of it, is lost to a publisher that started earlier.
PublicationFollowsOn ==
    [][pointer' # pointer =>
          /\ db'[pointer'].gen = db[pointer].gen + 1
          /\ db'[pointer'].content >= db[pointer].content]_vars

\* A diagnostic baseline that was acknowledged is in the published database
\* until the next one is saved, whatever is published meanwhile.
BaselinesSurvive == db[pointer].baseline = saved

\* The published index is ready, and describes a tree that was replaced or
\* that is just being replaced.
ReadyForOldTree ==
    /\ db[pointer].status = "ready"
    /\ rebase = "aside" \/ db[pointer].content < replacedAt

\* The publication CAS protects the stale mark: a refresh that read its base
\* before the mark cannot turn the index ready again.  Only a refresh out of
\* the CAS's sight can (see unguarded).
CASProtectsStaleMark == ReadyForOldTree => unguarded

-----------------------------------------------------------------------------
(***************************************************************************)
(* Statements of the repository that the code does not keep.               *)
(***************************************************************************)
\* index_generation.go:12-15: the mark is set "so no caller can keep reading
\* a ready generation that silently describes the old tree".  A published index
\* that is marked does not become ready again for the tree that is replaced.
\* (Where no index is published nothing is marked, which the code says.)
NoReadyIndexOfOldTree ==
    [][pointer # 0 /\ db[pointer].status = "stale" => ~ReadyForOldTree']_vars
=============================================================================
