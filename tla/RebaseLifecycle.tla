-------------------------- MODULE RebaseLifecycle --------------------------
(***************************************************************************)
(* The commands of one planned migration (internal/migrator/               *)
(* rebase_lifecycle.go, rebase_recovery.go): build, validate,              *)
(* approve-smoke, promote and rollback, each in a process that holds the   *)
(* lock of RebaseLock, over three directories and the manifest.  A command *)
(* may die, and every call of the file system may fail, between any two    *)
(* steps; the user edits the directories meanwhile.                        *)
(*                                                                         *)
(* A directory tree is the formal project as it was planned ("previous")   *)
(* or the migration copy ("promoted"), with its hash or edited since, and  *)
(* what it holds under the profile's preserve_paths, which no hash covers. *)
(***************************************************************************)
EXTENDS RebaseLock, Integers

CONSTANTS Entries,      \* the profile's preserve_paths
          MaxBehind     \* revisions a process can be away from the manifest (a bound)

ASSUME LifecycleAssumption == IsFiniteSet(Entries) /\ MaxBehind \in Nat

VARIABLES
    manifest,   \* transaction.Status of the record published last, with the phase
                \* where a command looks at it
    aside,      \* nothing is at the manifest's path, that record is its .previous
    tree,       \* per path: the directory that is there
    job,        \* per process: its command
    behind,     \* per process: the manifest's revision less the one it has in memory
    undone,     \* history: a completed swap was reversed after the manifest told of it
    stranded,   \* history: a command ended between its second rename and the checkpoint
    lost        \* history: a command ended with the manifest aside

lifecycleVars == <<manifest, aside, tree, job, behind, undone, stranded, lost>>
vars == <<lockVars, lifecycleVars>>

Open == {"ready", "building", "build_failed", "built", "validate_failed", "blocked",
         "validated", "approved"}
Statuses == Open \cup {"promoting", "promoted", "rolling_back", "rolled_back"}

Places == {"project", "backup", "output"}

Nothing == [e \in Entries |-> "none"]
NoTree == [of |-> "none", edited |-> FALSE, kept |-> Nothing]
FormalProject == [of |-> "previous", edited |-> FALSE, kept |-> [e \in Entries |-> "original"]]
MigrationCopy == [of |-> "promoted", edited |-> FALSE, kept |-> Nothing]

\* The hash of the directory at path is the recorded one of a tree.
IsTree(path, of) == tree[path].of = of /\ ~tree[path].edited
IsFree(path) == tree[path] = NoTree

NoJob == [at |-> "load", status |-> "ready", ok |-> "over", fail |-> "over", left |-> {}]

Init ==
    /\ LockInit
    /\ manifest = "ready"
    /\ aside = FALSE
    /\ tree = [path \in Places |-> IF path = "project" THEN FormalProject ELSE NoTree]
    /\ job = [p \in Processes |-> NoJob]
    /\ behind = [p \in Processes |-> 0]
    /\ undone = FALSE
    /\ stranded = FALSE
    /\ lost = FALSE

-----------------------------------------------------------------------------
\* One step of a command: at is where it is.
At(p, step) == Holds(p) /\ job[p].at = step

\* What a command that is over, with or without an error, remembers is dropped.
Goto(p, step) ==
    job' = [job EXCEPT ![p] =
              IF step = "over" THEN [NoJob EXCEPT !.at = "over"]
              ELSE [@ EXCEPT !.at = step, !.ok = "over", !.fail = "over"]]

\* Checkpoint a status, go on at ok, or at fail with the error.
Persist(p, status, ok, fail) ==
    job' = [job EXCEPT ![p] = [@ EXCEPT !.at = "compare", !.status = status,
                                        !.ok = ok, !.fail = fail]]

\* Fault: the target is replaced.
CanReplace(from, to) == ~IsFree(from)

\* os.Rename of a directory: the target must not be there.
CanMove(from, to) == ~IsFree(from) /\ IsFree(to)
Move(from, to) == tree' = [tree EXCEPT ![to] = tree[from], ![from] = NoTree]

\* The entry e of the directory at path becomes content.
Put(trees, path, e, content) == [trees EXCEPT ![path].kept[e] = content]

(***************************************************************************)
(* persistRebaseLifecycle: the revision is compared, the manifest is moved *)
(* aside and the new one put in its place, the report is written.  Each    *)
(* may fail.                                                               *)
(***************************************************************************)
IsCurrent(p) == behind[p] = 0

\* A manifest that is aside cannot be read.
CompareRevision(p) ==
    /\ At(p, "compare")
    /\ IF ~aside /\ IsCurrent(p) THEN job' = [job EXCEPT ![p].at = "replace"]
                                 ELSE Goto(p, job[p].fail)
    /\ UNCHANGED <<manifest, aside, tree, behind, undone, stranded, lost>>

\* replaceRebaseFileAtomically: one that is aside already (of a command that
\* runs at the same time) is put back and moved again.
MoveManifestAside(p) ==
    /\ At(p, "replace")
    /\ aside' = TRUE
    /\ job' = [job EXCEPT ![p].at = "put"]
    /\ UNCHANGED <<manifest, tree, behind, undone, stranded, lost>>

\* The new one is in its place and the report is written after it.  If that
\* fails the command takes its failure path although the manifest tells of the
\* step: it may reverse a swap that the manifest calls complete.
PutManifest(p) ==
    /\ At(p, "put")
    /\ manifest' = job[p].status
    /\ aside' = FALSE
    /\ behind' = [q \in Processes |->
                    IF q = p \/ lockPc[q] # "held" \/ job[q].at \in {"load", "over"} THEN 0
                    ELSE behind[q] - behind[p] + 1]
    /\ \A q \in Processes : behind'[q] \in -MaxBehind..MaxBehind
    /\ \/ Goto(p, job[p].ok) /\ UNCHANGED undone
       \/ Goto(p, job[p].fail) /\ undone' = (undone \/ job[p].fail = "unswap")
    /\ UNCHANGED <<tree, stranded, lost>>

\* The previous manifest is put back, unless that fails as well.
PutManifestFails(p) ==
    /\ At(p, "put")
    /\ aside' \in {aside, FALSE}
    /\ lost' = (lost \/ aside')
    /\ Goto(p, job[p].fail)
    /\ UNCHANGED <<manifest, tree, behind, undone, stranded>>

PersistFails(p) ==
    /\ \E step \in {"compare", "replace"} : At(p, step)
    /\ Goto(p, job[p].fail)
    /\ UNCHANGED <<manifest, aside, tree, behind, undone, stranded, lost>>

-----------------------------------------------------------------------------
(***************************************************************************)
(* The commands up to the approved copy.                                   *)
(***************************************************************************)
\* loadRebaseLifecycle, and the commands that accept this status.
Load(p) ==
    /\ At(p, "load")
    /\ \E step \in
          CASE manifest \in {"ready", "building", "build_failed"} -> {"build"}
            [] manifest \in {"built", "validate_failed"} -> {"validate"}
            [] manifest = "validated" -> {"validate", "approve"}
            [] manifest = "approved" -> {"validate", "approve", "promote"}
            [] manifest = "promoting" -> {"resume"}
            [] manifest = "promoted" -> {"rollback"}
            [] manifest = "rolling_back" -> {"resume"}
            [] OTHER -> {"over"} :
          IF aside \/ step = "over" THEN Goto(p, "over")
          ELSE job' = [job EXCEPT ![p].at = step, ![p].status = manifest]
    /\ behind' = [behind EXCEPT ![p] = 0]
    /\ UNCHANGED <<manifest, aside, tree, undone, stranded, lost>>

\* rebaseVerifyInputs (of the sources, only the formal project changes here).
InputsVerified == IsTree("project", "previous")

Build(p) ==
    /\ At(p, "build")
    /\ InputsVerified
    /\ \/ IsFree("output") /\ Persist(p, "building", "copy", "over")
       \/ /\ IsTree("output", "promoted")    \* a copy whose checkpoint was lost
          /\ job[p].status # "ready"
          /\ Persist(p, "built", "over", "over")
    /\ UNCHANGED <<manifest, aside, tree, behind, undone, stranded, lost>>

\* The copy is staged, verified against the inventory, and not yet there.
Copy(p) ==
    /\ At(p, "copy")
    /\ \/ IsFree("output") /\ Goto(p, "publish")
       \/ Persist(p, "build_failed", "over", "over")
    /\ UNCHANGED <<manifest, aside, tree, behind, undone, stranded, lost>>

PublishCopy(p) ==
    /\ At(p, "publish")
    /\ \/ /\ IsFree("output")
          /\ tree' = [tree EXCEPT !["output"] = MigrationCopy]
          /\ Persist(p, "built", "over", "over")
       \/ /\ Persist(p, "build_failed", "over", "over")
          /\ UNCHANGED tree
    /\ UNCHANGED <<manifest, aside, behind, undone, stranded, lost>>

Validate(p) ==
    /\ At(p, "validate")
    /\ InputsVerified
    /\ IsTree("output", "promoted")
    /\ Persist(p, IF job[p].status = "validate_failed" THEN "built" ELSE job[p].status,
               "validating", "over")
    /\ UNCHANGED <<manifest, aside, tree, behind, undone, stranded, lost>>

\* The load stacks are compared; an outcome resets the smoke approval.
Outcome(p) ==
    /\ At(p, "validating")
    /\ \E status \in {"validated", "blocked", "validate_failed"} :
          Persist(p, status, "over", "over")
    /\ UNCHANGED <<manifest, aside, tree, behind, undone, stranded, lost>>

ApproveSmoke(p) ==
    /\ At(p, "approve")
    /\ InputsVerified
    /\ IsTree("output", "promoted")
    /\ Persist(p, "approved", "over", "over")
    /\ UNCHANGED <<manifest, aside, tree, behind, undone, stranded, lost>>

-----------------------------------------------------------------------------
(***************************************************************************)
(* Promotion and rollback are one swap in two directions: the outgoing     *)
(* tree is parked, the incoming one becomes the formal project.            *)
(***************************************************************************)
Promotion == [running |-> "promoting", done |-> "promoted", outgoing |-> "previous",
              parked |-> "backup", incoming |-> "promoted", source |-> "output"]

Rollback == [running |-> "rolling_back", done |-> "rolled_back", outgoing |-> "promoted",
             parked |-> "output", incoming |-> "previous", source |-> "backup"]

SwapOf(p) == IF job[p].status \in {"promoting", "promoted"} THEN Promotion ELSE Rollback

\* rebasePromotionLayout, rebaseRollbackLayout.
AtStart(s) == /\ IsTree("project", s.outgoing)
              /\ IsFree(s.parked)
              /\ IsTree(s.source, s.incoming)
AtMoved(s) == /\ IsFree("project")
              /\ IsTree(s.parked, s.outgoing)
              /\ IsTree(s.source, s.incoming)
AtComplete(s) == /\ IsTree("project", s.incoming)
                 /\ IsTree(s.parked, s.outgoing)
                 /\ IsFree(s.source)

\* Fault: the swap begins before its intent is on disk.
PromoteAtOnce(p) ==
    /\ At(p, "promote")
    /\ AtStart(Promotion)
    /\ job' = [job EXCEPT ![p].at = "resume", ![p].status = "promoting"]
    /\ UNCHANGED <<manifest, aside, tree, behind, undone, stranded, lost>>

\* PromoteRebase up to the durable intent.
Promote(p) ==
    /\ At(p, "promote")
    /\ AtStart(Promotion)
    /\ Persist(p, "promoting", "resume", "over")
    /\ UNCHANGED <<manifest, aside, tree, behind, undone, stranded, lost>>

\* RollbackRebase up to the durable intent.
BeginRollback(p) ==
    /\ At(p, "rollback")
    /\ AtStart(Rollback)
    /\ Persist(p, "rolling_back", "resume", "over")
    /\ UNCHANGED <<manifest, aside, tree, behind, undone, stranded, lost>>

\* One turn of the loop of resumeRebasePromotion, resumeRebaseRollback.
Resume(p) ==
    LET s == SwapOf(p) IN
    /\ At(p, "resume")
    /\ \/ AtStart(s) /\ Goto(p, "park")
       \/ AtMoved(s) /\ Goto(p, "swap")
       \/ AtComplete(s) /\ Persist(p, s.done, "over", "over")
    /\ UNCHANGED <<manifest, aside, tree, behind, undone, stranded, lost>>

Park(p) ==
    LET s == SwapOf(p) IN
    /\ At(p, "park")
    /\ CanMove("project", s.parked)
    /\ Move("project", s.parked)
    /\ Persist(p, s.running, "resume", "unpark")
    /\ UNCHANGED <<manifest, aside, behind, undone, stranded, lost>>

Unpark(p) ==
    LET s == SwapOf(p) IN
    /\ At(p, "unpark")
    /\ CanMove(s.parked, "project")
    /\ Move(s.parked, "project")
    /\ Goto(p, "over")
    /\ UNCHANGED <<manifest, aside, behind, undone, stranded, lost>>

Swap(p) ==
    LET s == SwapOf(p) IN
    /\ At(p, "swap")
    /\ CanMove(s.source, "project")
    /\ Move(s.source, "project")
    /\ job' = [job EXCEPT ![p].at = "carry", ![p].left = Entries]
    /\ UNCHANGED <<manifest, aside, behind, undone, stranded, lost>>

\* Fault: the entries are carried back by a rollback alone.
CarriesBack(from, e) ==
    from = "output" /\ tree[from].kept[e] # "none" /\ tree["project"].kept[e] = "none"

\* Fault: an entry of the same name at the destination is replaced.
CarriesOver(from, e) == tree[from].kept[e] # "none"

\* carryRebasePreservedPaths moves an entry that is there and is not there yet.
Carries(from, e) == tree[from].kept[e] # "none" /\ tree["project"].kept[e] = "none"

CarryEntry(p) ==
    LET from == SwapOf(p).parked IN
    /\ At(p, "carry")
    /\ \E e \in job[p].left :
          /\ job' = [job EXCEPT ![p].left = @ \ {e}]
          /\ IF Carries(from, e)
             THEN /\ ~IsFree("project")
                  /\ tree' = Put(Put(tree, "project", e, tree[from].kept[e]),
                                 from, e, "none")
             ELSE UNCHANGED tree
    /\ UNCHANGED <<manifest, aside, behind, undone, stranded, lost>>

Carried(p) ==
    /\ At(p, "carry")
    /\ job[p].left = {}
    /\ Persist(p, SwapOf(p).done, "over", "unswap")
    /\ UNCHANGED <<manifest, aside, tree, behind, undone, stranded, lost>>

\* rebaseRestorePromoteStart, rebaseRestoreRollbackStart: three renames.
Unswap(p) ==
    LET s == SwapOf(p)
        Back(step, from, to, next) ==
            At(p, step) /\ CanMove(from, to) /\ Move(from, to) /\ Goto(p, next)
    IN  /\ \/ Back("unswap", "project", s.source, "restore")
           \/ Back("restore", s.parked, "project", "over")
           \/ Back("redo", s.source, "project", "over")
        /\ UNCHANGED <<manifest, aside, behind, undone, stranded, lost>>

-----------------------------------------------------------------------------
\* Any call fails and the command returns its error; a restore that fails is
\* followed by the attempt to redo.
Fails(p) ==
    /\ Holds(p)
    /\ job[p].at \notin {"over", "compare", "replace", "put", "publish"}
    /\ Goto(p, IF job[p].at = "restore" THEN "redo" ELSE "over")
    /\ stranded' = (stranded \/ job[p].at = "carry")
    /\ UNCHANGED <<manifest, aside, tree, behind, undone, lost>>

Work(p) ==
    /\ \/ CompareRevision(p) \/ MoveManifestAside(p) \/ PutManifest(p)
       \/ PersistFails(p) \/ PutManifestFails(p)
       \/ Load(p) \/ Build(p) \/ Copy(p) \/ PublishCopy(p) \/ Validate(p) \/ Outcome(p)
       \/ ApproveSmoke(p) \/ Promote(p) \/ BeginRollback(p) \/ Resume(p)
       \/ Park(p) \/ Unpark(p) \/ Swap(p) \/ CarryEntry(p) \/ Carried(p) \/ Unswap(p)
       \/ Fails(p)
    /\ UNCHANGED lockVars

\* lockRebaseLifecycle, and the file's heartbeat while the command runs.
Lock(p) == (Acquiring(p) \/ Heartbeat(p)) /\ UNCHANGED lifecycleVars

\* Fault: the revision of one command is that of the next.
ForgetJob(p) == /\ job' = [job EXCEPT ![p] = NoJob]
                /\ UNCHANGED behind

Forget(p) == /\ job' = [job EXCEPT ![p] = NoJob]
             /\ behind' = [behind EXCEPT ![p] = 0]

\* defer lock.Release().
Release(p) ==
    /\ job[p].at = "over"
    /\ Releasing(p)
    /\ IF lockPc'[p] = "idle" THEN Forget(p) ELSE UNCHANGED <<job, behind>>
    /\ UNCHANGED <<manifest, aside, tree, undone, stranded, lost>>

Crash(p) ==
    /\ LockCrash(p)
    /\ Forget(p)
    /\ stranded' = (stranded \/ job[p].at = "carry")
    /\ lost' = (lost \/ (aside /\ job[p].at = "put"))
    /\ UNCHANGED <<manifest, aside, tree, undone>>

\* The user edits a tree, or the tools of the project make a preserved entry anew.
Edit(path) ==
    /\ ~IsFree(path)
    /\ tree' = [tree EXCEPT ![path].edited = TRUE]
    /\ UNCHANGED <<lockVars, manifest, aside, job, behind, undone, stranded, lost>>

Recreate(e) ==
    /\ ~IsFree("project")
    /\ tree["project"].kept[e] = "none"
    /\ tree' = Put(tree, "project", e, "fresh")
    /\ UNCHANGED <<lockVars, manifest, aside, job, behind, undone, stranded, lost>>

Next ==
    \/ \E p \in Processes : Lock(p) \/ Work(p) \/ Release(p) \/ Crash(p)
    \/ \E path \in Places : Edit(path)
    \/ \E e \in Entries : Recreate(e)

Spec == Init /\ [][Next]_vars

-----------------------------------------------------------------------------
(***************************************************************************)
(* Properties.                                                             *)
(***************************************************************************)
Steps == {"load", "compare", "replace", "put", "build", "copy", "publish", "validate",
          "validating", "approve", "promote", "rollback", "resume", "park", "unpark",
          "swap", "carry", "unswap", "restore", "redo", "over"}

\* The variables have their types; a process without the lock has no command,
\* and one that has not loaded the manifest is not behind it.
TypeOK ==
    /\ LockTypeOK
    /\ manifest \in Statuses
    /\ tree \in [Places -> [of : {"none", "previous", "promoted"}, edited : BOOLEAN,
                            kept : [Entries -> {"none", "original", "fresh"}]]]
    /\ job \in [Processes -> [at : Steps, status : Statuses, ok : Steps \ {"load"},
                              fail : Steps \ {"load"}, left : SUBSET Entries]]
    /\ behind \in [Processes -> -MaxBehind..MaxBehind]
    /\ {aside, undone, stranded, lost} \subseteq BOOLEAN
    /\ \A p \in Processes : lockPc[p] \notin {"held", "remove"} => job[p] = NoJob
    /\ \A p \in Processes : job[p].at = "load" => behind[p] = 0

Copies(of) == {path \in Places : tree[path].of = of}

\* A migration never loses a tree: at every instant, whatever fails or dies
\* and whatever is undone, the formal project as it was is at its path or in
\* the sibling backup, and there is at most one migration copy.  Only where
\* two commands ran at once may they be elsewhere.
TreesInPlace ==
    /\ \E path \in Places : Copies("previous") = {path}
    /\ displaced \/ /\ Copies("previous") \subseteq {"project", "backup"}
                    /\ Cardinality(Copies("promoted")) <= 1

LayoutIs(project, backup, output) ==
    /\ tree["project"].of = project
    /\ tree["backup"].of = backup
    /\ tree["output"].of = output

SwapLayout == \/ LayoutIs("previous", "none", "promoted")
                 \/ LayoutIs("none", "previous", "promoted")
                 \/ LayoutIs("promoted", "previous", "none")

\* The manifest tells a later command where the directories are: before the
\* intent the project is in its place, with the intent the layout is one of
\* the three that resuming accepts, and afterwards it is the final one.
StatusTellsLayout ==
    /\ manifest \in Open =>
          tree["project"].of = "previous" /\ IsFree("backup")
    /\ manifest \in {"promoting", "rolling_back"} => SwapLayout
    /\ manifest = "promoted" => LayoutIs("promoted", "previous", "none")
    /\ manifest = "rolled_back" => LayoutIs("previous", "none", "promoted")

\* It does while commands exclude each other and no completed swap is undone;
\* and it is at its path, but while a command replaces it, or for good after a
\* command has ended between the two renames that replace it: then nothing but
\* its .previous tells the layout, and no command reads that.
StatusTellsLayoutUnlessUndone ==
    \/ displaced \/ undone
    \/ /\ StatusTellsLayout
       /\ aside => lost \/ \E p \in Processes : At(p, "put")

\* rebase_recovery.go:140: an intent "converges from any of the three safe
\* filesystem layouts".  So it would at least be true between commands; but an
\* error of the report after the last checkpoint reverses a swap that the
\* manifest calls complete, and no command takes it up again.
SettledStatusTellsLayout ==
    \/ displaced
    \/ \E p \in Processes : Holds(p)
    \/ StatusTellsLayout

Originals(e) == {path \in Places : tree[path].kept[e] = "original"}

\* A preserved entry exists exactly once, wherever the swaps, their undoing
\* and the entries made meanwhile leave it: it is neither copied nor replaced.
PreservedOnce == \A e \in Entries : \E path \in Places : Originals(e) = {path}

\* The preserved entries are with the formal project when a swap is complete,
\* if no command ended between the second rename and the checkpoint.
PreservedFollow ==
    \/ displaced \/ undone \/ stranded
    \/ manifest \in {"promoted", "rolled_back"} =>
          \A e \in Entries : tree["project"].kept[e] # "none"

\* The lock file at the path is the holder's: nobody removes or replaces the
\* lock of a running command, and so at most one command runs, unless a claim
\* moved a living holder's file aside or put a dead one's back over it.
HolderOwnsLock ==
    \/ displaced
    \/ \A p \in Processes : lockPc[p] \in {"held", "remove"} => lockFile.owner = p
=============================================================================
