----------------------- MODULE RebaseLifecycleProofs -----------------------
(***************************************************************************)
(* Theorems about RebaseLock and RebaseLifecycle, for any number of        *)
(* processes and any preserved entries.                                    *)
(***************************************************************************)
EXTENDS RebaseLifecycle, FiniteSetTheorems, TLAPS

(***************************************************************************)
(* The lock.                                                               *)
(***************************************************************************)
LockStep(p) == Acquiring(p) \/ Heartbeat(p) \/ Releasing(p) \/ LockCrash(p)

\* The files that the end of a command leaves are files of a claim.
LEMMA EndTypes ==
    ASSUME NEW p \in Processes,
           NEW file \in LockFiles \cup {NoFile},
           NEW moved \in [Processes -> LockFiles \cup {NoFile}],
           LockTypeOK, End(p, file, moved)
    PROVE  /\ lockFile' \in LockFiles \cup {NoFile}
           /\ quarantine' \in [Processes -> LockFiles \cup {NoFile}]
           /\ expected' = [expected EXCEPT ![p] = Nobody]
           /\ lockPc' = [lockPc EXCEPT ![p] = "idle"]
           /\ \A q \in Processes \ {p} : file.owner = q => lockFile' = file
  <1> DEFINE known == {file.owner} \cup {moved[q].owner : q \in Processes}
                          \cup {expected[q] : q \in Processes \ {p}}
             ghost == CHOOSE g \in Ghosts \ known : TRUE
             Left(f) == IF f.owner = p THEN [owner |-> ghost, written |-> f.written] ELSE f
  <1>1. p \in known => ghost \in Ghosts
    BY DEF End
  <1>2. lockFile' = Left(file) /\ quarantine' = [q \in Processes |-> Left(moved[q])]
    BY DEF End
  <1>3. file.owner \in known /\ \A q \in Processes : moved[q].owner \in known
    OBVIOUS
  <1> HIDE DEF known, ghost
  <1>4. \A f \in LockFiles \cup {NoFile} : f.owner \in known => Left(f) \in LockFiles \cup {NoFile}
    <2> SUFFICES ASSUME NEW f \in LockFiles \cup {NoFile}, f.owner \in known
                 PROVE  Left(f) \in LockFiles \cup {NoFile}
      OBVIOUS
    <2>1. f.written \in BOOLEAN
      <3>1. CASE f \in LockFiles
        BY <3>1 DEF LockFiles
      <3>2. CASE f = NoFile
        BY <3>2, NoFile.written = FALSE DEF NoFile
      <3> QED
        BY <3>1, <3>2
    <2>2. CASE f.owner = p
      BY <1>1, <2>1, <2>2 DEF LockFiles
    <2>3. CASE f.owner # p
      BY <2>3
    <2> QED
      BY <2>2, <2>3
  <1>5. \A q \in Processes \ {p} : file.owner = q => Left(file) = file
    OBVIOUS
  <1> HIDE DEF Left
  <1>6. lockFile' \in LockFiles \cup {NoFile}
    BY <1>2, <1>3, <1>4
  <1>7. \A q \in Processes : Left(moved[q]) \in LockFiles \cup {NoFile}
    BY <1>3, <1>4
  <1>8. quarantine' \in [Processes -> LockFiles \cup {NoFile}]
    BY <1>2, <1>7
  <1>9. expected' = [expected EXCEPT ![p] = Nobody] /\ lockPc' = [lockPc EXCEPT ![p] = "idle"]
    BY DEF End, GotoLock
  <1> QED
    BY <1>2, <1>5, <1>6, <1>8, <1>9

\* A process that has created the file or runs its command owns the file.
Owning == {"created", "held", "remove"}
OwnersOwn == displaced \/ \A p \in Processes : lockPc[p] \in Owning => lockFile.owner = p

LockInv == LockTypeOK /\ OwnersOwn

LEMMA LockInitially == ASSUME LockInit PROVE LockInv
  BY DEF LockInit, LockInv, LockTypeOK, OwnersOwn, Owning, LockFiles, NoFile, Nobody, Holds

\* A step of the lock keeps its type and its owner's file.
LEMMA LockPreserved ==
    ASSUME LockInv, NEW p \in Processes, LockStep(p)
    PROVE  LockInv'
  <1> USE LockAssumption DEF LockInv, LockTypeOK, OwnersOwn, Owning, Holds, GotoLock
  <1>0. /\ p \notin Ghosts /\ Nobody \notin Processes
        /\ NoFile \notin LockFiles /\ NoFile.owner = Nobody
        /\ \A f \in LockFiles \cup {NoFile} : f # NoFile => f \in LockFiles
    BY DEF Ghosts, Nobody, NoFile, LockFiles
  <1>1. CASE Claim(p)
    <2>1. CASE lockFile = NoFile /\ lockFile' = [owner |-> p, written |-> FALSE]
      <3>1. displaced \/ \A q \in Processes : lockPc[q] \notin Owning
        BY <1>0, <2>1
      <3>2. lockFile' \in LockFiles /\ lockFile'.owner = p
        BY <2>1 DEF LockFiles
      <3> QED
        BY <1>0, <1>1, <2>1, <3>1, <3>2 DEF Claim
    <2>2. CASE lockFile # NoFile
      BY <1>0, <1>1, <2>2 DEF Claim
    <2> QED
      BY <1>1, <2>1, <2>2 DEF Claim
  <1>2. CASE WriteRecord(p)
    <2>1. \A f \in LockFiles \cup {NoFile} :
             Written(f, p) \in LockFiles \cup {NoFile} /\ Written(f, p).owner = f.owner
      BY <1>0 DEF Written, LockFiles
    <2> QED
      BY <1>2, <2>1 DEF WriteRecord
  <1>3. CASE WriteRecordFails(p)
    BY <1>0, <1>3, EndTypes DEF WriteRecordFails
  <1>4. CASE InspectFails(p)
    BY <1>0, <1>4, EndTypes DEF InspectFails, GiveUp
  <1>5. CASE InspectAbandoned(p)
    BY <1>0, <1>5 DEF InspectAbandoned, Abandoned
  <1>6. CASE MoveAside(p)
    <2>1. LockTypeOK'
      BY <1>0, <1>6 DEF MoveAside
    <2>2. displaced' \/ (~displaced /\ lockFile.owner = expected[p])
      BY <1>6 DEF MoveAside
    <2>3. expected[p] \notin Processes
      BY <1>0, LockAssumption DEF Ghosts, Nobody
    <2>4. CASE ~displaced /\ lockFile.owner = expected[p]
      BY <1>6, <2>3, <2>4 DEF MoveAside
    <2> QED
      BY <2>1, <2>2, <2>4
  <1>7. CASE MoveAsideFails(p)
    BY <1>0, <1>7, EndTypes DEF MoveAsideFails, GiveUp
  <1>8. CASE RestoreMoved(p)
    <2> DEFINE moved == [quarantine EXCEPT ![p] = NoFile]
    <2>1. moved \in [Processes -> LockFiles \cup {NoFile}] /\ lockPc[p] = "moved"
      BY <1>8 DEF RestoreMoved
    <2> HIDE DEF moved
    <2>2. CASE End(p, quarantine[p], moved) /\ displaced' = (displaced \/ lockFile # NoFile)
      <3>1. displaced' \/ \A q \in Processes : lockPc[q] \notin Owning
        BY <1>0, <2>2
      <3>2. quarantine[p] \in LockFiles \cup {NoFile}
        OBVIOUS
      <3> QED
        BY <1>0, <1>8, <2>1, <2>2, <3>1, <3>2, EndTypes DEF RestoreMoved
    <2>3. CASE End(p, lockFile, moved) /\ UNCHANGED displaced
      BY <1>0, <1>8, <2>1, <2>3, EndTypes DEF RestoreMoved
    <2> QED
      BY <1>8, <2>2, <2>3 DEF RestoreMoved, moved
  <1>9. CASE RemoveMoved(p)
    BY <1>0, <1>9 DEF RemoveMoved
  <1>10. CASE Reclaim(p)
    BY <1>0, <1>10 DEF Reclaim, LockFiles
  <1>11. CASE ReclaimFails(p)
    BY <1>0, <1>11, EndTypes DEF ReclaimFails, GiveUp
  <1>12. CASE RefreshRead(p)
    BY <1>0, <1>12 DEF RefreshRead
  <1>13. CASE RefreshWrite(p)
    BY <1>0, <1>13 DEF RefreshWrite, LockFiles
  <1>14. CASE ReleaseCheck(p)
    BY <1>0, <1>14 DEF ReleaseCheck
  <1>15. CASE ReleaseFails(p)
    BY <1>0, <1>15, EndTypes DEF ReleaseFails, GiveUp
  <1>16. CASE ReleaseRemove(p)
    BY <1>0, <1>16, EndTypes DEF ReleaseRemove
  <1>17. CASE LockCrash(p)
    <2> DEFINE moved == [quarantine EXCEPT ![p] = NoFile]
    <2>1. moved \in [Processes -> LockFiles \cup {NoFile}]
      OBVIOUS
    <2>2. End(p, lockFile, moved) /\ beating' = beating \ {p} /\ UNCHANGED displaced
      BY <1>17 DEF LockCrash
    <2> HIDE DEF moved
    <2> QED
      BY <1>0, <2>1, <2>2, EndTypes
  <1> QED
    BY <1>1, <1>2, <1>3, <1>4, <1>5, <1>6, <1>7, <1>8, <1>9, <1>10, <1>11, <1>12,
       <1>13, <1>14, <1>15, <1>16, <1>17 DEF LockStep, Acquiring, Heartbeat, Releasing

\* What the lock step of a process leaves to the others.
LEMMA LockStepLocal ==
    ASSUME LockTypeOK, NEW p \in Processes, LockStep(p), NEW q \in Processes, q # p
    PROVE  lockPc'[q] = lockPc[q]
  BY DEF LockStep, Acquiring, Heartbeat, Releasing, LockTypeOK, GotoLock, End, GiveUp,
         Claim, WriteRecord, WriteRecordFails, InspectFails, InspectAbandoned, MoveAside,
         MoveAsideFails, RestoreMoved, RemoveMoved, Reclaim, ReclaimFails, RefreshRead,
         RefreshWrite, ReleaseCheck, ReleaseFails, ReleaseRemove, LockCrash

\* Acquiring starts from a process without a command, releasing from one with.
LEMMA LockStepPlace ==
    ASSUME LockTypeOK, NEW p \in Processes
    PROVE  /\ Acquiring(p) => lockPc[p] \notin {"held", "remove"} /\ lockPc'[p] # "remove"
           /\ Heartbeat(p) => lockPc' = lockPc
           /\ Releasing(p) => lockPc[p] \in {"held", "remove"}
                              /\ lockPc'[p] \in {"remove", "idle"}
           /\ LockCrash(p) => lockPc'[p] = "idle"
  BY DEF Acquiring, Heartbeat, Releasing, LockTypeOK, GotoLock, End, GiveUp, Holds,
         Claim, WriteRecord, WriteRecordFails, InspectFails, InspectAbandoned, MoveAside,
         MoveAsideFails, RestoreMoved, RemoveMoved, Reclaim, ReclaimFails, RefreshRead,
         RefreshWrite, ReleaseCheck, ReleaseFails, ReleaseRemove, LockCrash

-----------------------------------------------------------------------------
(***************************************************************************)
(* Types.                                                                  *)
(***************************************************************************)
Later == Steps \ {"load"}
Jobs == [at : Steps, status : Statuses, ok : Later, fail : Later, left : SUBSET Entries]
TreeType == [of : {"none", "previous", "promoted"}, edited : BOOLEAN,
             kept : [Entries -> {"none", "original", "fresh"}]]

\* The lifecycle's part of TypeOK, and what it says of commands and locks.
LifecycleTypeOK ==
    /\ manifest \in Statuses
    /\ tree \in [Places -> TreeType]
    /\ job \in [Processes -> Jobs]
    /\ behind \in [Processes -> -MaxBehind..MaxBehind]
    /\ aside \in BOOLEAN /\ undone \in BOOLEAN /\ stranded \in BOOLEAN /\ lost \in BOOLEAN

JobsLocked ==
    \A p \in Processes : /\ lockPc[p] \notin {"held", "remove"} => job[p] = NoJob
                         /\ job[p].at = "load" => behind[p] = 0

LEMMA TypeOKParts == TypeOK <=> LockTypeOK /\ LifecycleTypeOK /\ JobsLocked
  BY DEF TypeOK, LifecycleTypeOK, JobsLocked, Jobs, Later, TreeType

LEMMA Constants ==
    /\ NoTree \in TreeType /\ MigrationCopy \in TreeType /\ FormalProject \in TreeType
    /\ NoJob \in Jobs
    /\ Open \subseteq Statuses
    /\ Promotion.parked = "backup" /\ Promotion.source = "output"
    /\ Promotion.running = "promoting" /\ Promotion.done = "promoted"
    /\ Promotion.outgoing = "previous" /\ Promotion.incoming = "promoted"
    /\ Rollback.parked = "output" /\ Rollback.source = "backup"
    /\ Rollback.running = "rolling_back" /\ Rollback.done = "rolled_back"
    /\ Rollback.outgoing = "promoted" /\ Rollback.incoming = "previous"
    /\ \A p \in Processes : SwapOf(p) \in {Promotion, Rollback}
  BY DEF NoTree, MigrationCopy, FormalProject, Nothing, NoJob, TreeType, Jobs, Open,
         Statuses, Steps, Later, Promotion, Rollback, SwapOf

LEMMA GotoTypes ==
    ASSUME job \in [Processes -> Jobs], NEW p \in Processes, NEW step \in Later, Goto(p, step)
    PROVE  /\ job' \in [Processes -> Jobs]
           /\ job'[p].at = step
           /\ step = "over" => job'[p].left = {}
           /\ \A q \in Processes \ {p} : job'[q] = job[q]
  <1>1. CASE step = "over"
    <2> DEFINE done == [NoJob EXCEPT !.at = "over"]
    <2>1. job' = [job EXCEPT ![p] = done]
      BY <1>1 DEF Goto
    <2>2. done \in Jobs /\ done.at = "over" /\ done.left = {}
      BY Constants DEF NoJob, Jobs, Steps, Later, Statuses, Open
    <2> HIDE DEF done
    <2> QED
      BY <1>1, <2>1, <2>2
  <1>2. CASE step # "over"
    <2> DEFINE new == [job[p] EXCEPT !.at = step, !.ok = "over", !.fail = "over"]
    <2>1. job' = [job EXCEPT ![p] = new]
      BY <1>2 DEF Goto
    <2>2. job[p] \in Jobs /\ "over" \in Later /\ step \in Steps
      BY DEF Steps, Later
    <2>3. new \in Jobs /\ new.at = step
      BY <2>2 DEF Jobs
    <2> HIDE DEF new
    <2> QED
      BY <1>2, <2>1, <2>3
  <1> QED
    BY <1>1, <1>2

LEMMA PersistTypes ==
    ASSUME job \in [Processes -> Jobs], NEW p \in Processes, NEW status \in Statuses,
           NEW ok \in Later, NEW fail \in Later, Persist(p, status, ok, fail)
    PROVE  /\ job' \in [Processes -> Jobs]
           /\ job'[p].at = "compare" /\ job'[p].status = status
           /\ job'[p].ok = ok /\ job'[p].fail = fail
           /\ \A q \in Processes \ {p} : job'[q] = job[q]
  <1> DEFINE new == [job[p] EXCEPT !.at = "compare", !.status = status,
                                   !.ok = ok, !.fail = fail]
  <1>1. job' = [job EXCEPT ![p] = new]
    BY DEF Persist
  <1>2. job[p] \in Jobs /\ "compare" \in Steps
    BY DEF Steps
  <1>3. /\ new \in Jobs
        /\ new.at = "compare" /\ new.status = status /\ new.ok = ok /\ new.fail = fail
    BY <1>2 DEF Jobs
  <1> HIDE DEF new
  <1> QED
    BY <1>1, <1>3

LEMMA MoveTypes ==
    ASSUME tree \in [Places -> TreeType], NEW from \in Places, NEW to \in Places, Move(from, to)
    PROVE  tree' \in [Places -> TreeType]
  BY Constants DEF Move

LEMMA PutTypes ==
    ASSUME NEW trees \in [Places -> TreeType], NEW path \in Places, NEW e \in Entries,
           NEW content \in {"none", "original", "fresh"}
    PROVE  /\ Put(trees, path, e, content) \in [Places -> TreeType]
           /\ \A q \in Places :
                 /\ Put(trees, path, e, content)[q].of = trees[q].of
                 /\ Put(trees, path, e, content)[q].edited = trees[q].edited
                 /\ \A f \in Entries :
                       Put(trees, path, e, content)[q].kept[f] =
                           IF q = path /\ f = e THEN content ELSE trees[q].kept[f]
  <1> DEFINE kept == [trees[path].kept EXCEPT ![e] = content]
             new == [trees[path] EXCEPT !.kept = kept]
             all == [trees EXCEPT ![path] = new]
  <1>1. Put(trees, path, e, content) = all
    BY DEF Put
  <1>2. trees[path] \in TreeType /\ trees[path].kept \in [Entries -> {"none", "original", "fresh"}]
    BY DEF TreeType
  <1>3. /\ kept \in [Entries -> {"none", "original", "fresh"}]
        /\ \A f \in Entries : kept[f] = IF f = e THEN content ELSE trees[path].kept[f]
    BY <1>2
  <1> HIDE DEF kept
  <1>4. /\ new \in TreeType /\ new.kept = kept
        /\ new.of = trees[path].of /\ new.edited = trees[path].edited
    BY <1>2, <1>3 DEF TreeType
  <1> HIDE DEF new
  <1>5. all \in [Places -> TreeType] /\ \A q \in Places : all[q] = IF q = path THEN new ELSE trees[q]
    BY <1>4
  <1> HIDE DEF all
  <1> QED
    BY <1>1, <1>3, <1>4, <1>5

\* Every step of a command keeps the types, and never goes back to loading.
LEMMA WorkTypes ==
    ASSUME LifecycleTypeOK, JobsLocked, NEW p \in Processes, Work(p)
    PROVE  LifecycleTypeOK' /\ JobsLocked'
  <1> USE DEF LifecycleTypeOK
  <1>0. /\ lockPc[p] = "held" /\ lockPc' = lockPc
        /\ job[p] \in Jobs /\ job[p].ok \in Later /\ job[p].fail \in Later
        /\ job[p].status \in Statuses
    <2>1. Holds(p) /\ lockPc' = lockPc
      BY DEF Work, lockVars, CompareRevision, MoveManifestAside, PutManifest,
             PutManifestFails, PersistFails, Load, Build, Copy, PublishCopy, Validate, Outcome,
             ApproveSmoke, Promote, BeginRollback, Resume, Park, Unpark, Swap, CarryEntry,
             Carried, Unswap, Fails, At
    <2>2. job[p] \in Jobs
      OBVIOUS
    <2>3. job[p].ok \in Later /\ job[p].fail \in Later /\ job[p].status \in Statuses
      BY <2>2 DEF Jobs
    <2> QED
      BY <2>1, <2>2, <2>3 DEF Holds
  <1>1. SUFFICES /\ LifecycleTypeOK'
                 /\ job'[p].at # "load"
                 /\ \A q \in Processes \ {p} :
                       job'[q] = job[q] /\ (job[q].at = "load" => behind'[q] = 0)
    BY <1>0 DEF JobsLocked
  <1>2. \A q \in Processes : job[q].at = "load" => behind[q] = 0
    BY DEF JobsLocked
  <1>3. \A s \in {"compare", "replace", "put", "build", "copy", "publish", "validate",
          "validating", "approve", "promote", "rollback", "resume", "park", "unpark",
          "swap", "carry", "unswap", "restore", "redo", "over"} : s \in Later /\ s # "load"
    BY DEF Steps, Later
  <1>4. \A s \in Later : s # "load"
    BY DEF Later
  \* A step goes on, checkpoints or changes one field of the command.
  <1>5. ASSUME NEW step \in Later, Goto(p, step), manifest' \in Statuses,
               behind' \in [Processes -> -MaxBehind..MaxBehind],
               \A q \in Processes : job[q].at = "load" => behind'[q] = 0,
               tree' \in [Places -> TreeType], aside' \in BOOLEAN, undone' \in BOOLEAN,
               stranded' \in BOOLEAN, lost' \in BOOLEAN
        PROVE  /\ LifecycleTypeOK' /\ job'[p].at # "load"
               /\ \A q \in Processes \ {p} :
                     job'[q] = job[q] /\ (job[q].at = "load" => behind'[q] = 0)
    BY <1>4, <1>5, GotoTypes
  <1>6. ASSUME NEW status \in Statuses, NEW ok \in Later, NEW fail \in Later,
               Persist(p, status, ok, fail),
               UNCHANGED <<manifest, aside, behind, undone, stranded, lost>>,
               tree' \in [Places -> TreeType]
        PROVE  /\ LifecycleTypeOK' /\ job'[p].at # "load"
               /\ \A q \in Processes \ {p} :
                     job'[q] = job[q] /\ (job[q].at = "load" => behind'[q] = 0)
    BY <1>2, <1>6, PersistTypes
  <1>7. CASE CompareRevision(p)
    <2>1. CASE ~aside /\ IsCurrent(p)
      BY <1>0, <1>2, <1>3, <1>7, <2>1 DEF CompareRevision, Jobs, Steps
    <2>2. CASE ~(~aside /\ IsCurrent(p))
      BY <1>0, <1>2, <1>5, <1>7, <2>2 DEF CompareRevision
    <2> QED
      BY <2>1, <2>2
  <1>8. CASE MoveManifestAside(p)
    BY <1>0, <1>2, <1>3, <1>8 DEF MoveManifestAside, Jobs, Steps
  <1>9. CASE PutManifest(p)
    <2>1. /\ behind' \in [Processes -> -MaxBehind..MaxBehind]
          /\ \A q \in Processes : job[q].at = "load" => behind'[q] = 0
      BY <1>9 DEF PutManifest
    <2> QED
      BY <1>0, <1>5, <1>9, <2>1 DEF PutManifest
  <1>10. CASE PersistFails(p) \/ PutManifestFails(p)
    BY <1>0, <1>2, <1>5, <1>10 DEF PersistFails, PutManifestFails
  <1>11. CASE Load(p)
    <2>1. PICK step \in {"build", "validate", "approve", "promote", "resume", "rollback",
                         "over"} :
             IF step = "over" THEN Goto(p, "over")
             ELSE job' = [job EXCEPT ![p].at = step, ![p].status = manifest]
      BY <1>11 DEF Load
    <2>2. step \in Later /\ step \in Steps /\ step # "load"
      BY DEF Later, Steps
    <2>3. /\ job' \in [Processes -> Jobs] /\ job'[p].at = step
          /\ \A q \in Processes \ {p} : job'[q] = job[q]
      <3>1. CASE step = "over"
        BY <2>1, <2>2, <3>1, GotoTypes
      <3>2. CASE step # "over"
        <4> DEFINE new == [job[p] EXCEPT !.at = step, !.status = manifest]
        <4>1. new \in Jobs /\ new.at = step
          BY <1>0, <2>2 DEF Jobs
        <4>2. job' = [job EXCEPT ![p] = new]
          BY <2>1, <3>2
        <4> HIDE DEF new
        <4> QED
          BY <4>1, <4>2
      <3> QED
        BY <3>1, <3>2
    <2>4. behind' = [behind EXCEPT ![p] = 0] /\ 0 \in -MaxBehind..MaxBehind
      BY <1>11, LifecycleAssumption DEF Load
    <2> QED
      BY <1>2, <1>11, <2>2, <2>3, <2>4 DEF Load
  <1>12. CASE Build(p)
    BY <1>3, <1>6, <1>12, Constants DEF Build, Open
  <1>13. CASE Copy(p)
    BY <1>2, <1>3, <1>5, <1>6, <1>13, Constants DEF Copy, Open
  <1>14. CASE PublishCopy(p)
    <2>1. tree' \in [Places -> TreeType]
      BY <1>14, Constants DEF PublishCopy, Places
    <2> QED
      BY <1>3, <1>6, <1>14, <2>1, Constants DEF PublishCopy, Open
  <1>15. CASE Validate(p)
    BY <1>0, <1>3, <1>6, <1>15, Constants DEF Validate, Open
  <1>16. CASE Outcome(p)
    BY <1>3, <1>6, <1>16, Constants DEF Outcome, Open
  <1>17. CASE ApproveSmoke(p)
    BY <1>3, <1>6, <1>17, Constants DEF ApproveSmoke, Open
  <1>18. CASE Promote(p)
    BY <1>3, <1>6, <1>18 DEF Promote, Statuses
  <1>19. CASE BeginRollback(p)
    BY <1>3, <1>6, <1>19 DEF BeginRollback, Statuses
  <1>20. SwapOf(p).parked \in Places /\ SwapOf(p).source \in Places /\ "project" \in Places
    BY Constants DEF Places
  <1>21. SwapOf(p).running \in Statuses /\ SwapOf(p).done \in Statuses
    BY Constants DEF Statuses
  <1>22. CASE Resume(p)
    BY <1>2, <1>3, <1>5, <1>6, <1>21, <1>22 DEF Resume
  <1>23. CASE Park(p)
    BY <1>3, <1>6, <1>20, <1>21, <1>23, MoveTypes DEF Park
  <1>24. CASE Unpark(p)
    BY <1>2, <1>3, <1>5, <1>20, <1>24, MoveTypes DEF Unpark
  <1>25. CASE Swap(p)
    BY <1>0, <1>2, <1>3, <1>20, <1>25, MoveTypes DEF Swap, Jobs, Steps
  <1>26. CASE CarryEntry(p)
    <2>1. PICK e \in job[p].left :
             /\ job' = [job EXCEPT ![p].left = @ \ {e}]
             /\ \/ UNCHANGED tree
                \/ tree' = Put(Put(tree, "project", e, tree[SwapOf(p).parked].kept[e]),
                               SwapOf(p).parked, e, "none")
      BY <1>26 DEF CarryEntry
    <2>2. job[p].left \subseteq Entries /\ job[p].at = "carry"
      BY <1>0, <1>26 DEF Jobs, CarryEntry, At
    <2>3. /\ job' \in [Processes -> Jobs] /\ job'[p].at = "carry"
          /\ \A q \in Processes \ {p} : job'[q] = job[q]
      BY <1>0, <2>1, <2>2 DEF Jobs
    <2>4. tree' \in [Places -> TreeType]
      <3>1. tree[SwapOf(p).parked].kept[e] \in {"none", "original", "fresh"}
        <4>1. tree[SwapOf(p).parked] \in TreeType /\ e \in Entries
          BY <1>20, <2>1, <2>2
        <4>2. tree[SwapOf(p).parked].kept \in [Entries -> {"none", "original", "fresh"}]
          BY <4>1 DEF TreeType
        <4> QED
          BY <4>1, <4>2
      <3> DEFINE first == Put(tree, "project", e, tree[SwapOf(p).parked].kept[e])
      <3>2. first \in [Places -> TreeType] /\ e \in Entries
        BY <1>20, <2>2, <3>1, PutTypes
      <3> HIDE DEF first
      <3>3. Put(first, SwapOf(p).parked, e, "none") \in [Places -> TreeType]
        BY <1>20, <3>2, PutTypes
      <3> QED
        BY <2>1, <3>3 DEF first
    <2> QED
      BY <1>2, <1>26, <2>3, <2>4 DEF CarryEntry
  <1>27. CASE Carried(p)
    BY <1>3, <1>6, <1>21, <1>27 DEF Carried
  <1>28. CASE Unswap(p)
    BY <1>2, <1>3, <1>5, <1>20, <1>28, MoveTypes DEF Unswap
  <1>29. CASE Fails(p)
    BY <1>2, <1>3, <1>5, <1>29 DEF Fails
  <1> QED
    BY <1>7, <1>8, <1>9, <1>10, <1>11, <1>12, <1>13, <1>14, <1>15, <1>16, <1>17, <1>18,
       <1>19, <1>22, <1>23, <1>24, <1>25, <1>26, <1>27, <1>28, <1>29 DEF Work

\* Init and every step keep the types.
LEMMA TypesInitially == ASSUME Init PROVE TypeOK
  <1>1. LockTypeOK
    BY LockInitially DEF Init, LockInv
  <1>2. LifecycleTypeOK
    <2>1. /\ manifest \in Statuses /\ aside \in BOOLEAN /\ undone \in BOOLEAN
          /\ stranded \in BOOLEAN /\ lost \in BOOLEAN
      BY DEF Init, Statuses, Open
    <2>2. tree \in [Places -> TreeType]
      BY Constants DEF Init
    <2>3. job \in [Processes -> Jobs] /\ behind \in [Processes -> -MaxBehind..MaxBehind]
      BY Constants, LifecycleAssumption DEF Init
    <2> QED
      BY <2>1, <2>2, <2>3 DEF LifecycleTypeOK
  <1>3. JobsLocked
    BY DEF Init, LockInit, JobsLocked
  <1> QED
    BY <1>1, <1>2, <1>3, TypeOKParts

LEMMA ForgetTypes ==
    ASSUME LifecycleTypeOK, NEW p \in Processes, Forget(p)
    PROVE  /\ job' \in [Processes -> Jobs] /\ behind' \in [Processes -> -MaxBehind..MaxBehind]
           /\ job'[p] = NoJob /\ behind'[p] = 0
           /\ \A q \in Processes \ {p} : job'[q] = job[q] /\ behind'[q] = behind[q]
  BY Constants, LifecycleAssumption DEF Forget, LifecycleTypeOK

LEMMA TypesPreserved ==
    ASSUME TypeOK, OwnersOwn, [Next]_vars
    PROVE  TypeOK' /\ OwnersOwn'
  <1>0. LockTypeOK /\ LifecycleTypeOK /\ JobsLocked /\ LockInv
    BY TypeOKParts DEF LockInv
  <1>1. SUFFICES LockTypeOK' /\ OwnersOwn' /\ LifecycleTypeOK' /\ JobsLocked'
    BY TypeOKParts DEF TypeOK, LifecycleTypeOK, JobsLocked, Jobs, Later, TreeType
  <1>2. ASSUME NEW p \in Processes, Lock(p)
        PROVE  LockTypeOK' /\ OwnersOwn' /\ LifecycleTypeOK' /\ JobsLocked'
    <2>1. LockStep(p) /\ UNCHANGED lifecycleVars
      BY <1>2 DEF Lock, LockStep
    <2>2. LockInv'
      BY <1>0, <2>1, LockPreserved
    <2>3. LifecycleTypeOK'
      BY <1>0, <2>1 DEF LifecycleTypeOK, lifecycleVars
    <2>4. JobsLocked'
      BY <1>0, <1>2, <2>1, LockStepLocal, LockStepPlace DEF JobsLocked, lifecycleVars, Lock
    <2> QED
      BY <2>2, <2>3, <2>4 DEF LockInv
  <1>3. ASSUME NEW p \in Processes, Work(p)
        PROVE  LockTypeOK' /\ OwnersOwn' /\ LifecycleTypeOK' /\ JobsLocked'
    <2>1. UNCHANGED lockVars
      BY <1>3 DEF Work
    <2>2. LockTypeOK' /\ OwnersOwn'
      BY <1>0, <2>1 DEF lockVars, LockTypeOK, OwnersOwn, Holds
    <2> QED
      BY <1>0, <1>3, <2>2, WorkTypes
  <1>4. ASSUME NEW p \in Processes, Release(p) \/ Crash(p)
        PROVE  LockTypeOK' /\ OwnersOwn' /\ LifecycleTypeOK' /\ JobsLocked'
    <2>1. LockStep(p)
      BY <1>4 DEF Release, Crash, LockStep
    <2>2. LockInv'
      BY <1>0, <2>1, LockPreserved
    <2>3. /\ UNCHANGED <<manifest, aside, tree, undone>>
          /\ stranded' \in BOOLEAN /\ lost' \in BOOLEAN
      BY <1>0, <1>4 DEF Release, Crash, LifecycleTypeOK
    <2>4. CASE Forget(p)
      <3>1. LifecycleTypeOK'
        BY <1>0, <2>3, <2>4, ForgetTypes DEF LifecycleTypeOK
      <3>2. JobsLocked'
        BY <1>0, <2>1, <2>4, ForgetTypes, LockStepLocal DEF JobsLocked
      <3> QED
        BY <2>2, <3>1, <3>2 DEF LockInv
    <2>5. CASE Release(p) /\ lockPc'[p] # "idle" /\ UNCHANGED <<job, behind>>
      <3>1. LifecycleTypeOK'
        BY <1>0, <2>3, <2>5 DEF LifecycleTypeOK
      <3>2. lockPc'[p] = "remove"
        BY <1>0, <2>5, LockStepPlace DEF Release
      <3>3. JobsLocked'
        BY <1>0, <2>1, <2>5, <3>2, LockStepLocal DEF JobsLocked
      <3> QED
        BY <2>2, <3>1, <3>3 DEF LockInv
    <2> QED
      BY <1>4, <2>4, <2>5 DEF Release, Crash
  <1>5. ASSUME tree' \in [Places -> TreeType],
               UNCHANGED <<lockVars, manifest, aside, job, behind, undone, stranded, lost>>
        PROVE  LockTypeOK' /\ OwnersOwn' /\ LifecycleTypeOK' /\ JobsLocked'
    <2>1. LockTypeOK' /\ OwnersOwn'
      BY <1>0, <1>5 DEF lockVars, LockTypeOK, OwnersOwn, Holds
    <2>2. LifecycleTypeOK' /\ JobsLocked'
      BY <1>0, <1>5 DEF lockVars, LifecycleTypeOK, JobsLocked
    <2> QED
      BY <2>1, <2>2
  <1>6. ASSUME NEW path \in Places, Edit(path)
        PROVE  tree' \in [Places -> TreeType]
    <2> DEFINE new == [tree[path] EXCEPT !.edited = TRUE]
    <2>1. tree[path] \in TreeType
      BY <1>0 DEF LifecycleTypeOK
    <2>2. new \in TreeType
      BY <2>1 DEF TreeType
    <2>3. tree' = [tree EXCEPT ![path] = new]
      BY <1>6 DEF Edit
    <2> HIDE DEF new
    <2> QED
      BY <1>0, <2>2, <2>3 DEF LifecycleTypeOK
  <1>7. ASSUME NEW e \in Entries, Recreate(e)
        PROVE  tree' \in [Places -> TreeType]
    BY <1>0, <1>7, PutTypes DEF Recreate, LifecycleTypeOK, Places
  <1>8. CASE UNCHANGED vars
    BY <1>0, <1>5, <1>8 DEF vars, lifecycleVars, LifecycleTypeOK
  <1> QED
    BY <1>2, <1>3, <1>4, <1>5, <1>6, <1>7, <1>8 DEF Next, Edit, Recreate

-----------------------------------------------------------------------------
(***************************************************************************)
(* What is in the directories.                                             *)
(***************************************************************************)
\* A path without a tree has no hash and no entries.
NoHoles == \A path \in Places : tree[path].of = "none" => IsFree(path)

Moved == \E from, to \in Places : CanMove(from, to) /\ Move(from, to)
Published == IsFree("output") /\ tree' = [tree EXCEPT !["output"] = MigrationCopy]
EntryCarried ==
    \E from \in {"backup", "output"}, e \in Entries :
        /\ Carries(from, e)
        /\ ~IsFree("project")
        /\ tree' = Put(Put(tree, "project", e, tree[from].kept[e]), from, e, "none")
Edited ==
    \E path \in Places : ~IsFree(path) /\ tree' = [tree EXCEPT ![path].edited = TRUE]
EntryMade ==
    \E e \in Entries : /\ ~IsFree("project")
                       /\ tree["project"].kept[e] = "none"
                       /\ tree' = Put(tree, "project", e, "fresh")

LEMMA CarrySteps ==
    ASSUME TypeOK, NEW p \in Processes, CarryEntry(p)
    PROVE  UNCHANGED tree \/ EntryCarried
  <1>1. SwapOf(p).parked \in {"backup", "output"}
    BY Constants
  <1>2. job[p].left \subseteq Entries
    BY DEF TypeOK
  <1> QED
    BY <1>1, <1>2 DEF CarryEntry, EntryCarried

\* The ways in which a step changes the directories.
LEMMA TreeSteps ==
    ASSUME TypeOK, [Next]_vars
    PROVE  UNCHANGED tree \/ Moved \/ Published \/ EntryCarried \/ Edited \/ EntryMade
  <1>1. ASSUME NEW p \in Processes, Work(p)
        PROVE  UNCHANGED tree \/ Moved \/ Published \/ EntryCarried
    <2>1. /\ SwapOf(p).parked \in {"backup", "output"}
          /\ SwapOf(p).source \in Places /\ SwapOf(p).parked \in Places /\ "project" \in Places
      BY Constants DEF Places
    <2>2. CASE Park(p) \/ Unpark(p) \/ Swap(p)
      BY <2>1, <2>2 DEF Park, Unpark, Swap, Moved
    <2>3. CASE Unswap(p)
      BY <2>1, <2>3 DEF Unswap, Moved
    <2>4. CASE PublishCopy(p)
      BY <2>4 DEF PublishCopy, Published
    <2>5. CASE CarryEntry(p)
      BY <2>5, CarrySteps
    <2>6. CASE \/ CompareRevision(p) \/ MoveManifestAside(p) \/ PutManifest(p)
               \/ PutManifestFails(p) \/ PersistFails(p) \/ Load(p) \/ Build(p) \/ Copy(p) \/ Validate(p)
               \/ Outcome(p) \/ ApproveSmoke(p) \/ Promote(p) \/ BeginRollback(p)
               \/ Resume(p) \/ Carried(p) \/ Fails(p)
      BY <2>6 DEF CompareRevision, MoveManifestAside, PutManifest, PutManifestFails,
                  PersistFails, Load, Build, Copy, Validate, Outcome, ApproveSmoke, Promote, BeginRollback, Resume,
                  Carried, Fails
    <2> QED
      BY <1>1, <2>2, <2>3, <2>4, <2>5, <2>6 DEF Work
  <1>2. ASSUME NEW p \in Processes, Lock(p) \/ Release(p) \/ Crash(p)
        PROVE  UNCHANGED tree
    BY <1>2 DEF Lock, Release, Crash, lifecycleVars
  <1> QED
    BY <1>1, <1>2 DEF Next, Edit, Recreate, Edited, EntryMade, vars, lifecycleVars

\* An entry that is carried is at the project and no longer where it was.
LEMMA CarryEffect ==
    ASSUME tree \in [Places -> TreeType], NEW from \in {"backup", "output"}, NEW e \in Entries,
           tree' = Put(Put(tree, "project", e, tree[from].kept[e]), from, e, "none")
    PROVE  /\ \A q \in Places : tree'[q].of = tree[q].of
           /\ \A q \in Places, f \in Entries : f # e => tree'[q].kept[f] = tree[q].kept[f]
           /\ tree'["project"].kept[e] = tree[from].kept[e]
           /\ \A q \in Places \ {"project"} :
                 tree'[q].kept[e] = IF q = from THEN "none" ELSE tree[q].kept[e]
  <1> DEFINE content == tree[from].kept[e]
             first == Put(tree, "project", e, content)
  <1>1. from \in Places /\ "project" \in Places /\ from # "project"
    BY DEF Places
  <1>2. content \in {"none", "original", "fresh"}
    <2>1. tree[from] \in TreeType
      BY <1>1
    <2>2. tree[from].kept \in [Entries -> {"none", "original", "fresh"}]
      BY <2>1 DEF TreeType
    <2> QED
      BY <2>2
  <1> HIDE DEF content
  <1>3. /\ first \in [Places -> TreeType]
        /\ \A q \in Places : /\ first[q].of = tree[q].of
                             /\ \A f \in Entries : first[q].kept[f] =
                                   IF q = "project" /\ f = e THEN content ELSE tree[q].kept[f]
    BY <1>1, <1>2, PutTypes
  <1> HIDE DEF first
  <1>4. \A q \in Places : /\ Put(first, from, e, "none")[q].of = first[q].of
                          /\ \A f \in Entries : Put(first, from, e, "none")[q].kept[f] =
                                IF q = from /\ f = e THEN "none" ELSE first[q].kept[f]
    BY <1>1, <1>3, PutTypes
  <1>5. tree' = Put(first, from, e, "none")
    BY DEF first, content
  <1> QED
    BY <1>1, <1>3, <1>4, <1>5 DEF content

LEMMA Contents ==
    /\ NoTree.of = "none" /\ MigrationCopy.of = "promoted" /\ FormalProject.of = "previous"
    /\ \A e \in Entries : /\ NoTree.kept[e] = "none" /\ MigrationCopy.kept[e] = "none"
                          /\ FormalProject.kept[e] = "original"
  BY DEF NoTree, MigrationCopy, FormalProject, Nothing

\* os.Rename moves one tree and all that is in it.
LEMMA MoveEffect ==
    ASSUME TypeOK, NEW from \in Places, NEW to \in Places, CanMove(from, to), Move(from, to)
    PROVE  /\ from # to /\ tree[from] # NoTree /\ tree[to] = NoTree
           /\ tree'[from] = NoTree /\ tree'[to] = tree[from]
           /\ \A q \in Places \ {from, to} : tree'[q] = tree[q]
  <1>1. tree \in [Places -> TreeType]
    BY TypeOKParts DEF LifecycleTypeOK
  <1> QED
    BY <1>1 DEF CanMove, Move, IsFree

LEMMA PublishEffect ==
    ASSUME TypeOK, Published
    PROVE  /\ tree["output"] = NoTree /\ tree'["output"] = MigrationCopy
           /\ \A q \in Places \ {"output"} : tree'[q] = tree[q]
  <1>1. tree \in [Places -> TreeType] /\ "output" \in Places
    BY TypeOKParts DEF LifecycleTypeOK, Places
  <1> QED
    BY <1>1 DEF Published, IsFree

\* Edits and entries leave the trees where they are.
LEMMA QuietEffect ==
    ASSUME TypeOK, UNCHANGED tree \/ EntryCarried \/ Edited \/ EntryMade
    PROVE  \A q \in Places : tree'[q].of = tree[q].of
  <1>1. tree \in [Places -> TreeType] /\ "project" \in Places
    BY TypeOKParts DEF LifecycleTypeOK, Places
  <1>2. CASE EntryCarried
    <2>1. PICK from \in {"backup", "output"}, e \in Entries :
             tree' = Put(Put(tree, "project", e, tree[from].kept[e]), from, e, "none")
      BY <1>2 DEF EntryCarried
    <2> QED
      BY <1>1, <2>1, CarryEffect
  <1>3. CASE Edited
    BY <1>1, <1>3 DEF Edited, TreeType
  <1>4. CASE EntryMade
    BY <1>1, <1>4, PutTypes DEF EntryMade
  <1> QED
    BY <1>2, <1>3, <1>4

PreviousOnce == \E path \in Places : Copies("previous") = {path}
DirectoriesInv == NoHoles /\ PreviousOnce /\ PreservedOnce

LEMMA DirectoriesInitially == ASSUME Init PROVE DirectoriesInv
  <1>1. /\ "project" \in Places /\ tree["project"] = FormalProject
        /\ \A q \in Places \ {"project"} : tree[q] = NoTree
    BY DEF Init, Places
  <1>2. NoHoles
    BY <1>1, Contents DEF NoHoles, IsFree
  <1>3. Copies("previous") = {"project"}
    BY <1>1, Contents DEF Copies
  <1>4. \A e \in Entries : Originals(e) = {"project"}
    BY <1>1, Contents DEF Originals
  <1> QED
    BY <1>1, <1>2, <1>3, <1>4 DEF DirectoriesInv, PreviousOnce, PreservedOnce

LEMMA DirectoriesPreserved ==
    ASSUME TypeOK, TypeOK', DirectoriesInv, [Next]_vars
    PROVE  DirectoriesInv'
  <1> USE DEF NoHoles, IsFree
  <1>0. NoHoles /\ PreviousOnce /\ PreservedOnce
    BY DEF DirectoriesInv
  <1>1. ASSUME NEW from \in Places, NEW to \in Places, CanMove(from, to), Move(from, to)
        PROVE  DirectoriesInv'
    <2>1. /\ from # to /\ tree[to] = NoTree /\ tree'[from] = NoTree /\ tree'[to] = tree[from]
          /\ \A q \in Places \ {from, to} : tree'[q] = tree[q]
      BY <1>1, MoveEffect
    <2> DEFINE Target(path) == IF path = from THEN to ELSE path
    <2>2. NoHoles'
      BY <1>0, <2>1
    <2>3. ASSUME NEW path \in Places, Copies("previous") = {path}
          PROVE  Copies("previous")' = {Target(path)}
      BY <2>1, <2>3, Contents DEF Copies
    <2>4. ASSUME NEW e \in Entries, NEW path \in Places, Originals(e) = {path}
          PROVE  Originals(e)' = {Target(path)}
      BY <2>1, <2>4, Contents DEF Originals
    <2>5. \A path \in Places : Target(path) \in Places
      OBVIOUS
    <2> HIDE DEF Target
    <2> QED
      BY <1>0, <2>2, <2>3, <2>4, <2>5 DEF DirectoriesInv, PreviousOnce, PreservedOnce
  <1>2. CASE Published
    <2>1. /\ tree["output"] = NoTree /\ tree'["output"] = MigrationCopy
          /\ \A q \in Places \ {"output"} : tree'[q] = tree[q]
      BY <1>2, PublishEffect
    <2>2. NoHoles'
      BY <1>0, <2>1, Contents
    <2>3. Copies("previous")' = Copies("previous")
      BY <2>1, Contents DEF Copies
    <2>4. \A e \in Entries : Originals(e)' = Originals(e)
      BY <2>1, Contents DEF Originals
    <2> QED
      BY <1>0, <2>2, <2>3, <2>4 DEF DirectoriesInv, PreviousOnce, PreservedOnce
  <1>3. CASE EntryCarried
    <2>1. PICK from \in {"backup", "output"}, e \in Entries :
             /\ Carries(from, e) /\ ~IsFree("project")
             /\ tree' = Put(Put(tree, "project", e, tree[from].kept[e]), from, e, "none")
      BY <1>3 DEF EntryCarried
    <2>2. tree \in [Places -> TreeType] /\ from \in Places /\ "project" \in Places
          /\ from # "project"
      BY TypeOKParts DEF LifecycleTypeOK, Places
    <2>3. /\ \A q \in Places : tree'[q].of = tree[q].of
          /\ \A q \in Places, f \in Entries : f # e => tree'[q].kept[f] = tree[q].kept[f]
          /\ tree'["project"].kept[e] = tree[from].kept[e]
          /\ \A q \in Places \ {"project"} :
                tree'[q].kept[e] = IF q = from THEN "none" ELSE tree[q].kept[e]
      BY <2>1, <2>2, CarryEffect
    <2>4. tree["project"].kept[e] = "none" /\ tree[from].kept[e] # "none"
      BY <2>1 DEF Carries
    <2>5. NoHoles'
      <3>1. tree["project"].of # "none" /\ tree[from].of # "none"
        BY <1>0, <2>1, <2>2, <2>4, Contents
      <3>2. \A q \in Places \ {"project", from} : tree'[q] = tree[q]
        BY <2>1, <2>2 DEF Put
      <3> QED
        BY <1>0, <2>3, <3>1, <3>2
    <2>6. PreviousOnce'
      BY <1>0, <2>3 DEF PreviousOnce, Copies
    <2>7. \A f \in Entries \ {e} : Originals(f)' = Originals(f)
      BY <2>3 DEF Originals
    <2>8. Originals(e)' = IF tree[from].kept[e] = "original" THEN {"project"} ELSE Originals(e)
      <3>1. PICK path \in Places : Originals(e) = {path}
        BY <1>0 DEF PreservedOnce
      <3>2. CASE tree[from].kept[e] = "original"
        <4>1. path = from
          BY <2>2, <3>1, <3>2 DEF Originals
        <4>2. \A q \in Places \ {from} : tree[q].kept[e] # "original"
          BY <3>1, <4>1 DEF Originals
        <4>3. \A q \in Places \ {"project"} : tree'[q].kept[e] # "original"
          BY <2>3, <4>2
        <4>4. tree'["project"].kept[e] = "original"
          BY <2>3, <3>2
        <4> QED
          BY <2>2, <3>2, <4>3, <4>4 DEF Originals
      <3>3. CASE tree[from].kept[e] # "original"
        BY <2>2, <2>3, <2>4, <3>3 DEF Originals
      <3> QED
        BY <3>2, <3>3
    <2> QED
      BY <1>0, <2>2, <2>5, <2>6, <2>7, <2>8 DEF DirectoriesInv, PreservedOnce
  <1>4. CASE Edited
    <2>1. PICK path \in Places :
             ~IsFree(path) /\ tree' = [tree EXCEPT ![path].edited = TRUE]
      BY <1>4 DEF Edited
    <2>2. tree \in [Places -> TreeType]
      BY TypeOKParts DEF LifecycleTypeOK
    <2>3. /\ \A q \in Places \ {path} : tree'[q] = tree[q]
          /\ tree'[path].of = tree[path].of /\ tree'[path].kept = tree[path].kept
      BY <2>1, <2>2 DEF TreeType
    <2>4. NoHoles'
      BY <1>0, <2>1, <2>3
    <2>5. Copies("previous")' = Copies("previous") /\ \A e \in Entries : Originals(e)' = Originals(e)
      BY <2>3 DEF Copies, Originals
    <2> QED
      BY <1>0, <2>4, <2>5 DEF DirectoriesInv, PreviousOnce, PreservedOnce
  <1>5. CASE EntryMade
    <2>1. PICK e \in Entries : /\ ~IsFree("project") /\ tree["project"].kept[e] = "none"
                               /\ tree' = Put(tree, "project", e, "fresh")
      BY <1>5 DEF EntryMade
    <2>2. tree \in [Places -> TreeType] /\ "project" \in Places
      BY TypeOKParts DEF LifecycleTypeOK, Places
    <2>3. \A q \in Places : /\ tree'[q].of = tree[q].of
                            /\ \A f \in Entries : tree'[q].kept[f] =
                                  IF q = "project" /\ f = e THEN "fresh" ELSE tree[q].kept[f]
      BY <2>1, <2>2, PutTypes
    <2>4. \A q \in Places \ {"project"} : tree'[q] = tree[q]
      BY <2>1, <2>2 DEF Put
    <2>5. NoHoles'
      BY <1>0, <2>1, <2>2, <2>3, <2>4
    <2>6. Copies("previous")' = Copies("previous")
      BY <2>3 DEF Copies
    <2>7. \A f \in Entries : Originals(f)' = Originals(f)
      BY <2>1, <2>2, <2>3 DEF Originals
    <2> QED
      BY <1>0, <2>5, <2>6, <2>7 DEF DirectoriesInv, PreviousOnce, PreservedOnce
  <1>6. CASE UNCHANGED tree
    BY <1>0, <1>6 DEF DirectoriesInv, PreviousOnce, PreservedOnce, Copies, Originals
  <1> QED
    BY <1>1, <1>2, <1>3, <1>4, <1>5, <1>6, TreeSteps DEF Moved

-----------------------------------------------------------------------------
(***************************************************************************)
(* Where the directories are, by the manifest and by what the one command  *)
(* that runs knows.                                                        *)
(***************************************************************************)
Unbuilt == LayoutIs("previous", "none", "none")
Before == LayoutIs("previous", "none", "promoted")
Midway == LayoutIs("none", "previous", "promoted")
After == LayoutIs("promoted", "previous", "none")

BuildSteps == {"build", "copy", "publish", "validate", "validating", "approve", "promote"}
PersistSteps == {"compare", "replace", "put"}
SwapSteps == {"rollback", "resume", "park", "unpark", "swap", "carry", "unswap", "restore", "redo"}

Promotes(p) == job[p].status \in {"promoting", "promoted"}
StartOf(p) == IF Promotes(p) THEN Before ELSE After
EndOf(p) == IF Promotes(p) THEN After ELSE Before
RunningOf(p) == IF Promotes(p) THEN "promoting" ELSE "rolling_back"

\* With nothing assumed of reversed swaps.
StatusPlaces == /\ manifest \in Open => Unbuilt \/ Before
                /\ manifest \notin Open => Before \/ Midway \/ After
                /\ ~undone => /\ manifest = "promoted" => After
                              /\ manifest = "rolled_back" => Before

\* The checkpoint that is being written.
OpenCheckpoint(p) ==
    /\ job[p].status \in Open /\ manifest \in Open
    /\ job[p].fail = "over" /\ job[p].ok \in {"over", "copy", "validating"}

PromotionIntent(p) ==
    /\ job[p].status = "promoting" /\ job[p].fail = "over" /\ job[p].ok = "resume"
    /\ Before /\ manifest \in Open

RollbackIntent(p) ==
    /\ job[p].status = "rolling_back" /\ job[p].fail = "over" /\ job[p].ok = "resume"
    /\ After /\ manifest = "promoted"

ParkCheckpoint(p) ==
    /\ job[p].status \in {"promoting", "rolling_back"}
    /\ job[p].fail = "unpark" /\ job[p].ok = "resume"
    /\ manifest \notin Open
    /\ ~undone => manifest = job[p].status /\ Midway

DoneCheckpoint(p) ==
    /\ job[p].status \in {"promoted", "rolled_back"}
    /\ job[p].fail \in {"over", "unswap"} /\ job[p].ok = "over"
    /\ manifest \notin Open
    /\ ~undone => EndOf(p) /\ manifest = RunningOf(p)

Knows(p) ==
    /\ job[p].at \in BuildSteps => manifest \in Open /\ job[p].status \in Open
    /\ job[p].at \in PersistSteps =>
          \/ OpenCheckpoint(p) \/ PromotionIntent(p) \/ RollbackIntent(p)
          \/ ParkCheckpoint(p) \/ DoneCheckpoint(p)
    /\ job[p].at \in SwapSteps => manifest \notin Open
    /\ job[p].at = "rollback" => manifest = "promoted"
    /\ job[p].at \in {"resume", "park", "swap", "carry", "unpark"} =>
          job[p].status \in {"promoting", "rolling_back"}
    /\ ~undone =>
          /\ job[p].at \in {"resume", "park", "swap", "carry", "unpark"} => manifest = job[p].status
          /\ job[p].at \in {"unswap", "restore", "redo"} =>
                job[p].status \in {"promoted", "rolled_back"} /\ manifest = RunningOf(p)
          /\ job[p].at = "park" => StartOf(p)
          /\ job[p].at \in {"swap", "unpark", "restore", "redo"} => Midway
          /\ job[p].at \in {"carry", "unswap"} => EndOf(p)

LayoutInv == displaced \/ (StatusPlaces /\ \A p \in Processes : Holds(p) => Knows(p))

LEMMA StatusFacts ==
    /\ \A s \in {"promoting", "promoted", "rolling_back", "rolled_back"} : s \notin Open
    /\ \A s \in {"ready", "building", "build_failed", "built", "validate_failed", "blocked",
                 "validated", "approved"} : s \in Open
    /\ \A s \in Statuses \ Open : s \in {"promoting", "promoted", "rolling_back", "rolled_back"}
  BY DEF Open, Statuses

\* The directions of a swap in terms of the layouts.
LEMMA SwapFacts ==
    ASSUME NEW p \in Processes
    PROVE  /\ AtStart(SwapOf(p)) => StartOf(p)
           /\ AtMoved(SwapOf(p)) /\ NoHoles => Midway
           /\ AtComplete(SwapOf(p)) => EndOf(p)
           /\ AtStart(Promotion) => Before
           /\ AtStart(Rollback) => After
           /\ Promotes(p) => SwapOf(p) = Promotion
           /\ ~Promotes(p) => SwapOf(p) = Rollback
  BY Contents DEF AtStart, AtMoved, AtComplete, IsTree, IsFree, SwapOf, Promotion, Rollback,
         StartOf, EndOf, Promotes, Before, Midway, After, LayoutIs

\* The moves of a swap, from layout to layout.
LEMMA SwapMoves ==
    ASSUME TypeOK, NoHoles, NEW p \in Processes,
           NEW from \in Places, NEW to \in Places, CanMove(from, to), Move(from, to)
    PROVE  /\ (Before \/ Midway \/ After) /\ "project" \in {from, to} =>
                 (Before \/ Midway \/ After)'
           /\ Before /\ from = "project" /\ to = "backup" => Midway'
           /\ After /\ from = "project" /\ to = "output" => Midway'
           /\ Midway /\ from = "backup" /\ to = "project" => Before'
           /\ Midway /\ from = "output" /\ to = "project" => After'
  <1>1. /\ from # to /\ tree[from] # NoTree /\ tree[to] = NoTree
        /\ tree'[from] = NoTree /\ tree'[to] = tree[from]
        /\ \A q \in Places \ {from, to} : tree'[q] = tree[q]
    BY MoveEffect
  <1>2. \A q \in Places : tree[q].of = "none" <=> tree[q] = NoTree
    BY Contents DEF NoHoles, IsFree
  <1> QED
    BY <1>1, <1>2, Contents DEF Before, Midway, After, LayoutIs, Places

\* A checkpoint, or going on, changes where the command is and nothing else.
LEMMA LayoutStable ==
    ASSUME \A q \in Places : tree'[q].of = tree[q].of
    PROVE  /\ Unbuilt' = Unbuilt /\ Before' = Before /\ Midway' = Midway /\ After' = After
  BY DEF Unbuilt, Before, Midway, After, LayoutIs, Places

\* A step of the command that runs.
LEMMA WorkPlaces ==
    ASSUME TypeOK, TypeOK', NoHoles, NEW p \in Processes, StatusPlaces, Knows(p), Work(p)
    PROVE  StatusPlaces' /\ Knows(p)'
  <1>0. /\ job \in [Processes -> Jobs] /\ job' \in [Processes -> Jobs]
        /\ job[p].ok \in Later /\ job[p].fail \in Later
        /\ job[p] \in Jobs /\ manifest \in Statuses /\ undone \in BOOLEAN
    <2>1. job \in [Processes -> Jobs] /\ manifest \in Statuses /\ undone \in BOOLEAN
      BY TypeOKParts DEF LifecycleTypeOK
    <2>2. job' \in [Processes -> Jobs]
      BY DEF TypeOK, Jobs, Later
    <2> QED
      BY <2>1, <2>2 DEF Jobs
  <1> USE DEF StatusPlaces, BuildSteps, PersistSteps, SwapSteps
  \* Where the layout and the manifest stay, only the knowledge is to be shown.
  <1>1. ASSUME NEW step \in Later, Goto(p, step)
        PROVE  job'[p].at = step /\ (step # "over" => job'[p].status = job[p].status)
    BY <1>0, <1>1, GotoTypes DEF Goto, Jobs
  <1>2. ASSUME NEW status \in Statuses, NEW ok \in Later, NEW fail \in Later,
               Persist(p, status, ok, fail)
        PROVE  /\ job'[p].at = "compare" /\ job'[p].status = status
               /\ job'[p].ok = ok /\ job'[p].fail = fail
    BY <1>0, <1>2, PersistTypes
  <1>3. ASSUME job'[p].at = "over" PROVE Knows(p)'
    BY <1>3 DEF Knows
  <1>4. \A step \in BuildSteps \cup PersistSteps \cup SwapSteps \cup {"over"} : step \in Later
    BY DEF Later, Steps
  <1>5. ASSUME UNCHANGED tree
        PROVE  /\ Unbuilt' = Unbuilt /\ Before' = Before /\ Midway' = Midway /\ After' = After
    BY <1>5, LayoutStable
  <1>6. ASSUME job[p].at \in PersistSteps, Goto(p, job[p].fail),
               UNCHANGED <<manifest, tree, undone>>
        PROVE  StatusPlaces' /\ Knows(p)'
    <2>1. StatusPlaces'
      BY <1>5, <1>6
    <2>2. CASE job[p].fail = "over"
      <3>1. job'[p].at = "over"
        BY <1>1, <1>4, <1>6, <2>2
      <3> QED
        BY <1>3, <2>1, <3>1
    <2>3. job[p].fail # "over" =>
             /\ job'[p].at = job[p].fail /\ job'[p].status = job[p].status
             /\ (Promotes(p)' = Promotes(p)) /\ (EndOf(p)' = EndOf(p))
             /\ RunningOf(p)' = RunningOf(p)
      BY <1>0, <1>1, <1>5, <1>6 DEF Promotes, EndOf, RunningOf
    <2>4. CASE ParkCheckpoint(p)
      BY <1>5, <1>6, <2>3, <2>4 DEF ParkCheckpoint, Knows
    <2>5. CASE DoneCheckpoint(p) /\ job[p].fail = "unswap"
      BY <1>5, <1>6, <2>3, <2>5 DEF DoneCheckpoint, Knows
    <2> QED
      BY <1>6, <2>1, <2>2, <2>4, <2>5 DEF Knows, OpenCheckpoint, PromotionIntent,
         RollbackIntent, DoneCheckpoint
  <1>7. CASE CompareRevision(p) \/ MoveManifestAside(p)
    <2>1. job[p].at \in {"compare", "replace"} /\ UNCHANGED <<manifest, tree, undone>>
      BY <1>7 DEF CompareRevision, MoveManifestAside, At
    <2>2. CASE job' = [job EXCEPT ![p].at = "replace"] \/ job' = [job EXCEPT ![p].at = "put"]
      <3>1. /\ job'[p].at \in {"replace", "put"} /\ job'[p].status = job[p].status
            /\ job'[p].ok = job[p].ok /\ job'[p].fail = job[p].fail
        BY <1>0, <2>2 DEF Jobs
      <3>2. EndOf(p)' = EndOf(p) /\ RunningOf(p)' = RunningOf(p)
        BY <1>5, <2>1, <3>1 DEF EndOf, RunningOf, Promotes
      <3> QED
        BY <1>5, <2>1, <3>1, <3>2 DEF Knows, OpenCheckpoint, PromotionIntent,
           RollbackIntent, ParkCheckpoint, DoneCheckpoint
    <2>3. CASE Goto(p, job[p].fail)
      BY <1>6, <2>1, <2>3
    <2> QED
      BY <1>7, <2>2, <2>3 DEF CompareRevision, MoveManifestAside
  \* The report may fail where the manifest tells of the step already.
  <1>8. CASE PutManifest(p)
    <2>1. /\ job[p].at = "put" /\ UNCHANGED tree /\ manifest' = job[p].status
          /\ \/ Goto(p, job[p].ok) /\ UNCHANGED undone
             \/ Goto(p, job[p].fail) /\ undone' = (undone \/ job[p].fail = "unswap")
      BY <1>8 DEF PutManifest, At
    <2>2. /\ job'[p].at \in {job[p].ok, job[p].fail}
          /\ job'[p].at # "over" => job'[p].status = job[p].status
      BY <1>0, <1>1, <2>1
    <2>3. CASE OpenCheckpoint(p)
      BY <1>5, <2>1, <2>2, <2>3, StatusFacts DEF Knows, OpenCheckpoint
    <2>4. CASE PromotionIntent(p) \/ RollbackIntent(p)
      BY <1>5, <2>1, <2>2, <2>4, StatusFacts DEF Knows, PromotionIntent, RollbackIntent
    <2>5. CASE ParkCheckpoint(p)
      BY <1>5, <2>1, <2>2, <2>5, StatusFacts DEF Knows, ParkCheckpoint
    <2>6. CASE DoneCheckpoint(p)
      <3>1. StatusPlaces'
        BY <1>5, <2>1, <2>6, StatusFacts DEF DoneCheckpoint, EndOf, Promotes
      <3>2. CASE job'[p].at = "over"
        BY <1>3, <3>1, <3>2
      <3>3. CASE job'[p].at # "over"
        <4>1. job'[p].at = "unswap" /\ undone'
          <5>1. job[p].ok = "over" /\ job[p].fail = "unswap"
            BY <2>2, <2>6, <3>3 DEF DoneCheckpoint
          <5>2. job'[p].at = "unswap"
            BY <2>2, <3>3, <5>1
          <5>3. ~Goto(p, job[p].ok)
            BY <1>0, <1>1, <3>3, <5>1
          <5> QED
            BY <2>1, <5>1, <5>2, <5>3
        <4>2. manifest' \notin Open
          BY <2>1, <2>6, StatusFacts DEF DoneCheckpoint
        <4> QED
          BY <3>1, <4>1, <4>2 DEF Knows
      <3> QED
        BY <3>2, <3>3
    <2> QED
      BY <2>1, <2>3, <2>4, <2>5, <2>6 DEF Knows
  <1>10. CASE PersistFails(p) \/ PutManifestFails(p)
    BY <1>6, <1>10 DEF PersistFails, PutManifestFails, At
  <1>11. CASE Load(p)
    <2>1. UNCHANGED <<manifest, tree, undone>>
      BY <1>11 DEF Load
    <2>2. StatusPlaces'
      BY <1>5, <2>1
    <2>3. PICK step \in {"build", "validate", "approve", "promote", "resume", "rollback", "over"} :
             /\ step \in {"build", "validate", "approve", "promote"} => manifest \in Open
             /\ step = "resume" => manifest \in {"promoting", "rolling_back"}
             /\ step = "rollback" => manifest = "promoted"
             /\ IF step = "over" THEN Goto(p, "over")
                ELSE job' = [job EXCEPT ![p].at = step, ![p].status = manifest]
      BY <1>11, StatusFacts DEF Load
    <2>4. CASE step = "over"
      BY <1>1, <1>3, <1>4, <2>2, <2>3, <2>4
    <2>5. CASE step # "over"
      <3>1. job'[p].at = step /\ job'[p].status = manifest
        BY <1>0, <2>3, <2>5 DEF Jobs
      <3> QED
        BY <2>1, <2>2, <2>3, <2>5, <3>1, StatusFacts DEF Knows
    <2> QED
      BY <2>4, <2>5
  <1>12. ASSUME NEW status \in Open, NEW ok \in {"over", "copy", "validating"},
                Persist(p, status, ok, "over"), UNCHANGED <<manifest, undone>>,
                manifest \in Open, (Unbuilt \/ Before)'
         PROVE  StatusPlaces' /\ Knows(p)'
    <2>1. /\ job'[p].at = "compare" /\ job'[p].status = status
          /\ job'[p].ok = ok /\ job'[p].fail = "over"
      BY <1>2, <1>4, <1>12, Constants
    <2>2. OpenCheckpoint(p)'
      BY <1>12, <2>1 DEF OpenCheckpoint
    <2>3. StatusPlaces'
      BY <1>12, StatusFacts
    <2> QED
      BY <2>1, <2>2, <2>3 DEF Knows
  <1>13. CASE Build(p) \/ Validate(p) \/ Outcome(p) \/ ApproveSmoke(p)
    <2>1. /\ manifest \in Open /\ job[p].status \in Open /\ UNCHANGED <<manifest, tree, undone>>
      BY <1>13 DEF Build, Validate, Outcome, ApproveSmoke, At, Knows
    <2>2. (Unbuilt \/ Before)'
      BY <1>5, <2>1
    <2> QED
      BY <1>12, <1>13, <2>1, <2>2, StatusFacts DEF Build, Validate, Outcome, ApproveSmoke
  <1>14. CASE Copy(p)
    <2>1. /\ manifest \in Open /\ job[p].status \in Open /\ UNCHANGED <<manifest, tree, undone>>
      BY <1>14 DEF Copy, At, Knows
    <2>2. (Unbuilt \/ Before)'
      BY <1>5, <2>1
    <2>3. CASE Goto(p, "publish")
      <3>1. job'[p].at = "publish" /\ job'[p].status = job[p].status
        BY <1>1, <1>4, <2>3
      <3> QED
        BY <1>5, <2>1, <3>1 DEF Knows
    <2> QED
      BY <1>12, <1>14, <2>1, <2>2, <2>3, StatusFacts DEF Copy
  <1>15. CASE PublishCopy(p)
    <2>1. /\ manifest \in Open /\ UNCHANGED <<manifest, undone>>
          /\ \E status \in Open : Persist(p, status, "over", "over")
      BY <1>15, StatusFacts DEF PublishCopy, At, Knows
    <2>2. CASE UNCHANGED tree
      BY <1>5, <1>12, <2>1, <2>2
    <2>3. CASE Published
      <3>1. /\ tree["output"] = NoTree /\ tree'["output"] = MigrationCopy
            /\ tree'["project"] = tree["project"] /\ tree'["backup"] = tree["backup"]
        BY <2>3, PublishEffect DEF Places
      <3>2. Before'
        BY <2>1, <3>1, Contents DEF Unbuilt, Before, LayoutIs
      <3> QED
        BY <1>12, <2>1, <3>2
    <2> QED
      BY <1>15, <2>2, <2>3 DEF PublishCopy, Published
  <1>16. CASE Promote(p)
    <2>1. /\ manifest \in Open /\ Before /\ UNCHANGED <<manifest, tree, undone>>
          /\ Persist(p, "promoting", "resume", "over")
      BY <1>16, SwapFacts DEF Promote, At, Knows
    <2>2. /\ job'[p].at = "compare" /\ job'[p].status = "promoting"
          /\ job'[p].ok = "resume" /\ job'[p].fail = "over"
      BY <1>2, <1>4, <2>1 DEF Statuses
    <2> QED
      BY <1>5, <2>1, <2>2 DEF Knows, PromotionIntent
  <1>17. CASE BeginRollback(p)
    <2>1. /\ manifest = "promoted" /\ After /\ UNCHANGED <<manifest, tree, undone>>
          /\ Persist(p, "rolling_back", "resume", "over")
      BY <1>17, SwapFacts DEF BeginRollback, At, Knows
    <2>2. /\ job'[p].at = "compare" /\ job'[p].status = "rolling_back"
          /\ job'[p].ok = "resume" /\ job'[p].fail = "over"
      BY <1>2, <1>4, <2>1 DEF Statuses
    <2> QED
      BY <1>5, <2>1, <2>2 DEF Knows, RollbackIntent
  <1>18. Promotes(p) => SwapOf(p) = Promotion
    BY SwapFacts
  <1>19. ~Promotes(p) => SwapOf(p) = Rollback
    BY SwapFacts
  <1>20. ASSUME NEW done \in {"promoted", "rolled_back"}, Promotes(p) <=> done = "promoted",
                NEW fail \in {"over", "unswap"}, Persist(p, done, "over", fail),
                UNCHANGED <<manifest, tree, undone>>, manifest \notin Open,
                undone \/ (EndOf(p) /\ manifest = RunningOf(p))
         PROVE  StatusPlaces' /\ Knows(p)'
    <2>1. /\ job'[p].at = "compare" /\ job'[p].status = done
          /\ job'[p].ok = "over" /\ job'[p].fail = fail
      BY <1>2, <1>4, <1>20 DEF Statuses
    <2>2. EndOf(p)' = EndOf(p) /\ RunningOf(p)' = RunningOf(p)
      BY <1>5, <1>20, <2>1 DEF EndOf, RunningOf, Promotes
    <2>3. DoneCheckpoint(p)'
      BY <1>20, <2>1, <2>2 DEF DoneCheckpoint
    <2> QED
      BY <1>5, <1>20, <2>1, <2>3 DEF Knows
  <1>21. CASE Resume(p)
    <2>1. /\ job[p].at = "resume" /\ manifest \notin Open /\ UNCHANGED <<manifest, tree, undone>>
          /\ job[p].status \in {"promoting", "rolling_back"} /\ (undone \/ manifest = job[p].status)
      BY <1>21 DEF Resume, At, Knows
    <2>2. StatusPlaces'
      BY <1>5, <2>1
    <2>3. CASE AtStart(SwapOf(p)) /\ Goto(p, "park")
      <3>1. job'[p].at = "park" /\ job'[p].status = job[p].status
        BY <1>1, <1>4, <2>3
      <3>2. StartOf(p)'
        BY <1>5, <2>1, <2>3, <3>1, SwapFacts DEF StartOf, Promotes
      <3> QED
        BY <2>1, <2>2, <3>1, <3>2 DEF Knows
    <2>4. CASE AtMoved(SwapOf(p)) /\ Goto(p, "swap")
      <3>1. job'[p].at = "swap" /\ job'[p].status = job[p].status
        BY <1>1, <1>4, <2>4
      <3> QED
        BY <1>5, <2>1, <2>2, <2>4, <3>1, SwapFacts DEF Knows
    <2>5. CASE AtComplete(SwapOf(p)) /\ Persist(p, SwapOf(p).done, "over", "over")
      BY <1>18, <1>19, <1>20, <2>1, <2>5, Constants, SwapFacts DEF RunningOf, Promotes
    <2> QED
      BY <1>21, <2>3, <2>4, <2>5 DEF Resume
  <1>22. /\ SwapOf(p).parked \in Places /\ SwapOf(p).source \in Places /\ "project" \in Places
    BY Constants DEF Places
  <1>23. CASE Park(p)
    <2>1. /\ job[p].at = "park" /\ manifest \notin Open /\ UNCHANGED <<manifest, undone>>
          /\ job[p].status \in {"promoting", "rolling_back"}
          /\ undone \/ (manifest = job[p].status /\ StartOf(p))
          /\ CanMove("project", SwapOf(p).parked) /\ Move("project", SwapOf(p).parked)
          /\ Persist(p, SwapOf(p).running, "resume", "unpark")
      BY <1>23 DEF Park, At, Knows
    <2>2. SwapOf(p).running = job[p].status
      BY <1>18, <1>19, <2>1, Constants DEF Promotes
    <2>3. /\ job'[p].at = "compare" /\ job'[p].status = job[p].status
          /\ job'[p].ok = "resume" /\ job'[p].fail = "unpark"
      <3>1. Persist(p, job[p].status, "resume", "unpark") /\ job[p].status \in Statuses
        BY <2>1, <2>2 DEF Statuses
      <3> QED
        BY <1>2, <1>4, <3>1
    <2>4. (Before \/ Midway \/ After)'
      BY <1>22, <2>1, SwapMoves
    <2>5. undone \/ Midway'
      BY <1>18, <1>19, <1>22, <2>1, Constants, SwapMoves DEF StartOf
    <2>6. StatusPlaces'
      BY <2>1, <2>4, StatusFacts
    <2>7. ParkCheckpoint(p)'
      BY <2>1, <2>3, <2>5 DEF ParkCheckpoint
    <2> QED
      BY <2>1, <2>3, <2>6, <2>7 DEF Knows
  <1>24. CASE Unpark(p)
    <2>1. /\ manifest \notin Open /\ UNCHANGED <<manifest, undone>>
          /\ job[p].status \in {"promoting", "rolling_back"}
          /\ undone \/ manifest = job[p].status
          /\ CanMove(SwapOf(p).parked, "project") /\ Move(SwapOf(p).parked, "project")
          /\ Goto(p, "over")
      BY <1>24 DEF Unpark, At, Knows
    <2>2. (Before \/ Midway \/ After)'
      BY <1>22, <2>1, SwapMoves
    <2>3. job'[p].at = "over"
      BY <1>1, <1>4, <2>1
    <2> QED
      BY <1>3, <2>1, <2>2, <2>3, StatusFacts
  <1>25. CASE Swap(p)
    <2>1. /\ job[p].at = "swap" /\ manifest \notin Open /\ UNCHANGED <<manifest, undone>>
          /\ job[p].status \in {"promoting", "rolling_back"}
          /\ undone \/ (manifest = job[p].status /\ Midway)
          /\ CanMove(SwapOf(p).source, "project") /\ Move(SwapOf(p).source, "project")
          /\ job' = [job EXCEPT ![p].at = "carry", ![p].left = Entries]
      BY <1>25 DEF Swap, At, Knows
    <2>2. job'[p].at = "carry" /\ job'[p].status = job[p].status
      BY <1>0, <2>1 DEF Jobs
    <2>3. (Before \/ Midway \/ After)'
      BY <1>22, <2>1, SwapMoves
    <2>4. undone \/ EndOf(p)'
      BY <1>18, <1>19, <1>22, <2>1, <2>2, Constants, SwapMoves DEF EndOf, Promotes
    <2>5. StatusPlaces'
      BY <2>1, <2>3, StatusFacts
    <2> QED
      BY <2>1, <2>2, <2>4, <2>5 DEF Knows
  <1>26. CASE CarryEntry(p)
    <2>1. /\ job[p].at = "carry" /\ manifest \notin Open /\ UNCHANGED <<manifest, undone>>
          /\ \E e \in job[p].left : job' = [job EXCEPT ![p].left = @ \ {e}]
      BY <1>26 DEF CarryEntry, At, Knows
    <2>2. job'[p].at = "carry" /\ job'[p].status = job[p].status
      BY <1>0, <2>1 DEF Jobs
    <2>3. \A q \in Places : tree'[q].of = tree[q].of
      <3>1. UNCHANGED tree \/ EntryCarried
        BY <1>26, CarrySteps
      <3> QED
        BY <3>1, QuietEffect
    <2>4. Before' = Before /\ Midway' = Midway /\ After' = After
      BY <2>3, LayoutStable
    <2>5. EndOf(p)' = EndOf(p) /\ StatusPlaces'
      BY <2>1, <2>2, <2>4, StatusFacts DEF EndOf, Promotes
    <2> QED
      BY <2>1, <2>2, <2>5 DEF Knows
  <1>27. CASE Carried(p)
    <2>1. /\ job[p].at = "carry" /\ manifest \notin Open /\ UNCHANGED <<manifest, tree, undone>>
          /\ job[p].status \in {"promoting", "rolling_back"}
          /\ undone \/ (manifest = job[p].status /\ EndOf(p))
          /\ Persist(p, SwapOf(p).done, "over", "unswap")
      BY <1>27 DEF Carried, At, Knows
    <2> QED
      BY <1>18, <1>19, <1>20, <2>1, Constants DEF RunningOf, Promotes
  <1>28. CASE Unswap(p)
    <2> DEFINE Back(step, from, to, next) ==
                  At(p, step) /\ CanMove(from, to) /\ Move(from, to) /\ Goto(p, next)
    <2>1. /\ UNCHANGED <<manifest, undone>>
          /\ \/ Back("unswap", "project", SwapOf(p).source, "restore")
             \/ Back("restore", SwapOf(p).parked, "project", "over")
             \/ Back("redo", SwapOf(p).source, "project", "over")
      BY <1>28 DEF Unswap
    <2>2. manifest \notin Open
      BY <2>1 DEF At, Knows
    <2>3. (Before \/ Midway \/ After)'
      BY <1>22, <2>1, <2>2, SwapMoves
    <2>4. ~undone => manifest \in {"promoting", "rolling_back"}
      BY <2>1 DEF At, Knows, RunningOf
    <2>5. StatusPlaces'
      BY <2>1, <2>2, <2>3, <2>4
    <2>6. CASE Back("unswap", "project", SwapOf(p).source, "restore")
      <3>1. /\ job'[p].at = "restore" /\ job'[p].status = job[p].status
            /\ RunningOf(p)' = RunningOf(p)
        BY <1>1, <1>4, <2>6 DEF RunningOf, Promotes
      <3>2. undone \/ Midway'
        BY <1>18, <1>19, <1>22, <2>6, Constants, SwapMoves DEF At, Knows, EndOf
      <3> QED
        BY <2>1, <2>2, <2>5, <2>6, <3>1, <3>2 DEF At, Knows
    <2>7. CASE Goto(p, "over")
      <3>1. job'[p].at = "over"
        BY <1>1, <1>4, <2>7
      <3> QED
        BY <1>3, <2>5, <3>1
    <2> QED
      BY <2>1, <2>6, <2>7
  <1>29. CASE Fails(p)
    <2>1. /\ UNCHANGED <<manifest, tree, undone>>
          /\ Goto(p, IF job[p].at = "restore" THEN "redo" ELSE "over")
      BY <1>29 DEF Fails
    <2>2. StatusPlaces'
      BY <1>5, <2>1
    <2>3. CASE job[p].at = "restore"
      <3>1. /\ job'[p].at = "redo" /\ job'[p].status = job[p].status
            /\ RunningOf(p)' = RunningOf(p)
        BY <1>1, <1>4, <2>1, <2>3 DEF RunningOf, Promotes
      <3> QED
        BY <1>5, <2>1, <2>2, <2>3, <3>1 DEF Knows
    <2>4. CASE job[p].at # "restore"
      <3>1. job'[p].at = "over"
        BY <1>1, <1>4, <2>1, <2>4
      <3> QED
        BY <1>3, <2>2, <3>1
    <2> QED
      BY <2>3, <2>4
  <1> QED
    BY <1>7, <1>8, <1>10, <1>11, <1>13, <1>14, <1>15, <1>16, <1>17, <1>21, <1>23,
       <1>24, <1>25, <1>26, <1>27, <1>28, <1>29 DEF Work

LEMMA KnowsStable ==
    ASSUME \A path \in Places : tree'[path].of = tree[path].of, UNCHANGED <<manifest, undone>>
    PROVE  /\ StatusPlaces => StatusPlaces'
           /\ \A q \in Processes : job'[q] = job[q] /\ Knows(q) => Knows(q)'
  <1>1. Unbuilt' = Unbuilt /\ Before' = Before /\ Midway' = Midway /\ After' = After
    BY LayoutStable
  <1>2. StatusPlaces => StatusPlaces'
    BY <1>1 DEF StatusPlaces
  <1>3. ASSUME NEW q \in Processes, job'[q] = job[q], Knows(q)
        PROVE  Knows(q)'
    BY <1>1, <1>3 DEF Knows, OpenCheckpoint, PromotionIntent, RollbackIntent, ParkCheckpoint,
         DoneCheckpoint, StartOf, EndOf, RunningOf, Promotes
  <1> QED
    BY <1>2, <1>3

LEMMA DisplacedStays == ASSUME [Next]_vars, displaced PROVE displaced'
  BY DEF Next, vars, lockVars, Lock, Work, Release, Crash, Edit, Recreate, Acquiring, Heartbeat,
         Releasing, LockCrash, GiveUp, Claim, WriteRecord, WriteRecordFails, InspectFails,
         InspectAbandoned, MoveAside, MoveAsideFails, RestoreMoved, RemoveMoved, Reclaim,
         ReclaimFails, RefreshRead, RefreshWrite, ReleaseCheck, ReleaseFails, ReleaseRemove

LEMMA LayoutInitially == ASSUME Init PROVE LayoutInv
  <1>1. /\ tree["project"] = FormalProject /\ tree["backup"] = NoTree /\ tree["output"] = NoTree
        /\ manifest = "ready"
    BY DEF Init, Places
  <1>2. Unbuilt
    BY <1>1, Contents DEF Unbuilt, LayoutIs
  <1>3. \A p \in Processes : ~Holds(p)
    BY DEF Init, LockInit, Holds
  <1> QED
    BY <1>1, <1>2, <1>3, StatusFacts DEF LayoutInv, StatusPlaces

LEMMA LayoutPreserved ==
    ASSUME TypeOK, OwnersOwn, TypeOK', NoHoles, LayoutInv, [Next]_vars
    PROVE  LayoutInv'
  <1>1. SUFFICES ASSUME ~displaced
                 PROVE  StatusPlaces' /\ \A q \in Processes : Holds(q)' => Knows(q)'
    BY DisplacedStays DEF LayoutInv
  <1>2. StatusPlaces /\ \A q \in Processes : Holds(q) => Knows(q)
    BY <1>1 DEF LayoutInv
  <1>3. ASSUME NEW p \in Processes, Work(p)
        PROVE  StatusPlaces' /\ \A q \in Processes : Holds(q)' => Knows(q)'
    <2>1. Holds(p) /\ lockPc' = lockPc
      BY <1>3 DEF Work, lockVars, CompareRevision, MoveManifestAside, PutManifest,
             PutManifestFails, PersistFails, Load, Build, Copy, PublishCopy, Validate, Outcome,
             ApproveSmoke, Promote, BeginRollback, Resume, Park, Unpark, Swap, CarryEntry,
             Carried, Unswap, Fails, At
    <2>2. StatusPlaces' /\ Knows(p)'
      BY <1>2, <1>3, <2>1, WorkPlaces
    <2>3. \A q \in Processes : Holds(q)' => q = p
      BY <1>1, <2>1 DEF Holds, OwnersOwn, Owning
    <2> QED
      BY <2>2, <2>3
  <1>4. ASSUME NEW p \in Processes, Lock(p) \/ Release(p) \/ Crash(p)
        PROVE  StatusPlaces' /\ \A q \in Processes : Holds(q)' => Knows(q)'
    <2>1. LockStep(p) /\ LockTypeOK
      BY <1>4, TypeOKParts DEF Lock, Release, Crash, LockStep
    <2>2. UNCHANGED <<manifest, tree, undone>>
      BY <1>4 DEF Lock, Release, Crash, lifecycleVars
    <2>3. \A q \in Processes \ {p} : job'[q] = job[q] /\ Holds(q)' = Holds(q)
      BY <1>4, <2>1, LockStepLocal, TypeOKParts
         DEF Lock, Release, Crash, Forget, lifecycleVars, LifecycleTypeOK, Holds
    <2>4. Holds(p)' => job'[p] = job[p] /\ (Holds(p) \/ job[p] = NoJob)
      <3>1. CASE Lock(p)
        BY <2>1, <3>1, LockStepPlace, TypeOKParts DEF Lock, lifecycleVars, JobsLocked, Holds
      <3>2. CASE Release(p)
        BY <2>1, <3>2, LockStepPlace DEF Release, Holds
      <3>3. CASE Crash(p)
        BY <2>1, <3>3, LockStepPlace DEF Crash, Holds
      <3> QED
        BY <1>4, <3>1, <3>2, <3>3
    <2>5. job[p] = NoJob => Knows(p)
      BY DEF NoJob, Knows, BuildSteps, PersistSteps, SwapSteps
    <2> QED
      BY <1>2, <2>2, <2>3, <2>4, <2>5, KnowsStable
  <1>5. CASE Edited \/ EntryMade \/ UNCHANGED tree
    <2>1. \A q \in Places : tree'[q].of = tree[q].of
      BY <1>5, QuietEffect
    <2> SUFFICES ASSUME UNCHANGED <<lockVars, manifest, job, undone>>
                 PROVE  StatusPlaces' /\ \A q \in Processes : Holds(q)' => Knows(q)'
      BY <1>3, <1>4, <1>5 DEF Next, Edit, Recreate, vars, lifecycleVars
    <2> QED
      BY <1>2, <2>1, KnowsStable DEF lockVars, Holds
  <1> QED
    BY <1>3, <1>4, <1>5 DEF Next, Edit, Recreate, Edited, EntryMade, vars, lifecycleVars

-----------------------------------------------------------------------------
(***************************************************************************)
(* Who has the manifest aside.                                             *)
(***************************************************************************)
\* The one command that runs, unless a command has ended with it aside.
AsideInv == displaced \/ (aside => lost \/ \E p \in Processes : At(p, "put"))

LEMMA AsidePreserved ==
    ASSUME TypeOK, OwnersOwn, AsideInv, [Next]_vars
    PROVE  AsideInv'
  <1>1. SUFFICES ASSUME ~displaced, aside'
                 PROVE  lost' \/ \E q \in Processes : At(q, "put")'
    BY DisplacedStays DEF AsideInv
  <1>2. job \in [Processes -> Jobs] /\ LockTypeOK /\ aside \in BOOLEAN /\ lost \in BOOLEAN
    BY TypeOKParts DEF LifecycleTypeOK
  <1>3. aside => lost \/ \E q \in Processes : At(q, "put")
    BY <1>1 DEF AsideInv
  <1>4. ASSUME NEW p \in Processes, Work(p)
        PROVE  lost' \/ \E q \in Processes : At(q, "put")'
    <2>1. Holds(p) /\ lockPc' = lockPc
      BY <1>4 DEF Work, lockVars, CompareRevision, MoveManifestAside, PutManifest,
             PutManifestFails, PersistFails, Load, Build, Copy, PublishCopy, Validate, Outcome,
             ApproveSmoke, Promote, BeginRollback, Resume, Park, Unpark, Swap, CarryEntry,
             Carried, Unswap, Fails, At
    <2>2. \A q \in Processes : Holds(q) => q = p
      BY <1>1, <2>1 DEF Holds, OwnersOwn, Owning
    <2>3. CASE MoveManifestAside(p)
      <3>1. job'[p].at = "put"
        BY <1>2, <2>3 DEF MoveManifestAside, Jobs
      <3> QED
        BY <2>1, <3>1 DEF At, Holds
    <2>4. CASE PutManifest(p) \/ PutManifestFails(p)
      BY <1>1, <2>4 DEF PutManifest, PutManifestFails
    <2>5. CASE ~MoveManifestAside(p) /\ ~PutManifest(p) /\ ~PutManifestFails(p)
      <3>1. job[p].at # "put" /\ UNCHANGED <<aside, lost>>
        BY <1>4, <2>5 DEF Work, CompareRevision, PersistFails, Load, Build, Copy, PublishCopy,
               Validate, Outcome, ApproveSmoke, Promote, BeginRollback, Resume, Park, Unpark,
               Swap, CarryEntry, Carried, Unswap, Fails, At
      <3> QED
        BY <1>1, <1>3, <2>2, <3>1 DEF At
    <2> QED
      BY <2>3, <2>4, <2>5
  <1>5. ASSUME NEW p \in Processes, Lock(p) \/ Release(p) \/ Crash(p)
        PROVE  lost' \/ \E q \in Processes : At(q, "put")'
    <2>0. /\ LockStep(p) /\ UNCHANGED aside
          /\ UNCHANGED lost \/ (Crash(p) /\ lost' = (lost \/ (aside /\ job[p].at = "put")))
      BY <1>5 DEF Lock, Release, Crash, LockStep, lifecycleVars
    <2>1. LockStep(p) /\ UNCHANGED aside /\ (lost => lost')
      BY <1>2, <2>0
    <2>2. \A q \in Processes \ {p} : At(q, "put") => At(q, "put")'
      BY <1>2, <1>5, <2>1, LockStepLocal DEF Lock, Release, Crash, Forget, lifecycleVars, At, Holds
    <2>3. At(p, "put") => lost' \/ At(p, "put")'
      <3>1. CASE Lock(p)
        BY <1>2, <3>1, LockStepPlace DEF Lock, lifecycleVars, At, Holds
      <3>2. CASE Release(p)
        BY <3>2 DEF Release, At
      <3>3. CASE Crash(p)
        <4>1. lost' = (lost \/ (aside /\ job[p].at = "put"))
          BY <3>3 DEF Crash
        <4>2. aside
          BY <1>1, <2>1
        <4> QED
          BY <1>2, <4>1, <4>2 DEF At
      <3> QED
        BY <1>5, <3>1, <3>2, <3>3
    <2> QED
      BY <1>1, <1>3, <2>1, <2>2, <2>3
  <1>6. CASE UNCHANGED <<lockVars, aside, job, lost>>
    BY <1>1, <1>3, <1>6 DEF lockVars, At, Holds
  <1> QED
    BY <1>4, <1>5, <1>6 DEF Next, Edit, Recreate, vars, lifecycleVars

-----------------------------------------------------------------------------
(***************************************************************************)
(* Where the preserved entries are when a swap is complete.                *)
(***************************************************************************)
HasAll(path) == \A e \in Entries : tree[path].kept[e] # "none"

\* A swap is complete, or was completed and may be reversed or resumed.
Swapped == \/ manifest \in {"promoted", "rolled_back"}
           \/ manifest = "promoting" /\ After
           \/ manifest = "rolling_back" /\ Before

StillToCarry(e) == \E p \in Processes : At(p, "carry") /\ e \in job[p].left

\* Reversing a swap takes the carried entries along with the incoming tree,
\* and the redo brings them back.
EntriesInv ==
    \/ displaced \/ undone \/ stranded
    \/ /\ Swapped => \A e \in Entries : tree["project"].kept[e] # "none" \/ StillToCarry(e)
       /\ \A p \in Processes :
             At(p, "restore") \/ At(p, "redo") => HasAll(SwapOf(p).source)

LEMMA EntriesInitially == ASSUME Init PROVE EntriesInv
  <1>1. manifest = "ready"
    BY DEF Init
  <1>2. \A p \in Processes : ~Holds(p)
    BY DEF Init, LockInit, Holds
  <1> QED
    BY <1>1, <1>2 DEF EntriesInv, Swapped, At

\* Edits and new entries take nothing away, and neither do commands that rest.
LEMMA EntriesStay ==
    ASSUME TypeOK, UNCHANGED tree \/ Edited \/ EntryMade
    PROVE  \A q \in Places, e \in Entries :
              tree[q].kept[e] # "none" => tree'[q].kept[e] # "none"
  <1>1. tree \in [Places -> TreeType] /\ "project" \in Places
    BY TypeOKParts DEF LifecycleTypeOK, Places
  <1>2. CASE Edited
    BY <1>1, <1>2 DEF Edited, TreeType
  <1>3. CASE EntryMade
    <2>1. PICK e \in Entries : /\ tree["project"].kept[e] = "none"
                               /\ tree' = Put(tree, "project", e, "fresh")
      BY <1>3 DEF EntryMade
    <2>2. \A q \in Places, f \in Entries :
             tree'[q].kept[f] = IF q = "project" /\ f = e THEN "fresh" ELSE tree[q].kept[f]
      BY <1>1, <2>1, PutTypes
    <2> QED
      BY <2>1, <2>2
  <1> QED
    BY <1>2, <1>3

\* In a completed swap an entry is with the project or in the parked tree.
LEMMA WhereEntriesAre ==
    ASSUME TypeOK, DirectoriesInv, NEW p \in Processes, EndOf(p), NEW e \in Entries
    PROVE  tree["project"].kept[e] # "none" \/ tree[SwapOf(p).parked].kept[e] # "none"
  <1>1. IsFree(SwapOf(p).source)
    BY SwapFacts, Constants
       DEF EndOf, Before, After, LayoutIs, DirectoriesInv, NoHoles, Places
  <1>2. PICK path \in Places : Originals(e) = {path}
    BY DEF DirectoriesInv, PreservedOnce
  <1>3. path \in Originals(e)
    BY <1>2
  <1>4. tree[path].kept[e] = "original"
    BY <1>3 DEF Originals
  <1>5. path # SwapOf(p).source
    BY <1>1, <1>4, Contents DEF IsFree
  <1>6. path \in {"project", SwapOf(p).parked}
    BY <1>5, Constants DEF Places
  <1> QED
    BY <1>4, <1>6

\* What the one command that runs knows of the entries.
HereUnlessLeft(p) ==
    Swapped => \A e \in Entries : \/ tree["project"].kept[e] # "none"
                                  \/ job[p].at = "carry" /\ e \in job[p].left
InReversed(p) == job[p].at \in {"restore", "redo"} => HasAll(SwapOf(p).source)

\* A step of the command that runs.
LEMMA WorkEntries ==
    ASSUME TypeOK, TypeOK', DirectoriesInv, NEW p \in Processes, Work(p),
           StatusPlaces, Knows(p), StatusPlaces', Knows(p)',
           ~undone', ~stranded',
           HereUnlessLeft(p), InReversed(p)
    PROVE  HereUnlessLeft(p)' /\ InReversed(p)'
  <1> USE DEF HereUnlessLeft, InReversed
  <1>0. /\ job \in [Processes -> Jobs] /\ job' \in [Processes -> Jobs]
        /\ job[p].ok \in Later /\ job[p].fail \in Later
        /\ tree \in [Places -> TreeType] /\ NoHoles
    <2>1. job \in [Processes -> Jobs] /\ tree \in [Places -> TreeType]
      BY TypeOKParts DEF LifecycleTypeOK
    <2>2. job' \in [Processes -> Jobs]
      BY DEF TypeOK, Jobs, Later
    <2> QED
      BY <2>1, <2>2 DEF Jobs, DirectoriesInv
  <1>1. ~undone
    BY DEF Work, CompareRevision, MoveManifestAside, PutManifest, PutManifestFails,
           PersistFails, Load, Build, Copy, PublishCopy, Validate, Outcome, ApproveSmoke, Promote, BeginRollback, Resume,
           Park, Unpark, Swap, CarryEntry, Carried, Unswap, Fails
  <1>2. ASSUME NEW step \in Later, Goto(p, step)
        PROVE  job'[p].at = step /\ (step # "over" => job'[p].status = job[p].status)
    <2>1. job'[p].at = step
      BY <1>0, <1>2, GotoTypes
    <2>2. ASSUME step # "over"
          PROVE  job'[p].status = job[p].status
      <3>1. job' = [job EXCEPT ![p] = [job[p] EXCEPT !.at = step, !.ok = "over", !.fail = "over"]]
        BY <1>2, <2>2 DEF Goto
      <3> QED
        BY <1>0, <3>1 DEF Jobs
    <2> QED
      BY <2>1, <2>2
  <1>3. ASSUME NEW status \in Statuses, NEW ok \in Later, NEW fail \in Later,
               Persist(p, status, ok, fail)
        PROVE  job'[p].at = "compare"
    BY <1>0, <1>3, PersistTypes
  <1>4. BuildSteps \cup PersistSteps \cup SwapSteps \cup {"over"} \subseteq Later
    BY DEF BuildSteps, PersistSteps, SwapSteps, Later, Steps
  \* Where tree and manifest stay, the entries stay with the project.
  <1>5. ASSUME UNCHANGED <<manifest, tree>>, job[p].at # "carry",
               job'[p].at \notin {"restore", "redo"}
        PROVE  HereUnlessLeft(p)' /\ InReversed(p)'
    <2>1. Before' = Before /\ After' = After
      BY <1>5, LayoutStable
    <2>2. Swapped' = Swapped
      BY <1>5, <2>1 DEF Swapped
    <2> QED
      BY <1>5, <2>2
  \* A swap that has not been completed says nothing of the entries.
  <1>6. ASSUME ~Swapped', job'[p].at \notin {"restore", "redo"}
        PROVE  HereUnlessLeft(p)' /\ InReversed(p)'
    BY <1>6
  <1>7. job[p].at \in PersistSteps =>
           /\ job[p].fail \in {"over", "unpark", "unswap"}
           /\ job[p].ok \in {"over", "copy", "validating", "resume"}
    BY DEF Knows, OpenCheckpoint, PromotionIntent, RollbackIntent, ParkCheckpoint, DoneCheckpoint
  <1>8. /\ Midway' => ~Swapped'
        /\ manifest' \in Open => ~Swapped'
        /\ manifest' = "promoting" /\ Before' => ~Swapped'
        /\ manifest' = "rolling_back" /\ After' => ~Swapped'
    BY StatusFacts DEF Swapped, StatusPlaces, Midway, Before, After, LayoutIs
  <1>9. /\ SwapOf(p).parked \in {"backup", "output"} /\ SwapOf(p).source \in {"backup", "output"}
        /\ SwapOf(p).parked \in Places /\ SwapOf(p).source \in Places /\ "project" \in Places
        /\ SwapOf(p).parked # SwapOf(p).source
    BY Constants DEF Places
  <1>10. CASE CompareRevision(p) \/ MoveManifestAside(p)
    <2>1. job[p].at \in PersistSteps /\ UNCHANGED <<manifest, tree>>
      BY <1>10 DEF CompareRevision, MoveManifestAside, At, PersistSteps
    <2>2. job'[p].at \in {"replace", "put", job[p].fail}
      BY <1>0, <1>2, <1>10 DEF CompareRevision, MoveManifestAside, Jobs
    <2> QED
      BY <1>5, <1>7, <2>1, <2>2 DEF PersistSteps
  <1>12. CASE PersistFails(p) \/ PutManifestFails(p)
    <2>1. job[p].at \in PersistSteps /\ UNCHANGED <<manifest, tree>> /\ Goto(p, job[p].fail)
      BY <1>12 DEF PersistFails, PutManifestFails, At, PersistSteps
    <2>2. job'[p].at = job[p].fail
      BY <1>0, <1>2, <2>1
    <2> QED
      BY <1>5, <1>7, <2>1, <2>2 DEF PersistSteps
  <1>13. CASE PutManifest(p)
    <2>1. /\ job[p].at = "put" /\ UNCHANGED tree /\ manifest' = job[p].status
          /\ Goto(p, job[p].ok) \/ Goto(p, job[p].fail)
      BY <1>13 DEF PutManifest, At
    <2>2. job'[p].at \in {"over", "copy", "validating", "resume", "unpark", "unswap"}
      BY <1>0, <1>2, <1>7, <2>1 DEF PersistSteps
    <2>3. Before' = Before /\ Midway' = Midway /\ After' = After
      BY <2>1, LayoutStable
    <2>4. \/ OpenCheckpoint(p) \/ PromotionIntent(p) \/ RollbackIntent(p)
          \/ ParkCheckpoint(p) \/ DoneCheckpoint(p)
      BY <2>1 DEF Knows, PersistSteps
    <2>5. CASE DoneCheckpoint(p)
      <3>1. EndOf(p) /\ manifest = RunningOf(p)
        BY <1>1, <2>5 DEF DoneCheckpoint
      <3>2. Swapped
        BY <3>1 DEF Swapped, EndOf, RunningOf
      <3> QED
        BY <2>1, <2>2, <3>2
    <2>6. CASE ~DoneCheckpoint(p)
      <3>1. ~Swapped'
        BY <1>1, <1>8, <2>1, <2>3, <2>4, <2>6
           DEF OpenCheckpoint, PromotionIntent, RollbackIntent, ParkCheckpoint
      <3> QED
        BY <1>6, <2>2, <3>1
    <2> QED
      BY <2>5, <2>6
  <1>14. CASE Load(p)
    <2>1. job[p].at = "load" /\ UNCHANGED <<manifest, tree>>
      BY <1>14 DEF Load, At
    <2>2. PICK step \in {"build", "validate", "approve", "promote", "resume", "rollback", "over"} :
             IF step = "over" THEN Goto(p, "over")
             ELSE job' = [job EXCEPT ![p].at = step, ![p].status = manifest]
      BY <1>14 DEF Load
    <2>3. job'[p].at = step
      <3>1. CASE step = "over"
        BY <1>2, <1>4, <2>2, <3>1
      <3>2. CASE step # "over"
        BY <1>0, <2>2, <3>2 DEF Jobs
      <3> QED
        BY <3>1, <3>2
    <2> QED
      BY <1>5, <2>1, <2>2, <2>3
  <1>15. CASE Build(p) \/ Validate(p) \/ Outcome(p) \/ ApproveSmoke(p) \/ Copy(p)
    <2>1. job[p].at # "carry" /\ UNCHANGED <<manifest, tree>>
      BY <1>15 DEF Build, Validate, Outcome, ApproveSmoke, Copy, At
    <2>2. \/ Goto(p, "publish")
          \/ \E status \in Statuses, ok \in {"copy", "over", "validating"} :
                Persist(p, status, ok, "over")
      <3>1. job[p].status \in Statuses
        BY <1>0 DEF Jobs
      <3> QED
        BY <1>15, <3>1 DEF Build, Validate, Outcome, ApproveSmoke, Copy, Statuses, Open
    <2>3. job'[p].at \in {"publish", "compare"}
      BY <1>2, <1>3, <1>4, <2>2 DEF BuildSteps
    <2> QED
      BY <1>5, <2>1, <2>3
  <1>16. CASE PublishCopy(p)
    <2>1. /\ manifest \in Open /\ UNCHANGED manifest
          /\ \E status \in Statuses : Persist(p, status, "over", "over")
      BY <1>16 DEF PublishCopy, At, Knows, BuildSteps, Statuses, Open
    <2>2. job'[p].at = "compare"
      BY <1>3, <1>4, <2>1
    <2> QED
      BY <1>6, <1>8, <2>1, <2>2
  <1>17. CASE Promote(p) \/ BeginRollback(p)
    <2>1. job[p].at # "carry" /\ UNCHANGED <<manifest, tree>>
      BY <1>17 DEF Promote, BeginRollback, At
    <2>2. \E status \in Statuses : Persist(p, status, "resume", "over")
      BY <1>17 DEF Promote, BeginRollback, Statuses
    <2>3. job'[p].at = "compare"
      BY <1>3, <1>4, <2>2 DEF SwapSteps
    <2> QED
      BY <1>5, <2>1, <2>3
  <1>18. CASE Resume(p)
    <2>1. job[p].at = "resume" /\ UNCHANGED <<manifest, tree>>
      BY <1>18 DEF Resume, At
    <2>2. \/ Goto(p, "park") \/ Goto(p, "swap")
          \/ Persist(p, SwapOf(p).done, "over", "over") /\ SwapOf(p).done \in Statuses
      BY <1>18, Constants DEF Resume, Statuses
    <2>3. job'[p].at \in {"park", "swap", "compare"}
      BY <1>2, <1>3, <1>4, <2>2 DEF SwapSteps
    <2> QED
      BY <1>5, <2>1, <2>3
  <1>19. CASE Park(p)
    <2>1. /\ UNCHANGED undone
          /\ Persist(p, SwapOf(p).running, "resume", "unpark") /\ SwapOf(p).running \in Statuses
      BY <1>19, Constants DEF Park, Statuses
    <2>2. /\ job'[p].at = "compare" /\ job'[p].ok = "resume" /\ job'[p].fail = "unpark"
      <3>1. "resume" \in Later /\ "unpark" \in Later
        BY <1>4 DEF SwapSteps
      <3> QED
        BY <1>0, <2>1, <3>1, PersistTypes
    <2>3. Midway'
      BY <2>2 DEF Knows, PersistSteps, OpenCheckpoint, PromotionIntent, RollbackIntent,
             ParkCheckpoint, DoneCheckpoint
    <2> QED
      BY <1>6, <1>8, <2>2, <2>3
  <1>20. CASE Unpark(p)
    <2>1. /\ job[p].at = "unpark" /\ UNCHANGED manifest /\ Goto(p, "over")
          /\ CanMove(SwapOf(p).parked, "project") /\ Move(SwapOf(p).parked, "project")
      BY <1>20 DEF Unpark, At
    <2>2. Midway /\ manifest = job[p].status /\ manifest \in {"promoting", "rolling_back"}
      BY <1>1, <2>1 DEF Knows
    <2>3. IF Promotes(p) THEN Before' ELSE After'
      <3>1. /\ Midway /\ SwapOf(p).parked = "backup" => Before'
            /\ Midway /\ SwapOf(p).parked = "output" => After'
        BY <1>0, <1>9, <2>1, SwapMoves
      <3> QED
        BY <2>2, <3>1, SwapFacts, Constants
    <2>4. job'[p].at = "over"
      BY <1>2, <1>4, <2>1
    <2> QED
      BY <1>6, <1>8, <2>1, <2>2, <2>3, <2>4 DEF Promotes
  <1>21. CASE Swap(p)
    <2>1. job'[p].at = "carry" /\ job'[p].left = Entries
      BY <1>0, <1>21 DEF Swap, Jobs
    <2> QED
      BY <2>1
  <1>22. CASE CarryEntry(p)
    <2>1. job[p].at = "carry" /\ UNCHANGED manifest
      BY <1>22 DEF CarryEntry, At
    <2>2. PICK e \in job[p].left :
             /\ job' = [job EXCEPT ![p].left = @ \ {e}]
             /\ IF Carries(SwapOf(p).parked, e)
                THEN tree' = Put(Put(tree, "project", e, tree[SwapOf(p).parked].kept[e]),
                                 SwapOf(p).parked, e, "none")
                ELSE UNCHANGED tree
      BY <1>22 DEF CarryEntry
    <2>3. e \in Entries /\ job'[p].at = "carry" /\ job'[p].left = job[p].left \ {e}
      BY <1>0, <2>1, <2>2 DEF Jobs
    <2>4. EndOf(p) /\ manifest = job[p].status /\ manifest \in {"promoting", "rolling_back"}
      BY <1>1, <2>1 DEF Knows
    <2>5. Swapped
      BY <2>4 DEF Swapped, EndOf, Promotes
    <2>6. tree'["project"].kept[e] # "none"
      <3>1. CASE Carries(SwapOf(p).parked, e)
        BY <1>0, <1>9, <2>2, <2>3, <3>1, CarryEffect DEF Carries
      <3>2. CASE ~Carries(SwapOf(p).parked, e)
        BY <2>2, <2>3, <2>4, <3>2, WhereEntriesAre DEF Carries
      <3> QED
        BY <3>1, <3>2
    <2>7. \A f \in Entries \ {e} : tree'["project"].kept[f] = tree["project"].kept[f]
      BY <1>0, <1>9, <2>2, <2>3, CarryEffect
    <2> QED
      BY <2>1, <2>3, <2>5, <2>6, <2>7
  <1>23. CASE Carried(p)
    <2>1. /\ job[p].at = "carry" /\ job[p].left = {} /\ UNCHANGED <<manifest, tree>>
          /\ Persist(p, SwapOf(p).done, "over", "unswap") /\ SwapOf(p).done \in Statuses
      BY <1>23, Constants DEF Carried, At, Statuses
    <2>2. job'[p].at = "compare"
      BY <1>3, <1>4, <2>1 DEF SwapSteps
    <2>3. Swapped' = Swapped
      BY <2>1, LayoutStable DEF Swapped
    <2> QED
      BY <2>1, <2>2, <2>3
  <1>24. CASE Unswap(p)
    <2> DEFINE Back(step, from, to, next) ==
                  At(p, step) /\ CanMove(from, to) /\ Move(from, to) /\ Goto(p, next)
    <2>1. /\ UNCHANGED <<manifest, undone>>
          /\ \/ Back("unswap", "project", SwapOf(p).source, "restore")
             \/ Back("restore", SwapOf(p).parked, "project", "over")
             \/ Back("redo", SwapOf(p).source, "project", "over")
      BY <1>24 DEF Unswap
    <2>2. /\ job[p].at \in {"unswap", "restore", "redo"}
          /\ job[p].status \in {"promoted", "rolled_back"} /\ manifest = RunningOf(p)
      BY <1>1, <2>1 DEF At, Knows
    <2>3. CASE Back("unswap", "project", SwapOf(p).source, "restore")
      <3>1. job'[p].at = "restore" /\ job'[p].status = job[p].status
        BY <1>2, <1>4, <2>3 DEF SwapSteps
      <3>2. Midway'
        BY <2>1, <3>1 DEF Knows
      <3>3. job[p].at = "unswap" /\ EndOf(p)
        BY <1>1, <2>3 DEF Knows, At
      <3>4. Swapped
        BY <2>2, <3>3 DEF Swapped, EndOf, RunningOf
      <3>5. HasAll("project")
        BY <3>3, <3>4 DEF HasAll
      <3>6. tree'[SwapOf(p).source] = tree["project"]
        BY <1>9, <2>3, MoveEffect
      <3>7. SwapOf(p)' = SwapOf(p)
        BY <3>1 DEF SwapOf
      <3>8. HasAll(SwapOf(p).source)'
        BY <3>5, <3>6, <3>7 DEF HasAll
      <3> QED
        BY <1>8, <3>2, <3>8
    <2>4. CASE Back("restore", SwapOf(p).parked, "project", "over")
      <3>1. job'[p].at = "over" /\ job[p].at = "restore"
        BY <1>2, <1>4, <2>4 DEF At
      <3>2. Midway
        BY <1>1, <3>1 DEF Knows
      <3>3. IF Promotes(p) THEN Before' ELSE After'
        <4>1. /\ Midway /\ SwapOf(p).parked = "backup" => Before'
              /\ Midway /\ SwapOf(p).parked = "output" => After'
          BY <1>0, <1>9, <2>4, SwapMoves
        <4> QED
          BY <3>2, <4>1, SwapFacts, Constants
      <3>4. ~Swapped'
        BY <1>8, <2>1, <2>2, <3>3 DEF RunningOf
      <3> QED
        BY <1>6, <3>1, <3>4
    <2>5. CASE Back("redo", SwapOf(p).source, "project", "over")
      <3>1. job'[p].at = "over" /\ job[p].at = "redo"
        BY <1>2, <1>4, <2>5 DEF At
      <3>2. HasAll(SwapOf(p).source)
        BY <3>1
      <3>3. tree'["project"] = tree[SwapOf(p).source]
        BY <1>9, <2>5, MoveEffect
      <3>4. HasAll("project")'
        BY <3>2, <3>3 DEF HasAll
      <3> QED
        BY <3>1, <3>4 DEF HasAll
    <2> QED
      BY <2>1, <2>3, <2>4, <2>5
  <1>25. CASE Fails(p)
    <2>1. /\ UNCHANGED <<manifest, tree>> /\ job[p].at # "carry"
          /\ Goto(p, IF job[p].at = "restore" THEN "redo" ELSE "over")
      BY <1>25 DEF Fails
    <2>2. CASE job[p].at = "restore"
      <3>1. job'[p].at = "redo" /\ job'[p].status = job[p].status
        BY <1>2, <1>4, <2>1, <2>2 DEF SwapSteps
      <3>2. Midway'
        BY <3>1 DEF Knows
      <3>3. SwapOf(p)' = SwapOf(p)
        BY <3>1 DEF SwapOf
      <3>4. HasAll(SwapOf(p).source)'
        BY <2>1, <2>2, <3>3 DEF HasAll
      <3> QED
        BY <1>8, <3>2, <3>4
    <2>3. CASE job[p].at # "restore"
      <3>1. job'[p].at = "over"
        BY <1>2, <1>4, <2>1, <2>3
      <3> QED
        BY <1>5, <2>1, <3>1
    <2> QED
      BY <2>2, <2>3
  <1> QED
    BY <1>10, <1>12, <1>13, <1>14, <1>15, <1>16, <1>17, <1>18, <1>19, <1>20, <1>21,
       <1>22, <1>23, <1>24, <1>25 DEF Work

LEMMA EntriesPreserved ==
    ASSUME TypeOK, TypeOK', OwnersOwn, DirectoriesInv, LayoutInv, LayoutInv', EntriesInv,
           [Next]_vars
    PROVE  EntriesInv'
  <1>1. displaced \/ undone \/ stranded => (displaced \/ undone \/ stranded)'
    <2>1. undone => undone'
      BY DEF Next, vars, lifecycleVars, Lock, Release, Crash, Edit, Recreate, Work,
             CompareRevision, MoveManifestAside, PutManifest, PutManifestFails, PersistFails,
             Load, Build, Copy, PublishCopy, Validate, Outcome, ApproveSmoke, Promote, BeginRollback, Resume,
             Park, Unpark, Swap, CarryEntry, Carried, Unswap, Fails
    <2>2. stranded => stranded'
      BY DEF Next, vars, lifecycleVars, Lock, Release, Crash, Edit, Recreate, Work,
             CompareRevision, MoveManifestAside, PutManifest, PutManifestFails, PersistFails,
             Load, Build, Copy, PublishCopy, Validate, Outcome, ApproveSmoke, Promote, BeginRollback, Resume,
             Park, Unpark, Swap, CarryEntry, Carried, Unswap, Fails
    <2> QED
      BY <2>1, <2>2, DisplacedStays
  <1> SUFFICES ASSUME ~displaced', ~undone', ~stranded'
               PROVE  EntriesInv'
    BY DEF EntriesInv
  <1>2. ~displaced /\ ~undone /\ ~stranded
    BY <1>1
  <1>3. /\ Swapped => \A e \in Entries : tree["project"].kept[e] # "none" \/ StillToCarry(e)
        /\ \A p \in Processes : At(p, "restore") \/ At(p, "redo") => HasAll(SwapOf(p).source)
    BY <1>2 DEF EntriesInv
  <1>4. StatusPlaces /\ \A q \in Processes : Holds(q) => Knows(q)
    BY <1>2 DEF LayoutInv
  <1>5. StatusPlaces' /\ \A q \in Processes : Holds(q)' => Knows(q)'
    BY DEF LayoutInv
  <1>6. ASSUME NEW p \in Processes, Work(p)
        PROVE  EntriesInv'
    <2>1. Holds(p) /\ lockPc' = lockPc
      BY <1>6 DEF Work, lockVars, CompareRevision, MoveManifestAside, PutManifest,
             PutManifestFails, PersistFails, Load, Build, Copy, PublishCopy, Validate, Outcome,
             ApproveSmoke, Promote, BeginRollback, Resume, Park, Unpark, Swap, CarryEntry,
             Carried, Unswap, Fails, At
    <2>2. \A q \in Processes : (Holds(q) => q = p) /\ Holds(q)' = Holds(q)
      BY <1>2, <2>1 DEF Holds, OwnersOwn, Owning
    <2>3. HereUnlessLeft(p)
      <3> SUFFICES ASSUME Swapped, NEW e \in Entries, tree["project"].kept[e] = "none"
                   PROVE  job[p].at = "carry" /\ e \in job[p].left
        BY DEF HereUnlessLeft
      <3>1. PICK q \in Processes : At(q, "carry") /\ e \in job[q].left
        BY <1>3 DEF StillToCarry
      <3> QED
        BY <2>2, <3>1 DEF At
    <2>4. InReversed(p)
      BY <1>3, <2>1 DEF At, InReversed
    <2>5. StatusPlaces' /\ Knows(p)' /\ Knows(p)
      BY <1>4, <1>5, <2>1, <2>2
    <2>6. HereUnlessLeft(p)' /\ InReversed(p)'
      BY <1>4, <1>6, <2>3, <2>4, <2>5, WorkEntries
    <2>7. Swapped' => \A e \in Entries : tree'["project"].kept[e] # "none" \/ StillToCarry(e)'
      BY <2>1, <2>2, <2>6 DEF StillToCarry, At, HereUnlessLeft
    <2>8. \A q \in Processes : (At(q, "restore") \/ At(q, "redo"))' => HasAll(SwapOf(q).source)'
      <3> SUFFICES ASSUME NEW q \in Processes, (At(q, "restore") \/ At(q, "redo"))'
                   PROVE  HasAll(SwapOf(q).source)'
        OBVIOUS
      <3>1. q = p
        BY <2>2 DEF At
      <3>2. job'[p].at \in {"restore", "redo"}
        BY <3>1 DEF At
      <3> QED
        BY <2>6, <3>1, <3>2 DEF InReversed
    <2> QED
      BY <2>7, <2>8 DEF EntriesInv
  <1>7. ASSUME \A q \in Places : tree'[q].of = tree[q].of, UNCHANGED manifest,
               \A q \in Places, e \in Entries :
                  tree[q].kept[e] # "none" => tree'[q].kept[e] # "none",
               \A q \in Processes : \/ job'[q] = job[q] /\ Holds(q)' = Holds(q)
                                    \/ /\ job[q].at # "carry"
                                       /\ Holds(q)' => job'[q].at \notin {"restore", "redo"}
        PROVE  EntriesInv'
    <2>1. Swapped' = Swapped
      <3>1. Before' = Before /\ After' = After
        BY <1>7, LayoutStable
      <3> QED
        BY <1>7, <3>1 DEF Swapped
    <2>2. ASSUME NEW e \in Entries, StillToCarry(e)
          PROVE  StillToCarry(e)'
      BY <1>7, <2>2 DEF StillToCarry, At
    <2>3. ASSUME NEW q \in Processes, (At(q, "restore") \/ At(q, "redo"))'
          PROVE  HasAll(SwapOf(q).source)'
      <3>1. job'[q] = job[q] /\ Holds(q)' = Holds(q)
        BY <1>7, <2>3 DEF At
      <3>2. SwapOf(q)' = SwapOf(q) /\ SwapOf(q).source \in Places
        BY <3>1, Constants DEF SwapOf, Places
      <3>3. HasAll(SwapOf(q).source)
        BY <1>3, <2>3, <3>1 DEF At
      <3> QED
        BY <1>7, <3>2, <3>3 DEF HasAll
    <2> QED
      BY <1>3, <1>7, <2>1, <2>2, <2>3 DEF EntriesInv, Places
  <1>8. ASSUME NEW p \in Processes, Lock(p) \/ Release(p) \/ Crash(p)
        PROVE  EntriesInv'
    <2>1. LockStep(p) /\ LockTypeOK
      BY <1>8, TypeOKParts DEF Lock, Release, Crash, LockStep
    <2>2. UNCHANGED <<manifest, tree>>
      BY <1>8 DEF Lock, Release, Crash, lifecycleVars
    <2>3. \A q \in Processes \ {p} : job'[q] = job[q] /\ Holds(q)' = Holds(q)
      BY <1>8, <2>1, LockStepLocal, TypeOKParts
         DEF Lock, Release, Crash, Forget, lifecycleVars, LifecycleTypeOK, Holds
    <2>4. \/ job'[p] = job[p] /\ Holds(p)' = Holds(p)
          \/ job[p].at # "carry" /\ (Holds(p)' => job'[p].at \notin {"restore", "redo"})
      <3>1. NoJob.at = "load"
        BY DEF NoJob
      <3>2. CASE Lock(p)
        <4>1. job'[p] = job[p] /\ (Holds(p)' = Holds(p) \/ job[p] = NoJob)
          BY <2>1, <3>2, LockStepPlace, TypeOKParts DEF Lock, lifecycleVars, JobsLocked, Holds
        <4> QED
          BY <3>1, <4>1
      <3>3. CASE Release(p)
        BY <2>1, <3>3, LockStepPlace DEF Release, Holds
      <3>4. CASE Crash(p)
        BY <1>2, <2>1, <3>4, LockStepPlace DEF Crash, Holds
      <3> QED
        BY <1>8, <3>2, <3>3, <3>4
    <2> QED
      BY <1>7, <2>2, <2>3, <2>4
  <1>9. CASE UNCHANGED <<lockVars, manifest, job>> /\ (Edited \/ EntryMade \/ UNCHANGED tree)
    <2>1. \A q \in Places : tree'[q].of = tree[q].of
      BY <1>9, QuietEffect
    <2>2. \A q \in Processes : job'[q] = job[q] /\ Holds(q)' = Holds(q)
      BY <1>9 DEF lockVars, Holds
    <2> QED
      BY <1>7, <1>9, <2>1, <2>2, EntriesStay
  <1> QED
    BY <1>6, <1>8, <1>9 DEF Next, Edit, Recreate, Edited, EntryMade, vars, lifecycleVars

-----------------------------------------------------------------------------
(***************************************************************************)
(* The theorems.                                                           *)
(***************************************************************************)
Inv == TypeOK /\ OwnersOwn /\ DirectoriesInv /\ LayoutInv /\ EntriesInv /\ AsideInv

LEMMA Invariance == Spec => []Inv
  <1>1. Init => Inv
    BY TypesInitially, LockInitially, DirectoriesInitially, LayoutInitially,
       EntriesInitially DEF Init, LockInv, AsideInv, Inv
  <1>2. Inv /\ [Next]_vars => Inv'
    BY TypesPreserved, DirectoriesPreserved, LayoutPreserved, EntriesPreserved,
       AsidePreserved DEF Inv, DirectoriesInv
  <1> QED
    BY <1>1, <1>2, PTL DEF Spec

\* The variables of the migration commands and of their lock keep their types.
THEOREM TypeCorrect == Spec => []TypeOK
  <1>1. Inv => TypeOK
    BY DEF Inv
  <1> QED
    BY <1>1, Invariance, PTL

\* Nobody removes or replaces the lock of a running command, unless a claim
\* moved a living holder's file aside or put a dead one's back over it.
THEOREM LockIsHolders == Spec => []HolderOwnsLock
  <1>1. Inv => HolderOwnsLock
    BY DEF Inv, OwnersOwn, Owning, HolderOwnsLock
  <1> QED
    BY <1>1, Invariance, PTL

\* A preserved entry is never copied, replaced or lost, whatever the commands
\* and their failures do, also where two of them run at once.
THEOREM EntriesSurvive == Spec => []PreservedOnce
  <1>1. Inv => PreservedOnce
    BY DEF Inv, DirectoriesInv
  <1> QED
    BY <1>1, Invariance, PTL

\* While commands exclude each other and no completed swap is undone, the
\* record of the manifest tells where the directories are, and it is at its
\* path unless a command is replacing it or has ended between the two renames
\* that do.
THEOREM LayoutKnown == Spec => []StatusTellsLayoutUnlessUndone
  <1>1. Inv => StatusTellsLayoutUnlessUndone
    <2> SUFFICES ASSUME Inv, ~displaced, ~undone
                 PROVE  StatusTellsLayout
      BY DEF StatusTellsLayoutUnlessUndone, Inv, AsideInv
    <2>1. StatusPlaces /\ NoHoles /\ manifest \in Statuses
      BY DEF Inv, LayoutInv, DirectoriesInv, TypeOK
    <2> QED
      BY <2>1, StatusFacts DEF StatusPlaces, StatusTellsLayout, SwapLayout, Unbuilt, Before,
           Midway, After, LayoutIs, NoHoles, Places
  <1> QED
    BY <1>1, Invariance, PTL

\* The formal project as it was is always in one piece at its path or in the
\* backup, and there is at most one migration copy.
THEOREM TreesStay == Spec => []TreesInPlace
  <1>1. Inv => TreesInPlace
    <2> SUFFICES ASSUME Inv, ~displaced
                 PROVE  /\ Copies("previous") \subseteq {"project", "backup"}
                        /\ Cardinality(Copies("promoted")) <= 1
      BY DEF Inv, DirectoriesInv, PreviousOnce, TreesInPlace
    <2>1. Unbuilt \/ Before \/ Midway \/ After
      BY DEF Inv, LayoutInv, StatusPlaces
    <2>2. Copies("previous") \subseteq {"project", "backup"}
      BY <2>1 DEF Unbuilt, Before, Midway, After, LayoutIs, Copies, Places
    <2>3. Copies("promoted") = {} \/ \E path \in Places : Copies("promoted") = {path}
      BY <2>1 DEF Unbuilt, Before, Midway, After, LayoutIs, Copies, Places
    <2>4. Cardinality(Copies("promoted")) <= 1
      <3>1. CASE Copies("promoted") = {}
        <4>1. Cardinality(Copies("promoted")) = 0
          BY <3>1, FS_EmptySet, Zenon
        <4> QED
          BY <4>1
      <3>2. CASE \E path \in Places : Copies("promoted") = {path}
        <4>1. Cardinality(Copies("promoted")) = 1
          BY <3>2, FS_Singleton, Zenon
        <4> QED
          BY <4>1
      <3> QED
        BY <2>3, <3>1, <3>2
    <2> QED
      BY <2>2, <2>4
  <1> QED
    BY <1>1, Invariance, PTL

\* The preserved entries are with the formal project when a swap is complete,
\* however often it was reversed, redone or resumed, if no command ended
\* between the second rename and the checkpoint.
THEOREM EntriesFollow == Spec => []PreservedFollow
  <1>1. Inv => PreservedFollow
    <2> SUFFICES ASSUME Inv, ~displaced, ~undone, ~stranded,
                        manifest \in {"promoted", "rolled_back"}, NEW e \in Entries
                 PROVE  tree["project"].kept[e] # "none"
      BY DEF PreservedFollow
    <2>1. tree["project"].kept[e] # "none" \/ StillToCarry(e)
      BY DEF Inv, EntriesInv, Swapped
    <2>2. ASSUME NEW p \in Processes
          PROVE  ~At(p, "carry")
      BY DEF Inv, LayoutInv, Knows, At
    <2> QED
      BY <2>1, <2>2 DEF StillToCarry
  <1> QED
    BY <1>1, Invariance, PTL
=============================================================================
