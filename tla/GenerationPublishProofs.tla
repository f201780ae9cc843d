----------------------- MODULE GenerationPublishProofs -----------------------
(***************************************************************************)
(* Theorems about GenerationPublish, for any processes and bounds.         *)
(***************************************************************************)
EXTENDS GenerationPublish, TLAPS

\* Who is past the start of an operation holds the publication lock.
LockHeld == \A p \in Processes : pc[p] # "idle" => lock = p

\* What is indexed and what was replaced is a version the tree has had, and a
\* migration in progress has one more to come.
TreeInv ==
    /\ rebase # "idle" => tree < MaxTree
    /\ replacedAt <= tree
    /\ present <=> rebase # "aside"
    /\ \A d \in Databases : db[d].content <= tree

\* A stage that passed its scan is not behind the published database, and a
\* renamed one is its successor, baselines included.
Successor(d) ==
    /\ d \in 1..drawn
    /\ db[d].status \in {"ready", "stale"}
    /\ db[d].gen = db[pointer].gen + 1
    /\ db[d].content >= db[pointer].content
    /\ db[d].baseline = saved

PublishInv ==
    /\ pointer <= drawn
    /\ PublishedIsComplete
    /\ BaselinesSurvive
    /\ \A p \in Processes :
           /\ pc[p] = "check" => stage[p] \in db[pointer].content..tree
           /\ pc[p] = "pointer" => Successor(stage[p])

\* From the mark to the end of the replacement.
Replacing == rebase \in {"marked", "intent", "aside"}

\* While every refresh is in the sight of its publication check: the mark
\* stays on the published database until a scan of the new tree succeeds it.
MarkInv ==
    /\ Replacing \/ db[pointer].content < replacedAt => db[pointer].status # "ready"
    /\ rebase = "resolved" /\ markFile = pointer => db[pointer].status # "absent"
    /\ \A p \in Processes :
           /\ pc[p] = "check" /\ (Replacing \/ stage[p] < replacedAt) =>
                  db[pointer].status = "stale" /\ base[p].status # "stale"
           /\ pc[p] = "pointer" => ~Replacing /\ db[stage[p]].content >= replacedAt

GuardInv == unguarded \/ MarkInv

Inv == TypeOK /\ LockHeld /\ TreeInv /\ PublishInv /\ GuardInv

(***************************************************************************)
(* What the steps do to the database files.                                *)
(***************************************************************************)
Database == [status : Statuses, gen : 0..MaxGeneration,
             content : 0..MaxTree, baseline : 0..MaxSaves]

\* File d keeps its rows, and its status unless it was just created.
KeepsRows(d) ==
    /\ db'[d].gen = db[d].gen
    /\ db'[d].content = db[d].content
    /\ db'[d].baseline = db[d].baseline

KeepsFile(d) ==
    /\ KeepsRows(d)
    /\ IF db[d].status = "absent" THEN db'[d].status \in {"absent", "initializing"}
       ELSE db'[d].status = db[d].status

\* A recorded failure creates the configured database at most.
LEMMA FailureEffect ==
    ASSUME TypeOK, recordFailure
    PROVE  db' \in [Databases -> Database] /\ \A d \in Databases : KeepsFile(d)
  <1>1. db \in [Databases -> Database] /\ pointer \in Databases
    BY DEF TypeOK, Database
  <1>2. /\ Created(db[pointer]) \in Database
        /\ Created(db[pointer]).gen = db[pointer].gen
        /\ Created(db[pointer]).content = db[pointer].content
        /\ Created(db[pointer]).baseline = db[pointer].baseline
        /\ Created(db[pointer]).status = IF db[pointer].status = "absent" THEN "initializing"
                                         ELSE db[pointer].status
    BY <1>1 DEF Created, Database, Statuses
  <1>3. db' = [db EXCEPT ![pointer] = Created(db[pointer])]
    BY DEF recordFailure
  <1> QED
    BY <1>1, <1>2, <1>3 DEF KeepsFile, KeepsRows

\* The sweep and the retirement remove files, never the published one.
LEMMA StartEffect ==
    ASSUME TypeOK, NEW p \in Processes, StartRefresh(p)
    PROVE  /\ db' \in [Databases -> Database]
           /\ \A d \in Databases : db'[d] \in {db[d], Absent}
           /\ db'[pointer] = db[pointer]
  <1>1. PICK swept \in SUBSET Orphans :
            db' = [d \in Databases |-> IF d \in swept THEN Absent ELSE db[d]]
    BY DEF StartRefresh
  <1>2. pointer \notin swept
    BY DEF Orphans
  <1>3. Absent \in Database
    BY PublicationAssumption DEF Absent, Database, Statuses
  <1> QED
    BY <1>1, <1>2, <1>3 DEF TypeOK, Database

LEMMA RetireEffect ==
    ASSUME TypeOK, NEW p \in Processes, Retire(p)
    PROVE  /\ db' \in [Databases -> Database]
           /\ \A d \in Databases : db'[d] \in {db[d], Absent}
           /\ db'[pointer] = db[pointer]
  <1>1. Absent \in Database
    BY PublicationAssumption DEF Absent, Database, Statuses
  <1>2. base[p].file \in Databases
    BY DEF TypeOK
  <1>3. CASE base[p].file # pointer /\ db' = [db EXCEPT ![base[p].file] = Absent]
    BY <1>1, <1>2, <1>3 DEF TypeOK, Database
  <1>4. CASE UNCHANGED db
    BY <1>4 DEF TypeOK, Database
  <1> QED
    BY <1>3, <1>4 DEF Retire

\* The stage becomes the file of the next number, a database of its own.
LEMMA RenameEffect ==
    ASSUME TypeOK, TreeInv, PublishInv, NEW p \in Processes, RenameStage(p)
    PROVE  /\ db' \in [Databases -> Database]
           /\ drawn + 1 \in Databases \ {pointer}
           /\ db'[drawn + 1] = Generation(p)
           /\ \A d \in Databases \ {drawn + 1} : db'[d] = db[d]
  <1>1. drawn \in Nat /\ pointer \in Nat /\ pointer <= drawn /\ drawn + 1 \in Databases
    BY PublicationAssumption DEF TypeOK, PublishInv, RenameStage, Databases
  <1>2. stage[p] \in 0..MaxTree
    BY PublicationAssumption DEF TypeOK, TreeInv, PublishInv, RenameStage
  <1>3. db[pointer].gen + 1 \in 0..MaxGeneration /\ db[pointer].baseline \in 0..MaxSaves
    BY PublicationAssumption DEF TypeOK, RenameStage, Current
  <1>4. Generation(p) \in Database
    BY <1>2, <1>3 DEF Generation, Current, Database, Statuses
  <1>5. db' = [db EXCEPT ![drawn + 1] = Generation(p)]
    BY DEF RenameStage
  <1> QED
    BY <1>1, <1>4, <1>5 DEF TypeOK, Database

\* Refreshed files bring their database forward in place.
LEMMA CommitEffect ==
    ASSUME TypeOK, TreeInv, NEW p \in Processes, CommitFiles(p)
    PROVE  /\ db' \in [Databases -> Database]
           /\ \A d \in Databases :
                  /\ db'[d].status = db[d].status
                  /\ db'[d].baseline = db[d].baseline
                  /\ db'[d].content \in db[d].content..tree
                  /\ db[d].content < replacedAt => db'[d].content < replacedAt
  <1> DEFINE f == base[p].file
  <1>1. f \in Databases /\ db \in [Databases -> Database]
    BY DEF TypeOK, Database
  <1>2. PICK v \in db[f].content..tree :
            /\ db[f].content < replacedAt => v < replacedAt
            /\ db' = [db EXCEPT ![f].content = v, ![f].gen = @ + 1]
    BY DEF CommitFiles
  <1>3. db[f].gen < MaxGeneration
    BY DEF CommitFiles
  <1>4. v \in 0..MaxTree /\ db[f].gen + 1 \in 0..MaxGeneration
    BY <1>1, <1>2, <1>3, PublicationAssumption DEF TypeOK, Database
  <1>5. db' = [db EXCEPT ![f] = [db[f] EXCEPT !.content = v, !.gen = db[f].gen + 1]]
    BY <1>1, <1>2 DEF Database
  <1>6. \A d \in Databases : db[d].content \in db[d].content..tree
    BY <1>1 DEF TypeOK, TreeInv, Database
  <1> QED
    BY <1>1, <1>2, <1>4, <1>5, <1>6 DEF Database

\* A saved baseline is the only thing a baseline update changes.
LEMMA SaveEffect ==
    ASSUME TypeOK, NEW p \in Processes, SaveBaseline(p)
    PROVE  /\ db' \in [Databases -> Database]
           /\ \A d \in Databases \ {pointer} : db'[d] = db[d]
           /\ db'[pointer].baseline = saved + 1
           /\ db'[pointer].content = db[pointer].content
           /\ db'[pointer].status = IF db[pointer].status = "absent" THEN "initializing"
                                    ELSE db[pointer].status
  <1>1. db \in [Databases -> Database] /\ pointer \in Databases
    BY DEF TypeOK, Database
  <1>2. saved + 1 \in 0..MaxSaves
    BY PublicationAssumption DEF TypeOK, SaveBaseline
  <1> DEFINE new == [Created(db[pointer]) EXCEPT !.baseline = saved + 1]
  <1>3. /\ new \in Database
        /\ new.baseline = saved + 1
        /\ new.content = db[pointer].content
        /\ new.status = IF db[pointer].status = "absent" THEN "initializing"
                        ELSE db[pointer].status
    BY <1>1, <1>2 DEF Created, Database, Statuses
  <1>4. db' = [db EXCEPT ![pointer] = new]
    BY DEF SaveBaseline
  <1> QED
    BY <1>1, <1>3, <1>4

\* The mark changes the status of one existing file.
LEMMA MarkEffect ==
    ASSUME TypeOK, MarkIndexStale
    PROVE  /\ db' \in [Databases -> Database]
           /\ \A d \in Databases : KeepsRows(d)
           /\ \A d \in Databases \ {markFile} : db'[d] = db[d]
           /\ db'[markFile].status =
                  IF db[markFile].status = "absent" THEN "absent" ELSE "stale"
  <1>1. db \in [Databases -> Database] /\ markFile \in Databases
    BY DEF TypeOK, Database
  <1> DEFINE new == MarkedStale(db[markFile])
  <1>2. /\ new \in Database
        /\ new.gen = db[markFile].gen
        /\ new.content = db[markFile].content
        /\ new.baseline = db[markFile].baseline
        /\ new.status = IF db[markFile].status = "absent" THEN "absent" ELSE "stale"
    BY <1>1 DEF MarkedStale, Database, Statuses
  <1>3. db' = [db EXCEPT ![markFile] = new]
    BY DEF MarkIndexStale
  <1> QED
    BY <1>1, <1>2, <1>3 DEF KeepsRows

(***************************************************************************)
(* The invariant, part by part.                                            *)
(***************************************************************************)
Bases == [file : Databases, gen : 0..MaxGeneration, status : Statuses]
Places == {"idle", "base", "scan", "check", "pointer", "retire", "files"}

\* TypeOK but for the database files.
ControlOK ==
    /\ pointer \in Databases /\ drawn \in Databases /\ markFile \in Databases
    /\ lock \in Processes \cup {Nobody}
    /\ pc \in [Processes -> Places]
    /\ base \in [Processes -> Bases]
    /\ stage \in [Processes -> Nat]
    /\ tree \in 0..MaxTree /\ saved \in 0..MaxSaves /\ replacedAt \in 0..MaxTree
    /\ present \in BOOLEAN /\ unguarded \in BOOLEAN
    /\ rebase \in {"idle", "resolved", "marked", "intent", "aside"}

LEMMA Initially == Init => Inv
  <1> USE PublicationAssumption
  <1> SUFFICES ASSUME Init PROVE Inv
    OBVIOUS
  <1>1. /\ 0 \in Databases /\ 0 \in 0..MaxGeneration /\ 0 \in 0..MaxSaves
        /\ 0 \in 0..MaxTree /\ 1 \in 0..MaxTree /\ 0..MaxTree \subseteq Nat
    BY DEF Databases
  <1>2. TypeOK
    <2>1. Absent \in Database /\ NoBase \in Bases
      BY <1>1 DEF Database, Absent, NoBase, Bases, Statuses
    <2> QED
      BY <1>1, <2>1 DEF Init, TypeOK, Database, Bases
  <1>3. LockHeld
    BY DEF Init, LockHeld
  <1>4. TreeInv /\ PublishInv /\ GuardInv
    BY <1>1 DEF Init, TreeInv, PublishInv, PublishedIsComplete, BaselinesSurvive, GuardInv,
         MarkInv, Replacing, Absent
  <1> QED
    BY <1>2, <1>3, <1>4 DEF Inv

\* Ending an operation frees the lock and forgets the rest.
LEMMA LeaveEffect ==
    ASSUME TypeOK, NEW p \in Processes, Leave(p)
    PROVE  /\ pc' \in [Processes -> Places]
           /\ lock' \in Processes \cup {Nobody}
           /\ base' \in [Processes -> Bases]
           /\ stage' \in [Processes -> Nat]
           /\ pc'[p] = "idle"
           /\ \A q \in Processes \ {p} :
                  pc'[q] = pc[q] /\ base'[q] = base[q] /\ stage'[q] = stage[q]
           /\ lock # p => lock' = lock
  <1>1. NoBase \in Bases
    BY PublicationAssumption DEF NoBase, Bases, Statuses, Databases
  <1> QED
    BY <1>1 DEF Leave, TypeOK, Bases, Places

\* Nobody is past the start of an operation then.
LEMMA AllIdle ==
    ASSUME TypeOK, LockHeld, NEW p \in Processes, pc[p] # "idle", Leave(p)
    PROVE  \A q \in Processes : pc'[q] = "idle"
  BY LeaveEffect DEF LockHeld

\* What a failure records, or a retirement removes, leaves what was published.
KeepsPublished ==
    /\ KeepsRows(pointer)
    /\ IF db[pointer].status = "absent" THEN db'[pointer].status \in {"absent", "initializing"}
       ELSE db'[pointer].status = db[pointer].status

LEMMA FailureKeeps == ASSUME TypeOK, recordFailure PROVE KeepsPublished
  <1>1. pointer \in Databases
    BY DEF TypeOK
  <1> QED
    BY <1>1, FailureEffect DEF KeepsPublished, KeepsFile

\* Leaving an operation without having published keeps both parts that speak of
\* the published database.
LEMMA LeavesPublished ==
    ASSUME Inv, NEW p \in Processes, pc[p] # "idle", Leave(p),
           UNCHANGED <<pointer, drawn, treeVars, saved, unguarded>>, KeepsPublished
    PROVE  PublishInv' /\ GuardInv'
  <1>1. \A q \in Processes : pc'[q] = "idle"
    BY AllIdle DEF Inv
  <1>2. PublishedIsComplete' /\ BaselinesSurvive'
    BY DEF Inv, PublishInv, KeepsPublished, KeepsRows, PublishedIsComplete, BaselinesSurvive
  <1>3. MarkInv => MarkInv'
    BY <1>1 DEF KeepsPublished, KeepsRows, MarkInv, Replacing, treeVars
  <1>4. (pointer <= drawn)'
    BY DEF Inv, PublishInv
  <1> QED
    BY <1>1, <1>2, <1>3, <1>4 DEF Inv, PublishInv, GuardInv

\* What was renamed has a number.
LEMMA RenamedIsNumbered ==
    ASSUME TypeOK, PublishInv
    PROVE  \A p \in Processes : pc[p] = "pointer" => stage[p] \in Databases
  <1>1. drawn \in Databases
    BY DEF TypeOK
  <1>2. \A p \in Processes : pc[p] = "pointer" => stage[p] \in 1..drawn
    BY DEF PublishInv, Successor
  <1> QED
    BY <1>1, <1>2, PublicationAssumption DEF Databases

\* Every database file keeps its type.
LEMMA FilesStep == ASSUME Inv, Next PROVE db' \in [Databases -> Database]
  <1> USE PublicationAssumption DEF Inv, TypeOK, Database
  <1>1. ASSUME NEW p \in Processes, StartRefresh(p) PROVE db' \in [Databases -> Database]
    BY <1>1, StartEffect
  <1>2. ASSUME NEW p \in Processes, AbandonWait(p) PROVE db' \in [Databases -> Database]
    BY <1>2, FailureEffect DEF AbandonWait
  <1>3. ASSUME NEW p \in Processes, ReadBase(p) PROVE db' \in [Databases -> Database]
    BY <1>3 DEF ReadBase, indexVars
  <1>4. ASSUME NEW p \in Processes, ScanTree(p) PROVE db' \in [Databases -> Database]
    BY <1>4 DEF ScanTree, indexVars
  <1>5. ASSUME NEW p \in Processes, RenameStage(p) PROVE db' \in [Databases -> Database]
    BY <1>5, RenameEffect
  <1>6. ASSUME NEW p \in Processes, Conflict(p) PROVE db' \in [Databases -> Database]
    BY <1>6, FailureEffect DEF Conflict
  <1>7. ASSUME NEW p \in Processes, PublishPointer(p) PROVE db' \in [Databases -> Database]
    BY <1>7 DEF PublishPointer
  <1>8. ASSUME NEW p \in Processes, Retire(p) PROVE db' \in [Databases -> Database]
    BY <1>8, RetireEffect
  <1>9. ASSUME NEW p \in Processes, FailRefresh(p) PROVE db' \in [Databases -> Database]
    BY <1>9, FailureEffect DEF FailRefresh
  <1>10. ASSUME NEW p \in Processes, StartFiles(p) PROVE db' \in [Databases -> Database]
    BY <1>10 DEF StartFiles, indexVars
  <1>11. ASSUME NEW p \in Processes, CommitFiles(p) PROVE db' \in [Databases -> Database]
    BY <1>11, CommitEffect
  <1>12. ASSUME NEW p \in Processes, AbandonFiles(p) PROVE db' \in [Databases -> Database]
    BY <1>12 DEF AbandonFiles, indexVars
  <1>13. ASSUME NEW p \in Processes, SaveBaseline(p) PROVE db' \in [Databases -> Database]
    BY <1>13, SaveEffect
  <1>14. ASSUME NEW p \in Processes, Crash(p) PROVE db' \in [Databases -> Database]
    BY <1>14 DEF Crash, indexVars
  <1>15. ASSUME ResolveIndex PROVE db' \in [Databases -> Database]
    BY <1>15 DEF ResolveIndex, indexVars
  <1>16. ASSUME MarkIndexStale PROVE db' \in [Databases -> Database]
    BY <1>16, MarkEffect
  <1>17. ASSUME PersistIntent PROVE db' \in [Databases -> Database]
    BY <1>17 DEF PersistIntent, indexVars
  <1>18. ASSUME MoveProjectAside PROVE db' \in [Databases -> Database]
    BY <1>18 DEF MoveProjectAside, indexVars
  <1>19. ASSUME MoveReplacementIn PROVE db' \in [Databases -> Database]
    BY <1>19 DEF MoveReplacementIn, indexVars
  <1>20. ASSUME CrashRebase PROVE db' \in [Databases -> Database]
    BY <1>20 DEF CrashRebase, indexVars
  <1>21. ASSUME EditTree PROVE db' \in [Databases -> Database]
    BY <1>21 DEF EditTree, indexVars
  <1> QED
    BY <1>1, <1>2, <1>3, <1>4, <1>5, <1>6, <1>7, <1>8, <1>9, <1>10, <1>11, <1>12, <1>13,
       <1>14, <1>15, <1>16, <1>17, <1>18, <1>19, <1>20, <1>21 DEF Next, Process, Migration

\* So does everything else.
LEMMA ControlStep == ASSUME Inv, Next PROVE ControlOK'
  <1> USE PublicationAssumption DEF Inv, TypeOK, ControlOK, Bases, Places, TreeInv,
     PublishInv, Successor
  <1>1. ASSUME NEW p \in Processes, StartRefresh(p) PROVE ControlOK'
    BY <1>1 DEF StartRefresh, treeVars, Acquire
  <1>2. ASSUME NEW p \in Processes, AbandonWait(p) PROVE ControlOK'
    BY <1>2 DEF AbandonWait, processVars, treeVars
  <1>3. ASSUME NEW p \in Processes, ReadBase(p) PROVE ControlOK'
    BY <1>3 DEF ReadBase, indexVars, treeVars, Goto, Current
  <1>4. ASSUME NEW p \in Processes, ScanTree(p) PROVE ControlOK'
    BY <1>4 DEF ScanTree, indexVars, treeVars, Goto
  <1>5. ASSUME NEW p \in Processes, RenameStage(p) PROVE ControlOK'
    <2>1. drawn + 1 \in Databases /\ drawn + 1 \in Nat
      BY <1>5 DEF RenameStage, Databases
    <2> QED
      BY <1>5, <2>1 DEF RenameStage, Goto, treeVars
  <1>6. ASSUME NEW p \in Processes, Conflict(p) PROVE ControlOK'
    BY <1>6, LeaveEffect DEF Conflict, treeVars
  <1>7. ASSUME NEW p \in Processes, PublishPointer(p) PROVE ControlOK'
    <2>1. stage[p] \in Databases
      BY <1>7 DEF PublishPointer, Databases
    <2> QED
      BY <1>7, <2>1 DEF PublishPointer, Goto, treeVars
  <1>8. ASSUME NEW p \in Processes, Retire(p) PROVE ControlOK'
    BY <1>8, LeaveEffect DEF Retire, treeVars
  <1>9. ASSUME NEW p \in Processes, FailRefresh(p) PROVE ControlOK'
    BY <1>9, LeaveEffect DEF FailRefresh, treeVars
  <1>10. ASSUME NEW p \in Processes, StartFiles(p) PROVE ControlOK'
    BY <1>10 DEF StartFiles, indexVars, treeVars, Acquire, Current
  <1>11. ASSUME NEW p \in Processes, CommitFiles(p) PROVE ControlOK'
    BY <1>11, LeaveEffect DEF CommitFiles, treeVars
  <1>12. ASSUME NEW p \in Processes, AbandonFiles(p) PROVE ControlOK'
    BY <1>12, LeaveEffect DEF AbandonFiles, indexVars, treeVars
  <1>13. ASSUME NEW p \in Processes, SaveBaseline(p) PROVE ControlOK'
    BY <1>13 DEF SaveBaseline, processVars, treeVars
  <1>14. ASSUME NEW p \in Processes, Crash(p) PROVE ControlOK'
    BY <1>14, LeaveEffect DEF Crash, indexVars, treeVars
  <1>15. ASSUME ResolveIndex PROVE ControlOK'
    BY <1>15 DEF ResolveIndex, indexVars, processVars
  <1>16. ASSUME MarkIndexStale PROVE ControlOK'
    BY <1>16 DEF MarkIndexStale, processVars
  <1>17. ASSUME PersistIntent PROVE ControlOK'
    BY <1>17 DEF PersistIntent, indexVars, processVars
  <1>18. ASSUME MoveProjectAside PROVE ControlOK'
    BY <1>18 DEF MoveProjectAside, indexVars, processVars
  <1>19. ASSUME MoveReplacementIn PROVE ControlOK'
    BY <1>19 DEF MoveReplacementIn, indexVars, processVars
  <1>20. ASSUME CrashRebase PROVE ControlOK'
    BY <1>20 DEF CrashRebase, indexVars, processVars
  <1>21. ASSUME EditTree PROVE ControlOK'
    BY <1>21 DEF EditTree, indexVars, processVars
  <1> QED
    BY <1>1, <1>2, <1>3, <1>4, <1>5, <1>6, <1>7, <1>8, <1>9, <1>10, <1>11, <1>12, <1>13,
       <1>14, <1>15, <1>16, <1>17, <1>18, <1>19, <1>20, <1>21 DEF Next, Process, Migration

\* The lock is taken before an operation starts and freed as it ends.
LEMMA LockStep == ASSUME Inv, Next PROVE LockHeld'
  <1> USE PublicationAssumption DEF Inv, LockHeld, Nobody, TypeOK
  <1>1. ASSUME NEW p \in Processes, StartRefresh(p) PROVE LockHeld'
    BY <1>1 DEF StartRefresh, Acquire, LockIsFree
  <1>2. ASSUME NEW p \in Processes, AbandonWait(p) PROVE LockHeld'
    BY <1>2 DEF AbandonWait, processVars
  <1>3. ASSUME NEW p \in Processes, ReadBase(p) PROVE LockHeld'
    BY <1>3 DEF ReadBase, Goto
  <1>4. ASSUME NEW p \in Processes, ScanTree(p) PROVE LockHeld'
    BY <1>4 DEF ScanTree, Goto
  <1>5. ASSUME NEW p \in Processes, RenameStage(p) PROVE LockHeld'
    BY <1>5 DEF RenameStage, Goto
  <1>6. ASSUME NEW p \in Processes, Conflict(p) PROVE LockHeld'
    BY <1>6 DEF Conflict, Leave
  <1>7. ASSUME NEW p \in Processes, PublishPointer(p) PROVE LockHeld'
    BY <1>7 DEF PublishPointer, Goto
  <1>8. ASSUME NEW p \in Processes, Retire(p) PROVE LockHeld'
    BY <1>8 DEF Retire, Leave
  <1>9. ASSUME NEW p \in Processes, FailRefresh(p) PROVE LockHeld'
    BY <1>9 DEF FailRefresh, Leave
  <1>10. ASSUME NEW p \in Processes, StartFiles(p) PROVE LockHeld'
    BY <1>10 DEF StartFiles, Acquire, LockIsFree
  <1>11. ASSUME NEW p \in Processes, CommitFiles(p) PROVE LockHeld'
    BY <1>11 DEF CommitFiles, Leave
  <1>12. ASSUME NEW p \in Processes, AbandonFiles(p) PROVE LockHeld'
    BY <1>12 DEF AbandonFiles, Leave
  <1>13. ASSUME NEW p \in Processes, SaveBaseline(p) PROVE LockHeld'
    BY <1>13 DEF SaveBaseline, processVars
  <1>14. ASSUME NEW p \in Processes, Crash(p) PROVE LockHeld'
    BY <1>14 DEF Crash, Leave
  <1>15. ASSUME ResolveIndex PROVE LockHeld'
    BY <1>15 DEF ResolveIndex, processVars
  <1>16. ASSUME MarkIndexStale PROVE LockHeld'
    BY <1>16 DEF MarkIndexStale, processVars
  <1>17. ASSUME PersistIntent PROVE LockHeld'
    BY <1>17 DEF PersistIntent, processVars
  <1>18. ASSUME MoveProjectAside PROVE LockHeld'
    BY <1>18 DEF MoveProjectAside, processVars
  <1>19. ASSUME MoveReplacementIn PROVE LockHeld'
    BY <1>19 DEF MoveReplacementIn, processVars
  <1>20. ASSUME CrashRebase PROVE LockHeld'
    BY <1>20 DEF CrashRebase, processVars
  <1>21. ASSUME EditTree PROVE LockHeld'
    BY <1>21 DEF EditTree, processVars
  <1> QED
    BY <1>1, <1>2, <1>3, <1>4, <1>5, <1>6, <1>7, <1>8, <1>9, <1>10, <1>11, <1>12, <1>13,
       <1>14, <1>15, <1>16, <1>17, <1>18, <1>19, <1>20, <1>21 DEF Next, Process, Migration

\* Only the migration moves the tree on while one is under way.
LEMMA TreeStep == ASSUME Inv, Next PROVE TreeInv'
  <1> USE PublicationAssumption DEF Inv, TreeInv, PublishInv, TypeOK, Database, KeepsFile,
     KeepsRows, Absent
  <1>1. ASSUME NEW p \in Processes, StartRefresh(p) PROVE TreeInv'
    BY <1>1, StartEffect DEF StartRefresh, treeVars
  <1>2. ASSUME NEW p \in Processes, AbandonWait(p) PROVE TreeInv'
    BY <1>2, FailureEffect DEF AbandonWait, treeVars
  <1>3. ASSUME NEW p \in Processes, ReadBase(p) PROVE TreeInv'
    BY <1>3 DEF ReadBase, indexVars, treeVars
  <1>4. ASSUME NEW p \in Processes, ScanTree(p) PROVE TreeInv'
    BY <1>4 DEF ScanTree, indexVars, treeVars
  <1>5. ASSUME NEW p \in Processes, RenameStage(p) PROVE TreeInv'
    BY <1>5, RenameEffect DEF RenameStage, treeVars, Generation, Current
  <1>6. ASSUME NEW p \in Processes, Conflict(p) PROVE TreeInv'
    BY <1>6, FailureEffect DEF Conflict, treeVars
  <1>7. ASSUME NEW p \in Processes, PublishPointer(p) PROVE TreeInv'
    BY <1>7 DEF PublishPointer, treeVars
  <1>8. ASSUME NEW p \in Processes, Retire(p) PROVE TreeInv'
    <2>1. \A d \in Databases : db'[d].content \in {db[d].content, 0}
      BY <1>8, RetireEffect DEF Absent
    <2>2. tree >= 0
      BY DEF TypeOK
    <2> QED
      BY <1>8, <2>1, <2>2 DEF Retire, treeVars, TreeInv
  <1>9. ASSUME NEW p \in Processes, FailRefresh(p) PROVE TreeInv'
    BY <1>9, FailureEffect DEF FailRefresh, treeVars
  <1>10. ASSUME NEW p \in Processes, StartFiles(p) PROVE TreeInv'
    BY <1>10 DEF StartFiles, indexVars, treeVars
  <1>11. ASSUME NEW p \in Processes, CommitFiles(p) PROVE TreeInv'
    <2>1. UNCHANGED treeVars /\ \A d \in Databases : db'[d].content \in db[d].content..tree
      BY <1>11, CommitEffect DEF CommitFiles
    <2>2. \A d \in Databases : db[d].content \in 0..MaxTree
      BY DEF Database
    <2> QED
      BY <2>1, <2>2 DEF treeVars
  <1>12. ASSUME NEW p \in Processes, AbandonFiles(p) PROVE TreeInv'
    BY <1>12 DEF AbandonFiles, indexVars, treeVars
  <1>13. ASSUME NEW p \in Processes, SaveBaseline(p) PROVE TreeInv'
    BY <1>13, SaveEffect DEF SaveBaseline, treeVars
  <1>14. ASSUME NEW p \in Processes, Crash(p) PROVE TreeInv'
    BY <1>14 DEF Crash, indexVars, treeVars
  <1>15. ASSUME ResolveIndex PROVE TreeInv'
    BY <1>15 DEF ResolveIndex, indexVars
  <1>16. ASSUME MarkIndexStale PROVE TreeInv'
    BY <1>16, MarkEffect DEF MarkIndexStale
  <1>17. ASSUME PersistIntent PROVE TreeInv'
    BY <1>17 DEF PersistIntent, indexVars
  <1>18. ASSUME MoveProjectAside PROVE TreeInv'
    BY <1>18 DEF MoveProjectAside, indexVars
  <1>19. ASSUME MoveReplacementIn PROVE TreeInv'
    BY <1>19 DEF MoveReplacementIn, indexVars
  <1>20. ASSUME CrashRebase PROVE TreeInv'
    BY <1>20 DEF CrashRebase, indexVars
  <1>21. ASSUME EditTree PROVE TreeInv'
    BY <1>21 DEF EditTree, indexVars
  <1> QED
    BY <1>1, <1>2, <1>3, <1>4, <1>5, <1>6, <1>7, <1>8, <1>9, <1>10, <1>11, <1>12, <1>13,
       <1>14, <1>15, <1>16, <1>17, <1>18, <1>19, <1>20, <1>21 DEF Next, Process, Migration

\* The lock holder alone moves the pointer, and only from an unchanged base.
LEMMA PublishStep == ASSUME Inv, Next PROVE PublishInv'
  <1> USE PublicationAssumption DEF Inv, TypeOK, PublishInv, TreeInv, Successor,
     PublishedIsComplete, BaselinesSurvive, LockHeld, KeepsFile, KeepsRows, Database
  <1>1. ASSUME NEW p \in Processes, StartRefresh(p) PROVE PublishInv'
    BY <1>1, StartEffect DEF StartRefresh, treeVars, Acquire, LockIsFree
  <1>2. ASSUME NEW p \in Processes, AbandonWait(p) PROVE PublishInv'
    <2>1. pointer \in Databases /\ \A d \in Databases : KeepsFile(d)
      BY <1>2, FailureEffect DEF AbandonWait, TypeOK
    <2>2. UNCHANGED <<pointer, drawn, processVars, treeVars, saved>>
      BY <1>2 DEF AbandonWait
    <2>3. \A d \in 1..drawn : d \in Databases
      BY DEF TypeOK, Databases
    <2>4. PublishedIsComplete' /\ BaselinesSurvive' /\ pointer' <= drawn'
      BY <2>1, <2>2 DEF PublishInv, PublishedIsComplete, BaselinesSurvive, KeepsFile, KeepsRows
    <2>5. \A d : Successor(d) => Successor(d)'
      BY <2>1, <2>2, <2>3 DEF Successor, KeepsFile, KeepsRows
    <2>6. db'[pointer].content = db[pointer].content
      BY <2>1 DEF KeepsFile, KeepsRows
    <2> QED
      BY <2>2, <2>4, <2>5, <2>6 DEF PublishInv, processVars, treeVars
  <1>3. ASSUME NEW p \in Processes, ReadBase(p) PROVE PublishInv'
    BY <1>3 DEF ReadBase, indexVars, treeVars, Goto
  <1>4. ASSUME NEW p \in Processes, ScanTree(p) PROVE PublishInv'
    BY <1>4 DEF ScanTree, indexVars, treeVars, Goto
  <1>5. ASSUME NEW p \in Processes, RenameStage(p) PROVE PublishInv'
    <2> DEFINE new == drawn + 1
    <2>1. /\ db'[new] = Generation(p) /\ new \in Databases /\ pointer # new
          /\ \A d \in Databases \ {new} : db'[d] = db[d]
      BY <1>5, RenameEffect
    <2>2. /\ pc[p] = "check" /\ pc' = [pc EXCEPT ![p] = "pointer"]
          /\ stage' = [stage EXCEPT ![p] = new] /\ drawn' = new
          /\ UNCHANGED <<pointer, lock, tree, saved>>
      BY <1>5 DEF RenameStage, Goto, treeVars
    <2>3. /\ pointer \in Databases /\ db'[pointer] = db[pointer]
          /\ pointer <= drawn /\ drawn \in Nat /\ pointer \in Nat
      <3>1. pointer \in 0..MaxDatabases /\ drawn \in 0..MaxDatabases
        BY DEF TypeOK, Databases
      <3>2. pointer \in Databases /\ pointer <= drawn
        BY DEF TypeOK, PublishInv
      <3> QED
        BY <2>1, <3>1, <3>2
    <2>4. pointer' <= drawn' /\ PublishedIsComplete' /\ BaselinesSurvive'
      BY <2>2, <2>3 DEF PublishInv, PublishedIsComplete, BaselinesSurvive
    <2>5. stage[p] >= db[pointer].content
      BY <2>2 DEF PublishInv, TypeOK, TreeInv
    <2>6. Successor(stage[p])'
      <3>1. new \in 1..new /\ stage'[p] = new
        BY <2>2, <2>3 DEF TypeOK
      <3>2. BaselinesSurvive
        BY DEF PublishInv
      <3> QED
        BY <2>1, <2>2, <2>3, <2>4, <2>5, <3>1, <3>2
           DEF Successor, Generation, Current, BaselinesSurvive
    <2>7. \A q \in Processes \ {p} : pc[q] = "idle"
      BY <2>2 DEF LockHeld
    <2> QED
      BY <2>2, <2>4, <2>6, <2>7 DEF PublishInv, TypeOK
  <1>6. ASSUME NEW p \in Processes, Conflict(p) PROVE PublishInv'
    <2>1. /\ pc[p] # "idle" /\ Leave(p) /\ recordFailure
          /\ UNCHANGED <<pointer, drawn, treeVars, saved, unguarded>>
      BY <1>6 DEF Conflict
    <2> QED
      BY <2>1, FailureKeeps, LeavesPublished
  <1>7. ASSUME NEW p \in Processes, PublishPointer(p) PROVE PublishInv'
    BY <1>7 DEF PublishPointer, treeVars, Goto
  <1>8. ASSUME NEW p \in Processes, Retire(p) PROVE PublishInv'
    <2>1. /\ pc[p] # "idle" /\ Leave(p)
          /\ UNCHANGED <<pointer, drawn, treeVars, saved, unguarded>>
      BY <1>8 DEF Retire
    <2>2. KeepsPublished
      BY <1>8, RetireEffect DEF KeepsPublished, KeepsRows
    <2> QED
      BY <2>1, <2>2, LeavesPublished
  <1>9. ASSUME NEW p \in Processes, FailRefresh(p) PROVE PublishInv'
    <2>1. /\ pc[p] # "idle" /\ Leave(p) /\ (recordFailure \/ UNCHANGED db)
          /\ UNCHANGED <<pointer, drawn, treeVars, saved, unguarded>>
      BY <1>9 DEF FailRefresh
    <2>2. UNCHANGED db => KeepsPublished
      BY DEF KeepsPublished, KeepsRows
    <2> QED
      BY <2>1, <2>2, FailureKeeps, LeavesPublished
  <1>10. ASSUME NEW p \in Processes, StartFiles(p) PROVE PublishInv'
    BY <1>10 DEF StartFiles, indexVars, treeVars, Acquire, LockIsFree
  <1>11. ASSUME NEW p \in Processes, CommitFiles(p) PROVE PublishInv'
    <2>1. pc[p] # "idle" /\ Leave(p) /\ UNCHANGED <<pointer, drawn, saved>>
      BY <1>11 DEF CommitFiles
    <2>2. \A q \in Processes : pc'[q] = "idle"
      BY <2>1, AllIdle
    <2>3. /\ db'[pointer].status = db[pointer].status
          /\ db'[pointer].baseline = db[pointer].baseline
      BY <1>11, CommitEffect
    <2> QED
      BY <2>1, <2>2, <2>3 DEF BaselinesSurvive
  <1>12. ASSUME NEW p \in Processes, AbandonFiles(p) PROVE PublishInv'
    <2>1. /\ pc[p] # "idle" /\ Leave(p)
          /\ UNCHANGED <<indexVars, treeVars, saved, unguarded>>
      BY <1>12 DEF AbandonFiles
    <2>2. KeepsPublished /\ UNCHANGED <<pointer, drawn>>
      BY <2>1 DEF indexVars, KeepsPublished, KeepsRows
    <2> QED
      BY <2>1, <2>2, LeavesPublished
  <1>13. ASSUME NEW p \in Processes, SaveBaseline(p) PROVE PublishInv'
    BY <1>13, SaveEffect DEF SaveBaseline, processVars, treeVars, LockIsFree
  <1>14. ASSUME NEW p \in Processes, Crash(p) PROVE PublishInv'
    <2>1. /\ pc[p] # "idle" /\ Leave(p)
          /\ UNCHANGED <<indexVars, treeVars, saved, unguarded>>
      BY <1>14 DEF Crash
    <2>2. KeepsPublished /\ UNCHANGED <<pointer, drawn>>
      BY <2>1 DEF indexVars, KeepsPublished, KeepsRows
    <2> QED
      BY <2>1, <2>2, LeavesPublished
  <1>15. ASSUME ResolveIndex PROVE PublishInv'
    BY <1>15 DEF ResolveIndex, indexVars, processVars
  <1>16. ASSUME MarkIndexStale PROVE PublishInv'
    BY <1>16, MarkEffect DEF MarkIndexStale, processVars
  <1>17. ASSUME PersistIntent PROVE PublishInv'
    BY <1>17 DEF PersistIntent, indexVars, processVars
  <1>18. ASSUME MoveProjectAside PROVE PublishInv'
    BY <1>18 DEF MoveProjectAside, indexVars, processVars
  <1>19. ASSUME MoveReplacementIn PROVE PublishInv'
    BY <1>19 DEF MoveReplacementIn, indexVars, processVars
  <1>20. ASSUME CrashRebase PROVE PublishInv'
    BY <1>20 DEF CrashRebase, indexVars, processVars
  <1>21. ASSUME EditTree PROVE PublishInv'
    BY <1>21 DEF EditTree, indexVars, processVars
  <1> QED
    BY <1>1, <1>2, <1>3, <1>4, <1>5, <1>6, <1>7, <1>8, <1>9, <1>10, <1>11, <1>12, <1>13,
       <1>14, <1>15, <1>16, <1>17, <1>18, <1>19, <1>20, <1>21 DEF Next, Process, Migration

\* A mark is seen by the publication check, or the state is unguarded.
LEMMA MarkStep == ASSUME Inv, Next PROVE GuardInv'
  <1> USE PublicationAssumption DEF Inv, TypeOK, PublishInv, TreeInv, Successor,
     PublishedIsComplete, LockHeld, KeepsFile, KeepsRows, GuardInv, MarkInv, Replacing,
     Database
  <1>1. ASSUME NEW p \in Processes, StartRefresh(p) PROVE GuardInv'
    BY <1>1, StartEffect DEF StartRefresh, treeVars, Acquire, LockIsFree
  <1>2. ASSUME NEW p \in Processes, AbandonWait(p) PROVE GuardInv'
    <2>1. UNCHANGED <<pointer, drawn, processVars, treeVars, unguarded>>
      BY <1>2 DEF AbandonWait
    <2>2. SUFFICES ASSUME MarkInv PROVE MarkInv'
      BY <2>1 DEF GuardInv
    <2>3. pointer \in Databases /\ \A d \in Databases : KeepsFile(d)
      BY <1>2, FailureEffect DEF AbandonWait, TypeOK
    <2>4. \A q \in Processes : pc[q] = "pointer" => stage[q] \in Databases
      BY RenamedIsNumbered
    <2> QED
      BY <2>1, <2>2, <2>3, <2>4 DEF MarkInv, Replacing, KeepsFile, KeepsRows, processVars,
         treeVars
  <1>3. ASSUME NEW p \in Processes, ReadBase(p) PROVE GuardInv'
    BY <1>3 DEF ReadBase, indexVars, treeVars, Goto
  <1>4. ASSUME NEW p \in Processes, ScanTree(p) PROVE GuardInv'
    <2>1. /\ present /\ pc' = [pc EXCEPT ![p] = "check"] /\ stage' = [stage EXCEPT ![p] = tree]
          /\ unguarded' = (unguarded \/ rebase \in {"marked", "intent"})
          /\ UNCHANGED <<db, pointer, base, rebase, markFile, replacedAt>>
      BY <1>4 DEF ScanTree, Goto, indexVars, treeVars
    <2>2. SUFFICES ASSUME MarkInv, rebase \notin {"marked", "intent"} PROVE MarkInv'
      BY <2>1 DEF GuardInv
    <2>3. ~Replacing /\ ~(tree < replacedAt)
      BY <2>1, <2>2 DEF TreeInv, TypeOK, Replacing
    <2>4. pc'[p] = "check" /\ stage'[p] = tree
      BY <2>1 DEF TypeOK
    <2>5. \A q \in Processes \ {p} : pc'[q] = pc[q] /\ stage'[q] = stage[q]
      BY <2>1 DEF TypeOK
    <2> QED
      BY <2>1, <2>2, <2>3, <2>4, <2>5 DEF MarkInv, Replacing
  <1>5. ASSUME NEW p \in Processes, RenameStage(p) PROVE GuardInv'
    <2> DEFINE new == drawn + 1
    <2>1. /\ pc[p] = "check" /\ pc' = [pc EXCEPT ![p] = "pointer"] /\ SameBase(p)
          /\ stage' = [stage EXCEPT ![p] = new]
          /\ UNCHANGED <<pointer, base, rebase, markFile, replacedAt, unguarded>>
      BY <1>5 DEF RenameStage, Goto, treeVars
    <2>2. SUFFICES ASSUME MarkInv PROVE MarkInv'
      BY <2>1 DEF GuardInv
    <2>3. db'[new].content = stage[p] /\ db'[pointer] = db[pointer]
      <3>1. pointer \in Databases \ {new} /\ new \in Databases
        BY <1>5, RenameEffect DEF TypeOK
      <3>2. db'[new] = Generation(p) /\ db'[pointer] = db[pointer]
        BY <1>5, <3>1, RenameEffect
      <3> QED
        BY <3>2 DEF Generation
    <2>4. base[p].status = db[pointer].status
      BY <2>1 DEF SameBase, Current
    <2>5. ~Replacing /\ ~(stage[p] < replacedAt)
      BY <2>1, <2>2, <2>4 DEF MarkInv
    <2>6. stage[p] >= replacedAt
      BY <2>5 DEF TypeOK
    <2>7. pc'[p] = "pointer" /\ stage'[p] = new
      BY <2>1 DEF TypeOK
    <2>8. \A q \in Processes \ {p} : pc'[q] = "idle"
      BY <2>1 DEF LockHeld, TypeOK
    <2> QED
      BY <2>1, <2>2, <2>3, <2>5, <2>6, <2>7, <2>8 DEF MarkInv, Replacing
  <1>6. ASSUME NEW p \in Processes, Conflict(p) PROVE GuardInv'
    <2>1. /\ pc[p] # "idle" /\ Leave(p) /\ recordFailure
          /\ UNCHANGED <<pointer, drawn, treeVars, saved, unguarded>>
      BY <1>6 DEF Conflict
    <2> QED
      BY <2>1, FailureKeeps, LeavesPublished
  <1>7. ASSUME NEW p \in Processes, PublishPointer(p) PROVE GuardInv'
    <2>1. /\ pc[p] = "pointer" /\ pc' = [pc EXCEPT ![p] = "retire"] /\ pointer' = stage[p]
          /\ UNCHANGED <<db, stage, base, rebase, markFile, replacedAt, unguarded>>
      BY <1>7 DEF PublishPointer, Goto, treeVars
    <2>2. SUFFICES ASSUME MarkInv PROVE MarkInv'
      BY <2>1 DEF GuardInv
    <2>3. ~Replacing /\ db[stage[p]].content >= replacedAt /\ stage[p] \in Databases
      <3>1. stage[p] \in 1..drawn /\ drawn \in Databases
        BY <2>1 DEF PublishInv, Successor, TypeOK
      <3>2. ~Replacing /\ db[stage[p]].content >= replacedAt
        BY <2>1, <2>2 DEF MarkInv
      <3> QED
        BY <3>1, <3>2 DEF Databases
    <2>4. db[stage[p]].status # "absent" /\ ~(db[stage[p]].content < replacedAt)
      BY <2>1, <2>3 DEF PublishInv, Successor, TypeOK
    <2>5. \A q \in Processes : pc'[q] \notin {"check", "pointer"}
      BY <2>1 DEF LockHeld, TypeOK
    <2> QED
      BY <2>1, <2>3, <2>4, <2>5 DEF MarkInv, Replacing
  <1>8. ASSUME NEW p \in Processes, Retire(p) PROVE GuardInv'
    <2>1. /\ pc[p] # "idle" /\ Leave(p)
          /\ UNCHANGED <<pointer, drawn, treeVars, saved, unguarded>>
      BY <1>8 DEF Retire
    <2>2. KeepsPublished
      BY <1>8, RetireEffect DEF KeepsPublished, KeepsRows
    <2> QED
      BY <2>1, <2>2, LeavesPublished
  <1>9. ASSUME NEW p \in Processes, FailRefresh(p) PROVE GuardInv'
    <2>1. /\ pc[p] # "idle" /\ Leave(p) /\ (recordFailure \/ UNCHANGED db)
          /\ UNCHANGED <<pointer, drawn, treeVars, saved, unguarded>>
      BY <1>9 DEF FailRefresh
    <2>2. UNCHANGED db => KeepsPublished
      BY DEF KeepsPublished, KeepsRows
    <2> QED
      BY <2>1, <2>2, FailureKeeps, LeavesPublished
  <1>10. ASSUME NEW p \in Processes, StartFiles(p) PROVE GuardInv'
    BY <1>10 DEF StartFiles, indexVars, treeVars, Acquire, LockIsFree
  <1>11. ASSUME NEW p \in Processes, CommitFiles(p) PROVE GuardInv'
    <2>1. pc[p] = "files" /\ Leave(p) /\ UNCHANGED <<pointer, treeVars, unguarded>>
      BY <1>11 DEF CommitFiles
    <2>2. SUFFICES ASSUME MarkInv PROVE MarkInv'
      BY <2>1 DEF GuardInv
    <2>3. /\ db'[pointer].status = db[pointer].status
          /\ db'[pointer].content < replacedAt => db[pointer].content < replacedAt
      <3>1. pointer \in Databases /\ db \in [Databases -> Database] /\ replacedAt \in Nat
        BY DEF TypeOK, Database
      <3>2. db[pointer].content \in Nat /\ db'[pointer].content \in db[pointer].content..tree
        BY <1>11, <3>1, CommitEffect DEF Database
      <3> QED
        BY <1>11, <3>1, <3>2, CommitEffect DEF TypeOK
    <2>4. \A q \in Processes : pc'[q] \notin {"check", "pointer"}
      BY <2>1, LeaveEffect DEF LockHeld
    <2> QED
      BY <2>1, <2>2, <2>3, <2>4 DEF MarkInv, Replacing, treeVars
  <1>12. ASSUME NEW p \in Processes, AbandonFiles(p) PROVE GuardInv'
    <2>1. /\ pc[p] # "idle" /\ Leave(p)
          /\ UNCHANGED <<indexVars, treeVars, saved, unguarded>>
      BY <1>12 DEF AbandonFiles
    <2>2. KeepsPublished /\ UNCHANGED <<pointer, drawn>>
      BY <2>1 DEF indexVars, KeepsPublished, KeepsRows
    <2> QED
      BY <2>1, <2>2, LeavesPublished
  <1>13. ASSUME NEW p \in Processes, SaveBaseline(p) PROVE GuardInv'
    BY <1>13, SaveEffect DEF SaveBaseline, processVars, treeVars, LockIsFree
  <1>14. ASSUME NEW p \in Processes, Crash(p) PROVE GuardInv'
    <2>1. /\ pc[p] # "idle" /\ Leave(p)
          /\ UNCHANGED <<indexVars, treeVars, saved, unguarded>>
      BY <1>14 DEF Crash
    <2>2. KeepsPublished /\ UNCHANGED <<pointer, drawn>>
      BY <2>1 DEF indexVars, KeepsPublished, KeepsRows
    <2> QED
      BY <2>1, <2>2, LeavesPublished
  <1>15. ASSUME ResolveIndex PROVE GuardInv'
    <2>1. /\ rebase = "idle" /\ markFile' = pointer
          /\ UNCHANGED <<db, pointer, pc, base, stage, replacedAt>>
      BY <1>15 DEF ResolveIndex, indexVars, processVars
    <2>2. CASE db[pointer].status # "absent" /\ rebase' = "resolved" /\ UNCHANGED unguarded
      BY <2>1, <2>2 DEF GuardInv, MarkInv, Replacing
    <2>3. CASE /\ db[pointer].status = "absent" /\ rebase' = "marked"
               /\ unguarded' = (\/ unguarded
                                 \/ \E p \in Processes : pc[p] \in {"check", "pointer"})
      BY <2>1, <2>3 DEF GuardInv, MarkInv, Replacing
    <2> QED
      BY <1>15, <2>2, <2>3 DEF ResolveIndex
  <1>16. ASSUME MarkIndexStale PROVE GuardInv'
    BY <1>16, MarkEffect DEF MarkIndexStale, processVars
  <1>17. ASSUME PersistIntent PROVE GuardInv'
    BY <1>17 DEF PersistIntent, indexVars, processVars
  <1>18. ASSUME MoveProjectAside PROVE GuardInv'
    BY <1>18 DEF MoveProjectAside, indexVars, processVars
  <1>19. ASSUME MoveReplacementIn PROVE GuardInv'
    BY <1>19 DEF MoveReplacementIn, indexVars, processVars
  <1>20. ASSUME CrashRebase PROVE GuardInv'
    BY <1>20 DEF CrashRebase, indexVars, processVars
  <1>21. ASSUME EditTree PROVE GuardInv'
    BY <1>21 DEF EditTree, indexVars, processVars
  <1> QED
    BY <1>1, <1>2, <1>3, <1>4, <1>5, <1>6, <1>7, <1>8, <1>9, <1>10, <1>11, <1>12, <1>13,
       <1>14, <1>15, <1>16, <1>17, <1>18, <1>19, <1>20, <1>21 DEF Next, Process, Migration

-----------------------------------------------------------------------------
(***************************************************************************)
(* Theorems.                                                               *)
(***************************************************************************)
LEMMA Preserved == Inv /\ [Next]_vars => Inv'
  <1> SUFFICES ASSUME Inv, [Next]_vars PROVE Inv'
    OBVIOUS
  <1>1. CASE Next
    <2>1. TypeOK'
      BY <1>1, FilesStep, ControlStep DEF TypeOK, ControlOK, Bases, Places, Database
    <2> QED
      BY <1>1, <2>1, LockStep, TreeStep, PublishStep, MarkStep DEF Inv
  <1>2. CASE UNCHANGED vars
    BY <1>2 DEF vars, indexVars, processVars, treeVars, Inv, TypeOK, LockHeld, TreeInv,
         PublishInv, PublishedIsComplete, BaselinesSurvive, Successor, GuardInv, MarkInv,
         Replacing
  <1> QED
    BY <1>1, <1>2

LEMMA Invariance == Spec => []Inv
  BY Initially, Preserved, PTL DEF Spec

\* Every reachable state is well typed: no generation, version or baseline
\* leaves its range, also where refreshes, saves and a migration interleave.
THEOREM TypeCorrect == Spec => []TypeOK
  <1>1. Inv => TypeOK
    BY DEF Inv
  <1> QED
    BY <1>1, Invariance, PTL

\* Once a generation was published, the pointer names a complete database,
\* whatever crashes, fails, is swept or removed.
THEOREM PublishedStaysComplete == Spec => []PublishedIsComplete
  <1>1. Inv => PublishedIsComplete
    BY DEF Inv, PublishInv
  <1> QED
    BY <1>1, Invariance, PTL

\* The published database has the baseline that was acknowledged last.
THEOREM BaselinesStay == Spec => []BaselinesSurvive
  <1>1. Inv => BaselinesSurvive
    BY DEF Inv, PublishInv
  <1> QED
    BY <1>1, Invariance, PTL

\* A stale mark in the sight of the publication check is never lost: the index
\* is not ready for a tree that was replaced, or that is being replaced.
THEOREM MarkIsProtected == Spec => []CASProtectsStaleMark
  <1>1. Inv => CASProtectsStaleMark
    BY DEF Inv, GuardInv, MarkInv, CASProtectsStaleMark, ReadyForOldTree, Replacing
  <1> QED
    BY <1>1, Invariance, PTL

\* Every publication is the successor of the generation it replaces.
THEOREM PublicationIsSuccessor == Spec => PublicationFollowsOn
  <1> DEFINE FollowsOn == pointer' # pointer =>
                              /\ db'[pointer'].gen = db[pointer].gen + 1
                              /\ db'[pointer'].content >= db[pointer].content
  <1>1. Inv /\ [Next]_vars => [FollowsOn]_vars
    <2> SUFFICES ASSUME Inv, Next, pointer' # pointer PROVE FollowsOn
      BY DEF vars, indexVars
    <2>1. PICK p \in Processes : PublishPointer(p)
      BY DEF Next, Process, Migration, StartRefresh, AbandonWait, ReadBase, ScanTree,
           RenameStage, Conflict, Retire, FailRefresh, StartFiles, CommitFiles, AbandonFiles,
           SaveBaseline, Crash, ResolveIndex, MarkIndexStale, PersistIntent,
           MoveProjectAside, MoveReplacementIn, CrashRebase, EditTree, indexVars
    <2>2. Successor(stage[p])
      BY <2>1 DEF PublishPointer, Inv, PublishInv
    <2> QED
      BY <2>1, <2>2 DEF PublishPointer, Successor
  <1> QED
    BY <1>1, Invariance, PTL DEF Spec, PublicationFollowsOn
==============================================================================
