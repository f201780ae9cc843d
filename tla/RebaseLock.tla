----------------------------- MODULE RebaseLock -----------------------------
(***************************************************************************)
(* The lock file of a migration transaction (internal/migrator/            *)
(* rebase_lock.go): migrate commands, processes of one host, create it     *)
(* exclusively, keep it young and remove it, and a command that finds the  *)
(* lock of a dead process moves it aside and claims it again.  Every step  *)
(* is one call of the file system; a process may die between any two.      *)
(*                                                                         *)
(* The nonce of a claim is the process while its command runs.  What is    *)
(* left of a claim afterwards, a record that names a process that is gone, *)
(* bears the name of a ghost.                                              *)
(***************************************************************************)
EXTENDS Naturals, FiniteSets

CONSTANTS Processes,
          MaxGhosts      \* ended claims whose files are still there (a bound)

Ghosts == 1..MaxGhosts
Nobody == 0

ASSUME LockAssumption == MaxGhosts \in Nat /\ Processes \cap Nat = {}

VARIABLES
    lockFile,    \* the file at transaction.lock
    quarantine,  \* per process: the file it has moved aside
    expected,    \* per process: the nonce that it found abandoned
    lockPc,      \* per process: where it is
    beating,     \* processes whose heartbeat has read its record and not written it
    displaced    \* history: a lock that was not the abandoned one was moved aside,
                 \* or replaced by one that was put back

lockVars == <<lockFile, quarantine, expected, lockPc, beating, displaced>>

\* A file holds the record of a claim, or nothing yet.
LockFiles == [owner : Processes \cup Ghosts, written : BOOLEAN]
NoFile == [owner |-> Nobody, written |-> FALSE]

LockInit ==
    /\ lockFile = NoFile
    /\ quarantine = [p \in Processes |-> NoFile]
    /\ expected = [p \in Processes |-> Nobody]
    /\ lockPc = [p \in Processes |-> "idle"]
    /\ beating = {}
    /\ displaced = FALSE

GotoLock(p, step) == lockPc' = [lockPc EXCEPT ![p] = step]

\* The command ends, with or without an error, and leaves these files.
End(p, file, aside) ==
    LET known == {file.owner} \cup {aside[q].owner : q \in Processes}
                     \cup {expected[q] : q \in Processes \ {p}}
        ghost == CHOOSE g \in Ghosts \ known : TRUE
        Left(f) == IF f.owner = p THEN [owner |-> ghost, written |-> f.written] ELSE f
    IN  /\ p \in known => Ghosts \ known # {}
        /\ lockFile' = Left(file)
        /\ quarantine' = [q \in Processes |-> Left(aside[q])]
        /\ expected' = [expected EXCEPT ![p] = Nobody]
        /\ GotoLock(p, "idle")

GiveUp(p) == End(p, lockFile, quarantine) /\ UNCHANGED <<beating, displaced>>

Holds(p) == lockPc[p] = "held"

-----------------------------------------------------------------------------
(***************************************************************************)
(* acquireRebaseTransactionLock: claim.                                    *)
(***************************************************************************)
\* O_CREATE|O_EXCL; without success the record is read next.
Claim(p) ==
    /\ lockPc[p] = "idle"
    /\ \/ /\ lockFile = NoFile
          /\ lockFile' = [owner |-> p, written |-> FALSE]
          /\ GotoLock(p, "created")
       \/ /\ lockFile # NoFile
          /\ GotoLock(p, "inspect")
          /\ UNCHANGED lockFile
    /\ UNCHANGED <<quarantine, expected, beating, displaced>>

\* The record goes into the file that was created, wherever that is by now.
Written(file, p) == IF file.owner = p THEN [file EXCEPT !.written = TRUE] ELSE file

WriteRecord(p) ==
    /\ lockPc[p] = "created"
    /\ lockFile' = Written(lockFile, p)
    /\ quarantine' = [q \in Processes |-> Written(quarantine[q], p)]
    /\ GotoLock(p, "held")
    /\ UNCHANGED <<expected, beating, displaced>>

\* The record cannot be written: whatever is at the path is removed.
WriteRecordFails(p) ==
    /\ lockPc[p] = "created"
    /\ End(p, NoFile, quarantine)
    /\ UNCHANGED <<beating, displaced>>

\* Fault: an old heartbeat is enough.
AbandonedByAge(file) == file.written

\* rebaseLockAbandoned: an old heartbeat, and the process is gone.
Abandoned(file) == file.written /\ file.owner \in Ghosts

\* The lock is held, empty, not old enough, or gone again.
InspectFails(p) ==
    /\ lockPc[p] = "inspect"
    /\ GiveUp(p)

InspectAbandoned(p) ==
    /\ lockPc[p] = "inspect"
    /\ Abandoned(lockFile)
    /\ expected' = [expected EXCEPT ![p] = lockFile.owner]
    /\ GotoLock(p, "quarantine")
    /\ UNCHANGED <<lockFile, quarantine, beating, displaced>>

\* quarantineAbandonedRebaseLock: rename, look again, restore or remove.
MoveAside(p) ==
    /\ lockPc[p] = "quarantine"
    /\ lockFile # NoFile
    /\ quarantine' = [quarantine EXCEPT ![p] = lockFile]
    /\ lockFile' = NoFile
    /\ displaced' = (displaced \/ lockFile.owner # expected[p])
    /\ GotoLock(p, "moved")
    /\ UNCHANGED <<expected, beating>>

MoveAsideFails(p) ==
    /\ lockPc[p] = "quarantine"
    /\ GiveUp(p)

IsExpected(p) == quarantine[p].written /\ quarantine[p].owner = expected[p]

\* Another lock came between, or this one cannot be read: it is put back, over
\* whatever is there.  Where that fails, or the removal, the file stays aside
\* under a name that nobody looks for.
RestoreMoved(p) ==
    LET aside == [quarantine EXCEPT ![p] = NoFile] IN
    /\ lockPc[p] = "moved"
    /\ \/ /\ End(p, quarantine[p], aside)
          /\ displaced' = (displaced \/ lockFile # NoFile)
       \/ /\ End(p, lockFile, aside)
          /\ UNCHANGED displaced
    /\ UNCHANGED beating

RemoveMoved(p) ==
    /\ lockPc[p] = "moved"
    /\ IsExpected(p)
    /\ quarantine' = [quarantine EXCEPT ![p] = NoFile]
    /\ GotoLock(p, "reclaim")
    /\ UNCHANGED <<lockFile, expected, beating, displaced>>

\* claim(true): a second failure is final.
Reclaim(p) ==
    /\ lockPc[p] = "reclaim"
    /\ lockFile = NoFile
    /\ lockFile' = [owner |-> p, written |-> FALSE]
    /\ expected' = [expected EXCEPT ![p] = Nobody]
    /\ GotoLock(p, "created")
    /\ UNCHANGED <<quarantine, beating, displaced>>

ReclaimFails(p) ==
    /\ lockPc[p] = "reclaim"
    /\ lockFile # NoFile
    /\ GiveUp(p)

-----------------------------------------------------------------------------
(***************************************************************************)
(* The heartbeat while the lock is held, and Release.                      *)
(***************************************************************************)
Owns(p) == lockFile.written /\ lockFile.owner = p

RefreshRead(p) ==
    /\ Holds(p) /\ p \notin beating
    /\ Owns(p)
    /\ beating' = beating \cup {p}
    /\ UNCHANGED <<lockFile, quarantine, expected, lockPc, displaced>>

\* os.WriteFile: into the file that is there by now, or into a new one.
RefreshWrite(p) ==
    /\ p \in beating
    /\ lockFile' = [owner |-> p, written |-> TRUE]
    /\ beating' = beating \ {p}
    /\ UNCHANGED <<quarantine, expected, lockPc, displaced>>

\* The heartbeat has been stopped.  A lock that is no longer owned, or cannot
\* be read or removed, stays.
ReleaseCheck(p) ==
    /\ Holds(p) /\ p \notin beating
    /\ Owns(p)
    /\ GotoLock(p, "remove")
    /\ UNCHANGED <<lockFile, quarantine, expected, beating, displaced>>

ReleaseFails(p) ==
    /\ Holds(p) /\ p \notin beating
    /\ GiveUp(p)

ReleaseRemove(p) ==
    /\ lockPc[p] = "remove"
    /\ End(p, NoFile, quarantine) \/ End(p, lockFile, quarantine)
    /\ UNCHANGED <<beating, displaced>>

\* Death, at any step.
LockCrash(p) ==
    /\ lockPc[p] # "idle"
    /\ End(p, lockFile, [quarantine EXCEPT ![p] = NoFile])
    /\ beating' = beating \ {p}
    /\ UNCHANGED displaced

Acquiring(p) ==
    \/ Claim(p) \/ WriteRecord(p) \/ WriteRecordFails(p)
    \/ InspectFails(p) \/ InspectAbandoned(p)
    \/ MoveAside(p) \/ MoveAsideFails(p) \/ RestoreMoved(p) \/ RemoveMoved(p)
    \/ Reclaim(p) \/ ReclaimFails(p)

Heartbeat(p) == RefreshRead(p) \/ RefreshWrite(p)

Releasing(p) == ReleaseCheck(p) \/ ReleaseFails(p) \/ ReleaseRemove(p)

-----------------------------------------------------------------------------
LockTypeOK ==
    /\ lockFile \in LockFiles \cup {NoFile}
    /\ quarantine \in [Processes -> LockFiles \cup {NoFile}]
    /\ expected \in [Processes -> {Nobody} \cup Ghosts]
    /\ lockPc \in [Processes -> {"idle", "created", "inspect", "quarantine", "moved",
                                "reclaim", "held", "remove"}]
    /\ beating \subseteq {p \in Processes : Holds(p)}
    /\ displaced \in BOOLEAN
=============================================================================
