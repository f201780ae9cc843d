--------------------------- MODULE DatabaseLeases ---------------------------
(***************************************************************************)
(* The MCP database manager (internal/mcpserver/database_manager.go) and   *)
(* the tool calls that use it: every call leases the active pool, may be   *)
(* rebound to a newly published generation before its handler runs, and    *)
(* may itself switch the active database, or publish a generation and be   *)
(* rebound to that.                                                        *)
(*                                                                         *)
(* A database file is <<target, generation>>; a target's publication       *)
(* pointer names its current generation.  Every pool is charged the same   *)
(* SQLite cache, so the two budgets of the code are one pool count here.   *)
(***************************************************************************)
EXTENDS Integers, FiniteSets

CONSTANTS Calls,          \* tool calls of the session
          Targets,        \* configured database names
          Primary,        \* the one the session starts with
          PoolIds,        \* pools that may be opened (a bound)
          MaxGeneration,  \* generations a target may publish (a bound)
          MaxOpenPools    \* max_open_database_pools

None == 0      \* no pool
Nobody == "nobody"

ASSUME LeaseAssumption ==
    /\ IsFiniteSet(Calls) /\ Nobody \notin Calls
    /\ IsFiniteSet(Targets) /\ Primary \in Targets
    /\ PoolIds \subseteq Nat \ {None} /\ 1 \in PoolIds
    /\ MaxGeneration \in Nat
    /\ MaxOpenPools \in Nat \ {0}

Generations == 0..MaxGeneration
Files == Targets \X Generations

VARIABLES
    \* the file system
    published,   \* generation named by each target's pointer
    files,       \* the database files that exist
    \* the manager
    pool,        \* managedMCPDatabase: file, state, refs, retired, deleteOnRetire
    loaded,      \* pool registered under each name, or None
    active,      \* the active pool, or None once the manager is closed
    specPath,    \* generation each target's spec points at
    opening,     \* pools reserved in the budget while they are being opened
    epoch,
    gate,        \* the call that holds switchGate, or Nobody
    closed,
    \* the calls
    pc,          \* where each call is
    lease,       \* the pool leased by the call
    leaseEpoch,  \* the epoch of its database identity
    bound,       \* runtime.DB: the pool its handler reads
    pin,         \* the pool pinned by runtime.releaseRebound, or None
    target,      \* the name it switches to
    candidate,   \* the pool a reload or a switch is about to activate
    switched     \* how its switch ended

fileVars == <<published, files>>
managerVars == <<pool, loaded, active, specPath, opening, epoch, gate, closed>>
callVars == <<pc, lease, leaseEpoch, bound, pin, target, candidate, switched>>
vars == <<fileVars, managerVars, callVars>>

Steps == {"idle", "bind", "reload", "check", "commit_reload", "repin", "handle",
          "switch", "open", "commit_switch", "unpin", "release", "done"}

Unused == [name |-> Primary, gen |-> 0, state |-> "unused", refs |-> 0,
           retired |-> FALSE, deleteOnRetire |-> FALSE]

Opened(n, g) == [Unused EXCEPT !.name = n, !.gen = g, !.state = "open"]

Init ==
    /\ published = [n \in Targets |-> 0]
    /\ files = {<<n, 0>> : n \in Targets}
    /\ pool = [p \in PoolIds |-> IF p = 1 THEN Opened(Primary, 0) ELSE Unused]
    /\ loaded = [n \in Targets |-> IF n = Primary THEN 1 ELSE None]
    /\ active = 1
    /\ specPath = [n \in Targets |-> 0]
    /\ opening = 0
    /\ epoch = 1
    /\ gate = Nobody
    /\ closed = FALSE
    /\ pc = [c \in Calls |-> "idle"]
    /\ lease = [c \in Calls |-> None]
    /\ leaseEpoch = [c \in Calls |-> 0]
    /\ bound = [c \in Calls |-> None]
    /\ pin = [c \in Calls |-> None]
    /\ target = [c \in Calls |-> Primary]
    /\ candidate = [c \in Calls |-> None]
    /\ switched = [c \in Calls |-> "no"]

-----------------------------------------------------------------------------
File(p) == <<pool[p].name, pool[p].gen>>
LoadedNames == {n \in Targets : loaded[n] # None}

\* Pools are numbered in the order in which they are opened.
IsNextPool(p) ==
    /\ pool[p].state = "unused"
    /\ \A q \in PoolIds : q < p => pool[q].state # "unused"

\* LoadedDatabaseCount of resourceUsageLocked.
AccountedPools == Cardinality(LoadedNames) + opening

Goto(c, step) == pc' = [pc EXCEPT ![c] = step]

\* RemoveRetiredDatabaseGeneration refuses the file the pointer names.
RemoveRetired(f) == IF published[f[1]] = f[2] THEN files ELSE files \ {f}

\* manager.release: the last reference of a retired pool closes it, drops it
\* from loaded if it is still there, and deletes its file after a reload.
\* Faults: every release of a retired pool closes it; the count is tested
\* before it is decremented; the retired flag is not tested.
IsLastRefAny(p) == pool[p].retired
IsLastRefTooLate(p) == pool[p].retired /\ pool[p].refs < 1
IsLastRefUnretired(p) == pool[p].refs <= 1

IsLastRef(p) == pool[p].retired /\ pool[p].refs <= 1

release(p) ==
    /\ pool' = [pool EXCEPT ![p].refs = IF @ > 0 THEN @ - 1 ELSE @,
                            ![p].state = IF IsLastRef(p) THEN "closed" ELSE @]
    /\ loaded' = IF IsLastRef(p) /\ loaded[pool[p].name] = p
                 THEN [loaded EXCEPT ![pool[p].name] = None] ELSE loaded
    /\ files' = IF IsLastRef(p) /\ pool[p].deleteOnRetire
                THEN RemoveRetired(File(p)) ELSE files

\* Fault: the new active pool is served under the old epoch.
ActivateSameEpoch(p) == active' = p /\ epoch' = epoch

Activate(p) == active' = p /\ epoch' = epoch + 1

-----------------------------------------------------------------------------
(***************************************************************************)
(* A call starts: startTask's lease, then callMCPTool's binding check.     *)
(***************************************************************************)
Acquire(c) ==
    /\ pc[c] = "idle"
    /\ ~closed
    /\ pool' = [pool EXCEPT ![active].refs = @ + 1]
    /\ lease' = [lease EXCEPT ![c] = active]
    /\ leaseEpoch' = [leaseEpoch EXCEPT ![c] = epoch]
    /\ bound' = [bound EXCEPT ![c] = active]
    /\ Goto(c, "bind")
    /\ UNCHANGED <<fileVars, loaded, active, specPath, opening, epoch, gate,
                   closed, pin, target, candidate, switched>>

\* ensurePublishedDatabaseBinding: does the pointer of the leased database
\* still name the generation this call is bound to?
CheckBinding(c) ==
    /\ pc[c] = "bind"
    /\ LET p == bound[c]
       IN  Goto(c, IF published[pool[p].name] = pool[p].gen THEN "handle"
                   ELSE "reload")
    /\ UNCHANGED <<fileVars, managerVars, lease, leaseEpoch, bound, pin, target,
                   candidate, switched>>

-----------------------------------------------------------------------------
(***************************************************************************)
(* ReloadCurrent, between taking and giving back switchGate.               *)
(***************************************************************************)
\* Any step may end early: cancelled, closed, unreadable pointer, unhealthy.
\* The failure paths close a pool that was opened for this call.  Before the
\* handler that ends the call; after a refresh the call only warns
\* (database_rebind_deferred) and goes on with the pool it was bound to.
FailReload(c) ==
    /\ pc[c] \in {"reload", "check", "commit_reload"}
    /\ pool' = IF candidate[c] = None THEN pool
               ELSE [pool EXCEPT ![candidate[c]].state = "closed"]
    /\ gate' = IF gate = c THEN Nobody ELSE gate
    /\ candidate' = [candidate EXCEPT ![c] = None]
    /\ Goto(c, IF switched[c] = "refreshed" THEN "handle" ELSE "unpin")
    /\ UNCHANGED <<fileVars, loaded, active, specPath, opening, epoch, closed,
                   lease, leaseEpoch, bound, pin, target, switched>>

EnterReload(c) ==
    /\ pc[c] = "reload"
    /\ gate = Nobody
    /\ ~closed
    /\ gate' = c
    /\ Goto(c, "check")
    /\ UNCHANGED <<fileVars, pool, loaded, active, specPath, opening, epoch,
                   closed, lease, leaseEpoch, bound, pin, target, candidate, switched>>

\* The active pool already serves the published generation: another call
\* reloaded it first.  It is handed out without a reference.
ReloadNothing(c) ==
    /\ pc[c] = "check"
    /\ ~closed
    /\ published[pool[active].name] = pool[active].gen
    /\ bound' = [bound EXCEPT ![c] = active]
    /\ leaseEpoch' = [leaseEpoch EXCEPT ![c] = epoch]
    /\ gate' = Nobody
    /\ Goto(c, "handle")
    /\ UNCHANGED <<fileVars, pool, loaded, active, specPath, opening, epoch,
                   closed, lease, pin, target, candidate, switched>>

\* Otherwise a pool is opened on the published generation.
ReloadOpens(c) ==
    /\ pc[c] = "check"
    /\ ~closed
    /\ LET n == pool[active].name
       IN  /\ published[n] # pool[active].gen
           /\ <<n, published[n]>> \in files
           /\ \E p \in PoolIds :
                  /\ IsNextPool(p)
                  /\ pool' = [pool EXCEPT ![p] = Opened(n, published[n])]
                  /\ candidate' = [candidate EXCEPT ![c] = p]
    /\ Goto(c, "commit_reload")
    /\ UNCHANGED <<fileVars, loaded, active, specPath, opening, epoch, gate,
                   closed, lease, leaseEpoch, bound, pin, target, switched>>

\* ... and, if the pointer still names it, replaces the active pool, which is
\* retired and leaves loaded.  The new pool is pinned for the call.
CommitReload(c) ==
    LET old == active
        new == candidate[c]
        n == pool[new].name
        idle == pool[old].refs = 0
    IN  /\ pc[c] = "commit_reload"
        /\ ~closed
        /\ published[n] = pool[new].gen
        /\ pool' = [pool EXCEPT
                      ![old].retired = TRUE,
                      ![old].deleteOnRetire = TRUE,
                      ![old].state = IF idle THEN "closed" ELSE @,
                      ![new].refs = 1]
        /\ files' = IF idle THEN RemoveRetired(File(old)) ELSE files
        /\ specPath' = [specPath EXCEPT ![n] = pool[new].gen]
        /\ loaded' = [loaded EXCEPT ![n] = new]
        /\ Activate(new)
        /\ bound' = [bound EXCEPT ![c] = new]
        /\ leaseEpoch' = [leaseEpoch EXCEPT ![c] = epoch + 1]
        /\ gate' = Nobody
        /\ Goto(c, "repin")
        /\ UNCHANGED <<published, opening, closed, lease, pin, target, candidate,
                       switched>>

\* Fault: the pool pinned before is forgotten.
RepinForgets(c) ==
    /\ pc[c] = "repin"
    /\ pin' = [pin EXCEPT ![c] = candidate[c]]
    /\ candidate' = [candidate EXCEPT ![c] = None]
    /\ Goto(c, "handle")
    /\ UNCHANGED <<fileVars, managerVars, lease, leaseEpoch, bound, target, switched>>

\* rebindPublishedDatabase: a pool pinned by an earlier reload of this call is
\* given back, the new one takes its place.
Repin(c) ==
    /\ pc[c] = "repin"
    /\ IF pin[c] = None THEN UNCHANGED <<pool, loaded, files>> ELSE release(pin[c])
    /\ pin' = [pin EXCEPT ![c] = candidate[c]]
    /\ candidate' = [candidate EXCEPT ![c] = None]
    /\ Goto(c, "handle")
    /\ UNCHANGED <<published, active, specPath, opening, epoch, gate, closed,
                   lease, leaseEpoch, bound, target, switched>>

-----------------------------------------------------------------------------
(***************************************************************************)
(* The handler: a query, ck3_database switch, or the end of the call.      *)
(***************************************************************************)
BeginSwitch(c, n) ==
    /\ pc[c] = "handle"
    /\ switched[c] = "no"
    /\ target' = [target EXCEPT ![c] = n]
    /\ Goto(c, "switch")
    /\ UNCHANGED <<fileVars, managerVars, lease, leaseEpoch, bound, pin,
                   candidate, switched>>

\* Switch under the gate and the mutex: already active, still loaded (pinned
\* for revalidation), over budget, or reserved for opening.
\* Fault: the budget is tested before the new pool is charged.
FitsBudgetUncharged == AccountedPools <= MaxOpenPools

FitsBudget == AccountedPools + 1 <= MaxOpenPools

FinishSwitch(c, result) ==
    /\ switched' = [switched EXCEPT ![c] = result]
    /\ Goto(c, "handle")

EnterSwitch(c) ==
    /\ pc[c] = "switch"
    /\ gate = Nobody
    /\ ~closed
    /\ LET n == target[c]
           p == loaded[n]
       IN  \/ /\ pool[active].name = n
              /\ FinishSwitch(c, "unchanged")
              /\ UNCHANGED <<pool, opening, gate, candidate>>
           \/ /\ pool[active].name # n
              /\ p # None
              /\ pool' = [pool EXCEPT ![p].refs = @ + 1]
              /\ candidate' = [candidate EXCEPT ![c] = p]
              /\ gate' = c
              /\ Goto(c, "commit_switch")
              /\ UNCHANGED <<opening, switched>>
           \/ /\ pool[active].name # n
              /\ p = None
              /\ ~FitsBudget
              /\ FinishSwitch(c, "over_budget")
              /\ UNCHANGED <<pool, opening, gate, candidate>>
           \/ /\ pool[active].name # n
              /\ p = None
              /\ FitsBudget
              /\ opening' = opening + 1
              /\ gate' = c
              /\ Goto(c, "open")
              /\ UNCHANGED <<pool, candidate, switched>>
    /\ UNCHANGED <<fileVars, loaded, active, specPath, epoch, closed, lease,
                   leaseEpoch, bound, pin, target>>

\* openManagedMCPDatabase on the path in the spec.
SwitchOpens(c) ==
    /\ pc[c] = "open"
    /\ LET n == target[c]
       IN  /\ <<n, specPath[n]>> \in files
           /\ \E p \in PoolIds :
                  /\ IsNextPool(p)
                  /\ pool' = [pool EXCEPT ![p] = Opened(n, specPath[n])]
                  /\ candidate' = [candidate EXCEPT ![c] = p]
    /\ Goto(c, "commit_switch")
    /\ UNCHANGED <<fileVars, loaded, active, specPath, opening, epoch, gate,
                   closed, lease, leaseEpoch, bound, pin, target, switched>>

SwitchMissesFile(c) ==
    /\ pc[c] = "open"
    /\ <<target[c], specPath[target[c]]>> \notin files
    /\ opening' = opening - 1
    /\ gate' = Nobody
    /\ FinishSwitch(c, "database_missing")
    /\ UNCHANGED <<fileVars, pool, loaded, active, specPath, epoch, closed,
                   lease, leaseEpoch, bound, pin, target, candidate>>

\* A candidate that was loaded before the switch is not charged for opening.
IsNewlyOpened(c) == loaded[target[c]] # candidate[c]

\* Fault: a reservation is given back that was never taken.
ReturnReservationAlways(c) == opening' = opening - 1

ReturnReservation(c) ==
    opening' = IF IsNewlyOpened(c) THEN opening - 1 ELSE opening

\* Cancelled while waiting for the gate, or the manager is closed.
AbandonSwitch(c) ==
    /\ pc[c] = "switch"
    /\ FinishSwitch(c, "failed")
    /\ UNCHANGED <<fileVars, managerVars, lease, leaseEpoch, bound, pin, target,
                   candidate>>

\* Cancelled, unhealthy or closed after that: the reservation is given back, a
\* new pool closed, a pinned one released.
FailOpen(c) ==
    /\ pc[c] = "open"
    /\ opening' = opening - 1
    /\ gate' = Nobody
    /\ FinishSwitch(c, "failed")
    /\ UNCHANGED <<fileVars, pool, loaded, active, specPath, epoch, closed,
                   lease, leaseEpoch, bound, pin, target, candidate>>

FailSwitch(c) ==
    /\ pc[c] = "commit_switch"
    /\ \/ /\ IsNewlyOpened(c)
          /\ pool' = [pool EXCEPT ![candidate[c]].state = "closed"]
          /\ UNCHANGED <<loaded, files>>
       \/ /\ ~IsNewlyOpened(c)
          /\ release(candidate[c])
    /\ ReturnReservation(c)
    /\ gate' = Nobody
    /\ candidate' = [candidate EXCEPT ![c] = None]
    /\ FinishSwitch(c, "failed")
    /\ UNCHANGED <<published, active, specPath, epoch, closed, lease, leaseEpoch,
                   bound, pin, target>>

CommitSwitch(c) ==
    LET old == active
        new == candidate[c]
        idle == pool[old].refs = 0
        unpinned == IF IsNewlyOpened(c) THEN 0 ELSE 1
    IN  /\ pc[c] = "commit_switch"
        /\ ~closed
        /\ pool' = [pool EXCEPT
                      ![old].retired = TRUE,
                      ![old].state = IF idle THEN "closed" ELSE @,
                      ![new].retired = FALSE,
                      ![new].refs = @ - unpinned]
        /\ loaded' = [loaded EXCEPT
                        ![target[c]] = new,
                        ![pool[old].name] = IF idle /\ @ = old THEN None ELSE @]
        /\ ReturnReservation(c)
        /\ Activate(new)
        /\ candidate' = [candidate EXCEPT ![c] = None]
        /\ gate' = Nobody
        /\ FinishSwitch(c, "ready")
        /\ UNCHANGED <<fileVars, specPath, closed, lease, leaseEpoch, bound, pin,
                       target>>

\* ck3_refresh full in this call publishes a generation of its own database,
\* then rebinds the call to it.
RefreshFull(c) ==
    LET n == pool[bound[c]].name
        g == published[n] + 1
    IN  /\ pc[c] = "handle"
        /\ switched[c] = "no"
        /\ g \in Generations
        /\ published' = [published EXCEPT ![n] = g]
        /\ \/ files' = files \cup {<<n, g>>}
           \/ files' = (files \cup {<<n, g>>}) \ {<<n, published[n]>>}
        /\ Goto(c, "reload")
        /\ switched' = [switched EXCEPT ![c] = "refreshed"]
        /\ UNCHANGED <<managerVars, lease, leaseEpoch, bound, pin, target,
                       candidate>>

\* The handler returns.  A query and ck3_refresh files, which changes the
\* current generation in place and does not rebind, end here too.
EndHandler(c) ==
    /\ pc[c] = "handle"
    /\ Goto(c, "unpin")
    /\ UNCHANGED <<fileVars, managerVars, lease, leaseEpoch, bound, pin, target,
                   candidate, switched>>

\* callMCPTool's deferred release of the rebound pool ...
ReleasePin(c) ==
    /\ pc[c] = "unpin"
    /\ IF pin[c] = None THEN UNCHANGED <<pool, loaded, files>> ELSE release(pin[c])
    /\ pin' = [pin EXCEPT ![c] = None]
    /\ bound' = [bound EXCEPT ![c] = None]
    /\ Goto(c, "release")
    /\ UNCHANGED <<published, active, specPath, opening, epoch, gate, closed,
                   lease, leaseEpoch, target, candidate, switched>>

\* ... and the goroutine's deferred release of its lease.
ReleaseLease(c) ==
    /\ pc[c] = "release"
    /\ release(lease[c])
    /\ lease' = [lease EXCEPT ![c] = None]
    /\ Goto(c, "done")
    /\ UNCHANGED <<published, active, specPath, opening, epoch, gate, closed,
                   leaseEpoch, bound, pin, target, candidate, switched>>

-----------------------------------------------------------------------------
\* Another process (the CLI) publishes a generation of any target; the file it
\* replaces is removed unless the removal fails.
Publish(n) ==
    LET g == published[n] + 1
    IN  /\ g \in Generations
        /\ published' = [published EXCEPT ![n] = g]
        /\ \/ files' = files \cup {<<n, g>>}
           \/ files' = (files \cup {<<n, g>>}) \ {<<n, published[n]>>}
        /\ UNCHANGED <<managerVars, callVars>>

\* The session ends: idle pools are closed, leased ones when they come back.
Close ==
    LET idle == {n \in LoadedNames : pool[loaded[n]].refs = 0}
        inLoaded(p) == \E n \in LoadedNames : loaded[n] = p
    IN  /\ ~closed
        /\ closed' = TRUE
        /\ active' = None
        /\ pool' = [p \in PoolIds |->
                      IF ~inLoaded(p) THEN pool[p]
                      ELSE [pool[p] EXCEPT !.retired = TRUE,
                                           !.state = IF @ = "open" /\ pool[p].refs = 0
                                                     THEN "closed" ELSE @]]
        /\ loaded' = [n \in Targets |-> IF n \in idle THEN None ELSE loaded[n]]
        /\ UNCHANGED <<fileVars, specPath, opening, epoch, gate, callVars>>

Call(c) ==
    \/ Acquire(c) \/ CheckBinding(c)
    \/ EnterReload(c) \/ ReloadNothing(c) \/ ReloadOpens(c) \/ CommitReload(c)
    \/ Repin(c) \/ FailReload(c)
    \/ \E n \in Targets : BeginSwitch(c, n)
    \/ EnterSwitch(c) \/ SwitchOpens(c) \/ SwitchMissesFile(c) \/ CommitSwitch(c)
    \/ AbandonSwitch(c) \/ FailOpen(c) \/ FailSwitch(c)
    \/ RefreshFull(c) \/ EndHandler(c) \/ ReleasePin(c) \/ ReleaseLease(c)

Terminated ==
    /\ closed
    /\ \A c \in Calls : pc[c] \in {"idle", "done"}
    /\ UNCHANGED vars

Next ==
    \/ \E c \in Calls : Call(c)
    \/ \E n \in Targets : Publish(n)
    \/ Close
    \/ Terminated

Spec == Init /\ [][Next]_vars

-----------------------------------------------------------------------------
(***************************************************************************)
(* Properties.                                                             *)
(***************************************************************************)
\* Every variable has its type.
TypeOK ==
    /\ published \in [Targets -> Generations]
    /\ files \subseteq Files
    /\ pool \in [PoolIds -> [name : Targets, gen : Generations,
                             state : {"unused", "open", "closed"}, refs : Nat,
                             retired : BOOLEAN, deleteOnRetire : BOOLEAN]]
    /\ loaded \in [Targets -> PoolIds \cup {None}]
    /\ active \in PoolIds \cup {None}
    /\ specPath \in [Targets -> Generations]
    /\ opening \in Nat
    /\ epoch \in Nat
    /\ gate \in Calls \cup {Nobody}
    /\ closed \in BOOLEAN
    /\ pc \in [Calls -> Steps]
    /\ lease \in [Calls -> PoolIds \cup {None}]
    /\ leaseEpoch \in [Calls -> Nat]
    /\ bound \in [Calls -> PoolIds \cup {None}]
    /\ pin \in [Calls -> PoolIds \cup {None}]
    /\ target \in [Calls -> Targets]
    /\ candidate \in [Calls -> PoolIds \cup {None}]
    /\ switched \in [Calls -> {"no", "unchanged", "over_budget", "database_missing",
                              "failed", "ready", "refreshed"}]

\* The calls whose pending switch or reload holds a reference of pool p.
PinnedBy(p) ==
    {c \in Calls : /\ candidate[c] = p
                   /\ \/ pc[c] = "commit_switch" /\ ~IsNewlyOpened(c)
                      \/ pc[c] = "repin"}

\* The reference count of a pool is the number of its leases, of the calls
\* rebound to it and of the switches and reloads that pinned it: no failure
\* path, repeated rebinding or reactivation loses or repeats a release.
RefsExact ==
    \A p \in PoolIds :
        pool[p].refs = Cardinality({c \in Calls : lease[c] = p})
                       + Cardinality({c \in Calls : pin[c] = p})
                       + Cardinality(PinnedBy(p))

\* A pool somebody holds a reference of is open, whatever was switched,
\* reloaded or closed since.
HeldPoolsAreOpen ==
    \A p \in PoolIds : pool[p].refs > 0 => pool[p].state = "open"

\* Every open pool has somebody who will close it: it is active, it is held,
\* or a switch or reload in progress owns it.  After the session ended and
\* the calls returned, no pool is open.
NoPoolLeaks ==
    \A p \in PoolIds :
        pool[p].state = "open" =>
            \/ active = p
            \/ pool[p].refs > 0
            \/ \E c \in Calls : candidate[c] = p

\* While the manager serves, the active pool is open, not retired, and the
\* one registered under its name: new leases never start on a dying pool.
ActiveIsUsable ==
    ~closed => /\ active # None
               /\ pool[active].state = "open"
               /\ ~pool[active].retired
               /\ loaded[pool[active].name] = active

\* The open pools the budget is not asked about: the one a reload replaced, whose
\* place in loaded the new pool takes while old leases keep it open, and the one
\* a reload has opened, without a reservation, and not yet put in its place.
ReplacedByReload(p) == pool[p].deleteOnRetire
OpenedByReload(p) == \E c \in Calls : pc[c] = "commit_reload" /\ candidate[c] = p

\* README.md:106 (in translation): retired pools held by old leases still count
\* in the budget.  All other open pools together, those a switch retired and
\* those it is opening among them, stay within max_open_database_pools, however
\* switches, reloads and their failures interleave.
PoolsWithinBudget ==
    Cardinality({p \in PoolIds : /\ pool[p].state = "open"
                                 /\ ~ReplacedByReload(p) /\ ~OpenedByReload(p)})
        <= MaxOpenPools

\* Two calls that report the same database epoch read the same pool; the epoch
\* is part of the identity every result carries and of the result cache key.
EpochNamesOnePool ==
    \A c, d \in Calls :
        bound[c] # None /\ bound[d] # None /\ leaseEpoch[c] = leaseEpoch[d] =>
            bound[c] = bound[d]

-----------------------------------------------------------------------------
(***************************************************************************)
(* Statements of the repository that the code does not keep.               *)
(***************************************************************************)
\* database_manager.go:495 "Pin the rebound runtime until its current tool
\* call ends": the pool a running handler reads is open.
HandlerPoolIsOpen ==
    \A c \in Calls : pc[c] = "handle" => pool[bound[c]].state = "open"

\* tools_database.go:31 "Calls already running remain bound to the database
\* lease they started with": rebinding may change the generation of the
\* database a call reads, never which database it is.
CallKeepsItsDatabase ==
    \A c \in Calls :
        pc[c] = "handle" => pool[bound[c]].name = pool[lease[c]].name
=============================================================================
