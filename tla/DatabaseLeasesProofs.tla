------------------------ MODULE DatabaseLeasesProofs ------------------------
(***************************************************************************)
(* Theorems about DatabaseLeases, for any calls, targets, pools and limit. *)
(***************************************************************************)
EXTENDS DatabaseLeases, FiniteSetTheorems, TLAPS

-----------------------------------------------------------------------------
(***************************************************************************)
(* The inductive invariant.                                                *)
(***************************************************************************)
\* A call past the wait for switchGate holds it.
Gated == {"check", "commit_reload", "open", "commit_switch"}

GateInv == \A c \in Calls : pc[c] \in Gated => gate = c

\* What a call refers to, by where it is.
PlaceInv ==
    \A c \in Calls :
        /\ pc[c] \in {"commit_reload", "repin", "commit_switch"} <=> candidate[c] # None
        /\ pc[c] \notin {"idle", "done"} <=> lease[c] # None
        /\ pc[c] \notin {"idle", "release", "done"} <=> bound[c] # None
        /\ pc[c] \in {"idle", "release", "done"} => pin[c] = None

\* A call whose pending candidate nobody but itself knows.
IsFresh(c) ==
    pc[c] = "commit_reload" \/ (pc[c] = "commit_switch" /\ IsNewlyOpened(c))

\* The register holds open pools under their own names.
LoadedInv ==
    \A n \in Targets :
        loaded[n] # None => pool[loaded[n]].name = n /\ pool[loaded[n]].state = "open"

\* A fresh candidate is open, unreferenced and in no register; the candidate of
\* a switch has the name it was asked for, another one than the active pool.
CandidateOK(c) ==
    /\ IsFresh(c) => LET p == candidate[c]
                     IN  /\ pool[p].state = "open"
                         /\ pool[p].refs = 0
                         /\ ~pool[p].retired
                         /\ loaded[pool[p].name] # p
                         /\ active # p
    /\ pc[c] = "commit_reload" /\ ~closed => pool[candidate[c]].name = pool[active].name
    /\ pc[c] = "commit_switch" => pool[candidate[c]].name = target[c]
    /\ pc[c] \in {"open", "commit_switch"} /\ ~closed => pool[active].name # target[c]

CandidateInv == \A c \in Calls : CandidateOK(c)

\* An open pool is retired exactly while references alone keep it open.
RetiredInv ==
    \A p \in PoolIds :
        pool[p].state = "open" =>
            IF pool[p].retired THEN pool[p].refs > 0
            ELSE active = p \/ \E c \in Calls : IsFresh(c) /\ candidate[c] = p

RegisterInv ==
    /\ LoadedInv /\ ActiveIsUsable /\ CandidateInv /\ RetiredInv /\ HeldPoolsAreOpen
    /\ closed => active = None

\* A reservation belongs to the switch that opens, or has opened, a new pool.
IsReserved(c) ==
    pc[c] = "open" \/ (pc[c] = "commit_switch" /\ IsNewlyOpened(c))

\* What the manager accounts for fits the budget.
AccountedWithinBudget == AccountedPools <= MaxOpenPools

BudgetInv ==
    /\ opening = IF \E c \in Calls : IsReserved(c) THEN 1 ELSE 0
    /\ AccountedWithinBudget

\* A call is bound to the active pool if it reports the current epoch.
EpochInv ==
    /\ EpochNamesOnePool
    /\ \A c \in Calls :
           bound[c] # None =>
               /\ leaseEpoch[c] <= epoch
               /\ leaseEpoch[c] = epoch /\ ~closed => bound[c] = active

Inv ==
    /\ TypeOK /\ GateInv /\ PlaceInv /\ RegisterInv /\ RefsExact /\ BudgetInv /\ EpochInv

\* What the account leaves out is what reloads left or opened: no pool is registered
\* under the name a reservation is for, and the pools that switches retired stay
\* registered while they are open.
NameIsFree(c) == IsReserved(c) => loaded[target[c]] = None

IsKept(p) == pool[p].state = "open" /\ pool[p].retired /\ ~pool[p].deleteOnRetire

ChargedInv ==
    /\ \A c \in Calls : NameIsFree(c)
    /\ \A p \in PoolIds : IsKept(p) => loaded[pool[p].name] = p

-----------------------------------------------------------------------------
(***************************************************************************)
(* What the steps do to the pools and the register.                        *)
(***************************************************************************)
Pool == [name : Targets, gen : Generations, state : {"unused", "open", "closed"},
         refs : Nat, retired : BOOLEAN, deleteOnRetire : BOOLEAN]

PoolsOK == pool \in [PoolIds -> Pool] /\ loaded \in [Targets -> PoolIds \cup {None}]

\* The types of the pools and the register, from the type invariant.
LEMMA Typed == TypeOK => PoolsOK
  BY DEF TypeOK, PoolsOK, Pool

\* Every pool but those of S stays as it is.
KeepsPools(S) == \A q \in PoolIds \ S : pool'[q] = pool[q]

\* A released reference is one fewer; the last one of a retired pool closes it
\* and takes it out of the register.
LEMMA ReleaseEffect ==
    ASSUME PoolsOK, NEW p \in PoolIds, pool[p].refs > 0, release(p)
    PROVE  /\ pool' \in [PoolIds -> Pool]
           /\ KeepsPools({p})
           /\ pool'[p].refs = pool[p].refs - 1
           /\ pool'[p].name = pool[p].name
           /\ pool'[p].retired = pool[p].retired
           /\ pool'[p].deleteOnRetire = pool[p].deleteOnRetire
           /\ pool'[p].state = IF pool[p].retired /\ pool[p].refs = 1 THEN "closed"
                               ELSE pool[p].state
           /\ loaded' \in [Targets -> PoolIds \cup {None}]
           /\ \A n \in Targets :
                  loaded'[n] = IF /\ pool[p].retired /\ pool[p].refs = 1
                                  /\ loaded[n] = p /\ n = pool[p].name
                               THEN None ELSE loaded[n]
           /\ files' \subseteq files
  <1>1. pool[p] \in Pool /\ pool[p].refs \in Nat /\ pool[p].name \in Targets
    BY DEF PoolsOK, Pool
  <1>2. IsLastRef(p) <=> pool[p].retired /\ pool[p].refs = 1
    BY <1>1 DEF IsLastRef
  <1> DEFINE new == [pool[p] EXCEPT !.refs = pool[p].refs - 1,
                                    !.state = IF IsLastRef(p) THEN "closed" ELSE @]
  <1>3. pool' = [pool EXCEPT ![p] = new]
    BY <1>1 DEF release, PoolsOK, Pool
  <1>4. /\ new \in Pool
        /\ new.refs = pool[p].refs - 1
        /\ new.name = pool[p].name
        /\ new.retired = pool[p].retired
        /\ new.deleteOnRetire = pool[p].deleteOnRetire
        /\ new.state = IF IsLastRef(p) THEN "closed" ELSE pool[p].state
    <2>1. pool[p].refs - 1 \in Nat /\ (IF IsLastRef(p) THEN "closed" ELSE pool[p].state)
                                          \in {"unused", "open", "closed"}
      BY <1>1 DEF Pool
    <2> QED
      BY <1>1, <2>1 DEF Pool
  <1>5. loaded' = IF IsLastRef(p) /\ loaded[pool[p].name] = p
                  THEN [loaded EXCEPT ![pool[p].name] = None] ELSE loaded
    BY DEF release
  <1>6. files' \subseteq files
    BY DEF release, RemoveRetired
  <1> HIDE DEF new
  <1>7. pool' \in [PoolIds -> Pool] /\ pool'[p] = new /\ KeepsPools({p})
    BY <1>3, <1>4 DEF PoolsOK, KeepsPools
  <1>8. /\ loaded' \in [Targets -> PoolIds \cup {None}]
        /\ \A n \in Targets :
               loaded'[n] = IF IsLastRef(p) /\ loaded[n] = p /\ n = pool[p].name
                            THEN None ELSE loaded[n]
    BY <1>1, <1>5 DEF PoolsOK
  <1> QED
    BY <1>2, <1>4, <1>6, <1>7, <1>8

\* A lease.
LEMMA AcquireEffect ==
    ASSUME PoolsOK, NEW p \in PoolIds, pool' = [pool EXCEPT ![p].refs = @ + 1]
    PROVE  /\ pool' \in [PoolIds -> Pool]
           /\ KeepsPools({p})
           /\ pool'[p].refs = pool[p].refs + 1
           /\ pool'[p].name = pool[p].name
           /\ pool'[p].retired = pool[p].retired
           /\ pool'[p].deleteOnRetire = pool[p].deleteOnRetire
           /\ pool'[p].state = pool[p].state
  <1> DEFINE new == [pool[p] EXCEPT !.refs = pool[p].refs + 1]
  <1>1. pool' = [pool EXCEPT ![p] = new]
    BY DEF PoolsOK, Pool
  <1>2. /\ new \in Pool /\ new.refs = pool[p].refs + 1 /\ new.name = pool[p].name
        /\ new.retired = pool[p].retired /\ new.state = pool[p].state
        /\ new.deleteOnRetire = pool[p].deleteOnRetire
    BY DEF PoolsOK, Pool
  <1> HIDE DEF new
  <1> QED
    BY <1>1, <1>2 DEF PoolsOK, KeepsPools

\* A pool is opened.
LEMMA OpenEffect ==
    ASSUME PoolsOK, NEW p \in PoolIds, NEW n \in Targets, NEW g \in Generations,
           pool' = [pool EXCEPT ![p] = Opened(n, g)]
    PROVE  /\ pool' \in [PoolIds -> Pool]
           /\ KeepsPools({p})
           /\ pool'[p].name = n /\ pool'[p].state = "open"
           /\ pool'[p].refs = 0 /\ ~pool'[p].retired
  <1>1. Opened(n, g) = [name |-> n, gen |-> g, state |-> "open", refs |-> 0,
                        retired |-> FALSE, deleteOnRetire |-> FALSE]
    <2>1. Unused = [name |-> Primary, gen |-> 0, state |-> "unused", refs |-> 0,
                    retired |-> FALSE, deleteOnRetire |-> FALSE]
      BY DEF Unused
    <2> HIDE DEF Unused
    <2>2. Opened(n, g) = [[[Unused EXCEPT !.name = n] EXCEPT !.gen = g] EXCEPT !.state = "open"]
      BY DEF Opened
    <2> QED
      BY <2>1, <2>2
  <1> QED
    BY <1>1 DEF PoolsOK, KeepsPools, Pool

\* A fresh candidate is closed.
LEMMA DiscardEffect ==
    ASSUME PoolsOK, NEW p \in PoolIds, pool' = [pool EXCEPT ![p].state = "closed"]
    PROVE  /\ pool' \in [PoolIds -> Pool]
           /\ KeepsPools({p})
           /\ pool'[p].refs = pool[p].refs /\ pool'[p].state = "closed"
           /\ pool'[p].name = pool[p].name
  <1> DEFINE new == [pool[p] EXCEPT !.state = "closed"]
  <1>1. pool' = [pool EXCEPT ![p] = new]
    BY DEF PoolsOK, Pool
  <1>2. /\ new \in Pool /\ new.refs = pool[p].refs /\ new.name = pool[p].name
        /\ new.state = "closed"
    BY DEF PoolsOK, Pool
  <1> HIDE DEF new
  <1> QED
    BY <1>1, <1>2 DEF PoolsOK, KeepsPools

\* A reload replaces the active pool, which stays open for its references.
LEMMA CommitReloadEffect ==
    ASSUME PoolsOK, NEW c \in Calls, CommitReload(c), active \in PoolIds,
           candidate[c] \in PoolIds \ {active}
    PROVE  /\ pool' \in [PoolIds -> Pool]
           /\ KeepsPools({active, candidate[c]})
           /\ pool'[active].retired /\ pool'[active].refs = pool[active].refs
           /\ pool'[active].name = pool[active].name
           /\ pool'[active].deleteOnRetire
           /\ pool'[active].state = IF pool[active].refs = 0 THEN "closed"
                                    ELSE pool[active].state
           /\ pool'[candidate[c]].refs = 1
           /\ pool'[candidate[c]].name = pool[candidate[c]].name
           /\ pool'[candidate[c]].state = pool[candidate[c]].state
           /\ pool'[candidate[c]].retired = pool[candidate[c]].retired
           /\ loaded' = [loaded EXCEPT ![pool[candidate[c]].name] = candidate[c]]
           /\ files' \subseteq files
  <1> DEFINE old == [pool[active] EXCEPT
                        !.retired = TRUE, !.deleteOnRetire = TRUE,
                        !.state = IF pool[active].refs = 0 THEN "closed" ELSE @]
             new == [pool[candidate[c]] EXCEPT !.refs = 1]
  <1>1. pool' = [pool EXCEPT ![active] = old, ![candidate[c]] = new]
    BY DEF CommitReload, PoolsOK, Pool
  <1>2. /\ old \in Pool /\ old.retired /\ old.refs = pool[active].refs
        /\ old.name = pool[active].name
        /\ old.deleteOnRetire
        /\ old.state = IF pool[active].refs = 0 THEN "closed" ELSE pool[active].state
    BY DEF PoolsOK, Pool
  <1>3. /\ new \in Pool /\ new.refs = 1 /\ new.name = pool[candidate[c]].name
        /\ new.state = pool[candidate[c]].state
        /\ new.retired = pool[candidate[c]].retired
    BY DEF PoolsOK, Pool
  <1>4. /\ loaded' = [loaded EXCEPT ![pool[candidate[c]].name] = candidate[c]]
        /\ files' \subseteq files
    BY DEF CommitReload, RemoveRetired
  <1> HIDE DEF old, new
  <1>5. /\ pool' \in [PoolIds -> Pool] /\ pool'[active] = old /\ pool'[candidate[c]] = new
        /\ KeepsPools({active, candidate[c]})
    BY <1>1, <1>2, <1>3 DEF PoolsOK, KeepsPools
  <1> QED
    BY <1>2, <1>3, <1>4, <1>5

\* A switch does so for another name; a pinned candidate is unpinned.
LEMMA CommitSwitchEffect ==
    ASSUME PoolsOK, NEW c \in Calls, CommitSwitch(c), active \in PoolIds,
           candidate[c] \in PoolIds \ {active}, target[c] \in Targets,
           pool[active].name # target[c],
           IsNewlyOpened(c) \/ pool[candidate[c]].refs > 0
    PROVE  /\ pool' \in [PoolIds -> Pool]
           /\ KeepsPools({active, candidate[c]})
           /\ pool'[active].retired /\ pool'[active].refs = pool[active].refs
           /\ pool'[active].name = pool[active].name
           /\ pool'[active].state = IF pool[active].refs = 0 THEN "closed"
                                    ELSE pool[active].state
           /\ pool'[candidate[c]].refs =
                  pool[candidate[c]].refs - (IF IsNewlyOpened(c) THEN 0 ELSE 1)
           /\ pool'[candidate[c]].name = pool[candidate[c]].name
           /\ pool'[candidate[c]].state = pool[candidate[c]].state
           /\ ~pool'[candidate[c]].retired
           /\ loaded' \in [Targets -> PoolIds \cup {None}]
           /\ \A n \in Targets :
                  loaded'[n] = IF n = target[c] THEN candidate[c]
                               ELSE IF /\ n = pool[active].name
                                       /\ pool[active].refs = 0 /\ loaded[n] = active
                                    THEN None ELSE loaded[n]
  <1> DEFINE unpinned == IF IsNewlyOpened(c) THEN 0 ELSE 1
             old == [pool[active] EXCEPT
                        !.retired = TRUE,
                        !.state = IF pool[active].refs = 0 THEN "closed" ELSE @]
             new == [pool[candidate[c]] EXCEPT
                        !.retired = FALSE, !.refs = pool[candidate[c]].refs - unpinned]
             n0 == pool[active].name
  <1>1. pool' = [pool EXCEPT ![active] = old, ![candidate[c]] = new]
    BY DEF CommitSwitch, PoolsOK, Pool
  <1>2. /\ old \in Pool /\ old.retired /\ old.refs = pool[active].refs
        /\ old.name = pool[active].name
        /\ old.state = IF pool[active].refs = 0 THEN "closed" ELSE pool[active].state
    BY DEF PoolsOK, Pool
  <1>3. /\ new \in Pool /\ new.refs = pool[candidate[c]].refs - unpinned
        /\ new.name = pool[candidate[c]].name
        /\ new.state = pool[candidate[c]].state /\ ~new.retired
    <2>1. pool[candidate[c]] \in Pool
      BY DEF PoolsOK
    <2>2. pool[candidate[c]].refs - unpinned \in Nat
      BY <2>1 DEF Pool
    <2> HIDE DEF unpinned
    <2> QED
      BY <2>1, <2>2 DEF Pool
  <1>4. n0 \in Targets
    BY DEF PoolsOK, Pool
  <1>5. loaded' = [loaded EXCEPT ![target[c]] = candidate[c],
                                 ![n0] = IF pool[active].refs = 0 /\ loaded[n0] = active
                                         THEN None ELSE loaded[n0]]
    BY <1>4 DEF CommitSwitch, PoolsOK
  <1> HIDE DEF old, new, n0
  <1>6. /\ pool' \in [PoolIds -> Pool] /\ pool'[active] = old /\ pool'[candidate[c]] = new
        /\ KeepsPools({active, candidate[c]})
    BY <1>1, <1>2, <1>3 DEF PoolsOK, KeepsPools
  <1>7. /\ loaded' \in [Targets -> PoolIds \cup {None}]
        /\ \A n \in Targets :
               loaded'[n] = IF n = target[c] THEN candidate[c]
                            ELSE IF n = n0 /\ pool[active].refs = 0 /\ loaded[n] = active
                                 THEN None ELSE loaded[n]
    BY <1>4, <1>5 DEF PoolsOK, n0
  <1> QED
    BY <1>2, <1>3, <1>6, <1>7 DEF n0

\* Closing retires what is registered and closes what nobody holds.
LEMMA CloseEffect ==
    ASSUME PoolsOK, LoadedInv, Close
    PROVE  /\ pool' \in [PoolIds -> Pool]
           /\ \A p \in PoolIds :
                  LET registered == \E n \in Targets : loaded[n] = p
                  IN  /\ pool'[p].refs = pool[p].refs
                      /\ pool'[p].name = pool[p].name
                      /\ pool'[p].retired = (registered \/ pool[p].retired)
                      /\ pool'[p].deleteOnRetire = pool[p].deleteOnRetire
                      /\ pool'[p].state = IF registered /\ pool[p].refs = 0 THEN "closed"
                                          ELSE pool[p].state
           /\ loaded' \in [Targets -> PoolIds \cup {None}]
           /\ \A n \in Targets :
                  loaded'[n] = IF loaded[n] # None /\ pool[loaded[n]].refs = 0 THEN None
                               ELSE loaded[n]
  <1> DEFINE registered(p) == \E n \in Targets : loaded[n] = p
             new(p) == [pool[p] EXCEPT !.retired = TRUE,
                                       !.state = IF @ = "open" /\ pool[p].refs = 0
                                                 THEN "closed" ELSE @]
  <1>1. \A p \in PoolIds : registered(p) <=> \E n \in LoadedNames : loaded[n] = p
    BY LeaseAssumption DEF LoadedNames
  <1>2. pool' = [p \in PoolIds |-> IF registered(p) THEN new(p) ELSE pool[p]]
    BY <1>1 DEF Close
  <1>3. \A p \in PoolIds :
            /\ new(p) \in Pool /\ new(p).refs = pool[p].refs /\ new(p).name = pool[p].name
            /\ new(p).retired /\ new(p).deleteOnRetire = pool[p].deleteOnRetire
            /\ new(p).state = IF pool[p].state = "open" /\ pool[p].refs = 0 THEN "closed"
                              ELSE pool[p].state
    BY DEF PoolsOK, Pool
  <1>4. \A p \in PoolIds : registered(p) => pool[p].state = "open"
    BY LeaseAssumption DEF LoadedInv
  <1>5. loaded' = [n \in Targets |-> IF n \in {m \in LoadedNames : pool[loaded[m]].refs = 0}
                                     THEN None ELSE loaded[n]]
    BY DEF Close
  <1>6. /\ loaded' \in [Targets -> PoolIds \cup {None}]
        /\ \A n \in Targets :
               loaded'[n] = IF loaded[n] # None /\ pool[loaded[n]].refs = 0 THEN None
                            ELSE loaded[n]
    BY <1>5 DEF LoadedNames, PoolsOK
  <1> HIDE DEF new
  <1>7. pool' \in [PoolIds -> Pool]
    BY <1>2, <1>3 DEF PoolsOK
  <1>8. ASSUME NEW p \in PoolIds
        PROVE  /\ pool'[p].refs = pool[p].refs
               /\ pool'[p].name = pool[p].name
               /\ pool'[p].retired = (registered(p) \/ pool[p].retired)
               /\ pool'[p].deleteOnRetire = pool[p].deleteOnRetire
               /\ pool'[p].state = IF registered(p) /\ pool[p].refs = 0 THEN "closed"
                                   ELSE pool[p].state
    <2>1. CASE registered(p)
      BY <1>2, <1>3, <1>4, <2>1 DEF PoolsOK, Pool
    <2>2. CASE ~registered(p)
      BY <1>2, <2>2 DEF PoolsOK, Pool
    <2> QED
      BY <2>1, <2>2
  <1> QED
    BY <1>6, <1>7, <1>8

-----------------------------------------------------------------------------
(***************************************************************************)
(* References.                                                             *)
(***************************************************************************)
Leases(p) == {c \in Calls : lease[c] = p}
Pins(p) == {c \in Calls : pin[c] = p}

Weight(b) == IF b THEN 1 ELSE 0

\* Two sets of calls that agree but on c.
LEMMA CountDiffers ==
    ASSUME NEW S \in SUBSET Calls, NEW T \in SUBSET Calls, NEW c \in Calls,
           S \ {c} = T \ {c}
    PROVE  /\ Cardinality(S) \in Nat /\ Cardinality(T) \in Nat
           /\ Cardinality(S) + Weight(c \in T) = Cardinality(T) + Weight(c \in S)
  <1>1. IsFiniteSet(S) /\ IsFiniteSet(T) /\ IsFiniteSet(S \ {c})
    BY LeaseAssumption, FS_Subset
  <1>2. Cardinality(S) \in Nat /\ Cardinality(T) \in Nat /\ Cardinality(S \ {c}) \in Nat
    BY <1>1, FS_CardinalityType
  <1>3. Cardinality(S \ {c}) = IF c \in S THEN Cardinality(S) - 1 ELSE Cardinality(S)
    BY <1>1, FS_RemoveElement
  <1>4. Cardinality(T \ {c}) = IF c \in T THEN Cardinality(T) - 1 ELSE Cardinality(T)
    BY <1>1, FS_RemoveElement
  <1> QED
    BY <1>2, <1>3, <1>4 DEF Weight

\* A set of calls with a member has at least one.
LEMMA CountOne ==
    ASSUME NEW S \in SUBSET Calls, NEW c \in S
    PROVE  Cardinality(S) >= 1
  <1>1. Cardinality({}) = 0 /\ Cardinality({}) \in Nat
    BY FS_EmptySet
  <1>2. {} \in SUBSET Calls /\ Cardinality(S) \in Nat
    BY LeaseAssumption, FS_Subset, FS_CardinalityType
  <1>3. S # {} /\ IsFiniteSet(S)
    BY LeaseAssumption, FS_Subset
  <1> QED
    BY <1>1, <1>2, <1>3, FS_EmptySet

\* The calls that hold a pool in each way are finitely many.
LEMMA CountTypes ==
    ASSUME NEW p
    PROVE  /\ Cardinality(Leases(p)) \in Nat
           /\ Cardinality(Pins(p)) \in Nat
           /\ Cardinality(PinnedBy(p)) \in Nat
  <1>1. Leases(p) \in SUBSET Calls /\ Pins(p) \in SUBSET Calls /\ PinnedBy(p) \in SUBSET Calls
    BY DEF Leases, Pins, PinnedBy
  <1> QED
    BY <1>1, LeaseAssumption, FS_Subset, FS_CardinalityType

\* Who has a lease, a pinned pool or a pinned candidate is counted.
LEMMA Held ==
    ASSUME TypeOK, RefsExact, NEW c \in Calls, NEW p \in PoolIds,
           c \in Leases(p) \cup Pins(p) \cup PinnedBy(p)
    PROVE  pool[p].refs > 0
  <1>1. pool[p].refs = Cardinality(Leases(p)) + Cardinality(Pins(p)) + Cardinality(PinnedBy(p))
    BY DEF RefsExact, Leases, Pins
  <1>2. \/ Cardinality(Leases(p)) >= 1 \/ Cardinality(Pins(p)) >= 1
        \/ Cardinality(PinnedBy(p)) >= 1
    BY CountOne DEF Leases, Pins, PinnedBy
  <1> QED
    BY <1>1, <1>2, CountTypes

\* A pinned candidate that also has a lease or is pinned has two references.
LEMMA HeldTwice ==
    ASSUME TypeOK, RefsExact, NEW c \in Calls, NEW d \in Calls, NEW p \in PoolIds,
           c \in Leases(p) \cup Pins(p), d \in PinnedBy(p)
    PROVE  pool[p].refs > 1
  <1>1. pool[p].refs = Cardinality(Leases(p)) + Cardinality(Pins(p)) + Cardinality(PinnedBy(p))
    BY DEF RefsExact, Leases, Pins
  <1>2. Cardinality(Leases(p)) >= 1 \/ Cardinality(Pins(p)) >= 1
    BY CountOne DEF Leases, Pins
  <1>3. Cardinality(PinnedBy(p)) >= 1
    BY CountOne DEF PinnedBy
  <1> QED
    BY <1>1, <1>2, <1>3, CountTypes

\* The pool a place refers to.
LEMMA Places ==
    ASSUME TypeOK, PlaceInv, NEW c \in Calls
    PROVE  /\ pc[c] \in {"commit_reload", "repin", "commit_switch"} => candidate[c] \in PoolIds
           /\ pc[c] \notin {"idle", "done"} => lease[c] \in PoolIds
           /\ pc[c] \notin {"idle", "release", "done"} => bound[c] \in PoolIds
           /\ pin[c] # None => pin[c] \in PoolIds
  BY DEF TypeOK, PlaceInv

(***************************************************************************)
(* What a step of one call leaves of the others.                           *)
(***************************************************************************)
Bystander(d) ==
    /\ pc'[d] = pc[d]
    /\ candidate'[d] = candidate[d]
    /\ target'[d] = target[d]
    /\ lease'[d] = lease[d]
    /\ pin'[d] = pin[d]
    /\ bound'[d] = bound[d]
    /\ leaseEpoch'[d] = leaseEpoch[d]
    /\ pc[d] = "commit_switch" => (IsNewlyOpened(d)' <=> IsNewlyOpened(d))

\* A release does not take the candidate of a switch out of the register.
LEMMA ReleaseBystander ==
    ASSUME Inv, NEW c \in Calls, NEW p \in PoolIds, release(p),
           lease[c] = p \/ pin[c] = p,
           NEW d \in Calls, pc[d] = "commit_switch",
           candidate'[d] = candidate[d], target'[d] = target[d]
    PROVE  (IsNewlyOpened(d)' <=> IsNewlyOpened(d))
  <1>1. candidate[d] \in PoolIds /\ target[d] \in Targets
    BY Places DEF Inv, TypeOK
  <1>2. pool[p].refs > 0
    BY Held DEF Inv, Leases, Pins
  <1>3. \A n \in Targets :
            \/ loaded'[n] = loaded[n]
            \/ loaded[n] = p /\ pool[p].refs = 1 /\ loaded'[n] = None
    BY <1>2, ReleaseEffect, Typed DEF Inv
  <1>4. ~IsNewlyOpened(d) /\ candidate[d] = p => pool[p].refs > 1
    BY HeldTwice DEF Inv, Leases, Pins, PinnedBy
  <1>5. None \notin PoolIds
    BY LeaseAssumption
  <1> QED
    BY <1>1, <1>3, <1>4, <1>5 DEF IsNewlyOpened

\* A step of one call leaves the places of every other as they are, and with
\* them whether a switch in progress opened its candidate.
LEMMA Bystanders ==
    ASSUME Inv, NEW c \in Calls, Call(c)
    PROVE  \A d \in Calls \ {c} : Bystander(d)
  <1> SUFFICES ASSUME NEW d \in Calls \ {c} PROVE Bystander(d)
    OBVIOUS
  <1> USE DEF Inv, TypeOK, Goto
  <1>1. CASE Acquire(c)
    BY <1>1 DEF Acquire, fileVars, Bystander, IsNewlyOpened
  <1>2. CASE CheckBinding(c)
    BY <1>2 DEF CheckBinding, fileVars, managerVars, Bystander, IsNewlyOpened
  <1>3. CASE EnterReload(c)
    BY <1>3 DEF EnterReload, fileVars, Bystander, IsNewlyOpened
  <1>4. CASE ReloadNothing(c)
    BY <1>4 DEF ReloadNothing, fileVars, Bystander, IsNewlyOpened
  <1>5. CASE ReloadOpens(c)
    BY <1>5 DEF ReloadOpens, fileVars, Bystander, IsNewlyOpened
  <1>6. CASE CommitReload(c)
    <2>1. pc[c] \in Gated /\ pc[d] # "commit_switch"
      BY <1>6 DEF CommitReload, GateInv, Gated
    <2> QED
      BY <1>6, <2>1 DEF CommitReload, Bystander
  <1>7. CASE Repin(c)
    <2>1. CASE pin[c] = None
      BY <1>7, <2>1 DEF Repin, Bystander, IsNewlyOpened
    <2>2. CASE pin[c] # None
      <3>1. pin[c] \in PoolIds /\ release(pin[c])
        BY <1>7, <2>2, Places DEF Repin
      <3>2. pc[d] = "commit_switch" => (IsNewlyOpened(d)' <=> IsNewlyOpened(d))
        BY <1>7, <3>1, ReleaseBystander DEF Repin
      <3> QED
        BY <1>7, <3>2 DEF Repin, Bystander
    <2> QED
      BY <2>1, <2>2
  <1>8. CASE FailReload(c)
    BY <1>8 DEF FailReload, fileVars, Bystander, IsNewlyOpened
  <1>9. ASSUME NEW n \in Targets, BeginSwitch(c, n) PROVE Bystander(d)
    BY <1>9 DEF BeginSwitch, fileVars, managerVars, Bystander, IsNewlyOpened
  <1>10. CASE EnterSwitch(c)
    BY <1>10 DEF EnterSwitch, fileVars, FinishSwitch, Bystander, IsNewlyOpened
  <1>11. CASE SwitchOpens(c)
    BY <1>11 DEF SwitchOpens, fileVars, Bystander, IsNewlyOpened
  <1>12. CASE SwitchMissesFile(c)
    BY <1>12 DEF SwitchMissesFile, fileVars, FinishSwitch, Bystander, IsNewlyOpened
  <1>13. CASE CommitSwitch(c)
    <2>1. pc[c] \in Gated /\ pc[d] # "commit_switch"
      BY <1>13 DEF CommitSwitch, GateInv, Gated
    <2> QED
      BY <1>13, <2>1 DEF CommitSwitch, FinishSwitch, Bystander
  <1>14. CASE AbandonSwitch(c)
    BY <1>14 DEF AbandonSwitch, fileVars, managerVars, FinishSwitch, Bystander, IsNewlyOpened
  <1>15. CASE FailOpen(c)
    BY <1>15 DEF FailOpen, fileVars, FinishSwitch, Bystander, IsNewlyOpened
  <1>16. CASE FailSwitch(c)
    <2>1. pc[c] \in Gated /\ pc[d] # "commit_switch"
      BY <1>16 DEF FailSwitch, GateInv, Gated
    <2> QED
      BY <1>16, <2>1 DEF FailSwitch, FinishSwitch, Bystander
  <1>17. CASE RefreshFull(c)
    BY <1>17 DEF RefreshFull, managerVars, Bystander, IsNewlyOpened
  <1>19. CASE EndHandler(c)
    BY <1>19 DEF EndHandler, fileVars, managerVars, Bystander, IsNewlyOpened
  <1>20. CASE ReleasePin(c)
    <2>1. CASE pin[c] = None
      BY <1>20, <2>1 DEF ReleasePin, Bystander, IsNewlyOpened
    <2>2. CASE pin[c] # None
      <3>1. pin[c] \in PoolIds /\ release(pin[c])
        BY <1>20, <2>2, Places DEF ReleasePin
      <3>2. pc[d] = "commit_switch" => (IsNewlyOpened(d)' <=> IsNewlyOpened(d))
        BY <1>20, <3>1, ReleaseBystander DEF ReleasePin
      <3> QED
        BY <1>20, <3>2 DEF ReleasePin, Bystander
    <2> QED
      BY <2>1, <2>2
  <1>21. CASE ReleaseLease(c)
    <2>1. lease[c] \in PoolIds /\ release(lease[c])
      BY <1>21, Places DEF ReleaseLease
    <2>2. pc[d] = "commit_switch" => (IsNewlyOpened(d)' <=> IsNewlyOpened(d))
      BY <1>21, <2>1, ReleaseBystander DEF ReleaseLease
    <2> QED
      BY <1>21, <2>2 DEF ReleaseLease, Bystander
  <1> QED
    BY <1>1, <1>2, <1>3, <1>4, <1>5, <1>6, <1>7, <1>8, <1>9, <1>10, <1>11,
       <1>12, <1>13, <1>14, <1>15, <1>16, <1>17, <1>19, <1>20, <1>21 DEF Call

-----------------------------------------------------------------------------
(***************************************************************************)
(* What an operation finds when it commits.                                *)
(***************************************************************************)
LEMMA ActiveReady == ASSUME Inv, ~closed PROVE active \in PoolIds
  BY DEF Inv, TypeOK, RegisterInv, ActiveIsUsable

\* A reload that commits replaces the active pool by another one.
LEMMA ReloadReady ==
    ASSUME Inv, NEW c \in Calls, CommitReload(c)
    PROVE  active \in PoolIds /\ candidate[c] \in PoolIds \ {active}
  <1>1. active \in PoolIds /\ candidate[c] \in PoolIds
    BY ActiveReady, Places DEF CommitReload, Inv
  <1>2. active # candidate[c]
    BY DEF Inv, RegisterInv, CandidateInv, CandidateOK, IsFresh, CommitReload
  <1> QED
    BY <1>1, <1>2

\* So does a switch, by the pool of the name it was asked for, which is not the
\* active one; if it was pinned it has a reference to give back.
LEMMA SwitchReady ==
    ASSUME Inv, NEW c \in Calls, CommitSwitch(c)
    PROVE  /\ active \in PoolIds /\ candidate[c] \in PoolIds \ {active}
           /\ target[c] \in Targets /\ pool[active].name # target[c]
           /\ pool[candidate[c]].name = target[c]
           /\ IsNewlyOpened(c) \/ pool[candidate[c]].refs > 0
  <1>1. active \in PoolIds /\ candidate[c] \in PoolIds /\ target[c] \in Targets
    BY ActiveReady, Places DEF CommitSwitch, Inv, TypeOK
  <1>2. pool[active].name # target[c] /\ pool[candidate[c]].name = target[c]
    BY DEF Inv, RegisterInv, CandidateInv, CandidateOK, CommitSwitch
  <1>3. IsNewlyOpened(c) \/ pool[candidate[c]].refs > 0
    BY <1>1, Held DEF Inv, PinnedBy, CommitSwitch
  <1> QED
    BY <1>1, <1>2, <1>3

\* A release is of a pool that has the reference.
LEMMA ReleaseReady ==
    ASSUME Inv, NEW c \in Calls
    PROVE  /\ (Repin(c) \/ ReleasePin(c)) /\ pin[c] # None =>
                  pin[c] \in PoolIds /\ pool[pin[c]].refs > 0
           /\ ReleaseLease(c) => lease[c] \in PoolIds /\ pool[lease[c]].refs > 0
           /\ FailSwitch(c) => /\ candidate[c] \in PoolIds
                               /\ ~IsNewlyOpened(c) => pool[candidate[c]].refs > 0
  <1>1. pin[c] # None => pin[c] \in PoolIds /\ pool[pin[c]].refs > 0
    BY Places, Held DEF Inv, Pins
  <1>2. ReleaseLease(c) => lease[c] \in PoolIds /\ pool[lease[c]].refs > 0
    BY Places, Held DEF Inv, Leases, ReleaseLease
  <1>3. FailSwitch(c) => /\ candidate[c] \in PoolIds
                         /\ ~IsNewlyOpened(c) => pool[candidate[c]].refs > 0
    BY Places, Held DEF Inv, PinnedBy, FailSwitch
  <1> QED
    BY <1>1, <1>2, <1>3

\* A reservation that is given back was taken.
LEMMA OpeningReady ==
    ASSUME Inv, NEW c \in Calls
    PROVE  /\ opening \in {0, 1}
           /\ IsReserved(c) => opening = 1
  BY DEF Inv, BudgetInv

-----------------------------------------------------------------------------
(***************************************************************************)
(* Types and places.                                                       *)
(***************************************************************************)
LEMMA PoolsStep == ASSUME Inv, Next PROVE PoolsOK'
  <1> USE DEF Inv, Goto, RegisterInv
  <1>0. PoolsOK
    BY Typed
  <1>1. ASSUME UNCHANGED <<pool, loaded>> PROVE PoolsOK'
    BY <1>0, <1>1 DEF PoolsOK
  <1>2. ASSUME NEW c \in Calls, Acquire(c) PROVE PoolsOK'
    BY <1>0, <1>2, ActiveReady, AcquireEffect DEF Acquire, PoolsOK
  <1>3. ASSUME NEW c \in Calls, ReloadOpens(c) PROVE PoolsOK'
    <2>1. active \in PoolIds /\ pool[active].name \in Targets
      BY <1>0, <1>3, ActiveReady DEF ReloadOpens, PoolsOK, Pool
    <2>2. published[pool[active].name] \in Generations
      BY <2>1 DEF TypeOK
    <2>3. PICK p \in PoolIds :
              pool' = [pool EXCEPT ![p] = Opened(pool[active].name, published[pool[active].name])]
      BY <1>3 DEF ReloadOpens
    <2>4. UNCHANGED loaded
      BY <1>3 DEF ReloadOpens
    <2> QED
      BY <1>0, <2>1, <2>2, <2>3, <2>4, OpenEffect DEF PoolsOK
  <1>4. ASSUME NEW c \in Calls, CommitReload(c) PROVE PoolsOK'
    <2>1. pool[candidate[c]].name \in Targets
      BY <1>0, <1>4, ReloadReady DEF PoolsOK, Pool
    <2>2. active \in PoolIds /\ candidate[c] \in PoolIds \ {active}
      BY <1>4, ReloadReady
    <2>3. /\ pool' \in [PoolIds -> Pool]
          /\ loaded' = [loaded EXCEPT ![pool[candidate[c]].name] = candidate[c]]
      BY <1>0, <1>4, <2>2, CommitReloadEffect
    <2> QED
      BY <1>0, <2>1, <2>2, <2>3 DEF PoolsOK
  <1>5. ASSUME NEW c \in Calls, Repin(c) PROVE PoolsOK'
    BY <1>0, <1>1, <1>5, ReleaseReady, ReleaseEffect DEF Repin, PoolsOK
  <1>6. ASSUME NEW c \in Calls, FailReload(c) PROVE PoolsOK'
    BY <1>0, <1>6, Places, DiscardEffect DEF FailReload, PoolsOK, PlaceInv
  <1>7. ASSUME NEW c \in Calls, EnterSwitch(c) PROVE PoolsOK'
    <2>1. loaded[target[c]] # None => loaded[target[c]] \in PoolIds
      BY <1>0 DEF PoolsOK, TypeOK
    <2> QED
      BY <1>0, <1>7, <2>1, AcquireEffect DEF EnterSwitch, PoolsOK
  <1>8. ASSUME NEW c \in Calls, SwitchOpens(c) PROVE PoolsOK'
    <2>1. target[c] \in Targets /\ specPath[target[c]] \in Generations
      BY DEF TypeOK
    <2>2. PICK p \in PoolIds :
              pool' = [pool EXCEPT ![p] = Opened(target[c], specPath[target[c]])]
      BY <1>8 DEF SwitchOpens
    <2>3. UNCHANGED loaded
      BY <1>8 DEF SwitchOpens
    <2> QED
      BY <1>0, <2>1, <2>2, <2>3, OpenEffect DEF PoolsOK
  <1>9. ASSUME NEW c \in Calls, CommitSwitch(c) PROVE PoolsOK'
    BY <1>0, <1>9, SwitchReady, CommitSwitchEffect DEF PoolsOK
  <1>10. ASSUME NEW c \in Calls, FailSwitch(c) PROVE PoolsOK'
    BY <1>0, <1>10, ReleaseReady, ReleaseEffect, DiscardEffect DEF FailSwitch, PoolsOK
  <1>11. ASSUME NEW c \in Calls, ReleasePin(c) PROVE PoolsOK'
    BY <1>0, <1>1, <1>11, ReleaseReady, ReleaseEffect DEF ReleasePin, PoolsOK
  <1>12. ASSUME NEW c \in Calls, ReleaseLease(c) PROVE PoolsOK'
    BY <1>0, <1>12, ReleaseReady, ReleaseEffect DEF ReleaseLease, PoolsOK
  <1>13. CASE Close
    BY <1>0, <1>13, CloseEffect DEF PoolsOK
  <1>14. ASSUME NEW c \in Calls,
                \/ CheckBinding(c) \/ EnterReload(c) \/ ReloadNothing(c)
                \/ \E n \in Targets : BeginSwitch(c, n)
                \/ SwitchMissesFile(c) \/ AbandonSwitch(c) \/ FailOpen(c)
                \/ RefreshFull(c) \/ EndHandler(c)
         PROVE  PoolsOK'
    BY <1>1, <1>14 DEF CheckBinding, EnterReload, ReloadNothing, BeginSwitch, SwitchMissesFile,
         AbandonSwitch, FailOpen, RefreshFull, EndHandler, managerVars
  <1>15. ASSUME NEW n \in Targets, Publish(n) PROVE PoolsOK'
    BY <1>1, <1>15 DEF Publish, managerVars
  <1>16. CASE Terminated
    BY <1>1, <1>16 DEF Terminated, vars, managerVars
  <1> QED
    BY <1>2, <1>3, <1>4, <1>5, <1>6, <1>7, <1>8, <1>9, <1>10, <1>11, <1>12, <1>13, <1>14,
       <1>15, <1>16 DEF Next, Call

\* TypeOK in parts.
FilesOK == published \in [Targets -> Generations] /\ files \subseteq Files

ControlOK ==
    /\ active \in PoolIds \cup {None}
    /\ specPath \in [Targets -> Generations]
    /\ opening \in Nat /\ epoch \in Nat
    /\ gate \in Calls \cup {Nobody} /\ closed \in BOOLEAN
    /\ pc \in [Calls -> Steps]
    /\ lease \in [Calls -> PoolIds \cup {None}]
    /\ leaseEpoch \in [Calls -> Nat]
    /\ bound \in [Calls -> PoolIds \cup {None}]
    /\ pin \in [Calls -> PoolIds \cup {None}]
    /\ target \in [Calls -> Targets]
    /\ candidate \in [Calls -> PoolIds \cup {None}]
    /\ switched \in [Calls -> {"no", "unchanged", "over_budget", "database_missing",
                              "failed", "ready", "refreshed"}]

\* Files have names and generations.
LEMMA FilesStep == ASSUME Inv, Next PROVE FilesOK'
  <1> USE DEF Inv, TypeOK, FilesOK
  <1>1. ASSUME NEW c \in Calls, Acquire(c) PROVE FilesOK'
    BY <1>1 DEF Acquire, fileVars
  <1>2. ASSUME NEW c \in Calls, CheckBinding(c) PROVE FilesOK'
    BY <1>2 DEF CheckBinding, fileVars
  <1>3. ASSUME NEW c \in Calls, EnterReload(c) PROVE FilesOK'
    BY <1>3 DEF EnterReload, fileVars
  <1>4. ASSUME NEW c \in Calls, ReloadNothing(c) PROVE FilesOK'
    BY <1>4 DEF ReloadNothing, fileVars
  <1>5. ASSUME NEW c \in Calls, ReloadOpens(c) PROVE FilesOK'
    BY <1>5 DEF ReloadOpens, fileVars
  <1>6. ASSUME NEW c \in Calls, CommitReload(c) PROVE FilesOK'
    BY <1>6, ReloadReady, CommitReloadEffect, Typed DEF CommitReload
  <1>7. ASSUME NEW c \in Calls, Repin(c) PROVE FilesOK'
    BY <1>7, ReleaseReady, ReleaseEffect, Typed DEF Repin
  <1>8. ASSUME NEW c \in Calls, FailReload(c) PROVE FilesOK'
    BY <1>8 DEF FailReload, fileVars
  <1>9. ASSUME NEW c \in Calls, NEW n \in Targets, BeginSwitch(c, n) PROVE FilesOK'
    BY <1>9 DEF BeginSwitch, fileVars
  <1>10. ASSUME NEW c \in Calls, EnterSwitch(c) PROVE FilesOK'
    BY <1>10 DEF EnterSwitch, fileVars
  <1>11. ASSUME NEW c \in Calls, SwitchOpens(c) PROVE FilesOK'
    BY <1>11 DEF SwitchOpens, fileVars
  <1>12. ASSUME NEW c \in Calls, SwitchMissesFile(c) PROVE FilesOK'
    BY <1>12 DEF SwitchMissesFile, fileVars
  <1>13. ASSUME NEW c \in Calls, CommitSwitch(c) PROVE FilesOK'
    BY <1>13 DEF CommitSwitch, fileVars
  <1>14. ASSUME NEW c \in Calls, AbandonSwitch(c) PROVE FilesOK'
    BY <1>14 DEF AbandonSwitch, fileVars
  <1>15. ASSUME NEW c \in Calls, FailOpen(c) PROVE FilesOK'
    BY <1>15 DEF FailOpen, fileVars
  <1>16. ASSUME NEW c \in Calls, FailSwitch(c) PROVE FilesOK'
    BY <1>16, ReleaseReady, ReleaseEffect, Typed DEF FailSwitch
  <1>17. ASSUME NEW c \in Calls, RefreshFull(c) PROVE FilesOK'
    <2>1. pool[bound[c]].name \in Targets
      BY <1>17, Places DEF RefreshFull
    <2>2. published[pool[bound[c]].name] + 1 \in Generations
      BY <1>17 DEF RefreshFull
    <2> QED
      BY <1>17, <2>1, <2>2 DEF RefreshFull, Files
  <1>19. ASSUME NEW c \in Calls, EndHandler(c) PROVE FilesOK'
    BY <1>19 DEF EndHandler, fileVars
  <1>20. ASSUME NEW c \in Calls, ReleasePin(c) PROVE FilesOK'
    BY <1>20, ReleaseReady, ReleaseEffect, Typed DEF ReleasePin
  <1>21. ASSUME NEW c \in Calls, ReleaseLease(c) PROVE FilesOK'
    BY <1>21, ReleaseReady, ReleaseEffect, Typed DEF ReleaseLease
  <1>22. CASE Close
    BY <1>22 DEF Close, fileVars
  <1>23. ASSUME NEW n \in Targets, Publish(n) PROVE FilesOK'
    <2>1. published[n] + 1 \in Generations
      BY <1>23 DEF Publish
    <2> QED
      BY <1>23, <2>1 DEF Publish, Files
  <1>24. CASE Terminated
    BY <1>24 DEF Terminated, fileVars, vars
  <1> QED
    BY <1>1, <1>2, <1>3, <1>4, <1>5, <1>6, <1>7, <1>8, <1>9, <1>10, <1>11, <1>12, <1>13,
       <1>14, <1>15, <1>16, <1>17, <1>19, <1>20, <1>21, <1>22, <1>23, <1>24 DEF Next, Call

\* So do the others.
LEMMA ControlStep == ASSUME Inv, Next PROVE ControlOK'
  <1> USE DEF Inv, TypeOK, ControlOK, Steps, IsReserved
  <1>1. ASSUME NEW c \in Calls, Acquire(c) PROVE ControlOK'
    BY <1>1, ActiveReady DEF Acquire, Goto
  <1>2. ASSUME NEW c \in Calls, CheckBinding(c) PROVE ControlOK'
    BY <1>2 DEF CheckBinding, managerVars, Goto
  <1>3. ASSUME NEW c \in Calls, EnterReload(c) PROVE ControlOK'
    BY <1>3 DEF EnterReload, Goto
  <1>4. ASSUME NEW c \in Calls, ReloadNothing(c) PROVE ControlOK'
    BY <1>4, ActiveReady DEF ReloadNothing, Goto
  <1>5. ASSUME NEW c \in Calls, ReloadOpens(c) PROVE ControlOK'
    BY <1>5 DEF ReloadOpens, Goto
  <1>6. ASSUME NEW c \in Calls, CommitReload(c) PROVE ControlOK'
    <2>1. /\ pool[candidate[c]].name \in Targets /\ pool[candidate[c]].gen \in Generations
          /\ candidate[c] \in PoolIds
      BY <1>6, ReloadReady
    <2> QED
      BY <1>6, <2>1 DEF CommitReload, Goto, Activate
  <1>7. ASSUME NEW c \in Calls, Repin(c) PROVE ControlOK'
    BY <1>7 DEF Repin, Goto
  <1>8. ASSUME NEW c \in Calls, FailReload(c) PROVE ControlOK'
    BY <1>8 DEF FailReload, Goto
  <1>9. ASSUME NEW c \in Calls, NEW n \in Targets, BeginSwitch(c, n) PROVE ControlOK'
    BY <1>9 DEF BeginSwitch, managerVars, Goto
  <1>10. ASSUME NEW c \in Calls, EnterSwitch(c) PROVE ControlOK'
    <2>1. target[c] \in Targets /\ loaded[target[c]] \in PoolIds \cup {None}
      OBVIOUS
    <2>2. /\ opening' \in {opening, opening + 1} /\ gate' \in {gate, c}
          /\ candidate' \in {candidate, [candidate EXCEPT ![c] = loaded[target[c]]]}
          /\ pc' \in {[pc EXCEPT ![c] = s] : s \in {"handle", "commit_switch", "open"}}
          /\ switched' \in {switched} \cup {[switched EXCEPT ![c] = s] :
                                              s \in {"unchanged", "over_budget"}}
      BY <1>10 DEF EnterSwitch, FinishSwitch, Goto
    <2>3. UNCHANGED <<active, specPath, epoch, closed, lease, leaseEpoch, bound, pin, target>>
      BY <1>10 DEF EnterSwitch
    <2> QED
      BY <2>1, <2>2, <2>3
  <1>11. ASSUME NEW c \in Calls, SwitchOpens(c) PROVE ControlOK'
    BY <1>11 DEF SwitchOpens, Goto
  <1>12. ASSUME NEW c \in Calls, SwitchMissesFile(c) PROVE ControlOK'
    BY <1>12, OpeningReady DEF SwitchMissesFile, FinishSwitch, Goto
  <1>13. ASSUME NEW c \in Calls, CommitSwitch(c) PROVE ControlOK'
    BY <1>13, OpeningReady, SwitchReady DEF CommitSwitch, FinishSwitch, ReturnReservation,
       Activate, Goto
  <1>14. ASSUME NEW c \in Calls, AbandonSwitch(c) PROVE ControlOK'
    BY <1>14 DEF AbandonSwitch, managerVars, FinishSwitch, Goto
  <1>15. ASSUME NEW c \in Calls, FailOpen(c) PROVE ControlOK'
    BY <1>15, OpeningReady DEF FailOpen, FinishSwitch, Goto
  <1>16. ASSUME NEW c \in Calls, FailSwitch(c) PROVE ControlOK'
    BY <1>16, OpeningReady DEF FailSwitch, FinishSwitch, ReturnReservation, Goto
  <1>17. ASSUME NEW c \in Calls, RefreshFull(c) PROVE ControlOK'
    BY <1>17 DEF RefreshFull, managerVars, Goto
  <1>19. ASSUME NEW c \in Calls, EndHandler(c) PROVE ControlOK'
    BY <1>19 DEF EndHandler, managerVars, Goto
  <1>20. ASSUME NEW c \in Calls, ReleasePin(c) PROVE ControlOK'
    BY <1>20 DEF ReleasePin, Goto
  <1>21. ASSUME NEW c \in Calls, ReleaseLease(c) PROVE ControlOK'
    BY <1>21 DEF ReleaseLease, Goto
  <1>22. CASE Close
    BY <1>22 DEF Close, callVars
  <1>23. ASSUME NEW n \in Targets, Publish(n) PROVE ControlOK'
    BY <1>23 DEF Publish, managerVars, callVars
  <1>24. CASE Terminated
    BY <1>24 DEF Terminated, managerVars, callVars, vars
  <1> QED
    BY <1>1, <1>2, <1>3, <1>4, <1>5, <1>6, <1>7, <1>8, <1>9, <1>10, <1>11, <1>12, <1>13,
       <1>14, <1>15, <1>16, <1>17, <1>19, <1>20, <1>21, <1>22, <1>23, <1>24 DEF Next, Call

\* A call refers to what its place says.
LEMMA PlaceStep == ASSUME Inv, Next PROVE PlaceInv'
  <1> USE DEF Inv, TypeOK, PlaceInv
  <1>1. ASSUME NEW c \in Calls, Acquire(c) PROVE PlaceInv'
    BY <1>1, ActiveReady, LeaseAssumption DEF Acquire, Goto
  <1>2. ASSUME NEW c \in Calls, CheckBinding(c) PROVE PlaceInv'
    BY <1>2 DEF CheckBinding, Goto
  <1>3. ASSUME NEW c \in Calls, EnterReload(c) PROVE PlaceInv'
    BY <1>3 DEF EnterReload, Goto
  <1>4. ASSUME NEW c \in Calls, ReloadNothing(c) PROVE PlaceInv'
    BY <1>4, ActiveReady, LeaseAssumption DEF ReloadNothing, Goto
  <1>5. ASSUME NEW c \in Calls, ReloadOpens(c) PROVE PlaceInv'
    BY <1>5, LeaseAssumption DEF ReloadOpens, Goto
  <1>6. ASSUME NEW c \in Calls, CommitReload(c) PROVE PlaceInv'
    BY <1>6, ReloadReady, LeaseAssumption DEF CommitReload, Goto
  <1>7. ASSUME NEW c \in Calls, Repin(c) PROVE PlaceInv'
    BY <1>7, Places, LeaseAssumption DEF Repin, Goto
  <1>8. ASSUME NEW c \in Calls, FailReload(c) PROVE PlaceInv'
    BY <1>8 DEF FailReload, Goto
  <1>9. ASSUME NEW c \in Calls, NEW n \in Targets, BeginSwitch(c, n) PROVE PlaceInv'
    BY <1>9 DEF BeginSwitch, Goto
  <1>10. ASSUME NEW c \in Calls, EnterSwitch(c) PROVE PlaceInv'
    BY <1>10, LeaseAssumption DEF EnterSwitch, Goto, FinishSwitch, Goto
  <1>11. ASSUME NEW c \in Calls, SwitchOpens(c) PROVE PlaceInv'
    BY <1>11, LeaseAssumption DEF SwitchOpens, Goto
  <1>12. ASSUME NEW c \in Calls, SwitchMissesFile(c) PROVE PlaceInv'
    BY <1>12 DEF SwitchMissesFile, FinishSwitch, Goto
  <1>13. ASSUME NEW c \in Calls, CommitSwitch(c) PROVE PlaceInv'
    BY <1>13 DEF CommitSwitch, FinishSwitch, Goto
  <1>14. ASSUME NEW c \in Calls, AbandonSwitch(c) PROVE PlaceInv'
    BY <1>14 DEF AbandonSwitch, FinishSwitch, Goto
  <1>15. ASSUME NEW c \in Calls, FailOpen(c) PROVE PlaceInv'
    BY <1>15 DEF FailOpen, FinishSwitch, Goto
  <1>16. ASSUME NEW c \in Calls, FailSwitch(c) PROVE PlaceInv'
    BY <1>16 DEF FailSwitch, FinishSwitch, Goto
  <1>17. ASSUME NEW c \in Calls, RefreshFull(c) PROVE PlaceInv'
    BY <1>17 DEF RefreshFull, Goto
  <1>19. ASSUME NEW c \in Calls, EndHandler(c) PROVE PlaceInv'
    BY <1>19 DEF EndHandler, Goto
  <1>20. ASSUME NEW c \in Calls, ReleasePin(c) PROVE PlaceInv'
    BY <1>20 DEF ReleasePin, Goto
  <1>21. ASSUME NEW c \in Calls, ReleaseLease(c) PROVE PlaceInv'
    BY <1>21 DEF ReleaseLease, Goto
  <1>22. CASE Close
    BY <1>22 DEF Close, callVars
  <1>23. ASSUME NEW n \in Targets, Publish(n) PROVE PlaceInv'
    BY <1>23 DEF Publish, callVars
  <1>24. CASE Terminated
    BY <1>24 DEF Terminated, callVars, vars
  <1> QED
    BY <1>1, <1>2, <1>3, <1>4, <1>5, <1>6, <1>7, <1>8, <1>9, <1>10, <1>11, <1>12, <1>13,
       <1>14, <1>15, <1>16, <1>17, <1>19, <1>20, <1>21, <1>22, <1>23, <1>24 DEF Next, Call

\* Only the holder of the gate is past the wait for it.
LEMMA GateStep == ASSUME Inv, Next PROVE GateInv'
  <1> USE DEF Inv, TypeOK, GateInv, Gated
  <1>1. ASSUME NEW c \in Calls, Acquire(c) PROVE GateInv'
    BY <1>1 DEF Acquire, Goto
  <1>2. ASSUME NEW c \in Calls, CheckBinding(c) PROVE GateInv'
    BY <1>2 DEF CheckBinding, managerVars, Goto
  <1>3. ASSUME NEW c \in Calls, EnterReload(c) PROVE GateInv'
    BY <1>3, LeaseAssumption DEF EnterReload, Goto
  <1>4. ASSUME NEW c \in Calls, ReloadNothing(c) PROVE GateInv'
    BY <1>4, LeaseAssumption DEF ReloadNothing, Goto
  <1>5. ASSUME NEW c \in Calls, ReloadOpens(c) PROVE GateInv'
    BY <1>5 DEF ReloadOpens, Goto
  <1>6. ASSUME NEW c \in Calls, CommitReload(c) PROVE GateInv'
    BY <1>6 DEF CommitReload, Goto
  <1>7. ASSUME NEW c \in Calls, Repin(c) PROVE GateInv'
    BY <1>7 DEF Repin, Goto
  <1>8. ASSUME NEW c \in Calls, FailReload(c) PROVE GateInv'
    BY <1>8 DEF FailReload, Goto
  <1>9. ASSUME NEW c \in Calls, NEW n \in Targets, BeginSwitch(c, n) PROVE GateInv'
    BY <1>9 DEF BeginSwitch, managerVars, Goto
  <1>10. ASSUME NEW c \in Calls, EnterSwitch(c) PROVE GateInv'
    BY <1>10, LeaseAssumption DEF EnterSwitch, Goto, FinishSwitch, Goto
  <1>11. ASSUME NEW c \in Calls, SwitchOpens(c) PROVE GateInv'
    BY <1>11 DEF SwitchOpens, Goto
  <1>12. ASSUME NEW c \in Calls, SwitchMissesFile(c) PROVE GateInv'
    BY <1>12 DEF SwitchMissesFile, FinishSwitch, Goto
  <1>13. ASSUME NEW c \in Calls, CommitSwitch(c) PROVE GateInv'
    BY <1>13 DEF CommitSwitch, FinishSwitch, Goto
  <1>14. ASSUME NEW c \in Calls, AbandonSwitch(c) PROVE GateInv'
    BY <1>14 DEF AbandonSwitch, managerVars, FinishSwitch, Goto
  <1>15. ASSUME NEW c \in Calls, FailOpen(c) PROVE GateInv'
    BY <1>15 DEF FailOpen, FinishSwitch, Goto
  <1>16. ASSUME NEW c \in Calls, FailSwitch(c) PROVE GateInv'
    BY <1>16 DEF FailSwitch, FinishSwitch, Goto
  <1>17. ASSUME NEW c \in Calls, RefreshFull(c) PROVE GateInv'
    BY <1>17 DEF RefreshFull, managerVars, Goto
  <1>19. ASSUME NEW c \in Calls, EndHandler(c) PROVE GateInv'
    BY <1>19 DEF EndHandler, managerVars, Goto
  <1>20. ASSUME NEW c \in Calls, ReleasePin(c) PROVE GateInv'
    BY <1>20 DEF ReleasePin, Goto
  <1>21. ASSUME NEW c \in Calls, ReleaseLease(c) PROVE GateInv'
    BY <1>21 DEF ReleaseLease, Goto
  <1>22. CASE Close
    BY <1>22 DEF Close, callVars
  <1>23. ASSUME NEW n \in Targets, Publish(n) PROVE GateInv'
    BY <1>23 DEF Publish, managerVars, callVars
  <1>24. CASE Terminated
    BY <1>24 DEF Terminated, managerVars, callVars, vars
  <1> QED
    BY <1>1, <1>2, <1>3, <1>4, <1>5, <1>6, <1>7, <1>8, <1>9, <1>10, <1>11, <1>12, <1>13,
       <1>14, <1>15, <1>16, <1>17, <1>19, <1>20, <1>21, <1>22, <1>23, <1>24 DEF Next, Call

-----------------------------------------------------------------------------
(***************************************************************************)
(* The register, by what a step does to the pools.                         *)
(***************************************************************************)
Others(c) == \A d \in Calls \ {c} : Bystander(d)

\* A step of one call leaves the fresh candidates of the others fresh.
LEMMA FreshStable ==
    ASSUME NEW c \in Calls, Others(c)
    PROVE  \A d \in Calls \ {c} : (IsFresh(d)' <=> IsFresh(d))
  BY DEF Others, Bystander, IsFresh

\* A call outside the commits, before and after the step.
Outside(c) ==
    /\ pc[c] \notin {"commit_reload", "commit_switch"}
    /\ pc'[c] \notin {"commit_reload", "commit_switch"}
    /\ pc'[c] = "open" /\ ~closed => pool[active].name # target'[c]

\* A step outside the commits that touches neither pools nor register.
LEMMA RegisterQuiet ==
    ASSUME Inv, NEW c \in Calls, Others(c), Outside(c),
           UNCHANGED <<pool, loaded, active, closed>>
    PROVE  RegisterInv'
  <1> USE DEF Inv, RegisterInv
  <1>1. \A d \in Calls \ {c} : (IsFresh(d)' <=> IsFresh(d))
    BY FreshStable
  <1>2. ~IsFresh(c) /\ ~IsFresh(c)'
    BY DEF IsFresh, Outside
  <1>3. ASSUME NEW d \in Calls \ {c} PROVE CandidateOK(d)'
    <2>1. CandidateOK(d) /\ Bystander(d)
      BY <1>3 DEF CandidateInv, Others
    <2> QED
      BY <1>1, <2>1 DEF CandidateOK, Bystander
  <1>4. CandidateOK(c)'
    BY <1>2 DEF CandidateOK, Outside
  <1>5. RetiredInv'
    BY <1>1, <1>2 DEF RetiredInv, Others, Bystander
  <1>6. LoadedInv' /\ ActiveIsUsable' /\ HeldPoolsAreOpen' /\ (closed => active = None)'
    BY DEF LoadedInv, ActiveIsUsable, HeldPoolsAreOpen
  <1> QED
    BY <1>3, <1>4, <1>5, <1>6 DEF CandidateInv

\* A reference is taken on an open pool that is nobody's fresh candidate.
LEMMA RegisterAcquire ==
    ASSUME Inv, NEW c \in Calls, NEW p \in PoolIds, Others(c),
           pool[p].state = "open", \A d \in Calls : IsFresh(d) => candidate[d] # p,
           pool' = [pool EXCEPT ![p].refs = @ + 1],
           UNCHANGED <<loaded, active, closed>>,
           ~IsFresh(c), ~IsFresh(c)', CandidateOK(c)'
    PROVE  RegisterInv'
  <1> USE DEF Inv, RegisterInv
  <1>0. PoolsOK
    BY Typed
  <1>1. \A d \in Calls \ {c} : (IsFresh(d)' <=> IsFresh(d))
    BY FreshStable
  <1>2. /\ pool' \in [PoolIds -> Pool]
        /\ \A q \in PoolIds \ {p} : pool'[q] = pool[q]
        /\ pool'[p].refs = pool[p].refs + 1 /\ pool'[p].name = pool[p].name
        /\ pool'[p].retired = pool[p].retired /\ pool'[p].state = "open"
    BY <1>0, AcquireEffect DEF KeepsPools
  <1>3. pool[p].refs \in Nat /\ pool'[p].refs > 0
    BY <1>0, <1>2 DEF PoolsOK, Pool
  <1>4. /\ \A q \in PoolIds : pool'[q].name = pool[q].name /\ pool'[q].state = pool[q].state
                              /\ pool'[q].retired = pool[q].retired
        /\ \A q \in PoolIds \ {p} : pool'[q].refs = pool[q].refs
    BY <1>2
  <1>5. LoadedInv' /\ ActiveIsUsable' /\ (closed => active = None)'
    BY <1>0, <1>4, ActiveReady DEF LoadedInv, ActiveIsUsable, PoolsOK
  <1>6. HeldPoolsAreOpen'
    BY <1>2, <1>4 DEF HeldPoolsAreOpen
  <1>7. RetiredInv'
    BY <1>1, <1>3, <1>4 DEF RetiredInv, Others, Bystander
  <1>8. ASSUME NEW d \in Calls \ {c} PROVE CandidateOK(d)'
    <2>1. CandidateOK(d) /\ Bystander(d)
      BY <1>8 DEF CandidateInv, Others
    <2>2. pc[d] \in {"commit_reload", "commit_switch"} => candidate[d] \in PoolIds
      BY <1>8, Places
    <2>3. ~closed => active \in PoolIds
      BY ActiveReady
    <2>4. IsFresh(d) => pc[d] \in {"commit_reload", "commit_switch"}
      BY DEF IsFresh
    <2> QED
      BY <1>1, <1>4, <2>1, <2>2, <2>3, <2>4 DEF CandidateOK, Bystander
  <1> QED
    BY <1>5, <1>6, <1>7, <1>8 DEF CandidateInv

\* A pool is opened for call c.
LEMMA RegisterOpen ==
    ASSUME Inv, NEW c \in Calls, NEW p \in PoolIds, NEW n \in Targets, NEW g \in Generations,
           Others(c), ~IsFresh(c),
           pool[p].state = "unused", pool' = [pool EXCEPT ![p] = Opened(n, g)],
           UNCHANGED <<loaded, active, closed>>,
           candidate'[c] = p,
           \/ pc'[c] = "commit_reload" /\ (~closed => n = pool[active].name)
           \/ pc'[c] = "commit_switch" /\ target'[c] = n /\ (~closed => n # pool[active].name)
    PROVE  RegisterInv'
  <1> USE DEF Inv, RegisterInv
  <1>0. PoolsOK /\ None \notin PoolIds
    BY Typed, LeaseAssumption
  <1>1. \A d \in Calls \ {c} : (IsFresh(d)' <=> IsFresh(d))
    BY FreshStable
  <1>2. /\ pool' \in [PoolIds -> Pool]
        /\ \A q \in PoolIds \ {p} : pool'[q] = pool[q]
        /\ pool'[p].name = n /\ pool'[p].state = "open"
        /\ pool'[p].refs = 0 /\ ~pool'[p].retired
    BY <1>0, OpenEffect DEF KeepsPools
  <1>3. /\ \A m \in Targets : loaded[m] # p
        /\ active # p
    BY <1>0 DEF LoadedInv, ActiveIsUsable
  <1>4. LoadedInv'
    BY <1>0, <1>2, <1>3 DEF LoadedInv, PoolsOK
  <1>5. ActiveIsUsable' /\ (closed => active = None)'
    BY <1>2, <1>3, ActiveReady DEF ActiveIsUsable
  <1>6. HeldPoolsAreOpen'
    BY <1>2 DEF HeldPoolsAreOpen
  <1>7. ASSUME NEW d \in Calls \ {c} PROVE CandidateOK(d)'
    <2>1. CandidateOK(d) /\ Bystander(d)
      BY <1>7 DEF CandidateInv, Others
    <2>2. pc[d] \in {"commit_reload", "commit_switch"} => candidate[d] \in PoolIds \ {p}
      <3>1. ASSUME pc[d] \in {"commit_reload", "commit_switch"} PROVE candidate[d] \in PoolIds
        BY <1>7, <3>1, Places
      <3>2. pc[d] \in {"commit_reload", "commit_switch"} /\ ~IsFresh(d) =>
                d \in PinnedBy(candidate[d])
        BY <1>7 DEF PinnedBy, IsFresh
      <3>3. pc[d] \in {"commit_reload", "commit_switch"} => pool[candidate[d]].state = "open"
        BY <1>7, <2>1, <3>1, <3>2, Held DEF HeldPoolsAreOpen, CandidateOK
      <3> QED
        BY <3>1, <3>3
    <2>3. ~closed => active \in PoolIds \ {p}
      BY <1>3, ActiveReady
    <2>4. IsFresh(d) => pc[d] \in {"commit_reload", "commit_switch"}
      BY DEF IsFresh
    <2> QED
      BY <1>1, <1>2, <2>1, <2>2, <2>3, <2>4 DEF CandidateOK, Bystander
  <1>8. CandidateOK(c)'
    <2>1. ~closed => active \in PoolIds \ {p}
      BY <1>3, ActiveReady
    <2> QED
      BY <1>2, <1>3, <2>1 DEF CandidateOK
  <1>9. RetiredInv'
    <2>1. IsFresh(c)'
      <3>1. pc'[c] = "commit_switch" => loaded'[target'[c]] # candidate'[c]
        BY <1>3
      <3> QED
        BY <3>1 DEF IsFresh, IsNewlyOpened
    <2> QED
      BY <1>1, <1>2, <2>1 DEF RetiredInv, Others, Bystander
  <1> QED
    BY <1>4, <1>5, <1>6, <1>7, <1>8, <1>9 DEF CandidateInv

\* The fresh candidate of c is closed.
LEMMA RegisterDiscard ==
    ASSUME Inv, NEW c \in Calls, Others(c), IsFresh(c),
           pool' = [pool EXCEPT ![candidate[c]].state = "closed"],
           UNCHANGED <<loaded, active, closed>>,
           pc'[c] \notin {"commit_reload", "commit_switch", "open"}
    PROVE  RegisterInv'
  <1> USE DEF Inv, RegisterInv
  <1> DEFINE p == candidate[c]
  <1>0. PoolsOK /\ p \in PoolIds /\ None \notin PoolIds
    BY Typed, Places, LeaseAssumption DEF IsFresh
  <1>1. \A d \in Calls \ {c} : (IsFresh(d)' <=> IsFresh(d))
    BY FreshStable
  <1>2. /\ \A q \in PoolIds \ {p} : pool'[q] = pool[q]
        /\ pool'[p].refs = pool[p].refs /\ pool'[p].state = "closed"
        /\ pool'[p].name = pool[p].name
    BY <1>0, DiscardEffect DEF KeepsPools
  <1>3. pool[p].refs = 0 /\ loaded[pool[p].name] # p /\ active # p
    BY DEF CandidateInv, CandidateOK
  <1>4. \A n \in Targets : loaded[n] # p
    BY <1>0, <1>3 DEF LoadedInv, PoolsOK
  <1>5. \A d \in Calls \ {c} : pc[d] \notin {"commit_reload", "commit_switch", "open"}
    BY DEF IsFresh, GateInv, Gated
  <1>6. ASSUME NEW d \in Calls PROVE pc'[d] \notin {"commit_reload", "commit_switch", "open"}
    BY <1>5, <1>6 DEF Others, Bystander
  <1>7. CandidateInv'
    BY <1>6 DEF CandidateInv, CandidateOK, IsFresh
  <1>8. LoadedInv'
    BY <1>0, <1>2, <1>4 DEF LoadedInv, PoolsOK
  <1>9. ActiveIsUsable' /\ (closed => active = None)'
    BY <1>2, <1>3, ActiveReady DEF ActiveIsUsable
  <1>10. HeldPoolsAreOpen'
    BY <1>2, <1>3 DEF HeldPoolsAreOpen
  <1>11. RetiredInv'
    <2>1. \A d \in Calls : IsFresh(d) => d = c
      BY <1>5 DEF IsFresh
    <2> QED
      BY <1>2, <2>1 DEF RetiredInv
  <1> QED
    BY <1>7, <1>8, <1>9, <1>10, <1>11

\* A reference is given back.
LEMMA RegisterRelease ==
    ASSUME Inv, NEW c \in Calls, NEW p \in PoolIds, Others(c), ~IsFresh(c),
           pc'[c] \notin {"commit_reload", "commit_switch", "open"},
           pool[p].refs > 0, release(p), UNCHANGED <<active, closed>>
    PROVE  RegisterInv'
  <1> USE DEF Inv, RegisterInv
  <1>0. PoolsOK /\ None \notin PoolIds
    BY Typed, LeaseAssumption
  <1>1. \A d \in Calls \ {c} : (IsFresh(d)' <=> IsFresh(d))
    BY FreshStable
  <1>2. ~IsFresh(c) /\ ~IsFresh(c)'
    BY DEF IsFresh
  <1> DEFINE last == pool[p].retired /\ pool[p].refs = 1
  <1>3. /\ \A q \in PoolIds \ {p} : pool'[q] = pool[q]
        /\ pool'[p].refs = pool[p].refs - 1 /\ pool'[p].name = pool[p].name
        /\ pool'[p].retired = pool[p].retired
        /\ pool'[p].state = IF last THEN "closed" ELSE pool[p].state
        /\ \A n \in Targets :
               loaded'[n] = IF last /\ loaded[n] = p /\ n = pool[p].name THEN None
                            ELSE loaded[n]
    BY <1>0, ReleaseEffect DEF KeepsPools
  <1>4. pool[p].refs \in Nat /\ pool[p].state = "open"
    BY <1>0 DEF PoolsOK, Pool, HeldPoolsAreOpen
  <1> HIDE DEF last
  <1>5. LoadedInv'
    BY <1>0, <1>3 DEF LoadedInv, PoolsOK
  <1>6. ActiveIsUsable' /\ (closed => active = None)'
    <2>1. ~closed => active \in PoolIds /\ ~pool[active].retired /\ pool[active].name \in Targets
      BY <1>0, ActiveReady DEF ActiveIsUsable, PoolsOK, Pool
    <2>2. active = p /\ ~closed => ~last
      BY <2>1 DEF last
    <2>3. ~closed => loaded'[pool[active].name] = loaded[pool[active].name]
      BY <1>3, <2>1, <2>2 DEF ActiveIsUsable
    <2> QED
      BY <1>3, <2>1, <2>2, <2>3 DEF ActiveIsUsable
  <1>7. HeldPoolsAreOpen'
    BY <1>3, <1>4 DEF HeldPoolsAreOpen, last
  <1>8. \A d \in Calls : IsFresh(d) => candidate[d] \in PoolIds \ {p}
    BY Places DEF CandidateInv, CandidateOK, IsFresh
  <1>9. RetiredInv'
    <2>1. ASSUME NEW q \in PoolIds \ {p}
          PROVE  q = active \/ (\E d \in Calls : IsFresh(d) /\ candidate[d] = q) =>
                     (q = active \/ \E d \in Calls : IsFresh(d) /\ candidate[d] = q)'
      BY <1>1, <1>2 DEF Others, Bystander
    <2>2. pool'[p].state = "open" /\ pool[p].retired => pool'[p].refs > 0
      BY <1>3, <1>4 DEF last
    <2>3. ~pool[p].retired => active = p
      BY <1>4, <1>8 DEF RetiredInv
    <2> QED
      BY <1>3, <2>1, <2>2, <2>3 DEF RetiredInv
  <1>10. ASSUME NEW d \in Calls \ {c} PROVE CandidateOK(d)'
    <2>1. CandidateOK(d) /\ Bystander(d)
      BY <1>10 DEF CandidateInv, Others
    <2>2. pc[d] \in {"commit_reload", "commit_switch"} => candidate[d] \in PoolIds
      BY <1>10, Places
    <2>3. ~closed => active \in PoolIds
      BY ActiveReady
    <2>4. IsFresh(d) => /\ candidate[d] \in PoolIds \ {p}
                        /\ pool[candidate[d]].name \in Targets
                        /\ loaded'[pool[candidate[d]].name] # candidate[d]
      BY <1>0, <1>3, <1>8, <1>10, <2>1 DEF CandidateOK, PoolsOK, Pool
    <2>5. \A q \in PoolIds : pool'[q].name = pool[q].name
      BY <1>3
    <2> QED
      BY <1>1, <1>3, <2>1, <2>2, <2>3, <2>4, <2>5 DEF CandidateOK, Bystander
  <1>11. CandidateOK(c)'
    BY <1>2 DEF CandidateOK
  <1> QED
    BY <1>5, <1>6, <1>7, <1>9, <1>10, <1>11 DEF CandidateInv

\* The pool of a reload becomes active and registered; the old one is retired.
LEMMA RegisterCommitReload ==
    ASSUME Inv, NEW c \in Calls, Others(c), CommitReload(c)
    PROVE  RegisterInv'
  <1> USE DEF Inv, RegisterInv
  <1> DEFINE old == active
             new == candidate[c]
  <1>0. PoolsOK /\ old \in PoolIds /\ new \in PoolIds \ {old} /\ None \notin PoolIds
    BY Typed, ReloadReady, LeaseAssumption
  <1>1. ~closed /\ pc[c] = "commit_reload" /\ active' = new /\ UNCHANGED closed
        /\ pc'[c] = "repin"
    BY DEF CommitReload, Activate, Goto, TypeOK
  <1>2. CandidateOK(c) /\ IsFresh(c)
    BY <1>1 DEF CandidateInv, IsFresh
  <1>3. /\ pool[new].state = "open" /\ pool[new].refs = 0 /\ ~pool[new].retired
        /\ pool[new].name = pool[old].name /\ pool[new].name \in Targets
        /\ loaded[pool[old].name] = old
    BY <1>0, <1>1, <1>2 DEF CandidateOK, ActiveIsUsable, PoolsOK, Pool
  <1>4. /\ \A q \in PoolIds \ {old, new} : pool'[q] = pool[q]
        /\ pool'[old].retired /\ pool'[old].refs = pool[old].refs
        /\ pool'[old].name = pool[old].name
        /\ pool'[old].state = IF pool[old].refs = 0 THEN "closed" ELSE pool[old].state
        /\ pool'[new].refs = 1 /\ pool'[new].name = pool[new].name
        /\ pool'[new].state = pool[new].state /\ pool'[new].retired = pool[new].retired
        /\ loaded' = [loaded EXCEPT ![pool[new].name] = new]
    BY <1>0, CommitReloadEffect DEF KeepsPools
  <1>5. \A d \in Calls : pc'[d] \notin {"commit_reload", "commit_switch", "open"}
    BY <1>1 DEF GateInv, Gated, Others, Bystander
  <1>6. CandidateInv'
    BY <1>5 DEF CandidateInv, CandidateOK, IsFresh
  <1>7. \A n \in Targets \ {pool[new].name} : loaded'[n] = loaded[n] /\ loaded[n] \notin {old, new}
    BY <1>0, <1>2, <1>3, <1>4 DEF LoadedInv, CandidateOK, PoolsOK
  <1>8. LoadedInv'
    BY <1>0, <1>3, <1>4, <1>7 DEF LoadedInv, PoolsOK
  <1>9. ActiveIsUsable' /\ (closed => active = None)'
    BY <1>0, <1>1, <1>3, <1>4 DEF ActiveIsUsable, PoolsOK
  <1>10. HeldPoolsAreOpen'
    BY <1>0, <1>3, <1>4 DEF HeldPoolsAreOpen
  <1>11. RetiredInv'
    <2>1. \A d \in Calls : IsFresh(d) => d = c
      BY <1>1 DEF IsFresh, GateInv, Gated
    <2>2. pool[old].refs \in Nat
      BY <1>0 DEF PoolsOK, Pool
    <2> QED
      BY <1>0, <1>1, <1>3, <1>4, <2>1, <2>2 DEF RetiredInv
  <1> QED
    BY <1>6, <1>8, <1>9, <1>10, <1>11

\* The pool of a switch does, and the old one keeps its name only while held.
LEMMA RegisterCommitSwitch ==
    ASSUME Inv, NEW c \in Calls, Others(c), CommitSwitch(c)
    PROVE  RegisterInv'
  <1> USE DEF Inv, RegisterInv
  <1> DEFINE old == active
             new == candidate[c]
  <1>0. /\ PoolsOK /\ old \in PoolIds /\ new \in PoolIds \ {old} /\ None \notin PoolIds
        /\ target[c] \in Targets /\ pool[old].name # target[c] /\ pool[new].name = target[c]
        /\ IsNewlyOpened(c) \/ pool[new].refs > 0
    BY Typed, SwitchReady, LeaseAssumption
  <1>1. ~closed /\ pc[c] = "commit_switch" /\ active' = new /\ UNCHANGED closed
        /\ pc'[c] = "handle"
    BY DEF CommitSwitch, Activate, FinishSwitch, Goto, TypeOK
  <1>2. pool[new].state = "open" /\ pool[new].refs \in Nat /\ pool[old].refs \in Nat
    BY <1>0, <1>1 DEF CandidateInv, CandidateOK, IsFresh, HeldPoolsAreOpen, PoolsOK, Pool
  <1>3. /\ \A q \in PoolIds \ {old, new} : pool'[q] = pool[q]
        /\ pool'[old].retired /\ pool'[old].refs = pool[old].refs
        /\ pool'[old].name = pool[old].name
        /\ pool'[old].state = IF pool[old].refs = 0 THEN "closed" ELSE pool[old].state
        /\ pool'[new].name = pool[new].name /\ pool'[new].state = pool[new].state
        /\ ~pool'[new].retired
        /\ \A n \in Targets :
               loaded'[n] = IF n = target[c] THEN new
                            ELSE IF n = pool[old].name /\ pool[old].refs = 0 /\ loaded[n] = old
                                 THEN None ELSE loaded[n]
    BY <1>0, CommitSwitchEffect DEF KeepsPools
  <1>4. \A d \in Calls : pc'[d] \notin {"commit_reload", "commit_switch", "open"}
    BY <1>1 DEF GateInv, Gated, Others, Bystander
  <1>5. CandidateInv'
    BY <1>4 DEF CandidateInv, CandidateOK, IsFresh
  <1>6. LoadedInv'
    <2> SUFFICES ASSUME NEW n \in Targets, loaded'[n] # None
                 PROVE  pool'[loaded'[n]].name = n /\ pool'[loaded'[n]].state = "open"
      BY DEF LoadedInv
    <2>1. CASE n = target[c]
      BY <1>0, <1>2, <1>3, <2>1
    <2>2. CASE n # target[c]
      <3>1. loaded'[n] = loaded[n] /\ loaded[n] \in PoolIds /\ pool[loaded[n]].name = n
            /\ pool[loaded[n]].state = "open"
        BY <1>3, <2>2, <1>0 DEF LoadedInv, PoolsOK
      <3>2. loaded[n] # new
        BY <1>0, <2>2, <3>1
      <3>3. loaded[n] = old => pool[old].refs # 0
        BY <1>3, <2>2, <3>1, <1>0
      <3> QED
        BY <1>3, <3>1, <3>2, <3>3
    <2> QED
      BY <2>1, <2>2
  <1>7. ActiveIsUsable' /\ (closed => active = None)'
    BY <1>0, <1>1, <1>2, <1>3 DEF ActiveIsUsable
  <1>8. HeldPoolsAreOpen'
    BY <1>0, <1>2, <1>3 DEF HeldPoolsAreOpen
  <1>9. RetiredInv'
    <2>1. \A d \in Calls : IsFresh(d) => d = c
      BY <1>1 DEF IsFresh, GateInv, Gated
    <2> QED
      BY <1>0, <1>1, <1>2, <1>3, <2>1 DEF RetiredInv
  <1> QED
    BY <1>5, <1>6, <1>7, <1>8, <1>9

\* Closing the manager leaves the places of the calls, and pinned candidates
\* stay registered because they are held.
LEMMA CloseBystanders == ASSUME Inv, Close PROVE \A d \in Calls : Bystander(d)
  <1>0. PoolsOK /\ None \notin PoolIds /\ \A p \in PoolIds : pool[p].refs \in Nat
    BY Typed, LeaseAssumption DEF Inv, PoolsOK, Pool
  <1>1. \A n \in Targets :
            loaded'[n] = IF loaded[n] # None /\ pool[loaded[n]].refs = 0 THEN None ELSE loaded[n]
    BY <1>0, CloseEffect DEF Inv, RegisterInv
  <1>2. UNCHANGED callVars
    BY DEF Close
  <1>3. ASSUME NEW d \in Calls, pc[d] = "commit_switch"
        PROVE  IsNewlyOpened(d)' <=> IsNewlyOpened(d)
    <2>1. candidate[d] \in PoolIds /\ target[d] \in Targets
      BY <1>3, Places DEF Inv, TypeOK
    <2>2. ~IsNewlyOpened(d) => pool[candidate[d]].refs > 0
      BY <1>3, <2>1, Held DEF Inv, PinnedBy
    <2> QED
      BY <1>0, <1>1, <1>2, <2>1, <2>2 DEF IsNewlyOpened, callVars
  <1> QED
    BY <1>2, <1>3 DEF Bystander, callVars

\* What is registered is retired, what nobody holds is closed.
LEMMA RegisterClose == ASSUME Inv, Close PROVE RegisterInv'
  <1> USE DEF Inv, RegisterInv
  <1> DEFINE registered(p) == \E n \in Targets : loaded[n] = p
  <1>0. PoolsOK /\ None \notin PoolIds
    BY Typed, LeaseAssumption
  <1>1. /\ \A p \in PoolIds :
               /\ pool'[p].refs = pool[p].refs /\ pool'[p].name = pool[p].name
               /\ pool'[p].retired = (registered(p) \/ pool[p].retired)
               /\ pool'[p].state = IF registered(p) /\ pool[p].refs = 0 THEN "closed"
                                   ELSE pool[p].state
        /\ \A n \in Targets :
               loaded'[n] = IF loaded[n] # None /\ pool[loaded[n]].refs = 0 THEN None
                            ELSE loaded[n]
    BY <1>0, CloseEffect
  <1>2. closed' /\ active' = None /\ ~closed /\ UNCHANGED <<pc, candidate, target>>
    BY DEF Close, callVars
  <1>3. \A p \in PoolIds : pool[p].refs \in Nat
    BY <1>0 DEF PoolsOK, Pool
  <1>4. LoadedInv'
    BY <1>0, <1>1 DEF LoadedInv, PoolsOK
  <1>5. HeldPoolsAreOpen'
    BY <1>1 DEF HeldPoolsAreOpen
  <1>6. ActiveIsUsable' /\ (closed => active = None)'
    BY <1>2 DEF ActiveIsUsable
  <1>7. ASSUME NEW d \in Calls
        PROVE  /\ IsFresh(d)' <=> IsFresh(d)
               /\ CandidateOK(d)'
    <2>1. /\ CandidateOK(d)
          /\ pc[d] \in {"commit_reload", "commit_switch"} => candidate[d] \in PoolIds
          /\ target[d] \in Targets
      BY <1>7, Places DEF CandidateInv, TypeOK
    <2>2. IsFresh(d)' <=> IsFresh(d)
      BY CloseBystanders DEF Bystander, IsFresh
    <2>3. IsFresh(d) => /\ candidate[d] \in PoolIds /\ pool[candidate[d]].name \in Targets
                        /\ \A n \in Targets : loaded[n] # candidate[d]
      BY <1>0, <2>1 DEF CandidateOK, LoadedInv, PoolsOK, Pool, IsFresh
    <2>4. IsFresh(d) => /\ pool'[candidate[d]].state = "open" /\ pool'[candidate[d]].refs = 0
                        /\ ~pool'[candidate[d]].retired
                        /\ loaded'[pool'[candidate[d]].name] # candidate[d]
                        /\ active' # candidate[d]
      <3> SUFFICES ASSUME IsFresh(d)
                   PROVE  /\ pool'[candidate[d]].state = "open"
                          /\ pool'[candidate[d]].refs = 0
                          /\ ~pool'[candidate[d]].retired
                          /\ loaded'[pool'[candidate[d]].name] # candidate[d]
                          /\ active' # candidate[d]
        OBVIOUS
      <3>1. /\ pool[candidate[d]].state = "open" /\ pool[candidate[d]].refs = 0
            /\ ~pool[candidate[d]].retired /\ ~registered(candidate[d])
        BY <2>1, <2>3 DEF CandidateOK
      <3> HIDE DEF registered
      <3>2. /\ pool'[candidate[d]].state = "open" /\ pool'[candidate[d]].refs = 0
            /\ ~pool'[candidate[d]].retired
            /\ pool'[candidate[d]].name = pool[candidate[d]].name
        BY <1>1, <2>3, <3>1
      <3>3. loaded'[pool[candidate[d]].name] # candidate[d]
        BY <1>0, <1>1, <2>3
      <3> QED
        BY <1>0, <1>2, <2>3, <3>2, <3>3
    <2>5. pc[d] = "commit_switch" => pool'[candidate[d]].name = target[d]
      BY <1>1, <2>1 DEF CandidateOK
    <2> QED
      BY <1>2, <2>2, <2>4, <2>5 DEF CandidateOK
  <1>8. RetiredInv'
    <2>1. registered(active)
      BY <1>0, <1>2, ActiveReady DEF ActiveIsUsable, PoolsOK, Pool
    <2>2. ASSUME NEW p \in PoolIds, pool'[p].state = "open", pool'[p].retired
          PROVE  pool'[p].refs > 0
      <3>1. CASE registered(p)
        BY <1>1, <1>3, <2>2, <3>1
      <3>2. CASE ~registered(p)
        BY <1>1, <2>2, <3>2 DEF RetiredInv
      <3> QED
        BY <3>1, <3>2
    <2>3. ASSUME NEW p \in PoolIds, pool'[p].state = "open", ~pool'[p].retired
          PROVE  \E d \in Calls : IsFresh(d)' /\ candidate'[d] = p
      <3>1. ~registered(p) /\ ~pool[p].retired /\ pool[p].state = "open" /\ active # p
        BY <1>1, <2>1, <2>3
      <3>2. \E d \in Calls : IsFresh(d) /\ candidate[d] = p
        BY <3>1 DEF RetiredInv
      <3> QED
        BY <1>2, <1>7, <3>2
    <2> QED
      BY <2>2, <2>3 DEF RetiredInv
  <1> QED
    BY <1>4, <1>5, <1>6, <1>7, <1>8 DEF CandidateInv

\* Every step keeps the register, the candidates and the retirement of pools.
LEMMA RegisterStep == ASSUME Inv, Next PROVE RegisterInv'
  <1>1. ASSUME NEW c \in Calls,
               \/ CheckBinding(c) \/ EnterReload(c) \/ ReloadNothing(c)
               \/ \E n \in Targets : BeginSwitch(c, n)
               \/ SwitchMissesFile(c) \/ AbandonSwitch(c) \/ FailOpen(c)
               \/ RefreshFull(c) \/ EndHandler(c)
        PROVE  RegisterInv'
    <2>1. Call(c)
      BY <1>1 DEF Call
    <2>2. Outside(c)
      BY <1>1 DEF Inv, TypeOK, Outside, CheckBinding, EnterReload, ReloadNothing, BeginSwitch,
           SwitchMissesFile, AbandonSwitch, FailOpen, RefreshFull, EndHandler,
           FinishSwitch, Goto
    <2>3. UNCHANGED <<pool, loaded, active, closed>>
      BY <1>1 DEF CheckBinding, EnterReload, ReloadNothing, BeginSwitch, SwitchMissesFile,
           AbandonSwitch, FailOpen, RefreshFull, EndHandler, managerVars
    <2> QED
      BY <2>1, <2>2, <2>3, Bystanders, RegisterQuiet DEF Others
  <1>2. ASSUME NEW c \in Calls, Acquire(c) PROVE RegisterInv'
    <2>1. Others(c)
      BY <1>2, Bystanders DEF Call, Others
    <2>2. /\ ~closed /\ pool' = [pool EXCEPT ![active].refs = @ + 1]
          /\ UNCHANGED <<loaded, active, closed>>
          /\ pc[c] = "idle" /\ pc'[c] = "bind"
      BY <1>2 DEF Acquire, Goto, Inv, TypeOK
    <2>3. active \in PoolIds /\ pool[active].state = "open"
      BY <2>2, ActiveReady DEF Inv, RegisterInv, ActiveIsUsable
    <2>4. \A d \in Calls : IsFresh(d) => candidate[d] # active
      BY DEF Inv, RegisterInv, CandidateInv, CandidateOK
    <2>5. ~IsFresh(c) /\ ~IsFresh(c)' /\ CandidateOK(c)'
      BY <2>2 DEF IsFresh, CandidateOK
    <2> QED
      BY <2>1, <2>2, <2>3, <2>4, <2>5, RegisterAcquire
  <1>3. ASSUME NEW c \in Calls, ReloadOpens(c) PROVE RegisterInv'
    <2>1. Others(c)
      BY <1>3, Bystanders DEF Call, Others
    <2>2. /\ ~closed /\ pc[c] = "check" /\ pc'[c] = "commit_reload"
          /\ UNCHANGED <<loaded, active, closed>>
      BY <1>3 DEF ReloadOpens, Goto, Inv, TypeOK
    <2> DEFINE n == pool[active].name
    <2>3. n \in Targets /\ published[n] \in Generations
      BY <2>2, ActiveReady DEF Inv, TypeOK
    <2>4. PICK p \in PoolIds :
              /\ pool[p].state = "unused"
              /\ pool' = [pool EXCEPT ![p] = Opened(n, published[n])]
              /\ candidate' = [candidate EXCEPT ![c] = p]
      BY <1>3 DEF ReloadOpens, IsNextPool
    <2>5. candidate'[c] = p
      BY <2>4 DEF Inv, TypeOK
    <2>6. ~IsFresh(c)
      BY <2>2 DEF IsFresh
    <2> QED
      BY <2>1, <2>2, <2>3, <2>4, <2>5, <2>6, RegisterOpen
  <1>4. ASSUME NEW c \in Calls, CommitReload(c) PROVE RegisterInv'
    BY <1>4, Bystanders, RegisterCommitReload DEF Call, Others
  <1>5. ASSUME NEW c \in Calls, Repin(c) \/ ReleasePin(c) PROVE RegisterInv'
    <2>1. Others(c)
      BY <1>5, Bystanders DEF Call, Others
    <2>2. /\ pc[c] \in {"repin", "unpin"} /\ pc'[c] \in {"handle", "release"}
          /\ UNCHANGED <<active, closed>>
      BY <1>5 DEF Repin, ReleasePin, Goto, Inv, TypeOK
    <2>3. ~IsFresh(c) /\ Outside(c)
      BY <2>2 DEF IsFresh, Outside
    <2>4. CASE pin[c] = None
      <3>1. UNCHANGED <<pool, loaded>>
        BY <1>5, <2>4 DEF Repin, ReleasePin
      <3> QED
        BY <2>1, <2>2, <2>3, <3>1, RegisterQuiet
    <2>5. CASE pin[c] # None
      <3>1. release(pin[c]) /\ pin[c] \in PoolIds /\ pool[pin[c]].refs > 0
        BY <1>5, <2>5, ReleaseReady DEF Repin, ReleasePin
      <3> QED
        BY <2>1, <2>2, <2>3, <3>1, RegisterRelease
    <2> QED
      BY <2>4, <2>5
  <1>6. ASSUME NEW c \in Calls, FailReload(c) PROVE RegisterInv'
    <2>1. Others(c)
      BY <1>6, Bystanders DEF Call, Others
    <2>2. /\ pc[c] \in {"reload", "check", "commit_reload"} /\ pc'[c] \in {"unpin", "handle"}
          /\ UNCHANGED <<loaded, active, closed>>
      BY <1>6 DEF FailReload, Goto, Inv, TypeOK
    <2>3. CASE candidate[c] = None
      <3>1. Outside(c)
        BY <2>2, <2>3 DEF Outside, Inv, PlaceInv
      <3>2. UNCHANGED pool
        BY <1>6, <2>3 DEF FailReload
      <3> QED
        BY <2>1, <2>2, <3>1, <3>2, RegisterQuiet
    <2>4. CASE candidate[c] # None
      <3>1. IsFresh(c)
        BY <2>2, <2>4 DEF IsFresh, Inv, PlaceInv
      <3>2. pool' = [pool EXCEPT ![candidate[c]].state = "closed"]
        BY <1>6, <2>4 DEF FailReload
      <3> QED
        BY <2>1, <2>2, <3>1, <3>2, RegisterDiscard
    <2> QED
      BY <2>3, <2>4
  <1>7. ASSUME NEW c \in Calls, EnterSwitch(c) PROVE RegisterInv'
    <2>1. Others(c)
      BY <1>7, Bystanders DEF Call, Others
    <2> DEFINE p == loaded[target[c]]
    <2>2. /\ pc[c] = "switch" /\ ~closed /\ UNCHANGED <<loaded, active, closed, target>>
          /\ candidate \in [Calls -> PoolIds \cup {None}] /\ pc \in [Calls -> Steps]
      BY <1>7 DEF EnterSwitch, Inv, TypeOK
    <2>3. CASE UNCHANGED pool /\ pc'[c] \in {"handle", "open"}
               /\ (pc'[c] = "open" => pool[active].name # target[c])
      <3>1. Outside(c)
        BY <2>2, <2>3 DEF Outside
      <3> QED
        BY <2>1, <2>2, <2>3, <3>1, RegisterQuiet
    <2>4. CASE /\ pool[active].name # target[c] /\ p # None
               /\ pool' = [pool EXCEPT ![p].refs = @ + 1]
               /\ candidate'[c] = p /\ pc'[c] = "commit_switch"
      <3>1. target[c] \in Targets /\ p \in PoolIds /\ active \in PoolIds
        BY <2>2, <2>4, ActiveReady DEF Inv, TypeOK
      <3>2. pool[p].state = "open" /\ pool[p].name = target[c]
        BY <2>4, <3>1 DEF Inv, RegisterInv, LoadedInv
      <3>3. \A d \in Calls : IsFresh(d) => candidate[d] # p
        BY <3>1, <3>2 DEF Inv, RegisterInv, CandidateInv, CandidateOK
      <3>4. ~IsFresh(c) /\ ~IsFresh(c)'
        BY <2>2, <2>4 DEF IsFresh, IsNewlyOpened
      <3>5. pool'[p].name = pool[p].name /\ pool'[active].name = pool[active].name
        BY <2>4, <3>1, <3>2, Typed, AcquireEffect DEF KeepsPools, Inv
      <3>6. CandidateOK(c)'
        BY <2>2, <2>4, <3>2, <3>4, <3>5 DEF CandidateOK
      <3> QED
        BY <2>1, <2>2, <2>4, <3>1, <3>2, <3>3, <3>4, <3>6, RegisterAcquire
    <2> QED
      BY <1>7, <2>2, <2>3, <2>4 DEF EnterSwitch, FinishSwitch, Goto
  <1>8. ASSUME NEW c \in Calls, SwitchOpens(c) PROVE RegisterInv'
    <2>1. Others(c)
      BY <1>8, Bystanders DEF Call, Others
    <2> DEFINE n == target[c]
    <2>2. /\ pc[c] = "open" /\ pc'[c] = "commit_switch"
          /\ UNCHANGED <<loaded, active, closed, target>>
      BY <1>8 DEF SwitchOpens, Goto, Inv, TypeOK
    <2>3. n \in Targets /\ specPath[n] \in Generations
      BY DEF Inv, TypeOK
    <2>4. PICK p \in PoolIds :
              /\ pool[p].state = "unused"
              /\ pool' = [pool EXCEPT ![p] = Opened(n, specPath[n])]
              /\ candidate' = [candidate EXCEPT ![c] = p]
      BY <1>8 DEF SwitchOpens, IsNextPool
    <2>5. candidate'[c] = p /\ target'[c] = n
      BY <2>2, <2>4 DEF Inv, TypeOK
    <2>6. ~IsFresh(c) /\ (~closed => n # pool[active].name)
      BY <2>2 DEF IsFresh, Inv, RegisterInv, CandidateInv, CandidateOK
    <2> QED
      BY <2>1, <2>2, <2>3, <2>4, <2>5, <2>6, RegisterOpen
  <1>9. ASSUME NEW c \in Calls, CommitSwitch(c) PROVE RegisterInv'
    BY <1>9, Bystanders, RegisterCommitSwitch DEF Call, Others
  <1>10. ASSUME NEW c \in Calls, FailSwitch(c) PROVE RegisterInv'
    <2>1. Others(c)
      BY <1>10, Bystanders DEF Call, Others
    <2>2. /\ pc[c] = "commit_switch" /\ pc'[c] = "handle" /\ UNCHANGED <<active, closed>>
      BY <1>10 DEF FailSwitch, FinishSwitch, Goto, Inv, TypeOK
    <2>3. CASE /\ IsNewlyOpened(c) /\ UNCHANGED loaded
               /\ pool' = [pool EXCEPT ![candidate[c]].state = "closed"]
      <3>1. IsFresh(c)
        BY <2>2, <2>3 DEF IsFresh
      <3> QED
        BY <2>1, <2>2, <2>3, <3>1, RegisterDiscard
    <2>4. CASE ~IsNewlyOpened(c) /\ release(candidate[c])
      <3>1. ~IsFresh(c) /\ candidate[c] \in PoolIds /\ pool[candidate[c]].refs > 0
        BY <1>10, <2>2, <2>4, ReleaseReady DEF IsFresh
      <3> QED
        BY <2>1, <2>2, <2>4, <3>1, RegisterRelease
    <2> QED
      BY <1>10, <2>3, <2>4 DEF FailSwitch
  <1>11. ASSUME NEW c \in Calls, ReleaseLease(c) PROVE RegisterInv'
    <2>1. Others(c)
      BY <1>11, Bystanders DEF Call, Others
    <2>2. /\ pc[c] = "release" /\ pc'[c] = "done" /\ UNCHANGED <<active, closed>>
          /\ release(lease[c]) /\ lease[c] \in PoolIds /\ pool[lease[c]].refs > 0
      BY <1>11, ReleaseReady DEF ReleaseLease, Goto, Inv, TypeOK
    <2>3. ~IsFresh(c)
      BY <2>2 DEF IsFresh
    <2> QED
      BY <2>1, <2>2, <2>3, RegisterRelease
  <1>12. CASE Close
    BY <1>12, RegisterClose
  <1>13. ASSUME UNCHANGED <<managerVars, callVars>> PROVE RegisterInv'
    BY <1>13 DEF managerVars, callVars, Inv, RegisterInv, LoadedInv, ActiveIsUsable,
         CandidateInv, CandidateOK, RetiredInv, HeldPoolsAreOpen, IsFresh, IsNewlyOpened
  <1>14. ASSUME NEW n \in Targets, Publish(n) PROVE RegisterInv'
    BY <1>13, <1>14 DEF Publish
  <1>15. CASE Terminated
    BY <1>13, <1>15 DEF Terminated, vars, managerVars, callVars
  <1> QED
    BY <1>1, <1>2, <1>3, <1>4, <1>5, <1>6, <1>7, <1>8, <1>9, <1>10, <1>11, <1>12, <1>14,
       <1>15 DEF Next, Call

-----------------------------------------------------------------------------
(***************************************************************************)
(* The reference counts.                                                   *)
(***************************************************************************)
\* A step that changes the counts of the pools by what it changes in the places
\* of its call keeps them exact.
LEMMA RefsBalance ==
    ASSUME Inv, NEW c \in Calls, Others(c),
           \A p \in PoolIds :
               /\ pool'[p].refs \in Nat
               /\ pool'[p].refs + Weight(lease[c] = p) + Weight(pin[c] = p)
                                + Weight(c \in PinnedBy(p))
                  = pool[p].refs + Weight(lease'[c] = p) + Weight(pin'[c] = p)
                                 + Weight(c \in PinnedBy(p)')
    PROVE  RefsExact'
  <1> SUFFICES ASSUME NEW p \in PoolIds
               PROVE  pool'[p].refs = Cardinality(Leases(p)') + Cardinality(Pins(p)')
                                      + Cardinality(PinnedBy(p)')
    BY DEF RefsExact, Leases, Pins
  <1>1. pool[p].refs = Cardinality(Leases(p)) + Cardinality(Pins(p)) + Cardinality(PinnedBy(p))
    BY DEF Inv, RefsExact, Leases, Pins
  <1>2. /\ Leases(p) \in SUBSET Calls /\ Pins(p) \in SUBSET Calls
        /\ PinnedBy(p) \in SUBSET Calls
        /\ Leases(p)' \in SUBSET Calls /\ Pins(p)' \in SUBSET Calls
        /\ PinnedBy(p)' \in SUBSET Calls
    BY DEF Leases, Pins, PinnedBy
  <1>3. Leases(p) \ {c} = Leases(p)' \ {c} /\ Pins(p) \ {c} = Pins(p)' \ {c}
    BY DEF Leases, Pins, Others, Bystander
  <1>4. PinnedBy(p) \ {c} = PinnedBy(p)' \ {c}
    <2>1. ASSUME NEW d \in Calls \ {c} PROVE d \in PinnedBy(p) <=> d \in PinnedBy(p)'
      BY <2>1 DEF PinnedBy, Others, Bystander
    <2> QED
      BY <1>2, <2>1
  <1>5. /\ c \in Leases(p) <=> lease[c] = p
        /\ c \in Leases(p)' <=> lease'[c] = p
        /\ c \in Pins(p) <=> pin[c] = p
        /\ c \in Pins(p)' <=> pin'[c] = p
    BY DEF Leases, Pins
  <1>6. /\ Cardinality(Leases(p)) \in Nat /\ Cardinality(Leases(p)') \in Nat
        /\ Cardinality(Leases(p)) + Weight(lease'[c] = p)
               = Cardinality(Leases(p)') + Weight(lease[c] = p)
    <2>1. /\ Cardinality(Leases(p)) \in Nat /\ Cardinality(Leases(p)') \in Nat
          /\ Cardinality(Leases(p)) + Weight(c \in Leases(p)')
                 = Cardinality(Leases(p)') + Weight(c \in Leases(p))
      BY <1>2, <1>3, CountDiffers
    <2> QED
      BY <1>5, <2>1 DEF Weight
  <1>7. /\ Cardinality(Pins(p)) \in Nat /\ Cardinality(Pins(p)') \in Nat
        /\ Cardinality(Pins(p)) + Weight(pin'[c] = p)
               = Cardinality(Pins(p)') + Weight(pin[c] = p)
    <2>1. /\ Cardinality(Pins(p)) \in Nat /\ Cardinality(Pins(p)') \in Nat
          /\ Cardinality(Pins(p)) + Weight(c \in Pins(p)')
                 = Cardinality(Pins(p)') + Weight(c \in Pins(p))
      BY <1>2, <1>3, CountDiffers
    <2> QED
      BY <1>5, <2>1 DEF Weight
  <1>8. /\ Cardinality(PinnedBy(p)) \in Nat /\ Cardinality(PinnedBy(p)') \in Nat
        /\ Cardinality(PinnedBy(p)) + Weight(c \in PinnedBy(p)')
               = Cardinality(PinnedBy(p)') + Weight(c \in PinnedBy(p))
    BY <1>2, <1>4, CountDiffers
  <1>9. \A b : Weight(b) \in {0, 1}
    BY DEF Weight
  <1> HIDE DEF Weight, Leases, Pins, PinnedBy
  <1> QED
    BY <1>1, <1>6, <1>7, <1>8, <1>9

\* A call that is neither before nor after a step in a place that pins.
LEMMA NotPinning ==
    ASSUME NEW c \in Calls, NEW p
    PROVE  /\ pc[c] \notin {"commit_switch", "repin"} => c \notin PinnedBy(p)
           /\ pc'[c] \notin {"commit_switch", "repin"} => c \notin PinnedBy(p)'
  BY DEF PinnedBy

\* A lease adds one reference to its pool and none to another.
LEMMA AcquireCounts ==
    ASSUME PoolsOK, NEW p \in PoolIds, pool' = [pool EXCEPT ![p].refs = @ + 1]
    PROVE  \A q \in PoolIds : pool'[q].refs = pool[q].refs + Weight(q = p)
  <1>1. \A q \in PoolIds : pool[q].refs \in Nat
    BY DEF PoolsOK, Pool
  <1>2. pool'[p].refs = pool[p].refs + 1 /\ KeepsPools({p})
    BY AcquireEffect
  <1>3. ASSUME NEW q \in PoolIds PROVE pool'[q].refs = pool[q].refs + Weight(q = p)
    <2>1. CASE q = p
      BY <1>2, <2>1 DEF Weight
    <2>2. CASE q # p
      <3>1. pool'[q] = pool[q]
        BY <1>2, <2>2 DEF KeepsPools
      <3> QED
        BY <1>1, <2>2, <3>1 DEF Weight
    <2> QED
      BY <2>1, <2>2
  <1> QED
    BY <1>3

\* Every step keeps the counts exact: each action by what it does to one pool and
\* to the places of its call.
LEMMA RefsStep == ASSUME Inv, Next PROVE RefsExact'
  <1> USE DEF Weight
  <1>0. PoolsOK /\ TypeOK /\ None \notin PoolIds /\ \A p \in PoolIds : pool[p].refs \in Nat
    BY Typed, LeaseAssumption DEF Inv, PoolsOK, Pool
  <1>1. ASSUME NEW c \in Calls,
               \/ CheckBinding(c) \/ EnterReload(c) \/ ReloadNothing(c)
               \/ \E n \in Targets : BeginSwitch(c, n)
               \/ SwitchMissesFile(c) \/ AbandonSwitch(c) \/ FailOpen(c)
               \/ RefreshFull(c) \/ EndHandler(c)
        PROVE  RefsExact'
    <2>1. Others(c)
      BY <1>1, Bystanders DEF Call, Others
    <2>2. /\ pc[c] \notin {"commit_switch", "repin"} /\ pc'[c] \notin {"commit_switch", "repin"}
          /\ UNCHANGED <<pool, lease, pin>>
      BY <1>0, <1>1 DEF TypeOK, CheckBinding, EnterReload, ReloadNothing, BeginSwitch,
           SwitchMissesFile, AbandonSwitch, FailOpen, RefreshFull, EndHandler,
           FinishSwitch, Goto, managerVars
    <2> QED
      BY <1>0, <2>1, <2>2, NotPinning, RefsBalance
  <1>2. ASSUME NEW c \in Calls, Acquire(c) PROVE RefsExact'
    <2>1. Others(c)
      BY <1>2, Bystanders DEF Call, Others
    <2>2. /\ pc[c] = "idle" /\ pc'[c] = "bind" /\ lease[c] = None /\ active \in PoolIds
          /\ lease'[c] = active /\ UNCHANGED pin
          /\ pool' = [pool EXCEPT ![active].refs = @ + 1]
      BY <1>0, <1>2, ActiveReady DEF Acquire, Goto, Inv, PlaceInv, TypeOK
    <2>3. \A p \in PoolIds : pool'[p].refs = pool[p].refs + Weight(p = active)
      BY <1>0, <2>2, AcquireCounts
    <2> QED
      BY <1>0, <2>1, <2>2, <2>3, NotPinning, RefsBalance
  <1>3. ASSUME NEW c \in Calls, ReloadOpens(c) \/ SwitchOpens(c) PROVE RefsExact'
    <2>1. Others(c)
      BY <1>3, Bystanders DEF Call, Others
    <2>2. PICK p \in PoolIds, n \in Targets, g \in Generations :
              /\ pool[p].state = "unused" /\ pool' = [pool EXCEPT ![p] = Opened(n, g)]
              /\ candidate'[c] = p
      <3>1. CASE ReloadOpens(c)
        <4>1. /\ pool[active].name \in Targets
              /\ published[pool[active].name] \in Generations
          BY <1>0, <3>1, ActiveReady DEF ReloadOpens, TypeOK
        <4>2. PICK p \in PoolIds :
                  /\ IsNextPool(p)
                  /\ pool' = [pool EXCEPT ![p] = Opened(pool[active].name,
                                                       published[pool[active].name])]
                  /\ candidate' = [candidate EXCEPT ![c] = p]
          BY <3>1 DEF ReloadOpens
        <4>3. candidate'[c] = p /\ pool[p].state = "unused"
          BY <1>0, <4>2 DEF IsNextPool, TypeOK
        <4> QED
          BY <4>1, <4>2, <4>3
      <3>2. CASE SwitchOpens(c)
        <4>1. target[c] \in Targets /\ specPath[target[c]] \in Generations
          BY <1>0 DEF TypeOK
        <4> QED
          BY <1>0, <3>2, <4>1 DEF SwitchOpens, IsNextPool, TypeOK
      <3> QED
        BY <1>3, <3>1, <3>2
    <2>3. \A q \in PoolIds : pool'[q].refs = pool[q].refs
      <3>1. pool[p].refs = 0
        BY <1>0, <2>2 DEF Inv, RegisterInv, HeldPoolsAreOpen
      <3> QED
        BY <1>0, <2>2, <3>1, OpenEffect DEF KeepsPools
    <2>4. /\ pc[c] \in {"check", "open"} /\ pc'[c] \in {"commit_reload", "commit_switch"}
          /\ UNCHANGED <<lease, pin, loaded>>
      BY <1>0, <1>3 DEF ReloadOpens, SwitchOpens, Goto, TypeOK
    <2>5. \A n2 \in Targets : loaded[n2] # p
      BY <1>0, <2>2 DEF Inv, RegisterInv, LoadedInv
    <2>6. \A q \in PoolIds : c \notin PinnedBy(q)'
      <3>1. target'[c] = target[c] /\ target[c] \in Targets
        BY <1>0, <1>3 DEF ReloadOpens, SwitchOpens, TypeOK
      <3> QED
        BY <2>2, <2>4, <2>5, <3>1 DEF PinnedBy, IsNewlyOpened
    <2> QED
      BY <1>0, <2>1, <2>3, <2>4, <2>6, NotPinning, RefsBalance
  <1>4. ASSUME NEW c \in Calls, CommitReload(c) PROVE RefsExact'
    <2>1. Others(c)
      BY <1>4, Bystanders DEF Call, Others
    <2> DEFINE new == candidate[c]
    <2>2. /\ pc[c] = "commit_reload" /\ pc'[c] = "repin" /\ UNCHANGED <<lease, pin, candidate>>
          /\ new \in PoolIds \ {active} /\ active \in PoolIds
      BY <1>0, <1>4, ReloadReady DEF CommitReload, Goto, TypeOK
    <2>3. pool[new].refs = 0
      BY <2>2 DEF Inv, RegisterInv, CandidateInv, CandidateOK, IsFresh
    <2>4. \A p \in PoolIds : pool'[p].refs = pool[p].refs + Weight(p = new)
      BY <1>0, <1>4, <2>2, <2>3, CommitReloadEffect DEF KeepsPools
    <2>5. \A p \in PoolIds : c \in PinnedBy(p)' <=> p = new
      BY <2>2 DEF PinnedBy
    <2> QED
      BY <1>0, <2>1, <2>2, <2>4, <2>5, NotPinning, RefsBalance
  <1>5. ASSUME NEW c \in Calls, Repin(c) PROVE RefsExact'
    <2>1. Others(c)
      BY <1>5, Bystanders DEF Call, Others
    <2>2. /\ pc[c] = "repin" /\ pc'[c] = "handle" /\ UNCHANGED lease
          /\ candidate[c] \in PoolIds /\ pin'[c] = candidate[c]
      BY <1>0, <1>5, Places DEF Repin, Goto, TypeOK, Inv
    <2>3. \A p \in PoolIds : c \in PinnedBy(p) <=> p = candidate[c]
      BY <2>2 DEF PinnedBy
    <2>4. \A p \in PoolIds : /\ pool'[p].refs \in Nat
                             /\ pool'[p].refs + Weight(p = pin[c]) = pool[p].refs
      <3>1. CASE pin[c] = None
        BY <1>0, <1>5, <3>1 DEF Repin
      <3>2. CASE pin[c] # None
        <4>1. release(pin[c]) /\ pin[c] \in PoolIds /\ pool[pin[c]].refs > 0
          BY <1>5, <3>2, ReleaseReady DEF Repin
        <4> QED
          BY <1>0, <4>1, ReleaseEffect DEF KeepsPools
      <3> QED
        BY <3>1, <3>2
    <2> QED
      BY <1>0, <2>1, <2>2, <2>3, <2>4, NotPinning, RefsBalance
  <1>6. ASSUME NEW c \in Calls, FailReload(c) PROVE RefsExact'
    <2>1. Others(c)
      BY <1>6, Bystanders DEF Call, Others
    <2>2. /\ pc[c] \in {"reload", "check", "commit_reload"} /\ pc'[c] \in {"unpin", "handle"}
          /\ UNCHANGED <<lease, pin>>
      BY <1>0, <1>6 DEF FailReload, Goto, TypeOK
    <2>3. \A p \in PoolIds : pool'[p].refs = pool[p].refs
      <3>1. CASE candidate[c] = None
        BY <1>6, <3>1 DEF FailReload
      <3>2. CASE candidate[c] # None
        <4>1. candidate[c] \in PoolIds /\ pool' = [pool EXCEPT ![candidate[c]].state = "closed"]
          BY <1>0, <1>6, <3>2 DEF FailReload, TypeOK
        <4> QED
          BY <1>0, <4>1, DiscardEffect DEF KeepsPools
      <3> QED
        BY <3>1, <3>2
    <2> QED
      BY <1>0, <2>1, <2>2, <2>3, NotPinning, RefsBalance
  <1>7. ASSUME NEW c \in Calls, EnterSwitch(c) PROVE RefsExact'
    <2>1. Others(c)
      BY <1>7, Bystanders DEF Call, Others
    <2> DEFINE p == loaded[target[c]]
    <2>2. /\ pc[c] = "switch" /\ UNCHANGED <<lease, pin, loaded, target>>
          /\ candidate \in [Calls -> PoolIds \cup {None}] /\ pc \in [Calls -> Steps]
      BY <1>0, <1>7 DEF EnterSwitch, TypeOK
    <2>3. CASE UNCHANGED pool /\ pc'[c] \in {"handle", "open"}
      BY <1>0, <2>1, <2>2, <2>3, NotPinning, RefsBalance
    <2>4. CASE /\ p # None /\ pool' = [pool EXCEPT ![p].refs = @ + 1]
               /\ candidate'[c] = p /\ pc'[c] = "commit_switch"
      <3>1. p \in PoolIds
        BY <1>0, <2>4 DEF TypeOK
      <3>2. \A q \in PoolIds : pool'[q].refs = pool[q].refs + Weight(q = p)
        BY <1>0, <2>4, <3>1, AcquireCounts
      <3>3. \A q \in PoolIds : c \in PinnedBy(q)' <=> q = p
        BY <2>2, <2>4 DEF PinnedBy, IsNewlyOpened
      <3> QED
        BY <1>0, <2>1, <2>2, <3>2, <3>3, NotPinning, RefsBalance
    <2> QED
      BY <1>7, <2>2, <2>3, <2>4 DEF EnterSwitch, FinishSwitch, Goto
  <1>8. ASSUME NEW c \in Calls, CommitSwitch(c) \/ FailSwitch(c) PROVE RefsExact'
    <2>1. Others(c)
      BY <1>8, Bystanders DEF Call, Others
    <2> DEFINE new == candidate[c]
    <2>2. /\ pc[c] = "commit_switch" /\ pc'[c] = "handle" /\ UNCHANGED <<lease, pin>>
      BY <1>0, <1>8 DEF CommitSwitch, FailSwitch, FinishSwitch, Goto, TypeOK
    <2>3. \A p \in PoolIds : c \in PinnedBy(p) <=> p = new /\ ~IsNewlyOpened(c)
      BY <2>2 DEF PinnedBy
    <2>4. \A p \in PoolIds : /\ pool'[p].refs \in Nat
                             /\ pool'[p].refs + Weight(p = new /\ ~IsNewlyOpened(c))
                                    = pool[p].refs
      <3>1. CASE CommitSwitch(c)
        BY <1>0, <3>1, SwitchReady, CommitSwitchEffect DEF KeepsPools
      <3>2. CASE FailSwitch(c)
        <4>1. new \in PoolIds /\ (~IsNewlyOpened(c) => pool[new].refs > 0)
          BY <3>2, ReleaseReady
        <4>2. CASE IsNewlyOpened(c) /\ pool' = [pool EXCEPT ![new].state = "closed"]
          BY <1>0, <4>1, <4>2, DiscardEffect DEF KeepsPools
        <4>3. CASE ~IsNewlyOpened(c) /\ release(new)
          BY <1>0, <4>1, <4>3, ReleaseEffect DEF KeepsPools
        <4> QED
          BY <3>2, <4>2, <4>3 DEF FailSwitch
      <3> QED
        BY <1>8, <3>1, <3>2
    <2> QED
      BY <1>0, <2>1, <2>2, <2>3, <2>4, NotPinning, RefsBalance
  <1>9. ASSUME NEW c \in Calls, ReleasePin(c) PROVE RefsExact'
    <2>1. Others(c)
      BY <1>9, Bystanders DEF Call, Others
    <2>2. /\ pc[c] = "unpin" /\ pc'[c] = "release" /\ UNCHANGED lease /\ pin'[c] = None
      BY <1>0, <1>9 DEF ReleasePin, Goto, TypeOK
    <2>3. \A p \in PoolIds : /\ pool'[p].refs \in Nat
                             /\ pool'[p].refs + Weight(p = pin[c]) = pool[p].refs
      <3>1. CASE pin[c] = None
        BY <1>0, <1>9, <3>1 DEF ReleasePin
      <3>2. CASE pin[c] # None
        <4>1. release(pin[c]) /\ pin[c] \in PoolIds /\ pool[pin[c]].refs > 0
          BY <1>9, <3>2, ReleaseReady DEF ReleasePin
        <4> QED
          BY <1>0, <4>1, ReleaseEffect DEF KeepsPools
      <3> QED
        BY <3>1, <3>2
    <2> QED
      BY <1>0, <2>1, <2>2, <2>3, NotPinning, RefsBalance
  <1>10. ASSUME NEW c \in Calls, ReleaseLease(c) PROVE RefsExact'
    <2>1. Others(c)
      BY <1>10, Bystanders DEF Call, Others
    <2>2. /\ pc[c] = "release" /\ pc'[c] = "done" /\ UNCHANGED pin /\ lease'[c] = None
          /\ release(lease[c]) /\ lease[c] \in PoolIds /\ pool[lease[c]].refs > 0
      BY <1>0, <1>10, ReleaseReady DEF ReleaseLease, Goto, TypeOK
    <2>3. \A p \in PoolIds : /\ pool'[p].refs \in Nat
                             /\ pool'[p].refs + Weight(p = lease[c]) = pool[p].refs
      BY <1>0, <2>2, ReleaseEffect DEF KeepsPools
    <2> QED
      BY <1>0, <2>1, <2>2, <2>3, NotPinning, RefsBalance
  <1>11. CASE Close
    <2>1. \A p \in PoolIds : pool'[p].refs = pool[p].refs
      BY <1>0, <1>11, CloseEffect DEF Inv, RegisterInv
    <2>2. \A p \in PoolIds : PinnedBy(p)' = PinnedBy(p)
      BY <1>11, CloseBystanders DEF PinnedBy, Bystander
    <2>3. UNCHANGED <<lease, pin>>
      BY <1>11 DEF Close, callVars
    <2> QED
      BY <2>1, <2>2, <2>3 DEF Inv, RefsExact
  <1>12. ASSUME UNCHANGED <<managerVars, callVars>> PROVE RefsExact'
    BY <1>12 DEF managerVars, callVars, Inv, RefsExact, PinnedBy, IsNewlyOpened
  <1>13. ASSUME NEW n \in Targets, Publish(n) PROVE RefsExact'
    BY <1>12, <1>13 DEF Publish
  <1>14. CASE Terminated
    BY <1>12, <1>14 DEF Terminated, vars, managerVars, callVars
  <1> QED
    BY <1>1, <1>2, <1>3, <1>4, <1>5, <1>6, <1>7, <1>8, <1>9, <1>10, <1>11, <1>13, <1>14
       DEF Next, Call

-----------------------------------------------------------------------------
(***************************************************************************)
(* The budget.                                                             *)
(***************************************************************************)
\* A register that gains at most one name.
LEMMA RegisterSize ==
    /\ Cardinality(LoadedNames) \in Nat /\ Cardinality(LoadedNames') \in Nat
    /\ LoadedNames' \subseteq LoadedNames =>
           Cardinality(LoadedNames') <= Cardinality(LoadedNames)
    /\ \A n \in Targets : LoadedNames' \subseteq LoadedNames \cup {n} =>
           Cardinality(LoadedNames') <= Cardinality(LoadedNames) + 1
  <1>1. IsFiniteSet(LoadedNames) /\ IsFiniteSet(LoadedNames')
    <2>1. LoadedNames \subseteq Targets /\ LoadedNames' \subseteq Targets
      BY DEF LoadedNames
    <2> QED
      BY <2>1, LeaseAssumption, FS_Subset
  <1>2. Cardinality(LoadedNames) \in Nat /\ Cardinality(LoadedNames') \in Nat
    BY <1>1, FS_CardinalityType
  <1>3. ASSUME NEW n \in Targets, LoadedNames' \subseteq LoadedNames \cup {n}
        PROVE  Cardinality(LoadedNames') <= Cardinality(LoadedNames) + 1
    <2>1. /\ IsFiniteSet(LoadedNames \cup {n})
          /\ Cardinality(LoadedNames \cup {n}) =
                 IF n \in LoadedNames THEN Cardinality(LoadedNames)
                 ELSE Cardinality(LoadedNames) + 1
      BY <1>1, FS_AddElement
    <2>2. Cardinality(LoadedNames') <= Cardinality(LoadedNames \cup {n})
      BY <1>3, <2>1, FS_Subset
    <2> QED
      BY <1>2, <2>1, <2>2
  <1>4. LoadedNames' \subseteq LoadedNames =>
            Cardinality(LoadedNames') <= Cardinality(LoadedNames)
    BY <1>1, FS_Subset
  <1> QED
    BY <1>2, <1>3, <1>4

\* What other calls have reserved stays reserved.
LEMMA ReservedStable ==
    ASSUME NEW c \in Calls, Others(c)
    PROVE  \A d \in Calls \ {c} : (IsReserved(d)' <=> IsReserved(d))
  BY DEF Others, Bystander, IsReserved

\* One call at a time has a reservation: the one that holds the gate.
LEMMA OneReservation ==
    ASSUME Inv, NEW c \in Calls, gate = Nobody \/ gate = c
    PROVE  \A d \in Calls \ {c} : ~IsReserved(d)
  BY LeaseAssumption DEF Inv, GateInv, Gated, IsReserved

\* A step that reserves nothing and registers no other name.
LEMMA BudgetQuiet ==
    ASSUME Inv, \A d \in Calls : (IsReserved(d)' <=> IsReserved(d)), opening' = opening,
           LoadedNames' \subseteq LoadedNames
    PROVE  BudgetInv'
  <1>1. opening' = IF \E d \in Calls : IsReserved(d)' THEN 1 ELSE 0
    BY DEF Inv, BudgetInv
  <1>2. Cardinality(LoadedNames') + opening' <= MaxOpenPools
    BY RegisterSize, LeaseAssumption
       DEF Inv, TypeOK, BudgetInv, AccountedWithinBudget, AccountedPools
  <1> QED
    BY <1>1, <1>2 DEF BudgetInv, AccountedWithinBudget, AccountedPools

\* A reservation is given back, or becomes a registered pool.
LEMMA BudgetReturn ==
    ASSUME Inv, NEW c \in Calls, NEW n \in Targets, Others(c), IsReserved(c), ~IsReserved(c)',
           opening' = opening - 1, LoadedNames' \subseteq LoadedNames \cup {n}
    PROVE  BudgetInv'
  <1>1. gate = c
    BY DEF Inv, GateInv, Gated, IsReserved
  <1>2. \A d \in Calls : ~IsReserved(d)'
    BY <1>1, OneReservation, ReservedStable
  <1>3. opening = 1 /\ opening' = 0
    BY OpeningReady
  <1>4. Cardinality(LoadedNames') + opening' <= MaxOpenPools
    BY <1>3, RegisterSize, LeaseAssumption
       DEF Inv, BudgetInv, AccountedWithinBudget, AccountedPools
  <1> QED
    BY <1>2, <1>3, <1>4 DEF BudgetInv, AccountedWithinBudget, AccountedPools

\* A reservation is taken if it fits.
LEMMA BudgetReserve ==
    ASSUME Inv, NEW c \in Calls, Others(c), gate = Nobody, ~IsReserved(c), IsReserved(c)',
           FitsBudget, opening' = opening + 1, UNCHANGED loaded
    PROVE  BudgetInv'
  <1>1. opening = 0
    BY OneReservation DEF Inv, BudgetInv
  <1>2. LoadedNames' = LoadedNames
    BY DEF LoadedNames
  <1>3. Cardinality(LoadedNames') + opening' <= MaxOpenPools
    BY <1>1, <1>2, RegisterSize, LeaseAssumption DEF FitsBudget, AccountedPools
  <1> QED
    BY <1>1, <1>3 DEF BudgetInv, AccountedWithinBudget, AccountedPools

\* A release registers nothing.
LEMMA ReleaseUnregisters ==
    ASSUME PoolsOK, NEW p \in PoolIds, pool[p].refs > 0, release(p)
    PROVE  LoadedNames' \subseteq LoadedNames
  BY ReleaseEffect DEF LoadedNames

\* Every step keeps the budget.
LEMMA BudgetStep == ASSUME Inv, Next PROVE BudgetInv'
  <1>0. PoolsOK /\ TypeOK /\ None \notin PoolIds
    BY Typed, LeaseAssumption DEF Inv
  <1>1. ASSUME NEW c \in Calls, Call(c),
               opening' = opening, LoadedNames' \subseteq LoadedNames,
               IsReserved(c)' <=> IsReserved(c)
        PROVE  BudgetInv'
    BY <1>1, Bystanders, ReservedStable, BudgetQuiet DEF Others
  <1>2. ASSUME NEW c \in Calls,
               \/ Acquire(c) \/ CheckBinding(c) \/ EnterReload(c) \/ ReloadNothing(c)
               \/ ReloadOpens(c) \/ FailReload(c)
               \/ \E n \in Targets : BeginSwitch(c, n)
               \/ AbandonSwitch(c) \/ RefreshFull(c) \/ EndHandler(c)
        PROVE  BudgetInv'
    <2>1. Call(c)
      BY <1>2 DEF Call
    <2>2. UNCHANGED <<loaded, opening>>
      BY <1>2 DEF Acquire, CheckBinding, EnterReload, ReloadNothing, ReloadOpens, FailReload,
           BeginSwitch, AbandonSwitch, RefreshFull, EndHandler, managerVars
    <2>3. ~IsReserved(c) /\ ~IsReserved(c)'
      BY <1>0, <1>2 DEF IsReserved, TypeOK, Acquire, CheckBinding, EnterReload, ReloadNothing,
           ReloadOpens, FailReload, BeginSwitch, AbandonSwitch, RefreshFull, 
           EndHandler, FinishSwitch, Goto
    <2> QED
      BY <1>1, <2>1, <2>2, <2>3 DEF LoadedNames
  <1>3. ASSUME NEW c \in Calls, Repin(c) \/ ReleasePin(c) \/ ReleaseLease(c) PROVE BudgetInv'
    <2>1. Call(c) /\ opening' = opening
      BY <1>3 DEF Call, Repin, ReleasePin, ReleaseLease
    <2>2. LoadedNames' \subseteq LoadedNames
      <3>1. CASE UNCHANGED loaded
        BY <3>1 DEF LoadedNames
      <3>2. ASSUME NEW p \in PoolIds, pool[p].refs > 0, release(p)
            PROVE  LoadedNames' \subseteq LoadedNames
        BY <1>0, <3>2, ReleaseUnregisters
      <3> QED
        BY <1>3, <3>1, <3>2, ReleaseReady DEF Repin, ReleasePin, ReleaseLease
    <2>3. ~IsReserved(c) /\ ~IsReserved(c)'
      BY <1>0, <1>3 DEF IsReserved, TypeOK, Repin, ReleasePin, ReleaseLease, Goto
    <2> QED
      BY <1>1, <2>1, <2>2, <2>3
  <1>4. ASSUME NEW c \in Calls, CommitReload(c) PROVE BudgetInv'
    <2>1. /\ Call(c) /\ opening' = opening /\ pc[c] = "commit_reload" /\ pc'[c] = "repin"
          /\ ~closed
      BY <1>0, <1>4 DEF Call, CommitReload, Goto, TypeOK
    <2>2. pool[candidate[c]].name = pool[active].name
      BY <2>1 DEF Inv, RegisterInv, CandidateInv, CandidateOK
    <2>3. loaded[pool[active].name] # None /\ pool[active].name \in Targets
      BY <1>0, <2>1, ActiveReady DEF Inv, RegisterInv, ActiveIsUsable, TypeOK
    <2>4. loaded' = [loaded EXCEPT ![pool[active].name] = candidate[c]]
      BY <1>0, <1>4, <2>2, ReloadReady, CommitReloadEffect
    <2>5. LoadedNames' \subseteq LoadedNames
      BY <1>0, <2>3, <2>4 DEF LoadedNames, TypeOK
    <2> QED
      BY <1>1, <2>1, <2>5 DEF IsReserved
  <1>5. ASSUME NEW c \in Calls, EnterSwitch(c) PROVE BudgetInv'
    <2>1. /\ Call(c) /\ UNCHANGED <<loaded, target>> /\ pc[c] = "switch" /\ gate = Nobody
      BY <1>5 DEF Call, EnterSwitch
    <2>2. CASE opening' = opening /\ pc'[c] = "handle"
      BY <1>1, <2>1, <2>2 DEF LoadedNames, IsReserved
    <2>3. CASE /\ opening' = opening /\ pc'[c] = "commit_switch"
               /\ candidate'[c] = loaded[target[c]]
      BY <1>1, <2>1, <2>3 DEF LoadedNames, IsReserved, IsNewlyOpened
    <2>4. CASE FitsBudget /\ opening' = opening + 1 /\ pc'[c] = "open"
      <3>1. Others(c) /\ ~IsReserved(c) /\ IsReserved(c)'
        BY <2>1, <2>4, Bystanders DEF IsReserved, Others
      <3> QED
        BY <2>1, <2>4, <3>1, BudgetReserve
    <2> QED
      BY <1>0, <1>5, <2>2, <2>3, <2>4 DEF EnterSwitch, FinishSwitch, Goto, TypeOK
  <1>6. ASSUME NEW c \in Calls, SwitchOpens(c) PROVE BudgetInv'
    <2>1. /\ Call(c) /\ UNCHANGED <<loaded, target, opening>> /\ pc[c] = "open"
          /\ pc'[c] = "commit_switch"
      BY <1>0, <1>6 DEF Call, SwitchOpens, Goto, TypeOK
    <2>2. PICK p \in PoolIds : pool[p].state = "unused" /\ candidate'[c] = p
      BY <1>0, <1>6 DEF SwitchOpens, IsNextPool, TypeOK
    <2>3. loaded[target[c]] # p
      <3>1. LoadedInv /\ target[c] \in Targets
        BY <1>0 DEF Inv, RegisterInv, TypeOK
      <3> QED
        BY <1>0, <2>2, <3>1 DEF LoadedInv
    <2> QED
      BY <1>1, <2>1, <2>2, <2>3 DEF LoadedNames, IsReserved, IsNewlyOpened
  <1>7. ASSUME NEW c \in Calls, SwitchMissesFile(c) \/ FailOpen(c) PROVE BudgetInv'
    <2>1. Others(c)
      BY <1>7, Bystanders DEF Call, Others
    <2>2. /\ UNCHANGED loaded /\ opening' = opening - 1 /\ pc[c] = "open"
          /\ pc'[c] = "handle"
      BY <1>0, <1>7 DEF SwitchMissesFile, FailOpen, FinishSwitch, Goto, TypeOK
    <2>3. IsReserved(c) /\ ~IsReserved(c)' /\ LoadedNames' = LoadedNames
      BY <2>2 DEF IsReserved, LoadedNames
    <2> QED
      BY <2>1, <2>2, <2>3, BudgetReturn, LeaseAssumption
  <1>8. ASSUME NEW c \in Calls, CommitSwitch(c) \/ FailSwitch(c) PROVE BudgetInv'
    <2>1. Call(c) /\ Others(c)
      BY <1>8, Bystanders DEF Call, Others
    <2>2. /\ pc[c] = "commit_switch" /\ pc'[c] = "handle" /\ target[c] \in Targets
          /\ candidate[c] \in PoolIds /\ ReturnReservation(c)
      BY <1>0, <1>8, Places DEF CommitSwitch, FailSwitch, FinishSwitch, Goto, TypeOK, Inv
    <2>3. /\ LoadedNames' \subseteq LoadedNames \cup {target[c]}
          /\ ~IsNewlyOpened(c) => LoadedNames' \subseteq LoadedNames
      <3>1. CASE CommitSwitch(c)
        <4>1. \A n \in Targets : n # target[c] => loaded'[n] \in {loaded[n], None}
          BY <1>0, <3>1, SwitchReady, CommitSwitchEffect
        <4> QED
          BY <1>0, <2>2, <4>1 DEF LoadedNames, IsNewlyOpened
      <3>2. CASE FailSwitch(c) /\ UNCHANGED loaded
        BY <3>2 DEF LoadedNames
      <3>3. CASE ~IsNewlyOpened(c) /\ release(candidate[c])
        <4>1. pool[candidate[c]].refs > 0
          BY <1>0, <2>2, <3>3, Held DEF Inv, PinnedBy
        <4> QED
          BY <1>0, <2>2, <3>3, <4>1, ReleaseUnregisters
      <3> QED
        BY <1>8, <3>1, <3>2, <3>3 DEF FailSwitch
    <2>4. CASE IsNewlyOpened(c)
      <3>1. IsReserved(c) /\ ~IsReserved(c)' /\ opening' = opening - 1
        BY <2>2, <2>4 DEF IsReserved, ReturnReservation
      <3> QED
        BY <2>1, <2>2, <2>3, <3>1, BudgetReturn
    <2>5. CASE ~IsNewlyOpened(c)
      <3>1. ~IsReserved(c) /\ ~IsReserved(c)' /\ opening' = opening
        BY <2>2, <2>5 DEF IsReserved, ReturnReservation
      <3> QED
        BY <1>1, <2>1, <2>3, <2>5, <3>1
    <2> QED
      BY <2>4, <2>5
  <1>9. CASE Close
    <2>1. LoadedNames' \subseteq LoadedNames
      BY <1>0, <1>9, CloseEffect DEF LoadedNames, Inv, RegisterInv
    <2>2. \A d \in Calls : (IsReserved(d)' <=> IsReserved(d))
      BY <1>9, CloseBystanders DEF Bystander, IsReserved
    <2> QED
      BY <1>9, <2>1, <2>2, BudgetQuiet DEF Close
  <1>10. ASSUME UNCHANGED <<managerVars, callVars>> PROVE BudgetInv'
    BY <1>10, BudgetQuiet
       DEF managerVars, callVars, LoadedNames, IsReserved, IsNewlyOpened
  <1>11. ASSUME NEW n \in Targets, Publish(n) PROVE BudgetInv'
    BY <1>10, <1>11 DEF Publish
  <1>12. CASE Terminated
    BY <1>10, <1>12 DEF Terminated, vars, managerVars, callVars
  <1> QED
    BY <1>2, <1>3, <1>4, <1>5, <1>6, <1>7, <1>8, <1>9, <1>11, <1>12 DEF Next, Call

-----------------------------------------------------------------------------
(***************************************************************************)
(* The pools the account leaves out.                                       *)
(***************************************************************************)
\* A step of c that registers no other name keeps the names of reservations free.
LEMMA NamesStayFree ==
    ASSUME Inv, ChargedInv, NEW c \in Calls, Others(c),
           \A n \in Targets : loaded'[n] # None => loaded[n] # None,
           IsReserved(c)' => IsReserved(c) /\ target'[c] = target[c]
    PROVE  \A d \in Calls : NameIsFree(d)'
  <1> SUFFICES ASSUME NEW d \in Calls, IsReserved(d)' PROVE loaded'[target'[d]] = None
    BY DEF NameIsFree
  <1>1. IsReserved(d) /\ target'[d] = target[d] /\ target[d] \in Targets
    BY ReservedStable DEF Others, Bystander, Inv, TypeOK
  <1>2. loaded[target[d]] = None
    BY <1>1 DEF ChargedInv, NameIsFree
  <1> QED
    BY <1>1, <1>2

\* A step that retires no open pool keeps the retired ones registered, if it
\* unregisters only what it closes.
LEMMA KeptStayRegistered ==
    ASSUME ChargedInv,
           \A p \in PoolIds : IsKept(p)' => IsKept(p) /\ pool'[p].name = pool[p].name,
           \A p \in PoolIds : IsKept(p)' /\ IsKept(p) =>
                                  loaded'[pool[p].name] = loaded[pool[p].name]
    PROVE  \A p \in PoolIds : IsKept(p)' => loaded'[pool'[p].name] = p
  BY DEF ChargedInv

\* A reference is given back.
LEMMA ChargedRelease ==
    ASSUME Inv, ChargedInv, NEW c \in Calls, NEW p \in PoolIds, Others(c),
           pool[p].refs > 0, release(p), ~IsReserved(c)'
    PROVE  ChargedInv'
  <1>0. PoolsOK /\ pool[p].name \in Targets
    BY Typed DEF Inv, PoolsOK, Pool
  <1> DEFINE last == pool[p].retired /\ pool[p].refs = 1
  <1>1. /\ \A q \in PoolIds \ {p} : pool'[q] = pool[q]
        /\ pool'[p].name = pool[p].name /\ pool'[p].retired = pool[p].retired
        /\ pool'[p].deleteOnRetire = pool[p].deleteOnRetire
        /\ pool'[p].state = IF last THEN "closed" ELSE pool[p].state
        /\ \A n \in Targets :
               loaded'[n] = IF last /\ loaded[n] = p /\ n = pool[p].name THEN None
                            ELSE loaded[n]
    BY <1>0, ReleaseEffect DEF KeepsPools
  <1> HIDE DEF last
  <1>2. \A d \in Calls : NameIsFree(d)'
    <2>1. \A n \in Targets : loaded'[n] # None => loaded[n] # None
      BY <1>1
    <2> QED
      BY <2>1, NamesStayFree
  <1>3. \A q \in PoolIds : IsKept(q)' => IsKept(q) /\ pool'[q].name = pool[q].name
    BY <1>1 DEF IsKept
  <1>4. ASSUME NEW q \in PoolIds, IsKept(q)', IsKept(q)
        PROVE  loaded'[pool[q].name] = loaded[pool[q].name]
    <2>1. pool[q].name \in Targets /\ loaded[pool[q].name] = q
      BY <1>0, <1>4 DEF ChargedInv, PoolsOK, Pool
    <2>2. ~(q = p /\ last)
      BY <1>1, <1>4 DEF IsKept
    <2> QED
      BY <1>1, <2>1, <2>2
  <1> QED
    BY <1>2, <1>3, <1>4, KeptStayRegistered DEF ChargedInv

\* Every step keeps the account of what it leaves out.
LEMMA ChargedStep == ASSUME Inv, ChargedInv, Next PROVE ChargedInv'
  <1>0. PoolsOK /\ TypeOK /\ None \notin PoolIds
    BY Typed, LeaseAssumption DEF Inv
  <1>1. ASSUME NEW c \in Calls, Call(c),
               UNCHANGED loaded, IsReserved(c)' => IsReserved(c) /\ target'[c] = target[c],
               \A p \in PoolIds : IsKept(p)' => IsKept(p) /\ pool'[p].name = pool[p].name
        PROVE  ChargedInv'
    BY <1>1, Bystanders, NamesStayFree, KeptStayRegistered DEF Others, ChargedInv
  <1>2. ASSUME UNCHANGED pool
        PROVE  \A p \in PoolIds : IsKept(p)' => IsKept(p) /\ pool'[p].name = pool[p].name
    BY <1>2 DEF IsKept
  <1>3. ASSUME NEW p \in PoolIds, pool' = [pool EXCEPT ![p].refs = @ + 1]
        PROVE  \A q \in PoolIds : IsKept(q)' => IsKept(q) /\ pool'[q].name = pool[q].name
    BY <1>0, <1>3, AcquireEffect DEF KeepsPools, IsKept
  <1>4. ASSUME NEW p \in PoolIds, NEW n \in Targets, NEW g \in Generations,
               pool' = [pool EXCEPT ![p] = Opened(n, g)]
        PROVE  \A q \in PoolIds : IsKept(q)' => IsKept(q) /\ pool'[q].name = pool[q].name
    BY <1>0, <1>4, OpenEffect DEF KeepsPools, IsKept
  <1>5. ASSUME NEW p \in PoolIds, pool' = [pool EXCEPT ![p].state = "closed"]
        PROVE  \A q \in PoolIds : IsKept(q)' => IsKept(q) /\ pool'[q].name = pool[q].name
    BY <1>0, <1>5, DiscardEffect DEF KeepsPools, IsKept
  <1>6. ASSUME NEW c \in Calls,
               \/ CheckBinding(c) \/ EnterReload(c) \/ ReloadNothing(c)
               \/ \E n \in Targets : BeginSwitch(c, n)
               \/ SwitchMissesFile(c) \/ AbandonSwitch(c) \/ FailOpen(c)
               \/ RefreshFull(c) \/ EndHandler(c)
        PROVE  ChargedInv'
    <2>1. Call(c) /\ UNCHANGED <<pool, loaded>>
      BY <1>6 DEF Call, CheckBinding, EnterReload, ReloadNothing, BeginSwitch,
           SwitchMissesFile, AbandonSwitch, FailOpen, RefreshFull, EndHandler, managerVars
    <2>2. pc'[c] \notin {"open", "commit_switch"}
      BY <1>0, <1>6 DEF TypeOK, CheckBinding, EnterReload, ReloadNothing, BeginSwitch,
           SwitchMissesFile, AbandonSwitch, FailOpen, RefreshFull, EndHandler, FinishSwitch, Goto
    <2> QED
      BY <1>1, <1>2, <2>1, <2>2 DEF IsReserved
  <1>7. ASSUME NEW c \in Calls, Acquire(c) PROVE ChargedInv'
    <2>1. /\ Call(c) /\ UNCHANGED loaded /\ pc'[c] = "bind" /\ active \in PoolIds
          /\ pool' = [pool EXCEPT ![active].refs = @ + 1]
      BY <1>0, <1>7, ActiveReady DEF Call, Acquire, Goto, TypeOK
    <2> QED
      BY <1>1, <1>3, <2>1 DEF IsReserved
  <1>8. ASSUME NEW c \in Calls, ReloadOpens(c) PROVE ChargedInv'
    <2>1. /\ Call(c) /\ UNCHANGED loaded /\ pc'[c] = "commit_reload" /\ active \in PoolIds
      BY <1>0, <1>8, ActiveReady DEF Call, ReloadOpens, Goto, TypeOK
    <2>2. /\ pool[active].name \in Targets
          /\ published[pool[active].name] \in Generations
      BY <1>0, <2>1 DEF TypeOK
    <2>3. PICK p \in PoolIds :
              pool' = [pool EXCEPT ![p] = Opened(pool[active].name, published[pool[active].name])]
      BY <1>8 DEF ReloadOpens
    <2> QED
      BY <1>1, <1>4, <2>1, <2>2, <2>3 DEF IsReserved
  <1>9. ASSUME NEW c \in Calls, SwitchOpens(c) PROVE ChargedInv'
    <2>1. /\ Call(c) /\ UNCHANGED <<loaded, target>> /\ pc[c] = "open"
          /\ target[c] \in Targets /\ specPath[target[c]] \in Generations
      BY <1>0, <1>9 DEF Call, SwitchOpens, TypeOK
    <2>2. PICK p \in PoolIds :
              pool' = [pool EXCEPT ![p] = Opened(target[c], specPath[target[c]])]
      BY <1>9 DEF SwitchOpens
    <2> QED
      BY <1>1, <1>4, <2>1, <2>2 DEF IsReserved
  <1>10. ASSUME NEW c \in Calls, FailReload(c) PROVE ChargedInv'
    <2>1. /\ Call(c) /\ UNCHANGED loaded /\ pc'[c] \in {"unpin", "handle"}
          /\ candidate[c] # None => candidate[c] \in PoolIds
      BY <1>0, <1>10 DEF Call, FailReload, Goto, TypeOK
    <2>2. \A q \in PoolIds : IsKept(q)' => IsKept(q) /\ pool'[q].name = pool[q].name
      BY <1>2, <1>5, <1>10, <2>1 DEF FailReload
    <2> QED
      BY <1>1, <2>1, <2>2 DEF IsReserved
  <1>11. ASSUME NEW c \in Calls, EnterSwitch(c) PROVE ChargedInv'
    <2>1. Call(c) /\ UNCHANGED <<loaded, target>> /\ target[c] \in Targets /\ Others(c)
      BY <1>0, <1>11, Bystanders DEF Call, EnterSwitch, TypeOK, Others
    <2>2. CASE UNCHANGED pool /\ pc'[c] = "handle"
      BY <1>1, <1>2, <2>1, <2>2 DEF IsReserved
    <2>3. CASE /\ loaded[target[c]] # None
               /\ pool' = [pool EXCEPT ![loaded[target[c]]].refs = @ + 1]
               /\ candidate'[c] = loaded[target[c]] /\ pc'[c] = "commit_switch"
      <3>1. loaded[target[c]] \in PoolIds
        BY <1>0, <2>1, <2>3 DEF TypeOK
      <3>2. ~IsReserved(c)'
        BY <2>1, <2>3 DEF IsReserved, IsNewlyOpened
      <3> QED
        BY <1>1, <1>3, <2>1, <2>3, <3>1, <3>2
    <2>4. CASE UNCHANGED pool /\ loaded[target[c]] = None
      <3>1. \A d \in Calls : NameIsFree(d)'
        <4>1. ASSUME NEW d \in Calls \ {c} PROVE NameIsFree(d)'
          BY <2>1, ReservedStable DEF Others, Bystander, ChargedInv, NameIsFree
        <4>2. NameIsFree(c)'
          BY <2>1, <2>4 DEF NameIsFree
        <4> QED
          BY <4>1, <4>2
      <3> QED
        BY <1>2, <2>1, <2>4, <3>1, KeptStayRegistered DEF ChargedInv
    <2> QED
      BY <1>0, <1>11, <2>2, <2>3, <2>4 DEF EnterSwitch, FinishSwitch, Goto, TypeOK
  <1>12. ASSUME NEW c \in Calls, Repin(c) \/ ReleasePin(c) \/ ReleaseLease(c) PROVE ChargedInv'
    <2>1. Call(c) /\ Others(c) /\ pc'[c] \in {"handle", "release", "done"}
      BY <1>0, <1>12, Bystanders DEF Call, Others, Repin, ReleasePin, ReleaseLease, Goto, TypeOK
    <2>2. ~IsReserved(c)'
      BY <2>1 DEF IsReserved
    <2>3. CASE UNCHANGED <<pool, loaded>>
      BY <1>1, <1>2, <2>1, <2>2, <2>3
    <2>4. ASSUME NEW p \in PoolIds, pool[p].refs > 0, release(p) PROVE ChargedInv'
      BY <2>1, <2>2, <2>4, ChargedRelease
    <2> QED
      BY <1>12, <2>3, <2>4, ReleaseReady DEF Repin, ReleasePin, ReleaseLease
  <1>13. ASSUME NEW c \in Calls, FailSwitch(c) PROVE ChargedInv'
    <2>1. Call(c) /\ Others(c) /\ pc'[c] = "handle" /\ candidate[c] \in PoolIds
      BY <1>0, <1>13, Bystanders, ReleaseReady DEF Call, Others, FailSwitch, FinishSwitch, Goto,
         TypeOK
    <2>2. ~IsReserved(c)'
      BY <2>1 DEF IsReserved
    <2>3. CASE UNCHANGED loaded /\ pool' = [pool EXCEPT ![candidate[c]].state = "closed"]
      BY <1>1, <1>5, <2>1, <2>2, <2>3
    <2>4. CASE ~IsNewlyOpened(c) /\ release(candidate[c])
      BY <1>13, <2>1, <2>2, <2>4, ReleaseReady, ChargedRelease
    <2> QED
      BY <1>13, <2>3, <2>4 DEF FailSwitch
  <1>14. ASSUME NEW c \in Calls, CommitReload(c) PROVE ChargedInv'
    <2> DEFINE old == active
               new == candidate[c]
    <2>1. /\ Call(c) /\ Others(c) /\ old \in PoolIds /\ new \in PoolIds \ {old}
          /\ pc[c] = "commit_reload" /\ pc'[c] = "repin" /\ ~closed
      BY <1>0, <1>14, Bystanders, ReloadReady DEF Call, Others, CommitReload, Goto, TypeOK
    <2>2. /\ pool[new].name = pool[old].name /\ pool[old].name \in Targets
          /\ loaded[pool[old].name] = old /\ ~pool[new].retired
      BY <1>0, <2>1 DEF Inv, RegisterInv, ActiveIsUsable, CandidateInv, CandidateOK, IsFresh,
         PoolsOK, Pool
    <2>3. /\ \A q \in PoolIds \ {old, new} : pool'[q] = pool[q]
          /\ pool'[old].deleteOnRetire
          /\ pool'[new].retired = pool[new].retired
          /\ loaded' = [loaded EXCEPT ![pool[new].name] = new]
      BY <1>0, <1>14, <2>1, CommitReloadEffect DEF KeepsPools
    <2>4. \A d \in Calls : NameIsFree(d)'
      <3>1. \A n \in Targets : loaded'[n] # None => loaded[n] # None
        BY <1>0, <2>1, <2>2, <2>3 DEF TypeOK
      <3>2. ~IsReserved(c)'
        BY <2>1 DEF IsReserved
      <3> QED
        BY <2>1, <3>1, <3>2, NamesStayFree
    <2>5. \A q \in PoolIds : IsKept(q)' => q \notin {old, new} /\ IsKept(q)
      BY <2>1, <2>2, <2>3 DEF IsKept
    <2>6. ASSUME NEW q \in PoolIds, IsKept(q)' PROVE loaded'[pool'[q].name] = q
      <3>1. loaded[pool[q].name] = q /\ pool'[q] = pool[q] /\ q # old /\ pool[q].name \in Targets
        BY <1>0, <2>3, <2>5, <2>6 DEF ChargedInv, PoolsOK, Pool
      <3>2. pool[q].name # pool[new].name
        BY <2>2, <3>1
      <3> QED
        BY <1>0, <2>3, <3>1, <3>2 DEF TypeOK
    <2> QED
      BY <2>4, <2>6 DEF ChargedInv
  <1>15. ASSUME NEW c \in Calls, CommitSwitch(c) PROVE ChargedInv'
    <2> DEFINE old == active
               new == candidate[c]
    <2>1. /\ Call(c) /\ Others(c) /\ old \in PoolIds /\ new \in PoolIds \ {old}
          /\ target[c] \in Targets /\ pool[old].name # target[c]
          /\ IsNewlyOpened(c) \/ pool[new].refs > 0
          /\ pc[c] = "commit_switch" /\ pc'[c] = "handle" /\ ~closed
      BY <1>0, <1>15, Bystanders, SwitchReady
         DEF Call, Others, CommitSwitch, FinishSwitch, Goto, TypeOK
    <2>2. loaded[pool[old].name] = old /\ pool[old].name \in Targets
      BY <1>0, <2>1 DEF Inv, RegisterInv, ActiveIsUsable, PoolsOK, Pool
    <2>3. loaded[target[c]] \in {None, new}
      BY <2>1 DEF ChargedInv, NameIsFree, IsReserved, IsNewlyOpened
    <2>4. /\ \A q \in PoolIds \ {old, new} : pool'[q] = pool[q]
          /\ pool'[old].name = pool[old].name
          /\ pool'[old].state = IF pool[old].refs = 0 THEN "closed" ELSE pool[old].state
          /\ ~pool'[new].retired
          /\ \A n \in Targets :
                 loaded'[n] = IF n = target[c] THEN new
                              ELSE IF n = pool[old].name /\ pool[old].refs = 0 /\ loaded[n] = old
                                   THEN None ELSE loaded[n]
      BY <1>0, <1>15, <2>1, CommitSwitchEffect DEF KeepsPools
    <2>5. \A d \in Calls : NameIsFree(d)'
      <3>1. \A d \in Calls : ~IsReserved(d)'
        BY <2>1, ReservedStable, OneReservation DEF IsReserved, Inv, GateInv, Gated
      <3> QED
        BY <3>1 DEF NameIsFree
    <2>6. ASSUME NEW q \in PoolIds, IsKept(q)' PROVE loaded'[pool'[q].name] = q
      <3>1. q # new
        BY <2>4, <2>6 DEF IsKept
      <3>2. CASE q = old
        <4>1. pool[old].refs # 0
          BY <2>4, <2>6, <3>2 DEF IsKept
        <4> QED
          BY <2>1, <2>2, <2>4, <3>2, <4>1
      <3>3. CASE q # old
        <4>1. pool'[q] = pool[q] /\ loaded[pool[q].name] = q /\ pool[q].name \in Targets
          BY <1>0, <2>4, <2>6, <3>1, <3>3 DEF IsKept, ChargedInv, PoolsOK, Pool
        <4>2. pool[q].name # target[c]
          BY <1>0, <2>3, <3>1, <4>1
        <4> QED
          BY <2>4, <3>3, <4>1, <4>2
      <3> QED
        BY <3>2, <3>3
    <2> QED
      BY <2>5, <2>6 DEF ChargedInv
  <1>16. CASE Close
    <2> DEFINE registered(p) == \E n \in Targets : loaded[n] = p
    <2>1. /\ \A p \in PoolIds :
                 /\ pool'[p].refs = pool[p].refs
                 /\ pool'[p].name = pool[p].name
                 /\ pool'[p].retired = (registered(p) \/ pool[p].retired)
                 /\ pool'[p].deleteOnRetire = pool[p].deleteOnRetire
                 /\ pool'[p].state = IF registered(p) /\ pool[p].refs = 0 THEN "closed"
                                     ELSE pool[p].state
          /\ \A n \in Targets :
                 loaded'[n] = IF loaded[n] # None /\ pool[loaded[n]].refs = 0 THEN None
                              ELSE loaded[n]
      BY <1>0, <1>16, CloseEffect DEF Inv, RegisterInv
    <2>2. \A d \in Calls : NameIsFree(d)'
      <3>1. ASSUME NEW d \in Calls
            PROVE  /\ IsReserved(d)' <=> IsReserved(d)
                   /\ target'[d] = target[d] /\ target[d] \in Targets
        BY <1>0, <1>16, CloseBystanders DEF Bystander, IsReserved, TypeOK
      <3>2. ASSUME NEW d \in Calls, IsReserved(d) PROVE loaded'[target[d]] = None
        BY <2>1, <3>1, <3>2 DEF ChargedInv, NameIsFree
      <3> QED
        BY <3>1, <3>2 DEF NameIsFree
    <2>3. ASSUME NEW p \in PoolIds, IsKept(p)' PROVE loaded'[pool'[p].name] = p
      <3>1. pool[p].name \in Targets /\ loaded[pool[p].name] = p
        <4>1. CASE registered(p)
          BY <1>0, <4>1 DEF Inv, RegisterInv, LoadedInv
        <4>2. CASE ~registered(p)
          <5>1. pool[p].state = "open" /\ pool[p].retired /\ ~pool[p].deleteOnRetire
            BY <2>1, <2>3, <4>2 DEF IsKept
          <5> QED
            BY <1>0, <5>1 DEF ChargedInv, IsKept, PoolsOK, Pool
        <4> QED
          BY <4>1, <4>2
      <3>2. registered(p)
        BY <3>1
      <3>3. pool[p].refs # 0
        BY <2>1, <2>3, <3>2 DEF IsKept
      <3> QED
        BY <2>1, <3>1, <3>3
    <2> QED
      BY <2>2, <2>3 DEF ChargedInv
  <1>17. ASSUME UNCHANGED <<managerVars, callVars>> PROVE ChargedInv'
    BY <1>17 DEF managerVars, callVars, ChargedInv, NameIsFree, IsReserved, IsNewlyOpened, IsKept
  <1>18. ASSUME NEW n \in Targets, Publish(n) PROVE ChargedInv'
    BY <1>17, <1>18 DEF Publish
  <1>19. CASE Terminated
    BY <1>17, <1>19 DEF Terminated, vars
  <1> QED
    BY <1>6, <1>7, <1>8, <1>9, <1>10, <1>11, <1>12, <1>13, <1>14, <1>15, <1>16, <1>18, <1>19
       DEF Next, Call

\* The pools that are open and neither replaced nor opened by a reload.
ChargedPools ==
    {p \in PoolIds : pool[p].state = "open" /\ ~ReplacedByReload(p) /\ ~OpenedByReload(p)}

\* Each of them is registered under its name or is what the one reservation is for.
LEMMA ChargedAreAccounted == ASSUME Inv, ChargedInv PROVE PoolsWithinBudget
  <1>0. PoolsOK /\ None \notin PoolIds /\ MaxOpenPools \in Nat
    BY Typed, LeaseAssumption DEF Inv
  <1> DEFINE Registered == {loaded[n] : n \in LoadedNames}
             Fresh == {candidate[c] : c \in {d \in Calls : IsReserved(d)}}
  <1>1. ASSUME NEW p \in ChargedPools PROVE p \in Registered \cup Fresh
    <2>1. /\ p \in PoolIds /\ pool[p].state = "open" /\ ~pool[p].deleteOnRetire
          /\ ~\E c \in Calls : pc[c] = "commit_reload" /\ candidate[c] = p
          /\ pool[p].name \in Targets
      BY <1>0, <1>1 DEF ChargedPools, ReplacedByReload, OpenedByReload, PoolsOK, Pool
    <2>2. CASE loaded[pool[p].name] = p
      BY <1>0, <2>1, <2>2 DEF LoadedNames
    <2>3. CASE loaded[pool[p].name] # p
      <3>1. ~pool[p].retired
        BY <2>1, <2>3 DEF ChargedInv, IsKept
      <3>2. active # p
        BY <1>0, <2>1, <2>3 DEF Inv, RegisterInv, ActiveIsUsable
      <3>3. PICK c \in Calls : IsFresh(c) /\ candidate[c] = p
        BY <2>1, <3>1, <3>2 DEF Inv, RegisterInv, RetiredInv
      <3>4. IsReserved(c)
        BY <2>1, <3>3 DEF IsFresh, IsReserved
      <3> QED
        BY <3>3, <3>4
    <2> QED
      BY <2>2, <2>3
  <1>2. /\ IsFiniteSet(LoadedNames) /\ Cardinality(LoadedNames) \in Nat
        /\ IsFiniteSet(Registered) /\ Cardinality(Registered) \in Nat
        /\ Cardinality(Registered) <= Cardinality(LoadedNames)
    <2>1. IsFiniteSet(LoadedNames)
      BY LeaseAssumption, FS_Subset DEF LoadedNames
    <2>2. IsFiniteSet(Registered) /\ Cardinality(Registered) <= Cardinality(LoadedNames)
      <3> DEFINE f == [n \in LoadedNames |-> loaded[n]]
      <3>1. f \in Surjection(LoadedNames, Registered)
        BY DEF Surjection
      <3> QED
        BY <2>1, <3>1, FS_Surjection
    <2> QED
      BY <2>1, <2>2, FS_CardinalityType
  <1> HIDE DEF Registered
  <1>3. CASE \E c \in Calls : IsReserved(c)
    <2>1. PICK c \in Calls : IsReserved(c)
      BY <1>3
    <2>2. Fresh = {candidate[c]}
      <3>1. \A d \in Calls : IsReserved(d) => d = c
        BY <2>1, OneReservation DEF Inv, GateInv, Gated, IsReserved
      <3> QED
        BY <2>1, <3>1
    <2>3. /\ IsFiniteSet(Registered \cup {candidate[c]})
          /\ Cardinality(Registered \cup {candidate[c]}) <= Cardinality(Registered) + 1
          /\ Cardinality(Registered \cup {candidate[c]}) \in Nat
      <3>1. /\ IsFiniteSet(Registered \cup {candidate[c]})
            /\ Cardinality(Registered \cup {candidate[c]}) =
                   IF candidate[c] \in Registered THEN Cardinality(Registered)
                   ELSE Cardinality(Registered) + 1
        BY <1>2, FS_AddElement
      <3> QED
        BY <1>2, <3>1
    <2>4. Cardinality(ChargedPools) <= Cardinality(Registered \cup {candidate[c]})
      <3>1. ChargedPools \subseteq Registered \cup {candidate[c]}
        BY <1>1, <2>2
      <3> QED
        BY <2>3, <3>1, FS_Subset
    <2>5. IsFiniteSet(ChargedPools) /\ Cardinality(ChargedPools) \in Nat
      <3>1. ChargedPools \subseteq Registered \cup {candidate[c]}
        BY <1>1, <2>2
      <3> QED
        BY <2>3, <3>1, FS_Subset, FS_CardinalityType
    <2>6. Cardinality(LoadedNames) + 1 <= MaxOpenPools
      BY <2>1 DEF Inv, BudgetInv, AccountedWithinBudget, AccountedPools
    <2>7. Cardinality(ChargedPools) <= MaxOpenPools
      BY <1>0, <1>2, <2>3, <2>4, <2>5, <2>6
    <2> QED
      BY <2>7 DEF ChargedPools, PoolsWithinBudget
  <1>4. CASE ~\E c \in Calls : IsReserved(c)
    <2>1. ChargedPools \subseteq Registered
      BY <1>1, <1>4
    <2>2. /\ IsFiniteSet(ChargedPools) /\ Cardinality(ChargedPools) \in Nat
          /\ Cardinality(ChargedPools) <= Cardinality(Registered)
      BY <1>2, <2>1, FS_Subset, FS_CardinalityType
    <2>3. Cardinality(LoadedNames) <= MaxOpenPools
      BY <1>2, <1>4 DEF Inv, BudgetInv, AccountedWithinBudget, AccountedPools
    <2>4. Cardinality(ChargedPools) <= MaxOpenPools
      BY <1>0, <1>2, <2>2, <2>3
    <2> QED
      BY <2>4 DEF ChargedPools, PoolsWithinBudget
  <1> QED
    BY <1>3, <1>4

-----------------------------------------------------------------------------
(***************************************************************************)
(* The epoch.                                                              *)
(***************************************************************************)
\* The call is bound as before, to no pool, or to the pool active now.
Rebinds(c) ==
    \/ UNCHANGED <<bound[c], leaseEpoch[c]>>
    \/ bound'[c] = None
    \/ ~closed /\ bound'[c] = active' /\ leaseEpoch'[c] = epoch'

\* A step that activates no pool, or does so under a new epoch, and binds its call
\* to no other pool than the active one.
LEMMA EpochKeeps ==
    ASSUME Inv, NEW c \in Calls, Others(c), Rebinds(c), epoch' \in Nat,
           UNCHANGED <<active, epoch, closed>> \/ epoch' = epoch + 1
    PROVE  EpochInv'
  <1>0. epoch \in Nat /\ \A d \in Calls : leaseEpoch[d] \in Nat
    BY DEF Inv, TypeOK
  <1> DEFINE Kept(d) == /\ bound[d] # None /\ bound'[d] = bound[d]
                        /\ leaseEpoch'[d] = leaseEpoch[d] /\ leaseEpoch[d] <= epoch
                        /\ leaseEpoch[d] = epoch /\ ~closed => bound[d] = active
             New(d) == ~closed /\ bound'[d] = active' /\ leaseEpoch'[d] = epoch'
  <1>1. ASSUME NEW d \in Calls, bound'[d] # None PROVE Kept(d) \/ New(d)
    <2>1. CASE UNCHANGED <<bound[d], leaseEpoch[d]>>
      BY <1>1, <2>1 DEF Inv, EpochInv
    <2>2. CASE ~UNCHANGED <<bound[d], leaseEpoch[d]>>
      BY <1>1, <2>2 DEF Others, Bystander, Rebinds
    <2> QED
      BY <2>1, <2>2
  <1>2. ASSUME NEW d \in Calls, bound'[d] # None
        PROVE  /\ leaseEpoch'[d] <= epoch'
               /\ leaseEpoch'[d] = epoch' /\ ~closed' => bound'[d] = active'
    BY <1>0, <1>1, <1>2
  <1>3. ASSUME NEW d \in Calls, NEW e \in Calls, bound'[d] # None, bound'[e] # None,
               leaseEpoch'[d] = leaseEpoch'[e]
        PROVE  bound'[d] = bound'[e]
    <2>1. (Kept(d) \/ New(d)) /\ (Kept(e) \/ New(e))
      BY <1>1, <1>3
    <2>2. CASE Kept(d) /\ Kept(e)
      BY <1>3, <2>2 DEF Inv, EpochInv, EpochNamesOnePool
    <2>3. CASE New(d) \/ New(e)
      BY <1>0, <1>3, <2>1, <2>3
    <2> QED
      BY <2>1, <2>2, <2>3
  <1> QED
    BY <1>2, <1>3 DEF EpochInv, EpochNamesOnePool

\* Every step keeps the epochs.
LEMMA EpochStep == ASSUME Inv, Next PROVE EpochInv'
  <1>0. TypeOK /\ None \notin PoolIds /\ epoch \in Nat
    BY LeaseAssumption DEF Inv, TypeOK
  <1>1. ASSUME NEW c \in Calls, Call(c), Rebinds(c),
               UNCHANGED <<active, epoch, closed>> \/ epoch' = epoch + 1
        PROVE  EpochInv'
    BY <1>0, <1>1, Bystanders, EpochKeeps DEF Others
  <1>2. ASSUME NEW c \in Calls,
               \/ CheckBinding(c) \/ EnterReload(c) \/ ReloadOpens(c) \/ Repin(c)
               \/ FailReload(c) \/ \E n \in Targets : BeginSwitch(c, n)
               \/ EnterSwitch(c) \/ SwitchOpens(c) \/ SwitchMissesFile(c)
               \/ AbandonSwitch(c) \/ FailOpen(c) \/ FailSwitch(c)
               \/ RefreshFull(c) \/ EndHandler(c) \/ ReleaseLease(c)
        PROVE  EpochInv'
    <2>1. Call(c)
      BY <1>2 DEF Call
    <2>2. UNCHANGED <<active, epoch, closed, bound, leaseEpoch>>
      BY <1>2 DEF CheckBinding, EnterReload, ReloadOpens, Repin, FailReload, BeginSwitch,
           EnterSwitch, SwitchOpens, SwitchMissesFile, AbandonSwitch, FailOpen, FailSwitch,
           RefreshFull, EndHandler, ReleaseLease, managerVars
    <2> QED
      BY <1>1, <2>1, <2>2 DEF Rebinds
  <1>3. ASSUME NEW c \in Calls, Acquire(c) \/ ReloadNothing(c) PROVE EpochInv'
    <2>1. Call(c) /\ UNCHANGED <<active, epoch, closed>>
      BY <1>3 DEF Call, Acquire, ReloadNothing
    <2>2. Rebinds(c)
      BY <1>0, <1>3 DEF Rebinds, Acquire, ReloadNothing, TypeOK
    <2> QED
      BY <1>1, <2>1, <2>2
  <1>4. ASSUME NEW c \in Calls, ReleasePin(c) PROVE EpochInv'
    <2>1. Call(c) /\ UNCHANGED <<active, epoch, closed>>
      BY <1>4 DEF Call, ReleasePin
    <2>2. Rebinds(c)
      BY <1>0, <1>4 DEF Rebinds, ReleasePin, TypeOK
    <2> QED
      BY <1>1, <2>1, <2>2
  <1>5. ASSUME NEW c \in Calls, CommitReload(c) PROVE EpochInv'
    <2>1. Call(c) /\ epoch' = epoch + 1
      BY <1>5 DEF Call, CommitReload, Activate
    <2>2. Rebinds(c)
      BY <1>0, <1>5 DEF Rebinds, CommitReload, Activate, TypeOK
    <2> QED
      BY <1>1, <2>1, <2>2
  <1>6. ASSUME NEW c \in Calls, CommitSwitch(c) PROVE EpochInv'
    <2>1. Call(c) /\ epoch' = epoch + 1 /\ Rebinds(c)
      BY <1>6 DEF Call, CommitSwitch, Activate, Rebinds
    <2> QED
      BY <1>1, <2>1
  <1>7. ASSUME UNCHANGED <<epoch, callVars>>, UNCHANGED <<active, closed>> \/ closed'
        PROVE  EpochInv'
    BY <1>7 DEF callVars, Inv, EpochInv, EpochNamesOnePool
  <1>8. CASE Close
    BY <1>7, <1>8 DEF Close
  <1>9. ASSUME NEW n \in Targets, Publish(n) PROVE EpochInv'
    BY <1>7, <1>9 DEF Publish, managerVars
  <1>10. CASE Terminated
    BY <1>7, <1>10 DEF Terminated, vars, managerVars, callVars
  <1> QED
    BY <1>2, <1>3, <1>4, <1>5, <1>6, <1>8, <1>9, <1>10 DEF Next, Call

-----------------------------------------------------------------------------
(***************************************************************************)
(* The invariant.                                                          *)
(***************************************************************************)
\* It holds at the start.
LEMMA Initially == Init => Inv
  <1> SUFFICES ASSUME Init PROVE Inv
    OBVIOUS
  <1>0. /\ 1 \in PoolIds /\ None \notin PoolIds /\ 1 # None /\ 0 \in Generations
        /\ Primary \in Targets /\ MaxOpenPools >= 1 /\ MaxOpenPools \in Nat
    BY LeaseAssumption DEF Generations, None
  <1>1. Opened(Primary, 0) = [name |-> Primary, gen |-> 0, state |-> "open", refs |-> 0,
                              retired |-> FALSE, deleteOnRetire |-> FALSE]
    <2>1. Unused = [name |-> Primary, gen |-> 0, state |-> "unused", refs |-> 0,
                    retired |-> FALSE, deleteOnRetire |-> FALSE]
      BY DEF Unused
    <2> HIDE DEF Unused
    <2>2. Opened(Primary, 0) =
              [[[Unused EXCEPT !.name = Primary] EXCEPT !.gen = 0] EXCEPT !.state = "open"]
      BY DEF Opened
    <2> QED
      BY <2>1, <2>2
  <1>2. /\ pool \in [PoolIds -> Pool]
        /\ \A p \in PoolIds :
               /\ pool[p].name = Primary /\ pool[p].refs = 0 /\ ~pool[p].retired
               /\ pool[p].state = IF p = 1 THEN "open" ELSE "unused"
    <2>1. Unused = [name |-> Primary, gen |-> 0, state |-> "unused", refs |-> 0,
                    retired |-> FALSE, deleteOnRetire |-> FALSE]
      BY DEF Unused
    <2>2. Unused \in Pool /\ Opened(Primary, 0) \in Pool
      <3>1. \A s \in {"unused", "open", "closed"} :
                [name |-> Primary, gen |-> 0, state |-> s, refs |-> 0,
                 retired |-> FALSE, deleteOnRetire |-> FALSE] \in Pool
        BY <1>0 DEF Pool
      <3> QED
        BY <1>1, <2>1, <3>1
    <2>3. pool = [p \in PoolIds |-> IF p = 1 THEN Opened(Primary, 0) ELSE Unused]
      BY DEF Init
    <2>4. pool \in [PoolIds -> Pool]
      BY <2>2, <2>3
    <2>5. ASSUME NEW p \in PoolIds
          PROVE  /\ pool[p].name = Primary /\ pool[p].refs = 0 /\ ~pool[p].retired
                 /\ pool[p].state = IF p = 1 THEN "open" ELSE "unused"
      BY <1>1, <2>1, <2>3
    <2> QED
      BY <2>4, <2>5
  <1>3. TypeOK
    <2>0. files \subseteq Files
      <3>1. \A f \in files : \E n \in Targets : f = <<n, 0>>
        BY DEF Init
      <3> QED
        BY <1>0, <3>1 DEF Files
    <2>1. /\ published \in [Targets -> Generations]
          /\ specPath \in [Targets -> Generations]
          /\ loaded \in [Targets -> PoolIds \cup {None}] /\ active \in PoolIds \cup {None}
          /\ opening \in Nat /\ epoch \in Nat /\ gate \in Calls \cup {Nobody}
          /\ closed \in BOOLEAN
      BY <1>0 DEF Init
    <2>2. /\ pc \in [Calls -> Steps] /\ leaseEpoch \in [Calls -> Nat]
          /\ target \in [Calls -> Targets]
          /\ switched \in [Calls -> {"no", "unchanged", "over_budget", "database_missing",
                                     "failed", "ready", "refreshed"}]
      BY <1>0 DEF Init, Steps
    <2>3. /\ lease \in [Calls -> PoolIds \cup {None}] /\ bound \in [Calls -> PoolIds \cup {None}]
          /\ pin \in [Calls -> PoolIds \cup {None}]
          /\ candidate \in [Calls -> PoolIds \cup {None}]
      BY DEF Init
    <2> QED
      BY <1>2, <2>0, <2>1, <2>2, <2>3 DEF TypeOK, Pool
  <1>4. \A c \in Calls : /\ pc[c] = "idle" /\ lease[c] = None /\ pin[c] = None
                         /\ bound[c] = None /\ candidate[c] = None
    BY DEF Init
  <1>5. /\ active = 1 /\ opening = 0 /\ ~closed
        /\ \A n \in Targets : loaded[n] = IF n = Primary THEN 1 ELSE None
    BY DEF Init
  <1>6. GateInv /\ PlaceInv
    BY <1>4 DEF GateInv, PlaceInv, Gated
  <1>7. RegisterInv
    BY <1>0, <1>2, <1>4, <1>5 DEF RegisterInv, LoadedInv, ActiveIsUsable, CandidateInv,
       CandidateOK, RetiredInv, HeldPoolsAreOpen, IsFresh
  <1>8. RefsExact
    <2>1. ASSUME NEW p \in PoolIds
          PROVE  /\ {c \in Calls : lease[c] = p} = {} /\ {c \in Calls : pin[c] = p} = {}
                 /\ PinnedBy(p) = {}
      BY <1>0, <1>4 DEF PinnedBy
    <2> QED
      BY <1>2, <2>1, FS_EmptySet DEF RefsExact
  <1>9. BudgetInv
    <2>1. LoadedNames = {Primary}
      BY <1>0, <1>5 DEF LoadedNames
    <2>2. Cardinality(LoadedNames) = 1
      BY <2>1, FS_Singleton
    <2>3. \A c \in Calls : ~IsReserved(c)
      BY <1>4 DEF IsReserved
    <2> QED
      BY <1>0, <1>5, <2>2, <2>3 DEF BudgetInv, AccountedWithinBudget, AccountedPools
  <1>10. EpochInv
    BY <1>4 DEF EpochInv, EpochNamesOnePool
  <1> QED
    BY <1>3, <1>6, <1>7, <1>8, <1>9, <1>10 DEF Inv

\* Every step, and every stutter, keeps it.
LEMMA Preserved == Inv /\ [Next]_vars => Inv'
  <1>1. ASSUME Inv, Next PROVE Inv'
    <2>1. PoolsOK' /\ FilesOK' /\ ControlOK'
      BY <1>1, PoolsStep, FilesStep, ControlStep
    <2>2. TypeOK'
      BY <2>1 DEF PoolsOK, FilesOK, ControlOK, TypeOK, Pool
    <2>3. GateInv' /\ PlaceInv' /\ RegisterInv'
      BY <1>1, GateStep, PlaceStep, RegisterStep
    <2>4. RefsExact' /\ BudgetInv' /\ EpochInv'
      BY <1>1, RefsStep, BudgetStep, EpochStep
    <2> QED
      BY <2>2, <2>3, <2>4 DEF Inv
  <1>2. ASSUME Inv, UNCHANGED vars PROVE Inv'
    <2>1. UNCHANGED <<fileVars, managerVars, callVars>>
      BY <1>2 DEF vars
    <2>2. TypeOK' /\ GateInv' /\ PlaceInv'
      BY <1>2, <2>1 DEF Inv, TypeOK, GateInv, PlaceInv, fileVars, managerVars, callVars
    <2>3. RegisterInv'
      BY <1>2, <2>1 DEF Inv, managerVars, callVars, RegisterInv, LoadedInv, ActiveIsUsable,
         CandidateInv, CandidateOK, RetiredInv, HeldPoolsAreOpen, IsFresh, IsNewlyOpened
    <2>4. RefsExact' /\ BudgetInv' /\ EpochInv'
      <3>1. \A p : PinnedBy(p)' = PinnedBy(p)
        BY <2>1 DEF managerVars, callVars, PinnedBy, IsNewlyOpened
      <3>2. RefsExact'
        BY <1>2, <2>1, <3>1 DEF Inv, managerVars, callVars, RefsExact
      <3>3. BudgetInv'
        BY <1>2, <2>1 DEF Inv, managerVars, callVars, BudgetInv, AccountedWithinBudget,
           AccountedPools, LoadedNames, IsReserved, IsNewlyOpened
      <3>4. EpochInv'
        BY <1>2, <2>1 DEF Inv, managerVars, callVars, EpochInv, EpochNamesOnePool
      <3> QED
        BY <3>2, <3>3, <3>4
    <2> QED
      BY <2>2, <2>3, <2>4 DEF Inv
  <1> QED
    BY <1>1, <1>2

\* The invariant holds in every reachable state.
LEMMA Invariance == Spec => []Inv
  BY Initially, Preserved, PTL DEF Spec

-----------------------------------------------------------------------------
(***************************************************************************)
(* The theorems.                                                           *)
(***************************************************************************)
\* Every variable of the manager, of the file system and of the calls keeps its
\* type, reference counts and the reservation never below zero among them.
THEOREM TypeCorrect == Spec => []TypeOK
  BY Invariance, PTL DEF Inv

\* A pool has exactly the references its leases, rebound calls, and pinned
\* switches and reloads account for, whatever failed or was repeated.
THEOREM CountsExact == Spec => []RefsExact
  BY Invariance, PTL DEF Inv

\* acquire, Switch, ReloadCurrent, release and Close never close a pool
\* somebody holds a reference of.
THEOREM HeldStayOpen == Spec => []HeldPoolsAreOpen
  BY Invariance, PTL DEF Inv, RegisterInv

\* Every open pool has somebody who will close it.
THEOREM PoolsAreClosed == Spec => []NoPoolLeaks
  <1>1. Inv => NoPoolLeaks
    BY LeaseAssumption DEF Inv, RegisterInv, RetiredInv, NoPoolLeaks
  <1> QED
    BY <1>1, Invariance, PTL

\* The pool new leases start on is open, not retired, and registered.
THEOREM ActiveServes == Spec => []ActiveIsUsable
  BY Invariance, PTL DEF Inv, RegisterInv

\* max_open_database_pools bounds the open pools, but for those a reload replaced
\* or has opened and not yet put in place.
THEOREM WithinBudget == Spec => []PoolsWithinBudget
  <1>1. Init => ChargedInv
    <2> SUFFICES ASSUME Init PROVE ChargedInv
      OBVIOUS
    <2>1. \A p \in PoolIds : ~pool[p].retired
      <3>1. pool = [p \in PoolIds |-> IF p = 1 THEN Opened(Primary, 0) ELSE Unused]
        BY DEF Init
      <3>2. ~Opened(Primary, 0).retired /\ ~Unused.retired
        BY DEF Opened, Unused
      <3> QED
        BY <3>1, <3>2
    <2>2. \A c \in Calls : pc[c] = "idle"
      BY DEF Init
    <2> QED
      BY <2>1, <2>2 DEF ChargedInv, NameIsFree, IsKept, IsReserved
  <1>2. Inv /\ ChargedInv /\ [Next]_vars => ChargedInv'
    <2>1. ASSUME UNCHANGED vars PROVE ChargedInv => ChargedInv'
      BY <2>1 DEF vars, managerVars, callVars, ChargedInv, NameIsFree, IsReserved,
         IsNewlyOpened, IsKept
    <2> QED
      BY <2>1, ChargedStep
  <1>3. Inv /\ ChargedInv => PoolsWithinBudget
    BY ChargedAreAccounted
  <1> QED
    BY <1>1, <1>2, <1>3, Invariance, PTL DEF Spec

\* Calls that report the same epoch read the same pool.
THEOREM OneEpochOnePool == Spec => []EpochNamesOnePool
  BY Invariance, PTL DEF Inv, EpochInv
=============================================================================
