------------------------ MODULE TaskSchedulerProofs ------------------------
(***************************************************************************)
(* Theorems about TaskScheduler, for every number of requests and every    *)
(* limit.                                                                  *)
(***************************************************************************)
EXTENDS TaskScheduler, FiniteSetTheorems, TLAPS

(***************************************************************************)
(* Counting.                                                               *)
(***************************************************************************)
\* The limiter l counts the running set R and the waiting set Q under cl.
Of(S, cl, C) == {r \in S : cl[r] \in C}

\* What the member x adds to the count of the classes C.
Weight(x, cl, C) == IF cl[x] \in C THEN 1 ELSE 0

Counts(l, R, Q, cl) ==
    /\ l \in [Counters -> Nat]
    /\ l.active = Cardinality(R)
    /\ l.heavy = Cardinality(Of(R, cl, {"heavy"}))
    /\ l.raster = Cardinality(Of(R, cl, {"raster"}))
    /\ l.queued = Cardinality(Q)
    /\ l.queuedHeavy = Cardinality(Of(Q, cl, {"heavy"}))
    /\ l.queuedRaster = Cardinality(Of(Q, cl, {"raster"}))

\* Any set of requests is finite, and so are its parts by class.
LEMMA RequestsFinite ==
    ASSUME NEW S, S \subseteq Requests
    PROVE  IsFiniteSet(S) /\ Cardinality(S) \in Nat
  <1>1. IsFiniteSet(Requests)
    BY LimitAssumption, FS_Interval DEF Requests
  <1>2. IsFiniteSet(S)
    BY <1>1, FS_Subset
  <1> QED
    BY <1>2, FS_CardinalityType

\* One more member, one more counted, if it is of the class.
LEMMA OfAdd ==
    ASSUME NEW S, S \subseteq Requests, NEW cl, NEW C,
           NEW x \in Requests, x \notin S
    PROVE  /\ Cardinality(S \cup {x}) = Cardinality(S) + 1
           /\ Cardinality(Of(S \cup {x}, cl, C)) =
                  Cardinality(Of(S, cl, C)) + Weight(x, cl, C)
  <1>1. IsFiniteSet(S) /\ IsFiniteSet(Of(S, cl, C)) /\ Cardinality(Of(S, cl, C)) \in Nat
    BY RequestsFinite DEF Of
  <1>2. Cardinality(S \cup {x}) = Cardinality(S) + 1
    BY <1>1, FS_AddElement
  <1>3. CASE cl[x] \in C
    <2>1. Of(S \cup {x}, cl, C) = Of(S, cl, C) \cup {x} /\ x \notin Of(S, cl, C)
      BY <1>3 DEF Of
    <2>2. Cardinality(Of(S \cup {x}, cl, C)) = Cardinality(Of(S, cl, C)) + 1
      BY <1>1, <2>1, FS_AddElement
    <2> QED
      BY <1>2, <1>3, <2>2 DEF Weight
  <1>4. CASE cl[x] \notin C
    <2>1. Of(S \cup {x}, cl, C) = Of(S, cl, C)
      BY <1>4 DEF Of
    <2> QED
      BY <1>1, <1>2, <1>4, <2>1 DEF Weight
  <1> QED
    BY <1>3, <1>4

\* One member less.
LEMMA OfRemove ==
    ASSUME NEW S, S \subseteq Requests, NEW cl, NEW C, NEW x \in S
    PROVE  /\ Cardinality(S \ {x}) = Cardinality(S) - 1
           /\ Cardinality(S) > 0
           /\ Cardinality(Of(S \ {x}, cl, C)) =
                  Cardinality(Of(S, cl, C)) - Weight(x, cl, C)
           /\ cl[x] \in C => Cardinality(Of(S, cl, C)) > 0
  <1> DEFINE T == S \ {x}
  <1>1. T \subseteq Requests /\ x \in Requests /\ x \notin T /\ S = T \cup {x}
    OBVIOUS
  <1> HIDE DEF T
  <1>2. /\ Cardinality(T \cup {x}) = Cardinality(T) + 1
        /\ Cardinality(Of(T \cup {x}, cl, C)) =
               Cardinality(Of(T, cl, C)) + Weight(x, cl, C)
    BY <1>1, OfAdd
  <1>3. Cardinality(T) \in Nat
    BY <1>1, RequestsFinite
  <1>4. Cardinality(Of(T, cl, C)) \in Nat
    BY <1>1, RequestsFinite DEF Of
  <1>5. /\ Cardinality(S) = Cardinality(T) + 1
        /\ Cardinality(Of(S, cl, C)) =
               Cardinality(Of(T, cl, C)) + Weight(x, cl, C)
    BY <1>1, <1>2
  <1>6. /\ Cardinality(T) = Cardinality(S) - 1
        /\ Cardinality(S) > 0
        /\ Cardinality(Of(T, cl, C)) =
               Cardinality(Of(S, cl, C)) - Weight(x, cl, C)
        /\ cl[x] \in C => Cardinality(Of(S, cl, C)) > 0
    BY <1>3, <1>4, <1>5 DEF Weight
  <1> QED
    BY <1>6 DEF T

\* A whole subset leaves.
LEMMA SetDifference ==
    ASSUME NEW S, S \subseteq Requests, NEW T \in SUBSET S
    PROVE  Cardinality(S \ T) = Cardinality(S) - Cardinality(T)
  <1>1. IsFiniteSet(S) /\ S \cap T = T
    BY RequestsFinite
  <1>2. Cardinality(S \ T) = Cardinality(S) - Cardinality(S \cap T)
    BY <1>1, FS_Difference
  <1> QED
    BY <1>1, <1>2

\* The part of one class of a set whose subset S leaves.
LEMMA OfDifference ==
    ASSUME NEW S, S \subseteq Requests, NEW cl, NEW C, NEW T \in SUBSET S
    PROVE  Cardinality(Of(S \ T, cl, C)) = Cardinality(Of(S, cl, C)) - Cardinality(Of(T, cl, C))
  <1> DEFINE A == Of(S, cl, C)
             B == Of(T, cl, C)
  <1>1. A \subseteq Requests /\ B \in SUBSET A /\ Of(S \ T, cl, C) = A \ B
    BY DEF Of
  <1> HIDE DEF A, B
  <1>2. Cardinality(A \ B) = Cardinality(A) - Cardinality(B)
    BY <1>1, SetDifference
  <1> QED
    BY <1>1, <1>2 DEF A, B

\* Setting the counters of the running calls, and those of the waiting ones.
SetRunning(l, i, j, k) == [l EXCEPT !.active = i, !.heavy = j, !.raster = k]
SetQueued(l, i, j, k) ==
    [l EXCEPT !.queued = i, !.queuedHeavy = j, !.queuedRaster = k]

\* The fields of a limiter are natural numbers.
LEMMA CountsNat ==
    ASSUME NEW l, l \in [Counters -> Nat]
    PROVE  /\ l.active \in Nat /\ l.heavy \in Nat /\ l.raster \in Nat
           /\ l.queued \in Nat /\ l.queuedHeavy \in Nat /\ l.queuedRaster \in Nat
  BY DEF Counters

\* When one call starts or stops running, the running counts move by one.
LEMMA SetRunningCounts ==
    ASSUME NEW l, NEW R, NEW Q, NEW cl, Counts(l, R, Q, cl),
           NEW N, N \subseteq Requests,
           NEW i, i = Cardinality(N),
           NEW j, j = Cardinality(Of(N, cl, {"heavy"})),
           NEW k, k = Cardinality(Of(N, cl, {"raster"}))
    PROVE  Counts(SetRunning(l, i, j, k), N, Q, cl)
  <1>1. i \in Nat /\ j \in Nat /\ k \in Nat
    BY RequestsFinite DEF Of
  <1>2. l \in [Counters -> Nat]
    BY DEF Counts
  <1>3. LET a == SetRunning(l, i, j, k)
        IN  /\ a \in [Counters -> Nat]
            /\ a.active = i /\ a.heavy = j /\ a.raster = k
            /\ a.queued = l.queued
            /\ a.queuedHeavy = l.queuedHeavy
            /\ a.queuedRaster = l.queuedRaster
    BY <1>1, <1>2 DEF SetRunning, Counters
  <1> QED
    BY <1>3 DEF Counts

\* When one call enters or leaves the queue, the waiting counts move by one.
LEMMA SetQueuedCounts ==
    ASSUME NEW l, NEW R, NEW Q, NEW cl, Counts(l, R, Q, cl),
           NEW N, N \subseteq Requests,
           NEW i, i = Cardinality(N),
           NEW j, j = Cardinality(Of(N, cl, {"heavy"})),
           NEW k, k = Cardinality(Of(N, cl, {"raster"}))
    PROVE  Counts(SetQueued(l, i, j, k), R, N, cl)
  <1>1. i \in Nat /\ j \in Nat /\ k \in Nat
    BY RequestsFinite DEF Of
  <1>2. l \in [Counters -> Nat]
    BY DEF Counts
  <1>3. LET a == SetQueued(l, i, j, k)
        IN  /\ a \in [Counters -> Nat]
            /\ a.queued = i /\ a.queuedHeavy = j /\ a.queuedRaster = k
            /\ a.active = l.active
            /\ a.heavy = l.heavy
            /\ a.raster = l.raster
    BY <1>1, <1>2 DEF SetQueued, Counters
  <1> QED
    BY <1>3 DEF Counts

\* Calls that are not counted may change their class.
LEMMA CountsOfOthers ==
    ASSUME NEW l, NEW R, NEW Q, NEW cl, NEW new, Counts(l, R, Q, cl),
           \A x \in R \cup Q : new[x] = cl[x]
    PROVE  Counts(l, R, Q, new)
  <1>1. \A C : Of(R, new, C) = Of(R, cl, C) /\ Of(Q, new, C) = Of(Q, cl, C)
    BY DEF Of
  <1> QED
    BY <1>1 DEF Counts

\* acquire: a call starts.
LEMMA AcquireCounts ==
    ASSUME NEW l, NEW R, NEW Q, NEW cl,
           R \subseteq Requests, Counts(l, R, Q, cl),
           NEW x \in Requests, x \notin R
    PROVE  Counts(acquire(l, cl[x]), R \cup {x}, Q, cl)
  <1> DEFINE N == R \cup {x}
             i == Cardinality(N)
             j == Cardinality(Of(N, cl, {"heavy"}))
             k == Cardinality(Of(N, cl, {"raster"}))
  <1>1. i = l.active + 1
    BY OfAdd DEF Counts
  <1>2. j = l.heavy + Weight(x, cl, {"heavy"})
    BY OfAdd DEF Counts
  <1>3. k = l.raster + Weight(x, cl, {"raster"})
    BY OfAdd DEF Counts
  <1>4. N \subseteq Requests
    OBVIOUS
  <1> HIDE DEF i, j, k
  <1>5. acquire(l, cl[x]) = SetRunning(l, i, j, k)
    BY <1>1, <1>2, <1>3 DEF acquire, SetRunning, One, Weight
  <1>6. Counts(SetRunning(l, i, j, k), N, Q, cl)
    BY <1>4, SetRunningCounts DEF i, j, k
  <1> QED
    BY <1>5, <1>6

\* release: a running call ends.
LEMMA ReleaseCounts ==
    ASSUME NEW l, NEW R, NEW Q, NEW cl,
           R \subseteq Requests, Counts(l, R, Q, cl), NEW x \in R
    PROVE  Counts(release(l, cl[x]), R \ {x}, Q, cl)
  <1> DEFINE N == R \ {x}
             i == Cardinality(N)
             j == Cardinality(Of(N, cl, {"heavy"}))
             k == Cardinality(Of(N, cl, {"raster"}))
  <1>1. i = l.active - 1 /\ l.active > 0
    BY OfRemove DEF Counts
  <1>2. /\ j = l.heavy - Weight(x, cl, {"heavy"})
        /\ cl[x] \in {"heavy"} => l.heavy > 0
    <2>1. /\ j = Cardinality(Of(R, cl, {"heavy"})) - Weight(x, cl, {"heavy"})
          /\ cl[x] \in {"heavy"} => Cardinality(Of(R, cl, {"heavy"})) > 0
      BY OfRemove
    <2> QED
      BY <2>1 DEF Counts
  <1>3. /\ k = l.raster - Weight(x, cl, {"raster"})
        /\ cl[x] \in {"raster"} => l.raster > 0
    <2>1. /\ k = Cardinality(Of(R, cl, {"raster"})) - Weight(x, cl, {"raster"})
          /\ cl[x] \in {"raster"} => Cardinality(Of(R, cl, {"raster"})) > 0
      BY OfRemove
    <2> QED
      BY <2>1 DEF Counts
  <1>4. N \subseteq Requests
    OBVIOUS
  <1>5. l.active \in Nat
    BY CountsNat DEF Counts
  <1> HIDE DEF i, j, k
  <1>6. /\ ~(l.active <= 0)
        /\ One(cl[x] = "heavy" /\ l.heavy > 0) = Weight(x, cl, {"heavy"})
        /\ One(cl[x] = "raster" /\ l.raster > 0) = Weight(x, cl, {"raster"})
    BY <1>1, <1>2, <1>3, <1>5 DEF One, Weight
  <1>7. release(l, cl[x]) = SetRunning(l, i, j, k)
    BY <1>1, <1>2, <1>3, <1>6 DEF release, SetRunning
  <1>8. Counts(SetRunning(l, i, j, k), N, Q, cl)
    BY <1>4, SetRunningCounts DEF i, j, k
  <1> QED
    BY <1>7, <1>8

\* enqueue: a call waits.
LEMMA EnqueueCounts ==
    ASSUME NEW l, NEW R, NEW Q, NEW cl,
           Q \subseteq Requests, Counts(l, R, Q, cl),
           NEW x \in Requests, x \notin Q
    PROVE  Counts(enqueue(l, cl[x]), R, Q \cup {x}, cl)
  <1> DEFINE N == Q \cup {x}
             i == Cardinality(N)
             j == Cardinality(Of(N, cl, {"heavy"}))
             k == Cardinality(Of(N, cl, {"raster"}))
  <1>1. i = l.queued + 1
    BY OfAdd DEF Counts
  <1>2. j = l.queuedHeavy + Weight(x, cl, {"heavy"})
    BY OfAdd DEF Counts
  <1>3. k = l.queuedRaster + Weight(x, cl, {"raster"})
    BY OfAdd DEF Counts
  <1>4. N \subseteq Requests
    OBVIOUS
  <1> HIDE DEF i, j, k
  <1>5. enqueue(l, cl[x]) = SetQueued(l, i, j, k)
    BY <1>1, <1>2, <1>3 DEF enqueue, SetQueued, One, Weight
  <1>6. Counts(SetQueued(l, i, j, k), R, N, cl)
    BY <1>4, SetQueuedCounts DEF i, j, k
  <1> QED
    BY <1>5, <1>6

\* dequeue: some waiting calls leave.
LEMMA DequeueCounts ==
    ASSUME NEW l, NEW R, NEW Q, Q \subseteq Requests,
           Counts(l, R, Q, class), NEW S \in SUBSET Q
    PROVE  Counts(dequeueAll(l, S), R, Q \ S, class)
  <1> DEFINE N == Q \ S
             i == Cardinality(N)
             j == Cardinality(Of(N, class, {"heavy"}))
             k == Cardinality(Of(N, class, {"raster"}))
  <1>1. i = l.queued - Cardinality(S)
    BY SetDifference DEF Counts
  <1>2. j = l.queuedHeavy - Cardinality(Of(S, class, {"heavy"}))
    BY OfDifference DEF Counts
  <1>3. k = l.queuedRaster - Cardinality(Of(S, class, {"raster"}))
    BY OfDifference DEF Counts
  <1>4. /\ Of(S, class, {"heavy"}) = {r \in S : class[r] = "heavy"}
        /\ Of(S, class, {"raster"}) = {r \in S : class[r] = "raster"}
    BY DEF Of
  <1>5. N \subseteq Requests
    OBVIOUS
  <1>6. i \in Nat /\ j \in Nat /\ k \in Nat
    BY <1>5, RequestsFinite DEF Of
  <1>7. /\ l.queued \in Nat /\ l.queuedHeavy \in Nat /\ l.queuedRaster \in Nat
    BY CountsNat DEF Counts
  <1>8. /\ Cardinality(S) \in Nat
        /\ Cardinality(Of(S, class, {"heavy"})) \in Nat
        /\ Cardinality(Of(S, class, {"raster"})) \in Nat
    BY RequestsFinite DEF Of
  <1> HIDE DEF i, j, k
  <1>9. /\ Without(l.queued, S) = i
        /\ Without(l.queuedHeavy, Of(S, class, {"heavy"})) = j
        /\ Without(l.queuedRaster, Of(S, class, {"raster"})) = k
    BY <1>1, <1>2, <1>3, <1>6, <1>7, <1>8 DEF Without
  <1>10. dequeueAll(l, S) = SetQueued(l, i, j, k)
    BY <1>4, <1>9 DEF dequeueAll, SetQueued
  <1>11. Counts(SetQueued(l, i, j, k), R, N, class)
    BY <1>5, SetQueuedCounts DEF i, j, k
  <1> QED
    BY <1>10, <1>11


(***************************************************************************)
(* The inductive invariant.  CountersExact alone is not inductive: a new   *)
(* call must not be counted already (SeenInv), and the goroutines stay     *)
(* within the limits after the loop gave up because they did before        *)
(* (BusyWithin), when each held a slot (BusyRuns).  TypeOK needs to know   *)
(* that a result in the channel is one (HasOutcome).                       *)
(***************************************************************************)
Counted == Counts(limiter, Running, Queued, class)

SeenInv == \A r \in Requests : phase[r] # "unseen" => r \in seen

Within(l) ==
    /\ l.active <= MaxTasks
    /\ l.heavy + l.raster <= MaxHeavy
    /\ l.raster <= MaxRaster
    /\ l.queued <= MaxQueued

\* The goroutines B, with classes cl, are within the limits.
Bounded(B, cl) ==
    /\ Cardinality(B) <= MaxTasks
    /\ Cardinality(Of(B, cl, {"heavy", "raster"})) <= MaxHeavy
    /\ Cardinality(Of(B, cl, {"raster"})) <= MaxRaster

Busy == Executing \cup Delivered

BusyRuns == ~Ended => Busy \subseteq Running

BusyWithin == Bounded(Busy, class)

HasOutcome == \A r \in Delivered : outcome[r] # "none"

IInv ==
    TypeOK /\ Counted /\ SeenInv /\ Within(limiter) /\ BusyRuns /\ BusyWithin /\ HasOutcome

\* Steps that leave the task map and the limiter alone, occupy no goroutine
\* and do not revive the loop.
Quiet ==
    /\ UNCHANGED <<limiter, phase, class>>
    /\ Busy' \subseteq Busy
    /\ Ended => Ended'

\* What a step can be, as far as the task map and the limiter are concerned.
LEMMA StepCases ==
    ASSUME TypeOK, [Next]_vars
    PROVE  \/ Quiet
           \/ \E r \in Requests : ReceiveImmediate(r)
           \/ \E r \in Requests, c \in Classes : StartCall(r, c)
           \/ \E r \in Requests, c \in Classes : QueueCall(r, c)
           \/ \E r \in Requests, c \in Classes : RefuseCall(r, c)
           \/ \E r \in Requests : CancelQueued(r)
           \/ CloseInput
           \/ Abort
           \/ \E r \in Requests : expireQueued(r)
           \/ \E r \in Requests : ReceiveResult(r)
           \/ \E r \in Requests : DispatchNext(r)
           \/ ReturnDrained
  <1> USE DEF Quiet, Busy, Executing, Delivered, Ended
  <1>1. CASE Receive
    BY <1>1 DEF Receive, ReceiveDuplicate, NotifyInitialized, CancelRunning, FatalInput,
                loopVars, workVars
  <1>2. CASE Loop
    BY <1>2 DEF Loop, StopOnShutdown, DispatchDone, Write, WriteFails, workVars
  <1>3. CASE Shutdown
    BY <1>3 DEF Shutdown, workVars
  <1>4. ASSUME NEW r \in Requests, Goroutine(r) PROVE Quiet
    <2>1. CASE Commit(r) \/ Deadline(r)
      BY <2>1 DEF Commit, Deadline, loopVars, workVars
    <2>2. CASE Deliver(r) \/ Discard(r)
      BY <2>2 DEF Deliver, Discard, loopVars, TypeOK
    <2> QED
      BY <1>4, <2>1, <2>2 DEF Goroutine
  <1>5. CASE Terminated \/ UNCHANGED vars
    BY <1>5 DEF Terminated, vars, loopVars, workVars
  <1> QED
    BY <1>1, <1>2, <1>3, <1>4, <1>5 DEF Next

\* A request that is fresh is in no set of tasks.
LEMMA FreshIsUnseen ==
    ASSUME TypeOK, SeenInv, NEW r \in Requests, Fresh(r)
    PROVE  phase[r] = "unseen"
  BY DEF SeenInv, Fresh, AlreadySeen, TypeOK

\* The counters agree with the task map after every step.
LEMMA CountedStep ==
    ASSUME IInv, [Next]_vars
    PROVE  Counted'
  <1> USE DEF IInv
  <1>0. Running \subseteq Requests /\ Queued \subseteq Requests /\ Counts(limiter, Running, Queued, class)
    BY DEF Running, Queued, Counted
  <1>1. CASE Quiet
    BY <1>1 DEF Counted, Quiet, Running, Queued
  <1>2. ASSUME NEW r \in Requests, ReceiveImmediate(r) PROVE Counted'
    <2>1. phase[r] = "unseen"
      BY <1>2, FreshIsUnseen DEF ReceiveImmediate
    <2>2. Running' = Running /\ Queued' = Queued /\ UNCHANGED <<limiter, class>>
      BY <1>2, <2>1 DEF ReceiveImmediate, Running, Queued, TypeOK
    <2> QED
      BY <1>0, <2>2 DEF Counted
  <1>3. ASSUME NEW r \in Requests, NEW c \in Classes, StartCall(r, c) PROVE Counted'
    <2>1. phase[r] = "unseen"
      BY <1>3, FreshIsUnseen DEF StartCall, ReceiveCall
    <2>2. /\ Running' = Running \cup {r} /\ r \notin Running \cup Queued
          /\ Queued' = Queued
          /\ class'[r] = c /\ \A x \in Running \cup Queued : class'[x] = class[x]
          /\ limiter' = acquire(limiter, c)
      BY <1>3, <2>1 DEF StartCall, ReceiveCall, startTask, Running, Queued, TypeOK
    <2>3. Counts(limiter, Running, Queued, class')
      BY <1>0, <2>2, CountsOfOthers
    <2>4. Counts(acquire(limiter, class'[r]), Running \cup {r}, Queued, class')
      BY <1>0, <2>2, <2>3, AcquireCounts
    <2> QED
      BY <2>2, <2>4 DEF Counted
  <1>4. ASSUME NEW r \in Requests, NEW c \in Classes, QueueCall(r, c) PROVE Counted'
    <2>1. phase[r] = "unseen"
      BY <1>4, FreshIsUnseen DEF QueueCall, ReceiveCall
    <2>2. /\ Queued' = Queued \cup {r} /\ r \notin Running \cup Queued
          /\ Running' = Running
          /\ class'[r] = c /\ \A x \in Running \cup Queued : class'[x] = class[x]
          /\ limiter' = enqueue(limiter, c)
      BY <1>4, <2>1 DEF QueueCall, ReceiveCall, Running, Queued, TypeOK
    <2>3. Counts(limiter, Running, Queued, class')
      BY <1>0, <2>2, CountsOfOthers
    <2>4. Counts(enqueue(limiter, class'[r]), Running, Queued \cup {r}, class')
      BY <1>0, <2>2, <2>3, EnqueueCounts
    <2> QED
      BY <2>2, <2>4 DEF Counted
  <1>5. ASSUME NEW r \in Requests, NEW c \in Classes, RefuseCall(r, c) PROVE Counted'
    <2>1. phase[r] = "unseen"
      BY <1>5, FreshIsUnseen DEF RefuseCall, ReceiveCall
    <2>2. /\ Running' = Running /\ Queued' = Queued
          /\ \A x \in Running \cup Queued : class'[x] = class[x]
          /\ limiter' = limiter
      BY <1>5, <2>1 DEF RefuseCall, ReceiveCall, Running, Queued, TypeOK
    <2>3. Counts(limiter, Running, Queued, class')
      BY <1>0, <2>2, CountsOfOthers
    <2> QED
      BY <2>2, <2>3 DEF Counted
  <1>6. ASSUME NEW r \in Requests, CancelQueued(r) PROVE Counted'
    <2>1. /\ Running' = Running /\ Queued' = Queued \ {r} /\ {r} \in SUBSET Queued
          /\ limiter' = dequeueAll(limiter, {r}) /\ class' = class
      BY <1>6 DEF CancelQueued, Running, Queued, TypeOK
    <2> QED
      BY <1>0, <2>1, DequeueCounts DEF Counted
  <1>7. CASE CloseInput
    <2>1. /\ Running' = Running /\ Queued' = Queued \ Queued
          /\ limiter' = dequeueAll(limiter, Queued) /\ class' = class
      BY <1>7 DEF CloseInput, cancelTasks, Running, Queued, TypeOK
    <2> QED
      BY <1>0, <2>1, DequeueCounts DEF Counted
  <1>8. ASSUME Running' = {}, Queued' = {}, limiter' = closeLimiter PROVE Counted'
    <2>1. Of({}, class', {"heavy"}) = {} /\ Of({}, class', {"raster"}) = {}
      BY DEF Of
    <2>2. Cardinality({}) = 0
      BY FS_EmptySet
    <2>3. Counts(closeLimiter, {}, {}, class')
      BY <2>1, <2>2 DEF Counts, closeLimiter, Counters
    <2> QED
      BY <1>8, <2>3 DEF Counted
  <1>9. CASE Abort
    <2>1. Running' = {} /\ Queued' = {} /\ limiter' = closeLimiter
      BY <1>9 DEF Abort, Running, Queued, TypeOK
    <2> QED
      BY <1>8, <2>1
  <1>10. ASSUME NEW r \in Requests, expireQueued(r) PROVE Counted'
    <2> DEFINE expired == {q \in Queued : q <= r}
    <2>1. expired \in SUBSET Queued
      OBVIOUS
    <2>2. /\ phase' = [q \in Requests |-> IF q \in expired THEN "closed" ELSE phase[q]]
          /\ limiter' = dequeueAll(limiter, expired) /\ class' = class
      BY <1>10 DEF expireQueued
    <2> HIDE DEF expired
    <2>3. Running' = Running /\ Queued' = Queued \ expired
      BY <2>1, <2>2 DEF Running, Queued, TypeOK
    <2>4. Counts(dequeueAll(limiter, expired), Running, Queued \ expired, class)
      BY <1>0, <2>1, DequeueCounts
    <2> QED
      BY <2>2, <2>3, <2>4 DEF Counted
  <1>11. ASSUME NEW r \in Requests, ReceiveResult(r) PROVE Counted'
    <2>1. /\ Running' = Running \ {r} /\ Queued' = Queued /\ r \in Running
          /\ limiter' = release(limiter, class[r]) /\ class' = class
      BY <1>11 DEF ReceiveResult, Running, Queued, TypeOK
    <2> QED
      BY <1>0, <2>1, ReleaseCounts DEF Counted
  <1>12. ASSUME NEW r \in Requests, DispatchNext(r) PROVE Counted'
    <2>1. /\ Running' = Running \cup {r} /\ Queued' = Queued \ {r}
          /\ {r} \in SUBSET Queued /\ r \notin Running
          /\ limiter' = dequeueAll(acquire(limiter, class[r]), {r}) /\ class' = class
      BY <1>12 DEF DispatchNext, startTask, Running, Queued, TypeOK
    <2>2. Counts(acquire(limiter, class[r]), Running \cup {r}, Queued, class)
      BY <1>0, <2>1, AcquireCounts
    <2>3. Counts(dequeueAll(acquire(limiter, class[r]), {r}), Running \cup {r}, Queued \ {r}, class)
      BY <1>0, <2>1, <2>2, DequeueCounts
    <2> QED
      BY <2>1, <2>3 DEF Counted
  <1>13. CASE ReturnDrained
    <2>1. Running' = {} /\ Queued' = {} /\ limiter' = closeLimiter
      BY <1>13 DEF ReturnDrained, KeepsServing, Running, Queued
    <2> QED
      BY <1>8, <2>1
  <1> QED
    BY StepCases, <1>1, <1>2, <1>3, <1>4, <1>5, <1>6, <1>7, <1>9, <1>10, <1>11, <1>12, <1>13


\* The counters stay within the limits: a slot is taken only when it is free.
LEMMA WithinStep ==
    ASSUME IInv, [Next]_vars
    PROVE  Within(limiter')
  <1>1. Within(limiter) /\ limiter \in [Counters -> Nat]
    BY DEF IInv, TypeOK
  <1>2. ASSUME NEW l \in [Counters -> Nat], Within(l), NEW S \in SUBSET Requests
        PROVE  Within(dequeueAll(l, S))
    <2>1. Cardinality(S) \in Nat
      BY RequestsFinite
    <2>2. LET d == dequeueAll(l, S)
          IN  /\ d.active = l.active /\ d.heavy = l.heavy /\ d.raster = l.raster
              /\ d.queued = Without(l.queued, S)
      BY DEF dequeueAll, Counters
    <2>3. l.queued \in Nat
      BY DEF Counters
    <2> QED
      BY <1>2, <2>1, <2>2, <2>3, LimitAssumption DEF Within, Without
  <1>3. ASSUME NEW c \in Classes, CanAcquire(c)
        PROVE  /\ Within(acquire(limiter, c))
               /\ acquire(limiter, c) \in [Counters -> Nat]
    <2>1. LET a == acquire(limiter, c)
          IN  /\ a.active = limiter.active + 1
              /\ a.heavy = limiter.heavy + One(c = "heavy")
              /\ a.raster = limiter.raster + One(c = "raster")
              /\ a.queued = limiter.queued
      BY <1>1 DEF acquire, Counters
    <2>2. acquire(limiter, c) \in [Counters -> Nat]
      <3>1. acquire(limiter, c) =
                SetRunning(limiter, limiter.active + 1, limiter.heavy + One(c = "heavy"),
                           limiter.raster + One(c = "raster"))
        BY DEF acquire, SetRunning
      <3>2. /\ limiter.active + 1 \in Nat
            /\ limiter.heavy + One(c = "heavy") \in Nat
            /\ limiter.raster + One(c = "raster") \in Nat
        BY <1>1, CountsNat DEF One
      <3> QED
        BY <1>1, <3>1, <3>2 DEF SetRunning, Counters
    <2>3. limiter.active \in Nat /\ limiter.heavy \in Nat /\ limiter.raster \in Nat
      BY <1>1, CountsNat
    <2> QED
      BY <1>1, <1>3, <2>1, <2>2, <2>3, LimitAssumption
         DEF Within, CanAcquire, isExpensiveMCPTask, One, Classes
  <1>4. CASE \/ Quiet
             \/ \E r \in Requests : ReceiveImmediate(r)
             \/ \E r \in Requests, c \in Classes : RefuseCall(r, c)
    BY <1>1, <1>4 DEF Quiet, ReceiveImmediate, RefuseCall
  <1>5. ASSUME NEW r \in Requests, NEW c \in Classes, StartCall(r, c)
        PROVE  Within(limiter')
    BY <1>3, <1>5 DEF StartCall
  <1>6. ASSUME NEW r \in Requests, NEW c \in Classes, QueueCall(r, c)
        PROVE  Within(limiter')
    <2>1. /\ limiter'.active = limiter.active /\ limiter'.heavy = limiter.heavy
          /\ limiter'.raster = limiter.raster /\ limiter'.queued = limiter.queued + 1
      BY <1>1, <1>6 DEF QueueCall, enqueue, Counters
    <2>2. limiter.queued < MaxQueued /\ limiter.queued \in Nat
      BY <1>1, <1>6, CountsNat DEF QueueCall, CanEnqueue
    <2> QED
      BY <1>1, <2>1, <2>2, LimitAssumption DEF Within
  <1>7. CASE \/ \E r \in Requests : CancelQueued(r) \/ expireQueued(r)
             \/ CloseInput
    <2>1. PICK S \in SUBSET Requests : limiter' = dequeueAll(limiter, S)
      BY <1>7 DEF CancelQueued, expireQueued, CloseInput, cancelTasks, Queued
    <2> QED
      BY <1>1, <1>2, <2>1
  <1>8. CASE Abort \/ ReturnDrained
    <2>1. /\ limiter'.active = 0 /\ limiter'.heavy = 0
          /\ limiter'.raster = 0 /\ limiter'.queued = 0
      BY <1>8 DEF Abort, ReturnDrained, closeLimiter, Counters
    <2> QED
      BY <2>1, LimitAssumption DEF Within
  <1>9. ASSUME NEW r \in Requests, ReceiveResult(r) PROVE Within(limiter')
    <2>1. limiter.active \in Nat /\ limiter.heavy \in Nat /\ limiter.raster \in Nat
      BY <1>1, CountsNat
    <2> DEFINE h == One(class[r] = "heavy" /\ limiter.heavy > 0)
               k == One(class[r] = "raster" /\ limiter.raster > 0)
    <2>2. h \in {0, 1} /\ k \in {0, 1}
      BY DEF One
    <2>3. CASE limiter.active <= 0
      BY <1>1, <1>9, <2>3 DEF ReceiveResult, release
    <2>4. CASE ~(limiter.active <= 0)
      <3>1. /\ limiter'.active = limiter.active - 1
            /\ limiter'.heavy = limiter.heavy - h
            /\ limiter'.raster = limiter.raster - k
            /\ limiter'.queued = limiter.queued
        BY <1>1, <1>9, <2>4 DEF ReceiveResult, release, Counters
      <3> HIDE DEF h, k
      <3> QED
        BY <1>1, <2>1, <2>2, <3>1, LimitAssumption DEF Within
    <2> QED
      BY <2>3, <2>4
  <1>10. ASSUME NEW r \in Requests, DispatchNext(r) PROVE Within(limiter')
    <2>1. /\ CanAcquire(class[r]) /\ class[r] \in Classes
          /\ limiter' = dequeueAll(acquire(limiter, class[r]), {r})
      BY <1>10 DEF DispatchNext, IsNext, IInv, TypeOK
    <2> QED
      BY <1>2, <1>3, <2>1
  <1> QED
    BY StepCases, <1>4, <1>5, <1>6, <1>7, <1>8, <1>9, <1>10 DEF IInv

\* A subset of a set of requests has no more members than it.
LEMMA SmallerSet ==
    ASSUME NEW T, T \subseteq Requests, NEW S, S \subseteq T
    PROVE  /\ Cardinality(S) <= Cardinality(T)
           /\ Cardinality(S) \in Nat /\ Cardinality(T) \in Nat
  BY RequestsFinite, FS_Subset

\* Goroutines of running calls are within the limits when the counters are.
LEMMA BoundedByCounts ==
    ASSUME NEW l, NEW R, NEW Q, NEW cl,
           R \subseteq Requests, Counts(l, R, Q, cl), Within(l)
    PROVE  Bounded(R, cl)
  <1> DEFINE H == Of(R, cl, {"heavy"})
             K == Of(R, cl, {"raster"})
  <1>1. Of(R, cl, {"heavy", "raster"}) = H \cup K /\ H \cap K = {}
    BY DEF Of
  <1>2. IsFiniteSet(H) /\ IsFiniteSet(K)
    BY RequestsFinite DEF Of
  <1>3. Cardinality(H \cap K) = 0
    BY <1>1, FS_EmptySet
  <1>4. Cardinality(H) \in Nat /\ Cardinality(K) \in Nat
    BY <1>2, FS_CardinalityType
  <1> HIDE DEF H, K
  <1>5. Cardinality(H \cup K) = Cardinality(H) + Cardinality(K) - Cardinality(H \cap K)
    BY <1>2, FS_Union
  <1>6. Cardinality(H \cup K) = Cardinality(H) + Cardinality(K)
    BY <1>3, <1>4, <1>5
  <1> QED
    BY <1>1, <1>6 DEF Counts, Within, Bounded, H, K

\* The limits hold for any part of a set of goroutines that keeps them.
LEMMA BoundedSubset ==
    ASSUME NEW R, R \subseteq Requests, NEW cl, NEW new, Bounded(R, cl),
           NEW B, B \subseteq R, \A x \in B : new[x] = cl[x]
    PROVE  Bounded(B, new)
  <1>1. ASSUME NEW C
        PROVE  /\ Cardinality(Of(B, new, C)) <= Cardinality(Of(R, cl, C))
               /\ Cardinality(Of(B, new, C)) \in Nat /\ Cardinality(Of(R, cl, C)) \in Nat
    <2>1. Of(B, new, C) \subseteq Of(R, cl, C) /\ Of(R, cl, C) \subseteq Requests
      BY DEF Of
    <2> QED
      BY <2>1, SmallerSet
  <1>2. Cardinality(B) <= Cardinality(R) /\ Cardinality(B) \in Nat /\ Cardinality(R) \in Nat
    BY SmallerSet
  <1>3. /\ Cardinality(Of(B, new, {"heavy", "raster"})) <= MaxHeavy
        /\ Cardinality(Of(B, new, {"raster"})) <= MaxRaster
    BY <1>1, LimitAssumption DEF Bounded
  <1> QED
    BY <1>2, <1>3, LimitAssumption DEF Bounded

\* While the loop serves, every goroutine belongs to a running call.
LEMMA BusyRunsStep ==
    ASSUME IInv, [Next]_vars
    PROVE  BusyRuns'
  <1> USE DEF IInv, Busy, Executing, Delivered, Ended
  <1>1. CASE Quiet
    BY <1>1 DEF Quiet, BusyRuns, Running
  <1>2. CASE Abort \/ ReturnDrained
    BY <1>2 DEF Abort, ReturnDrained, BusyRuns
  <1>3. ASSUME AtSelect, UNCHANGED work, \A x \in Running : phase'[x] = phase[x]
        PROVE  BusyRuns'
    BY <1>3 DEF BusyRuns, Running, AtSelect
  <1>4. ASSUME NEW r \in Requests,
               \/ ReceiveImmediate(r)
               \/ \E c \in Classes : QueueCall(r, c) \/ RefuseCall(r, c)
        PROVE  BusyRuns'
    <2>1. Fresh(r) /\ AtSelect /\ UNCHANGED work
      BY <1>4 DEF ReceiveImmediate, QueueCall, RefuseCall, ReceiveCall, Fresh, Arrives, workVars
    <2>2. phase[r] = "unseen"
      BY <2>1, FreshIsUnseen
    <2> QED
      BY <1>3, <1>4, <2>1, <2>2
         DEF ReceiveImmediate, QueueCall, RefuseCall, Running, TypeOK
  <1>5. ASSUME NEW r \in Requests, NEW c \in Classes, StartCall(r, c) PROVE BusyRuns'
    <2>1. phase[r] = "unseen"
      BY <1>5, FreshIsUnseen DEF StartCall, ReceiveCall
    <2> QED
      BY <1>5, <2>1
         DEF StartCall, startTask, ReceiveCall, Fresh, Arrives, AtSelect, BusyRuns, Running, TypeOK
  <1>6. CASE \/ \E r \in Requests : CancelQueued(r) \/ expireQueued(r)
             \/ CloseInput
    <2>1. ASSUME NEW r \in Requests, CancelQueued(r) PROVE BusyRuns'
      BY <1>3, <2>1 DEF CancelQueued, Queued, Running, workVars, TypeOK
    <2>2. ASSUME NEW r \in Requests, expireQueued(r) PROVE BusyRuns'
      BY <1>3, <2>2 DEF expireQueued, Queued, Running, workVars
    <2>3. CASE CloseInput
      BY <1>3, <2>3 DEF CloseInput, cancelTasks, Queued, Running, workVars
    <2> QED
      BY <1>6, <2>1, <2>2, <2>3
  <1>7. ASSUME NEW r \in Requests, ReceiveResult(r) PROVE BusyRuns'
    BY <1>7 DEF ReceiveResult, AtSelect, BusyRuns, Running, TypeOK
  <1>8. ASSUME NEW r \in Requests, DispatchNext(r) PROVE BusyRuns'
    BY <1>8 DEF DispatchNext, startTask, loopVars, BusyRuns, Running, TypeOK
  <1> QED
    BY StepCases, <1>1, <1>2, <1>4, <1>5, <1>6, <1>7, <1>8

\* The goroutines stay within the limits, also those that outlive the loop.
LEMMA BusyWithinStep ==
    ASSUME IInv, [Next]_vars
    PROVE  BusyWithin'
  <1> USE DEF IInv
  <1>1. CASE ~Ended'
    <2>1. Busy' \subseteq Running' /\ Running' \subseteq Requests
      BY <1>1, BusyRunsStep DEF BusyRuns, Running
    <2>2. Bounded(Running', class')
      BY <2>1, CountedStep, WithinStep, BoundedByCounts DEF Counted
    <2> QED
      BY <2>1, <2>2, BoundedSubset DEF BusyWithin
  <1>2. CASE Ended'
    <2>1. Busy' \subseteq Busy /\ class' = class
      BY <1>2, StepCases
         DEF Quiet, Abort, ReturnDrained, ReceiveImmediate, StartCall, QueueCall, RefuseCall,
             ReceiveCall, Fresh, Arrives, AtSelect, CancelQueued, CloseInput, expireQueued,
             ReceiveResult, DispatchNext, loopVars, workVars, Ended, Busy, Executing, Delivered
    <2>2. Busy \subseteq Requests
      BY DEF Busy, Executing, Delivered
    <2> QED
      BY <2>1, <2>2, BoundedSubset DEF BusyWithin
  <1> QED
    BY <1>1, <1>2

\* Whoever leaves "unseen" is remembered.
LEMMA SeenStep ==
    ASSUME IInv, [Next]_vars
    PROVE  SeenInv'
  <1> USE DEF IInv, SeenInv
  <1>1. CASE UNCHANGED <<phase, seen>>
    BY <1>1
  <1>2. ASSUME NEW r \in Requests, Fresh(r), NEW p, phase' = [phase EXCEPT ![r] = p]
        PROVE  SeenInv'
    BY <1>2 DEF Fresh, TypeOK
  <1>3. ASSUME UNCHANGED seen,
               \A x \in Requests : phase'[x] # "unseen" => phase[x] # "unseen"
        PROVE  SeenInv'
    BY <1>3
  <1>4. CASE Receive
    <2>1. CASE \E r \in Requests : \/ ReceiveImmediate(r)
                                   \/ \E c \in Classes : \/ StartCall(r, c)
                                                         \/ QueueCall(r, c)
                                                         \/ RefuseCall(r, c)
      BY <1>2, <2>1 DEF ReceiveImmediate, StartCall, startTask, QueueCall, RefuseCall, ReceiveCall
    <2>2. CASE \E r \in Requests : ReceiveDuplicate(r) \/ CancelRunning(r)
      BY <1>1, <2>2 DEF ReceiveDuplicate, CancelRunning, loopVars
    <2>3. CASE \E r \in Requests : CancelQueued(r)
      BY <1>3, <2>3 DEF CancelQueued, loopVars, Queued, TypeOK
    <2>4. CASE NotifyInitialized \/ CloseInput \/ FatalInput
      BY <1>1, <1>3, <2>4
         DEF NotifyInitialized, CloseInput, cancelTasks, FatalInput, Abort, Queued, Running, TypeOK
    <2> QED
      BY <1>4, <2>1, <2>2, <2>3, <2>4 DEF Receive
  <1>5. CASE Loop
    <2>1. CASE \E r \in Requests : expireQueued(r) \/ ReceiveResult(r) \/ DispatchNext(r)
      BY <1>3, <2>1
         DEF expireQueued, ReceiveResult, DispatchNext, startTask, loopVars, Queued, Running, TypeOK
    <2>2. CASE StopOnShutdown \/ WriteFails
      BY <1>3, <2>2 DEF StopOnShutdown, WriteFails, Abort, Queued, Running, TypeOK
    <2>3. CASE DispatchDone \/ ReturnDrained \/ Write
      BY <1>1, <2>3 DEF DispatchDone, ReturnDrained, Write
    <2> QED
      BY <1>5, <2>1, <2>2, <2>3 DEF Loop
  <1>6. CASE Shutdown
    BY <1>1, <1>6 DEF Shutdown
  <1>7. ASSUME NEW r \in Requests, Goroutine(r) PROVE SeenInv'
    BY <1>1, <1>7 DEF Goroutine, Commit, Deadline, Deliver, Discard, loopVars
  <1>8. CASE Terminated \/ UNCHANGED vars
    BY <1>1, <1>8 DEF Terminated, vars, loopVars
  <1> QED
    BY <1>4, <1>5, <1>6, <1>7, <1>8 DEF Next

\* A goroutine leaves its outcome with its result.
LEMMA OutcomeStep ==
    ASSUME IInv, [Next]_vars
    PROVE  HasOutcome'
  <1> USE DEF IInv, HasOutcome, Delivered
  <1>1. CASE UNCHANGED <<work, outcome>>
    BY <1>1
  <1>2. ASSUME NEW r \in Requests, startTask(r), UNCHANGED outcome PROVE HasOutcome'
    BY <1>2 DEF startTask, TypeOK
  <1>3. ASSUME NEW r \in Requests, ReceiveResult(r) PROVE HasOutcome'
    BY <1>3 DEF ReceiveResult, TypeOK
  <1>4. ASSUME NEW r \in Requests, Goroutine(r) PROVE HasOutcome'
    <2>1. CASE Commit(r) \/ Deadline(r)
      BY <1>1, <2>1 DEF Commit, Deadline, workVars
    <2>2. CASE Deliver(r)
      BY <2>2 DEF Deliver, Outcome, TypeOK
    <2>3. CASE Discard(r)
      BY <2>3 DEF Discard, TypeOK
    <2> QED
      BY <1>4, <2>1, <2>2, <2>3 DEF Goroutine
  <1>5. CASE Receive
    <2>1. CASE \E r \in Requests, c \in Classes : StartCall(r, c)
      BY <1>2, <2>1 DEF StartCall
    <2>2. CASE ~ \E r \in Requests, c \in Classes : StartCall(r, c)
      BY <1>1, <1>5, <2>2
         DEF Receive, ReceiveDuplicate, ReceiveImmediate, QueueCall, RefuseCall, CancelQueued,
             CancelRunning, NotifyInitialized, CloseInput, FatalInput, Abort, workVars
    <2> QED
      BY <2>1, <2>2
  <1>6. CASE Loop
    <2>1. CASE \E r \in Requests : DispatchNext(r)
      BY <1>2, <2>1 DEF DispatchNext
    <2>2. CASE ~ \E r \in Requests : DispatchNext(r)
      BY <1>1, <1>3, <1>6, <2>2
         DEF Loop, StopOnShutdown, expireQueued, DispatchDone, ReturnDrained, Write, WriteFails,
             Abort, workVars
    <2> QED
      BY <2>1, <2>2
  <1>7. CASE Shutdown \/ Terminated \/ UNCHANGED vars
    BY <1>1, <1>7 DEF Shutdown, Terminated, vars, workVars
  <1> QED
    BY <1>4, <1>5, <1>6, <1>7 DEF Next

\* The messages the loop writes.
Message == [id : Requests, kind : ReplyKinds \cup {"duplicate"}]

\* A response built from a request and a kind is a response.
LEMMA ResponseType ==
    ASSUME NEW r \in Requests, NEW k \in ReplyKinds \cup {"duplicate"}
    PROVE  Response(r, k) \in Message
  BY DEF Response, Message

\* The head and the tail of a sequence of responses have their types.
LEMMA HeadTailType ==
    ASSUME NEW S, NEW s \in Seq(S), s # <<>>
    PROVE  Head(s) \in S /\ Tail(s) \in Seq(S)
  OBVIOUS

\* A function on 1..n is a sequence: what expireQueued writes to the outbox.
LEMMA FunctionIsSeq ==
    ASSUME NEW S, NEW n \in Nat, NEW f \in [1..n -> S]
    PROVE  f \in Seq(S)
  OBVIOUS

\* Every step preserves the types.
LEMMA TypeStep ==
    ASSUME IInv, [Next]_vars
    PROVE  TypeOK'
  <1> USE DEF TypeOK, IInv
  <1>0. limiter' \in [Counters -> Nat]
    BY CountedStep DEF Counted, Counts
  <1>1. ASSUME NEW r \in Requests, ReceiveDuplicate(r) PROVE TypeOK'
    BY <1>0, <1>1 DEF ReceiveDuplicate, Response, workVars
  <1>2. ASSUME NEW r \in Requests, ReceiveImmediate(r) PROVE TypeOK'
    BY <1>0, <1>2 DEF ReceiveImmediate, Fresh, Response, workVars, ReplyKinds
  <1>3. ASSUME NEW r \in Requests, NEW c \in Classes, StartCall(r, c) PROVE TypeOK'
    BY <1>0, <1>3 DEF StartCall, startTask, ReceiveCall, Fresh, workVars
  <1>4. ASSUME NEW r \in Requests, NEW c \in Classes, QueueCall(r, c) PROVE TypeOK'
    BY <1>0, <1>4 DEF QueueCall, ReceiveCall, Fresh, workVars
  <1>5. ASSUME NEW r \in Requests, NEW c \in Classes, RefuseCall(r, c) PROVE TypeOK'
    BY <1>0, <1>5 DEF RefuseCall, ReceiveCall, Fresh, Response, workVars, ReplyKinds
  <1>6. ASSUME NEW r \in Requests, CancelQueued(r) PROVE TypeOK'
    BY <1>0, <1>6 DEF CancelQueued, loopVars, workVars
  <1>7. ASSUME NEW r \in Requests, CancelRunning(r) PROVE TypeOK'
    BY <1>0, <1>7 DEF CancelRunning, CancelContexts, loopVars, workVars
  <1>8. CASE NotifyInitialized
    BY <1>0, <1>8 DEF NotifyInitialized, workVars
  <1>9. CASE CloseInput
    BY <1>0, <1>9 DEF CloseInput, cancelTasks, CancelContexts, workVars
  <1>10. CASE Abort
    <2>1. outbox' = <<>>
      BY <1>10 DEF Abort
    <2>2. outbox' \in Seq([id : Requests, kind : ReplyKinds \cup {"duplicate"}])
      BY <2>1
    <2> QED
      BY <1>0, <1>10, <2>2 DEF Abort, CancelContexts, workVars
  <1>11. CASE Shutdown
    BY <1>0, <1>11 DEF Shutdown, CancelContexts, workVars
  <1>12. ASSUME NEW last \in Requests, expireQueued(last) PROVE TypeOK'
    <2> DEFINE expired == {q \in Queued : q <= last}
    <2>1. PICK order \in [1..Cardinality(expired) -> expired] :
              outbox' = [i \in DOMAIN order |-> Response(order[i], "queue_timeout")]
      BY <1>12 DEF expireQueued
    <2>2. expired \subseteq Requests
      BY DEF Queued
    <2>3. Cardinality(expired) \in Nat
      BY <2>2, RequestsFinite
    <2> HIDE DEF expired
    <2>4. \A i \in 1..Cardinality(expired) : Response(order[i], "queue_timeout") \in Message
      BY <2>1, <2>2, ResponseType DEF ReplyKinds
    <2>5. outbox' \in [1..Cardinality(expired) -> Message]
      BY <2>1, <2>4
    <2>6. outbox' \in Seq(Message)
      BY <2>3, <2>5, FunctionIsSeq
    <2> QED
      BY <1>0, <1>12, <2>6 DEF expireQueued, workVars, Message
  <1>13. ASSUME NEW r \in Requests, ReceiveResult(r) PROVE TypeOK'
    <2>1. CASE outbox' = <<>>
      <3>1. outbox' \in Seq(Message)
        BY <2>1
      <3> QED
        BY <1>0, <1>13, <3>1 DEF ReceiveResult, Message
    <2>2. CASE outbox' = <<Response(r, outcome[r])>>
      <3>1. outcome[r] \in ReplyKinds
        BY <1>13 DEF ReceiveResult, HasOutcome, ReplyKinds
      <3>2. Response(r, outcome[r]) \in Message
        BY <3>1, ResponseType
      <3>3. outbox' \in Seq(Message)
        BY <2>2, <3>2
      <3> QED
        BY <1>0, <1>13, <3>3 DEF ReceiveResult, Message
    <2> QED
      BY <1>13, <2>1, <2>2 DEF ReceiveResult
  <1>14. ASSUME NEW r \in Requests, DispatchNext(r) PROVE TypeOK'
    <2>1. /\ phase' \in [Requests -> {"unseen", "queued", "running", "closed"}]
          /\ work' \in [Requests -> {"none", "executing", "delivered", "ended"}]
          /\ executions' \in [Requests -> Nat]
          /\ ctx' \in [Requests -> {"none", "deadline", "cancelled"}]
      BY <1>14 DEF DispatchNext, startTask
    <2>2. UNCHANGED <<loopVars, class, cancelled, committed, outcome, replies>>
      BY <1>14 DEF DispatchNext
    <2> QED
      BY <1>0, <2>1, <2>2 DEF loopVars
  <1>15. CASE DispatchDone
    BY <1>0, <1>15 DEF DispatchDone, workVars
  <1>16. CASE ReturnDrained
    BY <1>0, <1>16 DEF ReturnDrained, workVars
  <1>17. CASE Write
    <2>1. outbox \in Seq(Message) /\ outbox # <<>>
      BY <1>17 DEF Write, Message
    <2>2. Head(outbox) \in Message /\ Tail(outbox) \in Seq(Message)
      BY <2>1, HeadTailType
    <2> DEFINE m == Head(outbox)
    <2>3. m.id \in Requests /\ (m.kind # "duplicate" => m.kind \in ReplyKinds)
      BY <2>2 DEF Message
    <2>4. replies' = IF m.kind = "duplicate" THEN replies
                     ELSE [replies EXCEPT ![m.id] = Append(@, m.kind)]
      BY <1>17 DEF Write
    <2> HIDE DEF m
    <2>5. replies' \in [Requests -> Seq(ReplyKinds)]
      BY <2>3, <2>4
    <2> QED
      BY <1>0, <1>17, <2>2, <2>5 DEF Write, workVars, Message
  <1>18. ASSUME NEW r \in Requests, Commit(r) \/ Deadline(r) PROVE TypeOK'
    BY <1>0, <1>18 DEF Commit, Deadline, loopVars, workVars
  <1>19. ASSUME NEW r \in Requests, Deliver(r) \/ Discard(r) PROVE TypeOK'
    BY <1>0, <1>19 DEF Deliver, Discard, Outcome, loopVars, workVars
  <1>20. CASE Terminated \/ UNCHANGED vars
    BY <1>0, <1>20 DEF Terminated, vars, loopVars, workVars
  <1>21. CASE Receive
    BY <1>1, <1>2, <1>3, <1>4, <1>5, <1>6, <1>7, <1>8, <1>9, <1>10, <1>21 DEF Receive, FatalInput
  <1>22. CASE Loop
    BY <1>10, <1>12, <1>13, <1>14, <1>15, <1>16, <1>17, <1>22 DEF Loop, StopOnShutdown, WriteFails
  <1> QED
    BY <1>11, <1>18, <1>19, <1>20, <1>21, <1>22 DEF Next, Goroutine

\* The initial state satisfies the inductive invariant.
LEMMA InitIInv == Init => IInv
  <1> SUFFICES ASSUME Init PROVE IInv
    OBVIOUS
  <1>1. Running = {} /\ Queued = {} /\ Busy = {} /\ HasOutcome
    BY DEF Init, HasOutcome, Running, Queued, Busy, Executing, Delivered
  <1>2. TypeOK
    <2>1. <<>> \in Seq([id : Requests, kind : ReplyKinds \cup {"duplicate"}])
      OBVIOUS
    <2>2. <<>> \in Seq(ReplyKinds)
      OBVIOUS
    <2> QED
      BY <2>1, <2>2 DEF Init, TypeOK, Classes, Counters
  <1>3. \A C : Of({}, class, C) = {}
    BY DEF Of
  <1>4. Cardinality({}) = 0 /\ \A C : Cardinality(Of({}, class, C)) = 0
    BY <1>3, FS_EmptySet
  <1>5. Counted
    BY <1>1, <1>4 DEF Init, Counted, Counts, Counters
  <1>6. SeenInv
    BY DEF Init, SeenInv
  <1>7. /\ limiter.active = 0 /\ limiter.heavy = 0
        /\ limiter.raster = 0 /\ limiter.queued = 0
    BY DEF Init, Counters
  <1>8. Within(limiter)
    BY <1>7, LimitAssumption DEF Within
  <1>9. BusyRuns /\ BusyWithin
    <2>1. Bounded({}, class)
      BY <1>4, LimitAssumption DEF Bounded
    <2> QED
      BY <1>1, <2>1 DEF BusyRuns, BusyWithin
  <1> QED
    BY <1>1, <1>2, <1>5, <1>6, <1>8, <1>9 DEF IInv

\* The inductive invariant holds in every reachable state of the session.
THEOREM IInvHolds == Spec => []IInv
  <1>1. IInv /\ [Next]_vars => IInv'
    <2> SUFFICES ASSUME IInv, [Next]_vars PROVE IInv'
      OBVIOUS
    <2>1. Within(limiter)'
      BY WithinStep
    <2> QED
      BY <2>1, TypeStep, CountedStep, SeenStep, BusyRunsStep, BusyWithinStep,
         OutcomeStep DEF IInv
  <1> QED
    BY InitIInv, <1>1, PTL DEF Spec

(***************************************************************************)
(* What it means for the session.                                          *)
(***************************************************************************)
\* Every variable of the session keeps its type; in particular no counter of
\* the limiter ever becomes negative.
THEOREM TypeOKHolds == Spec => []TypeOK
  <1>1. IInv => TypeOK
    BY DEF IInv
  <1> QED
    BY IInvHolds, <1>1, PTL

\* The six counters of mcpTaskLimiter agree with the task map for every number
\* of requests and every limit: no path forgets a slot or frees it twice.
THEOREM CountersExactHolds == Spec => []CountersExact
  <1>1. IInv => CountersExact
    BY DEF IInv, Counted, Counts, CountersExact, Of, OfClass
  <1> QED
    BY IInvHolds, <1>1, PTL

\* Executing tool calls respect mcp_max_tasks, mcp_max_heavy_tasks and
\* mcp_max_raster_tasks, and waiting ones mcp_max_queued_tasks, also while
\* cancelled calls and an aborted session unwind.
THEOREM WithinLimitsHolds == Spec => []WithinLimits
  <1>1. IInv => WithinLimits
    <2> SUFFICES ASSUME IInv PROVE WithinLimits
      OBVIOUS
    <2>1. Busy \subseteq Requests /\ Executing \subseteq Busy
      BY DEF Busy, Executing, Delivered
    <2>2. Bounded(Executing, class)
      BY <2>1, BoundedSubset DEF IInv, BusyWithin
    <2>3. Cardinality(Queued) <= MaxQueued
      BY DEF IInv, Counted, Counts, Within
    <2>4. \A C : OfClass(Executing, C) = Of(Executing, class, C)
      BY DEF OfClass, Of
    <2> QED
      BY <2>2, <2>3, <2>4 DEF Bounded, WithinLimits
  <1> QED
    BY IInvHolds, <1>1, PTL

\* A goroutine that finished its tool finds room in the results channel, whose
\* capacity is mcp_max_tasks: the send of a committed result cannot block.
THEOREM ResultsNeverBlockHolds == Spec => []ResultsNeverBlock
  <1>1. IInv => ResultsNeverBlock
    <2> SUFFICES ASSUME IInv, Executing # {} PROVE Cardinality(Delivered) < MaxTasks
      BY DEF ResultsNeverBlock
    <2>1. PICK r \in Executing : TRUE
      OBVIOUS
    <2>2. /\ Delivered \subseteq Requests /\ r \in Requests /\ r \notin Delivered
          /\ Busy \subseteq Requests /\ Delivered \cup {r} \subseteq Busy
      BY <2>1 DEF Busy, Executing, Delivered
    <2>3. Cardinality(Delivered \cup {r}) = Cardinality(Delivered) + 1
      BY <2>2, RequestsFinite, FS_AddElement
    <2>4. Cardinality(Delivered \cup {r}) <= Cardinality(Busy)
      BY <2>2, SmallerSet
    <2>5. Cardinality(Delivered) \in Nat /\ Cardinality(Busy) \in Nat
      BY <2>2, RequestsFinite
    <2> QED
      BY <2>3, <2>4, <2>5, LimitAssumption DEF IInv, BusyWithin, Bounded
  <1> QED
    BY IInvHolds, <1>1, PTL

\* Nothing waits once the input is closed or the loop has given up.
NothingWaits == inputClosed \/ Ended => Queued = {}

\* After end of input or the end of the loop the queue stays empty, and nothing starts.
LEMMA NothingWaitsStep ==
    ASSUME IInv, NothingWaits, [Next]_vars
    PROVE  NothingWaits'
  <1> USE DEF IInv, NothingWaits, Ended
  <1>1. CASE UNCHANGED <<inputClosed, phase>> /\ (Ended' => Ended)
    BY <1>1 DEF Queued
  <1>2. CASE UNCHANGED inputClosed /\ (Ended' => Ended) /\ Queued' \subseteq Queued
    BY <1>2
  <1>3. CASE Queued' = {}
    BY <1>3
  <1>4. CASE ~inputClosed' /\ ~Ended'
    BY <1>4
  <1>5. CASE Receive
    <2>1. CASE CloseInput \/ FatalInput
      <3>1. CASE CloseInput
        BY <1>3, <3>1 DEF CloseInput, cancelTasks, Queued
      <3>2. CASE FatalInput
        BY <1>3, <3>2 DEF FatalInput, Abort, Queued
      <3> QED
        BY <2>1, <3>1, <3>2
    <2>2. CASE ~(CloseInput \/ FatalInput)
      BY <1>4, <1>5, <2>2
         DEF Receive, ReceiveDuplicate, ReceiveImmediate, StartCall, QueueCall, RefuseCall,
             ReceiveCall, Fresh, Arrives, AtSelect, CancelQueued, CancelRunning,
             NotifyInitialized, loopVars
    <2> QED
      BY <2>1, <2>2
  <1>6. CASE Loop
    <2>1. CASE StopOnShutdown \/ WriteFails
      <3>1. Abort
        BY <2>1 DEF StopOnShutdown, WriteFails
      <3> QED
        BY <1>3, <3>1 DEF Abort, Queued
    <2>2. CASE ReturnDrained
      BY <1>3, <2>2 DEF ReturnDrained, KeepsServing, Queued
    <2>3. CASE \E r \in Requests : expireQueued(r) \/ ReceiveResult(r) \/ DispatchNext(r)
      BY <1>2, <2>3
         DEF expireQueued, ReceiveResult, DispatchNext, startTask, loopVars, Queued, TypeOK
    <2>4. CASE DispatchDone \/ Write
      BY <1>1, <2>4 DEF DispatchDone, Write
    <2> QED
      BY <1>6, <2>1, <2>2, <2>3, <2>4 DEF Loop
  <1>7. ASSUME NEW r \in Requests, Goroutine(r) PROVE NothingWaits'
    BY <1>1, <1>7 DEF Goroutine, Commit, Deadline, Deliver, Discard, loopVars
  <1>8. CASE Shutdown \/ Terminated \/ UNCHANGED vars
    BY <1>1, <1>8 DEF Shutdown, Terminated, vars, loopVars
  <1> QED
    BY <1>5, <1>6, <1>7, <1>8 DEF Next

\* No tool call is started once the client closed the input or the loop gave
\* up: the only start left, dispatchQueued, finds the queue empty.
THEOREM NothingStartsAfterCloseHolds == Spec => NothingStartsAfterClose
  <1>1. Init => NothingWaits
    BY DEF Init, NothingWaits, Queued
  <1>2. NothingWaits /\ [Next]_vars => [inputClosed \/ Ended => executions' = executions]_vars
    <2> SUFFICES ASSUME NothingWaits, Next, inputClosed \/ Ended
                 PROVE  executions' = executions
      OBVIOUS
    <2>1. Queued = {}
      BY DEF NothingWaits
    <2>2. CASE Receive
      BY <2>2 DEF Receive, ReceiveDuplicate, ReceiveImmediate, StartCall, QueueCall, RefuseCall,
                  ReceiveCall, Fresh, Arrives, AtSelect, Ended, CancelQueued, CancelRunning,
                  NotifyInitialized, CloseInput, FatalInput, Abort, workVars
    <2>3. CASE Loop
      BY <2>1, <2>3 DEF Loop, StopOnShutdown, expireQueued, ReceiveResult, DispatchNext,
                        DispatchDone, ReturnDrained, Write, WriteFails, Abort, workVars
    <2>4. ASSUME NEW r \in Requests, Goroutine(r) PROVE executions' = executions
      BY <2>4 DEF Goroutine, Commit, Deadline, Deliver, Discard, workVars
    <2>5. CASE Shutdown \/ Terminated
      BY <2>5 DEF Shutdown, Terminated, vars, workVars
    <2> QED
      BY <2>2, <2>3, <2>4, <2>5 DEF Next
  <1>3. IInv /\ NothingWaits /\ [Next]_vars => NothingWaits'
    BY NothingWaitsStep
  <1> QED
    BY IInvHolds, <1>1, <1>2, <1>3, PTL DEF Spec, NothingStartsAfterClose
=============================================================================
