-------------------------- MODULE AdmissionProofs --------------------------
(***************************************************************************)
(* The session of TaskScheduler implements AdmissionControl: whoever looks *)
(* only at which calls run and which wait cannot tell the counters, the    *)
(* goroutines, the outbox and the unwinding from the abstract policy.      *)
(***************************************************************************)
EXTENDS SchedulerAnswersProofs

(***************************************************************************)
(* No waiting call fits when the loop selects.                             *)
(***************************************************************************)
\* A limiter that holds no less has room for no more.
LEMMA StaysFull ==
    ASSUME limiter \in [Counters -> Nat], limiter' \in [Counters -> Nat],
           limiter'.active >= limiter.active, limiter'.heavy >= limiter.heavy,
           limiter'.raster >= limiter.raster,
           NEW c \in Classes, ~CanAcquire(c)
    PROVE  ~CanAcquire(c)'
  <1>1. /\ limiter.active \in Nat /\ limiter.heavy \in Nat /\ limiter.raster \in Nat
        /\ limiter'.active \in Nat /\ limiter'.heavy \in Nat /\ limiter'.raster \in Nat
    BY CountsNat
  <1> QED
    BY <1>1, LimitAssumption DEF CanAcquire, isExpensiveMCPTask

\* Nothing that leaves the queue frees a slot.
LEMMA DequeueKeepsSlots ==
    ASSUME NEW l, l \in [Counters -> Nat], NEW S
    PROVE  /\ dequeueAll(l, S).active = l.active
           /\ dequeueAll(l, S).heavy = l.heavy
           /\ dequeueAll(l, S).raster = l.raster
  BY DEF dequeueAll, Counters

\* Taking a slot frees none.
LEMMA AcquireKeepsSlots ==
    ASSUME NEW l, l \in [Counters -> Nat], NEW c
    PROVE  /\ acquire(l, c).active >= l.active
           /\ acquire(l, c).heavy >= l.heavy
           /\ acquire(l, c).raster >= l.raster
  BY CountsNat DEF acquire, Counters, One

\* Every step of the loop leaves no fitting call behind when it selects again.
LEMMA WorkStep ==
    ASSUME IInv, WorkConserving, [Next]_vars
    PROVE  WorkConserving'
  <1> USE DEF IInv, TypeOK
  <1>0. limiter \in [Counters -> Nat] /\ limiter' \in [Counters -> Nat]
    BY TypeStep
  <1>1. CASE loop' # "select"
    BY <1>1 DEF WorkConserving
  <1>2. CASE loop' = "select" /\ loop # "select"
    <2>1. DispatchDone
      BY <1>2, LoopCases DEF ReceiveResult, ReturnDrained
    <2> QED
      BY <2>1 DEF DispatchDone, WorkConserving, Queued, CanAcquire
  <1>3. CASE loop' = "select" /\ loop = "select"
    <2>1. ASSUME NEW q \in Requests, phase[q] = "queued"
          PROVE  ~CanAcquire(class[q]) /\ class[q] \in Classes
      BY <1>3, <2>1 DEF WorkConserving, Queued
    <2>2. ASSUME limiter'.active >= limiter.active, limiter'.heavy >= limiter.heavy,
                 limiter'.raster >= limiter.raster,
                 \A q \in Requests : phase'[q] = "queued" =>
                     \/ phase[q] = "queued" /\ class'[q] = class[q]
                     \/ class'[q] \in Classes /\ ~CanAcquire(class'[q])
          PROVE  WorkConserving'
      <3>1. ASSUME NEW q \in Requests, phase'[q] = "queued"
            PROVE  ~CanAcquire(class[q])'
        <4>1. PICK c \in Classes : c = class'[q] /\ ~CanAcquire(c)
          BY <2>1, <2>2, <3>1
        <4>2. ~CanAcquire(c)'
          BY <1>0, <2>2, <4>1, StaysFull
        <4> QED
          BY <4>1, <4>2 DEF CanAcquire
      <3> QED
        BY <3>1 DEF WorkConserving, Queued
    <2>3. /\ limiter.active >= limiter.active /\ limiter.heavy >= limiter.heavy
          /\ limiter.raster >= limiter.raster
      <3>1. limiter.active \in Nat /\ limiter.heavy \in Nat /\ limiter.raster \in Nat
        BY <1>0, CountsNat
      <3> QED
        BY <3>1
    <2>4. ASSUME NEW x \in Requests, Fresh(x) PROVE phase[x] = "unseen"
      BY <2>4, FreshIsUnseen
    <2>5. CASE Quiet
      BY <2>2, <2>3, <2>5 DEF Quiet
    <2>6. ASSUME NEW x \in Requests, ReceiveImmediate(x) PROVE WorkConserving'
      BY <2>2, <2>3, <2>6 DEF ReceiveImmediate
    <2>7. ASSUME NEW x \in Requests, NEW c \in Classes, StartCall(x, c) PROVE WorkConserving'
      <3>1. limiter' = acquire(limiter, c)
        BY <2>7 DEF StartCall
      <3>2. \A q \in Requests : phase'[q] = "queued" =>
                phase[q] = "queued" /\ class'[q] = class[q]
        BY <2>7 DEF StartCall, startTask, ReceiveCall
      <3> QED
        BY <1>0, <2>2, <3>1, <3>2, AcquireKeepsSlots
    <2>8. ASSUME NEW x \in Requests, NEW c \in Classes, QueueCall(x, c) PROVE WorkConserving'
      <3>1. /\ limiter'.active = limiter.active /\ limiter'.heavy = limiter.heavy
            /\ limiter'.raster = limiter.raster
        BY <2>8 DEF QueueCall, enqueue, Counters
      <3>2. ~CanAcquire(c) /\ class' = [class EXCEPT ![x] = c]
            /\ phase' = [phase EXCEPT ![x] = "queued"]
        BY <2>8 DEF QueueCall, ReceiveCall
      <3>3. ASSUME NEW q \in Requests, phase'[q] = "queued"
            PROVE  \/ phase[q] = "queued" /\ class'[q] = class[q]
                   \/ class'[q] \in Classes /\ ~CanAcquire(class'[q])
        BY <3>2, <3>3
      <3> QED
        BY <2>2, <2>3, <3>1, <3>3
    <2>9. ASSUME NEW x \in Requests, NEW c \in Classes, RefuseCall(x, c) PROVE WorkConserving'
      BY <2>2, <2>3, <2>4, <2>9 DEF RefuseCall, ReceiveCall
    <2>10. ASSUME NEW S, limiter' = dequeueAll(limiter, S), UNCHANGED class,
                  \A q \in Requests : phase'[q] = "queued" => phase[q] = "queued"
           PROVE  WorkConserving'
      BY <1>0, <2>2, <2>3, <2>10, DequeueKeepsSlots
    <2>11. ASSUME NEW x \in Requests, CancelQueued(x) PROVE WorkConserving'
      BY <2>10, <2>11 DEF CancelQueued
    <2>12. CASE CloseInput
      BY <2>10, <2>12 DEF CloseInput, cancelTasks
    <2>13. ASSUME NEW x \in Requests, expireQueued(x) PROVE WorkConserving'
      BY <2>10, <2>13 DEF expireQueued
    <2>14. ~Abort /\ ~ReturnDrained
           /\ \A x \in Requests : ~ReceiveResult(x) /\ ~DispatchNext(x)
      BY <1>3 DEF Abort, ReturnDrained, ReceiveResult, DispatchNext
    <2> QED
      BY StepCases, <2>5, <2>6, <2>7, <2>8, <2>9, <2>11, <2>12, <2>13, <2>14
  <1> QED
    BY <1>1, <1>2, <1>3

\* A slot that a result frees is never left idle while a call that could use
\* it waits, for every mix of classes and every limit.
THEOREM WorkConservingHolds == Spec => []WorkConserving
  <1>1. Init => WorkConserving
    BY DEF Init, WorkConserving, Queued
  <1>2. IInv /\ WorkConserving /\ [Next]_vars => WorkConserving'
    BY WorkStep
  <1> QED
    BY IInvHolds, <1>1, <1>2, PTL DEF Spec

(***************************************************************************)
(* The refinement.                                                         *)
(***************************************************************************)
\* The policy counts with the same cardinality.
LEMMA SameCardinality == \A S : Admission!Cardinality(S) = Cardinality(S)
  BY DEF Admission!Cardinality, Cardinality

\* The counters decide what the sets of calls would decide.
LEMMA FitsIsCanAcquire ==
    ASSUME IInv, NEW c \in Classes
    PROVE  Admission!Fits(c) <=> CanAcquire(c)
  <1> DEFINE H == Of(Running, class, {"heavy"})
             K == Of(Running, class, {"raster"})
  <1>1. /\ Admission!OfClass(Running, {"heavy", "raster"}) = H \cup K
        /\ Admission!OfClass(Running, {"raster"}) = K
        /\ H \cap K = {}
        /\ H \subseteq Requests /\ K \subseteq Requests
    BY DEF Admission!OfClass, Of, Running
  <1>2. /\ limiter.active = Cardinality(Running)
        /\ limiter.heavy = Cardinality(H) /\ limiter.raster = Cardinality(K)
    BY DEF IInv, Counted, Counts
  <1> HIDE DEF H, K
  <1>3. IsFiniteSet(H) /\ IsFiniteSet(K) /\ Cardinality(H) \in Nat /\ Cardinality(K) \in Nat
    BY <1>1, RequestsFinite
  <1>4. Cardinality(H \cup K) = Cardinality(H) + Cardinality(K) - Cardinality(H \cap K)
    BY <1>3, FS_Union
  <1>5. Cardinality(H \cap K) = 0
    BY <1>1, FS_EmptySet
  <1>6. Cardinality(H \cup K) = limiter.heavy + limiter.raster
    BY <1>2, <1>3, <1>4, <1>5
  <1> QED
    BY <1>1, <1>2, <1>6, SameCardinality DEF Admission!Fits, CanAcquire, isExpensiveMCPTask

\* Every step of the session is a step of the policy, or none.
LEMMA AdmissionStep ==
    ASSUME IInv, WorkConserving, [Next]_vars
    PROVE  [Admission!Next]_(Admission!vars)
  <1> USE DEF IInv, TypeOK
  <1> DEFINE Step == Admission!Next \/ UNCHANGED Admission!vars
  <1>1. ASSUME UNCHANGED <<Running, Queued, class>> PROVE Step
    BY <1>1 DEF Admission!vars
  <1>2. ASSUME NEW S \in SUBSET Queued, Queued' = Queued \ S, UNCHANGED <<Running, class>>
        PROVE  Step
    <2>1. CASE S = {}
      BY <1>1, <1>2, <2>1
    <2>2. CASE S # {}
      <3>1. Admission!Withdraw(S) /\ S \in (SUBSET Queued) \ {{}}
        BY <1>2, <2>2 DEF Admission!Withdraw
      <3> QED
        BY <3>1 DEF Admission!Next
    <2> QED
      BY <2>1, <2>2
  <1>3. ASSUME NEW x \in Requests, Fresh(x) PROVE phase[x] = "unseen"
    BY <1>3, FreshIsUnseen
  <1>4. CASE Quiet
    BY <1>1, <1>4 DEF Quiet, Running, Queued
  <1>5. ASSUME NEW x \in Requests, ReceiveImmediate(x) PROVE Step
    BY <1>1, <1>3, <1>5 DEF ReceiveImmediate, Running, Queued
  <1>6. ASSUME NEW x \in Requests, NEW c \in Classes, StartCall(x, c) PROVE Step
    <2>1. phase[x] = "unseen" /\ loop = "select" /\ CanAcquire(c)
      BY <1>3, <1>6 DEF StartCall, ReceiveCall, Fresh, Arrives, AtSelect
    <2>2. Running' = Running \cup {x} /\ Queued' = Queued /\ class' = [class EXCEPT ![x] = c]
      BY <1>6, <2>1 DEF StartCall, startTask, ReceiveCall, Running, Queued
    <2>3. Admission!OfClass(Queued, {c}) = {}
      BY <2>1 DEF WorkConserving, Admission!OfClass
    <2>4. Admission!Fits(c) /\ x \in Requests \ (Running \cup Queued)
      BY <2>1, FitsIsCanAcquire DEF Running, Queued
    <2>5. Admission!Admit(x, c)
      BY <2>2, <2>3, <2>4 DEF Admission!Admit
    <2> QED
      BY <2>2, <2>4, <2>5 DEF Admission!Next, Admission!Classes, Classes
  <1>7. ASSUME NEW x \in Requests, NEW c \in Classes, QueueCall(x, c) \/ RefuseCall(x, c)
        PROVE  Step
    <2>1. phase[x] = "unseen" /\ ~CanAcquire(c) /\ class' = [class EXCEPT ![x] = c]
      BY <1>3, <1>7 DEF QueueCall, RefuseCall, ReceiveCall
    <2>2. ~Admission!Fits(c) /\ x \in Requests \ (Running \cup Queued)
      BY <2>1, FitsIsCanAcquire DEF Running, Queued
    <2>3. limiter.queued = Cardinality(Queued) /\ limiter.queued \in Nat
      BY CountsNat DEF Counted, Counts
    <2>4. CASE QueueCall(x, c)
      <3>1. Queued' = Queued \cup {x} /\ Running' = Running
        BY <2>1, <2>4 DEF QueueCall, Queued, Running
      <3>2. Admission!Wait(x, c)
        BY <2>2, <2>3, <2>4, <3>1, SameCardinality DEF QueueCall, CanEnqueue, Admission!Wait
      <3> QED
        BY <2>1, <2>2, <3>2 DEF Admission!Next, Admission!Classes, Classes
    <2>5. CASE RefuseCall(x, c)
      <3>1. Queued' = Queued /\ Running' = Running
        BY <2>1, <2>5 DEF RefuseCall, Queued, Running
      <3>2. Cardinality(Queued) >= MaxQueued
        BY <2>3, <2>5, LimitAssumption DEF RefuseCall, CanEnqueue
      <3>3. Admission!Refuse(x, c)
        BY <2>2, <3>1, <3>2, SameCardinality DEF Admission!Refuse
      <3> QED
        BY <2>1, <2>2, <3>3 DEF Admission!Next, Admission!Classes, Classes
    <2> QED
      BY <1>7, <2>4, <2>5
  <1>8. ASSUME NEW x \in Requests, CancelQueued(x) PROVE Step
    <2>1. {x} \in SUBSET Queued /\ Queued' = Queued \ {x} /\ UNCHANGED <<Running, class>>
      BY <1>8 DEF CancelQueued, Queued, Running
    <2> QED
      BY <1>2, <2>1
  <1>9. CASE CloseInput
    <2>1. Queued' = Queued \ Queued /\ UNCHANGED <<Running, class>>
      BY <1>9 DEF CloseInput, cancelTasks, Queued, Running
    <2> QED
      BY <1>2, <2>1
  <1>10. CASE Abort
    <2>1. Queued' = {} /\ Running' = {} /\ UNCHANGED class
      BY <1>10 DEF Abort, Queued, Running
    <2> QED
      BY <2>1 DEF Admission!Next, Admission!Stop
  <1>11. ASSUME NEW last \in Requests, expireQueued(last) PROVE Step
    <2> DEFINE expired == {q \in Queued : q <= last}
    <2>1. expired \in SUBSET Queued /\ Queued' = Queued \ expired /\ UNCHANGED <<Running, class>>
      BY <1>11 DEF expireQueued, Queued, Running
    <2> QED
      BY <1>2, <2>1
  <1>12. ASSUME NEW x \in Requests, ReceiveResult(x) PROVE Step
    <2>1. x \in Running /\ Running' = Running \ {x} /\ UNCHANGED <<Queued, class>>
      BY <1>12 DEF ReceiveResult, Queued, Running
    <2> QED
      BY <2>1 DEF Admission!Next, Admission!Leave
  <1>13. ASSUME NEW x \in Requests, DispatchNext(x) PROVE Step
    <2>1. /\ x \in Queued /\ Running' = Running \cup {x} /\ Queued' = Queued \ {x}
          /\ UNCHANGED class
      BY <1>13 DEF DispatchNext, startTask, Queued, Running
    <2>2. /\ Admission!Fits(class[x])
          /\ \A q \in Queued : q < x => ~Admission!Fits(class[q])
      BY <1>13, <2>1, FitsIsCanAcquire DEF DispatchNext, IsNext, Queued
    <2>3. Admission!Promote(x)
      BY <2>1, <2>2 DEF Admission!Promote
    <2> QED
      BY <2>1, <2>3 DEF Admission!Next
  <1>14. CASE ReturnDrained
    BY <1>1, <1>14 DEF ReturnDrained, Running, Queued
  <1>15. Step
    BY StepCases, <1>4, <1>5, <1>6, <1>7, <1>8, <1>9, <1>10, <1>11, <1>12, <1>13, <1>14
  <1> QED
    BY <1>15

\* The whole session, with its counters, its queue of ids and its unwinding,
\* implements the admission policy: limits on sets of calls, waiting only while
\* a call does not fit, and no class overtaken.
THEOREM AdmissionPolicyHolds == Spec => AdmissionPolicy
  <1>1. Init => Admission!Init
    BY DEF Init, Admission!Init, Running, Queued, Classes, Admission!Classes
  <1>2. IInv /\ WorkConserving /\ [Next]_vars => [Admission!Next]_(Admission!vars)
    BY AdmissionStep
  <1> QED
    BY IInvHolds, WorkConservingHolds, <1>1, <1>2, PTL DEF Spec, AdmissionPolicy, Admission!Spec
=============================================================================
