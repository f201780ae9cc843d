-------------------------- MODULE AdmissionControl --------------------------
(***************************************************************************)
(* What the MCP session promises about admitting tool calls, without the   *)
(* loop, the counters or the goroutines: calls run or wait, the running    *)
(* and waiting ones respect the limits as SETS of calls, a call waits only *)
(* while it does not fit, and one class is served in order of arrival.     *)
(***************************************************************************)
EXTENDS Integers, FiniteSets

CONSTANTS Requests,   \* ids, numbered in order of arrival
          MaxTasks, MaxHeavy, MaxRaster, MaxQueued

VARIABLES running,    \* the calls that hold a slot
          waiting,    \* the calls in the queue
          class       \* the class of every call

vars == <<running, waiting, class>>

Classes == {"read", "heavy", "raster"}

OfClass(S, C) == {r \in S : class[r] \in C}

\* Whether one more call of class c may run.
Fits(c) ==
    /\ Cardinality(running) < MaxTasks
    /\ c \in {"heavy", "raster"} =>
           Cardinality(OfClass(running, {"heavy", "raster"})) < MaxHeavy
    /\ c = "raster" => Cardinality(OfClass(running, {"raster"})) < MaxRaster

Init ==
    /\ running = {}
    /\ waiting = {}
    /\ class \in [Requests -> Classes]

\* A new call takes a slot; nobody of its class is left behind in the queue.
Admit(r, c) ==
    /\ Fits(c)
    /\ OfClass(waiting, {c}) = {}
    /\ running' = running \cup {r}
    /\ UNCHANGED waiting

\* A new call waits: it does not fit and the queue has room.
Wait(r, c) ==
    /\ ~Fits(c)
    /\ Cardinality(waiting) < MaxQueued
    /\ waiting' = waiting \cup {r}
    /\ UNCHANGED running

\* A new call is refused: it neither fits nor finds room in the queue.
Refuse(r, c) ==
    /\ ~Fits(c)
    /\ Cardinality(waiting) >= MaxQueued
    /\ UNCHANGED <<running, waiting>>

\* The oldest waiting call that fits takes a slot.
Promote(r) ==
    /\ Fits(class[r])
    /\ \A q \in waiting : q < r => ~Fits(class[q])
    /\ running' = running \cup {r}
    /\ waiting' = waiting \ {r}
    /\ UNCHANGED class

\* A running call gives its slot back.
Leave(r) ==
    /\ running' = running \ {r}
    /\ UNCHANGED <<waiting, class>>

\* Waiting calls are withdrawn or expire.
Withdraw(S) ==
    /\ waiting' = waiting \ S
    /\ UNCHANGED <<running, class>>

\* The session ends.
Stop ==
    /\ running' = {}
    /\ waiting' = {}
    /\ UNCHANGED class

Next ==
    \/ \E r \in Requests \ (running \cup waiting), c \in Classes :
           /\ class' = [class EXCEPT ![r] = c]
           /\ Admit(r, c) \/ Wait(r, c) \/ Refuse(r, c)
    \/ \E r \in waiting : Promote(r)
    \/ \E r \in running : Leave(r)
    \/ \E S \in (SUBSET waiting) \ {{}} : Withdraw(S)
    \/ Stop

Spec == Init /\ [][Next]_vars
=============================================================================
