--------------------------- MODULE TaskScheduler ---------------------------
(***************************************************************************)
(* The MCP session of internal/mcpserver/server.go: one select loop that   *)
(* reads requests, admits tool calls against four limits, queues what does *)
(* not fit, starts a goroutine per admitted call, answers each call at     *)
(* most once, and unwinds on end of input, shutdown or a failed write.     *)
(*                                                                         *)
(* Request ids are numbered in the order in which the session first sees   *)
(* them, so the order of queuedTaskIDs (and of queuedAt) is the order of   *)
(* the numbers.  Ids of tasks that left the queue may linger in that slice *)
(* but every reader of it skips them: the queue is the set Queued.         *)
(*                                                                         *)
(* Time is abstracted: the queue deadline of the oldest waiting tasks and  *)
(* the execution deadline of a running one may pass at any moment.         *)
(***************************************************************************)
EXTENDS Integers, Sequences, FiniteSets

CONSTANTS NumRequests,  \* ids the client uses in one session (a bound)
          MaxTasks,     \* mcp_max_tasks: running calls, and results capacity
          MaxHeavy,     \* mcp_max_heavy_tasks: running heavy and raster calls
          MaxRaster,    \* mcp_max_raster_tasks: running raster calls
          MaxQueued     \* mcp_max_queued_tasks: waiting calls

ASSUME LimitAssumption ==
    /\ NumRequests \in Nat
    /\ MaxTasks \in Nat \ {0}
    /\ MaxHeavy \in Nat \ {0}
    /\ MaxRaster \in Nat \ {0}
    /\ MaxQueued \in Nat \ {0}

Requests == 1..NumRequests
Classes == {"read", "heavy", "raster"}
Counters == {"active", "heavy", "raster", "queued", "queuedHeavy", "queuedRaster"}

VARIABLES
    \* the loop and its session
    loop,        \* "select", "dispatch" (after a result), "drained", "aborted"
    outbox,      \* responses the loop has still to write before it goes on
    session,     \* "new", "initialized", "ready"
    seen,        \* seenRequestIDs
    inputClosed, \* the reader's channel is closed
    shutdown,    \* the parent context of Serve is done
    limiter,     \* mcpTaskLimiter's six counters
    \* one entry per request id
    phase,       \* "unseen", "queued", "running", "closed": its entry in tasks
    class,       \* its mcpTaskClass
    cancelled,   \* the task's cancelled flag
    ctx,         \* why its context ended: "none" (live), "deadline", "cancelled"
    work,        \* its goroutine: "none", "executing", "delivered", "ended"
    committed,   \* the commit state of its goroutine
    outcome,     \* "none", "result", "timeout": its message in the channel
    \* history
    executions,  \* how often the tool was called for the id
    replies      \* the answers to the request that reached the client

loopVars == <<loop, outbox, session, seen, inputClosed, shutdown>>
workVars == <<work, committed, outcome, executions>>
vars == <<loopVars, limiter, phase, class, cancelled, ctx, workVars, replies>>

ReplyKinds == {"immediate", "busy", "queue_timeout", "timeout", "result"}

Init ==
    /\ loop = "select"
    /\ outbox = <<>>
    /\ session = "new"
    /\ seen = {}
    /\ inputClosed = FALSE
    /\ shutdown = FALSE
    /\ limiter = [c \in Counters |-> 0]
    /\ phase = [r \in Requests |-> "unseen"]
    /\ class = [r \in Requests |-> "read"]
    /\ cancelled = [r \in Requests |-> FALSE]
    /\ ctx = [r \in Requests |-> "none"]
    /\ work = [r \in Requests |-> "none"]
    /\ committed = [r \in Requests |-> FALSE]
    /\ outcome = [r \in Requests |-> "none"]
    /\ executions = [r \in Requests |-> 0]
    /\ replies = [r \in Requests |-> <<>>]

-----------------------------------------------------------------------------
Queued == {r \in Requests : phase[r] = "queued"}
Running == {r \in Requests : phase[r] = "running"}
Executing == {r \in Requests : work[r] = "executing"}
Delivered == {r \in Requests : work[r] = "delivered"}  \* the results channel

Ended == loop \in {"drained", "aborted"}

\* The condition of the loop, evaluated before each select.
KeepsServing == ~inputClosed \/ Queued \cup Running # {}

AtSelect == loop = "select" /\ outbox = <<>> /\ KeepsServing

(***************************************************************************)
(* The limiter.                                                            *)
(***************************************************************************)
One(b) == IF b THEN 1 ELSE 0

isExpensiveMCPTask(c) == c \in {"heavy", "raster"}

\* Fault: the limit is tested after the slot is taken.
CanAcquireOneMore(c) ==
    /\ limiter.active <= MaxTasks
    /\ isExpensiveMCPTask(c) => limiter.heavy + limiter.raster < MaxHeavy
    /\ c = "raster" => limiter.raster < MaxRaster

CanAcquire(c) ==
    /\ limiter.active < MaxTasks
    /\ isExpensiveMCPTask(c) => limiter.heavy + limiter.raster < MaxHeavy
    /\ c = "raster" => limiter.raster < MaxRaster

acquire(l, c) ==
    [l EXCEPT !.active = @ + 1,
              !.heavy  = @ + One(c = "heavy"),
              !.raster = @ + One(c = "raster")]

\* Fault: the raster counter is not given back.
releaseKeepsRaster(l, c) ==
    IF l.active <= 0 THEN l
    ELSE [l EXCEPT !.active = @ - 1, !.heavy = @ - One(c = "heavy" /\ @ > 0)]

\* Fault: an expensive call gives a heavy slot back, whether there is one or not.
releaseExpensive(l, c) ==
    IF l.active <= 0 THEN l
    ELSE [l EXCEPT !.active = @ - 1,
                   !.heavy  = @ - One(isExpensiveMCPTask(c)),
                   !.raster = @ - One(c = "raster" /\ @ > 0)]

release(l, c) ==
    IF l.active <= 0 THEN l
    ELSE [l EXCEPT !.active = @ - 1,
                   !.heavy  = @ - One(c = "heavy" /\ @ > 0),
                   !.raster = @ - One(c = "raster" /\ @ > 0)]

CanEnqueue == limiter.queued < MaxQueued

enqueue(l, c) ==
    [l EXCEPT !.queued = @ + 1,
              !.queuedHeavy  = @ + One(c = "heavy"),
              !.queuedRaster = @ + One(c = "raster")]

\* A counter that is given back once for every member of S, but not below zero.
Without(count, S) == IF Cardinality(S) < count THEN count - Cardinality(S) ELSE 0

\* dequeue, once for every member of the set S of waiting tasks.
dequeueAll(l, S) ==
    [l EXCEPT !.queued = Without(@, S),
              !.queuedHeavy  = Without(@, {r \in S : class[r] = "heavy"}),
              !.queuedRaster = Without(@, {r \in S : class[r] = "raster"})]

closeLimiter == [c \in Counters |-> 0]

(***************************************************************************)
(* Shared steps of the handlers.                                           *)
(***************************************************************************)
Response(r, kind) == [id |-> r, kind |-> kind]

\* Cancel the contexts of the tasks in S.  A context that already ended keeps
\* its reason (Go reports the first one); nothing reads it once the tool
\* returned, so only the contexts of executing tasks are tracked.
CancelContexts(S) ==
    ctx' = [r \in Requests |->
                IF r \in S \cap Executing /\ ctx[r] = "none" THEN "cancelled"
                ELSE ctx[r]]

\* startTask: the lease is always granted here, because the manager closes
\* only after the loop returned.  A task started after shutdown inherits the
\* ended session context.
startTask(r) ==
    /\ phase' = [phase EXCEPT ![r] = "running"]
    /\ work' = [work EXCEPT ![r] = "executing"]
    /\ executions' = [executions EXCEPT ![r] = @ + 1]
    /\ ctx' = [ctx EXCEPT ![r] = IF shutdown THEN "cancelled" ELSE "none"]

\* Fault: the waiting tasks are kept.
cancelTasksKeepsQueue ==
    /\ cancelled' = [r \in Requests |-> IF r \in Running THEN TRUE ELSE cancelled[r]]
    /\ CancelContexts(Running)
    /\ UNCHANGED <<phase, limiter>>

\* cancelTasks: waiting tasks leave, running ones are flagged and cancelled.
cancelTasks ==
    /\ phase' = [r \in Requests |-> IF r \in Queued THEN "closed" ELSE phase[r]]
    /\ cancelled' = [r \in Requests |->
                        IF r \in Queued \cup Running THEN TRUE ELSE cancelled[r]]
    /\ CancelContexts(Running)
    /\ limiter' = dequeueAll(limiter, Queued)

\* cancelTasks followed by a return from the loop: the task map is gone, the
\* deferred close of the limiter and the session's cancellation have run.
Abort ==
    /\ loop' = "aborted"
    /\ outbox' = <<>>
    /\ phase' = [r \in Requests |->
                    IF r \in Queued \cup Running THEN "closed" ELSE phase[r]]
    /\ cancelled' = [r \in Requests |->
                        IF r \in Queued \cup Running THEN TRUE ELSE cancelled[r]]
    /\ CancelContexts(Executing)
    /\ limiter' = closeLimiter
    /\ UNCHANGED <<session, seen, inputClosed, shutdown, class, workVars, replies>>

-----------------------------------------------------------------------------
(***************************************************************************)
(* Reading a request.                                                      *)
(***************************************************************************)
\* Fault: only ids with a task in flight are refused.
AlreadyInFlight(r) == r \in seen /\ phase[r] \in {"queued", "running"}

AlreadySeen(r) == r \in seen

\* An id may arrive when every earlier one has: ids are numbered that way.
Arrives(r) ==
    /\ AtSelect
    /\ ~inputClosed
    /\ 1..(r - 1) \subseteq seen

Fresh(r) == Arrives(r) /\ ~AlreadySeen(r) /\ seen' = seen \cup {r}

\* A second request with a used id is refused; the reply carries the id but
\* answers the second request, so it is not counted in replies[r].
ReceiveDuplicate(r) ==
    /\ Arrives(r)
    /\ AlreadySeen(r)
    /\ outbox' = <<Response(r, "duplicate")>>
    /\ UNCHANGED <<loop, session, seen, inputClosed, shutdown, limiter, phase,
                   class, cancelled, ctx, workVars, replies>>

\* Requests answered by the loop itself: an accepted initialize; and ping,
\* tools/list, a refused initialize, a call before the handshake is complete,
\* an unknown method, a malformed envelope.
ReceiveImmediate(r) ==
    /\ Fresh(r)
    /\ \/ session = "new" /\ session' = "initialized"
       \/ UNCHANGED session
    /\ phase' = [phase EXCEPT ![r] = "closed"]
    /\ outbox' = <<Response(r, "immediate")>>
    /\ UNCHANGED <<loop, inputClosed, shutdown, limiter, class, cancelled, ctx,
                   workVars, replies>>

\* handleMCPNotification: notifications/initialized.
NotifyInitialized ==
    /\ AtSelect
    /\ ~inputClosed
    /\ session = "initialized"
    /\ session' = "ready"
    /\ UNCHANGED <<loop, outbox, seen, inputClosed, shutdown, limiter, phase,
                   class, cancelled, ctx, workVars, replies>>

ReceiveCall(r, c) == Fresh(r) /\ session = "ready" /\ class' = [class EXCEPT ![r] = c]

\* tools/call that fits the limits: it starts at once.
StartCall(r, c) ==
    /\ ReceiveCall(r, c)
    /\ CanAcquire(c)
    /\ limiter' = acquire(limiter, c)
    /\ startTask(r)
    /\ UNCHANGED <<loop, outbox, session, inputClosed, shutdown, cancelled,
                   committed, outcome, replies>>

\* tools/call that does not fit: it waits.
QueueCall(r, c) ==
    /\ ReceiveCall(r, c)
    /\ ~CanAcquire(c)
    /\ CanEnqueue
    /\ limiter' = enqueue(limiter, c)
    /\ phase' = [phase EXCEPT ![r] = "queued"]
    /\ UNCHANGED <<loop, outbox, session, inputClosed, shutdown, cancelled,
                   ctx, workVars, replies>>

\* tools/call when the queue is full too: server_busy.
RefuseCall(r, c) ==
    /\ ReceiveCall(r, c)
    /\ ~CanAcquire(c)
    /\ ~CanEnqueue
    /\ phase' = [phase EXCEPT ![r] = "closed"]
    /\ outbox' = <<Response(r, "busy")>>
    /\ UNCHANGED <<loop, session, inputClosed, shutdown, limiter, cancelled,
                   ctx, workVars, replies>>

\* notifications/cancelled naming a waiting task: removed without a reply.
CancelQueued(r) ==
    /\ AtSelect
    /\ ~inputClosed
    /\ r \in Queued
    /\ phase' = [phase EXCEPT ![r] = "closed"]
    /\ cancelled' = [cancelled EXCEPT ![r] = TRUE]
    /\ limiter' = dequeueAll(limiter, {r})
    /\ UNCHANGED <<loopVars, class, ctx, workVars, replies>>

\* Fault: cancelling gives the slot back before the goroutine has reported.
CancelRunningReleases(r) ==
    /\ AtSelect
    /\ ~inputClosed
    /\ r \in Running
    /\ cancelled' = [cancelled EXCEPT ![r] = TRUE]
    /\ CancelContexts({r})
    /\ limiter' = release(limiter, class[r])
    /\ UNCHANGED <<loopVars, phase, class, workVars, replies>>

\* notifications/cancelled naming a running task; any other id is ignored.
CancelRunning(r) ==
    /\ AtSelect
    /\ ~inputClosed
    /\ r \in Running
    /\ cancelled' = [cancelled EXCEPT ![r] = TRUE]
    /\ CancelContexts({r})
    /\ UNCHANGED <<loopVars, limiter, phase, class, workVars, replies>>

\* The reader reached the end of the input: nothing more starts, the running
\* calls are cancelled but the loop stays until each has reported.
CloseInput ==
    /\ AtSelect
    /\ ~inputClosed
    /\ inputClosed' = TRUE
    /\ cancelTasks
    /\ UNCHANGED <<loop, outbox, session, seen, shutdown, class, workVars, replies>>

\* A transport error, or a fatal protocol error once it is answered.
FatalInput == AtSelect /\ ~inputClosed /\ Abort

-----------------------------------------------------------------------------
(***************************************************************************)
(* The other branches of the select, and the writes.                       *)
(***************************************************************************)
\* The parent context ends; every task context is derived from it.
Shutdown ==
    /\ ~shutdown
    /\ ~Ended
    /\ shutdown' = TRUE
    /\ CancelContexts(Executing)
    /\ UNCHANGED <<loop, outbox, session, seen, inputClosed, limiter, phase,
                   class, cancelled, workVars, replies>>

StopOnShutdown == AtSelect /\ shutdown /\ Abort

\* expireQueued: the waiting tasks whose deadline passed are the oldest ones.
\* All of them leave, then their answers are written one after the other; when
\* one write fails, cancelTasks drops the rest unanswered.
expireQueued(last) ==
    LET expired == {r \in Queued : r <= last}
    IN  /\ AtSelect
        /\ last \in Queued
        /\ phase' = [r \in Requests |-> IF r \in expired THEN "closed" ELSE phase[r]]
        /\ limiter' = dequeueAll(limiter, expired)
        /\ \E order \in [1..Cardinality(expired) -> expired] :
               /\ \A i, j \in DOMAIN order : i < j => order[i] < order[j]
               /\ outbox' = [i \in DOMAIN order |-> Response(order[i], "queue_timeout")]
        /\ UNCHANGED <<loop, session, seen, inputClosed, shutdown, class,
                       cancelled, ctx, workVars, replies>>

\* Faults: cancellation always, or never, suppresses the answer.
IsAnsweredUnlessCancelled(r) == ~cancelled[r]
IsAnsweredAlways(r) == phase[r] = "running"

\* A cancelled call is not answered, unless it had already committed.
IsAnswered(r) == ~cancelled[r] \/ committed[r]

\* A result leaves the channel: the task ends, its slot is released, and the
\* queue is dispatched before the loop selects again.
ReceiveResult(r) ==
    /\ AtSelect
    /\ r \in Delivered
    /\ r \in Running
    /\ phase' = [phase EXCEPT ![r] = "closed"]
    /\ work' = [work EXCEPT ![r] = "ended"]
    /\ outcome' = [outcome EXCEPT ![r] = "none"]
    /\ limiter' = release(limiter, class[r])
    /\ outbox' = IF IsAnswered(r) THEN <<Response(r, outcome[r])>> ELSE <<>>
    /\ loop' = "dispatch"
    /\ UNCHANGED <<session, seen, inputClosed, shutdown, class, cancelled,
                   ctx, committed, executions, replies>>

\* Fault: any waiting task that fits is taken.
IsAnyFitting(r) == CanAcquire(class[r])

\* dispatchQueued: the oldest waiting task that fits leaves the queue.
IsNext(r) ==
    /\ CanAcquire(class[r])
    /\ \A q \in Queued : q < r => ~CanAcquire(class[q])

DispatchNext(r) ==
    /\ loop = "dispatch"
    /\ outbox = <<>>
    /\ r \in Queued
    /\ IsNext(r)
    /\ limiter' = dequeueAll(acquire(limiter, class[r]), {r})
    /\ startTask(r)
    /\ UNCHANGED <<loopVars, class, cancelled, committed, outcome, replies>>

\* Fault: a result does not make the loop look at the queue.
DispatchNothing ==
    /\ loop = "dispatch"
    /\ outbox = <<>>
    /\ loop' = "select"
    /\ UNCHANGED <<outbox, session, seen, inputClosed, shutdown, limiter, phase,
                   class, cancelled, ctx, workVars, replies>>

DispatchDone ==
    /\ loop = "dispatch"
    /\ outbox = <<>>
    /\ \A r \in Queued : ~CanAcquire(class[r])
    /\ loop' = "select"
    /\ UNCHANGED <<outbox, session, seen, inputClosed, shutdown, limiter, phase,
                   class, cancelled, ctx, workVars, replies>>

\* The loop's condition: closed input and no task left.
ReturnDrained ==
    /\ loop = "select"
    /\ outbox = <<>>
    /\ ~KeepsServing
    /\ loop' = "drained"
    /\ limiter' = closeLimiter
    /\ UNCHANGED <<outbox, session, seen, inputClosed, shutdown, phase, class,
                   cancelled, ctx, workVars, replies>>

\* writeResponse.
Write ==
    /\ outbox # <<>>
    /\ LET m == Head(outbox)
       IN  replies' = IF m.kind = "duplicate" THEN replies
                      ELSE [replies EXCEPT ![m.id] = Append(@, m.kind)]
    /\ outbox' = Tail(outbox)
    /\ UNCHANGED <<loop, session, seen, inputClosed, shutdown, limiter, phase,
                   class, cancelled, ctx, workVars>>

WriteFails == outbox # <<>> /\ Abort

-----------------------------------------------------------------------------
(***************************************************************************)
(* The goroutine of a call (runMCPToolTask).                               *)
(***************************************************************************)
\* The tool publishes a change it cannot take back (markMCPCommitted).
Commit(r) ==
    /\ work[r] = "executing"
    /\ ~committed[r]
    /\ committed' = [committed EXCEPT ![r] = TRUE]
    /\ UNCHANGED <<loopVars, limiter, phase, class, cancelled, ctx, work,
                   outcome, executions, replies>>

Deadline(r) ==
    /\ work[r] = "executing"
    /\ ctx[r] = "none"
    /\ ctx' = [ctx EXCEPT ![r] = "deadline"]
    /\ UNCHANGED <<loopVars, limiter, phase, class, cancelled, workVars, replies>>

\* Fault: the deadline is reported whatever was committed.
OutcomeIgnoresCommit(r) == IF ctx[r] = "deadline" THEN "timeout" ELSE "result"

Outcome(r) ==
    IF ctx[r] = "deadline" /\ ~committed[r] THEN "timeout" ELSE "result"

\* The tool returned; the result goes to the channel as soon as it has room.
\* Once the session is over an uncommitted result may be dropped instead.
SessionOver == shutdown \/ Ended

\* Fault: the end of the task's own context drops the result.
CanDropOnTaskEnd(r) == ctx[r] # "none" /\ ~committed[r]

CanDrop(r) == SessionOver /\ ~committed[r]

Deliver(r) ==
    /\ work[r] = "executing"
    /\ Cardinality(Delivered) < MaxTasks
    /\ outcome' = [outcome EXCEPT ![r] = Outcome(r)]
    /\ work' = [work EXCEPT ![r] = "delivered"]
    /\ ctx' = [ctx EXCEPT ![r] = "none"]
    /\ UNCHANGED <<loopVars, limiter, phase, class, cancelled, committed,
                   executions, replies>>

Discard(r) ==
    /\ work[r] = "executing"
    /\ CanDrop(r)
    /\ work' = [work EXCEPT ![r] = "ended"]
    /\ ctx' = [ctx EXCEPT ![r] = "none"]
    /\ UNCHANGED <<loopVars, limiter, phase, class, cancelled, committed,
                   outcome, executions, replies>>

-----------------------------------------------------------------------------
Receive ==
    \/ \E r \in Requests : ReceiveDuplicate(r) \/ ReceiveImmediate(r)
    \/ \E r \in Requests, c \in Classes :
           StartCall(r, c) \/ QueueCall(r, c) \/ RefuseCall(r, c)
    \/ \E r \in Requests : CancelQueued(r) \/ CancelRunning(r)
    \/ NotifyInitialized
    \/ CloseInput
    \/ FatalInput

Loop ==
    \/ StopOnShutdown
    \/ \E r \in Requests : expireQueued(r) \/ ReceiveResult(r) \/ DispatchNext(r)
    \/ DispatchDone
    \/ ReturnDrained
    \/ Write
    \/ WriteFails

Goroutine(r) == Commit(r) \/ Deadline(r) \/ Deliver(r) \/ Discard(r)

\* The session is over and every goroutine has ended: only here may it stop.
Terminated ==
    /\ Ended
    /\ \A r \in Requests : work[r] # "executing"
    /\ UNCHANGED vars

Next ==
    \/ Receive
    \/ Loop
    \/ Shutdown
    \/ \E r \in Requests : Goroutine(r)
    \/ Terminated

Spec == Init /\ [][Next]_vars

(***************************************************************************)
(* Fairness.  The loop takes its steps; a select in which a branch is      *)
(* ready again and again picks it at last, because Go chooses among the    *)
(* ready branches at random (hence strong fairness: a client that keeps    *)
(* sending cannot starve the results or the shutdown); a tool returns,     *)
(* because its context has a deadline it is written to observe.            *)
(***************************************************************************)
Fairness ==
    /\ WF_vars(Write)
    /\ WF_vars(DispatchDone \/ \E r \in Requests : DispatchNext(r))
    /\ WF_vars(ReturnDrained)
    /\ SF_vars(StopOnShutdown)
    /\ \A r \in Requests : SF_vars(ReceiveResult(r))
    /\ \A r \in Requests : WF_vars(Deliver(r) \/ Discard(r))

FairSpec == Spec /\ Fairness

-----------------------------------------------------------------------------
(***************************************************************************)
(* Properties.                                                             *)
(***************************************************************************)
OfClass(S, C) == {r \in S : class[r] \in C}

\* Every variable has its type.
TypeOK ==
    /\ loop \in {"select", "dispatch", "drained", "aborted"}
    /\ outbox \in Seq([id : Requests, kind : ReplyKinds \cup {"duplicate"}])
    /\ session \in {"new", "initialized", "ready"}
    /\ seen \in SUBSET Requests
    /\ inputClosed \in BOOLEAN
    /\ shutdown \in BOOLEAN
    /\ limiter \in [Counters -> Nat]
    /\ phase \in [Requests -> {"unseen", "queued", "running", "closed"}]
    /\ class \in [Requests -> Classes]
    /\ cancelled \in [Requests -> BOOLEAN]
    /\ ctx \in [Requests -> {"none", "deadline", "cancelled"}]
    /\ work \in [Requests -> {"none", "executing", "delivered", "ended"}]
    /\ committed \in [Requests -> BOOLEAN]
    /\ outcome \in [Requests -> {"none", "result", "timeout"}]
    /\ executions \in [Requests -> Nat]
    /\ replies \in [Requests -> Seq(ReplyKinds)]

\* The six counters of mcpTaskLimiter always agree with the task map: no
\* path through start, queue, dispatch, cancel, expiry, result or unwinding
\* releases a slot twice or forgets one.
CountersExact ==
    /\ limiter.active = Cardinality(Running)
    /\ limiter.heavy = Cardinality(OfClass(Running, {"heavy"}))
    /\ limiter.raster = Cardinality(OfClass(Running, {"raster"}))
    /\ limiter.queued = Cardinality(Queued)
    /\ limiter.queuedHeavy = Cardinality(OfClass(Queued, {"heavy"}))
    /\ limiter.queuedRaster = Cardinality(OfClass(Queued, {"raster"}))

\* The goroutines that really execute respect the configured limits, also
\* when their calls were cancelled and after the loop returned.
WithinLimits ==
    /\ Cardinality(Executing) <= MaxTasks
    /\ Cardinality(OfClass(Executing, {"heavy", "raster"})) <= MaxHeavy
    /\ Cardinality(OfClass(Executing, {"raster"})) <= MaxRaster
    /\ Cardinality(Queued) <= MaxQueued

\* Whenever the loop selects, no waiting call fits: a slot freed by a result
\* is never left idle while a call that could use it waits.
WorkConserving ==
    loop = "select" => \A r \in Queued : ~CanAcquire(class[r])

\* A goroutine that has a result to send finds room in the results channel,
\* so a committed result, sent without a way out, cannot block for ever.
ResultsNeverBlock ==
    Executing # {} => Cardinality(Delivered) < MaxTasks

\* A request id is executed at most once and answered at most once in the
\* whole session, whatever is repeated, cancelled or expired.
AtMostOnce ==
    \A r \in Requests : executions[r] <= 1 /\ Len(replies[r]) <= 1

\* An answer that invites the client to retry (server busy, queue timeout,
\* execution timeout) is never given for a call that made its change.
RetryIsSafe ==
    \A r \in Requests : \A i \in DOMAIN replies[r] :
        /\ replies[r][i] \in {"busy", "queue_timeout"} => executions[r] = 0
        /\ replies[r][i] = "timeout" => ~committed[r]

\* A cancelled call that changed nothing is not answered.
CancelledIsSilent ==
    \A r \in Requests : cancelled[r] /\ ~committed[r] => replies[r] = <<>>

\* A call that changed something is answered with its result although it was
\* cancelled, timed out or the input was closed, unless the loop gave up.
CommittedIsReported ==
    \A r \in Requests :
        committed[r] /\ phase[r] = "closed" /\ loop # "aborted" =>
            \/ replies[r] = <<"result">>
            \/ outbox = <<Response(r, "result")>>

\* Once the input is closed, or the loop has given up, no call is started.
NothingStartsAfterClose ==
    [][inputClosed \/ Ended => executions' = executions]_vars

\* The counters, the queue order and the unwinding implement the abstract
\* admission policy.
Admission == INSTANCE AdmissionControl WITH running <- Running, waiting <- Queued

AdmissionPolicy == Admission!Spec

\* Every call that was accepted comes to an end.
EveryCallSettles ==
    \A r \in Requests : phase[r] \in {"queued", "running"} ~> phase[r] = "closed"

\* Closing the input or the parent context ends the session.
SessionEnds == inputClosed \/ shutdown ~> Ended
=============================================================================
