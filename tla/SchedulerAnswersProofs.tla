----------------------- MODULE SchedulerAnswersProofs -----------------------
(***************************************************************************)
(* Theorems about what the session of TaskScheduler answers, and about the *)
(* waiting calls: each is a consequence of one more inductive invariant on *)
(* top of that of TaskSchedulerProofs.                                     *)
(***************************************************************************)
EXTENDS TaskSchedulerProofs

(***************************************************************************)
(* The inductive invariant of the answers.  AtMostOnce, RetryIsSafe and    *)
(* CancelledIsSilent speak of answers that were written; they are decided  *)
(* when the answer enters the outbox, so the invariant says of an answer   *)
(* still to be written what they say of a written one, and of a task what  *)
(* makes its answer true when it is given.                                 *)
(***************************************************************************)
\* What an answer of kind k says about the request r is true.
Truthful(r, k) ==
    /\ k \in {"busy", "queue_timeout"} => executions[r] = 0
    /\ k = "timeout" => ~committed[r] /\ work[r] = "ended"
    /\ cancelled[r] => committed[r]

\* Every answer in the outbox is the only one, for a task that is closed.
OutboxInv ==
    \A i \in DOMAIN outbox :
        /\ \A j \in DOMAIN outbox : outbox[j].id = outbox[i].id => j = i
        /\ outbox[i].kind # "duplicate" =>
               /\ phase[outbox[i].id] = "closed"
               /\ replies[outbox[i].id] = <<>>
               /\ Truthful(outbox[i].id, outbox[i].kind)

\* A written answer is the only one too, and still true.
RepliesInv ==
    \A r \in Requests :
        replies[r] # <<>> =>
            /\ phase[r] = "closed"
            /\ Len(replies[r]) = 1
            /\ Truthful(r, replies[r][1])

\* A call that has not started has done nothing, it starts once, and a
\* goroutine that reports a timeout has not committed.
TaskInv ==
    \A r \in Requests :
        /\ executions[r] <= 1
        /\ executions[r] = 0 => work[r] = "none" /\ ~committed[r]
        /\ phase[r] \in {"unseen", "queued"} => executions[r] = 0 /\ ~cancelled[r]
        /\ work[r] = "delivered" /\ outcome[r] = "timeout" => ~committed[r]

\* The loop returns normally only when no goroutine is left.
DrainedIdle == loop = "drained" => Busy = {}

AnswersInv ==
    /\ OutboxInv
    /\ RepliesInv
    /\ TaskInv
    /\ DrainedIdle
    /\ CommittedIsReported

(***************************************************************************)
(* What steps do to tasks that are over, and to the answers.               *)
(***************************************************************************)
\* A closed task stays closed; it is neither started nor cancelled any more.
LEMMA ClosedStep ==
    ASSUME IInv, [Next]_vars, NEW r \in Requests, phase[r] = "closed"
    PROVE  /\ phase'[r] = "closed"
           /\ executions'[r] = executions[r]
           /\ cancelled'[r] = cancelled[r]
           /\ committed[r] => committed'[r]
           /\ work[r] = "ended" => work'[r] = "ended" /\ committed'[r] = committed[r]
  <1> USE DEF IInv, TypeOK
  <1> DEFINE Goal == /\ phase'[r] = "closed"
                     /\ executions'[r] = executions[r]
                     /\ cancelled'[r] = cancelled[r]
                     /\ committed[r] => committed'[r]
                     /\ work[r] = "ended" => work'[r] = "ended" /\ committed'[r] = committed[r]
  <1>1. ASSUME NEW x \in Requests, Fresh(x) PROVE x # r
    BY <1>1, FreshIsUnseen
  <1>2. CASE Receive
    <2>1. ASSUME NEW x \in Requests, ReceiveDuplicate(x) \/ ReceiveImmediate(x) PROVE Goal
      BY <1>1, <2>1 DEF ReceiveDuplicate, ReceiveImmediate, workVars
    <2>2. ASSUME NEW x \in Requests, NEW c \in Classes, StartCall(x, c) PROVE Goal
      BY <1>1, <2>2 DEF StartCall, startTask, ReceiveCall
    <2>3. ASSUME NEW x \in Requests, NEW c \in Classes, QueueCall(x, c) \/ RefuseCall(x, c)
          PROVE  Goal
      BY <1>1, <2>3 DEF QueueCall, RefuseCall, ReceiveCall, workVars
    <2>4. ASSUME NEW x \in Requests, CancelQueued(x) \/ CancelRunning(x) PROVE Goal
      BY <2>4 DEF CancelQueued, CancelRunning, Queued, Running, workVars
    <2>5. CASE NotifyInitialized \/ CloseInput
      BY <2>5 DEF NotifyInitialized, CloseInput, cancelTasks, Queued, Running, workVars
    <2>6. CASE FatalInput
      BY <2>6 DEF FatalInput, Abort, Queued, Running, workVars
    <2> QED
      BY <1>2, <2>1, <2>2, <2>3, <2>4, <2>5, <2>6 DEF Receive
  <1>3. CASE Loop
    <2>1. ASSUME NEW x \in Requests, expireQueued(x) PROVE Goal
      BY <2>1 DEF expireQueued, Queued, workVars
    <2>2. ASSUME NEW x \in Requests, ReceiveResult(x) PROVE Goal
      BY <2>2 DEF ReceiveResult, Running
    <2>3. ASSUME NEW x \in Requests, DispatchNext(x) PROVE Goal
      BY <2>3 DEF DispatchNext, startTask, Queued
    <2>4. CASE DispatchDone \/ ReturnDrained \/ Write
      BY <2>4 DEF DispatchDone, ReturnDrained, Write, workVars
    <2>5. CASE StopOnShutdown \/ WriteFails
      BY <2>5 DEF StopOnShutdown, WriteFails, Abort, Queued, Running, workVars
    <2> QED
      BY <1>3, <2>1, <2>2, <2>3, <2>4, <2>5 DEF Loop
  <1>4. ASSUME NEW x \in Requests, Goroutine(x) PROVE Goal
    BY <1>4 DEF Goroutine, Commit, Deadline, Deliver, Discard, workVars
  <1>5. CASE Shutdown \/ Terminated \/ UNCHANGED vars
    BY <1>5 DEF Shutdown, Terminated, vars, workVars
  <1> QED
    BY <1>2, <1>3, <1>4, <1>5 DEF Next

\* What was true of an answered request stays true.
LEMMA TruthfulStep ==
    ASSUME IInv, [Next]_vars, NEW r \in Requests, phase[r] = "closed",
           NEW k, Truthful(r, k)
    PROVE  Truthful(r, k)' /\ phase'[r] = "closed"
  BY ClosedStep DEF Truthful

\* Only a write answers, and only these steps have something to answer.
LEMMA AnswerCases ==
    ASSUME [Next]_vars
    PROVE  \/ Write
           \/ /\ UNCHANGED replies
              /\ \/ UNCHANGED outbox
                 \/ outbox' = <<>>
                 \/ \E r \in Requests : ReceiveDuplicate(r) \/ ReceiveImmediate(r)
                 \/ \E r \in Requests, c \in Classes : RefuseCall(r, c)
                 \/ \E r \in Requests : expireQueued(r)
                 \/ \E r \in Requests : ReceiveResult(r)
  <1>1. CASE Receive
    BY <1>1 DEF Receive, ReceiveDuplicate, ReceiveImmediate, StartCall, QueueCall, RefuseCall,
                CancelQueued, CancelRunning, NotifyInitialized, CloseInput, FatalInput, Abort,
                loopVars
  <1>2. CASE Loop
    BY <1>2 DEF Loop, StopOnShutdown, expireQueued, ReceiveResult, DispatchNext, DispatchDone,
                ReturnDrained, WriteFails, Abort, loopVars
  <1>3. ASSUME NEW r \in Requests, Goroutine(r) PROVE UNCHANGED <<replies, outbox>>
    BY <1>3 DEF Goroutine, Commit, Deadline, Deliver, Discard, loopVars
  <1>4. CASE Shutdown \/ Terminated \/ UNCHANGED vars
    BY <1>4 DEF Shutdown, Terminated, vars, loopVars
  <1> QED
    BY <1>1, <1>2, <1>3, <1>4 DEF Next

\* The messages in the outbox.
LEMMA OutboxType ==
    ASSUME TypeOK, NEW i \in DOMAIN outbox
    PROVE  outbox[i].id \in Requests /\ outbox[i].kind \in ReplyKinds \cup {"duplicate"}
  <1>1. outbox[i] \in Message
    <2>1. outbox \in Seq(Message)
      BY DEF TypeOK, Message
    <2> QED
      BY <2>1
  <1> QED
    BY <1>1 DEF Message

\* What is left in the outbox after the first answer was written.
LEMMA TailIsShift ==
    ASSUME NEW S, NEW s \in Seq(S), s # <<>>
    PROVE  /\ 1 \in DOMAIN s /\ Head(s) = s[1]
           /\ \A i \in DOMAIN Tail(s) : i + 1 \in DOMAIN s /\ Tail(s)[i] = s[i + 1]
  OBVIOUS

(***************************************************************************)
(* The steps preserve the invariant, one conjunct at a time.               *)
(***************************************************************************)
\* A task that has not started has done nothing.
LEMMA TaskStep ==
    ASSUME IInv, TaskInv, [Next]_vars
    PROVE  TaskInv'
  <1> USE DEF IInv, TypeOK, TaskInv
  <1>1. ASSUME NEW x \in Requests, Fresh(x) PROVE phase[x] = "unseen"
    BY <1>1, FreshIsUnseen
  <1>2. ASSUME UNCHANGED workVars,
               \A x \in Requests : phase'[x] \in {"unseen", "queued"} =>
                   phase[x] = phase'[x] /\ cancelled'[x] = cancelled[x]
        PROVE  TaskInv'
    BY <1>2 DEF workVars
  <1>3. CASE Abort
    <2>1. \A x \in Requests : phase'[x] \in {"unseen", "queued"} =>
                                 phase[x] = phase'[x] /\ cancelled'[x] = cancelled[x]
      BY <1>3 DEF Abort, Queued, Running
    <2> QED
      BY <1>2, <1>3, <2>1 DEF Abort, workVars
  <1>4. CASE Receive
    <2>1. ASSUME NEW x \in Requests, ReceiveDuplicate(x) \/ ReceiveImmediate(x) PROVE TaskInv'
      BY <1>1, <2>1 DEF ReceiveDuplicate, ReceiveImmediate, workVars
    <2>2. ASSUME NEW x \in Requests, NEW c \in Classes, StartCall(x, c) PROVE TaskInv'
      BY <1>1, <2>2 DEF StartCall, startTask, ReceiveCall
    <2>3. ASSUME NEW x \in Requests, NEW c \in Classes, QueueCall(x, c) \/ RefuseCall(x, c)
          PROVE  TaskInv'
      BY <1>1, <2>3 DEF QueueCall, RefuseCall, ReceiveCall, workVars
    <2>4. ASSUME NEW x \in Requests, CancelQueued(x) \/ CancelRunning(x) PROVE TaskInv'
      <3>1. CASE CancelQueued(x)
        BY <1>2, <3>1 DEF CancelQueued, workVars
      <3>2. CASE CancelRunning(x)
        BY <1>2, <3>2 DEF CancelRunning, Running, workVars
      <3> QED
        BY <2>4, <3>1, <3>2
    <2>5. CASE NotifyInitialized
      BY <2>5 DEF NotifyInitialized, workVars
    <2>6. CASE CloseInput
      <3>1. \A x \in Requests : phase'[x] \in {"unseen", "queued"} =>
                                   phase[x] = phase'[x] /\ cancelled'[x] = cancelled[x]
        BY <2>6 DEF CloseInput, cancelTasks, Queued, Running
      <3> QED
        BY <1>2, <2>6, <3>1 DEF CloseInput, workVars
    <2>7. CASE FatalInput
      BY <1>3, <2>7 DEF FatalInput
    <2> QED
      BY <1>4, <2>1, <2>2, <2>3, <2>4, <2>5, <2>6, <2>7 DEF Receive
  <1>5. CASE Loop
    <2>1. ASSUME NEW x \in Requests, expireQueued(x) PROVE TaskInv'
      BY <2>1 DEF expireQueued, Queued, workVars
    <2>2. ASSUME NEW x \in Requests, ReceiveResult(x) PROVE TaskInv'
      BY <2>2 DEF ReceiveResult, Running, Delivered
    <2>3. ASSUME NEW x \in Requests, DispatchNext(x) PROVE TaskInv'
      BY <2>3 DEF DispatchNext, startTask, Queued
    <2>4. CASE DispatchDone \/ ReturnDrained \/ Write
      BY <2>4 DEF DispatchDone, ReturnDrained, Write, workVars
    <2>5. CASE StopOnShutdown \/ WriteFails
      BY <1>3, <2>5 DEF StopOnShutdown, WriteFails
    <2> QED
      BY <1>5, <2>1, <2>2, <2>3, <2>4, <2>5 DEF Loop
  <1>6. ASSUME NEW x \in Requests, Goroutine(x) PROVE TaskInv'
    <2>1. CASE Commit(x)
      BY <2>1 DEF Commit, workVars
    <2>2. CASE Deadline(x)
      BY <1>2, <2>2 DEF Deadline
    <2>3. CASE Deliver(x)
      BY <2>3 DEF Deliver, Outcome
    <2>4. CASE Discard(x)
      BY <2>4 DEF Discard
    <2> QED
      BY <1>6, <2>1, <2>2, <2>3, <2>4 DEF Goroutine
  <1>7. CASE Shutdown \/ Terminated \/ UNCHANGED vars
    BY <1>7 DEF Shutdown, Terminated, vars, workVars
  <1> QED
    BY <1>4, <1>5, <1>6, <1>7 DEF Next

\* A written answer was the outbox's, and stays true.
LEMMA RepliesStep ==
    ASSUME IInv, OutboxInv, RepliesInv, [Next]_vars
    PROVE  RepliesInv'
  <1>1. CASE UNCHANGED replies
    BY <1>1, TruthfulStep DEF RepliesInv
  <1>2. CASE Write
    <2> DEFINE m == Head(outbox)
    <2>1. outbox # <<>> /\ outbox \in Seq(Message)
      BY <1>2 DEF Write, IInv, TypeOK, Message
    <2>2. 1 \in DOMAIN outbox /\ m = outbox[1] /\ m \in Message
      BY <2>1, TailIsShift, HeadTailType
    <2>3. /\ m.id \in Requests
          /\ m.kind # "duplicate" => /\ phase[m.id] = "closed"
                                     /\ replies[m.id] = <<>>
                                     /\ Truthful(m.id, m.kind)
      BY <2>2 DEF OutboxInv, Message
    <2>4. replies' = IF m.kind = "duplicate" THEN replies
                     ELSE [replies EXCEPT ![m.id] = Append(@, m.kind)]
      BY <1>2 DEF Write
    <2>5. replies \in [Requests -> Seq(ReplyKinds)]
      BY DEF IInv, TypeOK
    <2> HIDE DEF m
    <2>6. CASE m.kind = "duplicate"
      BY <1>1, <2>4, <2>6
    <2>7. CASE m.kind # "duplicate"
      <3> DEFINE id == m.id
                 k == m.kind
      <3>1. id \in Requests /\ replies[id] = <<>> /\ k \in ReplyKinds
        BY <2>2, <2>3, <2>7 DEF Message
      <3>2. replies' = [replies EXCEPT ![id] = Append(@, k)]
        BY <2>4, <2>7
      <3>3. phase[id] = "closed" /\ Truthful(id, k)
        BY <2>3, <2>7
      <3> HIDE DEF id, k
      <3>4. /\ replies'[id] = <<k>>
            /\ \A x \in Requests : x # id => replies'[x] = replies[x]
        BY <2>5, <3>1, <3>2
      <3>5. ASSUME NEW x \in Requests, replies'[x] # <<>>
            PROVE  phase'[x] = "closed" /\ Len(replies'[x]) = 1 /\ Truthful(x, replies[x][1])'
        <4>1. PICK a : a = replies'[x][1]
          OBVIOUS
        <4>2. CASE x = id
          <5>1. Len(replies'[x]) = 1 /\ k = a
            BY <3>4, <4>1, <4>2
          <5>2. Truthful(x, a) /\ phase[x] = "closed"
            BY <3>3, <4>2, <5>1
          <5>3. Truthful(x, a)' /\ phase'[x] = "closed"
            BY <3>5, <5>2, TruthfulStep
          <5> QED
            BY <4>1, <5>1, <5>3 DEF Truthful
        <4>3. CASE x # id
          <5>1. replies'[x] = replies[x]
            BY <3>4, <4>3
          <5>2. phase[x] = "closed" /\ Len(replies[x]) = 1 /\ Truthful(x, a)
            BY <3>5, <4>1, <5>1 DEF RepliesInv
          <5>3. Truthful(x, a)' /\ phase'[x] = "closed"
            BY <3>5, <5>2, TruthfulStep
          <5> QED
            BY <4>1, <5>1, <5>2, <5>3 DEF Truthful
        <4> QED
          BY <4>2, <4>3
      <3> QED
        BY <3>5 DEF RepliesInv
    <2> QED
      BY <2>6, <2>7
  <1> QED
    BY <1>1, <1>2, AnswerCases

\* One answer enters the outbox: a refusal of a repeated id, or the true
\* answer to a closed task that has had none.
LEMMA OneAnswer ==
    ASSUME NEW r \in Requests, NEW k, outbox' = <<Response(r, k)>>,
           k # "duplicate" => phase'[r] = "closed" /\ replies'[r] = <<>> /\ Truthful(r, k)'
    PROVE  OutboxInv'
  <1>1. /\ DOMAIN outbox' = {1}
        /\ outbox'[1].id = r /\ outbox'[1].kind = k
    BY DEF Response
  <1> QED
    BY <1>1 DEF OutboxInv

\* Expired calls are answered once each: their ids are in increasing order.
LEMMA ExpiredAnswers ==
    ASSUME IInv, RepliesInv, TaskInv, [Next]_vars, NEW last \in Requests, expireQueued(last)
    PROVE  OutboxInv'
  <1> USE DEF IInv, TypeOK
  <1> DEFINE expired == {q \in Queued : q <= last}
  <1>1. PICK order \in [1..Cardinality(expired) -> expired] :
            /\ \A i, j \in DOMAIN order : i < j => order[i] < order[j]
            /\ outbox' = [i \in DOMAIN order |-> Response(order[i], "queue_timeout")]
    BY DEF expireQueued
  <1>2. \A x \in expired : phase'[x] = "closed"
    BY DEF expireQueued, Queued
  <1>3. \A x \in expired : x \in Requests /\ phase[x] = "queued"
    BY DEF Queued
  <1>4. UNCHANGED <<replies, executions, cancelled>>
    BY DEF expireQueued, workVars
  <1>5. Cardinality(expired) \in Nat
    BY RequestsFinite DEF Queued
  <1> HIDE DEF expired
  <1>6. ASSUME NEW x \in expired
        PROVE  phase'[x] = "closed" /\ replies'[x] = <<>> /\ Truthful(x, "queue_timeout")'
    <2>1. replies[x] = <<>> /\ executions[x] = 0 /\ ~cancelled[x]
      BY <1>3 DEF RepliesInv, TaskInv
    <2> QED
      BY <1>2, <1>4, <2>1 DEF Truthful
  <1>7. DOMAIN outbox' = 1..Cardinality(expired)
    BY <1>1
  <1>8. ASSUME NEW i \in DOMAIN outbox'
        PROVE  outbox'[i].id = order[i] /\ outbox'[i].kind = "queue_timeout" /\ order[i] \in expired
    BY <1>1, <1>8 DEF Response
  <1>9. ASSUME NEW i \in DOMAIN outbox', NEW j \in DOMAIN outbox', order[i] = order[j]
        PROVE  i = j
    <2>1. i \in Int /\ j \in Int /\ order[i] \in Int
      BY <1>3, <1>5, <1>7, <1>8 DEF Requests
    <2>2. ~(i < j) /\ ~(j < i)
      BY <1>1, <1>7, <1>9, <2>1
    <2> QED
      BY <2>1, <2>2
  <1>10. ASSUME NEW i \in DOMAIN outbox'
         PROVE  /\ \A j \in DOMAIN outbox' : outbox'[j].id = outbox'[i].id => j = i
                /\ phase'[outbox'[i].id] = "closed"
                /\ replies'[outbox'[i].id] = <<>>
                /\ Truthful(outbox[i].id, outbox[i].kind)'
    <2>1. \A j \in DOMAIN outbox' : outbox'[j].id = outbox'[i].id => j = i
      BY <1>8, <1>9
    <2>2. PICK x \in expired : x = order[i]
      BY <1>8
    <2>3. outbox'[i].id = x /\ outbox'[i].kind = "queue_timeout"
      BY <1>8, <2>2
    <2>4. phase'[x] = "closed" /\ replies'[x] = <<>> /\ Truthful(x, "queue_timeout")'
      BY <1>6
    <2> QED
      BY <2>1, <2>3, <2>4 DEF Truthful
  <1> QED
    BY <1>10 DEF OutboxInv

\* Every step keeps the answers in the outbox true.
LEMMA OutboxStep ==
    ASSUME IInv, OutboxInv, RepliesInv, TaskInv, [Next]_vars
    PROVE  OutboxInv'
  <1> USE DEF IInv, TypeOK
  <1>1. ASSUME NEW i \in DOMAIN outbox, outbox[i].kind # "duplicate"
        PROVE  \E r \in Requests, k \in ReplyKinds :
                   /\ r = outbox[i].id /\ k = outbox[i].kind
                   /\ phase'[r] = "closed" /\ replies[r] = <<>> /\ Truthful(r, k)'
    <2>1. PICK r \in Requests : r = outbox[i].id
      BY OutboxType
    <2>2. PICK k \in ReplyKinds : k = outbox[i].kind
      BY <1>1, OutboxType
    <2>3. phase[r] = "closed" /\ replies[r] = <<>> /\ Truthful(r, k)
      BY <1>1, <2>1, <2>2 DEF OutboxInv
    <2>4. phase'[r] = "closed" /\ Truthful(r, k)'
      BY <2>3, TruthfulStep
    <2> QED
      BY <2>1, <2>2, <2>3, <2>4
  <1>2. CASE UNCHANGED <<outbox, replies>>
    <2>1. ASSUME NEW i \in DOMAIN outbox
          PROVE  \A j \in DOMAIN outbox : outbox[j].id = outbox[i].id => j = i
      BY DEF OutboxInv
    <2> QED
      BY <1>1, <1>2, <2>1 DEF OutboxInv, Truthful
  <1>3. CASE outbox' = <<>>
    BY <1>3 DEF OutboxInv
  <1>4. ASSUME NEW x \in Requests, Fresh(x) PROVE phase[x] = "unseen" /\ replies[x] = <<>>
    BY <1>4, FreshIsUnseen DEF RepliesInv
  <1>5. ASSUME NEW x \in Requests, ReceiveDuplicate(x) PROVE OutboxInv'
    BY <1>5, OneAnswer DEF ReceiveDuplicate
  <1>6. ASSUME NEW x \in Requests, ReceiveImmediate(x) PROVE OutboxInv'
    <2>1. phase'[x] = "closed" /\ replies'[x] = <<>> /\ Truthful(x, "immediate")'
      BY <1>4, <1>6 DEF ReceiveImmediate, workVars, Truthful, TaskInv
    <2> QED
      BY <1>6, <2>1, OneAnswer DEF ReceiveImmediate
  <1>7. ASSUME NEW x \in Requests, NEW c \in Classes, RefuseCall(x, c) PROVE OutboxInv'
    <2>1. phase'[x] = "closed" /\ replies'[x] = <<>> /\ Truthful(x, "busy")'
      BY <1>4, <1>7 DEF RefuseCall, ReceiveCall, workVars, Truthful, TaskInv
    <2> QED
      BY <1>7, <2>1, OneAnswer DEF RefuseCall
  <1>8. ASSUME NEW x \in Requests, ReceiveResult(x) PROVE OutboxInv'
    <2>1. PICK k \in ReplyKinds : k = outcome[x]
      BY <1>8 DEF ReceiveResult, HasOutcome, ReplyKinds
    <2>2. CASE IsAnswered(x)
      <3>1. phase'[x] = "closed" /\ replies'[x] = <<>>
        BY <1>8 DEF ReceiveResult, Running, RepliesInv
      <3>2. /\ work'[x] = "ended" /\ UNCHANGED <<committed, executions, cancelled>>
            /\ work[x] = "delivered"
        BY <1>8 DEF ReceiveResult, Delivered
      <3>3. k \in {"result", "timeout"} /\ (k = "timeout" => ~committed[x])
        BY <1>8, <2>1, <3>2 DEF ReceiveResult, HasOutcome, TaskInv
      <3>4. Truthful(x, k)'
        BY <2>2, <3>2, <3>3 DEF Truthful, IsAnswered
      <3>5. outbox' = <<Response(x, k)>>
        BY <1>8, <2>1, <2>2 DEF ReceiveResult
      <3> QED
        BY <3>1, <3>4, <3>5, OneAnswer
    <2>3. CASE ~IsAnswered(x)
      BY <1>3, <1>8, <2>3 DEF ReceiveResult
    <2> QED
      BY <2>2, <2>3
  <1>9. CASE Write
    <2>1. outbox # <<>> /\ outbox \in Seq(Message) /\ outbox' = Tail(outbox)
      BY <1>9 DEF Write, Message
    <2>2. /\ 1 \in DOMAIN outbox /\ Head(outbox) = outbox[1]
          /\ \A i \in DOMAIN outbox' : i + 1 \in DOMAIN outbox /\ outbox'[i] = outbox[i + 1]
      BY <2>1, TailIsShift
    <2>3. DOMAIN outbox' \subseteq Nat \ {0}
      BY <2>1
    <2>4. ASSUME NEW i \in DOMAIN outbox', NEW j \in DOMAIN outbox', outbox'[j].id = outbox'[i].id
          PROVE  j = i
      <3>1. outbox[j + 1].id = outbox[i + 1].id
        BY <2>2, <2>4
      <3>2. j + 1 = i + 1
        BY <2>2, <3>1 DEF OutboxInv
      <3> QED
        BY <2>3, <3>2
    <2>5. ASSUME NEW i \in DOMAIN outbox', outbox'[i].kind # "duplicate"
          PROVE  \E r \in Requests, k \in ReplyKinds :
                     /\ r = outbox'[i].id /\ k = outbox'[i].kind
                     /\ phase'[r] = "closed" /\ replies'[r] = <<>> /\ Truthful(r, k)'
      <3>1. PICK r \in Requests, k \in ReplyKinds :
                /\ r = outbox[i + 1].id /\ k = outbox[i + 1].kind
                /\ phase'[r] = "closed" /\ replies[r] = <<>> /\ Truthful(r, k)'
        BY <1>1, <2>2, <2>5
      <3>2. i + 1 # 1
        BY <2>3, <2>5
      <3>3. r # Head(outbox).id
        BY <2>2, <3>1, <3>2 DEF OutboxInv
      <3>4. replies'[r] = replies[r]
        BY <1>9, <3>3 DEF Write
      <3> QED
        BY <2>2, <3>1, <3>4
    <2> QED
      BY <2>4, <2>5 DEF OutboxInv, Truthful
  <1> QED
    BY AnswerCases, ExpiredAnswers, <1>2, <1>3, <1>5, <1>6, <1>7, <1>8, <1>9

\* How the loop gets from one state to another.
LEMMA LoopCases ==
    ASSUME [Next]_vars
    PROVE  \/ UNCHANGED loop
           \/ loop' = "aborted"
           \/ \E r \in Requests : ReceiveResult(r)
           \/ DispatchDone
           \/ ReturnDrained
  <1>1. CASE Receive
    BY <1>1 DEF Receive, ReceiveDuplicate, ReceiveImmediate, StartCall, QueueCall, RefuseCall,
                CancelQueued, CancelRunning, NotifyInitialized, CloseInput, FatalInput, Abort,
                loopVars
  <1>2. CASE Loop
    BY <1>2 DEF Loop, StopOnShutdown, expireQueued, DispatchNext, Write, WriteFails, Abort,
                loopVars
  <1>3. ASSUME NEW r \in Requests, Goroutine(r) PROVE UNCHANGED loop
    BY <1>3 DEF Goroutine, Commit, Deadline, Deliver, Discard, loopVars
  <1>4. CASE Shutdown \/ Terminated \/ UNCHANGED vars
    BY <1>4 DEF Shutdown, Terminated, vars, loopVars
  <1> QED
    BY <1>1, <1>2, <1>3, <1>4 DEF Next

\* The loop returns normally only when no task, hence no goroutine, is left;
\* nothing starts afterwards.
LEMMA DrainedStep ==
    ASSUME IInv, DrainedIdle, [Next]_vars
    PROVE  DrainedIdle'
  <1> USE DEF IInv
  <1>1. CASE loop = "drained"
    <2>1. Busy = {}
      BY <1>1 DEF DrainedIdle
    <2>2. Quiet \/ loop' = "aborted"
      BY <1>1, StepCases
         DEF ReceiveImmediate, StartCall, QueueCall, RefuseCall, ReceiveCall, Fresh, Arrives,
             AtSelect, CancelQueued, CloseInput, Abort, expireQueued, ReceiveResult, DispatchNext,
             ReturnDrained
    <2> QED
      BY <2>1, <2>2 DEF Quiet, DrainedIdle
  <1>2. CASE loop # "drained" /\ ReturnDrained
    BY <1>2 DEF ReturnDrained, KeepsServing, BusyRuns, Busy, Executing, Delivered, workVars,
                Ended, DrainedIdle
  <1>3. CASE loop # "drained" /\ ~ReturnDrained
    <2>1. loop' # "drained"
      BY <1>3, LoopCases DEF ReceiveResult, DispatchDone
    <2> QED
      BY <2>1 DEF DrainedIdle
  <1> QED
    BY <1>1, <1>2, <1>3

\* A committed task that is closed when the loop has not given up was closed
\* and committed before, or is closed by its own result.
LEMMA ReportDue ==
    ASSUME IInv, TaskInv, DrainedIdle, [Next]_vars, NEW r \in Requests,
           committed'[r], phase'[r] = "closed", loop' # "aborted"
    PROVE  \/ ReceiveResult(r)
           \/ committed[r] /\ phase[r] = "closed" /\ loop # "aborted"
  <1> USE DEF IInv, TypeOK, TaskInv
  <1>1. loop # "aborted"
    BY LoopCases DEF ReceiveResult, DispatchDone, ReturnDrained, AtSelect
  <1>2. ASSUME NEW x \in Requests, Fresh(x) PROVE phase[x] = "unseen"
    BY <1>2, FreshIsUnseen
  <1>3. phase[r] \in {"unseen", "queued"} => ~committed[r]
    OBVIOUS
  <1>4. work[r] = "executing" => phase[r] = "running"
    BY <1>1 DEF BusyRuns, DrainedIdle, Busy, Executing, Ended, Running
  <1>5. CASE Receive
    <2>1. ASSUME NEW x \in Requests, ReceiveDuplicate(x) \/ ReceiveImmediate(x)
          PROVE  committed[r] /\ phase[r] = "closed"
      BY <1>2, <1>3, <2>1 DEF ReceiveDuplicate, ReceiveImmediate, workVars
    <2>2. ASSUME NEW x \in Requests, NEW c \in Classes, StartCall(x, c)
          PROVE  committed[r] /\ phase[r] = "closed"
      BY <2>2 DEF StartCall, startTask
    <2>3. ASSUME NEW x \in Requests, NEW c \in Classes, QueueCall(x, c) \/ RefuseCall(x, c)
          PROVE  committed[r] /\ phase[r] = "closed"
      BY <1>2, <1>3, <2>3 DEF QueueCall, RefuseCall, ReceiveCall, workVars
    <2>4. ASSUME NEW x \in Requests, CancelQueued(x) \/ CancelRunning(x)
          PROVE  committed[r] /\ phase[r] = "closed"
      BY <1>3, <2>4 DEF CancelQueued, CancelRunning, Queued, workVars
    <2>5. CASE NotifyInitialized
      BY <1>1, <2>5 DEF NotifyInitialized, workVars
    <2>6. CASE CloseInput
      <3>1. committed[r]
        BY <2>6 DEF CloseInput, workVars
      <3>2. phase' = [x \in Requests |-> IF x \in Queued THEN "closed" ELSE phase[x]]
        BY <2>6 DEF CloseInput, cancelTasks
      <3>3. r \in Queued \/ phase[r] = "closed"
        BY <3>2
      <3> QED
        BY <1>1, <1>3, <3>1, <3>3 DEF Queued
    <2>7. CASE FatalInput
      BY <2>7 DEF FatalInput, Abort
    <2> QED
      BY <1>1, <1>5, <2>1, <2>2, <2>3, <2>4, <2>5, <2>6, <2>7 DEF Receive
  <1>6. CASE Loop
    <2>1. ASSUME NEW x \in Requests, expireQueued(x) PROVE committed[r] /\ phase[r] = "closed"
      BY <1>3, <2>1 DEF expireQueued, Queued, workVars
    <2>2. ASSUME NEW x \in Requests, ReceiveResult(x), x # r
          PROVE  committed[r] /\ phase[r] = "closed"
      BY <2>2 DEF ReceiveResult
    <2>3. ASSUME NEW x \in Requests, DispatchNext(x) PROVE committed[r] /\ phase[r] = "closed"
      BY <2>3 DEF DispatchNext, startTask
    <2>4. CASE DispatchDone \/ ReturnDrained \/ Write
      BY <1>1, <2>4 DEF DispatchDone, ReturnDrained, Write, workVars
    <2>5. CASE StopOnShutdown \/ WriteFails
      BY <2>5 DEF StopOnShutdown, WriteFails, Abort
    <2> QED
      BY <1>1, <1>6, <2>1, <2>2, <2>3, <2>4, <2>5 DEF Loop
  <1>7. ASSUME NEW x \in Requests, Goroutine(x) PROVE committed[r] /\ phase[r] = "closed"
    BY <1>4, <1>7 DEF Goroutine, Commit, Deadline, Deliver, Discard, workVars
  <1>8. CASE Shutdown \/ Terminated \/ UNCHANGED vars
    BY <1>1, <1>8 DEF Shutdown, Terminated, vars, workVars
  <1> QED
    BY <1>1, <1>5, <1>6, <1>7, <1>8 DEF Next

\* While an answer is to be written the loop writes it or gives up.
LEMMA WhileWriting ==
    ASSUME IInv, [Next]_vars, outbox # <<>>, loop' # "aborted"
    PROVE  Write \/ UNCHANGED <<outbox, replies>>
  <1>1. ~AtSelect
    BY DEF AtSelect
  <1>2. CASE Receive
    BY <1>1, <1>2
       DEF Receive, ReceiveDuplicate, ReceiveImmediate, StartCall, QueueCall, RefuseCall,
           ReceiveCall, Fresh, Arrives, CancelQueued, CancelRunning, NotifyInitialized,
           CloseInput, FatalInput
  <1>3. CASE Loop
    BY <1>1, <1>3
       DEF Loop, StopOnShutdown, expireQueued, ReceiveResult, DispatchNext, DispatchDone,
           ReturnDrained, WriteFails, Abort
  <1>4. ASSUME NEW r \in Requests, Goroutine(r) PROVE UNCHANGED <<outbox, replies>>
    BY <1>4 DEF Goroutine, Commit, Deadline, Deliver, Discard, loopVars
  <1>5. CASE Shutdown \/ Terminated \/ UNCHANGED vars
    BY <1>5 DEF Shutdown, Terminated, vars, loopVars
  <1> QED
    BY <1>2, <1>3, <1>4, <1>5 DEF Next

\* A committed change stays reported.
LEMMA ReportStep ==
    ASSUME IInv, AnswersInv, [Next]_vars
    PROVE  CommittedIsReported'
  <1> USE DEF IInv, TypeOK, AnswersInv
  <1> SUFFICES ASSUME NEW r \in Requests,
                      committed'[r], phase'[r] = "closed", loop' # "aborted"
               PROVE  replies'[r] = <<"result">> \/ outbox' = <<Response(r, "result")>>
    BY DEF CommittedIsReported
  <1>1. CASE ReceiveResult(r)
    <2>1. work[r] = "delivered" /\ committed[r]
      BY <1>1 DEF ReceiveResult, Delivered
    <2>2. outcome[r] = "result"
      BY <2>1 DEF TaskInv, HasOutcome, Delivered
    <2>3. outbox' = <<Response(r, outcome[r])>>
      BY <1>1, <2>1 DEF ReceiveResult, IsAnswered
    <2> QED
      BY <2>2, <2>3
  <1>2. CASE committed[r] /\ phase[r] = "closed" /\ loop # "aborted"
    <2>1. replies[r] = <<"result">> \/ outbox = <<Response(r, "result")>>
      BY <1>2 DEF CommittedIsReported
    <2>2. CASE replies[r] = <<"result">>
      <3>1. CASE Write
        <4>1. outbox # <<>> /\ outbox \in Seq(Message)
          BY <3>1 DEF Write, Message
        <4>2. 1 \in DOMAIN outbox /\ Head(outbox) = outbox[1]
          BY <4>1, TailIsShift
        <4>3. Head(outbox).kind = "duplicate" \/ replies[Head(outbox).id] = <<>>
          BY <4>2 DEF OutboxInv
        <4>4. Head(outbox).kind = "duplicate" \/ Head(outbox).id # r
          <5>1. <<"result">> # <<>>
            OBVIOUS
          <5> QED
            BY <2>2, <4>3, <5>1
        <4> QED
          BY <2>2, <3>1, <4>4 DEF Write
      <3>2. CASE ~Write
        BY <2>2, <3>2, AnswerCases
      <3> QED
        BY <3>1, <3>2
    <2>3. CASE outbox = <<Response(r, "result")>>
      <3>1. CASE Write
        <4>1. Head(outbox).id = r /\ Head(outbox).kind = "result" /\ 1 \in DOMAIN outbox
          BY <2>3 DEF Response
        <4>2. replies[r] = <<>>
          BY <2>3, <4>1 DEF OutboxInv, Response
        <4>3. replies' = [replies EXCEPT ![r] = Append(@, "result")]
          BY <3>1, <4>1 DEF Write
        <4> QED
          BY <4>2, <4>3
      <3>2. CASE ~Write
        BY <2>3, <3>2, WhileWriting
      <3> QED
        BY <3>1, <3>2
    <2> QED
      BY <2>1, <2>2, <2>3
  <1> QED
    BY <1>1, <1>2, ReportDue

(***************************************************************************)
(* The theorems.                                                           *)
(***************************************************************************)
\* What the answers of the session say is true in every reachable state.
THEOREM AnswersInvHolds == Spec => []AnswersInv
  <1>1. Init => AnswersInv
    BY DEF Init, AnswersInv, OutboxInv, RepliesInv, TaskInv, DrainedIdle, CommittedIsReported
  <1>2. IInv /\ AnswersInv /\ [Next]_vars => AnswersInv'
    BY OutboxStep, RepliesStep, TaskStep, DrainedStep, ReportStep DEF AnswersInv
  <1> QED
    BY IInvHolds, <1>1, <1>2, PTL DEF Spec

\* A request id is executed at most once and answered at most once, for every
\* number of requests and however they are repeated, cancelled or expired.
THEOREM AtMostOnceHolds == Spec => []AtMostOnce
  <1>1. IInv /\ AnswersInv => AtMostOnce
    <2> SUFFICES ASSUME IInv, AnswersInv, NEW r \in Requests
                 PROVE  executions[r] <= 1 /\ Len(replies[r]) <= 1
      BY DEF AtMostOnce
    <2>1. executions[r] <= 1
      BY DEF AnswersInv, TaskInv
    <2>2. CASE replies[r] = <<>>
      BY <2>1, <2>2
    <2>3. CASE replies[r] # <<>>
      <3>1. Len(replies[r]) = 1
        BY <2>3 DEF AnswersInv, RepliesInv
      <3> QED
        BY <2>1, <3>1
    <2> QED
      BY <2>2, <2>3
  <1> QED
    BY IInvHolds, AnswersInvHolds, <1>1, PTL

\* server_busy, queue_timeout and the execution timeout are never the answer
\* to a call that made its change: retrying it cannot make the change twice.
THEOREM RetryIsSafeHolds == Spec => []RetryIsSafe
  <1>1. IInv /\ AnswersInv => RetryIsSafe
    <2> SUFFICES ASSUME IInv, AnswersInv, NEW r \in Requests, NEW i \in DOMAIN replies[r]
                 PROVE  /\ replies[r][i] \in {"busy", "queue_timeout"} => executions[r] = 0
                        /\ replies[r][i] = "timeout" => ~committed[r]
      BY DEF RetryIsSafe
    <2>1. replies[r] \in Seq(ReplyKinds)
      BY DEF IInv, TypeOK
    <2>2. replies[r] # <<>>
      BY <2>1
    <2>3. Len(replies[r]) = 1 /\ Truthful(r, replies[r][1])
      BY <2>2 DEF AnswersInv, RepliesInv
    <2>4. i = 1
      BY <2>1, <2>3
    <2> QED
      BY <2>3, <2>4 DEF Truthful
  <1> QED
    BY IInvHolds, AnswersInvHolds, <1>1, PTL

\* A call that was cancelled before it changed anything is never answered.
THEOREM CancelledIsSilentHolds == Spec => []CancelledIsSilent
  <1>1. AnswersInv => CancelledIsSilent
    BY DEF AnswersInv, RepliesInv, Truthful, CancelledIsSilent
  <1> QED
    BY AnswersInvHolds, <1>1, PTL

\* A committed change is reported as done, or the answer is being written,
\* unless the loop gave up, whatever was cancelled or timed out meanwhile.
THEOREM CommittedIsReportedHolds == Spec => []CommittedIsReported
  <1>1. AnswersInv => CommittedIsReported
    BY DEF AnswersInv
  <1> QED
    BY AnswersInvHolds, <1>1, PTL
=============================================================================
