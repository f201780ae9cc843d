---------------------------- MODULE QueryRuntime ----------------------------
(***************************************************************************)
(* One tools/call in the query runtime (internal/mcpserver/runtime.go) and *)
(* the process-wide cache of read results (tool_cache.go), while writers   *)
(* of this and of other processes change the index.                        *)
(*                                                                         *)
(* A call reads the published state of its database, runs the handler, and *)
(* reads the state again: the handler's reads are several statements, and  *)
(* a writer may commit between any two of them.  A change found afterwards *)
(* makes a read run once more, an uncommitted tool report a conflict, and  *)
(* a committed one stand.  A result is cached under the state it was read  *)
(* in.                                                                     *)
(*                                                                         *)
(* The rows of a database are the number of the write that left them.      *)
(***************************************************************************)
EXTENDS Integers, Sequences, FiniteSets, SequencesExt

CONSTANTS Calls,        \* calls in flight at the same time
          Files,        \* database files
          Anchor,       \* the file that is published first
          Tools,        \* the tools that are called, of AllTools
          Size,         \* bytes of a tool's result
          MaxBytes,     \* budget of the cache
          MaxEntry,     \* largest result that is cached
          MaxWrites     \* transactions that change rows, the first included (a bound)

AllTools == {"diagnostics", "reference", "compare", "artifact", "baseline", "refresh"}

ASSUME RuntimeAssumption ==
    /\ Anchor \in Files
    /\ Tools \subseteq AllTools
    /\ Size \in [Tools -> Nat]
    /\ {MaxBytes, MaxEntry} \subseteq Nat
    /\ MaxWrites \in Nat \ {0}

(***************************************************************************)
(* The annotations and tables of the tools.  "compare" stands for the      *)
(* reads of files outside the index, "artifact" for the tools that write   *)
(* outside the index, "baseline" and "refresh" for those that write it.    *)
(***************************************************************************)
ReadOnly == {"diagnostics", "reference", "compare"}
cacheableReadTools == {"diagnostics", "reference"}
indexStateIndependent == {"reference", "refresh"}

VARIABLES
    disk,        \* every database file: the published state in meta, the rows
    pointer,     \* the database ConfiguredDatabasePath resolves to
    scanning,    \* a scan in place has written its rows and not yet the rest
    writes,      \* transactions that changed rows
    call,        \* every call
    lru,         \* the cache's entries, the most recent first
    curBytes,    \* the cache's byte counter
    answer,      \* what the last step answered, if it answered a call
    seen         \* history: what the file of a reading call held since it began

indexVars == <<disk, pointer, scanning, writes>>
cacheVars == <<lru, curBytes>>
vars == <<indexVars, call, cacheVars, answer, seen>>

Statuses == {"absent", "finalizing", "ready", "stale"}
Absent == [status |-> "absent", gen |-> 0, rev |-> 0, base |-> 0, rows |-> 0]

\* IndexState: what is read of the state; a failed read is Unknown.
IndexState(d) == [status |-> d.status, gen |-> d.gen, rev |-> d.rev, base |-> d.base]
Unknown == IndexState(Absent)
Readings(c) == {IndexState(disk[call[c].file]), Unknown}

Idle == [pc |-> "idle", tool |-> "none", file |-> Anchor, start |-> Unknown,
         after |-> Unknown, reads |-> {}, runs |-> 0,
         committed |-> FALSE]
NoAnswer == [reply |-> "none", committed |-> FALSE, shown |-> <<>>]

Init ==
    /\ disk = [f \in Files |->
                  IF f = Anchor
                  THEN [status |-> "ready", gen |-> 1, rev |-> 1, base |-> 0, rows |-> 1]
                  ELSE Absent]
    /\ pointer = Anchor
    /\ scanning = FALSE
    /\ writes = 1
    /\ call = [c \in Calls |-> Idle]
    /\ lru = <<>>
    /\ curBytes = 0
    /\ answer = NoAnswer
    /\ seen = [c \in Calls |-> {}]

-----------------------------------------------------------------------------
\* Fault: a part of the published identity is not compared.
ChangedIgnoresGeneration(s, t) == s.rev # t.rev \/ s.status # t.status \/ s.base # t.base

indexStateChanged(s, t) ==
    s.gen # t.gen \/ s.rev # t.rev \/ s.status # t.status \/ s.base # t.base

Publishing(s) == s.status = "finalizing"
Independent(c) == call[c].tool \in indexStateIndependent
Reads(c) == call[c].tool \in ReadOnly

\* cacheablePublishedTransition.
CacheableTransition(s, t) ==
    /\ s.status = "ready" /\ t.status = "ready"
    /\ s.rev # 0 /\ t.rev # 0
    /\ ~indexStateChanged(s, t)

\* Fault: the baseline revision is not part of the key.
KeyWithoutBaseline(tool, file, s) ==
    [tool |-> tool, file |-> file, gen |-> s.gen, rev |-> s.rev, base |-> 0]

toolCacheKey(tool, file, s) ==
    [tool |-> tool, file |-> file, gen |-> s.gen, rev |-> s.rev, base |-> s.base]

-----------------------------------------------------------------------------
(***************************************************************************)
(* The cache.                                                              *)
(***************************************************************************)
\* The bytes that a set of entries holds.
SizeSum(entries) == Cardinality(UNION {{e} \X (1..e.size) : e \in entries})
EntryAt(key) == {i \in DOMAIN lru : lru[i].key = key}

\* get: the entry moves to the front.
Touch(i) == lru' = <<lru[i]>> \o RemoveAt(lru, i)

\* What the counter is when only the first k entries are left.
Left(entries, bytes, k) == bytes - SizeSum(Range(SubSeq(entries, k + 1, Len(entries))))

\* Entries leave from the back until the counter is within the budget.
Evicted(entries, bytes) ==
    \E kept \in 0..Len(entries) :
        /\ kept = 0 \/ Left(entries, bytes, kept) <= MaxBytes
        /\ \A k \in (kept + 1)..Len(entries) : Left(entries, bytes, k) > MaxBytes
        /\ lru' = SubSeq(entries, 1, kept)
        /\ curBytes' = Left(entries, bytes, kept)

\* Fault: a replaced entry's bytes are counted a second time.
putCountsTwice(e) ==
    \/ e.size > MaxEntry /\ UNCHANGED cacheVars
    \/ /\ e.size <= MaxEntry
       /\ \E i \in EntryAt(e.key) : Evicted(<<e>> \o RemoveAt(lru, i), curBytes + e.size)
    \/ /\ e.size <= MaxEntry
       /\ EntryAt(e.key) = {}
       /\ Evicted(<<e>> \o lru, curBytes + e.size)

\* A result that is not too large replaces the entry of its key, or is added,
\* at the front.
put(e) ==
    \/ e.size > MaxEntry /\ UNCHANGED cacheVars
    \/ /\ e.size <= MaxEntry
       /\ \E i \in EntryAt(e.key) :
              Evicted(<<e>> \o RemoveAt(lru, i), curBytes + e.size - lru[i].size)
    \/ /\ e.size <= MaxEntry
       /\ EntryAt(e.key) = {}
       /\ Evicted(<<e>> \o lru, curBytes + e.size)

\* The entries at the positions kept stay, in their order.
Keep(kept) ==
    \E order \in [1..Cardinality(kept) -> kept] :
        /\ \A i, j \in DOMAIN order : i < j => order[i] < order[j]
        /\ lru' = [i \in DOMAIN order |-> lru[order[i]]]

\* Fault: an entry gives back the largest size, not its own.
invalidateToolAtLimit(tool) ==
    LET dropped == {i \in DOMAIN lru : lru[i].key.tool = tool}
    IN  /\ Keep(DOMAIN lru \ dropped)
        /\ curBytes' = curBytes - MaxEntry * Cardinality(dropped)

invalidateTool(tool) ==
    LET dropped == {i \in DOMAIN lru : lru[i].key.tool = tool}
    IN  /\ Keep(DOMAIN lru \ dropped)
        /\ curBytes' = curBytes - SizeSum({lru[i] : i \in dropped})

-----------------------------------------------------------------------------
(***************************************************************************)
(* Writers.  All but the stale mark hold the publication lock; one that    *)
(* gets it between the two parts of a scan shows that the scan has failed. *)
(***************************************************************************)
\* Calls that are reading see what their file holds from now on.
Observe ==
    seen' = [c \in Calls |->
                IF seen[c] = {} THEN {}
                ELSE seen[c] \cup {<<call[c].file, disk'[call[c].file]>>}]

Commit(f, state) ==
    /\ writes < MaxWrites
    /\ writes' = writes + 1
    /\ disk' = [disk EXCEPT ![f] = [state EXCEPT !.rows = writes + 1]]
    /\ Observe

\* ScanFiles: one transaction in the published database.
RefreshFiles ==
    /\ disk[pointer].status = "ready"
    /\ Commit(pointer, [disk[pointer] EXCEPT !.gen = @ + 1])
    /\ scanning' = FALSE
    /\ UNCHANGED pointer

\* UpdateDiagnosticBaseline: no reader's generation moves, its baseline does.
SaveBaseline ==
    /\ Commit(pointer, [disk[pointer] EXCEPT !.base = @ + 1])
    /\ scanning' = FALSE
    /\ UNCHANGED pointer

\* ScanFullStaged: the next generation, in a new file of a new revision.
Publish ==
    /\ \E f \in Files :
           /\ disk[f].status = "absent"
           /\ Commit(f, [status |-> "ready", gen |-> disk[pointer].gen + 1,
                         rev |-> writes + 1, base |-> disk[pointer].base, rows |-> 0])
           /\ pointer' = f
    /\ scanning' = FALSE

\* Scan: an index whose rules are current is scanned in place, in two
\* transactions: the rows, as "finalizing", and what is derived from them.
\* (A scan that has to DB.reset an older index is not modelled: no program
\* runs one on an index that is served.)
CommitScannedRows ==
    /\ Commit(pointer, [disk[pointer] EXCEPT !.status = "finalizing"])
    /\ scanning' = TRUE
    /\ UNCHANGED pointer

FinishScan ==
    /\ scanning
    /\ Commit(pointer, [disk[pointer] EXCEPT !.status = "ready", !.gen = @ + 1])
    /\ scanning' = FALSE
    /\ UNCHANGED pointer

MarkIndexStale(f) ==
    /\ disk[f].status \notin {"absent", "stale"}
    /\ disk' = [disk EXCEPT ![f].status = "stale"]
    /\ Observe
    /\ UNCHANGED <<pointer, scanning, writes>>

Writer ==
    /\ \/ RefreshFiles \/ SaveBaseline \/ Publish
       \/ CommitScannedRows \/ FinishScan
       \/ \E f \in Files : MarkIndexStale(f)
    /\ answer' = NoAnswer
    /\ UNCHANGED <<call, cacheVars>>

-----------------------------------------------------------------------------
(***************************************************************************)
(* callMCPTool.                                                            *)
(***************************************************************************)
Goto(c, step) == call' = [call EXCEPT ![c].pc = step]

\* ensurePublishedDatabaseBinding: the call reads the published database.
Begin(c, tool) ==
    /\ call[c].pc = "idle"
    /\ call' = [call EXCEPT ![c] = [Idle EXCEPT !.pc = "bound", !.tool = tool,
                                                !.file = pointer]]
    /\ seen' = [seen EXCEPT ![c] = IF tool \in ReadOnly
                                   THEN {<<pointer, disk[pointer]>>} ELSE {}]
    /\ answer' = NoAnswer
    /\ UNCHANGED <<indexVars, cacheVars>>

\* The call ends; a certified answer of a reading tool shows one state.
Answer(c, reply, shown) ==
    /\ call' = [call EXCEPT ![c] = Idle]
    /\ answer' = [reply |-> reply, committed |-> call[c].committed, shown |-> shown]
    /\ seen' = [seen EXCEPT ![c] = {}]
    /\ UNCHANGED indexVars

Refuse(c, reply) == Answer(c, reply, <<>>) /\ UNCHANGED cacheVars

\* The rows of the statements that were read, if all have seen the same.
OneOf(reads) == IF Cardinality(reads) = 1 THEN CHOOSE r \in reads : TRUE ELSE 0

\* The rows that were read, under the index state that the envelope states.
Shown(c, state) ==
    <<call[c].file,
      [status |-> state.status, gen |-> state.gen, rev |-> state.rev, base |-> state.base,
       rows |-> OneOf(call[c].reads)]>>

RefuseUnready(c, s) ==
    /\ s.status \in {"finalizing", "stale"}
    /\ ~Independent(c)
    /\ Refuse(c, "error")

MayLookUp(c, s) ==
    call[c].tool \in ReadOnly \cap cacheableReadTools /\ s.status = "ready" /\ s.rev # 0

AdmitReady(c, s) ==
    /\ s.status \in {"finalizing", "stale"} => Independent(c)
    /\ call' = [call EXCEPT ![c].start = s,
                            ![c].pc = IF MayLookUp(c, s) THEN "lookup" ELSE "handler"]
    /\ answer' = NoAnswer
    /\ UNCHANGED <<indexVars, cacheVars, seen>>

ReadBefore(c) ==
    /\ call[c].pc = "bound"
    /\ \E s \in Readings(c) : RefuseUnready(c, s) \/ AdmitReady(c, s)

CallKey(c, s) == toolCacheKey(call[c].tool, call[c].file, s)

CacheHit(c) ==
    /\ call[c].pc = "lookup"
    /\ \E i \in EntryAt(CallKey(c, call[c].start)) :
           /\ Touch(i)
           /\ call' = [call EXCEPT ![c].pc = "hit", ![c].reads = lru[i].reads]
    /\ answer' = NoAnswer
    /\ UNCHANGED <<indexVars, curBytes, seen>>

CacheMiss(c) ==
    /\ call[c].pc = "lookup"
    /\ EntryAt(CallKey(c, call[c].start)) = {}
    /\ Goto(c, "handler")
    /\ answer' = NoAnswer
    /\ UNCHANGED <<indexVars, cacheVars, seen>>

\* A hit is answered if the published state is still what the key says.
AcceptHit(c) ==
    /\ call[c].pc = "hit"
    /\ \E s \in Readings(c) :
           /\ s.status = "ready"
           /\ ~indexStateChanged(call[c].start, s)
           /\ Answer(c, "ok", Shown(c, s))
    /\ UNCHANGED cacheVars

\* Otherwise, or if the answer is too large, the handler runs.
RejectHit(c) ==
    /\ call[c].pc = "hit"
    /\ call' = [call EXCEPT ![c].pc = "handler", ![c].reads = {}]
    /\ answer' = NoAnswer
    /\ UNCHANGED <<indexVars, cacheVars, seen>>

\* One statement of the handler; each sees one committed content.
HandlerRead(c) ==
    /\ call[c].pc = "handler"
    /\ Reads(c)
    /\ call' = [call EXCEPT ![c].reads = @ \cup {disk[call[c].file].rows}]
    /\ answer' = NoAnswer
    /\ UNCHANGED <<indexVars, cacheVars, seen>>

\* The handler fails, or the call is cancelled, before anything is committed.
HandlerFails(c) ==
    /\ call[c].pc = "handler"
    /\ ~call[c].committed
    /\ Refuse(c, "error")

\* handleDiagnosticBaseline: save, then drop the cached answers it changes.
HandlerSaves(c) ==
    /\ call[c].pc = "handler"
    /\ call[c].tool = "baseline" /\ ~call[c].committed
    /\ SaveBaseline
    /\ call' = [call EXCEPT ![c].committed = TRUE, ![c].pc = "invalidate"]
    /\ answer' = NoAnswer
    /\ UNCHANGED <<cacheVars>>

Invalidate(c) ==
    /\ call[c].pc = "invalidate"
    /\ invalidateTool("diagnostics")
    /\ Goto(c, "handler")
    /\ answer' = NoAnswer
    /\ UNCHANGED <<indexVars, seen>>

\* ck3_refresh, of files.
HandlerRefreshes(c) ==
    /\ call[c].pc = "handler"
    /\ call[c].tool = "refresh" /\ ~call[c].committed
    /\ RefreshFiles
    /\ call' = [call EXCEPT ![c].committed = TRUE]
    /\ answer' = NoAnswer
    /\ UNCHANGED <<cacheVars>>

\* The handler returned: a reading tool has read, a writing one has committed
\* or has found nothing to do.
Returned(c) ==
    /\ call[c].pc = "handler"
    /\ Reads(c) => call[c].reads # {}

\* Fault: what a tool has committed is not considered.
OwnsItsChangeRefreshOnly(c) == call[c].tool = "refresh"

\* Refresh and a committed tool own the change.
OwnsItsChange(c) == call[c].tool = "refresh" \/ call[c].committed

MustReact(c, s) ==
    /\ call[c].runs = 0
    /\ call[c].start # Unknown /\ s # Unknown
    /\ indexStateChanged(call[c].start, s)
    /\ ~OwnsItsChange(c)

\* After the first run: encode the answer, report, or read once more.
Proceed(c, s) ==
    /\ ~MustReact(c, s) /\ call[c].runs = 0
    /\ call' = [call EXCEPT ![c].after = s, ![c].pc = "encode"]
    /\ answer' = NoAnswer
    /\ UNCHANGED <<indexVars, cacheVars, seen>>

ReportPublishing(c, s) ==
    /\ MustReact(c, s)
    /\ Publishing(s) /\ ~Independent(c)
    /\ Refuse(c, "retry")

ReportConflict(c, s) ==
    /\ MustReact(c, s)
    /\ Publishing(s) => Independent(c)
    /\ ~Reads(c)
    /\ Refuse(c, "retry")

Retry(c, s) ==
    /\ MustReact(c, s)
    /\ Publishing(s) => Independent(c)
    /\ Reads(c)
    /\ call' = [call EXCEPT ![c].start = s, ![c].reads = {}, ![c].runs = 1]
    /\ answer' = NoAnswer
    /\ UNCHANGED <<indexVars, cacheVars, seen>>

\* After the second run the state must be known, published and unchanged.
SecondRunStands(c, s) ==
    /\ s # Unknown
    /\ Publishing(s) => Independent(c)
    /\ ~indexStateChanged(call[c].start, s)

ProceedAfterRetry(c, s) ==
    /\ call[c].runs = 1
    /\ SecondRunStands(c, s)
    /\ call' = [call EXCEPT ![c].after = s, ![c].pc = "encode"]
    /\ answer' = NoAnswer
    /\ UNCHANGED <<indexVars, cacheVars, seen>>

RefuseAfterRetry(c, s) ==
    /\ call[c].runs = 1
    /\ ~SecondRunStands(c, s)
    /\ Refuse(c, "retry")

ReadAfter(c) ==
    /\ Returned(c)
    /\ \E s \in Readings(c) :
           \/ Proceed(c, s) \/ ReportPublishing(c, s) \/ ReportConflict(c, s)
           \/ Retry(c, s) \/ ProceedAfterRetry(c, s) \/ RefuseAfterRetry(c, s)

\* The envelope states the index state only if it was known before and after.
Certified(c) == call[c].start # Unknown /\ call[c].after.status = "ready"

CacheEligible(c) ==
    /\ call[c].tool \in ReadOnly \cap cacheableReadTools
    /\ CacheableTransition(call[c].start, call[c].after)

Reply(c) ==
    /\ call[c].pc = "encode"
    /\ Answer(c, "ok", IF Reads(c) /\ Certified(c) THEN Shown(c, call[c].after) ELSE <<>>)
    /\ IF CacheEligible(c)
       THEN put([key |-> CallKey(c, call[c].after), reads |-> call[c].reads,
                 size |-> Size[call[c].tool]])
       ELSE UNCHANGED cacheVars

\* The answer exceeds the caller's response budget: nothing is cached.
ReplyTooLarge(c) ==
    /\ call[c].pc = "encode"
    /\ Refuse(c, "error")

Step(c) ==
    \/ \E tool \in Tools : Begin(c, tool)
    \/ ReadBefore(c) \/ CacheHit(c) \/ CacheMiss(c) \/ AcceptHit(c) \/ RejectHit(c)
    \/ HandlerRead(c) \/ HandlerFails(c) \/ HandlerSaves(c) \/ Invalidate(c)
    \/ HandlerRefreshes(c) \/ ReadAfter(c) \/ Reply(c) \/ ReplyTooLarge(c)

Next == (\E c \in Calls : Step(c)) \/ Writer

Spec == Init /\ [][Next]_vars

-----------------------------------------------------------------------------
(***************************************************************************)
(* Properties.                                                             *)
(***************************************************************************)
PublishedStates ==
    [status : Statuses, gen : 0..MaxWrites, rev : 0..MaxWrites, base : 0..MaxWrites]

Contents ==
    [status : Statuses, gen : 0..MaxWrites, rev : 0..MaxWrites, base : 0..MaxWrites,
     rows : 0..MaxWrites]

CallStates ==
    [pc : {"idle", "bound", "lookup", "hit", "handler", "invalidate", "encode"},
     tool : Tools \cup {"none"}, file : Files,
     start : PublishedStates, after : PublishedStates,
     reads : SUBSET (0..MaxWrites), runs : 0..1, committed : BOOLEAN]

Keys == [tool : Tools, file : Files, gen : 0..MaxWrites, rev : 0..MaxWrites, base : 0..MaxWrites]

\* Types.
TypeOK ==
    /\ disk \in [Files -> Contents]
    /\ pointer \in Files /\ scanning \in BOOLEAN
    /\ writes \in 1..MaxWrites
    /\ call \in [Calls -> CallStates]
    /\ lru \in Seq([key : Keys, reads : SUBSET (0..MaxWrites), size : 0..MaxEntry])
    /\ curBytes \in Nat
    /\ answer \in [reply : {"none", "ok", "error", "retry"}, committed : BOOLEAN,
                   shown : {<<>>} \cup (Files \X Contents)]
    /\ seen \in [Calls -> SUBSET (Files \X Contents)]

\* Whatever was cached, by however many calls at once and whatever was written
\* meanwhile: an entry that names the state its database is published in holds
\* exactly the rows that are there now.  A baseline that is saved while a result
\* is being encoded, a scan that replaces the rows before it counts them as a
\* generation, or a put that follows an invalidation must not break this.
CacheIsTrue ==
    \A i \in DOMAIN lru :
        LET key == lru[i].key
            d == disk[key.file]
        IN  d.status = "ready" /\ key = toolCacheKey(key.tool, key.file, IndexState(d))
            => lru[i].reads = {d.rows}

\* The byte counter, updated by differences on put, eviction and invalidation,
\* is the size of what is cached, within the budget, with one entry for a key.
BytesExact ==
    /\ curBytes = SizeSum(Range(lru))
    /\ curBytes <= MaxBytes
    /\ \A i, j \in DOMAIN lru : lru[i].key = lru[j].key => i = j

\* A tool that has committed its change is answered as done, or as done with an
\* answer that is too large: it is never told to try again because the index
\* changed, which it did itself, and it is never run a second time.
CommittedStands ==
    /\ answer.committed => answer.reply # "retry"
    /\ \A c \in Calls : call[c].committed => call[c].runs = 0

Snapshot == INSTANCE SnapshotReads WITH
    content <- disk,
    shown <- answer.shown,
    Nothing <- <<>>

\* Every certified answer, of the handler or of the cache, after one run or
\* two, shows the rows and the index state of one instant of the call.
SnapshotAnswers == Snapshot!Spec
=============================================================================
