---------------------------- MODULE SnapshotReads ----------------------------
(***************************************************************************)
(* What a certified answer of the query runtime promises, without state    *)
(* checks, retries or the cache: the rows and the index state it shows     *)
(* together are ONE content of ONE database file, a content that this file *)
(* had at some instant between the beginning of the call and its answer.   *)
(* An answer without certificate shows nothing.                            *)
(***************************************************************************)
CONSTANTS Calls,      \* slots in which calls run
          Files,      \* database files
          Contents,   \* what a file may hold
          Nothing     \* no certified answer

VARIABLES content,    \* what every file holds
          seen,       \* per reading call: what its file held since it began
          shown       \* what the last step answered with certificate

vars == <<content, seen, shown>>

Init ==
    /\ content \in [Files -> Contents]
    /\ seen = [c \in Calls |-> {}]
    /\ shown = Nothing

\* A call begins to read file f.
Begin(c, f) ==
    /\ seen[c] = {}
    /\ seen' = [seen EXCEPT ![c] = {<<f, content[f]>>}]
    /\ shown' = Nothing
    /\ UNCHANGED content

\* A writer changes one file in one transaction; the calls that read it may
\* answer the old content or the new one.
Write(f) ==
    /\ content'[f] \in Contents
    /\ content' = [content EXCEPT ![f] = content'[f]]
    /\ seen' = [c \in Calls |->
                   IF \E s \in seen[c] : s[1] = f
                   THEN seen[c] \cup {<<f, content'[f]>>} ELSE seen[c]]
    /\ shown' = Nothing

\* A call is answered with one content of its file, or without certificate.
Answer(c) ==
    /\ seen[c] # {}
    /\ seen' = [seen EXCEPT ![c] = {}]
    /\ shown' \in seen[c] \cup {Nothing}
    /\ UNCHANGED content

\* The answer has been given; calls that promise nothing also come and go.
Given ==
    /\ shown' = Nothing
    /\ UNCHANGED <<content, seen>>

Next ==
    \/ \E c \in Calls, f \in Files : Begin(c, f)
    \/ \E f \in Files : Write(f)
    \/ \E c \in Calls : Answer(c)
    \/ Given

Spec == Init /\ [][Next]_vars
=============================================================================
