-------------------------- MODULE MCTaskScheduler --------------------------
(***************************************************************************)
(* TaskScheduler on small limits: the configurations give the constants.   *)
(***************************************************************************)
EXTENDS TaskScheduler

\* The last request arrives only where nothing but calls has happened, and is
\* followed until the second of them is answered: it is there for the
\* admission, which looks at none of the rest.
OnlyCalls ==
    /\ ~shutdown /\ ~inputClosed
    /\ Cardinality({r \in Requests : work[r] = "ended"}) <= 1
    /\ \A r \in Requests : ~committed[r] /\ ~cancelled[r] /\ ctx[r] = "none"
    /\ \A r \in 2..(NumRequests - 1) : phase[r] = "closed" => work[r] = "ended"

LastRequestBound == NumRequests \in seen' => OnlyCalls /\ OnlyCalls'

\* What the loop answers itself leaves nothing behind but a used id: the
\* handshake, one more request, and one refused repetition are enough.
ImmediateBound ==
    \A r \in Requests :
        /\ r > 2 => outbox' # <<Response(r, "immediate")>>
        /\ r # 2 => outbox' # <<Response(r, "duplicate")>>
=============================================================================
