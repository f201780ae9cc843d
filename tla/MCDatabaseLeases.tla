-------------------------- MODULE MCDatabaseLeases --------------------------
(***************************************************************************)
(* DatabaseLeases with two calls over three targets.                       *)
(***************************************************************************)
EXTENDS DatabaseLeases, TLC

CONSTANTS c1, c2, main, other, third

MCPoolIds == 1..5

CallSymmetry == Permutations(Calls)

\* A bound: one target publishes twice, or two targets once.  Publications of
\* the target that no call reads yet only add files.
PublicationBound ==
    /\ published[third] = 0
    /\ published[main] + published[other] <= 2
=============================================================================
