--------------------------- MODULE MCQueryRuntime ---------------------------
(***************************************************************************)
(* QueryRuntime with two calls at a time, which overlap only until the     *)
(* index has been written PairWrites times: a call alone meets the longer  *)
(* histories.  The cache holds one large or two small results.             *)
(***************************************************************************)
EXTENDS QueryRuntime, TLC

CONSTANTS c1, c2, f1, f2

CallSymmetry == Permutations(Calls)

CONSTANT PairWrites

PairBound ==
    writes > PairWrites => Cardinality({c \in Calls : call[c].pc # "idle"}) <= 1

ResultSizes == [t \in Tools |-> IF t = "diagnostics" THEN 1 ELSE 2]
=============================================================================
