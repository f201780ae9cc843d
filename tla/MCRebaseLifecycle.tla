------------------------- MODULE MCRebaseLifecycle -------------------------
EXTENDS RebaseLifecycle, TLC

CONSTANTS p1, p2, cache, logs

\* Commands and preserved entries are interchangeable.
CommandSymmetry == Permutations(Processes) \cup Permutations(Entries)

\* Two commands at once are followed while the user changes nothing, the
\* manifest is not lost and no completed swap is undone: the trees are as the
\* two commands leave them.
OverlapBound ==
    displaced => /\ ~lost /\ ~undone
                 /\ \A path \in Places :
                       /\ ~tree[path].edited
                       /\ \A e \in Entries : tree[path].kept[e] # "fresh"
=============================================================================
