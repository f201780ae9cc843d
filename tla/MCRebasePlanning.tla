-------------------------- MODULE MCRebasePlanning --------------------------
(* The instance of RebasePlanning that TLC checks. *)
EXTENDS RebasePlanning

CONSTANTS F, G, H, o, q, f, g, old, new

C(x, y) == [a \in {f, g} |-> IF a = f THEN x ELSE y]
C0 == C(old, old)
C1 == C(new, old)
C2 == C(old, new)
Of1(x) == Present({<<o, x>>})
Of2(x, y) == Present({<<o, x>>, <<q, y>>})

In(base, project, target) ==
    [base |-> base, project |-> project, target |-> target,
     kind |-> "jomini", owned |-> {}, replaced |-> {}]
At(x, y) == [p \in {F, G, H} |-> CASE p = F -> x [] p = H -> y [] OTHER -> NoFile]
AtAll(x, y, z) == [At(x, z) EXCEPT ![G] = y]

\* One object in two files: added, deleted, changed and moved by any side.
MCMoves ==
    {In(At(b1, b2), At(p1, p2), At(t1, t2)) :
        b1, b2 \in {NoFile, Present({}), Of1(C0)},
        p1, p2 \in {NoFile, Present({}), Of1(C0), Of1(C1)},
        t1, t2 \in {NoFile, Present({}), Of1(C0), Of1(C1), Of1(C2)}}

\* The same under an owned file or a replace_path, without the files of no object
\* but the target's.
MCFlags ==
    {[In(At(b1, b2), At(p1, p2), At(t1, t2)) EXCEPT !.owned = owned, !.replaced = replaced] :
        b1, b2 \in {NoFile, Of1(C0)},
        p1, p2 \in {NoFile, Of1(C0), Of1(C1)},
        t1, t2 \in {NoFile, Present({}), Of1(C0), Of1(C1)},
        owned, replaced \in {{}, {F}}}

\* An object with any fields in each layer of one file, and another beside it.
MCFields ==
    {In(At(Of2(b, C0), NoFile), At(Of2(p, C0), NoFile), At(Of2(t, C2), NoFile)) : b, p, t \in Contents}

\* Every kind and flag of one file, in which the object may be defined twice.
MCKinds ==
    LET files == {NoFile, Present({}), Of1(C0), Of1(C1), Of1(C2), Present({<<o, C0>>, <<o, C1>>})}
    IN {[In(At(b, NoFile), At(p, NoFile), At(t, NoFile))
            EXCEPT !.kind = kind, !.owned = owned, !.replaced = replaced] :
          b, p, t \in files, kind \in {"jomini", "unlisted", "localization"},
          owned, replaced \in {{}, {F}}}

\* Plans that ask: a move, a move beside an ambiguous object, two moves into a
\* file, two conflicts in a file, a deletion by the target, an addition under a
\* replace_path.
MCReviewed ==
    {In(At(Of1(C0), NoFile), At(NoFile, Of1(C1)), At(Of1(C0), NoFile)),
     In(At(Of1(C0), NoFile), At(NoFile, Of2(C1, C0)),
        At(Present({<<o, C0>>, <<q, C0>>, <<q, C1>>}), NoFile)),
     In(AtAll(Of1(C0), Present({<<q, C0>>}), NoFile), AtAll(NoFile, NoFile, Of2(C1, C1)),
        AtAll(Of1(C0), Present({<<q, C0>>}), NoFile)),
     In(At(Of2(C0, C0), NoFile), At(Of2(C1, C1), NoFile), At(Of2(C(Absent, old), C(Absent, old)), NoFile)),
     In(At(Of1(C0), Of1(C0)), At(Of1(C1), NoFile), At(NoFile, Of1(C0))),
     [In(At(NoFile, NoFile), At(NoFile, NoFile), At(Of1(C0), NoFile)) EXCEPT !.replaced = {F}]}

MCInputs == MCMoves \cup MCFlags \cup MCFields \cup MCKinds \cup MCReviewed
MCManualFiles == {Of1(C2), Of2(C2, C2)}
MCOrder == <<o, q>>
=============================================================================
