------------------------ MODULE RebasePlanningProofs ------------------------
(***************************************************************************)
(* Proofs about RebaseMerge and RebasePlanning: what the merges compute    *)
(* for all values, that a build is what its review says, the types of a    *)
(* transaction, and that a migration that asks nothing merges every object *)
(* and defines none twice.                                                 *)
(***************************************************************************)
EXTENDS RebasePlanning, WellFoundedInduction, TLAPS

-----------------------------------------------------------------------------
(***************************************************************************)
(* The cases mergePlainThreeWay makes of what exists are the three-way     *)
(* merge, of every value and of its absence.                               *)
(***************************************************************************)
THEOREM PlainIsThreeWay ==
    ASSUME NEW base, NEW project, NEW target
    PROVE  mergePlainThreeWay(base, project, target) = ThreeWay(base, project, target)
  BY DEF mergePlainThreeWay, ThreeWay

(***************************************************************************)
(* The merge of an object that both sides changed is the three-way merge   *)
(* of each of its fields; a merge of an object that one side left alone    *)
(* by its fields would give the other side's object as well.               *)
(***************************************************************************)
THEOREM ObjectIsThreeWay ==
    ASSUME NEW base \in Contents, NEW project \in Contents, NEW target \in Contents
    PROVE  mergeJominiObject(base, project, target) = ThreeWayObject(base, project, target)
  <1>2. \A f \in Fields : mergePlainThreeWay(base[f], project[f], target[f])
                            = ThreeWay(base[f], project[f], target[f])
    BY PlainIsThreeWay
  <1>3. mergeJominiObject(base, project, target)
          = {merged \in Contents :
               \A f \in Fields : merged[f] \in ThreeWay(base[f], project[f], target[f])}
    BY <1>2 DEF mergeJominiObject
  <1>4. CASE project = base
    <2>1. \A merged \in Contents :
            (\A f \in Fields : merged[f] \in ThreeWay(base[f], project[f], target[f]))
              <=> merged = target
      BY <1>4 DEF ThreeWay, Contents
    <2>2. ThreeWay(base, project, target) = {target}
      BY <1>4 DEF ThreeWay
    <2>. QED BY <1>3, <2>1, <2>2 DEF ThreeWayObject
  <1>5. CASE project # base /\ (target = base \/ target = project)
    <2>1. \A merged \in Contents :
            (\A f \in Fields : merged[f] \in ThreeWay(base[f], project[f], target[f]))
              <=> merged = project
      BY <1>5 DEF ThreeWay, Contents
    <2>2. ThreeWay(base, project, target) = {project}
      BY <1>5 DEF ThreeWay
    <2>. QED BY <1>3, <2>1, <2>2 DEF ThreeWayObject
  <1>6. CASE project # base /\ target # base /\ target # project
    BY <1>3, <1>6 DEF ThreeWayObject, ThreeWay
  <1>. QED BY <1>4, <1>5, <1>6

(***************************************************************************)
(* A localization file that is merged without a conflict has, for every    *)
(* key, the three-way merge of its values.                                 *)
(***************************************************************************)
THEOREM LocalizationIsThreeWay ==
    ASSUME NEW base, NEW project, NEW target, NEW id,
           mergeLocalizationThreeWay(base, project, target).conflicts = {}
    PROVE  ValueOf(Present(mergeLocalizationThreeWay(base, project, target).defs), id)
             \in ThreeWay(ValueOf(base, id), ValueOf(project, id), ValueOf(target, id))
  <1> DEFINE keys == Ids(base.defs \cup project.defs \cup target.defs)
             merged(k) == MergedKey(base, project, target, k)
             defs == UNION {{<<k, v>> : v \in merged(k) \ {Absent}} : k \in keys}
             three == ThreeWay(ValueOf(base, id), ValueOf(project, id), ValueOf(target, id))
  <1>1. mergeLocalizationThreeWay(base, project, target)
          = [conflicts |-> {k \in keys : merged(k) = {}}, defs |-> defs]
    BY DEF mergeLocalizationThreeWay
  <1>2. merged(id) = three
    BY PlainIsThreeWay DEF MergedKey
  <1>3. Of(defs, id) = IF id \in keys THEN {<<id, v>> : v \in three \ {Absent}} ELSE {}
    BY <1>2 DEF Of
  <1>4. ValueOf(Present(defs), id) = IF Of(defs, id) = {} THEN Absent
                                     ELSE (CHOOSE d \in Of(defs, id) : TRUE)[2]
    BY DEF ValueOf, Present
  <1>5. id \in keys => three # {}
    <2>1. {k \in keys : merged(k) = {}} = {}
      <3> HIDE DEF keys, merged, defs
      <3> QED
        BY <1>1
    <2> QED
      BY <1>2, <2>1
  <1>6. id \notin keys => \A file \in {base, project, target} : ValueOf(file, id) = Absent
    BY DEF ValueOf, Of, Ids
  <1>7. SUFFICES ValueOf(Present(defs), id) \in three
    BY <1>1
  <1> HIDE DEF defs, keys
  <1>8. CASE id \notin keys
    BY <1>3, <1>4, <1>6, <1>8 DEF ThreeWay
  <1>9. CASE id \in keys
    <2>1. PICK v : three = {v}
      BY <1>5, <1>9 DEF ThreeWay
    <2> HIDE DEF three
    <2>2. CASE v = Absent
      BY <1>3, <1>4, <1>9, <2>1, <2>2
    <2>3. CASE v # Absent
      <3>1. Of(defs, id) = {<<id, v>>}
        BY <1>3, <1>9, <2>1, <2>3
      <3>2. (CHOOSE d \in Of(defs, id) : TRUE) = <<id, v>>
        BY <3>1
      <3> QED
        BY <1>4, <2>1, <3>1, <3>2
    <2> QED
      BY <2>2, <2>3
  <1> QED
    BY <1>8, <1>9

-----------------------------------------------------------------------------
(***************************************************************************)
(* A conflict is found at the path it names: the resolution looks for the  *)
(* conflicts of a path, never for the paths of a conflict.  Only a move is *)
(* found at another path, too.                                             *)
(***************************************************************************)
Attached(plan) ==
    \A p \in Paths : \A c \in plan[p].conflicts :
        /\ c.path \in Paths /\ c \in plan[c.path].conflicts
        /\ ~IsMove(c) => c.path = p

\* Dropping a file is allowed where the game would load none.
Droppable(in, plan) ==
    \A p \in Paths : \A c \in plan[p].conflicts :
        "drop" \in c.allowed => ~IsMove(c) /\ (p \in in.replaced \/ ~in.target[p].there)

Allowed == \A c \in DOMAIN resolutions : resolutions[c].action \in c.allowed

Ranked == status \notin {"inventory", "classify"} => \A c \in Moves : idOrder[c] \in Nat

IInv ==
    /\ Attached(journal) /\ Droppable(input, journal) /\ Allowed /\ Ranked
    /\ ReviewHonoured

\* The conflicts of a file decision are of its path; one that may be dropped is
\* loaded nowhere.
LEMMA PlannedAtPath ==
    ASSUME NEW in, NEW p, NEW c \in planRebasePath(in, p).conflicts
    PROVE  /\ c.path = p
           /\ "drop" \in c.allowed => ~IsMove(c) /\ (p \in in.replaced \/ ~in.target[p].there)
  <1> USE DEF Decide, Stop, Conflict, Ordinary, IsMove
  <1>1. \A d \in planBothChangedPath(in, p).conflicts : d.path = p /\ "drop" \notin d.allowed
    BY DEF planBothChangedPath
  <1> QED
    BY <1>1 DEF planRebasePath

\* A conflict that is added to its path and to others is found there.
LEMMA AttachKeepsAttached ==
    ASSUME NEW in, NEW plan, Attached(plan), Droppable(in, plan), NEW paths, NEW conflict,
           conflict.path \in Paths, conflict.path \in paths,
           IsMove(conflict) \/ paths = {conflict.path}, "drop" \notin conflict.allowed
    PROVE  LET new == Attach(plan, conflict, paths)
           IN Attached(new) /\ Droppable(in, new)
  <1>1. \A p \in Paths : Attach(plan, conflict, paths)[p].conflicts
                         = plan[p].conflicts \cup {c \in {conflict} : p \in paths}
    BY DEF Attach
  <1> QED
    BY <1>1 DEF Attached, Droppable

\* A record of a layer is at a path.
LEMMA PathOfRecord ==
    ASSUME NEW layer, NEW id, RecordsOf(layer, id) # {}
    PROVE  PathOf(RecordsOf(layer, id)) \in Paths
  BY DEF RecordsOf, PathOf

LEMMA CrossFileKeepsAttached ==
    ASSUME NEW in, NEW plan, NEW id, Attached(plan), Droppable(in, plan)
    PROVE  Attached(CrossFile(in, plan, id)) /\ Droppable(in, CrossFile(in, plan, id))
  <1> DEFINE project == RecordsOf(in.project, id)
             target == RecordsOf(in.target, id)
             p == PathOf(project)
             conflict(code, path) == Conflict(code, path, id, Ordinary)
  <1>1. CASE Ambiguous(project)
    <2> DEFINE duplicate(path) == conflict("semantic_duplicate_id", path)
               crossed == CrossFile(in, plan, id)
    <2>1. \A path \in Paths :
            crossed[path].conflicts = plan[path].conflicts
              \cup {c \in {duplicate(path)} : \E record \in project : record[1] = path}
      BY <1>1 DEF CrossFile, Attach
    <2>2. \A path \in Paths : /\ duplicate(path).path = path
                              /\ "drop" \notin duplicate(path).allowed
      BY DEF Conflict, Ordinary
    <2> HIDE DEF duplicate, crossed, project
    <2> QED
      BY <2>1, <2>2 DEF Attached, Droppable, crossed
  <1>2. CASE ~Ambiguous(project) /\ project # {}
    <2> DEFINE ambiguous == conflict("semantic_ambiguous_target", p)
               move == planRebaseCrossFileMoveConflict(in, plan, id, p, PathOf(target))
    <2>1. p \in Paths
      BY <1>2, PathOfRecord
    <2>2. CrossFile(in, plan, id) \in
            {plan, Attach(plan, ambiguous, {p}), Attach(plan, move, {p, PathOf(target)})}
      BY <1>2 DEF CrossFile
    <2>3. /\ ambiguous.path = p /\ "drop" \notin ambiguous.allowed
          /\ move.path = p /\ IsMove(move) /\ "drop" \notin move.allowed
      BY DEF Conflict, Ordinary, planRebaseCrossFileMoveConflict, IsMove, MoveAnswers
    <2> HIDE DEF ambiguous, move, p, target
    <2> QED
      BY <2>1, <2>2, <2>3, AttachKeepsAttached
  <1>3. CASE ~Ambiguous(project) /\ project = {}
    BY <1>3 DEF CrossFile
  <1> QED
    BY <1>1, <1>2, <1>3

\* The resolved decision of a path keeps its conflicts.
LEMMA ResolvedKeepsConflicts ==
    ASSUME NEW p \in Paths
    PROVE  resolveRebaseBuildDecisions[p].conflicts = journal[p].conflicts
  <1>1. \A decision, answer :
          applyRebaseResolution(decision, p, answer).conflicts = decision.conflicts
    BY DEF applyRebaseResolution, Resolved
  <1>2. \A move : applyRebaseCrossFileMoveResolution(move, p).conflicts = journal[p].conflicts
    BY <1>1 DEF applyRebaseCrossFileMoveResolution, Resolved
  <1> QED
    BY <1>1, <1>2 DEF resolveRebaseBuildDecisions

\* A path whose decision comes from an answer has the answered file.
LEMMA AnswerIsBuilt ==
    ASSUME NEW p \in Paths, NEW c, NEW answer, NEW decision,
           p = c.path,
           answer.action = "manual" => Confirmed(answer),
           answer.action = "drop" => p \in input.replaced \/ ~input.target[p].there,
           resolveRebaseBuildDecisions[p] = applyRebaseResolution(decision, p, answer)
    PROVE  AsAnswered(Overlay(resolveRebaseBuildDecisions), p, c, answer)
  <1> DEFINE overlay == Overlay(resolveRebaseBuildDecisions)
             loaded == Loaded(overlay, input.target)[p]
  <1>0. loaded = IF overlay[p].there THEN overlay[p]
                 ELSE IF p \in input.replaced THEN NoFile ELSE input.target[p]
    BY DEF Loaded
  <1>1. CASE answer.action = "manual"
    <2>1. overlay[p] = manual[answer.upload]
      BY <1>1 DEF Overlay, applyRebaseResolution, Resolved
    <2>2. overlay[p] = answer.sha
      BY <1>1, <2>1 DEF Confirmed
    <2> QED
      BY <1>1, <2>2 DEF AsAnswered
  <1>2. CASE answer.action = "keep_project"
    <2>1. overlay[p] = input.project[p]
      BY <1>2 DEF Overlay, applyRebaseResolution, Resolved
    <2> QED
      BY <1>2, <2>1 DEF AsAnswered
  <1>3. CASE answer.action \notin {"manual", "keep_project"}
    <2>1. overlay[p] = NoFile
      BY <1>3 DEF Overlay, applyRebaseResolution, Resolved
    <2>2. loaded = IF p \in input.replaced THEN NoFile ELSE input.target[p]
      BY <1>0, <2>1 DEF NoFile
    <2>3. answer.action = "drop" => ~loaded.there
      BY <2>2 DEF NoFile
    <2> QED
      BY <1>3, <2>2, <2>3 DEF AsAnswered, HiddenTarget
  <1> QED
    BY <1>1, <1>2, <1>3

\* A path that is decided by a move's answer has the file of that answer.
LEMMA MoveIsBuilt ==
    ASSUME NEW p \in Paths, NEW c, IsMove(c),
           resolutions[c].action = "manual" => Confirmed(resolutions[c]),
           resolutions[c].action # "drop",
           resolveRebaseBuildDecisions[p] = applyRebaseCrossFileMoveResolution(c, p)
    PROVE  AsAnswered(Overlay(resolveRebaseBuildDecisions), p, c, resolutions[c])
  <1> DEFINE overlay == Overlay(resolveRebaseBuildDecisions)
             loaded == Loaded(overlay, input.target)[p]
             answer == resolutions[c]
  <1>0. loaded = IF overlay[p].there THEN overlay[p]
                 ELSE IF p \in input.replaced THEN NoFile ELSE input.target[p]
    BY DEF Loaded
  <1>1. CASE p = c.path
    BY <1>1, AnswerIsBuilt DEF applyRebaseCrossFileMoveResolution
  <1>2. CASE p # c.path /\ answer.action = "use_target"
    <2>1. overlay[p] = NoFile
      BY <1>2 DEF Overlay, applyRebaseCrossFileMoveResolution, Resolved
    <2>2. loaded = IF p \in input.replaced THEN NoFile ELSE input.target[p]
      BY <1>0, <2>1 DEF NoFile
    <2> QED
      BY <1>2, <2>2 DEF AsAnswered, HiddenTarget
  <1>3. CASE p # c.path /\ answer.action # "use_target"
    <2>1. overlay[p] = TargetRemoval(p, c.id)
      BY <1>3 DEF Overlay, applyRebaseCrossFileMoveResolution, Resolved
    <2> QED
      BY <1>3, <2>1 DEF AsAnswered
  <1> QED
    BY <1>1, <1>2, <1>3

-----------------------------------------------------------------------------
\* A set of ranks has a least one.
LEMMA LeastRank ==
    ASSUME NEW T, T \subseteq Nat, T # {}
    PROVE  \E n \in T : \A m \in T : n <= m
  <1> DEFINE R == OpToRel(<, Nat)
  <1>1. \A m, n \in Nat : m < n => <<m, n>> \in R
    BY DEF OpToRel
  <1>2. IsWellFoundedOn(R, Nat)
    BY NatLessThanWellFounded, Zenon
  <1> HIDE DEF R
  <1>3. PICK n \in T : \A m \in T : ~(<<m, n>> \in R)
    BY <1>2, WFMin
  <1>4. ASSUME NEW m \in T PROVE n <= m
    <2>1. m \in Nat /\ n \in Nat
      OBVIOUS
    <2>2. ~(m < n)
      BY <1>1, <1>3, <2>1, Zenon
    <2> QED
      BY <2>1, <2>2
  <1> QED
    BY <1>4

\* The move that decides a path is one of its moves.
LEMMA LastMoveExists ==
    ASSUME Ranked, status \notin {"inventory", "classify"}, NEW p \in Paths, MovesOf(p) # {}
    PROVE  LastMove(p) \in MovesOf(p) /\ \A d \in MovesOf(p) : idOrder[LastMove(p)] <= idOrder[d]
  <1> DEFINE ranks == {idOrder[c] : c \in MovesOf(p)}
  <1>1. MovesOf(p) \subseteq Moves
    BY DEF MovesOf, Moves, Conflicts
  <1>2. ranks \subseteq Nat /\ ranks # {}
    BY <1>1 DEF Ranked
  <1>3. PICK n \in ranks : \A m \in ranks : n <= m
    BY <1>2, LeastRank
  <1>4. PICK c \in MovesOf(p) : \A d \in MovesOf(p) : idOrder[c] <= idOrder[d]
    BY <1>3
  <1> QED
    BY <1>4 DEF LastMove

\* At every path the answer to a conflict, or one that replaces it, is built.
LEMMA OverlayIsReviewed ==
    ASSUME Attached(journal), Droppable(input, journal), Allowed, Ranked,
           status \notin {"inventory", "classify"}, Resolvable,
           NEW p \in Paths, NEW c \in journal[p].conflicts
    PROVE  LET overlay == Overlay(resolveRebaseBuildDecisions)
           IN \/ AsAnswered(overlay, p, c, resolutions[c])
              \/ \E d \in journal[p].conflicts :
                    Replaces(d, c) /\ AsAnswered(overlay, p, d, resolutions[d])
  <1> DEFINE overlay == Overlay(resolveRebaseBuildDecisions)
  <1>1. ASSUME NEW d \in journal[p].conflicts
        PROVE  /\ resolutions[d].action = "manual" => Confirmed(resolutions[d])
               /\ resolutions[d].action = "drop" =>
                      ~IsMove(d) /\ (p \in input.replaced \/ ~input.target[p].there)
    <2>1. d \in Conflicts
      BY DEF Conflicts
    <2>2. resolutions[d].action = "manual" => Confirmed(resolutions[d])
      BY <2>1 DEF Resolvable, Usable
    <2>3. resolutions[d].action \in d.allowed
      BY <2>1 DEF Resolvable, Allowed
    <2> QED
      BY <2>2, <2>3 DEF Droppable
  <1>2. CASE PathAnswers(p) # {}
    <2>1. \A a, b \in PathAnswers(p) : a = b
      BY DEF Resolvable, Compatible
    <2>2. ASSUME NEW d \in journal[p].conflicts \ MovesOf(p)
          PROVE  AsAnswered(overlay, p, d, resolutions[d])
      <3>1. resolutions[d] \in PathAnswers(p)
        BY DEF PathAnswers
      <3>2. (CHOOSE a \in PathAnswers(p) : TRUE) = resolutions[d]
        BY <2>1, <3>1
      <3>3. resolveRebaseBuildDecisions[p] = applyRebaseResolution(journal[p], p, resolutions[d])
        BY <1>2, <3>2 DEF resolveRebaseBuildDecisions
      <3>4. p = d.path
        BY DEF Attached, MovesOf
      <3> QED
        BY <1>1, <3>3, <3>4, AnswerIsBuilt
    <2>3. PICK d \in journal[p].conflicts \ MovesOf(p) : TRUE
      BY <1>2 DEF PathAnswers
    <2>4. CASE c \in MovesOf(p)
      <3>1. Replaces(d, c)
        BY <2>4 DEF Replaces, MovesOf
      <3> QED
        BY <2>2, <3>1
    <2> QED
      BY <2>2, <2>4
  <1>3. CASE PathAnswers(p) = {}
    <2>1. c \in MovesOf(p)
      BY <1>3 DEF PathAnswers
    <2> DEFINE m == LastMove(p)
    <2>2. m \in MovesOf(p) /\ \A d \in MovesOf(p) : idOrder[m] <= idOrder[d]
      BY <2>1, LastMoveExists
    <2>3. resolveRebaseBuildDecisions[p] = applyRebaseCrossFileMoveResolution(m, p)
      BY <1>3, <2>1 DEF resolveRebaseBuildDecisions
    <2> HIDE DEF m
    <2>4. m \in journal[p].conflicts /\ IsMove(m) /\ IsMove(c)
      BY <2>1, <2>2 DEF MovesOf
    <2>5. AsAnswered(overlay, p, m, resolutions[m])
      BY <1>1, <2>3, <2>4, MoveIsBuilt
    <2>6. m = c \/ Replaces(m, c)
      BY <2>1, <2>2, <2>4 DEF Replaces
    <2> QED
      BY <2>4, <2>5, <2>6
  <1> QED
    BY <1>2, <1>3

-----------------------------------------------------------------------------
LEMMA InitIInv == Init => IInv
  <1> SUFFICES ASSUME Init PROVE IInv
    OBVIOUS
  <1>1. \A p \in Paths : journal[p].conflicts = {}
    BY DEF Init, Decide
  <1>2. DOMAIN resolutions = {}
    BY DEF Init, NoAnswers
  <1> QED
    BY <1>1, <1>2 DEF Init, IInv, Attached, Droppable, Allowed, Ranked, ReviewHonoured

\* A step that builds what resolves makes the review honoured.
LEMMA BuildIsReviewed ==
    ASSUME IInv, Resolvable, status \notin {"inventory", "classify"},
           journal' = journal, idOrder' = idOrder, input' = input, resolutions' = resolutions,
           status' \notin {"inventory", "classify"},
           output' = Overlay(resolveRebaseBuildDecisions), MovesAreUnique(output'),
           accepted' = resolutions
    PROVE  IInv'
  <1>1. Conflicts' = Conflicts /\ Moves' = Moves
    BY DEF Conflicts, Moves
  <1>2. Attached(journal)' /\ Droppable(input, journal)' /\ Allowed' /\ Ranked'
    BY <1>1 DEF IInv, Attached, Droppable, Allowed, Ranked
  <1>3. ASSUME NEW c \in Conflicts
        PROVE  /\ c \in DOMAIN accepted'
               /\ IsMove(c) => Cardinality(Owners(output, c.id)') = 1
    <2>1. c \in DOMAIN accepted'
      BY DEF Resolvable
    <2>2. Owners(output, c.id)' = Owners(output', c.id)
      BY DEF Owners
    <2> QED
      BY <2>1, <2>2 DEF MovesAreUnique, Moves
  <1>4. ASSUME NEW p \in Paths, NEW c \in journal[p].conflicts
        PROVE  \/ AsAnswered(output, p, c, accepted[c])'
               \/ \E d \in journal[p].conflicts :
                    Replaces(d, c)' /\ AsAnswered(output, p, d, accepted[d])'
    <2>1. ASSUME NEW d
          PROVE  /\ Replaces(d, c)' <=> Replaces(d, c)
                 /\ AsAnswered(output, p, d, accepted[d])'
                      <=> AsAnswered(Overlay(resolveRebaseBuildDecisions), p, d, resolutions[d])
      BY DEF Replaces, AsAnswered, Loaded, HiddenTarget, TargetRemoval
    <2> QED
      BY <2>1, OverlayIsReviewed DEF IInv
  <1>5. ReviewHonoured'
    BY <1>1, <1>3, <1>4 DEF ReviewHonoured
  <1> QED
    BY <1>2, <1>5 DEF IInv

\* A step that leaves the plan and what was built of it.
LEMMA PlanUntouched ==
    ASSUME IInv, journal' = journal, idOrder' = idOrder, input' = input, output' = output,
           Allowed',
           \/ status' = status /\ accepted' = accepted
           \/ status' # "built" /\ status' \notin {"inventory", "classify"}
              /\ status \notin {"inventory", "classify"}
    PROVE  IInv'
  <1>1. Conflicts' = Conflicts /\ Moves' = Moves
    BY DEF Conflicts, Moves
  <1>2. Attached(journal)' /\ Droppable(input, journal)' /\ Ranked'
    BY <1>1 DEF IInv, Attached, Droppable, Ranked
  <1>3. ReviewHonoured'
    <2>1. CASE status' = status /\ accepted' = accepted
      <3>1. \A p, c, d :
              /\ Replaces(d, c)' <=> Replaces(d, c)
              /\ AsAnswered(output, p, d, accepted[d])' <=> AsAnswered(output, p, d, accepted[d])
        BY <2>1 DEF Replaces, AsAnswered, Loaded, HiddenTarget, TargetRemoval
      <3>2. \A c : Owners(output, c.id)' = Owners(output, c.id)
        BY DEF Owners
      <3> QED
        BY <1>1, <2>1, <3>1, <3>2 DEF IInv, ReviewHonoured
    <2>2. CASE status' # "built"
      BY <2>2 DEF ReviewHonoured
    <2> QED
      BY <2>1, <2>2
  <1> QED
    BY <1>2, <1>3 DEF IInv

LEMMA NextIInv == IInv /\ [Next]_vars => IInv'
  <1> SUFFICES ASSUME IInv, [Next]_vars PROVE IInv'
    OBVIOUS
  <1>1. CASE Classify
    <2>1. \A p \in Paths : journal'[p] = planRebasePath(input, p)
      BY <1>1 DEF Classify
    <2>2. Attached(journal)' /\ Droppable(input, journal)'
      BY <1>1, <2>1, PlannedAtPath DEF Classify, Attached, Droppable
    <2>3. Allowed' /\ Ranked' /\ ReviewHonoured'
      BY <1>1 DEF Classify, IInv, Allowed, Ranked, ReviewHonoured
    <2> QED
      BY <2>2, <2>3 DEF IInv
  <1>2. CASE CheckObject
    <2>1. Attached(journal)' /\ Droppable(input, journal)'
      <3>1. /\ Attached(CrossFile(input, journal, Head(unchecked)))
            /\ Droppable(input, CrossFile(input, journal, Head(unchecked)))
        BY CrossFileKeepsAttached DEF IInv
      <3>2. journal' = CrossFile(input, journal, Head(unchecked)) /\ input' = input
        BY <1>2 DEF CheckObject
      <3>3. /\ Attached(journal)' <=> Attached(journal')
            /\ Droppable(input, journal)' <=> Droppable(input, journal')
        BY <3>2 DEF Attached, Droppable
      <3> QED
        BY <3>1, <3>2, <3>3
    <2>2. Allowed' /\ Ranked' /\ ReviewHonoured'
      BY <1>2 DEF CheckObject, IInv, Allowed, Ranked, ReviewHonoured
    <2> QED
      BY <2>1, <2>2 DEF IInv
  <1>3. CASE FinishPlan
    <2>1. Conflicts' = Conflicts /\ Moves' = Moves
      BY <1>3 DEF FinishPlan, Conflicts, Moves
    <2>2. /\ Attached(journal)' /\ Droppable(input, journal)' /\ Allowed'
          /\ ReviewHonoured'
      BY <1>3 DEF FinishPlan, IInv, Attached, Droppable, Allowed, ReviewHonoured
    <2>3. Ranked'
      <3>1. PICK rank \in [Moves -> 1..Cardinality(Moves)] : idOrder' = rank
        BY <1>3 DEF FinishPlan
      <3>2. \A c \in Moves : rank[c] \in Nat
        OBVIOUS
      <3> QED
        BY <2>1, <3>1, <3>2 DEF Ranked
    <2> QED
      BY <2>2, <2>3 DEF IInv
  <1>4. CASE Upload \/ PostResolutions
    <2>1. Allowed'
      <3>1. ASSUME NEW c, NEW answer \in Answers(c) PROVE answer.action \in c.allowed
        BY DEF Answers
      <3>2. CASE Upload
        BY <3>2 DEF Upload, IInv, Allowed
      <3>3. CASE PostResolutions
        <4>1. PICK answered \in SUBSET Conflicts :
                \E answers \in [answered -> UNION {Answers(c) : c \in answered}] :
                   /\ \A c \in answered : answers[c] \in Answers(c)
                   /\ resolutions' = answers
          BY <3>3 DEF PostResolutions
        <4>2. DOMAIN resolutions' = answered /\ \A c \in answered : resolutions'[c] \in Answers(c)
          BY <4>1
        <4> QED
          BY <3>1, <4>2 DEF Allowed
      <3> QED
        BY <1>4, <3>2, <3>3
    <2> QED
      BY <1>4, <2>1, PlanUntouched DEF Upload, PostResolutions
  <1>5. CASE AcceptReview
    <2>1. \A p \in Paths : journal'[p].conflicts = journal[p].conflicts
      BY <1>5, ResolvedKeepsConflicts DEF AcceptReview
    <2>2. Conflicts' = Conflicts /\ Moves' = Moves
      BY <2>1 DEF Conflicts, Moves
    <2>3. Attached(journal)' /\ Droppable(input, journal)' /\ Allowed' /\ Ranked'
      BY <1>5, <2>1, <2>2 DEF AcceptReview, IInv, Attached, Droppable, Allowed, Ranked
    <2>4. ReviewHonoured'
      BY <1>5 DEF AcceptReview, ReviewHonoured
    <2> QED
      BY <2>3, <2>4 DEF IInv
  <1>6. CASE Publish
    <2>1. CASE status' = "built"
      <3>1. Resolvable /\ status \notin {"inventory", "classify"}
        BY <1>6 DEF Publish, Buildable
      <3>2. /\ journal' = journal /\ idOrder' = idOrder /\ input' = input
            /\ accepted' = resolutions /\ resolutions' = resolutions
            /\ output' = Overlay(resolveRebaseBuildDecisions) /\ MovesAreUnique(output')
        BY <1>6 DEF Publish
      <3> QED
        BY <2>1, <3>1, <3>2, BuildIsReviewed
    <2>2. CASE status' = "building"
      <3>1. Conflicts' = Conflicts /\ Moves' = Moves
        BY <1>6 DEF Publish, Conflicts, Moves
      <3> QED
        BY <1>6, <2>2, <3>1
           DEF Publish, Buildable, IInv, Attached, Droppable, Allowed, Ranked, ReviewHonoured
    <2> QED
      BY <1>6, <2>1, <2>2 DEF Publish
  <1>7. CASE BuildFails
    <2>1. Allowed'
      BY <1>7 DEF BuildFails, IInv, Allowed
    <2> QED
      BY <1>7, <2>1, PlanUntouched DEF BuildFails, Buildable
  <1>8. CASE Recover
    <2>1. Resolvable /\ status \notin {"inventory", "classify"}
      BY <1>8 DEF Recover, Buildable
    <2>2. /\ journal' = journal /\ idOrder' = idOrder /\ input' = input
          /\ accepted' = resolutions /\ resolutions' = resolutions /\ status' = "built"
          /\ output' = Overlay(resolveRebaseBuildDecisions) /\ MovesAreUnique(output')
      BY <1>8 DEF Recover
    <2> QED
      BY <2>1, <2>2, BuildIsReviewed
  <1>9. CASE UNCHANGED vars
    <2>1. Allowed'
      BY <1>9 DEF vars, IInv, Allowed
    <2> QED
      BY <1>9, <2>1, PlanUntouched DEF vars
  <1> QED
    BY <1>1, <1>2, <1>3, <1>4, <1>5, <1>6, <1>7, <1>8, <1>9 DEF Next

(***************************************************************************)
(* For any inputs, paths and objects and any number of reviews: what       *)
(* BuildRebase builds is what the reviewer last confirmed.                 *)
(***************************************************************************)
THEOREM ReviewIsHonoured == Spec => []ReviewHonoured
  <1>1. IInv => ReviewHonoured
    BY DEF IInv
  <1> QED
    BY InitIInv, NextIInv, <1>1, PTL DEF Spec

-----------------------------------------------------------------------------
(***************************************************************************)
(* Types.  A decision is one of the actions, with a file as its result.    *)
(***************************************************************************)
IsDecision(decision) ==
    decision \in [action : Actions, result : Files, conflicts : {decision.conflicts}]

IsPlan(plan) == plan = [p \in Paths |-> plan[p]] /\ \A p \in Paths : IsDecision(plan[p])

LEMMA InputTypes ==
    ASSUME NEW in \in Inputs, NEW p \in Paths
    PROVE  in.base[p] \in Files /\ in.project[p] \in Files /\ in.target[p] \in Files
  BY InputsAssumption

LEMMA PresentIsFile ==
    ASSUME NEW defs \in SUBSET (Objects \X Contents)
    PROVE  Present(defs) \in Files
  BY DEF Present, Files

LEMMA NoFileIsFile == NoFile \in Files
  BY DEF NoFile, Files

\* What a file has under an id.
LEMMA OfFile ==
    ASSUME NEW file \in Files, NEW d \in file.defs
    PROVE  d[1] \in Objects /\ d[2] \in Contents /\ d = <<d[1], d[2]>>
  BY DEF Files

LEMMA OfContents ==
    ASSUME NEW file \in Files, NEW id
    PROVE  ValueOf(file, id) \in Contents \cup {Absent}
  <1>1. CASE Of(file.defs, id) = {}
    BY <1>1 DEF ValueOf
  <1>2. CASE Of(file.defs, id) # {}
    <2>1. (CHOOSE d \in Of(file.defs, id) : TRUE) \in file.defs
      BY <1>2 DEF Of
    <2> QED
      BY <1>2, <2>1, OfFile DEF ValueOf
  <1> QED
    BY <1>1, <1>2

LEMMA LocalizationTyped ==
    ASSUME NEW base \in Files, NEW project \in Files, NEW target \in Files
    PROVE  mergeLocalizationThreeWay(base, project, target).defs \subseteq Objects \X Contents
  <1> DEFINE keys == Ids(base.defs \cup project.defs \cup target.defs)
             merged(k) == MergedKey(base, project, target, k)
             defs == UNION {{<<k, v>> : v \in merged(k) \ {Absent}} : k \in keys}
  <1>1. \A k : merged(k) \subseteq Contents \cup {Absent}
    <2>1. \A b, p, t : mergePlainThreeWay(b, p, t) \subseteq {p, t, Absent}
      BY DEF mergePlainThreeWay
    <2> QED
      BY <2>1, OfContents DEF MergedKey
  <1>2. keys \subseteq Objects
    BY OfFile DEF Ids
  <1>3. defs \subseteq Objects \X Contents
    <2> HIDE DEF merged, keys
    <2> QED
      BY <1>1, <1>2
  <1>4. mergeLocalizationThreeWay(base, project, target).defs \in {defs, target.defs}
    BY DEF mergeLocalizationThreeWay
  <1>5. target.defs \subseteq Objects \X Contents
    BY DEF Files
  <1> QED
    BY <1>3, <1>4, <1>5

LEMMA ProjectRecordTyped ==
    ASSUME NEW base, NEW content \in Contents, NEW target
    PROVE  ProjectRecord(base, content, target).new \subseteq Contents
  <1>1. \A b, t : MergedObject(b, content, t) \subseteq Contents
    BY DEF MergedObject, mergeJominiObject
  <1> QED
    BY <1>1 DEF ProjectRecord, Put, Ask, Leave

LEMMA RemovedRecordTyped ==
    ASSUME NEW p, NEW content, NEW target
    PROVE  RemovedRecord(p, content, target).new = {}
  BY DEF RemovedRecord, Put, Ask, Leave

LEMMA JominiTyped ==
    ASSUME NEW in \in Inputs, NEW p \in Paths
    PROVE  mergeJominiThreeWay(in, p).defs \subseteq Objects \X Contents
  <1> DEFINE kept == {[id |-> d[1], put |-> ProjectRecord(RecordsOf(in.base, d[1]), d[2],
                                                         RecordsOf(in.target, d[1]))] :
                        d \in in.project[p].defs}
             gone == {r \in recordsByID(in.base[p]) : r[1] \notin Ids(recordsByID(in.project[p]))}
             removed == {[id |-> d[1], put |-> RemovedRecord(p, d[2], RecordsOf(in.target, d[1]))] :
                           d \in gone}
             changes == {c \in kept \cup removed : c.put.changed}
  <1>1. ASSUME NEW c \in kept PROVE c.id \in Objects /\ c.put.new \subseteq Contents
    <2>1. PICK d \in in.project[p].defs :
            c = [id |-> d[1], put |-> ProjectRecord(RecordsOf(in.base, d[1]), d[2],
                                                    RecordsOf(in.target, d[1]))]
      BY <1>1
    <2>2. d[1] \in Objects /\ d[2] \in Contents
      BY InputTypes, OfFile
    <2> QED
      BY <2>1, <2>2, ProjectRecordTyped
  <1>2. ASSUME NEW c \in removed PROVE c.put.new = {}
    BY <1>2, RemovedRecordTyped
  <1>3. in.target[p].defs \subseteq Objects \X Contents
    BY InputTypes DEF Files
  <1>4. \A c \in changes : \A content \in c.put.new : <<c.id, content>> \in Objects \X Contents
    <2> HIDE DEF kept, removed
    <2> QED
      BY <1>1, <1>2
  <1>5. mergeJominiThreeWay(in, p).defs
          = {d \in in.target[p].defs : \A c \in changes : c.id # d[1]}
            \cup UNION {{<<c.id, content>> : content \in c.put.new} : c \in changes}
    BY DEF mergeJominiThreeWay
  <1> HIDE DEF changes
  <1> QED
    BY <1>3, <1>4, <1>5

LEMMA CandidateTyped ==
    ASSUME NEW in \in Inputs, NEW p \in Paths
    PROVE  Present(Candidate(in, p).defs) \in Files
  <1>1. CASE in.kind = "jomini"
    BY <1>1, JominiTyped, PresentIsFile DEF Candidate
  <1>2. CASE in.kind # "jomini"
    <2> DEFINE merged == mergeLocalizationThreeWay(in.base[p], in.project[p], in.target[p])
    <2>1. merged.defs \subseteq Objects \X Contents
      BY InputTypes, LocalizationTyped
    <2>2. Candidate(in, p).defs = merged.defs
      BY <1>2 DEF Candidate, mergeLocalizationThreeWay
    <2> QED
      BY <2>1, <2>2, PresentIsFile
  <1> QED
    BY <1>1, <1>2

LEMMA DecideTyped ==
    ASSUME NEW action \in Actions, NEW result \in Files
    PROVE  IsDecision(Decide(action, result))
  BY DEF IsDecision, Decide

LEMMA StopTyped == \A conflicts : IsDecision(Stop(conflicts))
  BY NoFileIsFile DEF IsDecision, Stop, Actions

LEMMA PlanTyped ==
    ASSUME NEW in \in Inputs, NEW p \in Paths
    PROVE  IsDecision(planRebasePath(in, p))
  <1> USE InputTypes, NoFileIsFile, DecideTyped, StopTyped DEF Actions
  <1>1. IsDecision(planBothChangedPath(in, p))
    BY CandidateTyped DEF planBothChangedPath
  <1> QED
    BY <1>1 DEF planRebasePath

LEMMA AttachTyped ==
    ASSUME NEW plan, IsPlan(plan), NEW conflict, NEW paths
    PROVE  IsPlan(Attach(plan, conflict, paths))
  BY DEF IsPlan, IsDecision, Attach, Actions

LEMMA CrossFileTyped ==
    ASSUME NEW in, NEW plan, NEW id, IsPlan(plan)
    PROVE  IsPlan(CrossFile(in, plan, id))
  <1> DEFINE project == RecordsOf(in.project, id)
             p == PathOf(project)
             conflict(code, path) == Conflict(code, path, id, Ordinary)
             duplicate(path) == Attach(plan, conflict("semantic_duplicate_id", path), {path})
  <1>1. CASE Ambiguous(project)
    <2>1. CrossFile(in, plan, id)
            = [path \in Paths |-> IF \A record \in project : record[1] # path THEN plan[path]
                                  ELSE duplicate(path)[path]]
      BY <1>1 DEF CrossFile
    <2>2. \A path \in Paths : IsDecision(plan[path]) /\ IsDecision(duplicate(path)[path])
      BY AttachTyped DEF IsPlan
    <2> HIDE DEF duplicate, project
    <2> QED
      BY <2>1, <2>2 DEF IsPlan
  <1>2. CASE ~Ambiguous(project)
    <2>1. CrossFile(in, plan, id) = plan
          \/ \E c, paths : CrossFile(in, plan, id) = Attach(plan, c, paths)
      BY <1>2 DEF CrossFile
    <2> QED
      BY <2>1, AttachTyped
  <1> QED
    BY <1>1, <1>2

-----------------------------------------------------------------------------
\* Before the plan is finished nobody can answer it.
Unanswered ==
    status \in {"inventory", "classify"} =>
        DOMAIN manual = {} /\ DOMAIN resolutions = {} /\ DOMAIN accepted = {}

TypeInv == TypeOK /\ IsPlan(journal) /\ Unanswered /\ input \in Inputs

\* A plan of decisions is what the type invariant says of the journal.
LEMMA PlanIsJournal ==
    ASSUME NEW plan, IsPlan(plan)
    PROVE  plan \in [Paths -> [action : Actions, result : Files,
                               conflicts : SUBSET UNION {plan[p].conflicts : p \in Paths}]]
  BY DEF IsPlan, IsDecision

LEMMA ResolvedTyped ==
    ASSUME TypeInv, Ranked, Resolvable, status \notin {"inventory", "classify"}
    PROVE  IsPlan(resolveRebaseBuildDecisions)
  <1> DEFINE plan == resolveRebaseBuildDecisions
  <1>1. ASSUME NEW p \in Paths, NEW c \in Conflicts
        PROVE  IsDecision(applyRebaseResolution(journal[p], p, resolutions[c]))
    <2>1. CASE resolutions[c].action = "manual"
      <3>1. resolutions[c].upload \in DOMAIN manual
        BY <2>1 DEF Resolvable, Usable, Confirmed
      <3>2. manual[resolutions[c].upload] \in Files
        BY <3>1, ReviewAssumption DEF TypeInv, TypeOK
      <3> QED
        BY <2>1, <3>2 DEF applyRebaseResolution, Resolved, IsDecision, Actions
    <2>2. CASE resolutions[c].action # "manual"
      <3>1. input.project[p] \in Files
        BY InputTypes DEF TypeInv
      <3> QED
        BY <2>2, <3>1, NoFileIsFile DEF applyRebaseResolution, Resolved, IsDecision, Actions
    <2> QED
      BY <2>1, <2>2
  <1>2. ASSUME NEW p \in Paths, NEW c \in Moves
        PROVE  IsDecision(applyRebaseCrossFileMoveResolution(c, p))
    <2>1. c \in Conflicts
      BY DEF Moves
    <2>2. input.target[p] \in Files
      BY InputTypes DEF TypeInv
    <2>3. TargetRemoval(p, c.id) \in Files
      <3>1. {d \in input.target[p].defs : d[1] # c.id} \in SUBSET (Objects \X Contents)
        BY <2>2 DEF Files
      <3> QED
        BY <3>1, PresentIsFile DEF TargetRemoval
    <2>4. \A action \in Actions, result \in Files : IsDecision(Resolved(journal[p], action, result))
      BY DEF Resolved, IsDecision
    <2> QED
      BY <1>1, <2>1, <2>2, <2>3, <2>4 DEF applyRebaseCrossFileMoveResolution, Actions
  <1>3. ASSUME NEW p \in Paths
        PROVE  IsDecision(plan[p])
    <2>1. CASE PathAnswers(p) # {}
      <3>1. PICK c \in Conflicts : (CHOOSE a \in PathAnswers(p) : TRUE) = resolutions[c]
        BY <2>1 DEF PathAnswers, Conflicts
      <3>2. plan[p] = applyRebaseResolution(journal[p], p, resolutions[c])
        BY <2>1, <3>1 DEF resolveRebaseBuildDecisions
      <3> QED
        BY <1>1, <3>2
    <2>2. CASE PathAnswers(p) = {} /\ MovesOf(p) # {}
      <3>1. LastMove(p) \in Moves
        BY <2>2, LastMoveExists DEF MovesOf, Moves, Conflicts
      <3>2. plan[p] = applyRebaseCrossFileMoveResolution(LastMove(p), p)
        BY <2>2 DEF resolveRebaseBuildDecisions
      <3> QED
        BY <1>2, <3>1, <3>2
    <2>3. CASE PathAnswers(p) = {} /\ MovesOf(p) = {}
      BY <2>3 DEF resolveRebaseBuildDecisions, TypeInv, IsPlan
    <2> QED
      BY <2>1, <2>2, <2>3
  <1>4. plan = [p \in Paths |-> plan[p]]
    BY DEF resolveRebaseBuildDecisions
  <1> QED
    BY <1>3, <1>4 DEF IsPlan

\* The overlay of a plan has a file at every path.
LEMMA OverlayTyped ==
    ASSUME input \in Inputs, NEW plan, IsPlan(plan)
    PROVE  Overlay(plan) \in [Paths -> Files]
  BY InputTypes, NoFileIsFile DEF Overlay, IsPlan, IsDecision

LEMMA InitTypeInv == Init => TypeInv
  <1> SUFFICES ASSUME Init PROVE TypeInv
    OBVIOUS
  <1>1. IsPlan(journal)
    BY NoFileIsFile DEF Init, IsPlan, IsDecision, Decide, Actions
  <1>2. DOMAIN NoAnswers = {}
    BY DEF NoAnswers
  <1>3. input \in Inputs /\ Unanswered
    BY <1>2 DEF Init, Unanswered
  <1>4. {input.base, input.project, input.target} \subseteq [Paths -> Files]
    BY <1>3, InputsAssumption
  <1>5. TypeOK
    BY <1>1, <1>2, <1>4, PlanIsJournal, ReviewAssumption DEF Init, TypeOK, Decisions, Conflicts
  <1> QED
    BY <1>1, <1>3, <1>5 DEF TypeInv

\* A step of the reviewer or of a build that decides nothing anew.
LEMMA AnswersTyped ==
    ASSUME TypeInv, status \notin {"inventory", "classify"},
           input' = input, unchecked' = unchecked, idOrder' = idOrder, journal' = journal,
           DOMAIN manual \subseteq DOMAIN manual', DOMAIN manual' \subseteq Conflicts,
           \A c \in DOMAIN manual' : manual'[c] \in ManualFiles,
           \A answers \in {resolutions', accepted'} \ {resolutions, accepted} :
             /\ DOMAIN answers \subseteq Conflicts
             /\ \A c \in DOMAIN answers : answers[c] \in Answers(c),
           status' \in {"needs_review", "ready_to_build", "building", "build_failed", "built"},
           output' \in {Unbuilt} \cup [Paths -> Files],
           status' \in {"needs_review", "ready_to_build"} => output' = Unbuilt,
           status' = "built" => output' # Unbuilt,
           reviews' \in 0..MaxReviews
    PROVE  TypeInv'
  <1>1. Conflicts' = Conflicts /\ Moves' = Moves
    BY DEF Conflicts, Moves
  <1>2. \A c : Answers(c) \subseteq Answers(c)'
    BY DEF Answers
  <1>3. \A answers \in {resolutions', accepted'} :
          /\ DOMAIN answers \subseteq Conflicts
          /\ \A c \in DOMAIN answers : answers[c] \in Answers(c)
    BY DEF TypeInv, TypeOK
  <1>4. \A answers \in {resolutions, accepted}' :
          /\ DOMAIN answers \subseteq Conflicts'
          /\ \A c \in DOMAIN answers : answers[c] \in Answers(c)'
    BY <1>1, <1>2, <1>3
  <1>5. IsPlan(journal)' /\ Unanswered' /\ input' \in Inputs
    BY DEF TypeInv, IsPlan, IsDecision, Unanswered
  <1>6. /\ {input.base, input.project, input.target}' \subseteq [Paths -> Files]
        /\ unchecked' \in Seq(Objects)
        /\ DOMAIN idOrder' = Moves'
    BY <1>1 DEF TypeInv, TypeOK
  <1>7. journal' \in [Paths -> Decisions']
    BY <1>1, PlanIsJournal DEF TypeInv, Decisions, Conflicts
  <1>8. TypeOK'
    BY <1>1, <1>4, <1>6, <1>7 DEF TypeOK
  <1> QED
    BY <1>5, <1>8 DEF TypeInv

\* A step of the plan, before there is any answer.
LEMMA PlanningTyped ==
    ASSUME TypeInv, status \in {"inventory", "classify"}, status' = "classify",
           IsPlan(journal'), unchecked' \in Seq(Objects),
           UNCHANGED <<input, idOrder, manual, resolutions, accepted, output, reviews>>
    PROVE  TypeInv'
  <1>1. IsPlan(journal)'
    BY DEF IsPlan, IsDecision
  <1>2. journal' \in [Paths -> Decisions']
    BY <1>1, PlanIsJournal DEF Decisions, Conflicts
  <1>3. DOMAIN manual' = {} /\ DOMAIN resolutions' = {} /\ DOMAIN accepted' = {}
    BY DEF TypeInv, Unanswered
  <1>4. TypeOK'
    BY <1>2, <1>3 DEF TypeInv, TypeOK
  <1> QED
    BY <1>1, <1>3, <1>4 DEF TypeInv, Unanswered

LEMMA NextTypeInv == TypeInv /\ IInv /\ [Next]_vars => TypeInv'
  <1> SUFFICES ASSUME TypeInv, IInv, [Next]_vars PROVE TypeInv'
    OBVIOUS
  <1>1. CASE Classify
    <2>1. IsPlan([p \in Paths |-> planRebasePath(input, p)])
      BY PlanTyped DEF TypeInv, IsPlan
    <2>2. unchecked' \in Seq(Objects)
      BY <1>1, OrderAssumption DEF Classify
    <2> QED
      BY <1>1, <2>1, <2>2, PlanningTyped DEF Classify
  <1>2. CASE CheckObject
    <2>1. IsPlan(journal')
      BY <1>2, CrossFileTyped DEF CheckObject, TypeInv
    <2>2. unchecked' \in Seq(Objects)
      BY <1>2 DEF CheckObject, TypeInv, TypeOK
    <2> QED
      BY <1>2, <2>1, <2>2, PlanningTyped DEF CheckObject
  <1>3. CASE FinishPlan
    <2>1. Conflicts' = Conflicts /\ Moves' = Moves
      BY <1>3 DEF FinishPlan, Conflicts, Moves
    <2>2. DOMAIN idOrder' = Moves
      BY <1>3 DEF FinishPlan
    <2>3. DOMAIN manual' = {} /\ DOMAIN resolutions' = {} /\ DOMAIN accepted' = {}
      BY <1>3 DEF FinishPlan, TypeInv, Unanswered
    <2>4. IsPlan(journal)' /\ Unanswered' /\ input' \in Inputs
      BY <1>3, <2>3 DEF FinishPlan, TypeInv, Unanswered, IsPlan, IsDecision
    <2>5. journal' \in [Paths -> Decisions']
      BY <2>4, PlanIsJournal DEF Decisions, Conflicts
    <2>6. TypeOK'
      BY <1>3, <2>1, <2>2, <2>3, <2>5 DEF FinishPlan, TypeInv, TypeOK
    <2> QED
      BY <2>4, <2>6 DEF TypeInv
  <1>4. CASE Upload
    <2>1. PICK c \in Conflicts, file \in ManualFiles :
            manual' = [d \in DOMAIN manual \cup {c} |-> IF d = c THEN file ELSE manual[d]]
      BY <1>4 DEF Upload
    <2>2. /\ DOMAIN manual \subseteq DOMAIN manual' /\ DOMAIN manual' \subseteq Conflicts
          /\ \A d \in DOMAIN manual' : manual'[d] \in ManualFiles
      BY <2>1 DEF TypeInv, TypeOK
    <2>3. reviews' \in 0..MaxReviews
      BY <1>4, ReviewAssumption DEF Upload, Reviewing, TypeInv, TypeOK
    <2> QED
      BY <1>4, <2>2, <2>3, AnswersTyped DEF Upload, Reviewing, TypeInv, TypeOK
  <1>5. CASE PostResolutions
    <2>1. /\ DOMAIN resolutions' \subseteq Conflicts
          /\ \A c \in DOMAIN resolutions' : resolutions'[c] \in Answers(c)
      BY <1>5 DEF PostResolutions
    <2>2. reviews' \in 0..MaxReviews
      BY <1>5, ReviewAssumption DEF PostResolutions, Reviewing, TypeInv, TypeOK
    <2> QED
      BY <1>5, <2>1, <2>2, AnswersTyped DEF PostResolutions, Reviewing, TypeInv, TypeOK
  <1>6. CASE AcceptReview
    <2>1. \A p \in Paths : journal'[p].conflicts = journal[p].conflicts
      BY <1>6, ResolvedKeepsConflicts DEF AcceptReview
    <2>2. Conflicts' = Conflicts /\ Moves' = Moves
      BY <2>1 DEF Conflicts, Moves
    <2>3. IsPlan(resolveRebaseBuildDecisions)
      BY <1>6, ResolvedTyped DEF AcceptReview, IInv
    <2>4. IsPlan(journal)' /\ Unanswered' /\ input' \in Inputs
      BY <1>6, <2>3 DEF AcceptReview, TypeInv, Unanswered, IsPlan, IsDecision
    <2>5. journal' \in [Paths -> Decisions']
      BY <2>4, PlanIsJournal DEF Decisions, Conflicts
    <2>6. \A c : Answers(c)' = Answers(c)
      BY <1>6 DEF AcceptReview, Answers
    <2>7. TypeOK'
      BY <1>6, <2>2, <2>5, <2>6 DEF AcceptReview, TypeInv, TypeOK
    <2> QED
      BY <2>4, <2>7 DEF TypeInv
  <1>7. CASE Publish
    <2>1. status \notin {"inventory", "classify"} /\ IsPlan(resolveRebaseBuildDecisions)
      BY <1>7, ResolvedTyped DEF Publish, Buildable, IInv
    <2>2. output' \in [Paths -> Files]
      BY <1>7, <2>1, OverlayTyped DEF Publish, TypeInv
    <2>3. output' # Unbuilt
      BY <2>2, NoneAssumption DEF Unbuilt
    <2> QED
      BY <1>7, <2>1, <2>2, <2>3, AnswersTyped DEF Publish, TypeInv, TypeOK
  <1>8. CASE BuildFails
    <2>1. status \notin {"inventory", "classify"}
      BY <1>8 DEF BuildFails, Buildable
    <2> QED
      BY <1>8, <2>1, AnswersTyped DEF BuildFails, TypeInv, TypeOK
  <1>9. CASE Recover
    <2>1. status \notin {"inventory", "classify"}
      BY <1>9 DEF Recover, Buildable
    <2> QED
      BY <1>9, <2>1, AnswersTyped DEF Recover, Buildable, TypeInv, TypeOK
  <1>10. CASE UNCHANGED vars
    <2>1. Conflicts' = Conflicts /\ Moves' = Moves /\ (\A c : Answers(c)' = Answers(c))
      BY <1>10 DEF vars, Conflicts, Moves, Answers
    <2>2. TypeOK'
      BY <1>10, <2>1 DEF vars, TypeInv, TypeOK, Decisions
    <2> QED
      BY <1>10, <2>2 DEF vars, TypeInv, Unanswered, IsPlan, IsDecision
  <1> QED
    BY <1>1, <1>2, <1>3, <1>4, <1>5, <1>6, <1>7, <1>8, <1>9, <1>10 DEF Next

(***************************************************************************)
(* For any inputs, paths and objects and any number of reviews: the types  *)
(* of a transaction, that every answer is one its conflict accepts, and    *)
(* that an overlay is published exactly where the status says so.          *)
(***************************************************************************)
THEOREM PlanTypes == Spec => []TypeOK
  <1>1. Spec => []IInv
    BY InitIInv, NextIInv, PTL DEF Spec
  <1>2. TypeInv => TypeOK
    BY DEF TypeInv
  <1> QED
    BY <1>1, <1>2, InitTypeInv, NextTypeInv, PTL DEF Spec

-----------------------------------------------------------------------------
(***************************************************************************)
(* A plan that asks nothing is the file decisions, as they were made: the  *)
(* search for moves, the review and the build leave them as they are, and  *)
(* every object of the project has been looked for in all files.           *)
(***************************************************************************)
FilePlan == [p \in Paths |-> planRebasePath(input, p)]

\* Nothing speaks against the file decisions about an object.
Settled(id) ==
    LET base == RecordsOf(input.base, id)
        project == RecordsOf(input.project, id)
        target == RecordsOf(input.target, id)
    IN /\ ~Ambiguous(project)
       /\ \/ project = {} \/ target = {}
          \/ /\ ~Ambiguous(target)
             /\ \/ PathOf(target) = PathOf(project)
                \/ Unique(base) /\ PathOf(base) = PathOf(project)

ToCheck == {unchecked[i] : i \in 1..Len(unchecked)}

Unasked ==
    status # "inventory" /\ Conflicts = {} =>
        /\ journal = FilePlan
        /\ input.kind = "localization" \/ \A id \in Objects : Settled(id) \/ id \in ToCheck
        /\ status = "built" => output = Overlay(FilePlan)

Checked == status \notin {"inventory", "classify"} => unchecked = <<>>

PlanInv == Unasked /\ Checked

\* A conflict of a plan is not lost in the search for moves.
LEMMA AttachAdds ==
    ASSUME NEW plan, NEW conflict, NEW paths, NEW p \in Paths
    PROVE  /\ plan[p].conflicts \subseteq Attach(plan, conflict, paths)[p].conflicts
           /\ p \in paths => conflict \in Attach(plan, conflict, paths)[p].conflicts
  BY DEF Attach

LEMMA CrossFileSettles ==
    ASSUME NEW plan, plan = [p \in Paths |-> plan[p]], NEW id,
           \A p \in Paths : CrossFile(input, plan, id)[p].conflicts = {}
    PROVE  CrossFile(input, plan, id) = plan /\ Settled(id)
  <1> DEFINE base == RecordsOf(input.base, id)
             project == RecordsOf(input.project, id)
             target == RecordsOf(input.target, id)
             p == PathOf(project)
             conflict(code, path) == Conflict(code, path, id, Ordinary)
             crossed == CrossFile(input, plan, id)
  <1>1. ~Ambiguous(project)
    <2>1. SUFFICES ASSUME Ambiguous(project) PROVE FALSE
      OBVIOUS
    <2>2. PICK record \in project : TRUE
      BY <2>1 DEF Ambiguous
    <2>3. record[1] \in Paths
      BY <2>2 DEF RecordsOf
    <2> DEFINE path == record[1]
               duplicate == conflict("semantic_duplicate_id", path)
    <2>4. crossed[path] = Attach(plan, duplicate, {path})[path]
      BY <2>1, <2>2, <2>3 DEF CrossFile
    <2>5. path \in Paths
      BY <2>3
    <2>6. duplicate \in crossed[path].conflicts
      <3> HIDE DEF duplicate, path, crossed
      <3> QED
        BY <2>4, <2>5, AttachAdds
    <2> QED
      BY <2>5, <2>6
  <1>2. CASE project = {} \/ target = {}
    BY <1>1, <1>2 DEF CrossFile, Settled
  <1>3. CASE project # {} /\ target # {}
    <2>1. p \in Paths
      BY <1>3, PathOfRecord
    <2>2. \A c, paths : p \in paths => crossed # Attach(plan, c, paths)
      BY <2>1, AttachAdds
    <2>3. ~Ambiguous(target)
      <3>1. Ambiguous(target) => crossed = Attach(plan, conflict("semantic_ambiguous_target", p), {p})
        BY <1>1, <1>3 DEF CrossFile
      <3> QED
        BY <2>2, <3>1
    <2>4. PathOf(target) = p \/ (Unique(base) /\ PathOf(base) = p)
      <3>1. PathOf(target) = p \/ (Unique(base) /\ PathOf(base) = p)
            \/ crossed = Attach(plan, planRebaseCrossFileMoveConflict(input, plan, id, p, PathOf(target)),
                                {p, PathOf(target)})
        BY <1>1, <1>3, <2>3 DEF CrossFile
      <3> QED
        BY <2>2, <3>1
    <2>5. crossed = plan
      BY <1>1, <1>3, <2>3, <2>4 DEF CrossFile
    <2> QED
      BY <1>1, <1>3, <2>3, <2>4, <2>5 DEF Settled
  <1> QED
    BY <1>2, <1>3

LEMMA NoConflicts == Conflicts = {} <=> \A p \in Paths : journal[p].conflicts = {}
  BY DEF Conflicts

\* Nothing is resolved where nothing is asked.
LEMMA UnaskedResolves ==
    ASSUME Conflicts = {}, IsPlan(journal)
    PROVE  resolveRebaseBuildDecisions = journal
  <1>1. \A p \in Paths : MovesOf(p) = {} /\ PathAnswers(p) = {}
    BY NoConflicts DEF MovesOf, PathAnswers
  <1> QED
    BY <1>1 DEF resolveRebaseBuildDecisions, IsPlan

LEMMA InitPlanInv == Init => PlanInv
  BY DEF Init, PlanInv, Unasked, Checked

LEMMA NextPlanInv == PlanInv /\ TypeInv /\ [Next]_vars => PlanInv'
  <1> SUFFICES ASSUME PlanInv, TypeInv, [Next]_vars PROVE PlanInv'
    OBVIOUS
  <1>1. CASE Classify
    <2>1. journal' = FilePlan' /\ status' = "classify"
      BY <1>1 DEF Classify, FilePlan
    <2>2. input'.kind = "localization" \/ \A id \in Objects : id \in ToCheck'
      <3>1. CASE input.kind # "localization"
        <4>1. unchecked' = ObjectOrder
          BY <1>1, <3>1 DEF Classify
        <4>2. \A id \in Objects : \E i \in 1..Len(ObjectOrder) : ObjectOrder[i] = id
          BY OrderAssumption DEF Range
        <4> QED
          BY <4>1, <4>2 DEF ToCheck
      <3> QED
        BY <1>1, <3>1 DEF Classify
    <2> QED
      BY <2>1, <2>2 DEF PlanInv, Unasked, Checked
  <1>2. CASE CheckObject
    <2> DEFINE id == Head(unchecked)
    <2>1. SUFFICES ASSUME Conflicts' = {} PROVE Unasked'
      BY <1>2 DEF CheckObject, PlanInv, Unasked, Checked
    <2>2. journal' = CrossFile(input, journal, id) /\ status = "classify" /\ unchecked # <<>>
      BY <1>2 DEF CheckObject
    <2>3. \A p \in Paths : CrossFile(input, journal, id)[p].conflicts = {}
      BY <2>1, <2>2 DEF Conflicts
    <2>4. journal = [p \in Paths |-> journal[p]]
      BY DEF TypeInv, IsPlan
    <2>5. journal' = journal /\ Settled(id)
      BY <2>2, <2>3, <2>4, CrossFileSettles
    <2>6. Conflicts = {}
      BY <2>1, <2>5 DEF Conflicts
    <2>7. journal' = FilePlan'
      BY <1>2, <2>2, <2>5, <2>6 DEF CheckObject, PlanInv, Unasked, FilePlan
    <2>8. \A o \in ToCheck : o = id \/ o \in ToCheck'
      <3>1. unchecked \in Seq(Objects) /\ unchecked' = Tail(unchecked)
        BY <1>2 DEF CheckObject, TypeInv, TypeOK
      <3>2. ASSUME NEW i \in 1..Len(unchecked), i # 1
            PROVE  unchecked[i] \in ToCheck'
        <4>1. i - 1 \in 1..Len(unchecked') /\ unchecked'[i - 1] = unchecked[i]
          BY <2>2, <3>1, <3>2
        <4> QED
          BY <4>1 DEF ToCheck
      <3>3. unchecked[1] = id
        BY <2>2, <3>1
      <3> QED
        BY <3>2, <3>3 DEF ToCheck
    <2>9. \A o : Settled(o)' <=> Settled(o)
      BY <1>2 DEF CheckObject, Settled
    <2>10. input.kind = "localization" \/ \A o \in Objects : Settled(o)' \/ o \in ToCheck'
      BY <2>2, <2>5, <2>6, <2>8, <2>9 DEF PlanInv, Unasked
    <2> QED
      BY <1>2, <2>7, <2>10 DEF CheckObject, Unasked
  <1>3. CASE FinishPlan
    <2>1. Conflicts' = Conflicts /\ FilePlan' = FilePlan /\ ToCheck' = ToCheck
      BY <1>3 DEF FinishPlan, Conflicts, FilePlan, ToCheck
    <2>2. \A o : Settled(o)' <=> Settled(o)
      BY <1>3 DEF FinishPlan, Settled
    <2> QED
      BY <1>3, <2>1, <2>2 DEF FinishPlan, PlanInv, Unasked, Checked
  <1>4. ASSUME status \notin {"inventory", "classify"}, status' \notin {"inventory", "classify"},
               input' = input, unchecked' = unchecked,
               journal' = journal \/ journal' = resolveRebaseBuildDecisions,
               \/ status' # "built"
               \/ output' = Overlay(resolveRebaseBuildDecisions)
               \/ status = "built" /\ output' = output
        PROVE  PlanInv'
    <2>1. \A p \in Paths : journal'[p].conflicts = journal[p].conflicts
      BY <1>4, ResolvedKeepsConflicts
    <2>2. SUFFICES ASSUME Conflicts' = {} PROVE Unasked'
      BY <1>4 DEF PlanInv, Unasked, Checked
    <2>3. Conflicts = {}
      BY <2>1, <2>2 DEF Conflicts
    <2>4. resolveRebaseBuildDecisions = journal /\ journal = FilePlan
      BY <1>4, <2>3, UnaskedResolves DEF TypeInv, PlanInv, Unasked
    <2>5. journal' = FilePlan'
      BY <1>4, <2>4 DEF FilePlan
    <2>6. ToCheck' = ToCheck /\ (\A o : Settled(o)' <=> Settled(o))
      BY <1>4 DEF ToCheck, Settled
    <2>7. Overlay(FilePlan)' = Overlay(FilePlan)
      BY <1>4 DEF Overlay, FilePlan
    <2> QED
      BY <1>4, <2>3, <2>4, <2>5, <2>6, <2>7 DEF PlanInv, Unasked
  <1>5. CASE Upload
    BY <1>4, <1>5 DEF Upload, Reviewing
  <1>6. CASE PostResolutions
    BY <1>4, <1>6 DEF PostResolutions, Reviewing
  <1>7. CASE AcceptReview
    BY <1>4, <1>7 DEF AcceptReview
  <1>8. CASE Publish
    BY <1>4, <1>8 DEF Publish, Buildable
  <1>9. CASE BuildFails
    BY <1>4, <1>9 DEF BuildFails, Buildable
  <1>10. CASE Recover
    BY <1>4, <1>10 DEF Recover, Buildable
  <1>11. CASE UNCHANGED vars
    <2>1. Conflicts' = Conflicts /\ FilePlan' = FilePlan /\ ToCheck' = ToCheck
      BY <1>11 DEF vars, Conflicts, FilePlan, ToCheck
    <2>2. (\A o : Settled(o)' <=> Settled(o)) /\ Overlay(FilePlan)' = Overlay(FilePlan)
      BY <1>11 DEF vars, Settled, Overlay, FilePlan
    <2> QED
      BY <1>11, <2>1, <2>2 DEF vars, PlanInv, Unasked, Checked
  <1> QED
    BY <1>1, <1>2, <1>3, <1>5, <1>6, <1>7, <1>8, <1>9, <1>10, <1>11 DEF Next

-----------------------------------------------------------------------------
(***************************************************************************)
(* What the files of a plan that asks nothing become in the new load       *)
(* stack.                                                                  *)
(***************************************************************************)
BuiltAsPlanned ==
    /\ input \in Inputs
    /\ output = Overlay(FilePlan)
    /\ \A p \in Paths : planRebasePath(input, p).conflicts = {}
    /\ input.kind = "localization" \/ \A id \in Objects : Settled(id)

LEMMA UnaskedIsPlanned == TypeInv /\ PlanInv /\ BuiltUnasked => BuiltAsPlanned
  <1> SUFFICES ASSUME TypeInv, PlanInv, BuiltUnasked PROVE BuiltAsPlanned
    OBVIOUS
  <1>1. journal = FilePlan /\ output = Overlay(FilePlan) /\ unchecked = <<>>
    BY DEF BuiltUnasked, PlanInv, Unasked, Checked
  <1>2. \A p \in Paths : planRebasePath(input, p).conflicts = {}
    BY <1>1, NoConflicts DEF BuiltUnasked, FilePlan
  <1>3. ToCheck = {}
    BY <1>1 DEF ToCheck
  <1> QED
    BY <1>1, <1>2, <1>3 DEF BuiltAsPlanned, BuiltUnasked, TypeInv, PlanInv, Unasked

\* How the project's own file can stay as it is.
Kept(p) ==
    LET base == input.base[p]
        project == input.project[p]
        target == input.target[p]
    IN \/ ~base.there /\ ~target.there
       \/ project = base /\ p \in input.owned
       \/ target = base
       \/ project = target

\* The file a path loads: the target's, where the project has none or its own is
\* redundant; the project's; the merged one; or none, under a replace_path.
Inherited(p) ==
    /\ NewStack[p] = input.target[p] \/ (NewStack[p] = NoFile /\ p \in input.replaced)
    /\ ~input.project[p].there \/ input.project[p] \in {input.base[p], input.target[p]}

KeptFile(p) == NewStack[p] = input.project[p] /\ input.project[p].there /\ Kept(p)

MergedFile(p) ==
    /\ input.kind \in {"jomini", "localization"} /\ input.project[p].there
    /\ Candidate(input, p).conflicts = {}
    /\ \/ NewStack[p] = Present(Candidate(input, p).defs)
       \/ NewStack[p] = NoFile /\ p \in input.replaced

LEMMA NewFile ==
    ASSUME BuiltAsPlanned, NEW p \in Paths
    PROVE  Inherited(p) \/ KeptFile(p) \/ MergedFile(p)
  <1> DEFINE decision == planRebasePath(input, p)
             base == input.base[p]
             project == input.project[p]
             target == input.target[p]
  <1>1. output[p] = IF decision.action = "keep_project" THEN project
                    ELSE IF decision.action = "write_candidate" THEN decision.result
                    ELSE NoFile
    BY DEF BuiltAsPlanned, Overlay, FilePlan
  <1>2. NewStack[p] = IF output[p].there THEN output[p]
                      ELSE IF p \in input.replaced THEN NoFile ELSE target
    BY DEF NewStack, Loaded
  <1>3. decision.conflicts = {}
    BY DEF BuiltAsPlanned
  <1>4. CASE decision = planBothChangedPath(input, p) /\ project.there
    <2>1. input.kind # "unlisted" /\ Candidate(input, p).conflicts = {}
      <3>1. input.kind # "unlisted"
        BY <1>3, <1>4 DEF planBothChangedPath, Stop
      <3>2. ASSUME NEW c \in Candidate(input, p).conflicts PROVE FALSE
        <4>1. Conflict(c[1], p, c[2], Ordinary) \in decision.conflicts
          BY <1>4, <3>1, <3>2 DEF planBothChangedPath, Stop
        <4> QED
          BY <1>3, <4>1
      <3> QED
        BY <3>1, <3>2
    <2>2. input.kind \in {"jomini", "localization"}
      BY <2>1, InputsAssumption DEF BuiltAsPlanned
    <2>3. NewStack[p] = Present(Candidate(input, p).defs)
          \/ (NewStack[p] = NoFile /\ p \in input.replaced)
      <3>1. CASE Present(Candidate(input, p).defs) = target
        <4>1. decision.action = "delete_project"
          BY <1>4, <2>1, <3>1 DEF planBothChangedPath, Decide
        <4>2. ~output[p].there
          BY <1>1, <4>1 DEF NoFile
        <4> QED
          BY <1>2, <3>1, <4>2
      <3>2. CASE Present(Candidate(input, p).defs) # target
        <4>1. decision.action = "write_candidate"
              /\ decision.result = Present(Candidate(input, p).defs)
          BY <1>4, <2>1, <3>2 DEF planBothChangedPath, Decide
        <4>2. output[p] = decision.result /\ output[p].there
          BY <1>1, <4>1 DEF Present
        <4> QED
          BY <1>2, <4>1, <4>2
      <3> QED
        BY <3>1, <3>2
    <2> QED
      BY <1>4, <2>1, <2>2, <2>3 DEF MergedFile
  <1>5. CASE decision = Decide("keep_project", project) /\ project.there /\ Kept(p)
    <2>1. output[p] = project
      BY <1>1, <1>5 DEF Decide
    <2> QED
      BY <1>2, <1>5, <2>1 DEF KeptFile
  <1>6. CASE decision.action \in {"inherit_target", "delete_project"}
             /\ (~project.there \/ project \in {base, target})
    <2>1. ~output[p].there
      BY <1>1, <1>6 DEF NoFile
    <2> QED
      BY <1>2, <1>6, <2>1 DEF Inherited
  <1>7. \/ decision = planBothChangedPath(input, p) /\ project.there
        \/ decision = Decide("keep_project", project) /\ project.there /\ Kept(p)
        \/ decision.action \in {"inherit_target", "delete_project"}
           /\ (~project.there \/ project \in {base, target})
    <2>1. \A c : Stop({c}).conflicts # {}
      BY DEF Stop
    <2>2. decision # Stop({Conflict("replace_path_target_addition", p, None, {"use_target", "drop"})})
          /\ decision # Stop({Conflict("delete_modify_conflict", p, None, {"keep_project", "drop"})})
      BY <1>3, <2>1
    <2> QED
      BY <2>2 DEF planRebasePath, Decide, Kept
  <1> QED
    BY <1>4, <1>5, <1>6, <1>7

-----------------------------------------------------------------------------
(***************************************************************************)
(* The records of an object, by the files that have it.                    *)
(***************************************************************************)
LEMMA RecordsAre ==
    ASSUME NEW layer \in [Paths -> Files], NEW id
    PROVE  /\ \A p \in Paths : \A x : <<p, x>> \in RecordsOf(layer, id) <=> <<id, x>> \in layer[p].defs
           /\ \A r \in RecordsOf(layer, id) :
                r[1] \in Paths /\ r = <<r[1], r[2]>> /\ <<id, r[2]>> \in layer[r[1]].defs
  <1>1. ASSUME NEW r \in RecordsOf(layer, id)
        PROVE  r[1] \in Paths /\ r = <<r[1], r[2]>> /\ <<id, r[2]>> \in layer[r[1]].defs
    <2>1. PICK p \in Paths : r \in {<<p, d[2]>> : d \in Of(layer[p].defs, id)}
      BY <1>1 DEF RecordsOf
    <2>2. PICK d \in Of(layer[p].defs, id) : r = <<p, d[2]>>
      BY <2>1
    <2>3. d = <<id, d[2]>> /\ d \in layer[p].defs
      BY OfFile DEF Of
    <2> QED
      BY <2>2, <2>3
  <1>2. ASSUME NEW p \in Paths, NEW x, <<id, x>> \in layer[p].defs
        PROVE  <<p, x>> \in RecordsOf(layer, id)
    <2>1. <<id, x>> \in Of(layer[p].defs, id)
      BY <1>2 DEF Of
    <2> QED
      BY <2>1 DEF RecordsOf
  <1> QED
    BY <1>1, <1>2

\* The record of an object that is there once.
LEMMA UniqueRecord ==
    ASSUME NEW layer \in [Paths -> Files], NEW id, ~Ambiguous(RecordsOf(layer, id)),
           NEW p \in Paths, NEW x, <<id, x>> \in layer[p].defs
    PROVE  /\ RecordsOf(layer, id) = {<<p, x>>}
           /\ PathOf(RecordsOf(layer, id)) = p /\ ContentOf(RecordsOf(layer, id)) = x
           /\ \A q \in Paths : \A y : <<id, y>> \in layer[q].defs => q = p /\ y = x
  <1>1. <<p, x>> \in RecordsOf(layer, id)
    BY RecordsAre
  <1>2. RecordsOf(layer, id) = {<<p, x>>}
    BY <1>1 DEF Ambiguous
  <1>3. (CHOOSE record \in RecordsOf(layer, id) : TRUE) = <<p, x>>
    BY <1>2
  <1>4. \A q \in Paths : \A y : <<id, y>> \in layer[q].defs => <<q, y>> = <<p, x>>
    BY <1>2, RecordsAre
  <1> QED
    BY <1>2, <1>3, <1>4 DEF PathOf, ContentOf

-----------------------------------------------------------------------------
(***************************************************************************)
(* The merge of a file, object by object: what becomes of one that the     *)
(* project's file has, that only the base's has, and of any other.         *)
(***************************************************************************)
\* What the merged file has of an object is what is put there or the target's.
Becomes(in, p, id, put) ==
    /\ put.code = "merged"
    /\ \A x : <<id, x>> \in mergeJominiThreeWay(in, p).defs
              <=> IF put.changed THEN x \in put.new ELSE <<id, x>> \in in.target[p].defs

LEMMA MergeBecomes ==
    ASSUME NEW in \in Inputs, NEW p \in Paths, mergeJominiThreeWay(in, p).conflicts = {},
           NEW id,
           \A c \in in.project[p].defs : \A d \in in.project[p].defs :
             c[1] = id /\ d[1] = id => c = d,
           \A c \in in.base[p].defs : \A d \in in.base[p].defs :
             c[1] = id /\ d[1] = id => c = d
    PROVE  /\ \A content : <<id, content>> \in in.project[p].defs
                => Becomes(in, p, id, ProjectRecord(RecordsOf(in.base, id), content, RecordsOf(in.target, id)))
           /\ \A content : <<id, content>> \in in.base[p].defs /\ id \notin Ids(in.project[p].defs)
                => Becomes(in, p, id, RemovedRecord(p, content, RecordsOf(in.target, id)))
           /\ id \notin Ids(in.project[p].defs \cup in.base[p].defs) => Becomes(in, p, id, Leave)
  <1> DEFINE kept == {[id |-> d[1], put |-> ProjectRecord(RecordsOf(in.base, d[1]), d[2],
                                                         RecordsOf(in.target, d[1]))] :
                        d \in in.project[p].defs}
             gone == {r \in recordsByID(in.base[p]) : r[1] \notin Ids(recordsByID(in.project[p]))}
             removed == {[id |-> d[1], put |-> RemovedRecord(p, d[2], RecordsOf(in.target, d[1]))] :
                           d \in gone}
             changes == {c \in kept \cup removed : c.put.changed}
             merged == mergeJominiThreeWay(in, p)
  <1>1. /\ merged.conflicts = {<<c.put.code, c.id>> : c \in {r \in kept \cup removed : r.put.code # "merged"}}
        /\ merged.defs = {d \in in.target[p].defs : \A c \in changes : c.id # d[1]}
                         \cup UNION {{<<c.id, content>> : content \in c.put.new} : c \in changes}
    BY DEF mergeJominiThreeWay
  <1>2. \A c \in kept \cup removed : c.put.code = "merged"
    <2>1. ASSUME NEW c \in kept \cup removed, c.put.code # "merged"
          PROVE  <<c.put.code, c.id>> \in merged.conflicts
      <3> HIDE DEF kept, removed, merged
      <3> QED
        BY <1>1, <2>1
    <2> QED
      BY <2>1
  <1>3. \A c \in kept \cup removed : c = [id |-> c.id, put |-> c.put]
    OBVIOUS
  <1>4. ASSUME NEW put, {c \in kept \cup removed : c.id = id} = {[id |-> id, put |-> put]}
        PROVE  Becomes(in, p, id, put)
    <2>1. [id |-> id, put |-> put] \in kept \cup removed
      BY <1>4
    <2>2. put.code = "merged"
      BY <1>2, <2>1
    <2>3. ASSUME NEW x
          PROVE  <<id, x>> \in merged.defs
                 <=> IF put.changed THEN x \in put.new ELSE <<id, x>> \in in.target[p].defs
      <3>1. \A c \in changes : c.id = id => c = [id |-> id, put |-> put]
        BY <1>4
      <3>2. put.changed <=> [id |-> id, put |-> put] \in changes
        BY <2>1
      <3>3. <<id, x>> \in merged.defs
            <=> \/ <<id, x>> \in in.target[p].defs /\ \A c \in changes : c.id # id
                \/ \E c \in changes : c.id = id /\ x \in c.put.new
        <4> HIDE DEF changes, merged
        <4> QED
          BY <1>1
      <3> HIDE DEF changes, merged
      <3> QED
        BY <3>1, <3>2, <3>3
    <2> QED
      BY <2>2, <2>3 DEF Becomes
  <1>5. ASSUME {c \in kept \cup removed : c.id = id} = {}
        PROVE  Becomes(in, p, id, Leave)
    <2>1. \A c \in changes : c.id # id
      BY <1>5
    <2>2. ASSUME NEW x
          PROVE  <<id, x>> \in merged.defs <=> <<id, x>> \in in.target[p].defs
      <3> HIDE DEF changes, merged
      <3> QED
        BY <1>1, <2>1
    <2> QED
      BY <2>2 DEF Becomes, Leave
  <1>6. \A d \in in.project[p].defs : d[1] = id => d \in recordsByID(in.project[p])
    BY DEF recordsByID, Ambiguous, Of
  <1>7. \A d \in in.base[p].defs : d[1] = id => d \in recordsByID(in.base[p])
    BY DEF recordsByID, Ambiguous, Of
  <1>8. id \in Ids(recordsByID(in.project[p])) <=> id \in Ids(in.project[p].defs)
    BY <1>6 DEF Ids, recordsByID
  <1>9. ASSUME NEW content, <<id, content>> \in in.project[p].defs
        PROVE  Becomes(in, p, id, ProjectRecord(RecordsOf(in.base, id), content, RecordsOf(in.target, id)))
    <2> DEFINE put == ProjectRecord(RecordsOf(in.base, id), content, RecordsOf(in.target, id))
    <2>1. [id |-> id, put |-> put] \in kept
      BY <1>9
    <2>2. ASSUME NEW c \in kept, c.id = id PROVE c = [id |-> id, put |-> put]
      <3>1. PICK d \in in.project[p].defs :
              c = [id |-> d[1], put |-> ProjectRecord(RecordsOf(in.base, d[1]), d[2],
                                                      RecordsOf(in.target, d[1]))]
        BY <2>2
      <3>2. d = <<id, content>>
        BY <1>9, <2>2, <3>1
      <3> QED
        BY <3>1, <3>2
    <2>3. \A c \in removed : c.id # id
      BY <1>8, <1>9 DEF Ids
    <2>4. {c \in kept \cup removed : c.id = id} = {[id |-> id, put |-> put]}
      <3> HIDE DEF kept, removed, put
      <3> QED
        BY <2>1, <2>2, <2>3
    <2> QED
      BY <1>4, <2>4
  <1>10. ASSUME NEW content, <<id, content>> \in in.base[p].defs, id \notin Ids(in.project[p].defs)
         PROVE  Becomes(in, p, id, RemovedRecord(p, content, RecordsOf(in.target, id)))
    <2> DEFINE put == RemovedRecord(p, content, RecordsOf(in.target, id))
    <2>1. [id |-> id, put |-> put] \in removed
      BY <1>7, <1>8, <1>10
    <2>2. ASSUME NEW c \in removed, c.id = id PROVE c = [id |-> id, put |-> put]
      <3>1. PICK d \in gone : c = [id |-> d[1], put |-> RemovedRecord(p, d[2], RecordsOf(in.target, d[1]))]
        BY <2>2
      <3>2. d = <<id, content>>
        BY <1>10, <2>2, <3>1 DEF recordsByID
      <3> QED
        BY <3>1, <3>2
    <2>3. \A c \in kept : c.id # id
      BY <1>10 DEF Ids
    <2>4. {c \in kept \cup removed : c.id = id} = {[id |-> id, put |-> put]}
      <3> HIDE DEF kept, removed, put
      <3> QED
        BY <2>1, <2>2, <2>3
    <2> QED
      BY <1>4, <2>4
  <1>11. ASSUME id \notin Ids(in.project[p].defs \cup in.base[p].defs)
         PROVE  Becomes(in, p, id, Leave)
    <2>1. \A c \in kept \cup removed : c.id # id
      BY <1>11 DEF Ids, recordsByID
    <2>2. {c \in kept \cup removed : c.id = id} = {}
      BY <2>1
    <2> QED
      BY <1>5, <2>2
  <1> QED
    BY <1>9, <1>10, <1>11

\* A merged object has one content.
LEMMA OnePut ==
    ASSUME NEW base, NEW content \in Contents, NEW target,
           NEW x \in ProjectRecord(base, content, target).new,
           NEW y \in ProjectRecord(base, content, target).new
    PROVE  x = y
  <1>1. \A b, p, t : \A v, w \in mergePlainThreeWay(b, p, t) : v = w
    BY DEF mergePlainThreeWay
  <1>2. \A b, t : \A v, w \in mergeJominiObject(b, content, t) : v = w
    <2>1. SUFFICES ASSUME NEW b, NEW t, NEW v \in mergeJominiObject(b, content, t),
                          NEW w \in mergeJominiObject(b, content, t)
                   PROVE  v = w
      OBVIOUS
    <2>2. v \in Contents /\ w \in Contents /\ \A f \in Fields : v[f] = w[f]
      BY <1>1 DEF mergeJominiObject
    <2> QED
      BY <2>2 DEF Contents
  <1>3. \A b, t : \A v, w \in MergedObject(b, content, t) : v = w
    BY <1>2 DEF MergedObject
  <1> QED
    BY <1>3 DEF ProjectRecord, Put, Ask, Leave

-----------------------------------------------------------------------------
(***************************************************************************)
(* Objects that every layer has at most once.                              *)
(***************************************************************************)
LEMMA StacksTyped ==
    ASSUME BuiltAsPlanned
    PROVE  {input.base, input.project, input.target, OldStack, NewStack} \subseteq [Paths -> Files]
  <1>1. {input.base, input.project, input.target} \subseteq [Paths -> Files]
    BY InputsAssumption DEF BuiltAsPlanned
  <1>2. IsPlan(FilePlan)
    BY PlanTyped DEF BuiltAsPlanned, FilePlan, IsPlan
  <1>3. output \in [Paths -> Files]
    BY <1>2, OverlayTyped DEF BuiltAsPlanned
  <1>4. \A overlay, below \in [Paths -> Files] : Loaded(overlay, below) \in [Paths -> Files]
    BY NoFileIsFile DEF Loaded
  <1> QED
    BY <1>1, <1>3, <1>4 DEF OldStack, NewStack

\* A file that has an object is there.
LEMMA HasIsThere ==
    ASSUME BuiltAsPlanned, NEW p \in Paths, NEW d
    PROVE  /\ d \in input.base[p].defs => input.base[p].there
           /\ d \in input.project[p].defs => input.project[p].there /\ OldStack[p] = input.project[p]
           /\ d \notin NoFile.defs
  <1>1. d \notin NoFile.defs
    BY DEF NoFile
  <1>2. \A layer \in {input.base, input.project} : d \in layer[p].defs => layer[p].there
    BY <1>1, InputsAssumption DEF BuiltAsPlanned
  <1> QED
    BY <1>1, <1>2 DEF OldStack, Loaded

LEMMA SingleLayers ==
    ASSUME BuiltAsPlanned, NEW id, SingleInEveryLayer(id)
    PROVE  /\ ~Ambiguous(RecordsOf(input.base, id))
           /\ ~Ambiguous(RecordsOf(input.project, id))
           /\ ~Ambiguous(RecordsOf(input.target, id))
           /\ ~Ambiguous(RecordsOf(OldStack, id))
  <1>1. /\ ~Ambiguous(RecordsOf(input.base, id)) /\ ~Ambiguous(RecordsOf(input.target, id))
        /\ ~Ambiguous(RecordsOf(OldStack, id))
    BY DEF SingleInEveryLayer, Layers
  <1>2. ASSUME NEW r \in RecordsOf(input.project, id) PROVE r \in RecordsOf(OldStack, id)
    <2>1. r[1] \in Paths /\ r = <<r[1], r[2]>> /\ <<id, r[2]>> \in input.project[r[1]].defs
      BY StacksTyped, RecordsAre
    <2>2. <<id, r[2]>> \in OldStack[r[1]].defs
      BY <2>1, HasIsThere
    <2>3. <<r[1], r[2]>> \in RecordsOf(OldStack, id)
      BY <2>1, <2>2, StacksTyped, RecordsAre
    <2> QED
      BY <2>1, <2>3
  <1> QED
    BY <1>1, <1>2 DEF Ambiguous

\* What a file merged of objects has of one that every layer has once.
LEMMA MergedObjectIs ==
    ASSUME BuiltAsPlanned, NEW id, SingleInEveryLayer(id), NEW p \in Paths,
           input.kind = "jomini", Candidate(input, p).conflicts = {}
    PROVE  /\ \A content : <<id, content>> \in input.project[p].defs
                => Becomes(input, p, id, ProjectRecord(RecordsOf(input.base, id), content,
                                                       RecordsOf(input.target, id)))
           /\ \A content : <<id, content>> \in input.base[p].defs /\ id \notin Ids(input.project[p].defs)
                => Becomes(input, p, id, RemovedRecord(p, content, RecordsOf(input.target, id)))
           /\ id \notin Ids(input.project[p].defs \cup input.base[p].defs)
                => Becomes(input, p, id, Leave)
  <1>1. ASSUME NEW layer \in {input.base, input.project}
        PROVE  \A c \in layer[p].defs : \A d \in layer[p].defs : c[1] = id /\ d[1] = id => c = d
    <2>1. layer \in [Paths -> Files] /\ ~Ambiguous(RecordsOf(layer, id))
      BY StacksTyped, SingleLayers
    <2>2. \A c \in layer[p].defs : c = <<c[1], c[2]>>
      BY <2>1, OfFile
    <2>3. \A x, y : <<id, x>> \in layer[p].defs /\ <<id, y>> \in layer[p].defs => x = y
      BY <2>1, UniqueRecord
    <2> QED
      BY <2>2, <2>3
  <1>2. mergeJominiThreeWay(input, p).conflicts = {}
    BY DEF Candidate
  <1> QED
    BY <1>1, <1>2, MergeBecomes DEF BuiltAsPlanned

\* An object of the new load stack is where the target or the project has it, once.
LEMMA NewRecordFrom ==
    ASSUME BuiltAsPlanned, input.kind # "localization", NEW id, SingleInEveryLayer(id),
           NEW p \in Paths, NEW x, <<id, x>> \in NewStack[p].defs
    PROVE  /\ <<id, x>> \in input.target[p].defs \/ id \in Ids(input.project[p].defs)
           /\ \A y : <<id, y>> \in NewStack[p].defs => y = x
  <1>1. ASSUME NEW layer \in {input.base, input.project, input.target},
               NEW y, NEW z, <<id, y>> \in layer[p].defs, <<id, z>> \in layer[p].defs
        PROVE  y = z
    BY <1>1, StacksTyped, SingleLayers, UniqueRecord
  <1>2. CASE Inherited(p)
    BY <1>1, <1>2, HasIsThere DEF Inherited
  <1>3. CASE KeptFile(p)
    <2>1. id \in Ids(input.project[p].defs)
      BY <1>3 DEF KeptFile, Ids
    <2> QED
      BY <1>1, <1>3, <2>1 DEF KeptFile
  <1>4. CASE MergedFile(p)
    <2>1. /\ input.kind = "jomini" /\ Candidate(input, p).conflicts = {}
          /\ NewStack[p].defs = mergeJominiThreeWay(input, p).defs
      BY <1>4, HasIsThere DEF MergedFile, Candidate, Present
    <2>2. CASE id \in Ids(input.project[p].defs)
      <3>1. PICK d \in input.project[p].defs : d[1] = id
        BY <2>2 DEF Ids
      <3> DEFINE put == ProjectRecord(RecordsOf(input.base, id), d[2], RecordsOf(input.target, id))
      <3>2. d[2] \in Contents /\ d = <<id, d[2]>>
        BY <3>1, InputTypes, OfFile DEF BuiltAsPlanned
      <3>3. Becomes(input, p, id, put)
        BY <2>1, <3>2, MergedObjectIs
      <3>4. \A y, z \in put.new : y = z
        BY <3>2, OnePut
      <3> HIDE DEF put
      <3> QED
        BY <1>1, <2>1, <2>2, <3>3, <3>4 DEF Becomes
    <2>3. CASE id \notin Ids(input.project[p].defs)
      <3>1. \A y : <<id, y>> \in NewStack[p].defs => <<id, y>> \in input.target[p].defs
        <4>1. CASE id \in Ids(input.base[p].defs)
          <5>1. PICK d \in input.base[p].defs : d[1] = id
            BY <4>1 DEF Ids
          <5>2. d = <<id, d[2]>>
            BY <5>1, InputTypes, OfFile DEF BuiltAsPlanned
          <5>3. Becomes(input, p, id, RemovedRecord(p, d[2], RecordsOf(input.target, id)))
            BY <2>1, <2>3, <5>2, MergedObjectIs
          <5> QED
            BY <2>1, <5>3, RemovedRecordTyped DEF Becomes
        <4>2. CASE id \notin Ids(input.base[p].defs)
          <5>1. id \notin Ids(input.project[p].defs \cup input.base[p].defs)
            BY <2>3, <4>2 DEF Ids
          <5>2. Becomes(input, p, id, Leave)
            BY <2>1, <5>1, MergedObjectIs
          <5> QED
            BY <2>1, <5>2 DEF Becomes, Leave
        <4> QED
          BY <4>1, <4>2
      <3> QED
        BY <1>1, <3>1
    <2> QED
      BY <2>2, <2>3
  <1> QED
    BY <1>2, <1>3, <1>4, NewFile

\* Where the target has an object the project's copy elsewhere is not loaded.
LEMMA NotElsewhere ==
    ASSUME BuiltAsPlanned, input.kind # "localization", NEW id \in Objects,
           SingleInEveryLayer(id), ~MovedUnasked(id),
           NEW p \in Paths, NEW x, <<id, x>> \in input.target[p].defs,
           NEW q \in Paths, q # p, NEW c, <<id, c>> \in input.project[q].defs,
           NEW y, <<id, y>> \in NewStack[q].defs
    PROVE  FALSE
  <1> DEFINE base == RecordsOf(input.base, id)
             project == RecordsOf(input.project, id)
             target == RecordsOf(input.target, id)
  <1> USE StacksTyped, SingleLayers
  <1>1. project = {<<q, c>>} /\ PathOf(project) = q
    BY UniqueRecord
  <1>2. target = {<<p, x>>} /\ PathOf(target) = p
    BY UniqueRecord
  <1>3. <<id, c>> \in OldStack[q].defs
    BY HasIsThere
  <1>4. /\ RecordsOf(OldStack, id) # {} /\ PathOf(RecordsOf(OldStack, id)) = q
        /\ ContentOf(RecordsOf(OldStack, id)) = c
    <2>1. OldStack \in [Paths -> Files] /\ ~Ambiguous(RecordsOf(OldStack, id))
      OBVIOUS
    <2>2. /\ RecordsOf(OldStack, id) = {<<q, c>>}
          /\ PathOf(RecordsOf(OldStack, id)) = q /\ ContentOf(RecordsOf(OldStack, id)) = c
      BY <1>3, <2>1, UniqueRecord
    <2> QED
      BY <2>2
  <1>5. Unique(base) /\ PathOf(base) = q
    BY <1>1, <1>2 DEF BuiltAsPlanned, Settled
  <1>6. PICK r \in base : TRUE
    BY <1>5 DEF Unique
  <1> DEFINE b == r[2]
  <1>7. r[1] \in Paths /\ <<id, b>> \in input.base[r[1]].defs
    BY <1>6, RecordsAre
  <1>8. r[1] = q /\ ContentOf(base) = b
    BY <1>5, <1>7, UniqueRecord
  <1>9. c = b /\ ~(q \in input.owned /\ input.project[q] = input.base[q])
    BY <1>1, <1>2, <1>4, <1>5, <1>6, <1>8 DEF MovedUnasked
  <1>10. \A z : <<id, z>> \notin input.target[q].defs
    BY UniqueRecord
  <1>11. CASE Inherited(q)
    BY <1>10, <1>11, HasIsThere DEF Inherited
  <1>12. CASE KeptFile(q)
    <2>1. input.base[q].there
      BY <1>7, <1>8, HasIsThere
    <2>2. input.target[q] # input.base[q] /\ input.project[q] # input.target[q]
      BY <1>7, <1>8, <1>10
    <2> QED
      BY <1>9, <1>12, <2>1, <2>2 DEF KeptFile, Kept
  <1>13. CASE MergedFile(q)
    <2>1. /\ input.kind = "jomini" /\ Candidate(input, q).conflicts = {}
          /\ NewStack[q].defs = mergeJominiThreeWay(input, q).defs
      BY <1>13, HasIsThere DEF MergedFile, Candidate, Present
    <2>2. Becomes(input, q, id, ProjectRecord(base, c, target))
      BY <2>1, MergedObjectIs
    <2>3. ProjectRecord(base, c, target) = Leave
      <3>1. ~Ambiguous(base) /\ ~Ambiguous(target) /\ base # {} /\ c = ContentOf(base)
        BY <1>5, <1>8, <1>9 DEF Unique
      <3> HIDE DEF base, target
      <3> QED
        BY <3>1 DEF ProjectRecord
    <2> QED
      BY <1>10, <2>1, <2>2, <2>3 DEF Becomes, Leave
  <1> QED
    BY <1>11, <1>12, <1>13, NewFile

LEMMA OneOwnerOf ==
    ASSUME BuiltAsPlanned, input.kind # "localization", NEW id \in Objects,
           SingleInEveryLayer(id), ~MovedUnasked(id)
    PROVE  ~Ambiguous(RecordsOf(NewStack, id))
  <1> SUFFICES ASSUME NEW r \in RecordsOf(NewStack, id), NEW s \in RecordsOf(NewStack, id)
               PROVE  r = s
    BY DEF Ambiguous
  <1>1. \A t \in {r, s} : t[1] \in Paths /\ t = <<t[1], t[2]>> /\ <<id, t[2]>> \in NewStack[t[1]].defs
    <2>1. NewStack \in [Paths -> Files]
      BY StacksTyped
    <2> QED
      BY <2>1, RecordsAre
  <1>2. CASE r[1] = s[1]
    BY <1>1, <1>2, NewRecordFrom
  <1>3. CASE r[1] # s[1]
    <2>1. \A t \in {r, s} : \/ <<id, t[2]>> \in input.target[t[1]].defs
                            \/ \E c : <<id, c>> \in input.project[t[1]].defs
      <3>1. \A p \in Paths : id \in Ids(input.project[p].defs)
                             => \E c : <<id, c>> \in input.project[p].defs
        <4>1. \A p \in Paths : \A d \in input.project[p].defs : d = <<d[1], d[2]>>
          BY InputTypes, OfFile DEF BuiltAsPlanned
        <4>2. SUFFICES ASSUME NEW p \in Paths, NEW d \in input.project[p].defs, d[1] = id
                       PROVE  \E c : <<id, c>> \in input.project[p].defs
          BY DEF Ids
        <4>3. <<id, d[2]>> \in input.project[p].defs
          BY <4>1, <4>2
        <4> QED
          BY <4>3
      <3> QED
        BY <1>1, <3>1, NewRecordFrom
    <2>2. ~(<<id, r[2]>> \in input.target[r[1]].defs /\ <<id, s[2]>> \in input.target[s[1]].defs)
      BY <1>1, <1>3, StacksTyped, SingleLayers, UniqueRecord
    <2>3. ~(\E c, d : <<id, c>> \in input.project[r[1]].defs /\ <<id, d>> \in input.project[s[1]].defs)
      BY <1>1, <1>3, StacksTyped, SingleLayers, UniqueRecord
    <2> QED
      BY <1>1, <1>3, <2>1, <2>2, <2>3, NotElsewhere
  <1> QED
    BY <1>2, <1>3

(***************************************************************************)
(* For any inputs: a migration that asks nothing defines no object twice   *)
(* in the new load stack, but in the one way MovesAreAsked shows.          *)
(***************************************************************************)
THEOREM OneOwnerHolds == Spec => []OneOwner
  <1>1. Spec => []IInv
    BY InitIInv, NextIInv, PTL DEF Spec
  <1>2. Spec => []TypeInv
    BY <1>1, InitTypeInv, NextTypeInv, PTL DEF Spec
  <1>3. Spec => []PlanInv
    BY <1>2, InitPlanInv, NextPlanInv, PTL DEF Spec
  <1>4. TypeInv /\ PlanInv => OneOwner
    BY UnaskedIsPlanned, OneOwnerOf DEF OneOwner
  <1> QED
    BY <1>2, <1>3, <1>4, PTL

-----------------------------------------------------------------------------
(***************************************************************************)
(* The value of an object that no layer has at another path.               *)
(***************************************************************************)
LEMMA ValueOfIs ==
    ASSUME NEW file \in Files, NEW id,
           \A x, y : <<id, x>> \in file.defs /\ <<id, y>> \in file.defs => x = y
    PROVE  /\ \A x : <<id, x>> \in file.defs => ValueOf(file, id) = x
           /\ (\A x : <<id, x>> \notin file.defs) => ValueOf(file, id) = Absent
           /\ ValueOf(file, id) = Absent \/ <<id, ValueOf(file, id)>> \in file.defs
  <1>1. \A d \in Of(file.defs, id) : d = <<id, d[2]>> /\ d \in file.defs
    BY OfFile DEF Of
  <1>2. ASSUME NEW x, <<id, x>> \in file.defs
        PROVE  ValueOf(file, id) = x
    <2>1. <<id, x>> \in Of(file.defs, id)
      BY <1>2 DEF Of
    <2>2. \A d \in Of(file.defs, id) : d = <<id, x>>
      BY <1>1, <1>2
    <2> DEFINE chosen == CHOOSE d \in Of(file.defs, id) : TRUE
    <2>3. chosen = <<id, x>>
      BY <2>1, <2>2
    <2>4. ValueOf(file, id) = chosen[2]
      BY <2>1 DEF ValueOf
    <2> HIDE DEF chosen
    <2> QED
      BY <2>3, <2>4
  <1>3. ASSUME \A x : <<id, x>> \notin file.defs
        PROVE  ValueOf(file, id) = Absent
    <2>1. Of(file.defs, id) = {}
      BY <1>1, <1>3
    <2> QED
      BY <2>1 DEF ValueOf
  <1> QED
    BY <1>2, <1>3

\* All records of an object in a layer are at one path.
OnlyAt(layer, id, p) == \A r \in RecordsOf(layer, id) : r[1] = p

LEMMA ValueInIs ==
    ASSUME NEW layer \in [Paths -> Files], NEW id, NEW p \in Paths,
           OnlyAt(layer, id, p), ~Ambiguous(RecordsOf(layer, id))
    PROVE  ValueIn(layer, id) = ValueOf(layer[p], id)
  <1>1. \A x, y : <<id, x>> \in layer[p].defs /\ <<id, y>> \in layer[p].defs => x = y
    BY UniqueRecord
  <1>2. CASE RecordsOf(layer, id) = {}
    <2>1. \A x : <<id, x>> \notin layer[p].defs
      BY <1>2, RecordsAre
    <2> QED
      BY <1>1, <1>2, <2>1, ValueOfIs DEF ValueIn
  <1>3. CASE RecordsOf(layer, id) # {}
    <2>1. PICK r \in RecordsOf(layer, id) : TRUE
      BY <1>3
    <2>2. <<id, r[2]>> \in layer[p].defs
      BY <2>1, RecordsAre DEF OnlyAt
    <2>3. ContentOf(RecordsOf(layer, id)) = r[2]
      BY <2>2, UniqueRecord
    <2>4. ValueOf(layer[p], id) = r[2]
      BY <1>1, <2>2, ValueOfIs
    <2> QED
      BY <1>3, <2>3, <2>4 DEF ValueIn
  <1> QED
    BY <1>2, <1>3

\* A merged localization file has a key once, and only keys of the layers.
LEMMA LocalizationOnce ==
    ASSUME NEW base, NEW project, NEW target, NEW id,
           mergeLocalizationThreeWay(base, project, target).conflicts = {},
           NEW x, <<id, x>> \in mergeLocalizationThreeWay(base, project, target).defs
    PROVE  /\ id \in Ids(base.defs \cup project.defs \cup target.defs)
           /\ \A y : <<id, y>> \in mergeLocalizationThreeWay(base, project, target).defs => y = x
  <1> DEFINE keys == Ids(base.defs \cup project.defs \cup target.defs)
             merged(k) == MergedKey(base, project, target, k)
             defs == UNION {{<<k, v>> : v \in merged(k) \ {Absent}} : k \in keys}
  <1>1. mergeLocalizationThreeWay(base, project, target).defs = defs
    BY DEF mergeLocalizationThreeWay
  <1>2. \A v, w \in merged(id) : v = w
    BY DEF MergedKey, mergePlainThreeWay
  <1>3. \A y : <<id, y>> \in defs => id \in keys /\ y \in merged(id)
    <2> HIDE DEF keys, merged
    <2> QED
      OBVIOUS
  <1> HIDE DEF defs, merged
  <1> QED
    BY <1>1, <1>2, <1>3

LEMMA LocalizationCandidate ==
    ASSUME NEW in, NEW p, in.kind = "localization", Candidate(in, p).conflicts = {}
    PROVE  LET merged == mergeLocalizationThreeWay(in.base[p], in.project[p], in.target[p])
           IN merged.conflicts = {} /\ Candidate(in, p).defs = merged.defs
  <1> DEFINE merged == mergeLocalizationThreeWay(in.base[p], in.project[p], in.target[p])
  <1>1. Candidate(in, p) = [merged EXCEPT !.conflicts = {<<"localization_conflict", k>> : k \in @}]
    BY DEF Candidate
  <1>2. merged = [conflicts |-> merged.conflicts, defs |-> merged.defs]
    BY DEF mergeLocalizationThreeWay
  <1> HIDE DEF merged
  <1>3. Candidate(in, p).conflicts = {<<"localization_conflict", k>> : k \in merged.conflicts}
        /\ Candidate(in, p).defs = merged.defs
    BY <1>1, <1>2
  <1>4. merged.conflicts = {}
    BY <1>3
  <1> QED
    BY <1>3, <1>4 DEF merged

\* Where no layer has an object, the new load stack has not either.
LEMMA NothingNew ==
    ASSUME BuiltAsPlanned, NEW id, SingleInEveryLayer(id), NEW p \in Paths,
           \A layer \in Layers : \A x : <<id, x>> \notin layer[p].defs
    PROVE  \A x : <<id, x>> \notin NewStack[p].defs
  <1> SUFFICES ASSUME NEW x, <<id, x>> \in NewStack[p].defs PROVE FALSE
    OBVIOUS
  <1>1. \A layer \in {input.base, input.project, input.target} : \A y : <<id, y>> \notin layer[p].defs
    BY HasIsThere DEF Layers
  <1>2. \A layer \in {input.base, input.project, input.target} : id \notin Ids(layer[p].defs)
    <2>1. \A layer \in {input.base, input.project, input.target} :
            \A d \in layer[p].defs : d = <<d[1], d[2]>>
      BY InputTypes, OfFile DEF BuiltAsPlanned
    <2> QED
      BY <1>1, <2>1 DEF Ids
  <1>3. CASE input.kind # "localization"
    BY <1>1, <1>2, <1>3, NewRecordFrom
  <1>4. CASE input.kind = "localization"
    <2> DEFINE merged == mergeLocalizationThreeWay(input.base[p], input.project[p], input.target[p])
    <2>1. CASE Inherited(p) \/ KeptFile(p)
      BY <1>1, <2>1, HasIsThere DEF Inherited, KeptFile
    <2>2. CASE MergedFile(p)
      <3>1. merged.conflicts = {} /\ NewStack[p].defs = merged.defs
        BY <1>4, <2>2, LocalizationCandidate, HasIsThere DEF MergedFile, Present
      <3>2. id \in Ids(input.base[p].defs \cup input.project[p].defs \cup input.target[p].defs)
        BY <3>1, LocalizationOnce
      <3> QED
        BY <1>2, <3>2 DEF Ids
    <2> QED
      BY <2>1, <2>2, NewFile
  <1> QED
    BY <1>3, <1>4

\* The content of the only record of an object is its value at its path.
LEMMA ValueIsContent ==
    ASSUME BuiltAsPlanned, NEW id, SingleInEveryLayer(id), NEW p \in Paths,
           NEW layer \in Layers, OnlyAt(layer, id, p)
    PROVE  LET records == RecordsOf(layer, id)
               value == ValueOf(layer[p], id)
           IN IF records = {} THEN value = Absent
              ELSE /\ value = ContentOf(records) /\ value \in Contents
                   /\ <<id, value>> \in layer[p].defs /\ PathOf(records) = p
  <1>1. layer \in [Paths -> Files] /\ ~Ambiguous(RecordsOf(layer, id))
    BY StacksTyped DEF Layers, SingleInEveryLayer
  <1>2. ValueIn(layer, id) = ValueOf(layer[p], id)
    BY <1>1, ValueInIs
  <1>3. CASE RecordsOf(layer, id) = {}
    BY <1>2, <1>3 DEF ValueIn
  <1>4. CASE RecordsOf(layer, id) # {}
    <2>1. PICK r \in RecordsOf(layer, id) : TRUE
      BY <1>4
    <2>2. <<id, r[2]>> \in layer[p].defs
      BY <1>1, <2>1, RecordsAre DEF OnlyAt
    <2>3. PathOf(RecordsOf(layer, id)) = p /\ ContentOf(RecordsOf(layer, id)) = r[2]
      BY <1>1, <2>2, UniqueRecord
    <2>4. r[2] \in Contents
      BY <1>1, <2>2, OfFile
    <2>5. ValueOf(layer[p], id) = r[2]
      BY <1>2, <1>4, <2>3 DEF ValueIn
    <2> QED
      BY <1>4, <2>2, <2>3, <2>4, <2>5
  <1> QED
    BY <1>3, <1>4

\* What ProjectRecord and RemovedRecord put is the merge of the three values.
LEMMA PutIsMerged ==
    ASSUME input.kind = "jomini", NEW p, NEW content \in Contents,
           NEW B, NEW T, ~Ambiguous(B), ~Ambiguous(T),
           NEW b, IF B = {} THEN b = Absent ELSE b = ContentOf(B) /\ b \in Contents,
           NEW t, IF T = {} THEN t = Absent ELSE t = ContentOf(T) /\ t \in Contents
    PROVE  LET put == ProjectRecord(B, content, T)
           IN put.code = "merged" =>
                /\ put.changed => put.new \subseteq MergedValues(b, content, t) /\ put.new # {}
                /\ ~put.changed => t \in MergedValues(b, content, t)
  <1> USE AbsentAssumption
  <1> DEFINE put == ProjectRecord(B, content, T)
  <1>1. CASE B = {}
    <2>1. CASE T = {}
      <3>1. put = Put({content})
        BY <1>1, <2>1 DEF ProjectRecord, Ambiguous
      <3>2. MergedValues(b, content, t) = {content}
        BY <1>1, <2>1 DEF MergedValues, ThreeWay
      <3> QED
        BY <3>1, <3>2 DEF Put
    <2>2. CASE T # {} /\ content = t
      <3>1. put = Leave
        BY <1>1, <2>2 DEF ProjectRecord
      <3>2. t \in MergedValues(b, content, t)
        BY <1>1, <2>2 DEF MergedValues, ThreeWay
      <3> QED
        BY <3>1, <3>2 DEF Leave
    <2>3. CASE T # {} /\ content # t
      BY <1>1, <2>3 DEF ProjectRecord, Ask
    <2> QED
      BY <2>1, <2>2, <2>3
  <1>2. CASE B # {} /\ content = b
    <2>1. put = Leave
      BY <1>2 DEF ProjectRecord
    <2>2. t \in MergedValues(b, content, t)
      BY <1>2 DEF MergedValues, ThreeWay
    <2> QED
      BY <2>1, <2>2 DEF Leave
  <1>3. CASE B # {} /\ content # b /\ T = {}
    BY <1>3 DEF ProjectRecord, Ask
  <1>4. CASE B # {} /\ content # b /\ T # {}
    <2> DEFINE merged == MergedObject(b, content, t)
    <2>1. put = IF merged = {} THEN Ask("semantic_field_conflict") ELSE Put(merged)
      BY <1>4 DEF ProjectRecord
    <2>2. merged \subseteq MergedValues(b, content, t)
      <3>1. CASE t = b \/ content = t
        <4>1. merged = {content}
          BY <3>1 DEF MergedObject
        <4>2. content \in MergedValues(b, content, t)
          BY <1>4, <3>1 DEF MergedValues, ThreeWay
        <4> QED
          BY <4>1, <4>2
      <3>2. CASE t # b /\ content # t
        <4>1. merged = mergeJominiObject(b, content, t)
          BY <3>2 DEF MergedObject
        <4>2. merged = ThreeWayObject(b, content, t)
          BY <1>4, <4>1, ObjectIsThreeWay
        <4>3. ThreeWay(b, content, t) = {}
          BY <1>4, <3>2 DEF ThreeWay
        <4>4. MergedValues(b, content, t) = ThreeWayObject(b, content, t)
          BY <1>4, <4>3 DEF MergedValues
        <4> QED
          BY <4>2, <4>4
      <3> QED
        BY <3>1, <3>2
    <2> HIDE DEF merged
    <2> QED
      BY <2>1, <2>2 DEF Ask, Put
  <1> QED
    BY <1>1, <1>2, <1>3, <1>4

\* The value of an object in the file of a path is the merge of the layers' values.
LEMMA FileValue ==
    ASSUME BuiltAsPlanned, NEW id, SingleInEveryLayer(id), NEW p \in Paths,
           p \notin input.owned \cup input.replaced,
           \A layer \in Layers : OnlyAt(layer, id, p)
    PROVE  /\ \A x, y : <<id, x>> \in NewStack[p].defs /\ <<id, y>> \in NewStack[p].defs => x = y
           /\ ValueOf(NewStack[p], id)
                \in MergedValues(ValueOf(input.base[p], id), ValueOf(OldStack[p], id),
                                 ValueOf(input.target[p], id))
  <1> DEFINE b == ValueOf(input.base[p], id)
             o == ValueOf(OldStack[p], id)
             t == ValueOf(input.target[p], id)
             new == ValueOf(NewStack[p], id)
             OneIn(file) == \A x, y : <<id, x>> \in file.defs /\ <<id, y>> \in file.defs => x = y
  <1>1. /\ {input.base[p], OldStack[p], input.project[p], input.target[p], NewStack[p]} \subseteq Files
        /\ OneIn(input.base[p]) /\ OneIn(OldStack[p]) /\ OneIn(input.target[p])
    BY StacksTyped, SingleLayers, UniqueRecord
  <1>2. ASSUME NEW v, v \in ThreeWay(b, o, t)
        PROVE  v \in MergedValues(b, o, t)
    BY <1>2 DEF MergedValues
  <1>3. CASE Inherited(p)
    <2>1. NewStack[p] = input.target[p]
      BY <1>3 DEF Inherited
    <2>2. OldStack[p] \in {input.base[p], input.target[p]}
      BY <1>3 DEF Inherited, OldStack, Loaded
    <2>3. t \in ThreeWay(b, o, t)
      BY <2>2 DEF ThreeWay
    <2> QED
      BY <1>1, <1>2, <2>1, <2>3
  <1>4. CASE KeptFile(p)
    <2>1. NewStack[p] = OldStack[p]
      BY <1>4 DEF KeptFile, OldStack, Loaded
    <2>2. \/ input.base[p] = input.target[p]
          \/ OldStack[p] = input.target[p]
      <3>1. ~input.base[p].there /\ ~input.target[p].there => input.base[p] = input.target[p]
        BY InputsAssumption DEF BuiltAsPlanned
      <3> QED
        BY <1>4, <3>1 DEF KeptFile, Kept, OldStack, Loaded
    <2>3. o \in ThreeWay(b, o, t)
      BY <2>2 DEF ThreeWay
    <2> QED
      BY <1>1, <1>2, <2>1, <2>3
  <1>5. CASE MergedFile(p)
    <2>1. NewStack[p] = Present(Candidate(input, p).defs) /\ OldStack[p] = input.project[p]
      BY <1>5 DEF MergedFile, OldStack, Loaded
    <2>2. CASE input.kind = "localization"
      <3> DEFINE merged == mergeLocalizationThreeWay(input.base[p], input.project[p], input.target[p])
      <3>1. merged.conflicts = {} /\ NewStack[p] = Present(merged.defs)
        BY <1>5, <2>1, <2>2, LocalizationCandidate DEF MergedFile
      <3>2. new \in ThreeWay(b, o, t)
        BY <2>1, <3>1, LocalizationIsThreeWay
      <3>3. OneIn(NewStack[p])
        <4>1. NewStack[p].defs = merged.defs
          BY <3>1 DEF Present
        <4> QED
          BY <3>1, <4>1, LocalizationOnce
      <3> QED
        BY <1>2, <3>2, <3>3
    <2>3. CASE input.kind = "jomini"
      <3> DEFINE B == RecordsOf(input.base, id)
                 T == RecordsOf(input.target, id)
                 P == RecordsOf(input.project, id)
      <3>1. NewStack[p].defs = mergeJominiThreeWay(input, p).defs
        BY <2>1, <2>3 DEF Present, Candidate
      <3>2. OneIn(NewStack[p])
        BY <2>3, NewRecordFrom
      <3>3. /\ \A x : <<id, x>> \in NewStack[p].defs => new = x
            /\ (\A x : <<id, x>> \notin NewStack[p].defs) => new = Absent
        BY <1>1, <3>2, ValueOfIs
      <3>4. /\ \A x : <<id, x>> \in input.target[p].defs => t = x
            /\ (\A x : <<id, x>> \notin input.target[p].defs) => t = Absent
            /\ t = Absent \/ <<id, t>> \in input.target[p].defs
        BY <1>1, ValueOfIs
      <3>5. ~Ambiguous(B) /\ ~Ambiguous(T)
        BY SingleLayers
      <3>6. IF B = {} THEN b = Absent ELSE b = ContentOf(B) /\ b \in Contents /\ <<id, b>> \in input.base[p].defs
        BY ValueIsContent DEF Layers
      <3>7. IF T = {} THEN t = Absent
            ELSE t = ContentOf(T) /\ t \in Contents /\ PathOf(T) = p
        BY ValueIsContent DEF Layers
      <3>8. ASSUME NEW put, Becomes(input, p, id, put), ~put.changed
            PROVE  new = t
        BY <3>1, <3>3, <3>4, <3>8 DEF Becomes
      <3>9. CASE \E x : <<id, x>> \in input.project[p].defs
        <4>1. PICK c : <<id, c>> \in input.project[p].defs
          BY <3>9
        <4>2. c = o /\ c \in Contents
          BY <1>1, <2>1, <4>1, ValueOfIs, OfFile
        <4> DEFINE put == ProjectRecord(B, c, T)
        <4>3. Becomes(input, p, id, put)
          BY <1>5, <2>3, <4>1, MergedObjectIs DEF MergedFile
        <4>4. put.code = "merged"
          BY <4>3 DEF Becomes
        <4>5. /\ put.changed => put.new \subseteq MergedValues(b, c, t) /\ put.new # {}
              /\ ~put.changed => t \in MergedValues(b, c, t)
          BY <2>3, <3>5, <3>6, <3>7, <4>2, <4>4, PutIsMerged
        <4>6. CASE put.changed
          <5>1. PICK x \in put.new : TRUE
            BY <4>5, <4>6
          <5>2. <<id, x>> \in NewStack[p].defs
            BY <3>1, <4>3, <4>6, <5>1 DEF Becomes
          <5>3. new = x
            BY <3>3, <5>2
          <5> QED
            BY <3>2, <4>2, <4>5, <4>6, <5>1, <5>3
        <4>7. CASE ~put.changed
          BY <3>2, <3>8, <4>2, <4>3, <4>5, <4>7
        <4> QED
          BY <4>6, <4>7
      <3>10. CASE \A x : <<id, x>> \notin input.project[p].defs
        <4>1. o = Absent /\ id \notin Ids(input.project[p].defs)
          <5>1. o = Absent
            BY <1>1, <2>1, <3>10, ValueOfIs
          <5>2. \A d \in input.project[p].defs : d = <<d[1], d[2]>>
            BY <1>1, OfFile
          <5> QED
            BY <3>10, <5>1, <5>2 DEF Ids
        <4>2. CASE B = {}
          <5>1. \A x : <<id, x>> \notin input.base[p].defs
            BY <4>2, StacksTyped, RecordsAre
          <5>2. \A d \in input.base[p].defs : d = <<d[1], d[2]>>
            BY <1>1, OfFile
          <5>3. id \notin Ids(input.project[p].defs \cup input.base[p].defs)
            BY <4>1, <5>1, <5>2 DEF Ids
          <5>4. Becomes(input, p, id, Leave)
            BY <1>5, <2>3, <5>3, MergedObjectIs DEF MergedFile
          <5>5. new = t
            BY <3>8, <5>4 DEF Leave
          <5>6. t \in ThreeWay(b, o, t)
            BY <3>6, <4>1, <4>2 DEF ThreeWay
          <5> QED
            BY <1>2, <3>2, <5>5, <5>6
        <4>3. CASE B # {}
          <5> DEFINE put == RemovedRecord(p, b, T)
          <5>1. <<id, b>> \in input.base[p].defs
            BY <3>6, <4>3
          <5>2. Becomes(input, p, id, put)
            BY <1>5, <2>3, <4>1, <5>1, MergedObjectIs DEF MergedFile
          <5>3. put.code = "merged"
            BY <5>2 DEF Becomes
          <5>4. CASE T = {}
            <6>1. put = Leave
              BY <5>4 DEF RemovedRecord
            <6>2. new = t
              BY <3>8, <5>2, <6>1 DEF Leave
            <6>3. t \in ThreeWay(b, o, t)
              BY <3>7, <4>1, <5>4 DEF ThreeWay
            <6> QED
              BY <1>2, <3>2, <6>2, <6>3
          <5>5. CASE T # {}
            <6>1. put = Put({}) /\ t = b
              BY <3>5, <3>7, <5>3, <5>5 DEF RemovedRecord, Ask
            <6>2. \A x : <<id, x>> \notin NewStack[p].defs
              BY <3>1, <5>2, <6>1 DEF Becomes, Put
            <6>3. new = Absent
              BY <3>3, <6>2
            <6>4. new \in ThreeWay(b, o, t)
              BY <4>1, <6>1, <6>3 DEF ThreeWay
            <6> QED
              BY <1>2, <3>2, <6>4
          <5> QED
            BY <5>4, <5>5
        <4> QED
          BY <4>2, <4>3
      <3> QED
        BY <3>9, <3>10
    <2> QED
      BY <1>5, <2>2, <2>3 DEF MergedFile
  <1> QED
    BY <1>3, <1>4, <1>5, NewFile

\* All of the new load stack.
LEMMA MergedOf ==
    ASSUME BuiltAsPlanned, NEW id, SingleInEveryLayer(id),
           LET paths == {record[1] : record \in UNION {RecordsOf(layer, id) : layer \in Layers}}
           IN /\ \A p1, p2 \in paths : p1 = p2
              /\ paths \cap (input.owned \cup input.replaced) = {}
    PROVE  /\ ~Ambiguous(RecordsOf(NewStack, id))
           /\ ValueIn(NewStack, id) \in
                MergedValues(ValueIn(input.base, id), ValueIn(OldStack, id), ValueIn(input.target, id))
  <1> DEFINE found == UNION {RecordsOf(layer, id) : layer \in Layers}
  <1>1. \A layer \in Layers : layer \in [Paths -> Files] /\ ~Ambiguous(RecordsOf(layer, id))
    BY StacksTyped DEF Layers, SingleInEveryLayer
  <1>2. NewStack \in [Paths -> Files]
    BY StacksTyped
  <1>3. ASSUME NEW q \in Paths, \A r \in found : r[1] # q
        PROVE  \A x : <<id, x>> \notin NewStack[q].defs
    <2>1. ASSUME NEW layer \in Layers, NEW x, <<id, x>> \in layer[q].defs PROVE FALSE
      <3>1. <<q, x>> \in RecordsOf(layer, id)
        BY <1>1, <2>1, RecordsAre
      <3>2. <<q, x>> \in found
        BY <3>1
      <3> QED
        BY <1>3, <3>2
    <2> QED
      BY <2>1, NothingNew
  <1>4. \A r \in RecordsOf(NewStack, id) :
          r[1] \in Paths /\ r = <<r[1], r[2]>> /\ <<id, r[2]>> \in NewStack[r[1]].defs
    BY <1>2, RecordsAre
  <1>5. CASE found = {}
    <2>1. RecordsOf(NewStack, id) = {}
      BY <1>3, <1>4, <1>5
    <2>2. \A layer \in Layers : RecordsOf(layer, id) = {}
      BY <1>5
    <2>3. /\ ValueIn(NewStack, id) = Absent /\ ValueIn(input.base, id) = Absent
          /\ ValueIn(OldStack, id) = Absent /\ ValueIn(input.target, id) = Absent
      BY <2>1, <2>2 DEF ValueIn, Layers
    <2>4. Absent \in MergedValues(Absent, Absent, Absent)
      BY DEF MergedValues, ThreeWay
    <2> QED
      BY <2>1, <2>3, <2>4 DEF Ambiguous
  <1>6. CASE found # {}
    <2>1. PICK record \in found : TRUE
      BY <1>6
    <2> DEFINE p == record[1]
    <2>2. p \in Paths
      <3>1. PICK layer \in Layers : record \in RecordsOf(layer, id)
        BY <2>1
      <3> QED
        BY <1>1, <3>1, RecordsAre
    <2>3. (\A r \in found : r[1] = p) /\ p \notin input.owned \cup input.replaced
      BY <2>1
    <2>4. \A layer \in Layers : OnlyAt(layer, id, p)
      BY <2>3 DEF OnlyAt
    <2> HIDE DEF p, found
    <2>5. OnlyAt(NewStack, id, p)
      BY <1>3, <1>4, <2>3 DEF OnlyAt
    <2>6. /\ \A x, y : <<id, x>> \in NewStack[p].defs /\ <<id, y>> \in NewStack[p].defs => x = y
          /\ ValueOf(NewStack[p], id)
               \in MergedValues(ValueOf(input.base[p], id), ValueOf(OldStack[p], id),
                                ValueOf(input.target[p], id))
      BY <2>2, <2>3, <2>4, FileValue
    <2>7. ~Ambiguous(RecordsOf(NewStack, id))
      BY <1>4, <2>5, <2>6 DEF Ambiguous, OnlyAt
    <2>8. \A layer \in Layers : ValueIn(layer, id) = ValueOf(layer[p], id)
      BY <1>1, <2>2, <2>4, ValueInIs
    <2>9. ValueIn(NewStack, id) = ValueOf(NewStack[p], id)
      BY <1>2, <2>2, <2>5, <2>7, ValueInIs
    <2> QED
      BY <2>6, <2>7, <2>8, <2>9 DEF Layers
  <1> QED
    BY <1>5, <1>6

(***************************************************************************)
(* For any inputs: a migration that asks nothing makes of every object     *)
(* that no layer has elsewhere what the three-way merge makes of it.       *)
(***************************************************************************)
THEOREM MergesObjectsHolds == Spec => []MergesObjects
  <1>1. Spec => []IInv
    BY InitIInv, NextIInv, PTL DEF Spec
  <1>2. Spec => []TypeInv
    BY <1>1, InitTypeInv, NextTypeInv, PTL DEF Spec
  <1>3. Spec => []PlanInv
    BY <1>2, InitPlanInv, NextPlanInv, PTL DEF Spec
  <1>4. TypeInv /\ PlanInv => MergesObjects
    BY UnaskedIsPlanned, MergedOf DEF MergesObjects
  <1> QED
    BY <1>2, <1>3, <1>4, PTL
=============================================================================
