--------------------------- MODULE RebasePlanning ---------------------------
(***************************************************************************)
(* The plan, the review and the build of a migration (internal/migrator/   *)
(* rebase_plan.go, rebase_semantic.go, rebase_cross_file.go,               *)
(* rebase_review.go, rebase_resolution.go, BuildRebase).                   *)
(*                                                                         *)
(* An input gives each of the three layers a file at every path, the kind  *)
(* of its files, and the paths that are owned by the project or under a    *)
(* replace_path of it.  The plan decides about every path and stops with   *)
(* conflicts where it must not guess; a reviewer uploads files and answers *)
(* conflicts in the browser; a build turns decisions and answers into the  *)
(* overlay.  Reviewer and build exclude each other by the transaction's    *)
(* lock (RebaseLock), but a build may fail or be killed after every write, *)
(* and the reviewer may come back before it is resumed.                    *)
(***************************************************************************)
EXTENDS RebaseMerge, Integers, Sequences, Functions

CONSTANTS
    Paths,
    ObjectOrder,    \* the objects in the order of their ids
    Inputs,         \* the inputs to plan
    ManualFiles,    \* what a reviewer may upload
    Reviewed,       \* bound: the inputs whose conflicts a reviewer answers
    MaxReviews,     \* bound: uploads and posts of the reviewer
    None

\* The ids of all layers are sorted.
ASSUME OrderAssumption == ObjectOrder \in Seq(Objects) /\ Objects \subseteq Range(ObjectOrder)
ASSUME ReviewAssumption == ManualFiles \subseteq Files /\ MaxReviews \in Nat
ASSUME NoneAssumption == None \notin [Paths -> Files]
ASSUME InputsAssumption ==
    \A in \in Inputs :
        /\ \A layer \in {in.base, in.project, in.target} :
             layer \in [Paths -> Files] /\ \A p \in Paths : layer[p].there \/ layer[p] = NoFile
        /\ in.kind \in {"jomini", "unlisted", "localization"}
        /\ in.owned \subseteq Paths /\ in.replaced \subseteq Paths

VARIABLES
    input,          \* the sources, which are checked to be as planned
    status,         \* status and phase of the manifest
    unchecked,      \* the objects the plan has still to look for in all files
    journal,        \* the decisions
    idOrder,        \* the rank of the id of every cross-file conflict, from the last
    manual,         \* the uploaded files
    resolutions,    \* the saved answers
    accepted,       \* the answers in the manifest
    output,         \* the published overlay
    reviews         \* uploads and posts so far

vars == <<input, status, unchecked, journal, idOrder, manual, resolutions, accepted, output, reviews>>

-----------------------------------------------------------------------------
\* The conflicts of a plan.  Allowed answers that need a new plan are left out.
Ordinary == {"keep_project", "use_target", "manual"}

Conflict(code, path, id, allowed) ==
    [code |-> code, path |-> path, id |-> id, allowed |-> allowed, counterpart |-> None]

IsMove(conflict) == conflict.code = "semantic_cross_file_move_conflict"

\* A decision is safe unless its action is "conflict".
Decide(action, result) == [action |-> action, result |-> result, conflicts |-> {}]
Stop(conflicts) == [action |-> "conflict", result |-> NoFile, conflicts |-> conflicts]

-----------------------------------------------------------------------------
(***************************************************************************)
(* The merge of a file of objects.  Records of an id are found in the      *)
(* whole layer: none, one, or more than one, which is ambiguous.           *)
(***************************************************************************)
RecordsOf(layer, id) == UNION {{<<p, d[2]>> : d \in Of(layer[p].defs, id)} : p \in Paths}
PathOf(records) == (CHOOSE record \in records : TRUE)[1]
ContentOf(records) == (CHOOSE record \in records : TRUE)[2]
Ambiguous(records) == \E r, s \in records : r # s
Unique(records) == records # {} /\ ~Ambiguous(records)

\* What becomes of an object of the target's file: "merged", or a conflict's code.
Leave == [code |-> "merged", changed |-> FALSE, new |-> {}]
Ask(code) == [code |-> code, changed |-> FALSE, new |-> {}]
Put(contents) == [code |-> "merged", changed |-> TRUE, new |-> contents]

MergedObject(base, project, target) ==
    IF target = base \/ project = target THEN {project}
    ELSE mergeJominiObject(base, project, target)

\* An object of the project's file; base and target are its records there.
ProjectRecord(base, content, target) ==
    IF Ambiguous(base) \/ Ambiguous(target) THEN Ask("semantic_ambiguous_identity")
    ELSE IF base = {} THEN
        IF target = {} THEN Put({content})
        ELSE IF content = ContentOf(target) THEN Leave ELSE Ask("semantic_add_conflict")
    ELSE IF content = ContentOf(base) THEN Leave
    ELSE IF target = {} THEN Ask("semantic_delete_modify_conflict")
    ELSE LET merged == MergedObject(ContentOf(base), content, ContentOf(target))
         IN IF merged = {} THEN Ask("semantic_field_conflict") ELSE Put(merged)

\* Fault: an object the target changed is removed with the project's deletion.
RemovedRecordAnyway(p, content, target) ==
    IF target = {} THEN Leave
    ELSE IF Ambiguous(target) THEN Ask("semantic_ambiguous_identity")
    ELSE IF PathOf(target) # p THEN Ask("semantic_move_delete_conflict")
    ELSE Put({})

\* An object the base's file at p has and the project's has not.
RemovedRecord(p, content, target) ==
    IF target = {} THEN Leave
    ELSE IF Ambiguous(target) THEN Ask("semantic_ambiguous_identity")
    ELSE IF PathOf(target) # p THEN Ask("semantic_move_delete_conflict")
    ELSE IF ContentOf(target) # content THEN Ask("semantic_delete_modify_conflict")
    ELSE Put({})

\* The records of a file by id, without those it has twice.
recordsByID(file) == {d \in file.defs : ~Ambiguous(Of(file.defs, d[1]))}

mergeJominiThreeWay(in, p) ==
    LET kept == {[id |-> d[1], put |-> ProjectRecord(RecordsOf(in.base, d[1]), d[2],
                                                     RecordsOf(in.target, d[1]))] :
                   d \in in.project[p].defs}
        removed == {[id |-> d[1], put |-> RemovedRecord(p, d[2], RecordsOf(in.target, d[1]))] :
                      d \in {r \in recordsByID(in.base[p]) : r[1] \notin Ids(recordsByID(in.project[p]))}}
        changes == {c \in kept \cup removed : c.put.changed}
    IN [conflicts |-> {<<c.put.code, c.id>> : c \in {r \in kept \cup removed : r.put.code # "merged"}},
        defs |-> {d \in in.target[p].defs : \A c \in changes : c.id # d[1]}
                 \cup UNION {{<<c.id, content>> : content \in c.put.new} : c \in changes}]

\* buildRebaseCandidate: the adapter of the path's kind.
Candidate(in, p) ==
    IF in.kind = "jomini" THEN mergeJominiThreeWay(in, p)
    ELSE LET merged == mergeLocalizationThreeWay(in.base[p], in.project[p], in.target[p])
         IN [merged EXCEPT !.conflicts = {<<"localization_conflict", id>> : id \in @}]

-----------------------------------------------------------------------------
\* The decision about a path both sides changed.
planBothChangedPath(in, p) ==
    IF in.kind = "unlisted"
    THEN Stop({Conflict("semantic_domain_not_allowlisted", p, None, Ordinary)})
    ELSE LET candidate == Candidate(in, p)
         IN IF candidate.conflicts # {}
            THEN Stop({Conflict(c[1], p, c[2], Ordinary) : c \in candidate.conflicts})
            ELSE IF Present(candidate.defs) = in.target[p] THEN Decide("delete_project", NoFile)
            ELSE Decide("write_candidate", Present(candidate.defs))

planRebasePath(in, p) ==
    LET base == in.base[p]
        project == in.project[p]
        target == in.target[p]
        keep == Decide("keep_project", project)
        delete == Decide("delete_project", NoFile)
    IN IF ~project.there THEN
           IF p \notin in.replaced THEN Decide("inherit_target", target)
           ELSE IF ~base.there /\ target.there
           THEN Stop({Conflict("replace_path_target_addition", p, None, {"use_target", "drop"})})
           ELSE delete
       ELSE IF ~base.there THEN
           IF ~target.there THEN keep
           ELSE IF project = target /\ p \notin in.owned THEN delete
           ELSE planBothChangedPath(in, p)
       ELSE IF project = base THEN IF p \in in.owned THEN keep ELSE delete
       ELSE IF ~target.there
       THEN Stop({Conflict("delete_modify_conflict", p, None, {"keep_project", "drop"})})
       ELSE IF target = base THEN keep
       ELSE IF project = target THEN IF p \in in.owned THEN keep ELSE delete
       ELSE planBothChangedPath(in, p)

-----------------------------------------------------------------------------
\* appendRebaseCrossFileConflict: the conflict blocks its paths.
Attach(plan, conflict, paths) ==
    [p \in Paths |-> IF p \notin paths THEN plan[p]
                     ELSE [action |-> "conflict", result |-> plan[p].result,
                           conflicts |-> plan[p].conflicts \cup {conflict}]]

\* The answers to a project's object at p that the target has at q.
MoveAnswers(in, plan, p, q) ==
    LET pristine == plan[q].conflicts = {} /\ plan[q].action \in {"inherit_target", "delete_project"}
        canKeep == plan[p].conflicts = {} /\ plan[p].action = "keep_project"
        canDelete == /\ canKeep
                     /\ ~in.base[p].there /\ ~in.target[p].there
                     /\ Cardinality(in.project[p].defs) = 1
    IN IF ~pristine THEN {}
       ELSE {"manual"} \cup {a \in {"keep_project"} : canKeep} \cup {a \in {"use_target"} : canDelete}

planRebaseCrossFileMoveConflict(in, plan, id, p, q) ==
    [Conflict("semantic_cross_file_move_conflict", p, id, MoveAnswers(in, plan, p, q))
        EXCEPT !.counterpart = q]

\* Fault: an object the project added is not looked for in other files.
CrossFileOfMoved(in, plan, id) ==
    LET project == RecordsOf(in.project, id)
        base == RecordsOf(in.base, id)
        target == RecordsOf(in.target, id)
    IN IF ~Unique(project) \/ ~Unique(base) \/ ~Unique(target)
          \/ PathOf(project) \in {PathOf(base), PathOf(target)} THEN plan
       ELSE Attach(plan, planRebaseCrossFileMoveConflict(in, plan, id, PathOf(project), PathOf(target)),
                   {PathOf(project), PathOf(target)})

\* One turn of applyRebaseCrossFileSemanticSafety.
CrossFile(in, plan, id) ==
    LET project == RecordsOf(in.project, id)
        base == RecordsOf(in.base, id)
        target == RecordsOf(in.target, id)
        p == PathOf(project)
        conflict(code, path) == Conflict(code, path, id, Ordinary)
    IN IF Ambiguous(project)
       THEN [path \in Paths |-> IF \A record \in project : record[1] # path THEN plan[path]
                ELSE Attach(plan, conflict("semantic_duplicate_id", path), {path})[path]]
       ELSE IF project = {} \/ target = {} THEN plan
       ELSE IF Ambiguous(target) THEN Attach(plan, conflict("semantic_ambiguous_target", p), {p})
       ELSE IF PathOf(target) = p \/ (Unique(base) /\ PathOf(base) = p) THEN plan
       ELSE Attach(plan, planRebaseCrossFileMoveConflict(in, plan, id, p, PathOf(target)),
                   {p, PathOf(target)})

-----------------------------------------------------------------------------
Conflicts == UNION {journal[p].conflicts : p \in Paths}
Moves == {c \in Conflicts : IsMove(c)}

\* The answers a conflict accepts; a manual one names an upload and its hash.
Answers(conflict) ==
    {[action |-> a, upload |-> None, sha |-> None] : a \in conflict.allowed \ {"manual"}}
    \cup IF "manual" \notin conflict.allowed THEN {}
         ELSE {[action |-> "manual", upload |-> c, sha |-> f] : c \in DOMAIN manual, f \in ManualFiles}

\* Fault: whatever is in the upload is taken.
ConfirmedByName(answer) == answer.upload \in DOMAIN manual

\* rebaseManualResolutionFile: the upload is still the file that was confirmed.
Confirmed(answer) == answer.upload \in DOMAIN manual /\ manual[answer.upload] = answer.sha

Usable(answer) == answer.action = "manual" => Confirmed(answer)

\* Fault: a resolved decision forgets its conflicts.
ResolvedForgets(decision, action, result) == Decide(action, result)

\* The conflicts stay as evidence.
Resolved(decision, action, result) ==
    [action |-> action, result |-> result, conflicts |-> decision.conflicts]

applyRebaseResolution(decision, p, answer) ==
    IF answer.action = "manual" THEN Resolved(decision, "write_candidate", manual[answer.upload])
    ELSE IF answer.action = "keep_project"
    THEN Resolved(decision, "keep_project", input.project[p])
    ELSE Resolved(decision, "delete_project", NoFile)

\* The target's file at q without the object that moved away from it.
TargetRemoval(q, id) == Present({d \in input.target[q].defs : d[1] # id})

\* A manual source of a move must have the object once.
MoveUsable(conflict) ==
    LET answer == resolutions[conflict]
    IN answer.action = "manual" => Cardinality(Of(manual[answer.upload].defs, conflict.id)) = 1

\* The decision at p, which is the path or the counterpart of the move.
applyRebaseCrossFileMoveResolution(conflict, p) ==
    LET answer == resolutions[conflict]
    IN IF p = conflict.path THEN applyRebaseResolution(journal[p], p, answer)
       ELSE IF answer.action = "use_target"
       THEN Resolved(journal[p], "inherit_target", input.target[p])
       ELSE Resolved(journal[p], "write_candidate", TargetRemoval(p, conflict.id))

\* The moves of a path are applied in the order of their ids: the last one stands.
MovesOf(p) == {c \in journal[p].conflicts : IsMove(c)}
LastMove(p) == CHOOSE c \in MovesOf(p) : \A d \in MovesOf(p) : idOrder[c] <= idOrder[d]

\* The answers to the other conflicts of a path.
PathAnswers(p) == {resolutions[c] : c \in journal[p].conflicts \ MovesOf(p)}

Compatible == \A p \in Paths : \A a, b \in PathAnswers(p) : a = b

\* resolveRebaseBuildDecisions succeeds.
Resolvable ==
    /\ DOMAIN resolutions = Conflicts
    /\ \A c \in Conflicts : Usable(resolutions[c])
    /\ \A c \in Moves : MoveUsable(c)
    /\ Compatible

\* Moves first; then the other conflicts, whose answer replaces a move's.
resolveRebaseBuildDecisions ==
    [p \in Paths |-> IF PathAnswers(p) # {}
                     THEN applyRebaseResolution(journal[p], p, CHOOSE a \in PathAnswers(p) : TRUE)
                     ELSE IF MovesOf(p) # {} THEN applyRebaseCrossFileMoveResolution(LastMove(p), p)
                     ELSE journal[p]]

-----------------------------------------------------------------------------
\* applyRebaseDecision, at every path of a copy of the project.
Overlay(decisions) ==
    [p \in Paths |-> IF decisions[p].action = "keep_project" THEN input.project[p]
                     ELSE IF decisions[p].action = "write_candidate" THEN decisions[p].result
                     ELSE NoFile]

\* verifyRebaseCrossFileMoveUniqueness of the overlay over the target.
Owners(overlay, id) ==
    RecordsOf([p \in Paths |-> IF overlay[p].there THEN overlay[p] ELSE input.target[p]], id)
MovesAreUnique(overlay) ==
    \A c \in Moves : Cardinality(Owners(overlay, c.id)) = 1

-----------------------------------------------------------------------------
Unbuilt == None
NoAnswers == [c \in {} |-> None]

Init ==
    /\ input \in Inputs
    /\ status = "inventory"
    /\ unchecked = <<>>
    /\ journal = [p \in Paths |-> Decide("none", NoFile)]
    /\ idOrder = NoAnswers
    /\ manual = NoAnswers /\ resolutions = NoAnswers /\ accepted = NoAnswers
    /\ output = Unbuilt
    /\ reviews = 0

\* Every path is classified; only objects are then looked for across files.
Classify ==
    /\ status = "inventory"
    /\ status' = "classify"
    /\ journal' = [p \in Paths |-> planRebasePath(input, p)]
    /\ unchecked' = IF input.kind = "localization" THEN <<>> ELSE ObjectOrder
    /\ UNCHANGED <<input, idOrder, manual, resolutions, accepted, output, reviews>>

CheckObject ==
    /\ status = "classify" /\ unchecked # <<>>
    /\ journal' = CrossFile(input, journal, Head(unchecked))
    /\ unchecked' = Tail(unchecked)
    /\ UNCHANGED <<input, status, idOrder, manual, resolutions, accepted, output, reviews>>

\* The ids are hashes: their order is any, but always the same.
FinishPlan ==
    /\ status = "classify" /\ unchecked = <<>>
    /\ status' = IF Conflicts = {} THEN "ready_to_build" ELSE "needs_review"
    /\ idOrder' \in {rank \in [Moves -> 1..Cardinality(Moves)] : IsInjective(rank)}
    /\ UNCHANGED <<input, unchecked, journal, manual, resolutions, accepted, output, reviews>>

Reviewing ==
    /\ status \notin {"inventory", "classify"}
    /\ input \in Reviewed /\ reviews < MaxReviews
    /\ reviews' = reviews + 1

\* storeRebaseManualUpload: a conflict has one upload, which a later one replaces.
Upload ==
    /\ Reviewing
    /\ \E c \in Conflicts, file \in ManualFiles :
         /\ "manual" \in c.allowed
         /\ manual' = [d \in DOMAIN manual \cup {c} |-> IF d = c THEN file ELSE manual[d]]
    /\ UNCHANGED <<input, status, unchecked, journal, idOrder, resolutions, accepted, output>>

\* POST /api/resolutions: the saved answers are replaced as a whole.
PostResolutions ==
    /\ Reviewing
    /\ \E answered \in SUBSET Conflicts :
         \E answers \in [answered -> UNION {Answers(c) : c \in answered}] :
            /\ \A c \in answered : answers[c] \in Answers(c)
            /\ resolutions' = answers
    /\ UNCHANGED <<input, status, unchecked, journal, idOrder, manual, accepted, output>>

\* BuildRebase of a reviewed plan puts the resolved decisions in the journal, and
\* then the status in the manifest, before which it may be killed.
AcceptReview ==
    /\ status = "needs_review" /\ Resolvable
    /\ journal' = resolveRebaseBuildDecisions
    /\ \/ status' = "ready_to_build" /\ accepted' = resolutions
       \/ UNCHANGED <<status, accepted>>
    /\ UNCHANGED <<input, unchecked, idOrder, manual, resolutions, output, reviews>>

Buildable == status \in {"ready_to_build", "building", "build_failed"} /\ Resolvable

\* The stage is complete and verified; the build may be killed after the rename.
Publish ==
    /\ Buildable /\ output = Unbuilt
    /\ LET overlay == Overlay(resolveRebaseBuildDecisions)
       IN MovesAreUnique(overlay) /\ output' = overlay
    /\ status' \in {"built", "building"}
    /\ accepted' = resolutions
    /\ UNCHANGED <<input, unchecked, journal, idOrder, manual, resolutions, reviews>>

\* The build fails or is killed before the rename.
BuildFails ==
    /\ Buildable /\ output = Unbuilt
    /\ status' \in {"build_failed", "building"}
    /\ accepted' = resolutions
    /\ UNCHANGED <<input, unchecked, journal, idOrder, manual, resolutions, output, reviews>>

\* A published overlay is that of the interrupted build, or the build is refused.
Recover ==
    /\ Buildable /\ status # "ready_to_build" /\ output # Unbuilt
    /\ output = Overlay(resolveRebaseBuildDecisions) /\ MovesAreUnique(output)
    /\ status' = "built"
    /\ accepted' = resolutions
    /\ UNCHANGED <<input, unchecked, journal, idOrder, manual, resolutions, output, reviews>>

Next ==
    \/ Classify \/ CheckObject \/ FinishPlan
    \/ Upload \/ PostResolutions
    \/ AcceptReview \/ Publish \/ BuildFails \/ Recover

Spec == Init /\ [][Next]_vars

-----------------------------------------------------------------------------
Actions == {"none", "conflict", "keep_project", "delete_project", "inherit_target", "write_candidate"}
Decisions == [action : Actions, result : Files, conflicts : SUBSET Conflicts]

\* Every answer is one its conflict accepts; a published overlay has all paths.
TypeOK ==
    /\ {input.base, input.project, input.target} \subseteq [Paths -> Files]
    /\ status \in {"inventory", "classify", "needs_review", "ready_to_build",
                   "building", "build_failed", "built"}
    /\ unchecked \in Seq(Objects)
    /\ journal \in [Paths -> Decisions]
    /\ status \notin {"inventory", "classify"} => DOMAIN idOrder = Moves
    /\ DOMAIN manual \subseteq Conflicts /\ \A c \in DOMAIN manual : manual[c] \in ManualFiles
    /\ \A answers \in {resolutions, accepted} :
         /\ DOMAIN answers \subseteq Conflicts
         /\ \A c \in DOMAIN answers : answers[c] \in Answers(c)
    /\ output \in {Unbuilt} \cup [Paths -> Files]
    /\ status \in {"inventory", "classify", "needs_review", "ready_to_build"} => output = Unbuilt
    /\ status = "built" => output # Unbuilt
    /\ reviews \in 0..MaxReviews

\* What the game loads of an overlay; a replace_path hides what is below it.
Loaded(overlay, below) ==
    [p \in Paths |-> IF overlay[p].there THEN overlay[p]
                     ELSE IF p \in input.replaced THEN NoFile ELSE below[p]]
OldStack == Loaded(input.project, input.base)
NewStack == Loaded(output, input.target)
Layers == {input.base, OldStack, input.target}

SingleInEveryLayer(id) == \A layer \in Layers : ~Ambiguous(RecordsOf(layer, id))

\* The value of an object that a layer has at most once.
ValueIn(layer, id) == IF RecordsOf(layer, id) = {} THEN Absent ELSE ContentOf(RecordsOf(layer, id))

MergedValues(base, project, target) ==
    IF ThreeWay(base, project, target) # {} \/ Absent \in {base, project, target}
       \/ input.kind = "localization"
    THEN ThreeWay(base, project, target)
    ELSE ThreeWayObject(base, project, target)

BuiltUnasked == status = "built" /\ Conflicts = {}

(***************************************************************************)
(* A migration that asks nothing loses nothing: an object that no layer    *)
(* has twice or at another path is afterwards what the three-way merge of  *)
(* the old upstream, the old game and the new upstream makes of it.        *)
(* Whole-file decisions, object merges, removals, shadows taken away and   *)
(* recovered builds all have to agree on it (planRebasePath,               *)
(* mergeJominiThreeWay, applyRebaseDecision).  Owned files and             *)
(* replace_paths follow the project and are left out.                      *)
(***************************************************************************)
MergesObjects ==
    BuiltUnasked =>
        \A id \in Objects :
            LET found == UNION {RecordsOf(layer, id) : layer \in Layers}
                paths == {record[1] : record \in found}
            IN (/\ SingleInEveryLayer(id)
                /\ \A p1, p2 \in paths : p1 = p2
                /\ paths \cap (input.owned \cup input.replaced) = {})
               => /\ ~Ambiguous(RecordsOf(NewStack, id))
                  /\ ValueIn(NewStack, id) \in
                       MergedValues(ValueIn(input.base, id), ValueIn(OldStack, id), ValueIn(input.target, id))

\* The target moved an object out of a file in which the project changed it, or
\* which is owned by the project and still the old upstream's.
MovedUnasked(id) ==
    LET base == RecordsOf(input.base, id)
        project == RecordsOf(OldStack, id)
        target == RecordsOf(input.target, id)
        p == PathOf(base)
    IN /\ base # {} /\ project # {} /\ target # {}
       /\ PathOf(project) = p /\ PathOf(target) # p
       /\ \/ ContentOf(project) # ContentOf(base)
          \/ p \in input.owned /\ input.project[p] = input.base[p]

(***************************************************************************)
(* A migration that asks nothing defines no object twice in the new load   *)
(* stack, wherever the layers have it and whatever path is owned or        *)
(* replaced, unless the target moved it out of a file the project changed  *)
(* it in or owns (applyRebaseCrossFileSemanticSafety).                     *)
(***************************************************************************)
OneOwner ==
    BuiltUnasked /\ input.kind # "localization" =>
        \A id \in Objects : SingleInEveryLayer(id) /\ ~MovedUnasked(id)
                            => ~Ambiguous(RecordsOf(NewStack, id))

(***************************************************************************)
(* The same without the exception: 'V1 deliberately stops for review       *)
(* instead of guessing which physical file owns the object.'  It does not  *)
(* hold: mergeJominiThreeWay appends the project's version to the file the *)
(* target moved the object away from, an owned copy of the old upstream's  *)
(* file is kept there, and nothing asks.                                   *)
(***************************************************************************)
MovesAreAsked ==
    BuiltUnasked /\ input.kind # "localization" =>
        \A id \in Objects : SingleInEveryLayer(id) => ~Ambiguous(RecordsOf(NewStack, id))

\* "adoption must be explicit" (rebase_plan.go:529), but where a replace_path hides
\* the target's file its explicit adoption leaves it hidden: use_target becomes
\* delete_project, and the game then loads nothing at the path.
HiddenTarget(p) == p \in input.replaced

\* What an answer to a conflict of path p says of p, its path or its counterpart.
AsAnswered(overlay, p, conflict, answer) ==
    LET loaded == Loaded(overlay, input.target)[p]
    IN /\ answer.action = "use_target" =>
              loaded = IF HiddenTarget(p) THEN NoFile ELSE input.target[p]
       /\ answer.action = "drop" => ~loaded.there
       /\ answer.action = "keep_project" /\ p = conflict.path => overlay[p] = input.project[p]
       /\ answer.action = "manual" /\ p = conflict.path => overlay[p] = answer.sha
       /\ answer.action \in {"keep_project", "manual"} /\ p # conflict.path =>
              overlay[p] = TargetRemoval(p, conflict.id)

\* The answer to a move gives way to that of any other conflict of the path, and
\* among moves the last one stands.
Replaces(other, conflict) ==
    /\ IsMove(conflict) /\ other # conflict
    /\ IsMove(other) => idOrder[other] <= idOrder[conflict]

(***************************************************************************)
(* What is built is what the reviewer last confirmed, also when an upload  *)
(* was replaced after it was confirmed or the answers changed between a    *)
(* failed build and its resumption (resolveRebaseBuildDecisions): every    *)
(* conflict is answered in the manifest, a moved object has one owner, and *)
(* at every path a conflict blocked the game loads what its answer says,   *)
(* or what the answer says that replaces it there: at a path with several  *)
(* conflicts an answer to a move may be without effect.                    *)
(***************************************************************************)
ReviewHonoured ==
    status = "built" =>
        /\ \A c \in Conflicts :
             /\ c \in DOMAIN accepted
             /\ IsMove(c) => Cardinality(Owners(output, c.id)) = 1
        /\ \A p \in Paths : \A c \in journal[p].conflicts :
             \/ AsAnswered(output, p, c, accepted[c])
             \/ \E d \in journal[p].conflicts :
                  Replaces(d, c) /\ AsAnswered(output, p, d, accepted[d])
=============================================================================
