---------------------------- MODULE RebaseMerge ----------------------------
(***************************************************************************)
(* The three-way merges of a migration plan (internal/migrator/            *)
(* rebase_semantic.go): of a scalar, of an object field by field, of a     *)
(* localization file and of a file of Jomini objects.  A merge returns the *)
(* set of its results: one value, or none where it stops for review.       *)
(*                                                                         *)
(* A file is there or not and has a set of definitions, <<id, content>>;   *)
(* an id may be defined twice.  Two files with the same definitions are    *)
(* the same file.  A content gives every field a value or Absent.          *)
(***************************************************************************)
EXTENDS FiniteSets

CONSTANTS Objects, Fields, Values, Absent

Contents == [Fields -> Values \cup {Absent}]

ASSUME AbsentAssumption == Absent \notin Values \cup Contents

Present(defs) == [there |-> TRUE, defs |-> defs]
NoFile == [there |-> FALSE, defs |-> {}]
Files == [there : BOOLEAN, defs : SUBSET (Objects \X Contents)]

-----------------------------------------------------------------------------
\* What a three-way merge is: of two sides, the one that changed wins.
ThreeWay(base, project, target) ==
    IF project = base THEN {target}
    ELSE IF target = base \/ target = project THEN {project}
    ELSE {}

\* The three-way merge of an object that is in all three layers.
ThreeWayObject(base, project, target) ==
    IF ThreeWay(base, project, target) # {} THEN ThreeWay(base, project, target)
    ELSE {merged \in Contents :
            \A f \in Fields : merged[f] \in ThreeWay(base[f], project[f], target[f])}

-----------------------------------------------------------------------------
\* mergeJominiChild of scalars, mergePlainThreeWay: by which sides have the value.
mergePlainThreeWay(base, project, target) ==
    IF base = Absent
    THEN IF project = Absent THEN {target}
         ELSE IF target \in {Absent, project} THEN {project} ELSE {}
    ELSE IF project = Absent THEN IF target \in {Absent, base} THEN {Absent} ELSE {}
    ELSE IF target = Absent THEN IF project = base THEN {Absent} ELSE {}
    ELSE IF project = base THEN {target}
    ELSE IF target \in {base, project} THEN {project} ELSE {}

\* mergeJominiObject, mergeJominiBlock: every child must merge.
mergeJominiObject(base, project, target) ==
    {merged \in Contents :
        \A f \in Fields : merged[f] \in mergePlainThreeWay(base[f], project[f], target[f])}

-----------------------------------------------------------------------------
Of(defs, id) == {d \in defs : d[1] = id}
Ids(defs) == {d[1] : d \in defs}

\* A file without the header, as one that is not there, and a key that is defined
\* twice cannot be parsed.
IsDocument(file) == file.there /\ \A id \in Ids(file.defs) : Cardinality(Of(file.defs, id)) = 1

\* The value of a key, or Absent.
ValueOf(file, id) ==
    IF Of(file.defs, id) = {} THEN Absent ELSE (CHOOSE d \in Of(file.defs, id) : TRUE)[2]

MergedKey(base, project, target, id) ==
    mergePlainThreeWay(ValueOf(base, id), ValueOf(project, id), ValueOf(target, id))

(***************************************************************************)
(* mergeLocalizationThreeWay: the keys in conflict, and the definitions of *)
(* the merged file, which is the target's with the project's changes.      *)
(***************************************************************************)
mergeLocalizationThreeWay(base, project, target) ==
    IF \E file \in {base, project, target} : ~IsDocument(file)
    THEN [conflicts |-> {"file"}, defs |-> target.defs]
    ELSE LET keys == Ids(base.defs \cup project.defs \cup target.defs)
             merged(id) == MergedKey(base, project, target, id)
         IN [conflicts |-> {id \in keys : merged(id) = {}},
             defs |-> UNION {{<<id, v>> : v \in merged(id) \ {Absent}} : id \in keys}]
=============================================================================
