------------------------------- MODULE Solver -------------------------------
(***************************************************************************)
(* facet_solver::Solver: which resolution of a flattened type an input is  *)
(* meant for.  A format reads an input key by key, in the input's order,   *)
(* and tells the solver what it met; the solver narrows the set of the     *)
(* resolutions that are still possible and answers what it knows about the *)
(* value that follows.                                                     *)
(*                                                                         *)
(* The caller either reads an input that was written for one resolution    *)
(* (`truth`) and says true things about it, or says anything (`truth` 0).  *)
(* The specificity scores and the reports that an Err carries say nothing  *)
(* back to the solver and are left out.                                    *)
(***************************************************************************)
EXTENDS Integers, Sequences

CONSTANTS
    Schemas,    \* [format, res: the resolutions, keys: what a format may report]
    ShapeIn(_, _), \* get_shape_at_path(resolution, path), or NoShape
    NoShape,
    Usage       \* what the documentation and comments promise to work and
                \* the code does not make work, see below

\* The fields of a resolution whose key has no name of its own.
Nameless == {"Text", "Tag", "Elements"}

(***************************************************************************)
(* Usage:                                                                  *)
(*   "satisfy_nested"  satisfy_shapes is given shapes found at a nested    *)
(*                     path                                                *)
(*   "texts"           two structs that flatten into one schema have a     *)
(*                     text (tag, elements) field each, of different names *)
(***************************************************************************)
ASSUME UsageAssumption == Usage \subseteq {"satisfy_nested", "texts"}

ASSUME SchemasAssumption ==
    \A s \in Schemas :
        /\ s.format \in {"Flat", "Dom"}
        /\ DOMAIN s.res # {}
        /\ 0 \notin DOMAIN s.res
        /\ \A i \in DOMAIN s.res :
            /\ DOMAIN s.res[i].fields \subseteq STRING \X STRING
            /\ s.format = "Dom" => \A f \in DOMAIN s.res[i].fields : f[1] # "Flat"

\* "There's only one such field per struct": see_text() finds it if there is
\* only one such field in the whole schema.
ASSUME TextsAssumption ==
    "texts" \notin Usage => \A s \in Schemas : \A i, j \in DOMAIN s.res :
        \A a \in DOMAIN s.res[i].fields, b \in DOMAIN s.res[j].fields :
            a[1] = b[1] /\ a[1] \in Nameless => a = b

VARIABLES
    schema,     \* Solver::schema
    truth,      \* the resolution the input was written for, or 0
    candidates, \* Solver::candidates: indices of resolutions
    seen,       \* Solver::seen_keys: <<category, name>>, category "Flat" in flat formats
    result,     \* what the last call returned
    plain       \* history: no call but see_key so far

vars == <<schema, truth, candidates, seen, result, plain>>

-----------------------------------------------------------------------------
(* Resolutions, keys and answers *)

Indices == DOMAIN schema.res

Res(i) == schema.res[i]

Format == schema.format

NamesOf(r) == {k[2] : k \in DOMAIN r.fields}

Required(r) == {k[2] : k \in {x \in DOMAIN r.fields : r.fields[x].required}}

SeenNames == {k[2] : k \in seen}

\* The index is ordered, and a key without a name takes the first field of its
\* category.  Which one that is depends on the names and is not told here.
FirstIn(category) ==
    CHOOSE f \in UNION {DOMAIN Res(i).fields : i \in Indices} : f[1] = category

\* Which fields a key is looked up as in the schema's index.
LooksUp(k, f) ==
    IF Format = "Flat" THEN f[2] = k[2]
    ELSE IF k[1] = "Flat" THEN f = <<"Element", k[2]>>
    ELSE IF k[1] \in Nameless /\ k[2] = "" THEN f[1] = k[1] /\ f = FirstIn(k[1])
    ELSE f = k

\* field_to_resolutions, dom_field_to_resolutions
IndexOf(k) == {i \in Indices : \E f \in DOMAIN Res(i).fields : LooksUp(k, f)}

One(S) == \E x \in S : S = {x}

Only(S) == CHOOSE x \in S : S = {x}

NoResult == [kind |-> "None", idx |-> 0, path |-> << >>, shapes |-> {}]

Simple(kind) == [NoResult EXCEPT !.kind = kind]

Solved(i) == [NoResult EXCEPT !.kind = "Solved", !.idx = i]

\* The answer to a key at `path` where the candidates left expect `shapes`.
Answer(left, path, shapes) ==
    IF One(left) THEN Solved(Only(left))
    ELSE IF shapes = {} THEN Simple("Unknown")
    ELSE IF One(shapes) THEN Simple("Unambiguous")
    ELSE [kind |-> "Ambiguous", idx |-> 0, path |-> path, shapes |-> shapes]

Remaining(left) ==
    IF left = {} THEN Simple("NoMatch")
    ELSE IF One(left) THEN Solved(Only(left)) ELSE Simple("Continue")

\* field_by_key: a key of the other form matches no field.
ShapesOfKey(k, left) ==
    {Res(i).fields[k].shape : i \in {j \in left : k \in DOMAIN Res(j).fields}}

\* get_shapes_at_path
ShapesAt(path, left) == {ShapeIn(Res(i), path) : i \in left} \ {NoShape}

Open == result.kind \notin {"Ok", "Ambiguous resolutions", "No viable resolution"}

-----------------------------------------------------------------------------
(* What a truthful caller may say *)

\* A format reports field f as key k: by its own category, without category,
\* or by the category of a field that has no name.
Reports(k, f) ==
    \/ k = f
    \/ k[2] = f[2] /\ (Format = "Dom" => k[1] = "Flat" /\ f[1] = "Element")
    \/ k[1] = f[1] /\ k[1] \in Nameless /\ k[2] = "" /\ Format = "Dom"

\* A key of the input: a field of its resolution, or one no resolution knows.
InInput(k) ==
    truth # 0 => \/ \E f \in DOMAIN Res(truth).fields : Reports(k, f)
                 \/ IndexOf(k) = {}

PathInInput(path) == truth # 0 => path \in Res(truth).paths

\* The value at a key, or below one, fits the shape it was written for.
FieldAccepts(name, shapes) ==
    truth # 0 => \E f \in DOMAIN Res(truth).fields :
                    f[2] = name /\ Res(truth).fields[f].shape \in shapes

AcceptsAt(path, shapes) == truth # 0 => ShapeIn(Res(truth), path) \in shapes

VariantInInput(name) == truth # 0 => \E v \in DOMAIN Res(truth).sel : Res(truth).sel[v].variant = name

-----------------------------------------------------------------------------
(* The calls *)

Init ==
    /\ schema \in Schemas
    /\ truth \in {0} \cup Indices
    /\ candidates = Indices
    /\ seen = {}
    /\ result = NoResult
    /\ plain = TRUE

\* Slip: a known key narrows even when it leaves no candidate.
SeeKeyAlways(k) ==
    /\ Open /\ InInput(k)
    /\ seen' = seen \cup {k}
    /\ LET left == candidates \cap IndexOf(k) IN
       IF IndexOf(k) = {} THEN result' = Simple("Unknown") /\ UNCHANGED candidates
       ELSE candidates' = left /\ result' = Answer(left, <<k[2]>>, ShapesOfKey(k, left))
    /\ UNCHANGED <<schema, truth, plain>>

\* see_key, see_attribute, see_element, see_text
SeeKey(k) ==
    /\ Open /\ InInput(k)
    /\ seen' = seen \cup {k}
    /\ LET left == candidates \cap IndexOf(k) IN
       IF left = {} THEN result' = Simple("Unknown") /\ UNCHANGED candidates
       ELSE candidates' = left /\ result' = Answer(left, <<k[2]>>, ShapesOfKey(k, left))
    /\ UNCHANGED <<schema, truth, plain>>

\* satisfy, satisfy_shapes: a candidate stays if any of its fields has one of
\* the shapes, not just the field that was asked about.
SatisfyShapes(S) ==
    /\ result.kind = "Ambiguous" /\ S \subseteq result.shapes
    /\ \/ Len(result.path) = 1 /\ FieldAccepts(result.path[1], S)
       \/ "satisfy_nested" \in Usage /\ AcceptsAt(result.path, S)
    /\ candidates' = {i \in candidates :
                        \E f \in DOMAIN Res(i).fields : Res(i).fields[f].shape \in S}
    /\ result' = Remaining(candidates')
    /\ plain' = FALSE
    /\ UNCHANGED <<schema, truth, seen>>

SatisfyAtPath(S) ==
    /\ result.kind = "Ambiguous" /\ S \subseteq result.shapes
    /\ AcceptsAt(result.path, S)
    /\ candidates' = {i \in candidates : ShapeIn(Res(i), result.path) \in S}
    /\ result' = Remaining(candidates')
    /\ plain' = FALSE
    /\ UNCHANGED <<schema, truth, seen>>

\* probe_key(path, key), for the full path: unlike see_key it leaves no
\* candidate when none has the path, and it does not mark the key as seen.
ProbeKey(path) ==
    /\ Open /\ PathInInput(path)
    /\ candidates' = {i \in candidates : path \in Res(i).paths}
    /\ result' = IF candidates' = {} THEN Simple("Unknown")
                 ELSE Answer(candidates', path, ShapesAt(path, candidates'))
    /\ plain' = FALSE
    /\ UNCHANGED <<schema, truth, seen>>

\* Slip: only the first selection of a resolution is looked at.
SelectingFirst(name) ==
    {i \in candidates : DOMAIN Res(i).sel # {} /\ Res(i).sel[1].variant = name}

\* Slip: the matching resolutions are looked for among all of them.
SelectingAnew(name) ==
    {i \in Indices : \E v \in DOMAIN Res(i).sel : Res(i).sel[v].variant = name}

Selecting(name) ==
    {i \in candidates : \E v \in DOMAIN Res(i).sel : Res(i).sel[v].variant = name}

HintVariant(name) ==
    /\ Open /\ VariantInInput(name)
    /\ IF Selecting(name) = {} THEN result' = Simple("No hint") /\ UNCHANGED candidates
       ELSE candidates' = Selecting(name) /\ result' = Simple("Hinted")
    /\ plain' = FALSE
    /\ UNCHANGED <<schema, truth, seen>>

\* A field of a candidate that holds the tag of an internally tagged enum.
IsTagField(tag) ==
    \E i \in candidates : \E f \in DOMAIN Res(i).fields :
        f[2] = tag /\ Res(i).fields[f].isTag

HintVariantForTag(tag, name) ==
    /\ Open
    /\ IF IsTagField(tag) THEN HintVariant(name)
       ELSE /\ result' = Simple("No hint")
            /\ plain' = FALSE
            /\ UNCHANGED <<schema, truth, candidates, seen>>

MarkSeen(k) ==
    /\ Open /\ InInput(k)
    /\ seen' = seen \cup {k}
    /\ result' = NoResult
    /\ plain' = FALSE
    /\ UNCHANGED <<schema, truth, candidates>>

\* Slip: a required field counts as seen only under its own key.
ViableByKey ==
    {i \in candidates : \A f \in DOMAIN Res(i).fields : Res(i).fields[f].required => f \in seen}

\* Slip: finish() goes through all resolutions of the schema.
ViableAnywhere == {i \in Indices : Required(Res(i)) \subseteq SeenNames}

Viable == {i \in candidates : Required(Res(i)) \subseteq SeenNames}

Finish ==
    /\ Open
    /\ result' = IF Viable = {} THEN Simple("No viable resolution")
                 ELSE IF One(Viable) THEN [NoResult EXCEPT !.kind = "Ok", !.idx = Only(Viable)]
                 ELSE Simple("Ambiguous resolutions")
    /\ UNCHANGED <<schema, truth, candidates, seen, plain>>

InputPaths == UNION {Res(i).paths : i \in Indices}

VariantNames == UNION {{Res(i).sel[v].variant : v \in DOMAIN Res(i).sel} : i \in Indices}

Next ==
    \/ \E k \in schema.keys : SeeKey(k) \/ MarkSeen(k)
    \/ \E S \in SUBSET result.shapes : SatisfyShapes(S) \/ SatisfyAtPath(S)
    \/ \E path \in InputPaths : ProbeKey(path)
    \/ \E name \in VariantNames :
        \/ HintVariant(name)
        \/ \E k \in schema.keys : HintVariantForTag(k[2], name)
    \/ Finish

Spec == Init /\ [][Next]_vars

-----------------------------------------------------------------------------
(* Properties *)

\* The candidates are resolutions of the schema, and an answer that names one
\* names a candidate.
TypeOK ==
    /\ truth \in {0} \cup Indices
    /\ candidates \subseteq Indices
    /\ plain \in BOOLEAN
    /\ result.kind \in {"Solved", "Ok"} => result.idx \in candidates

\* The resolutions that have every key of the input that any resolution has.
Fitting == {i \in Indices : \A k \in seen : IndexOf(k) # {} => i \in IndexOf(k)}

\* see_key_internal narrows key by key and skips a key that would leave nothing.
\* Whatever the order of the keys, if some resolution has all the known ones,
\* exactly those resolutions are left; and keys alone never rule out all.
NarrowingIsOrderFree ==
    plain => /\ candidates # {}
             /\ Fitting # {} => candidates = Fitting

\* Resolution::matches, for an input of the names that some resolution knows.
Matches(r) ==
    /\ Required(r) \subseteq SeenNames
    /\ \A k \in seen : IndexOf(k) # {} => k[2] \in NamesOf(r)

Matching == {i \in Indices : Matches(Res(i))}

\* finish() after see_key for every key, in a flat format, decides what matching
\* the whole input against every resolution at once decides.
OneShotAgrees ==
    plain /\ Format = "Flat" /\ Matching # {} =>
        /\ result.kind = "Ok" => Matching = {result.idx}
        /\ result.kind = "Ambiguous resolutions" => ~One(Matching)
        /\ result.kind # "No viable resolution"

\* Whatever mix of calls tells the solver true things about an input - keys,
\* shapes its values fit, paths it has, variants it names - the resolution the
\* input was written for is never ruled out, and none of these calls answers
\* that it is another one.  (What finish() then makes of the required fields is
\* not part of this: it goes by names, and what see_text() reports has none.)
TruthSurvives ==
    truth # 0 =>
        /\ truth \in candidates
        /\ result.kind = "Solved" => result.idx = truth

\* A resolution that was ruled out never comes back.
NeverReopened == [][candidates' \subseteq candidates]_vars

=============================================================================
