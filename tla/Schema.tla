------------------------------- MODULE Schema -------------------------------
(***************************************************************************)
(* facet_solver::SchemaBuilder: from a type with flattened fields to its   *)
(* resolutions.  A resolution is one way to choose a variant for every     *)
(* flattened enum, together with the fields and the key paths the input    *)
(* may then hold.                                                          *)
(*                                                                         *)
(* The builder keeps a Vec of the resolutions under construction.  No two  *)
(* of them have the same variant selections, so a set stands for the Vec.  *)
(* An Err anywhere drops all of them: it is a flag of the resolution that  *)
(* met it (`dup`), and a schema exists if no resolution has it.            *)
(*                                                                         *)
(* A `how` is the builder itself: its format, and the representation that  *)
(* is used for every enum, or "Auto" (with_auto_detect).                   *)
(***************************************************************************)
EXTENDS SequencesExt, Naturals

CONSTANT Nothing    \* None, for what a shape does not have

\* A Shape: [name, ty, fields, variants, of, proxy, tag, content, untagged].
\* `of` is Shape::inner: that of a transparent wrapper, and also what a smart
\* pointer, an Option or a list has in it.

NewResolution ==
    [fields |-> << >>, sel |-> << >>, paths |-> {}, catchAll |-> {}, dup |-> FALSE]

F(name) == <<"Field", name>>
V(field, variant) == <<"Variant", field, variant>>

IsStruct(s) == s.ty \in {"struct", "wrapper"}
IsOption(s) == s.ty = "option"

-----------------------------------------------------------------------------
(* Resolution *)

KeyOf(info) == <<info.category, info.name>>

AddField(r, info) ==
    [r EXCEPT
        !.dup = @ \/ /\ KeyOf(info) \in DOMAIN r.fields
                     /\ r.fields[KeyOf(info)].path # info.path,
        !.fields = (KeyOf(info) :> info) @@ @]

AddPaths(r, ps) == [r EXCEPT !.paths = @ \cup ps]

Select(r, path, variant) ==
    [r EXCEPT !.sel = Append(@, [path |-> path, variant |-> variant])]

Merge(a, b) ==
    [fields   |-> b.fields @@ a.fields,
     sel      |-> a.sel \o b.sel,
     paths    |-> a.paths \cup b.paths,
     catchAll |-> a.catchAll \cup b.catchAll,
     dup      |-> \/ a.dup \/ b.dup
                  \/ \E k \in DOMAIN a.fields \cap DOMAIN b.fields :
                        a.fields[k].path # b.fields[k].path]

Merges(A, B) == {Merge(a, b) : a \in A, b \in B}

MarkAllOptional(r) ==
    [r EXCEPT !.fields = [k \in DOMAIN @ |-> [@[k] EXCEPT !.required = FALSE]]]

-----------------------------------------------------------------------------
(* Key paths below the level the keys are flattened to *)

Newtype(v) == Len(v.fields) = 1 /\ v.fields[1].name = "0"

RECURSIVE PathsOnly(_, _), VariantPathsOnly(_, _)

\* collect_shape_key_paths_only: every variant's paths; an Option is an enum
\* whose Some is a newtype.
PathsOnly(s, prefix) ==
    CASE IsStruct(s) ->
            UNION {IF f.flatten THEN PathsOnly(f.shape, prefix)
                   ELSE {Append(prefix, f.name)} \cup PathsOnly(f.shape, Append(prefix, f.name))
                   : f \in Range(s.fields)}
      [] IsOption(s) -> PathsOnly(s.of, prefix)
      [] s.ty = "enum" ->
            UNION {VariantPathsOnly(v, prefix) : v \in Range(s.variants)}
      [] OTHER -> {}

VariantPathsOnly(v, prefix) ==
    IF Newtype(v) THEN PathsOnly(v.fields[1].shape, prefix)
    ELSE UNION {{Append(prefix, f.name)} \cup PathsOnly(f.shape, Append(prefix, f.name))
                : f \in Range(v.fields)}

RECURSIVE NestedPaths(_, _, _), FlattenedPaths(_, _, _)

\* collect_nested_key_paths_for_struct, for one resolution.
NestedPaths(fields, prefix, sel) ==
    UNION {IF f.flatten THEN FlattenedPaths(f, prefix, sel)
           ELSE LET p == Append(prefix, f.name) IN
                {p} \cup (IF IsStruct(f.shape)
                          THEN NestedPaths(f.shape.fields, p, sel) ELSE {})
           : f \in Range(fields)}

\* A flattened enum below a field that is not flattened: the resolution has a
\* variant for it only if a field of that name was selected at the top level.
FlattenedPaths(f, prefix, sel) ==
    IF IsStruct(f.shape) THEN NestedPaths(f.shape.fields, prefix, sel)
    ELSE IF f.shape.ty # "enum" THEN {}
    ELSE LET chosen == SelectSeq(sel, LAMBDA x : x.path # << >> /\ Last(x.path) = F(f.name)) IN
         UNION {NestedPaths(IF Newtype(v) /\ IsStruct(v.fields[1].shape)
                            THEN v.fields[1].shape.fields ELSE v.fields, prefix, sel)
                : v \in {w \in Range(f.shape.variants) :
                            chosen # << >> /\ chosen[1].variant = w.name}}

-----------------------------------------------------------------------------
(* The builder *)

\* EnumRepr::from_shape
ReprOf(s) ==
    IF s.untagged THEN "Flattened"
    ELSE IF s.tag = Nothing THEN "ExternallyTagged"
    ELSE IF s.content = Nothing THEN "InternallyTagged" ELSE "AdjacentlyTagged"

\* from_field_dom has none for a flattened field, which then is an Element.
CategoryOf(f, how) ==
    IF how.format # "Dom" THEN "Flat" ELSE IF f.flatten THEN "Element" ELSE f.category

Info(f, path, shape, required, category) ==
    [name |-> f.name, path |-> path, shape |-> shape,
     required |-> required, category |-> category,
     isTag |-> shape.tag = f.name /\ shape.content = Nothing]

\* unwrap_transparent_with_path: one "0" per layer, and a layer is whatever has
\* an inner shape.
RECURSIVE Unwrapped(_, _)
Unwrapped(s, path) ==
    IF s.of # Nothing THEN Unwrapped(s.of, Append(path, F("0")))
    ELSE [shape |-> s, path |-> path]

RECURSIVE Effective(_)
Effective(s) ==
    LET t == Unwrapped(s, << >>).shape IN
    IF t.proxy # Nothing THEN Effective(t.proxy) ELSE t

RECURSIVE StructConfigs(_, _, _, _)

\* analyze_variant_content
VariantConfigs(v, path, prefix, how) ==
    LET inner == Effective(v.fields[1].shape) IN
    IF Newtype(v) /\ IsStruct(inner)
    THEN StructConfigs(inner.fields, Append(path, F("0")), prefix, how)
    ELSE StructConfigs(v.fields, path, prefix, how)

FieldConfigs(f, path, prefix, cfgs, how) ==
    LET p    == Append(prefix, f.name)
        info == Info(f, Append(path, F(f.name)), f.shape,
                     ~f.default /\ ~IsOption(f.shape), CategoryOf(f, how)) IN
    {AddPaths(AddField(c, info),
              {p} \cup (IF IsStruct(f.shape)
                        THEN NestedPaths(f.shape.fields, p, c.sel) ELSE {}))
     : c \in cfgs}

\* A flattened enum of shape s forks a resolution, once per variant.  The field
\* of a tag, or of a variant's name, is an Element whatever the format.
Fork(c, v, f, s, path, prefix, optional, how) ==
    LET forked  == Select(c, path, v.name)
        inPath  == Append(path, V(f.name, v.name))
        repr    == IF how.repr = "Auto" THEN ReprOf(s) ELSE how.repr
        Named(n) == AddPaths(AddField(forked,
                        Info([name |-> n], inPath, s, ~optional, "Element")),
                        {Append(prefix, n)})
        inner   == LET cs == VariantConfigs(v, inPath, prefix, how) IN
                   IF optional THEN {MarkAllOptional(x) : x \in cs} ELSE cs
        below   == Append(prefix, s.content) IN
    CASE repr = "ExternallyTagged" ->
            {AddPaths(Named(v.name), VariantPathsOnly(v, Append(prefix, v.name)))}
      [] repr = "Flattened"        -> Merges({forked}, inner)
      [] repr = "InternallyTagged" -> Merges({Named(s.tag)}, inner)
      [] repr = "AdjacentlyTagged" ->
            {AddPaths(Named(s.tag), {below} \cup VariantPathsOnly(v, below))}

\* Slip: every resolution is forked by the variants of the first one only.
FlattenConfigsOnce(f, path, prefix, cfgs, how) ==
    LET optional == IsOption(f.shape)
        u == Unwrapped(IF optional THEN f.shape.of ELSE f.shape, Append(path, F(f.name)))
        s == u.shape IN
    CASE s.ty = "struct" -> Merges(cfgs, StructConfigs(s.fields, u.path, prefix, how))
      [] s.ty = "enum" ->
            LET c == CHOOSE x \in cfgs : TRUE IN
            UNION {Fork(c, v, f, s, u.path, prefix, optional, how) : v \in Range(s.variants)}
      [] OTHER -> cfgs

FlattenConfigs(f, path, prefix, cfgs, how) ==
    LET optional == IsOption(f.shape)
        u == Unwrapped(IF optional THEN f.shape.of ELSE f.shape, Append(path, F(f.name)))
        s == u.shape IN
    CASE s.ty = "struct" ->
            LET inner == StructConfigs(s.fields, u.path, prefix, how) IN
            Merges(cfgs, IF optional THEN {MarkAllOptional(x) : x \in inner} ELSE inner)
      [] s.ty = "enum" ->
            UNION {Fork(c, v, f, s, u.path, prefix, optional, how)
                   : c \in cfgs, v \in Range(s.variants)}
      [] s.ty \in {"map", "dynamic"} ->
            {[c EXCEPT !.catchAll = @ \cup {IF how.format = "Dom" /\ f.category = "Attribute"
                                            THEN "Attribute" ELSE CategoryOf(f, how)}] : c \in cfgs}
      [] OTHER ->
            {AddPaths(AddField(c, Info(f, u.path, s, ~f.default /\ ~IsOption(s) /\ ~optional,
                                       CategoryOf(f, how))), {Append(prefix, f.name)})
             : c \in cfgs}

StructConfigs(fields, path, prefix, how) ==
    FoldLeft(LAMBDA cfgs, f : IF f.flatten THEN FlattenConfigs(f, path, prefix, cfgs, how)
                              ELSE FieldConfigs(f, path, prefix, cfgs, how),
             {NewResolution}, fields)

\* analyze_shape, analyze_enum: an enum at the root has no tag.
Analyze(s, how) ==
    CASE IsStruct(s) -> StructConfigs(s.fields, << >>, << >>, how)
      [] s.ty = "enum" ->
            UNION {Merges({Select(NewResolution, << >>, v.name)},
                          VariantConfigs(v, <<V("", v.name)>>, << >>, how))
                   : v \in Range(s.variants)}
      [] OTHER -> {NewResolution}

\* get_field_shape along a path: through structs only.
RECURSIVE ShapeBelow(_, _)
ShapeBelow(s, path) ==
    IF path = << >> THEN s
    ELSE IF ~IsStruct(s) \/ ~\E f \in Range(s.fields) : f.name = Head(path) THEN Nothing
    ELSE ShapeBelow((CHOOSE f \in Range(s.fields) : f.name = Head(path)).shape, Tail(path))

\* get_shape_at_path
ShapeAt(r, path) ==
    LET named == {k \in DOMAIN r.fields : r.fields[k].name = path[1]} IN
    IF named = {} THEN Nothing
    ELSE ShapeBelow(r.fields[CHOOSE k \in named : TRUE].shape, Tail(path))

-----------------------------------------------------------------------------
(* What the builder is for, written down without forking *)

\* How many layers around a type are written as the type itself: those of
\* transparent wrappers and smart pointers, not an Option's or a list's.
RECURSIVE Layers(_)
Layers(s) == IF s.ty \in {"wrapper", "pointer"} THEN 1 + Layers(s.of) ELSE 0

RECURSIVE Under(_, _)
Under(s, n) == IF n = 0 THEN s ELSE Under(s.of, n - 1)

\* The type that is written where a field has type s, but for an Option around
\* it: then it may be missing.
May(s) == IF IsOption(s) THEN s.of ELSE s
Written(s) == Under(May(s), Layers(May(s)))

\* In a newtype variant the proxy of the type is written in its place.
RECURSIVE WrittenBy(_)
WrittenBy(s) == IF Written(s).proxy = Nothing THEN Written(s) ELSE WrittenBy(Written(s).proxy)

RECURSIVE Reached(_, _, _, _)

\* What an input is made of once `pick` says which variant is taken at which
\* path: the flattened enums reached, and the keys with their places, those
\* below an optional enum or struct being optional (enums in "Flattened" form).
Reached(fields, path, pick, optional) ==
    UNION {
        LET p   == Append(path, F(f.name))
            in  == p \o [l \in 1..Layers(May(f.shape)) |-> F("0")]
            t   == Written(f.shape)
            opt == optional \/ IsOption(f.shape) IN
        IF ~f.flatten THEN {<<"key", f.name, p, ~f.default /\ ~opt>>}
        ELSE IF t.ty = "struct" THEN Reached(t.fields, in, pick, opt)
        ELSE IF t.ty \in {"map", "dynamic"} THEN {}
        ELSE IF t.ty # "enum" THEN {<<"key", f.name, in, ~f.default /\ ~opt>>}
        ELSE {<<"enum", in, t, opt>>} \cup
             UNION {LET at    == Append(in, V(f.name, v.name))
                        inner == v.fields[1].shape IN
                    IF Newtype(v) /\ WrittenBy(inner).ty = "struct"
                    THEN Reached(WrittenBy(inner).fields, Append(at, F("0")), pick,
                                 opt \/ IsOption(inner))
                    ELSE Reached(v.fields, at, pick, opt)
                    : v \in {w \in Range(t.variants) : <<in, w.name>> \in pick}}
        : f \in Range(fields)}

Tagged(kind, reached) == {x \in reached : x[1] = kind}

\* The picks that take one variant of every enum reached, and nothing else:
\* of all variants of the enums reached by taking all variants, thrice.
Picks(s) ==
    LET Enums(pick) == Tagged("enum", Reached(s.fields, << >>, pick, FALSE))
        Grow(pick)  == UNION {{<<e[2], v.name>> : v \in Range(e[3].variants)}
                              : e \in Enums(pick)} IN
    {P \in SUBSET Grow(Grow(Grow({}))) :
        /\ {x[1] : x \in P} = {e[2] : e \in Enums(P)}
        /\ \A x, y \in P : x[1] = y[1] => x = y}

KeysUnder(s, pick) == Tagged("key", Reached(s.fields, << >>, pick, FALSE))

Twice(keys) == \E x, y \in keys : x[2] = y[2] /\ x[3] # y[3]
=============================================================================
