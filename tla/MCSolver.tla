----------------------------- MODULE MCSolver -----------------------------
(***************************************************************************)
(* A few types with flattened fields, the schemas that the builder makes   *)
(* of them, and the solver over those schemas.                             *)
(***************************************************************************)
EXTENDS Schema, Solver

CONSTANT Types    \* the types whose resolutions are compared with the reference

Base == [name |-> "", ty |-> "scalar", fields |-> << >>, variants |-> << >>, of |-> Nothing,
         proxy |-> Nothing, tag |-> Nothing, content |-> Nothing, untagged |-> FALSE]

Scalar(name)   == [Base EXCEPT !.name = name]
Struct(fields) == [Base EXCEPT !.ty = "struct", !.fields = fields]
Enum(variants) == [Base EXCEPT !.ty = "enum", !.variants = variants]
OptionOf(s)    == [Base EXCEPT !.ty = "option", !.of = s]
PointerTo(s)   == [Base EXCEPT !.ty = "pointer", !.of = s]
ListOf(s)      == [Base EXCEPT !.ty = "list", !.of = s]
WrapperOf(s, fields) == [Struct(fields) EXCEPT !.ty = "wrapper", !.of = s]
Dynamic        == [Base EXCEPT !.ty = "dynamic"]

Field(name, shape) ==
    [name |-> name, shape |-> shape, flatten |-> FALSE, default |-> FALSE, category |-> "Element"]
Flattened(name, shape) == [Field(name, shape) EXCEPT !.flatten = TRUE]
Default(name, shape)   == [Field(name, shape) EXCEPT !.default = TRUE]
In(category, name, shape) == [Field(name, shape) EXCEPT !.category = category]
Variant(name, fields)  == [name |-> name, fields |-> fields]

str == Scalar("str")
u8  == Scalar("u8")
u16 == Scalar("u16")

\* u8 and u16 in one place, and a u16 that every resolution has
Number  == Enum(<<Variant("Small", <<Field("0", u8)>>), Variant("Large", <<Field("0", u16)>>)>>)
Reading == Struct(<<Field("id", u16), Flattened("value", Number)>>)

\* one variant's fields are a subset of the other's, but for an optional one
Http   == Struct(<<Field("url", str), Default("timeout", u16)>>)
Git    == Struct(<<Field("url", str), Field("branch", str)>>)
Source == Enum(<<Variant("Http", <<Field("0", Http)>>), Variant("Git", <<Field("0", Git)>>)>>)
Fetch  == Struct(<<Field("id", u16), Flattened("source", Source)>>)

\* an optional flattened enum, a wrapped one, and one nested in its variant
Auth  == Enum(<<Variant("Basic", <<Field("user", str), Field("pass", str)>>),
                Variant("Token", <<Field("token", str)>>)>>)
Retry == Enum(<<Variant("Once", <<Field("once", u8)>>), Variant("Many", <<Field("many", u8)>>)>>)
Tcp   == Struct(<<Field("host", str), Flattened("retry", Retry)>>)
Link  == Enum(<<Variant("Tcp", <<Field("0", Tcp)>>), Variant("Unix", <<Field("host", str)>>)>>)
Connect == Struct(<<Flattened("auth", OptionOf(Auth)),
                    Flattened("link", WrapperOf(Link, <<Field("0", Link)>>))>>)

\* variants that differ below a field
Kind == Enum(<<Variant("Small", <<Field("payload", Struct(<<Field("value", u8)>>))>>),
               Variant("Large", <<Field("payload", Struct(<<Field("value", u16)>>))>>),
               Variant("Other", <<Field("payload", Struct(<<Field("value", u16), Field("extra", str)>>))>>)>>)
Packet == Struct(<<Flattened("inner", Kind)>>)

\* tags, and variants of two enums with one name
Outline == [Enum(<<Variant("Disc", <<Field("r", u8)>>), Variant("Box", <<Field("w", u8)>>)>>)
                EXCEPT !.tag = "type"]
Fill    == [Enum(<<Variant("Box", <<Field("w", u8)>>), Variant("None", << >>)>>)
                EXCEPT !.tag = "fill", !.content = "with"]
Drawing == Struct(<<Flattened("outline", Outline), Flattened("fill", Fill)>>)

\* variants that are wrapped, behind smart pointers and written through a proxy,
\* in an optional enum behind a smart pointer, and a catch-all
Point  == Struct(<<Field("x", u8), Default("y", u8)>>)
Curve  == [Struct(<<Field("raw", str)>>) EXCEPT !.proxy = Point]
Line   == Enum(<<Variant("Wrapped", <<Field("0", WrapperOf(Curve, <<Field("0", Curve)>>))>>),
                 Variant("Boxed", <<Field("0", PointerTo(Tcp))>>)>>)
Plot   == Struct(<<Flattened("line", OptionOf(PointerTo(Line))), Flattened("rest", Dynamic),
                   Flattened("label", str), Field("url", OptionOf(str))>>)

\* variants that hold an Option or a list of structs
Upload == Struct(<<Flattened("body", Enum(<<Variant("Single", <<Field("0", OptionOf(Http))>>),
                                            Variant("Many", <<Field("0", ListOf(Http))>>)>>))>>)

\* one key for two places
Clash == Struct(<<Flattened("name", Struct(<<Field("url", str)>>)), Flattened("source", Source)>>)

\* attributes, elements and text
Note    == Struct(<<In("Attribute", "lang", str), In("Text", "body", str)>>)
Image   == Struct(<<In("Attribute", "src", str), Field("lang", str)>>)
Content == Enum(<<Variant("Note", <<Field("0", Note)>>), Variant("Image", <<Field("0", Image)>>)>>)
Page    == Struct(<<In("Attribute", "id", str), Flattened("content", Content)>>)

\* text fields of two names
Figure  == Struct(<<In("Text", "caption", str)>>)
Leaflet == Struct(<<Flattened("content", Enum(<<Variant("Note", <<Field("0", Note)>>),
                                                Variant("Figure", <<Field("0", Figure)>>)>>))>>)

Flat == [format |-> "Flat", repr |-> "Flattened"]
Auto == [format |-> "Flat", repr |-> "Auto"]
Dom  == [format |-> "Dom", repr |-> "Flattened"]

MCTypes == {Reading, Fetch, Connect, Packet, Drawing, Clash, Plot}

\* unwrap_transparent follows the inner shape of an Option and a list too: the
\* fields of the struct become required keys, and ForksAreTheChoices fails.
InnerTypes == {Upload}

Built ==
    ({Reading, Fetch, Connect, Packet} \X {Flat}) \cup {<<Drawing, Auto>>, <<Page, Dom>>}

KeysOf(r) == DOMAIN r.fields

\* What a format may report: every key of the schema, one that no resolution
\* knows, and the keys of the other form.
ReportedKeys(rs, how) ==
    LET keys == UNION {KeysOf(r) : r \in rs} IN
    IF how.format = "Flat" THEN {<<"Flat", k[2]>> : k \in keys} \cup {<<"Flat", "extra">>, <<"Element", "id">>}
    ELSE keys \cup {<<"Text", "">>, <<"Flat", "lang">>, <<"Element", "extra">>}

SchemaOf(root, how) ==
    LET rs == Analyze(root, how) IN
    [format |-> how.format, res |-> SetToSeq(rs), keys |-> ReportedKeys(rs, how)]

MCSchemas == {SchemaOf(b[1], b[2]) : b \in Built}

\* With the usage "texts": see_text() finds the first of two text fields, and
\* TruthSurvives fails.
TextSchemas == {SchemaOf(Leaflet, Dom)}

ASSUME BuiltAssumption == \A b \in Built : \A r \in Analyze(b[1], b[2]) : ~r.dup

-----------------------------------------------------------------------------
(* The builder against its reference *)

Selected(r) == {<<r.sel[i].path, r.sel[i].variant>> : i \in DOMAIN r.sel}

KeyPlaces(r) == {<<"key", k[2], r.fields[k].path, r.fields[k].required>> : k \in DOMAIN r.fields}

\* SchemaBuilder forks and merges a Vec of resolutions, field by field.  What
\* comes out is one resolution per way to take a variant for every flattened
\* enum that is then reached, nested ones included, each with exactly the keys,
\* places and requiredness of that choice; and the build fails if and only if a
\* choice puts two places under one key.  So it is for types like those of
\* MCTypes, in which no flattened field is a list or an Option of an Option and
\* no newtype variant holds a list or an Option; for InnerTypes it is not.  (A
\* property of the builder alone, so it is evaluated in the initial states.)
ForksAreTheChoices ==
    truth = 0 /\ seen = {} /\ candidates = Indices /\ result = NoResult =>
    \A root \in Types :
        LET rs == Analyze(root, Flat)
            picks == Picks(root) IN
        /\ {Selected(r) : r \in rs} = picks
        /\ \A P \in picks : \E r \in rs :
            /\ Selected(r) = P
            /\ r.dup <=> Twice(KeysUnder(root, P))
            /\ ~r.dup => KeyPlaces(r) = KeysUnder(root, P)
=============================================================================
