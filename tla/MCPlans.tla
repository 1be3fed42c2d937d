------------------------------ MODULE MCPlans ------------------------------
(***************************************************************************)
(* The types TLC plans, builds and validates:                              *)
(*                                                                         *)
(*   List { item: Email, next: Option<Box<List>> }                         *)
(*   Link { next: Option<Box<Link>> }, with invariants                     *)
(*   enum Tree { Leaf(Email), Branch(Vec<Tree>) }                          *)
(*   Twice { left: Form, right: Form }                                     *)
(*   Form { stamp: Stamp, number: NonZero, rows: Vec<Leaf>,                *)
(*          #[proxy = Wire] sent: Vec<Leaf>, #[xml::proxy = Leaf] mark: Stamp } *)
(*   #[proxy = Wire, xml::proxy = Leaf] Stamp { value: Leaf }              *)
(*   Wire { raw: Leaf, again: Option<Stamp> }                              *)
(*   Map<Leaf, Email>, and one with a part that cannot be deserialized;    *)
(*   Late { next: Option<Box<Late>>, item: Email } in a run of its own.    *)
(***************************************************************************)
EXTENDS Validation, NameTables, TLC

Base == [kind |-> "scalar", args |-> << >>, fields |-> << >>, variants |-> << >>,
         proxies |-> << >>, checked |-> FALSE]
Of(kind, args) == [Base EXCEPT !.kind = kind, !.args = args]
Struct(fields) == [Base EXCEPT !.kind = "struct", !.fields = fields]
Field(shape) == Plain(shape)
Proxied(shape, proxies) == [shape |-> shape, proxies |-> proxies]
Proxy(format, shape) == [format |-> format, shape |-> shape]
WithInvariants(s) == [s EXCEPT !.checked = TRUE]

MCShape == [
    Leaf     |-> Base,
    Email    |-> WithInvariants(Struct(<<Field("Leaf")>>)),
    List     |-> Struct(<<Field("Email"), Field("OptList")>>),
    OptList  |-> Of("option", <<"BoxList">>),
    BoxList  |-> Of("pointer", <<"List">>),
    Link     |-> WithInvariants(Struct(<<Field("OptLink")>>)),
    OptLink  |-> Of("option", <<"BoxLink">>),
    BoxLink  |-> Of("pointer", <<"Link">>),
    Tree     |-> [Base EXCEPT !.kind = "enum", !.variants = <<<<Field("Email")>>, <<Field("Trees")>>>>],
    Trees    |-> Of("list", <<"Tree">>),
    NonZero  |-> Of("wrapper", <<"Leaf">>),
    Rows     |-> Of("list", <<"Leaf">>),
    Stamp    |-> [WithInvariants(Struct(<<Field("Leaf")>>))
                    EXCEPT !.proxies = <<Proxy(AnyFormat, "Wire"), Proxy("xml", "Leaf")>>],
    OptStamp |-> Of("option", <<"Stamp">>),
    Wire     |-> Struct(<<Field("Leaf"), Field("OptStamp")>>),
    Form     |-> Struct(<<Field("Stamp"), Field("NonZero"), Field("Rows"),
                          Proxied("Rows", <<Proxy(AnyFormat, "Wire")>>),
                          Proxied("Stamp", <<Proxy("xml", "Leaf")>>)>>),
    Twice    |-> Struct(<<Field("Form"), Field("Form")>>),
    Table    |-> Of("map", <<"Leaf", "Email">>),
    Raw      |-> Of("unsupported", << >>),
    Broken   |-> Struct(<<Field("Leaf"), Field("Raw")>>),
    Late     |-> Struct(<<Field("OptLate"), Field("Email")>>),
    OptLate  |-> Of("option", <<"BoxLate">>),
    BoxLate  |-> Of("pointer", <<"Late">>)]

MCRoots == {"List", "Link", "Tree", "Trees", "Twice", "Table", "Broken"}

\* A recursive type whose checked part comes after the recursive one: what
\* is asked about OptLate and BoxLate on the way is `no`, because Late is
\* busy, and the memo keeps it.  Run late_invariants: no value below `next`
\* is validated, in the first build() already.
LateRoots == {"Late"}

MaxFields == 5
MCFormats == {"xml", "json"}
Never == {}
Bypassing == {"bypass"}

-----------------------------------------------------------------------------
\* Values with at most `depth` containers inside each other.
RECURSIVE ValuesOf(_, _)
ValuesOf(shape, depth) ==
    LET s == Shape[shape]
        sound == IF s.checked THEN BOOLEAN ELSE {TRUE}
        Tuples(fields) ==
            FoldLeft(LAMBDA acc, f : {Append(t, v) : t \in acc, v \in ValuesOf(f.shape, depth)},
                     {<< >>}, fields)
        One(i) == {<<v>> : v \in ValuesOf(s.args[i], depth - 1)}
        Parts ==
            CASE s.kind = "struct" -> Tuples(s.fields)
              [] s.kind = "enum" -> UNION {Tuples(s.variants[v]) : v \in DOMAIN s.variants}
              [] s.kind = "pointer" -> IF depth = 0 THEN {} ELSE One(1)
              [] s.kind \in {"option", "list"} -> {<< >>} \cup (IF depth = 0 THEN {} ELSE One(1))
              [] s.kind = "map" -> {<< >>} \cup {k \o v : k \in One(1), v \in One(2)}
              [] OTHER -> {<< >>} IN
    {[shape |-> shape, sound |-> ok, parts |-> ps] : ok \in sound, ps \in Parts}

MCInit == ValidationInit

Quiet == memo' = memo /\ verdict' = NoVerdict

MCNext ==
    \/ Reuse /\ Quiet
    \/ ReferBack /\ Quiet
    \/ BuildNode /\ Quiet
    \/ Unsupported /\ Quiet
    \/ Alloc /\ Quiet
    \/ Finish /\ Quiet
    \/ \E shape \in Roots : FromCache(shape) /\ Quiet
    \/ \E shape \in Roots : FromShape(shape) /\ Quiet
    \/ \E i \in 1..MaxFields : BeginField(i) /\ Quiet
    \/ \E i \in 1..2 : BeginPart(i) /\ Quiet
    \/ BeginInner /\ Quiet
    \/ \E format \in Formats : BeginProxy(format) /\ Quiet
    \/ End /\ Quiet
    \/ Len(frames) = 1 /\ \E v \in ValuesOf(Current.shape, 3) : Build(v)
    \/ Drop

\* A plan is made inside one call.
Spec == MCInit /\ [][MCNext]_allVars /\ WF_allVars(BuilderNext /\ Quiet)

-----------------------------------------------------------------------------
(* The tables of names against their reference *)

Names == UNION {[1..n -> {0, 1}] : n \in 0..2}
ShortNames == {<<0>>, <<1>>, <<0, 1>>}
Named(names) == {[name |-> n, aliases |-> << >>] : n \in names}
Aliased(names) == Named(names) \cup {[name |-> n, aliases |-> <<a>>] : n \in names, a \in names}

FieldLists == [1..2 -> Aliased(Names)] \cup [1..3 -> Named(Names)]

VariantLists ==
    {vs \in [1..3 -> [name : ShortNames, aliases : {<< >>} \cup {<<a>> : a \in ShortNames}, other : BOOLEAN]] :
        \A i, j \in 1..3 : vs[i].name = vs[j].name /\ ~vs[i].other /\ ~vs[j].other => i = j}

Lowest(S) == IF S = {} THEN NoIndex ELSE CHOOSE i \in S : \A j \in S : i <= j

FieldNamed(fs, name) ==
    Lowest({i \in DOMAIN fs : name = fs[i].name \/ name \in Range(fs[i].aliases)})

VariantNamed(vs, name) ==
    LET called == {i \in DOMAIN vs : ~vs[i].other /\ vs[i].name = name}
        alias == {i \in DOMAIN vs : ~vs[i].other /\ name \in Range(vs[i].aliases)} IN
    Lowest(IF called # {} THEN called ELSE alias)

(***************************************************************************)
(* A name finds the first field that has it as its name or alias; among    *)
(* variants one that has it as its name, or else the first with the alias, *)
(* and never the fallback.  So it is in a list of any length, in buckets   *)
(* by a short or a long prefix and in a sorted table.  (The tables do not  *)
(* depend on the state: they are looked at in the initial one.)            *)
(***************************************************************************)
TablesAgree ==
    status = "idle" /\ partials = 0 =>
        /\ \A fs \in FieldLists :
            LET table == FieldLookup(EntriesOf(fs)) IN
            \A name \in Names : FindField(table, name) = FieldNamed(fs, name)
        /\ \A vs \in VariantLists, name \in ShortNames :
            FindVariant(vs, name) = {VariantNamed(vs, name)}
=============================================================================
