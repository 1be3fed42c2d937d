------------------------------ MODULE Choices ------------------------------
(***************************************************************************)
(* Building values behind a choice: enums, Options, Results, and smart     *)
(* pointers, which have no choice but are built like an Option.            *)
(*                                                                         *)
(* An enum's variants share memory, and its frame tracks the fields of one *)
(* of them.  The value inside one of the others is built in a buffer of    *)
(* its own and moved later: in strict mode when it ends, but an Option's   *)
(* frame keeps the buffer as pending_inner until it is completed; in       *)
(* deferred mode the inner frame is stored and the walk of finish_deferred *)
(* moves it.  A smart pointer's heap memory is thought of as below it.     *)
(*                                                                         *)
(* The value is the field of a struct of one field, so that a choice can   *)
(* be left and entered again.  Structs and leaves behave as in Partial,    *)
(* trackers keep their bits in an ISet.  Type and field defaults are left  *)
(* out, but for the None of an Option nobody set.                          *)
(***************************************************************************)
EXTENDS ISet, FiniteSets, SequencesExt

CONSTANTS
    Types,      \* the shapes of the field
    Usage       \* ways of calling that NoInvalidDrop and NothingLost do not
                \* survive: "switch" variants when the old one has parts only
                \* its bits know of, or parts within stored parts;
                \* "linger" in an Option that was entered again;
                \* begin_some "again" in deferred mode, without leaving;
                \* "result": deferred mode around or inside a Result

ASSUME ChoicesAssumption == Usage \subseteq {"switch", "linger", "again", "result"}

VARIABLES
    type,       \* the shape of the field
    mode,       \* FrameMode: "Strict" or "Deferred"
    startDepth, \* FrameMode::Deferred::start_depth
    stack,      \* the frames from the root down
    stored,     \* stored_frames: path -> frame
    phase,      \* which call, or loop of a call, is running
    mem,        \* the memory: its cells, its live buffers, what went wrong
    chosen      \* history: the variant the caller chose, or 0 for None and
                \* Err, 1 for Some, Ok and what a pointer points to

vars == <<type, mode, startDepth, stack, stored, phase, mem, chosen>>

-----------------------------------------------------------------------------
(* Shapes and places.                                                      *)
(*                                                                         *)
(* A step is the number of a field, or InnerStep (OptionSome and Deref),   *)
(* which comes after them in the order of PathStep.  A place is the number *)
(* of a buffer and the steps below it; buffer 0 is the root's.             *)

None == << >>
Some(x) == <<x>>
InnerStep == 9

Leaf == [kind |-> "leaf"]
Struct(fields) == [kind |-> "struct", fields |-> fields]
Enum(variants) == [kind |-> "enum", variants |-> variants]
\* inner[1] has tag 1, inner[2] has tag 0.
Option(inner) == [kind |-> "option", inner |-> <<inner>>]
Pointer(pointee) == [kind |-> "pointer", inner |-> <<pointee>>]
ResultOf(ok, err) == [kind |-> "result", inner |-> <<ok, err>>]

\* What is behind tag n, if anything.
Behind(s, n) == IF n = 1 THEN Some(s.inner[1])
                ELSE IF s.kind = "result" THEN Some(s.inner[2]) ELSE None

Root == <<0>>
RootShape == Struct(<<type>>)
Choice == <<0, 0>>

NewFrame(shape, at, own) ==
    [shape |-> shape, at |-> at, own |-> own,
     tracker |-> "Scalar",
     isInit |-> shape.kind = "struct" /\ shape.fields = << >>,
     iset |-> << >>, variant |-> 0,         \* Tracker::Struct, Tracker::Enum
     cur |-> None,                          \* current_child
     building |-> FALSE, is |-> 1,          \* building_inner, is_ok
     pending |-> None]                      \* Tracker::Option

Tracked(f, t) ==
    [NewFrame(f.shape, f.at, f.own) EXCEPT !.tracker = t, !.isInit = FALSE]

\* get_fields
Fields(f) == IF f.shape.kind = "struct" THEN f.shape.fields
             ELSE f.shape.variants[f.variant]
Count(f) == Len(Fields(f))
HasFields(f) == f.tracker \in {"Struct", "Enum"}

Top == stack[Len(stack)]
SetTop(f) == [stack EXCEPT ![Len(stack)] = f]
Pop(s) == SubSeq(s, 1, Len(s) - 1)

Removed(p) == [q \in DOMAIN stored \ {p} |-> stored[q]]

\* The step a frame contributes to paths.  A Result has none.
StepOf(f) == IF HasFields(f) THEN f.cur
             ELSE IF f.building /\ f.tracker # "Result" THEN Some(InnerStep) ELSE None
StoragePath == FlattenSeq([i \in 1..Len(stack) - 1 |-> StepOf(stack[i])])
DerivePath == StoragePath \o StepOf(Top)

-----------------------------------------------------------------------------
(* The memory.  A cell is the place of a leaf's value ("value"), of an     *)
(* enum's discriminant ("variant") or of an Option's or Result's tag.      *)

Cell(m, p, is) == p \in DOMAIN m.at /\ m.at[p].is = is
Values(m) == {p \in DOMAIN m.at : m.at[p].is = "value"}
Fault(m, bad, what) == IF bad THEN [m EXCEPT !.faults = @ \cup {what}] ELSE m

RECURSIVE Whole(_, _, _), Leaves(_, _, _)

\* A value of the shape is at place p.
Whole(m, s, p) ==
    LET AllAt(fs) == \A i \in 1..Len(fs) : Whole(m, fs[i], Append(p, i - 1)) IN
    CASE s.kind = "leaf" -> Cell(m, p, "value")
      [] s.kind = "struct" -> AllAt(s.fields)
      [] s.kind = "enum" -> Cell(m, p, "variant") /\ AllAt(s.variants[m.at[p].n])
      [] OTHER -> /\ Cell(m, p, "tag")
                  /\ \A x \in Range(Behind(s, m.at[p].n)) : Whole(m, x, Append(p, InnerStep))

\* The leaves of the whole value at p.
Leaves(m, s, p) ==
    LET AllAt(fs) == UNION {Leaves(m, fs[i], Append(p, i - 1)) : i \in 1..Len(fs)} IN
    CASE s.kind = "leaf" -> {p}
      [] s.kind = "struct" -> AllAt(s.fields)
      [] s.kind = "enum" -> AllAt(s.variants[m.at[p].n])
      [] OTHER -> UNION {Leaves(m, x, Append(p, InnerStep)) : x \in Range(Behind(s, m.at[p].n))}

Without(m, p) ==
    [m EXCEPT !.at = [q \in {r \in DOMAIN m.at : ~IsPrefix(p, r)} |-> m.at[q]]]

\* drop_in_place of a value of shape s.
Dropped(m, s, p) ==
    IF Whole(m, s, p)
    THEN LET others == {q \in Values(m) : IsPrefix(p, q)} \ Leaves(m, s, p) IN
         Fault(Without(m, p), others # {}, "lost a value")
    ELSE Fault(m, TRUE, "invalid drop")

\* A cell is written.  Values that overlap it are lost; but a discriminant is
\* beside the fields.
Put(m, p, is, n) ==
    LET over == {q \in Values(m) : IsPrefix(q, p) \/ (is # "variant" /\ IsPrefix(p, q))} IN
    Fault([m EXCEPT !.at = [q \in (DOMAIN m.at \ over) \cup {p} |->
                               IF q = p THEN [is |-> is, n |-> n] ELSE m.at[q]]],
          over # {}, "lost a value")

RECURSIVE PutWhole(_, _, _, _)

\* Some whole value is written: of an enum variant n, of the others tag n.
PutWhole(m, s, p, n) ==
    LET PutAll(fs, m0) ==
            FoldLeft(LAMBDA acc, i : PutWhole(acc, fs[i], Append(p, i - 1), n),
                     m0, [i \in 1..Len(fs) |-> i]) IN
    CASE s.kind = "leaf" -> Put(m, p, "value", 0)
      [] s.kind = "struct" -> PutAll(s.fields, m)
      [] s.kind = "enum" -> PutAll(s.variants[n], Put(m, p, "variant", n))
      [] OTHER -> FoldSet(LAMBDA x, acc : PutWhole(acc, x, Append(p, InnerStep), 1),
                          Put(m, p, "tag", n), Range(Behind(s, n)))

\* The buffer at place p is freed.
Freed(m, p) ==
    LET m1 == Fault(m, \E q \in Values(m) : IsPrefix(p, q), "lost a value")
        m2 == Fault(m1, Len(p) > 1 \/ p[1] \notin m.bufs, "invalid free") IN
    [Without(m2, p) EXCEPT !.bufs = @ \ {p[1]}]

\* init_some, init_ok, init_err, new_into_fn: the value at place `from` is moved
\* behind tag n at p.
InitInner(m, s, p, n, from) ==
    LET m1 == Put(m, p, "tag", n)
        moved == {q \in DOMAIN m.at : IsPrefix(from, q)}
        target(q) == Append(p, InnerStep) \o SubSeq(q, Len(from) + 1, Len(q))
        targets == {target(q) : q \in moved} IN
    IF ~Whole(m, Behind(s, n)[1], from) THEN Fault(m, TRUE, "invalid drop")
    ELSE [m1 EXCEPT !.at =
             [q \in (DOMAIN m1.at \ moved) \cup targets |->
                 IF q \in targets THEN m.at[CHOOSE r \in moved : target(r) = q]
                 ELSE m1.at[q]]]

-----------------------------------------------------------------------------
(* Giving a frame up.  Each operator returns the memory; the frame is gone *)
(* or reset to Tracked(f, "Scalar").                                       *)

DropFields(m, f) ==
    FoldLeft(LAMBDA acc, i : IF GetBit(f.iset, i - 1)
                             THEN Dropped(acc, Fields(f)[i], Append(f.at, i - 1)) ELSE acc,
             m, [i \in 1..Count(f) |-> i])

Deinit(m, f) ==
    CASE f.tracker \in {"Scalar", "SmartPointer"} ->
            IF f.isInit THEN Dropped(m, f.shape, f.at) ELSE m
      [] f.tracker = "Struct" -> IF AllSet(f.iset, Count(f)) THEN Dropped(m, f.shape, f.at)
                                 ELSE DropFields(m, f)
      [] f.tracker = "Enum" -> DropFields(m, f)
      [] f.pending # None ->
            Freed(Dropped(m, f.shape.inner[1], f.pending[1]), f.pending[1])
      [] f.building -> m
      [] OTHER -> Dropped(m, f.shape, f.at)

\* An enum with all its bits is a complete value, with a destructor to run.
DeinitForCancellation(m, f) ==
    IF f.tracker = "Enum" /\ AllSet(f.iset, Count(f))
    THEN Dropped(m, f.shape, f.at) ELSE Deinit(m, f)

\* Slip: the buffer of begin_some is thought to be the Option's.
DeallocRoot(m, f) == IF f.own = "Owned" /\ f.at = Root THEN Freed(m, f.at) ELSE m

\* FrameOwnership::needs_dealloc
Dealloc(m, f) == IF f.own = "Owned" THEN Freed(m, f.at) ELSE m

-----------------------------------------------------------------------------
(* Completing a frame *)

SetField(f, i) == [f EXCEPT !.iset = SetBit(@, i)]

\* set_current_child and clear_current_child know none of the others.
SetCurrentChild(f, i) == IF HasFields(f) THEN [f EXCEPT !.cur = Some(i)] ELSE f
ClearCurrentChild(f) == [f EXCEPT !.cur = None]

\* The Scalar frame of a struct gets a tracker, with the bits of what it has.
AsStruct(f) ==
    LET s == NewISet(Len(f.shape.fields)) IN
    [f EXCEPT !.tracker = "Struct",
              !.iset = IF f.isInit THEN SetAll(s, Len(f.shape.fields)) ELSE s]

\* Slip: it is not asked which fields are set.
FillAllFields(m, f) ==
    LET missing == {i \in 0..Count(f) - 1 : Fields(f)[i + 1].kind = "option"} IN
    [m |-> FoldSet(LAMBDA i, acc : Put(acc, Append(f.at, i), "tag", 0), m, missing),
     f |-> FoldSet(LAMBDA i, acc : SetField(acc, i), f, missing)]

\* fill_defaults, fill_and_require_fields: an Option nobody set is None.
FillFields(m, f) ==
    LET missing == {i \in 0..Count(f) - 1 :
                        ~GetBit(f.iset, i) /\ Fields(f)[i + 1].kind = "option"} IN
    [m |-> FoldSet(LAMBDA i, acc : Put(acc, Append(f.at, i), "tag", 0), m, missing),
     f |-> FoldSet(LAMBDA i, acc : SetField(acc, i), f, missing)]

Filled(m, f) ==
    LET untouched == f.tracker = "Scalar" /\ ~f.isInit IN
    IF untouched /\ f.shape.kind = "option"
    THEN [m |-> Put(m, f.at, "tag", 0), f |-> [f EXCEPT !.isInit = TRUE]]
    ELSE IF untouched /\ f.shape.kind = "struct" THEN FillFields(m, AsStruct(f))
    ELSE IF HasFields(f) THEN FillFields(m, f)
    ELSE [m |-> m, f |-> f]

\* require_full_initialization
Complete(f) ==
    CASE f.tracker = "Scalar" -> f.isInit
      [] f.tracker = "SmartPointer" -> ~f.building /\ f.isInit
      [] f.tracker = "Struct" -> AllSet(f.iset, Count(f))
      [] f.tracker = "Enum" -> \A i \in 0..Count(f) - 1 : GetBit(f.iset, i)
      [] OTHER -> ~f.building

\* complete_pending_option
Finish(m, f) ==
    IF f.pending # None
    THEN Freed(InitInner(m, f.shape, f.at, 1, f.pending[1]), f.pending[1]) ELSE m
Finished(f) == [f EXCEPT !.pending = None]

-----------------------------------------------------------------------------
(* Building *)

Active == phase = "Active"

\* The usage "linger": an Option that is entered again is neither being built
\* nor initialized, and its frame says it is complete.
Lingers == Top.tracker = "Option" /\ ~Top.building /\ Top.pending = None /\ ~Top.isInit
MayCall == Active /\ ("linger" \in Usage \/ ~Lingers)

Init ==
    /\ type \in Types
    /\ mode = "Strict" /\ startDepth = 0
    /\ stack = <<NewFrame(RootShape, Root, "Owned")>>
    /\ stored = << >>
    /\ phase = "Active"
    /\ mem = [at |-> << >>, bufs |-> {0}, faults |-> {}]
    /\ chosen = 0

\* Which whole values there are: the variants, or the tags.
Wholes == CASE type.kind = "enum" -> 1..Len(type.variants)
            [] type.kind \in {"option", "result"} -> {0, 1}
            [] OTHER -> {1}

PartsStored ==
    \E p \in DOMAIN stored : Len(p) > Len(StoragePath) /\ IsPrefix(StoragePath, p)

\* set and its kin.  What replacing a place with stored parts does is left to
\* Partial's usage "overwrite_stored".
SetWhole(n) ==
    /\ MayCall /\ ~PartsStored
    /\ n = 1 \/ Top.at \in {Root, Choice}
    /\ mem' = PutWhole(Deinit(mem, Top), Top.shape, Top.at, n)
    /\ stack' = SetTop([Tracked(Top, "Scalar") EXCEPT !.isInit = TRUE])
    /\ chosen' = IF Top.at \in {Root, Choice} THEN n ELSE chosen
    /\ UNCHANGED <<type, mode, startDepth, stored, phase>>

\* begin_nth_struct_field, begin_nth_enum_field
EnterField(f, i) ==
    LET g == IF f.shape.kind = "struct" /\ f.tracker # "Struct" THEN AsStruct(f) ELSE f IN
    [parent |-> [g EXCEPT !.cur = Some(i), !.iset = UnsetBit(@, i)],
     child |-> [NewFrame(Fields(g)[i + 1], Append(g.at, i), "Field") EXCEPT
                   !.isInit = GetBit(g.iset, i)]]

\* A stored frame that is entered again by begin_nth_field.
Restored(f) == [ClearCurrentChild(f) EXCEPT !.building = f.tracker # "Option" /\ @]

StoredUnder(path) == mode = "Deferred" /\ path \in DOMAIN stored

BeginField(i) ==
    LET path == Append(DerivePath, i)
        entered == EnterField(Top, i) IN
    /\ MayCall
    /\ Top.shape.kind = "struct" \/ Top.tracker = "Enum"
    /\ i < Count(Top)
    /\ IF StoredUnder(path)
       THEN /\ stack' = Append(SetTop(SetCurrentChild(Top, i)), Restored(stored[path]))
            /\ stored' = Removed(path)
       ELSE /\ stack' = Append(SetTop(entered.parent), entered.child)
            /\ UNCHANGED stored
    /\ UNCHANGED <<type, mode, startDepth, phase, mem, chosen>>

-----------------------------------------------------------------------------
(* Choosing *)

Same(p, q, n) == \A j \in 1..n : p[j] = q[j]

\* The order of Path: step by step, and a prefix first.
KeyBefore(p, q) ==
    \/ Len(p) < Len(q) /\ IsPrefix(p, q)
    \/ \E i \in 1..Len(p) : i <= Len(q) /\ p[i] < q[i] /\ Same(p, q, i - 1)

\* The stored frames below the enum on top.
StoredBelow == {p \in DOMAIN stored : Len(p) > Len(DerivePath) /\ IsPrefix(DerivePath, p)}

\* Slip: the stored fields of the old variant stay.
OfOldVariantKept(v) == {}

\* The stored frames that belong to the fields of the old variant.
OfOldVariant(v) ==
    IF mode = "Deferred" /\ Top.tracker = "Enum" /\ Top.variant # v
    THEN StoredBelow ELSE {}

\* The usage "switch".  Otherwise all the old variant has is in stored frames,
\* none of them within another.
MaySwitch(v) ==
    \/ "switch" \in Usage
    \/ Top.tracker = "Enum" /\ Top.variant = v
    \/ Top.tracker = "Scalar" /\ ~Top.isInit
    \/ /\ Top.tracker = "Enum"
       /\ \A p \in StoredBelow : Len(p) = Len(DerivePath) + 1
       /\ \A i \in 0..Count(Top) - 1 :
             GetBit(Top.iset, i) => Append(DerivePath, i) \in StoredBelow

\* select_variant_internal.  The frames removed are deinitialized and not
\* deallocated, in the order of the map; the old variant's bits are forgotten.
SelectVariant(v) ==
    LET same == Top.tracker = "Enum" /\ Top.variant = v
        gone == SetToSortSeq(OfOldVariant(v), KeyBefore)
        cleaned == FoldLeft(LAMBDA acc, p : Deinit(acc, stored[p]), mem, gone) IN
    /\ MayCall /\ Top.shape.kind = "enum" /\ v \in 1..Len(Top.shape.variants)
    /\ MaySwitch(v)
    /\ mem' = Put(cleaned, Top.at, "variant", v)
    /\ stored' = [q \in DOMAIN stored \ OfOldVariant(v) |-> stored[q]]
    /\ stack' = SetTop([Top EXCEPT
                    !.tracker = "Enum", !.variant = v, !.cur = None,
                    !.iset = IF same THEN @ ELSE NewISet(Len(Top.shape.variants[v]))])
    /\ chosen' = IF Top.at = Choice THEN v ELSE chosen
    /\ UNCHANGED <<type, mode, startDepth, phase>>

FreshBuffer == CHOOSE b \in 0..Cardinality(mem.bufs) : b \notin mem.bufs

\* The frame on top becomes f, and the value behind tag n is begun in a new
\* buffer; m is the memory before that.
PushInner(f, n, m) ==
    /\ stack' = Append(SetTop(f), NewFrame(Behind(f.shape, n)[1], <<FreshBuffer>>, "Owned"))
    /\ mem' = [m EXCEPT !.bufs = @ \cup {FreshBuffer}]
    /\ UNCHANGED stored

\* The stored inner frame at the path is entered again.
ResumeInner(f, path, m) ==
    /\ stack' = Append(SetTop(f), ClearCurrentChild(stored[path]))
    /\ stored' = Removed(path)
    /\ mem' = m

\* The Option is complete and its inner value, a struct or an enum, would be
\* entered in place: that is left out.  Its frame would be borrowed, and its end
\* would not tell the Option.
EntersInPlace == Top.tracker = "Scalar" /\ Top.isInit /\ mode = "Deferred"
            /\ Top.shape.inner[1].kind \in {"struct", "enum"}

BeginSome ==
    LET reinit == Top.isInit
        option == [(IF reinit THEN Tracked(Top, "Scalar") ELSE Top) EXCEPT
                      !.tracker = "Option", !.building = TRUE, !.pending = None]
        path == (IF reinit THEN StoragePath ELSE DerivePath) \o Some(InnerStep)
        m == IF reinit THEN Deinit(mem, Top) ELSE mem IN
    /\ Active /\ Top.shape.kind = "option"
    /\ "again" \in Usage \/ ~Top.building
    /\ ~EntersInPlace
    /\ IF StoredUnder(path) THEN ResumeInner(option, path, m) ELSE PushInner(option, 1, m)
    /\ chosen' = IF Top.at = Choice THEN 1 ELSE chosen
    /\ UNCHANGED <<type, mode, startDepth, phase>>

\* begin_smart_ptr.  A pointer that is entered again says still that it is being
\* built, and that is how its pointee is found.
BeginSmartPtr ==
    LET pointer == [Tracked(Top, "SmartPointer") EXCEPT !.building = TRUE] IN
    /\ MayCall /\ Top.shape.kind = "pointer"
    /\ IF Top.building /\ StoredUnder(DerivePath)
       THEN ResumeInner(pointer, DerivePath, Deinit(mem, Top))
       ELSE PushInner(pointer, 1, Deinit(mem, Top))
    /\ chosen' = IF Top.at = Choice THEN 1 ELSE chosen
    /\ UNCHANGED <<type, mode, startDepth, phase>>

\* begin_ok (n = 1), begin_err (n = 0).  Nothing is looked up.
BeginResult(n) ==
    /\ MayCall /\ Top.shape.kind = "result"
    /\ mode = "Strict" \/ "result" \in Usage
    /\ PushInner([Tracked(Top, "Result") EXCEPT !.building = TRUE, !.is = n], n,
                 Deinit(mem, Top))
    /\ chosen' = IF Top.at = Choice THEN n ELSE chosen
    /\ UNCHANGED <<type, mode, startDepth, phase>>

-----------------------------------------------------------------------------
(* Ending *)

\* Slip: an Option goes on building.
TakeChildBuilding(f, child) ==
    IF child.own = "Field" THEN [SetField(f, child.at[Len(child.at)]) EXCEPT !.cur = None]
    ELSE [f EXCEPT !.pending = Some(child.at), !.isInit = TRUE]

\* What the parent f records of the child that ended: its bit, or its buffer,
\* or that the value is in place.
TakeChild(f, child) ==
    CASE child.own = "Field" -> [SetField(f, child.at[Len(child.at)]) EXCEPT !.cur = None]
      [] f.tracker = "Option" ->
            IF f.building
            THEN [f EXCEPT !.pending = Some(child.at), !.building = FALSE, !.isInit = TRUE]
            ELSE f
      [] f.tracker = "SmartPointer" -> [Tracked(f, "Scalar") EXCEPT !.isInit = TRUE]
      [] OTHER -> [f EXCEPT !.building = FALSE, !.isInit = TRUE]

\* A pointer and a Result take the value at once.
TakeValue(m, f, child) ==
    IF f.tracker \in {"SmartPointer", "Result"}
    THEN Dealloc(InitInner(m, f.shape, f.at, f.is, child.at), child) ELSE m

EndStrict ==
    LET r == Filled(mem, Top)
        parent == stack[Len(stack) - 1] IN
    /\ MayCall /\ mode = "Strict" /\ Len(stack) > 1
    /\ Complete(r.f)
    /\ mem' = TakeValue(Finish(r.m, r.f), parent, Top)
    /\ stack' = [Pop(stack) EXCEPT ![Len(stack) - 1] = TakeChild(parent, Top)]
    /\ UNCHANGED <<type, mode, startDepth, stored, phase, chosen>>

\* The usage "result".  Otherwise no Result is being built.
BeginDeferred ==
    /\ MayCall /\ mode = "Strict"
    /\ "result" \in Usage \/ \A i \in DOMAIN stack : stack[i].tracker = "Result" => ~stack[i].building
    /\ mode' = "Deferred" /\ startDepth' = Len(stack)
    /\ UNCHANGED <<type, stack, stored, phase, mem, chosen>>

\* mark_field_initialized_by_index
MarkField(f, i) ==
    LET g == IF f.tracker = "Scalar" /\ f.shape.kind = "struct"
             THEN [f EXCEPT !.tracker = "Struct", !.iset = NewISet(Len(f.shape.fields))]
             ELSE f IN
    IF HasFields(g) THEN SetField(g, i) ELSE g

\* The frame is stored unchecked, and a parent with fields marks it already;
\* the others go on building.
EndDeferred ==
    LET parent == stack[Len(stack) - 1]
        marked == IF Top.own = "Field"
                  THEN MarkField(parent, Top.at[Len(Top.at)]) ELSE parent IN
    /\ MayCall /\ mode = "Deferred" /\ Len(stack) > 1 /\ Len(stack) > startDepth
    /\ stored' = [q \in DOMAIN stored \cup {StoragePath} |->
                     IF q = StoragePath THEN Top ELSE stored[q]]
    /\ stack' = [Pop(stack) EXCEPT ![Len(stack) - 1] = ClearCurrentChild(marked)]
    /\ UNCHANGED <<type, mode, startDepth, phase, mem, chosen>>

FinishDeferred ==
    /\ MayCall /\ mode = "Deferred"
    /\ mode' = "Strict" /\ startDepth' = 0
    /\ phase' = "Walking"
    /\ UNCHANGED <<type, stack, stored, mem, chosen>>

-----------------------------------------------------------------------------
(* The walk of finish_deferred *)

\* The order of the walk and of the clean-up: the deepest first, equal depths
\* step by step.
Before(p, q) == Len(p) > Len(q) \/ (Len(p) = Len(q) /\ KeyBefore(p, q))
First(p) == \A q \in DOMAIN stored \ {p} : Before(p, q)

\* The parent is looked up among the stored frames by path, then on the stack
\* by depth.
ParentIsStored(p) == Front(p) \in DOMAIN stored
ParentOf(p) == IF ParentIsStored(p) THEN stored[Front(p)] ELSE stack[Len(p)]

\* The frame p is gone and its parent is f.
HandToParent(p, f) ==
    IF ParentIsStored(p)
    THEN stored' = [Removed(p) EXCEPT ![Front(p)] = f] /\ UNCHANGED stack
    ELSE stored' = Removed(p) /\ stack' = [stack EXCEPT ![Len(p)] = f]

\* clear_parent_iset_for_path, unset_field_in_tracker
Cleared(p) ==
    IF Last(p) # InnerStep /\ HasFields(ParentOf(p))
    THEN [ParentOf(p) EXCEPT !.iset = UnsetBit(@, Last(p))] ELSE ParentOf(p)

\* Slip: the parent goes on building.
CompleteInnerNot(f) == [f EXCEPT !.pending = None, !.isInit = TRUE]

\* complete_option_frame, complete_smart_pointer_frame, on the parent's frame
CompleteInner(f) ==
    [f EXCEPT !.tracker = IF f.shape.kind = "option" THEN "Option" ELSE "SmartPointer",
              !.building = FALSE, !.pending = None, !.isInit = TRUE]

\* One stored frame that is complete.
WalkFrame(p) ==
    LET r == Filled(mem, stored[p])
        m == Finish(r.m, r.f) IN
    /\ phase = "Walking" /\ First(p)
    /\ Complete(r.f)
    /\ IF Last(p) = InnerStep
       THEN /\ mem' = Dealloc(InitInner(m, ParentOf(p).shape, ParentOf(p).at, 1, r.f.at), r.f)
            /\ HandToParent(p, CompleteInner(ParentOf(p)))
       ELSE /\ mem' = Dealloc(m, r.f)
            /\ HandToParent(p, MarkField(ParentOf(p), Last(p)))
    /\ UNCHANGED <<type, mode, startDepth, phase, chosen>>

\* One that is not: it drops what it has, and the clean-up follows.
WalkFails(p) ==
    LET r == Filled(mem, stored[p]) IN
    /\ phase = "Walking" /\ First(p)
    /\ ~Complete(r.f)
    /\ mem' = Dealloc(Deinit(r.m, r.f), r.f)
    /\ HandToParent(p, Cleared(p))
    /\ phase' = "Cleaning"
    /\ UNCHANGED <<type, mode, startDepth, chosen>>

\* The frame on top of the stack is filled and checked last.
WalkTop ==
    LET r == Filled(mem, Top) IN
    /\ phase = "Walking" /\ DOMAIN stored = {}
    /\ mem' = IF Complete(r.f) THEN Finish(r.m, r.f) ELSE r.m
    /\ stack' = SetTop(IF Complete(r.f) THEN Finished(r.f) ELSE r.f)
    /\ phase' = IF Complete(r.f) THEN "Active" ELSE "Dropping"
    /\ UNCHANGED <<type, mode, startDepth, stored, chosen>>

-----------------------------------------------------------------------------
(* The end *)

\* build(), after finish_deferred() where there is deferred mode.
Build ==
    LET r == Filled(mem, Top) IN
    /\ MayCall /\ mode = "Strict" /\ Len(stack) = 1
    /\ Complete(r.f)
    /\ mem' = Finish(r.m, r.f)
    /\ stack' = << >>
    /\ phase' = "Built"
    /\ UNCHANGED <<type, mode, startDepth, stored, chosen>>

\* The caller drops the Partial, or makes a call that fails.
Cancel ==
    /\ MayCall
    /\ phase' = "Dropping"
    /\ UNCHANGED <<type, mode, startDepth, stack, stored, mem, chosen>>

\* One stored frame, in cleanup_stored_frames_on_error or in Drop.
CleanStored(p) ==
    LET f == stored[p] IN
    /\ phase \in {"Cleaning", "Dropping"} /\ First(p)
    /\ mem' = Dealloc(IF phase = "Cleaning" THEN Deinit(mem, f)
                      ELSE DeinitForCancellation(mem, f), f)
    /\ HandToParent(p, Cleared(p))
    /\ UNCHANGED <<type, mode, startDepth, phase, chosen>>

CleanedUp ==
    /\ phase = "Cleaning" /\ DOMAIN stored = {}
    /\ phase' = "Dropping"
    /\ UNCHANGED <<type, mode, startDepth, stack, stored, mem, chosen>>

\* One frame of the stack; the parent's bit goes first.
DropFrame ==
    LET rest == Pop(stack)
        parent == rest[Len(rest)] IN
    /\ phase = "Dropping" /\ DOMAIN stored = {}
    /\ mem' = Dealloc(DeinitForCancellation(mem, Top), Top)
    /\ stack' = IF Top.own = "Field" /\ HasFields(parent)
                THEN [rest EXCEPT ![Len(rest)].iset = UnsetBit(@, Last(Top.at))] ELSE rest
    /\ phase' = IF Len(stack) = 1 THEN "Dropped" ELSE phase
    /\ UNCHANGED <<type, mode, startDepth, stored, chosen>>

-----------------------------------------------------------------------------
(* The specification *)

Call ==
    \/ \E n \in Wholes \cup {1} : SetWhole(n)
    \/ \E i \in 0..2 : BeginField(i)
    \/ \E v \in 1..3 : SelectVariant(v)
    \/ \E n \in {0, 1} : BeginResult(n)
    \/ BeginSome \/ BeginSmartPtr \/ EndStrict \/ EndDeferred
    \/ BeginDeferred \/ FinishDeferred \/ Build \/ Cancel

Loop ==
    \/ \E p \in DOMAIN stored : WalkFrame(p) \/ WalkFails(p) \/ CleanStored(p)
    \/ WalkTop \/ CleanedUp \/ DropFrame

Next == Call \/ Loop

Spec == Init /\ [][Next]_vars

-----------------------------------------------------------------------------
(* Properties *)

Frames == {stack[i] : i \in 1..Len(stack)} \cup {stored[p] : p \in DOMAIN stored}

(***************************************************************************)
(* The state is well formed: a frame's tracker is one of its shape, with   *)
(* as many bits as the struct or the chosen variant has fields, its place  *)
(* and what it has pending lie in live buffers, and an Option that has an  *)
(* inner value pending is not building one (Tracker, mod.rs).              *)
(***************************************************************************)
TypeOK ==
    /\ type \in Types
    /\ mode \in {"Strict", "Deferred"}
    /\ phase \in {"Active", "Walking", "Cleaning", "Dropping", "Dropped", "Built"}
    /\ \A f \in Frames :
          /\ f.tracker \in {"Scalar"} \cup
                CASE f.shape.kind = "struct" -> {"Struct"}
                  [] f.shape.kind = "enum" -> {"Enum"}
                  [] f.shape.kind = "option" -> {"Option"}
                  [] f.shape.kind = "pointer" -> {"SmartPointer"}
                  [] f.shape.kind = "result" -> {"Result"}
                  [] OTHER -> {}
          /\ HasFields(f) => f.iset \in ISets(Count(f))
          /\ f.own \in {"Owned", "Field"}
          /\ f.at[1] \in mem.bufs
          /\ f.pending # None => ~f.building /\ f.pending[1][1] \in mem.bufs
    /\ \A p \in DOMAIN mem.at : p[1] \in mem.bufs
    /\ mem.faults \subseteq {"invalid drop", "invalid free", "lost a value"}

(***************************************************************************)
(* "No double-free possible by construction" (Drop, mod.rs): nothing is    *)
(* dropped or moved but a value that is there and whole, whatever variant  *)
(* the memory held before, and no buffer is freed but a live one.          *)
(***************************************************************************)
NoInvalidDrop == mem.faults \cap {"invalid drop", "invalid free"} = {}

(***************************************************************************)
(* Nothing is lost: no value is written over or freed with its buffer, the *)
(* buffers of inner values are gone when the Partial is, and the caller gets *)
(* no value beside the one that was built.                                 *)
(***************************************************************************)
NothingLost ==
    /\ "lost a value" \notin mem.faults
    /\ phase = "Dropped" => mem.bufs = {} /\ Values(mem) = {}
    /\ phase = "Built" => mem.bufs = {0} /\ Values(mem) = Leaves(mem, RootShape, Root)

(***************************************************************************)
(* What build() hands over is whole: every field of the variant that the   *)
(* discriminant names, every Option with a tag and, if Some, a value, a    *)
(* value behind every pointer and in every Result.                         *)
(***************************************************************************)
BuiltWhole == phase = "Built" => Whole(mem, RootShape, Root)

(***************************************************************************)
(* What is built is what was chosen last: the variant selected, Some where *)
(* begin_some was called, None where no value was set, Ok or Err.          *)
(***************************************************************************)
AsChosen == phase = "Built" => mem.at[Choice].n = chosen

\* A part of f that nobody built: neither in memory nor in a frame of its own.
Gap(f) ==
    CASE f.shape.kind = "leaf" -> ~f.isInit
      [] f.shape.kind = "option" -> FALSE
      [] f.shape.kind \in {"pointer", "result"} -> f.tracker = "Scalar" /\ ~f.isInit
      [] f.shape.kind = "enum" /\ f.tracker = "Scalar" -> ~f.isInit
      [] OTHER -> \E i \in 1..Count(f) :
            /\ Fields(f)[i].kind # "option"
            /\ ~Whole(mem, Fields(f)[i], Append(f.at, i - 1))
            /\ \A g \in Frames : g.at # Append(f.at, i - 1)

(***************************************************************************)
(* finish_deferred refuses only an incomplete value: some place was left   *)
(* without a value, or some enum without a variant.  It finds the inner    *)
(* value of every Option and every pointer, however often they were left   *)
(* and entered.                                                            *)
(***************************************************************************)
RefusesOnlyGaps ==
    [][phase = "Walking" /\ phase' \in {"Cleaning", "Dropping"} =>
          \E f \in Frames : Gap(f)]_vars

=============================================================================
