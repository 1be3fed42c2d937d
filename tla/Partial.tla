------------------------------ MODULE Partial ------------------------------
(***************************************************************************)
(* facet_reflect::Partial over places that live inline in their parent:    *)
(* structs, arrays and leaves, in strict and in deferred mode.             *)
(*                                                                         *)
(* A Partial holds a stack of frames, one per place being built from the   *)
(* root down.  In deferred mode end() moves a frame to stored_frames,      *)
(* keyed by its path, and begin_nth_field() takes it back; the loop of     *)
(* finish_deferred() then checks the stored frames, deepest first, and     *)
(* hands each place back to its parent.  Drop cleans up whatever is left.  *)
(* Who runs the destructor of a place is recorded only in the frames'      *)
(* trackers; the model checks that record against the memory itself.       *)
(*                                                                         *)
(* Each loop of finish_deferred and of Drop is one action per iteration,   *)
(* in a phase of its own during which the caller has no say.               *)
(*                                                                         *)
(* Every method takes self by value and an Err drops it, so a failing call *)
(* is a step to phase "Dropping".  A call that fails before it changed     *)
(* anything is the same step as the caller dropping the Partial (Cancel).  *)
(***************************************************************************)
EXTENDS Shapes, Sequences, Integers

CONSTANTS
    NoChild,        \* a tracker's current_child: None
    RootOwnership,  \* "Owned" (alloc) or "External" (from_raw)
    Usage           \* which of the calls below whose effects reach past the
                    \* frame on top of the stack the caller makes

ASSUME ConstantsAssumption ==
    /\ NoChild \notin Nodes
    /\ RootOwnership \in {"Owned", "External"}
    /\ Usage \subseteq {"defer", "overwrite_stored", "build_unfinished", "enter_twice"}

VARIABLES
    mode,       \* FrameMode: "Strict" or "Deferred"
    startDepth, \* FrameMode::Deferred::start_depth (0 in strict mode)
    stack,      \* FrameMode::stack
    stored,     \* FrameMode::Deferred::stored_frames: path -> frame
    phase,      \* which call, or loop of a call, is running
    mem,        \* the memory: what each leaf holds
    buffer,     \* the root allocation: "Live" or "Freed"
    faults      \* history: what went wrong with the memory so far

vars == <<mode, startDepth, stack, stored, phase, mem, buffer, faults>>

-----------------------------------------------------------------------------
(* Frames, paths and trackers *)

Contents == {"Uninit", "Set", "Default"}

Frames == [at : Nodes, tracker : {"Scalar", "Struct", "Array"},
           isInit : BOOLEAN, iset : SUBSET Nodes, cur : Nodes \cup {NoChild}]

NewFrame(n, init) ==
    [at |-> n, tracker |-> "Scalar", isInit |-> init, iset |-> {}, cur |-> NoChild]

Steps == {"Field", "Index"} \X Nodes

\* A path is the set of its steps: the steps of one path name nested places,
\* so the order they were pushed in is the order of the tree.
Paths == SUBSET Steps

StepOf(f) == <<IF f.tracker = "Array" THEN "Index" ELSE "Field", f.cur>>

PathOf(frames) ==
    {StepOf(frames[i]) : i \in {j \in 1..Len(frames) : frames[j].cur # NoChild}}

DerivePath == PathOf(stack)

\* In end(), the frame being ended does not contribute to its own path.
StoragePath == PathOf(SubSeq(stack, 1, Len(stack) - 1))

LastStep(p) == CHOOSE s \in p : \A t \in p : s[2] \in Below[t[2]]

ParentPath(p) == p \ {LastStep(p)}

Top == stack[Len(stack)]

SetTop(f) == [stack EXCEPT ![Len(stack)] = f]

Pop(s) == SubSeq(s, 1, Len(s) - 1)

Removed(p) == [q \in DOMAIN stored \ {p} |-> stored[q]]

\* Paths of maximal depth: both loops take the stored frames deepest first.
Deepest == {p \in DOMAIN stored :
                \A q \in DOMAIN stored : Cardinality(q) <= Cardinality(p)}

-----------------------------------------------------------------------------
(* What a frame is responsible for *)

Composite(f) == f.tracker # "Scalar"

\* Frame::deinit: the leaves whose destructors the frame runs.
Owned(f) == IF Composite(f)
            THEN UNION {LeavesOf(c) : c \in f.iset}
            ELSE IF f.isInit THEN LeavesOf(f.at) ELSE {}

Deinited(f) == NewFrame(f.at, FALSE)

Complete(f) == IF Composite(f) THEN f.iset = Fields[f.at] ELSE f.isInit

\* Slips: the array arm is missing, as it is in one of Drop's two loops.
BitSetOfStruct(f, c) ==
    IF f.tracker = "Struct" THEN [f EXCEPT !.iset = @ \cup {c}] ELSE f
BitUnsetOfStruct(f, c) ==
    IF f.tracker = "Struct" THEN [f EXCEPT !.iset = @ \ {c}] ELSE f

BitSet(f, c) == IF Composite(f) THEN [f EXCEPT !.iset = @ \cup {c}] ELSE f
BitUnset(f, c) == IF Composite(f) THEN [f EXCEPT !.iset = @ \ {c}] ELSE f

\* Slip: a struct that was set as a whole starts with no field recorded.
AsCompositeForgetting(f) ==
    IF Composite(f) THEN f
    ELSE [f EXCEPT !.tracker = IF Kind[f.at] = "array" THEN "Array" ELSE "Struct"]

\* begin_nth_struct_field, begin_nth_array_element: the tracker that records
\* fields one by one; a struct that was set as a whole has all of them.
AsComposite(f) ==
    IF Composite(f) THEN f
    ELSE [f EXCEPT !.tracker = IF Kind[f.at] = "array" THEN "Array" ELSE "Struct",
                   !.iset = IF f.isInit THEN Fields[f.at] ELSE {}]

\* mark_field_initialized_by_index: a Scalar struct frame is upgraded, with no
\* field set.
Mark(f, c) ==
    IF Composite(f) THEN BitSet(f, c)
    ELSE IF Kind[f.at] = "struct"
    THEN [f EXCEPT !.tracker = "Struct", !.iset = {c}]
    ELSE f

ClearChild(f) == [f EXCEPT !.cur = NoChild]
SetChild(f, c) == [f EXCEPT !.cur = c]

(***************************************************************************)
(* Defaults.  fill_and_require_fields (viaPlan) and fill_defaults differ   *)
(* in one point: only the latter default-constructs a whole struct whose   *)
(* tracker exists but has no field set.  The result is the frame after the *)
(* call and the leaves that were default-initialised.                      *)
(***************************************************************************)
FillWhole(f) == [frame |-> [f EXCEPT !.tracker = "Scalar", !.isInit = TRUE,
                                     !.iset = {}, !.cur = NoChild],
                 leaves |-> LeavesOf(f.at)]

\* An untouched struct gets a field-by-field tracker first.
FillFields(f, D) ==
    LET g == IF Composite(f) \/ f.isInit THEN f ELSE AsComposite(f) IN
    [frame |-> [g EXCEPT !.iset = @ \cup D],
     leaves |-> UNION {LeavesOf(c) : c \in D}]

Untouched(f) == ~Composite(f) /\ ~f.isInit

FillsWhole(f, viaPlan) ==
    /\ f.at \in SelfDefault
    /\ Untouched(f) \/ (~viaPlan /\ f.tracker = "Struct" /\ f.iset = {})

\* Slip: fields that are already set are not skipped.
DefaultableAll(f) ==
    IF Kind[f.at] = "struct" /\ (Composite(f) \/ ~f.isInit)
    THEN Fields[f.at] \cap FieldDefault ELSE {}

\* Fields of a struct that are missing and have a default.
Defaultable(f) ==
    IF Kind[f.at] = "struct" /\ (Composite(f) \/ ~f.isInit)
    THEN (Fields[f.at] \ f.iset) \cap FieldDefault ELSE {}

Fill(f, viaPlan) ==
    IF FillsWhole(f, viaPlan) THEN FillWhole(f)
    ELSE IF Kind[f.at] = "struct" THEN FillFields(f, Defaultable(f))
    ELSE [frame |-> f, leaves |-> {}]

-----------------------------------------------------------------------------
(* The memory *)

Wrote(m, S, v) == [l \in Leaves |-> IF l \in S THEN v ELSE m[l]]

\* Dropping a leaf that holds nothing, or writing over one that still holds a
\* value, is what the trackers are there to prevent.
DropFaults(m, S) == IF \E l \in S : m[l] = "Uninit" THEN {"dropped nothing"} ELSE {}
WriteFaults(m, S) == IF \E l \in S : m[l] # "Uninit" THEN {"overwrote a value"} ELSE {}

DropLeaves(S) ==
    /\ mem' = Wrote(mem, S, "Uninit")
    /\ faults' = faults \cup DropFaults(mem, S)

WriteLeaves(S, v) ==
    /\ mem' = Wrote(mem, S, v)
    /\ faults' = faults \cup WriteFaults(mem, S)

\* deinit_for_replace, then the new value.
ReplaceLeaves(old, new, v) ==
    LET m == Wrote(mem, old, "Uninit") IN
    /\ mem' = Wrote(m, new, v)
    /\ faults' = faults \cup DropFaults(mem, old) \cup WriteFaults(m, new)

-----------------------------------------------------------------------------
(* The parent of a stored frame *)

\* It is looked up in stored_frames by path, then on the stack by depth.
ParentIsStored(p) == ParentPath(p) \in DOMAIN stored
ParentOnStack(p) == ~ParentIsStored(p) /\ Cardinality(p) <= Len(stack)

\* stored_frames and the stack once p has been taken out and its parent, where
\* there is one and the step is a Field, has been updated for field c.
TakeMarking(p, c) ==
    /\ stored' = [q \in DOMAIN stored \ {p} |->
                    IF q = ParentPath(p) THEN Mark(stored[q], c) ELSE stored[q]]
    /\ stack' = IF ParentOnStack(p)
                THEN [stack EXCEPT ![Cardinality(p)] = Mark(@, c)] ELSE stack

\* Slip: the parent keeps the bit of the field its stored child gives up.
TakeKeeping(p, c) == stored' = Removed(p) /\ UNCHANGED stack

TakeReleasing(p, c) ==
    /\ stored' = [q \in DOMAIN stored \ {p} |->
                    IF q = ParentPath(p) THEN BitUnset(stored[q], c) ELSE stored[q]]
    /\ stack' = IF ParentOnStack(p)
                THEN [stack EXCEPT ![Cardinality(p)] = BitUnset(@, c)] ELSE stack

TakeOnly(p) == stored' = Removed(p) /\ UNCHANGED stack

-----------------------------------------------------------------------------
(* Building *)

Active == phase = "Active"

Init ==
    /\ mode = "Strict" /\ startDepth = 0
    /\ stack = <<NewFrame(Root, FALSE)>>
    /\ stored = << >>
    /\ phase = "Active"
    /\ mem = [l \in Leaves |-> "Uninit"]
    /\ buffer = "Live"
    /\ faults = {}

\* Slip: a child frame never takes over what its parent says of the field.
EnterFieldAnew(c) ==
    /\ Active /\ c \in Fields[Top.at]
    /\ ~(mode = "Deferred" /\ DerivePath \cup {<<"Field", c>>} \in DOMAIN stored)
    /\ Kind[Top.at] = "array" => Composite(Top) \/ ~Top.isInit
    /\ stack' = Append(SetTop(SetChild(BitUnset(AsComposite(Top), c), c)), NewFrame(c, FALSE))
    /\ UNCHANGED <<mode, startDepth, stored, phase, mem, buffer, faults>>

\* Slip: the stored frame is restored and stays stored.
RestoreFieldCopy(c) ==
    LET p == DerivePath \cup {<<"Field", c>>} IN
    /\ Active /\ c \in Fields[Top.at]
    /\ mode = "Deferred" /\ p \in DOMAIN stored
    /\ stack' = Append(SetTop(SetChild(Top, c)), ClearChild(stored[p]))
    /\ UNCHANGED <<mode, startDepth, stored, phase, mem, buffer, faults>>

\* The usage "overwrite_stored" stops short of re-entering a field that was
\* stored before its parent was replaced as a whole: the parent's tracker is a
\* Scalar, which keeps no cursor, and from there on paths would lack a step.
MayReenter == Composite(Top)

\* Re-entry: the frame comes back as it was stored, its child cursor cleared.
\* The lookup path ends in a Field step whatever the parent is.
RestoreField(c) ==
    LET p == DerivePath \cup {<<"Field", c>>} IN
    /\ Active /\ c \in Fields[Top.at]
    /\ mode = "Deferred" /\ p \in DOMAIN stored /\ MayReenter
    /\ stack' = Append(SetTop(SetChild(Top, c)), ClearChild(stored[p]))
    /\ stored' = Removed(p)
    /\ UNCHANGED <<mode, startDepth, phase, mem, buffer, faults>>

\* A new frame takes the field over from its parent: the parent's bit becomes
\* the child's is_init.
EnterField(c) ==
    LET parent == AsComposite(Top) IN
    /\ Active /\ c \in Fields[Top.at]
    /\ ~(mode = "Deferred" /\ DerivePath \cup {<<"Field", c>>} \in DOMAIN stored)
    /\ Kind[Top.at] = "array" => Composite(Top) \/ ~Top.isInit
    /\ stack' = Append(SetTop(SetChild(BitUnset(parent, c), c)),
                       NewFrame(c, c \in parent.iset))
    /\ UNCHANGED <<mode, startDepth, stored, phase, mem, buffer, faults>>

BeginNthField(c) == RestoreField(c) \/ EnterField(c)

\* The usage "overwrite_stored": a place is replaced as a whole although frames
\* for parts of it are stored.
MayReplace ==
    \/ "overwrite_stored" \in Usage
    \/ \A p \in DOMAIN stored : stored[p].at \notin Below[Top.at] \ {Top.at}

\* set, set_shape, parse_from_str, set_default, set_from_function: the old
\* contents are dropped, the new ones written, the frame is a Scalar again.
SetTo(v) ==
    /\ Active /\ MayReplace
    /\ ReplaceLeaves(Owned(Top), LeavesOf(Top.at), v)
    /\ stack' = SetTop(NewFrame(Top.at, TRUE))
    /\ UNCHANGED <<mode, startDepth, stored, phase, buffer>>

Set == SetTo("Set")
SetDefault == SetTo("Default")

\* set_from_function and parse_from_str drop the old value before they learn
\* that there is no new one.
SetFails ==
    /\ Active /\ MayReplace
    /\ DropLeaves(Owned(Top))
    /\ stack' = SetTop(Deinited(Top))
    /\ phase' = "Dropping"
    /\ UNCHANGED <<mode, startDepth, stored, buffer>>

ViaPlan == Kind[Top.at] = "struct"

EndStrict ==
    LET full == Fill(Top, ViaPlan) IN
    /\ Active /\ mode = "Strict" /\ Len(stack) > 1
    /\ Complete(full.frame)
    /\ WriteLeaves(full.leaves, "Default")
    /\ stack' = [Pop(stack) EXCEPT ![Len(stack) - 1] = ClearChild(BitSet(@, Top.at))]
    /\ UNCHANGED <<mode, startDepth, stored, phase, buffer>>

\* A required field is missing or a field validator objects.  The fields
\* before it, in declaration order, may have been filled already.
FillFails ==
    /\ ~FillsWhole(Top, ViaPlan)
    /\ \E D \in SUBSET Defaultable(Top) :
          LET part == FillFields(Top, D) IN
          /\ WriteLeaves(part.leaves, "Default")
          /\ stack' = SetTop(IF Kind[Top.at] = "struct" THEN part.frame ELSE Top)
    /\ phase' = "Dropping"
    /\ UNCHANGED <<mode, startDepth, stored, buffer>>

EndFails == Active /\ mode = "Strict" /\ Len(stack) > 1 /\ FillFails

-----------------------------------------------------------------------------
(* Deferred mode *)

BeginDeferred ==
    /\ Active /\ mode = "Strict" /\ "defer" \in Usage
    /\ mode' = "Deferred" /\ startDepth' = Len(stack)
    /\ UNCHANGED <<stack, stored, phase, mem, buffer, faults>>

\* The usage "enter_twice": enter_deferred() is called in deferred mode.
MayEnter == mode = "Strict" \/ "enter_twice" \in Usage

\* enter_deferred does not look at the mode it replaces.
EnterDeferred ==
    /\ Active /\ "defer" \in Usage /\ MayEnter
    /\ mode' = "Deferred" /\ startDepth' = Len(stack)
    /\ stored' = << >>
    /\ UNCHANGED <<stack, phase, mem, buffer, faults>>

\* Slip: end() pops past the frame deferred mode began at.
EndDeferredTooDeep ==
    /\ Active /\ mode = "Deferred" /\ Len(stack) > 1
    /\ stored' = [q \in DOMAIN stored \cup {StoragePath} |->
                    IF q = StoragePath THEN Top ELSE stored[q]]
    /\ stack' = [Pop(stack) EXCEPT ![Len(stack) - 1] = ClearChild(Mark(@, Top.at))]
    /\ UNCHANGED <<mode, startDepth, phase, mem, buffer, faults>>

\* The frame is stored unchecked, and the parent's bit set at once.
EndDeferred ==
    /\ Active /\ mode = "Deferred" /\ Len(stack) > 1 /\ Len(stack) > startDepth
    /\ stored' = [q \in DOMAIN stored \cup {StoragePath} |->
                    IF q = StoragePath THEN Top ELSE stored[q]]
    /\ stack' = [Pop(stack) EXCEPT ![Len(stack) - 1] = ClearChild(Mark(@, Top.at))]
    /\ UNCHANGED <<mode, startDepth, phase, mem, buffer, faults>>

FinishDeferred ==
    /\ Active /\ mode = "Deferred"
    /\ mode' = "Strict" /\ startDepth' = 0
    /\ phase' = "Walking"
    /\ UNCHANGED <<stack, stored, mem, buffer, faults>>

\* Slip: a stored frame is not required to be complete.
WalkFrameUnchecked(p) ==
    LET full == Fill(stored[p], FALSE) IN
    /\ phase = "Walking" /\ p \in Deepest
    /\ WriteLeaves(full.leaves, "Default")
    /\ IF LastStep(p)[1] = "Field" THEN TakeMarking(p, LastStep(p)[2]) ELSE TakeOnly(p)
    /\ UNCHANGED <<mode, startDepth, phase, buffer>>

\* Slip: the walk looks at the stored frame without taking it out.
WalkFrameInPlace(p) ==
    LET full == Fill(stored[p], FALSE) IN
    /\ phase = "Walking" /\ p \in Deepest
    /\ Complete(full.frame)
    /\ WriteLeaves(full.leaves, "Default")
    /\ stored' = [stored EXCEPT ![p] = full.frame]
    /\ UNCHANGED <<mode, startDepth, stack, phase, buffer>>

\* One stored frame of finish_deferred's walk that passes: its parent, if the
\* last step is a Field, is marked.  (complete_list_item_frame, which an Index
\* step leads to, does nothing for an array.)
WalkFrame(p) ==
    LET full == Fill(stored[p], FALSE) IN
    /\ phase = "Walking" /\ p \in Deepest
    /\ Complete(full.frame)
    /\ WriteLeaves(full.leaves, "Default")
    /\ IF LastStep(p)[1] = "Field" THEN TakeMarking(p, LastStep(p)[2]) ELSE TakeOnly(p)
    /\ UNCHANGED <<mode, startDepth, phase, buffer>>

\* One that does not: clear_parent_iset_for_path, deinit, and then
\* cleanup_stored_frames_on_error.
WalkFails(p) ==
    LET full == Fill(stored[p], FALSE)
        m == Wrote(mem, full.leaves, "Default") IN
    /\ phase = "Walking" /\ p \in Deepest
    /\ ~Complete(full.frame)
    /\ mem' = Wrote(m, Owned(full.frame), "Uninit")
    /\ faults' = faults \cup WriteFaults(mem, full.leaves)
                        \cup DropFaults(m, Owned(full.frame))
    /\ IF LastStep(p)[1] = "Field" THEN TakeReleasing(p, LastStep(p)[2]) ELSE TakeOnly(p)
    /\ phase' = "Cleaning"
    /\ UNCHANGED <<mode, startDepth, buffer>>

\* The frame on top of the stack is checked last; an Err leaves it filled as
\* far as the defaults go.
WalkTop ==
    LET full == Fill(Top, FALSE) IN
    /\ phase = "Walking" /\ DOMAIN stored = {}
    /\ WriteLeaves(full.leaves, "Default")
    /\ stack' = SetTop(full.frame)
    /\ phase' = IF Complete(full.frame) THEN "Active" ELSE "Dropping"
    /\ UNCHANGED <<mode, startDepth, stored, buffer>>

-----------------------------------------------------------------------------
(* Building the value *)

\* The usage "build_unfinished": build() is called before finish_deferred().
MayBuild == \/ "build_unfinished" \in Usage
            \/ mode = "Strict"

\* build: the value leaves the stack.  Drop still runs on the Partial as build
\* returns, and looks at stored_frames whatever the state.
Build ==
    LET full == Fill(Top, ViaPlan) IN
    /\ Active /\ Len(stack) = 1 /\ MayBuild
    /\ Complete(full.frame)
    /\ WriteLeaves(full.leaves, "Default")
    /\ stack' = << >>
    /\ phase' = "Returning"
    /\ UNCHANGED <<mode, startDepth, stored, buffer>>

Returned ==
    /\ phase = "Returning" /\ DOMAIN stored = {}
    /\ phase' = "Built"
    /\ UNCHANGED <<mode, startDepth, stack, stored, mem, buffer, faults>>

BuildFails == Active /\ Len(stack) = 1 /\ MayBuild /\ FillFails

\* A type invariant does not hold: the frame is pushed back and dropped.
BuildRejects ==
    LET full == Fill(Top, ViaPlan) IN
    /\ Active /\ Len(stack) = 1 /\ MayBuild
    /\ Complete(full.frame)
    /\ WriteLeaves(full.leaves, "Default")
    /\ stack' = SetTop(full.frame)
    /\ phase' = "Dropping"
    /\ UNCHANGED <<mode, startDepth, stored, buffer>>

\* Slip: the allocation is freed whoever owns it.
FreeAnyBuffer == buffer' = "Freed"

FreeBuffer == buffer' = IF RootOwnership = "Owned" THEN "Freed" ELSE buffer

\* HeapValue::materialize moves the value out and frees the allocation.
Materialize ==
    /\ phase = "Built"
    /\ phase' = "Moved"
    /\ FreeBuffer
    /\ UNCHANGED <<mode, startDepth, stack, stored, mem, faults>>

\* Slip: the allocation goes without the value in it being dropped.
FreeHeapValue ==
    /\ phase = "Built"
    /\ phase' = "Dropped"
    /\ FreeBuffer
    /\ UNCHANGED <<mode, startDepth, stack, stored, mem, faults>>

\* Drop for HeapValue.
DropHeapValue ==
    /\ phase = "Built"
    /\ DropLeaves(Leaves)
    /\ phase' = "Dropped"
    /\ FreeBuffer
    /\ UNCHANGED <<mode, startDepth, stack, stored>>

-----------------------------------------------------------------------------
(* Cleaning up *)

Cancel ==
    /\ Active
    /\ phase' = "Dropping"
    /\ UNCHANGED <<mode, startDepth, stack, stored, mem, buffer, faults>>

\* Slip: the stored frame is let go without dropping what it owns.
ForgetStored(p) ==
    /\ phase \in {"Cleaning", "Dropping", "Returning"} /\ p \in Deepest
    /\ IF LastStep(p)[1] = "Field" THEN TakeReleasing(p, LastStep(p)[2]) ELSE TakeOnly(p)
    /\ UNCHANGED <<mode, startDepth, phase, buffer, mem, faults>>

\* One iteration over the stored frames, in Drop and in
\* cleanup_stored_frames_on_error: the parent gives the field up, then the
\* frame drops what it owns.
CleanStored(p) ==
    /\ phase \in {"Cleaning", "Dropping", "Returning"} /\ p \in Deepest
    /\ DropLeaves(Owned(stored[p]))
    /\ IF LastStep(p)[1] = "Field" THEN TakeReleasing(p, LastStep(p)[2]) ELSE TakeOnly(p)
    /\ UNCHANGED <<mode, startDepth, phase, buffer>>

\* finish_deferred returns Err, which drops self.
CleanedUp ==
    /\ phase = "Cleaning" /\ DOMAIN stored = {}
    /\ phase' = "Dropping"
    /\ UNCHANGED <<mode, startDepth, stack, stored, mem, buffer, faults>>

\* Drop's second loop: pop a frame, clear its bit in the frame below, drop
\* what it owns; the root's allocation goes with the root.
DropFrame ==
    /\ phase = "Dropping" /\ DOMAIN stored = {}
    /\ DropLeaves(Owned(Top))
    /\ IF Len(stack) > 1
       THEN /\ stack' = [Pop(stack) EXCEPT ![Len(stack) - 1] = BitUnset(@, Top.at)]
            /\ UNCHANGED <<phase, buffer>>
       ELSE /\ stack' = << >>
            /\ phase' = "Dropped"
            /\ FreeBuffer
    /\ UNCHANGED <<mode, startDepth, stored>>

-----------------------------------------------------------------------------
(* The specification *)

Call ==
    \/ \E c \in Nodes : BeginNthField(c)
    \/ Set \/ SetDefault \/ SetFails
    \/ EndStrict \/ EndFails \/ EndDeferred
    \/ BeginDeferred \/ EnterDeferred \/ FinishDeferred
    \/ Build \/ BuildFails \/ BuildRejects \/ Cancel
    \/ Materialize \/ DropHeapValue

\* The loops a call runs before it returns.
Loop ==
    \/ \E p \in DOMAIN stored : WalkFrame(p) \/ WalkFails(p) \/ CleanStored(p)
    \/ WalkTop \/ CleanedUp \/ DropFrame \/ Returned

Next == Call \/ Loop

Spec == Init /\ [][Next]_vars

\* A call, once made, runs to its end; the caller may stop calling.
FairSpec == Spec /\ WF_vars(Loop)

-----------------------------------------------------------------------------
(* Properties *)

(***************************************************************************)
(* The state is well formed: trackers only name fields of their own place, *)
(* the stack descends the tree one field at a time and holds no more than  *)
(* one frame above the depth deferred mode began at, a path is never       *)
(* empty.  (Frame, Tracker and FrameMode in partial/mod.rs.)               *)
(***************************************************************************)
FrameOK(f) ==
    /\ f \in Frames
    /\ f.iset \subseteq Fields[f.at]
    /\ f.cur \in Fields[f.at] \cup {NoChild}
    /\ f.tracker = "Struct" => Kind[f.at] = "struct"
    /\ f.tracker = "Array" => Kind[f.at] = "array"
    /\ f.tracker = "Scalar" => f.iset = {} /\ f.cur = NoChild

TypeOK ==
    /\ mode \in {"Strict", "Deferred"}
    /\ startDepth \in Nat
    /\ Active => startDepth <= Len(stack) /\ stack # << >>
    /\ mode = "Strict" => startDepth = 0
    /\ stack \in Seq(Frames)
    /\ \A i \in 1..Len(stack) : FrameOK(stack[i])
    /\ DOMAIN stored \subseteq Paths \ {{}}
    /\ \A p \in DOMAIN stored : FrameOK(stored[p])
    /\ phase \in {"Active", "Walking", "Cleaning", "Dropping", "Dropped",
                  "Returning", "Built", "Moved"}
    /\ mem \in [Leaves -> Contents]
    /\ buffer \in {"Live", "Freed"}
    /\ faults \subseteq {"dropped nothing", "overwrote a value"}

(***************************************************************************)
(* No destructor ever runs on memory that holds no value: nothing is       *)
(* dropped twice, and nothing is dropped that was never written.           *)
(***************************************************************************)
NoInvalidDrop == "dropped nothing" \notin faults

(***************************************************************************)
(* No value is lost without its destructor: none is written over, and      *)
(* when the Partial is gone its memory is empty and, if it owned the root  *)
(* allocation, freed.                                                      *)
(***************************************************************************)
NoLeak ==
    /\ "overwrote a value" \notin faults
    /\ phase = "Dropped" =>
          /\ \A l \in Leaves : mem[l] = "Uninit"
          /\ buffer = IF RootOwnership = "Owned" THEN "Freed" ELSE "Live"

(***************************************************************************)
(* "Safety: the value is fully initialized at this point" (build.rs): what *)
(* build and finish_in_place hand over has every field.                    *)
(***************************************************************************)
BuiltComplete ==
    phase \in {"Built", "Moved"} => \A l \in Leaves : mem[l] # "Uninit"

(***************************************************************************)
(* "Exactly one drop-and-dealloc authority at all times" (mod.rs): while   *)
(* the caller builds, every leaf that holds a value is the responsibility  *)
(* of exactly one frame, and no frame claims a leaf that holds none.  A    *)
(* parent's claim on a field that has a frame of its own, on the stack or  *)
(* stored, is void.                                                        *)
(***************************************************************************)
Live == {<<"stack", i>> : i \in 1..Len(stack)} \cup {<<"stored", p>> : p \in DOMAIN stored}
FrameAt(h) == IF h[1] = "stack" THEN stack[h[2]] ELSE stored[h[2]]

Claims(h) ==
    Owned(FrameAt(h)) \ UNION {LeavesOf(FrameAt(g).at) :
        g \in {k \in Live : FrameAt(k).at \in Below[FrameAt(h).at] \ {FrameAt(h).at}}}

SoleAuthority ==
    Active =>
        /\ \A l \in Leaves :
              (mem[l] # "Uninit") <=> (\E h \in Live : l \in Claims(h))
        /\ \A g, h \in Live : g # h => Claims(g) \cap Claims(h) = {}

(***************************************************************************)
(* Ending, storing, restoring and re-entering frames, entering and leaving *)
(* deferred mode, filling defaults: none of it touches a leaf the caller   *)
(* has set.  Only a call that replaces a place around it, or cleaning up,  *)
(* does.                                                                   *)
(***************************************************************************)
CleaningUp == {"Cleaning", "Dropping", "Dropped"}

SetSurvives ==
    [][\A l \in Leaves :
          mem[l] = "Set" /\ mem'[l] # "Set" =>
             \/ phase' \in CleaningUp
             \/ /\ phase = "Active" /\ phase' = "Active"
                /\ Len(stack') = Len(stack)
                /\ l \in LeavesOf(Top.at)]_vars

(***************************************************************************)
(* finish_deferred refuses only an incomplete value: if every leaf has     *)
(* been written, in whatever order and over however many visits, its walk  *)
(* finds no stored frame, and not the top frame, incomplete.               *)
(***************************************************************************)
FinishRefusesOnlyGaps ==
    [][phase = "Walking" /\ phase' \in CleaningUp =>
          \E l \in Leaves : mem[l] = "Uninit"]_vars

(***************************************************************************)
(* Every call returns: the loops of finish_deferred, of its error path and *)
(* of Drop come to an end, in a state the caller can see.                  *)
(***************************************************************************)
CallsReturn ==
    phase \in {"Walking", "Cleaning", "Dropping", "Returning"}
        ~> phase \in {"Active", "Built", "Dropped"}

(***************************************************************************)
(* The frames, paths and trackers implement the promise.                   *)
(***************************************************************************)
P == INSTANCE Promise WITH
        Parts <- Leaves,
        value <- mem,
        outcome <- IF phase \in {"Built", "Moved", "Dropped"} THEN phase ELSE "Building"

KeepsPromise == P!Spec

=============================================================================
