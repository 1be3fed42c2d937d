---------------------------- MODULE Collections ----------------------------
(***************************************************************************)
(* Building lists, maps and sets: Partial's ListRope and pending entries.  *)
(*                                                                         *)
(* begin_list_item() builds an element in a slot of a rope the list's      *)
(* frame keeps, begin_key() and begin_value() build the halves of an entry *)
(* in buffers of their own.  None of them moves, so an element's frame can *)
(* be stored.  A rope records how many slots it handed out and how many of *)
(* the first of them hold a finished element; a map lists the finished     *)
(* halves as pending entries.  An element is counted as finished when it   *)
(* ends (strict mode) or passes the walk of finish_deferred (deferred      *)
(* mode): from then on its collection drops it, before that its own frame. *)
(* Completing a collection moves what is finished into the Vec or the map. *)
(*                                                                         *)
(* An element of a set has a buffer of its own too, and no number: it is   *)
(* moved into the set when it ends, in deferred mode without being asked   *)
(* whether it is complete.                                                 *)
(*                                                                         *)
(* Elements have a size; a zero-sized one needs no slot.  Fields, defaults *)
(* and the root allocation are in Partial.                                 *)
(***************************************************************************)
EXTENDS Naturals, FiniteSets, Sequences, SequencesExt

CONSTANTS
    Types,      \* the types built: <<kind of the root, kind of its elements
                \* or values>>; what is in these, and a key, is a leaf
    MaxItems,   \* bound: elements or entries of one collection
    MaxSets,    \* bound: whole values written
    Usage       \* "reopen": elements are begun, in deferred mode, in a
                \* collection that was already completed once;
                \* "unset": a set's element is ended, in deferred mode, before
                \* it has a value;
                \* "set_parts": deferred mode around or inside an element of a
                \* set that is a collection itself

Kinds == {"list", "map", "set"}

ASSUME CollectionsAssumption ==
    /\ Types \subseteq Kinds \X Kinds /\ Types # {}
    /\ MaxItems \in Nat \ {0} /\ MaxSets \in Nat \ {0}
    /\ Usage \subseteq {"reopen", "unset", "set_parts"}

VARIABLES
    type,       \* the type that is built
    mode,       \* FrameMode: "Strict" or "Deferred"
    startDepth, \* FrameMode::Deferred::start_depth
    stack,      \* the frames from the root down
    stored,     \* stored_frames: path -> frame
    phase,      \* which call, or loop of a call, is running
    mem,        \* the memory: allocated place -> what it holds
    sets,       \* how many whole values were written
    said,       \* history: the value the caller's calls describe
    faults      \* history: what went wrong with the memory

vars == <<type, mode, startDepth, stack, stored, phase, mem, sets, said, faults>>

-----------------------------------------------------------------------------
(* Options are sequences of at most one element.                           *)
(*                                                                         *)
(* A step is <<"item", k>>, <<"key", k>> or <<"value", k>>.  In a place    *)
(* it names the slot of the rope or the buffer of the entry, in a path the *)
(* number the collection gave the element when it was begun.  A set's      *)
(* element is Element in a place and nothing in a path.                    *)

None == << >>
Some(x) == <<x>>
Root == << >>
Element == <<"element", 0>>

NewFrame(a) ==
    [at |-> a, tracker |-> "Scalar", isInit |-> FALSE,
     state |-> "Idle",   \* MapInsertState; "Item" while current_child is Some
     cur |-> None,       \* the step it contributes to paths
     rope |-> None,      \* Tracker::List::rope
     pending |-> << >>]  \* Tracker::Map::pending_entries

LastStep(a) == a[Len(a)]

IsLeaf(f) == Len(f.at) = 2 \/ (Len(f.at) = 1 /\ LastStep(f.at)[1] = "key")
KindOf(f) == type[Len(f.at) + 1]

Top == stack[Len(stack)]
SetTop(f) == [stack EXCEPT ![Len(stack)] = f]
Pop(s) == SubSeq(s, 1, Len(s) - 1)

\* A stack has at most three frames, the last of them a leaf's.
StepFrom(i) == IF i < Len(stack) THEN stack[i].cur ELSE None
StoragePath == StepFrom(1) \o StepFrom(2)

Removed(p) == [q \in DOMAIN stored \ {p} |-> stored[q]]

-----------------------------------------------------------------------------
(* The memory, as a record of mem and faults *)

Memory == [at |-> mem, faults |-> faults]
MemoryIs(m) == mem' = m.at /\ faults' = m.faults

Holds(m, a) == a \in DOMAIN m.at /\ m.at[a] # None

\* What is at the places A is dropped in place, or moved away.
Taken(m, A) ==
    [at |-> [a \in DOMAIN m.at |-> IF a \in A THEN None ELSE m.at[a]],
     faults |-> m.faults \cup
        IF \A a \in A : Holds(m, a) THEN {} ELSE {"touched nothing"}]

\* The allocations at the places A are freed, whatever they hold.
Freed(m, A) ==
    [at |-> [a \in DOMAIN m.at \ A |-> m.at[a]],
     faults |-> m.faults \cup
        IF \E a \in A : Holds(m, a) THEN {"lost a value"} ELSE {}]

Put(m, a, v) ==
    [at |-> [m.at EXCEPT ![a] = Some(v)],
     faults |-> m.faults \cup
        IF a \notin DOMAIN m.at THEN {"touched nothing"}
        ELSE IF m.at[a] # None THEN {"lost a value"} ELSE {}]

Slots(f, n) == {Append(f.at, <<"item", k>>) : k \in 0..n - 1}

RopeLen(f) == IF f.rope = None THEN 0 ELSE f.rope[1].len

\* Slip: all slots of the rope are taken for finished ones.
MarkedAll(f) == IF f.rope = None THEN 0 ELSE f.rope[1].len

Marked(f) == IF f.rope = None THEN 0 ELSE f.rope[1].marked

EntryBuffers(e) == {e.key} \cup ToSet(e.value)

\* Slip: a half-entry is thought to have no owner of its own yet.
FinishedFullOnly(f) ==
    Slots(f, Marked(f)) \cup
    UNION {EntryBuffers(e) : e \in {d \in ToSet(f.pending) : d.value # None}}

\* What the collection is responsible for, beside the Vec or the map itself.
FinishedParts(f) == Slots(f, Marked(f)) \cup UNION {EntryBuffers(e) : e \in ToSet(f.pending)}

\* Its allocations: the rope's chunks, and the buffers of pending entries.
Allocations(f) == Slots(f, RopeLen(f)) \cup FinishedParts(f)

\* Frame::deinit
Deinit(m, f) ==
    LET m1 == Freed(Taken(m, FinishedParts(f)), Allocations(f)) IN
    IF f.isInit THEN Taken(m1, {f.at}) ELSE m1

\* Frame::dealloc: a key, a value or a set's element has a buffer of its own (TrackedBuffer).
Dealloc(m, f) ==
    IF f.at # Root /\ LastStep(f.at)[1] # "item" THEN Freed(m, {f.at}) ELSE m

Disposed(m, f) == Dealloc(Deinit(m, f), f)

-----------------------------------------------------------------------------
(* Completing a collection *)

\* drain_rope_into_vec, drain_pending_into_map: the finished elements in the
\* order of their slots, the entries in the order they became pending.
ElementsOf(m, f) ==
    IF f.tracker = "List"
    THEN [k \in 1..Marked(f) |-> m.at[Append(f.at, <<"item", k - 1>>)][1]]
    ELSE [k \in 1..Len(f.pending) |->
            <<m.at[f.pending[k].key][1], m.at[f.pending[k].value[1]][1]>>]

Drain(m, f) ==
    LET m1 == Freed(Taken(m, FinishedParts(f)), Allocations(f)) IN
    IF \E e \in ToSet(f.pending) : e.value = None
    THEN [m EXCEPT !.faults = @ \cup {"half entry"}]
    ELSE IF \A a \in FinishedParts(f) : Holds(m, a)
    THEN [m1 EXCEPT !.at[f.at] = Some(m.at[f.at][1] \o ElementsOf(m, f))]
    ELSE m1

\* Slip: a list that was begun is thought to have a rope.
CompleteIfBegun(f) ==
    f.isInit /\ f.state = "Idle" /\ (f.tracker = "List" => f.rope # None)

\* require_full_initialization
Complete(f) == f.isInit /\ f.state = "Idle"
Finished(f) == [f EXCEPT !.rope = None, !.pending = << >>]
Finish(m, f) == IF f.tracker = "Scalar" THEN m ELSE Drain(m, f)

-----------------------------------------------------------------------------
(* Elements *)

\* ListRope::push_uninit, on a rope made at the first push.
PushUninit(f) ==
    [f EXCEPT !.rope = Some([len |-> RopeLen(f) + 1, marked |-> Marked(f)])]

\* mark_last_initialized: the count goes up, whichever slot was meant.
MarkLast(f) ==
    IF f.rope = None THEN f ELSE [f EXCEPT !.rope[1].marked = @ + 1]

\* The number the next element goes by in paths.
NextNumber(f) ==
    IF f.tracker = "List"
    THEN IF f.rope # None THEN RopeLen(f) ELSE Len(mem[f.at][1])
    ELSE IF f.cur = None THEN Len(f.pending) ELSE f.cur[1][2] + 1

\* The half-entry of a finished key, and its upgrade by the value.
PushKey(f, a) == [f EXCEPT !.pending = Append(@, [key |-> a, value |-> None])]
SetValue(f, i, a) ==
    IF i \in 1..Len(f.pending) THEN [f EXCEPT !.pending[i].value = Some(a)] ELSE f

\* insert_state and current_child, when the frame above ends.
Ended(f) ==
    [f EXCEPT !.state = IF @ = "Key" THEN "KeyDone" ELSE "Idle",
              !.cur = IF f.tracker = "List" THEN None ELSE @]

\* A set f takes what is at place a, unless it has it, and the buffer goes.
Insert(m, f, a) ==
    LET m1 == Freed(Taken(m, {a}), {a}) IN
    IF ~Holds(m, a) \/ m.at[a][1] \in ToSet(m.at[f.at][1]) THEN m1
    ELSE [m1 EXCEPT !.at[f.at] = Some(Append(@[1], m.at[a][1]))]

\* The parent f takes over the finished element at place a, in strict mode.
Take(f, a) ==
    CASE f.tracker = "List" -> MarkLast(f)
      [] f.tracker = "Set" -> f
      [] f.state = "Key" -> PushKey(f, a)
      [] OTHER -> SetValue(f, Len(f.pending), a)

\* The same in the walk, where the step of the path says which element it is:
\* complete_map_key_frame, complete_map_value_frame.
TakeAt(f, s, a) ==
    CASE s[1] = "item" -> MarkLast(f)
      [] s[1] = "key" -> PushKey(f, a)
      [] OTHER -> SetValue(f, s[2] + 1, a)

\* complete_map_value_frame expects a half-entry at that index.
Expected(f, s) == s[1] = "value" => s[2] < Len(f.pending)

-----------------------------------------------------------------------------
(* What the caller describes.  A list or a set is a sequence, a map one of *)
(* pairs; a place that is begun and has no value yet is Missing or empty.  *)

Missing == 0

Half(x, s) == CASE s[1] \in {"item", "element"} -> x [] s[1] = "key" -> x[1] [] OTHER -> x[2]
WithHalf(x, s, v) ==
    CASE s[1] \in {"item", "element"} -> v [] s[1] = "key" -> <<v, x[2]>> [] OTHER -> <<x[1], v>>

\* What is described of the place on top; and the description when that is v.
SaidHere ==
    IF Len(Top.at) = 0 THEN said ELSE Half(Last(said), Top.at[1])

SayHere(v) ==
    LET x == Last(said)
        inner == Half(x, Top.at[1])
        new == IF Len(Top.at) = 1 THEN v
               ELSE [inner EXCEPT ![Len(inner)] = WithHalf(@, Top.at[2], v)] IN
    said' = IF Len(Top.at) = 0 THEN v
            ELSE [said EXCEPT ![Len(said)] = WithHalf(x, Top.at[1], new)]

\* A new element or value of the place on top.
Blank == IF Len(Top.at) = 0 THEN << >> ELSE Missing

-----------------------------------------------------------------------------
(* Building *)

Active == phase = "Active"

Init ==
    /\ type \in Types
    /\ mode = "Strict" /\ startDepth = 0
    /\ stack = <<NewFrame(Root)>>
    /\ stored = << >>
    /\ phase = "Active"
    /\ mem = [a \in {Root} |-> None]
    /\ sets = 0
    /\ said = << >>
    /\ faults = {}

\* A new leaf, or a collection with no element or one.
Unit(kind, x, k) == IF kind = "map" THEN <<<<k, x>>>> ELSE <<x>>
Whole(n) ==
    LET w == 3 * sets IN
    IF IsLeaf(Top) THEN w + 1
    ELSE IF n = 0 THEN << >>
    ELSE IF Len(Top.at) = 1 THEN Unit(KindOf(Top), w + 1, w + 2)
    ELSE Unit(type[1], Unit(type[2], w + 1, w + 2), w + 3)

\* Parts of the place are built in frames that are stored.
PartsStored ==
    \E p \in DOMAIN stored : Len(stored[p].at) > Len(Top.at)
                             /\ IsPrefix(Top.at, stored[p].at)

\* set and its kin: deinit_for_replace, then the value.
SetWhole(n) ==
    /\ Active /\ ~PartsStored
    /\ IsLeaf(Top) => n = 1
    /\ sets < MaxSets
    /\ MemoryIs(Put(Deinit(Memory, Top), Top.at, Whole(n)))
    /\ stack' = SetTop([NewFrame(Top.at) EXCEPT !.isInit = TRUE])
    /\ sets' = sets + 1
    /\ SayHere(Whole(n))
    /\ UNCHANGED <<type, mode, startDepth, stored, phase>>

Collection(f) ==
    CASE KindOf(f) = "list" -> "List" [] KindOf(f) = "map" -> "Map" [] OTHER -> "Set"

\* init_list, init_map and init_set keep the elements of a collection that has some.
InitCollection ==
    /\ Active /\ ~IsLeaf(Top) /\ Top.tracker = "Scalar"
    /\ MemoryIs(IF Top.isInit THEN Memory ELSE Put(Memory, Top.at, << >>))
    /\ stack' = SetTop([Top EXCEPT !.tracker = Collection(Top), !.isInit = TRUE])
    /\ UNCHANGED <<type, mode, startDepth, stored, phase, sets, said>>

\* The usage "reopen": the number of the first element after a collection was
\* completed, or set as a whole, is not its place among those begun since.
Begun(f) == IF f.tracker = "List" THEN RopeLen(f)
            ELSE Len(f.pending) + Cardinality({LastStep(p)[2] : p \in {q \in DOMAIN stored :
                    Front(stored[q].at) = f.at /\ LastStep(q)[1] = "key"}})
MayBegin(n) == "reopen" \in Usage \/ mode = "Strict" \/ n = Begun(Top)

BeginItem ==
    LET list == [PushUninit(Top) EXCEPT
                    !.state = "Item", !.cur = Some(<<"item", NextNumber(Top)>>)]
        slot == Append(Top.at, <<"item", RopeLen(Top)>>) IN
    /\ Active /\ Top.tracker = "List" /\ Top.state = "Idle"
    /\ MayBegin(NextNumber(Top)) /\ Len(SaidHere) < MaxItems
    /\ mem' = [a \in DOMAIN mem \cup {slot} |-> IF a = slot THEN None ELSE mem[a]]
    /\ stack' = Append(SetTop(list), NewFrame(slot))
    /\ SayHere(Append(SaidHere, Blank))
    /\ UNCHANGED <<type, mode, startDepth, stored, phase, sets, faults>>

BeginKey ==
    LET step == <<"key", NextNumber(Top)>>
        buffer == Append(Top.at, step) IN
    /\ Active /\ Top.tracker = "Map" /\ Top.state = "Idle"
    /\ MayBegin(NextNumber(Top)) /\ Len(SaidHere) < MaxItems
    /\ mem' = [a \in DOMAIN mem \cup {buffer} |-> IF a = buffer THEN None ELSE mem[a]]
    /\ stack' = Append(SetTop([Top EXCEPT !.state = "Key", !.cur = Some(step)]),
                       NewFrame(buffer))
    /\ SayHere(Append(SaidHere, <<Missing, Blank>>))
    /\ UNCHANGED <<type, mode, startDepth, stored, phase, sets, faults>>

BeginValue ==
    LET step == <<"value", Top.cur[1][2]>>
        buffer == Append(Top.at, step) IN
    /\ Active /\ Top.tracker = "Map" /\ Top.state = "KeyDone"
    /\ MayBegin(Top.cur[1][2] + 1)
    /\ mem' = [a \in DOMAIN mem \cup {buffer} |-> IF a = buffer THEN None ELSE mem[a]]
    /\ stack' = Append(SetTop([Top EXCEPT !.state = "Value", !.cur = Some(step)]),
                       NewFrame(buffer))
    /\ UNCHANGED <<type, mode, startDepth, stored, phase, sets, said, faults>>

\* The usage "set_parts".  Otherwise what is in a set's element is built in
\* strict mode.
Parts(f) == f.tracker = "Set" /\ Len(f.at) = 0

BeginElement ==
    LET buffer == Append(Top.at, Element) IN
    /\ Active /\ Top.tracker = "Set" /\ Top.state = "Idle"
    /\ "set_parts" \in Usage \/ mode = "Strict" \/ ~Parts(Top)
    /\ Len(SaidHere) < MaxItems
    /\ mem' = [a \in DOMAIN mem \cup {buffer} |-> IF a = buffer THEN None ELSE mem[a]]
    /\ stack' = Append(SetTop([Top EXCEPT !.state = "Item"]), NewFrame(buffer))
    /\ SayHere(Append(SaidHere, Blank))
    /\ UNCHANGED <<type, mode, startDepth, stored, phase, sets, faults>>

EndStrict ==
    LET parent == stack[Len(stack) - 1]
        m == Finish(Memory, Top) IN
    /\ Active /\ mode = "Strict" /\ Len(stack) > 1
    /\ Complete(Top)
    /\ MemoryIs(IF parent.tracker = "Set" THEN Insert(m, parent, Top.at) ELSE m)
    /\ stack' = [Pop(stack) EXCEPT ![Len(stack) - 1] = Ended(Take(@, Top.at))]
    /\ UNCHANGED <<type, mode, startDepth, stored, phase, sets, said>>

-----------------------------------------------------------------------------
(* Deferred mode *)

BeginDeferred ==
    /\ Active /\ mode = "Strict"
    /\ "set_parts" \in Usage \/ \A i \in DOMAIN stack : Parts(stack[i]) => stack[i].state = "Idle"
    /\ mode' = "Deferred" /\ startDepth' = Len(stack)
    /\ UNCHANGED <<type, stack, stored, phase, mem, sets, said, faults>>

\* A frame stored under the same path goes, and its rope with it.
Displaced(m) ==
    IF StoragePath \in DOMAIN stored
    THEN Freed(m, Slots(stored[StoragePath], RopeLen(stored[StoragePath]))) ELSE m

Stored(f) ==
    stored' = [q \in DOMAIN stored \cup {StoragePath} |->
                  IF q = StoragePath THEN f ELSE stored[q]]

\* Slip: the element counts as finished as soon as it is stored.
EndDeferredTaking ==
    /\ Active /\ mode = "Deferred" /\ Len(stack) > 1 /\ Len(stack) > startDepth
    /\ stack[Len(stack) - 1].tracker # "Set"
    /\ Stored(Top)
    /\ MemoryIs(Displaced(Memory))
    /\ stack' = [Pop(stack) EXCEPT ![Len(stack) - 1] = Ended(Take(@, Top.at))]
    /\ UNCHANGED <<type, mode, startDepth, phase, sets, said>>

\* The frame is stored unchecked; its collection does not count it yet.
EndDeferred ==
    /\ Active /\ mode = "Deferred" /\ Len(stack) > 1 /\ Len(stack) > startDepth
    /\ stack[Len(stack) - 1].tracker # "Set"
    /\ Stored(Top)
    /\ MemoryIs(Displaced(Memory))
    /\ stack' = [Pop(stack) EXCEPT ![Len(stack) - 1] = Ended(@)]
    /\ UNCHANGED <<type, mode, startDepth, phase, sets, said>>

\* But a set's element is inserted, whatever it has; a rope of its own goes.
EndElement ==
    LET set == stack[Len(stack) - 1] IN
    /\ Active /\ mode = "Deferred" /\ Len(stack) > 1 /\ Len(stack) > startDepth
    /\ set.tracker = "Set"
    /\ "unset" \in Usage \/ Holds(Memory, Top.at)
    /\ MemoryIs(Insert(Freed(Memory, Slots(Top, RopeLen(Top))), set, Top.at))
    /\ stack' = [Pop(stack) EXCEPT ![Len(stack) - 1] = Ended(@)]
    /\ UNCHANGED <<type, mode, startDepth, stored, phase, sets, said>>

FinishDeferred ==
    /\ Active /\ mode = "Deferred"
    /\ mode' = "Strict" /\ startDepth' = 0
    /\ phase' = "Walking"
    /\ UNCHANGED <<type, stack, stored, mem, sets, said, faults>>

\* The order of PathStep: its variants in the order of their declaration.
StepBefore(s, t) ==
    (s[1] = "key" /\ t[1] = "value") \/ (s[1] = t[1] /\ s[2] < t[2])

Same(p, q, n) == \A j \in 1..n : p[j] = q[j]

\* Slip: equal depths are left in any order.
BeforeByDepth(p, q) == Len(p) >= Len(q)

\* The order of the walk and of the clean-up: the deepest first, equal depths
\* step by step.
Before(p, q) ==
    \/ Len(p) > Len(q)
    \/ /\ Len(p) = Len(q)
       /\ \E i \in 1..Len(p) : StepBefore(p[i], q[i]) /\ Same(p, q, i - 1)

First(p) == \A q \in DOMAIN stored \ {p} : Before(p, q)

\* The parent is looked up among the stored frames by path, then on the stack
\* by depth.
ParentIsStored(p) == Front(p) \in DOMAIN stored
ParentOf(p) == IF ParentIsStored(p) THEN stored[Front(p)] ELSE stack[Len(p)]

HandToParent(p) ==
    LET parent == TakeAt(ParentOf(p), LastStep(p), stored[p].at) IN
    IF ParentIsStored(p)
    THEN stored' = [Removed(p) EXCEPT ![Front(p)] = parent] /\ UNCHANGED stack
    ELSE stored' = Removed(p) /\ stack' = [stack EXCEPT ![Len(p)] = parent]

\* One stored frame of the walk that is complete.
WalkFrame(p) ==
    LET m == Finish(Memory, stored[p]) IN
    /\ phase = "Walking" /\ First(p)
    /\ Complete(stored[p])
    /\ MemoryIs([m EXCEPT !.faults = @ \cup
            IF Expected(ParentOf(p), LastStep(p)) THEN {} ELSE {"half entry"}])
    /\ HandToParent(p)
    /\ UNCHANGED <<type, mode, startDepth, phase, sets, said>>

\* One that is not: it drops what it has, and the clean-up follows.
WalkFails(p) ==
    /\ phase = "Walking" /\ First(p)
    /\ ~Complete(stored[p])
    /\ MemoryIs(Disposed(Memory, stored[p]))
    /\ stored' = Removed(p)
    /\ phase' = "Cleaning"
    /\ UNCHANGED <<type, mode, startDepth, stack, sets, said>>

\* The frame on top of the stack is checked last.
WalkTop ==
    /\ phase = "Walking" /\ DOMAIN stored = {}
    /\ Complete(Top)
    /\ MemoryIs(Finish(Memory, Top))
    /\ stack' = SetTop(Finished(Top))
    /\ phase' = "Active"
    /\ UNCHANGED <<type, mode, startDepth, stored, sets, said>>

WalkTopFails ==
    /\ phase = "Walking" /\ DOMAIN stored = {}
    /\ ~Complete(Top)
    /\ phase' = "Dropping"
    /\ UNCHANGED <<type, mode, startDepth, stack, stored, mem, sets, said, faults>>

-----------------------------------------------------------------------------
(* The end *)

\* build(), after finish_deferred() where there is deferred mode.
Build ==
    /\ Active /\ mode = "Strict" /\ Len(stack) = 1
    /\ Complete(Top)
    /\ MemoryIs(Finish(Memory, Top))
    /\ stack' = << >>
    /\ phase' = "Built"
    /\ UNCHANGED <<type, mode, startDepth, stored, sets, said>>

\* The caller drops the Partial, or makes a call that fails.
Cancel ==
    /\ Active
    /\ phase' = "Dropping"
    /\ UNCHANGED <<type, mode, startDepth, stack, stored, mem, sets, said, faults>>

\* Slip: a stored frame leaves its contents to its collection.
CleanStoredNot(p) ==
    /\ phase \in {"Cleaning", "Dropping"} /\ First(p)
    /\ MemoryIs(Dealloc(Memory, stored[p]))
    /\ stored' = Removed(p)
    /\ UNCHANGED <<type, mode, startDepth, stack, phase, sets, said>>

\* One stored frame, in cleanup_stored_frames_on_error or in Drop.  The step is
\* no Field: the parent has no bit to clear.
CleanStored(p) ==
    /\ phase \in {"Cleaning", "Dropping"} /\ First(p)
    /\ MemoryIs(Disposed(Memory, stored[p]))
    /\ stored' = Removed(p)
    /\ UNCHANGED <<type, mode, startDepth, stack, phase, sets, said>>

CleanedUp ==
    /\ phase = "Cleaning" /\ DOMAIN stored = {}
    /\ phase' = "Dropping"
    /\ UNCHANGED <<type, mode, startDepth, stack, stored, mem, sets, said, faults>>

DropFrame ==
    /\ phase = "Dropping" /\ DOMAIN stored = {}
    /\ MemoryIs(Disposed(Memory, Top))
    /\ stack' = Pop(stack)
    /\ phase' = IF Len(stack) = 1 THEN "Dropped" ELSE phase
    /\ UNCHANGED <<type, mode, startDepth, stored, sets, said>>

-----------------------------------------------------------------------------
(* The specification *)

Call ==
    \/ \E n \in 0..1 : SetWhole(n)
    \/ InitCollection \/ BeginItem \/ BeginKey \/ BeginValue \/ BeginElement
    \/ EndStrict \/ EndDeferred \/ EndElement
    \/ BeginDeferred \/ FinishDeferred \/ Build \/ Cancel

Loop ==
    \/ \E p \in DOMAIN stored : WalkFrame(p) \/ WalkFails(p) \/ CleanStored(p)
    \/ WalkTop \/ WalkTopFails \/ CleanedUp \/ DropFrame

Next == Call \/ Loop

Spec == Init /\ [][Next]_vars

-----------------------------------------------------------------------------
(* Properties *)

Frames == {stack[i] : i \in 1..Len(stack)} \cup {stored[p] : p \in DOMAIN stored}

(***************************************************************************)
(* The state is well formed: the stack descends one element at a time, a   *)
(* frame lies in allocated memory, only a collection's tracker has         *)
(* elements, and a rope has not finished more slots than it handed out,    *)
(* which mark_last_initialized asserts (rope.rs).                          *)
(***************************************************************************)
TypeOK ==
    /\ type \in Types
    /\ mode \in {"Strict", "Deferred"}
    /\ phase \in {"Active", "Walking", "Cleaning", "Dropping", "Dropped", "Built"}
    /\ Active => startDepth <= Len(stack) /\ stack # << >>
    /\ \A i \in 1..Len(stack) : Len(stack[i].at) = i - 1
    /\ \A f \in Frames :
          /\ f.tracker = IF IsLeaf(f) \/ f.tracker = "Scalar" THEN "Scalar" ELSE Collection(f)
          /\ f.at \in DOMAIN mem
          /\ f.rope # None => f.tracker = "List" /\ Marked(f) <= RopeLen(f)
          /\ f.pending # << >> => f.tracker = "Map"
          /\ f.state \in IF f.tracker \in {"List", "Set"} THEN {"Idle", "Item"}
                         ELSE IF f.tracker = "Map" THEN {"Idle", "Key", "KeyDone", "Value"}
                         ELSE {"Idle"}
    /\ \A p \in DOMAIN stored : Len(p) = Len(stored[p].at)
    /\ faults \subseteq {"touched nothing", "lost a value", "half entry"}

(***************************************************************************)
(* "The rope must contain only initialized elements" (drain_rope_into_vec) *)
(* and "Every entry at finalize time MUST be a full (key, value) pair"     *)
(* (drain_pending_into_map): nothing is dropped or moved that holds no     *)
(* value, and no half-entry is missing or left over.                       *)
(***************************************************************************)
OnlyInitialized == faults \cap {"touched nothing", "half entry"} = {}

(***************************************************************************)
(* No element is lost: none is in a chunk or a buffer that is freed, none  *)
(* is written over, and a Partial that is gone leaves no rope, no buffer   *)
(* and no value behind.                                                    *)
(***************************************************************************)
NothingLost ==
    /\ "lost a value" \notin faults
    /\ phase = "Dropped" => mem = [a \in {Root} |-> None]
    /\ phase = "Built" => DOMAIN mem = {Root}

(***************************************************************************)
(* One authority over every slot and buffer (deinit's comments on RopeSlot *)
(* frames and pending entries): either a frame of its own, or the          *)
(* collection that counts it as finished, and then it holds a value.       *)
(***************************************************************************)
OneAuthority ==
    phase \in {"Active", "Walking"} =>
        \A a \in DOMAIN mem \ {Root} :
            LET own == {f \in Frames : f.at = a}
                parents == {f \in Frames : a \in FinishedParts(f)} IN
            /\ Cardinality(own) + Cardinality(parents) = 1
            /\ parents # {} => Holds(Memory, a)

(***************************************************************************)
(* What is built has the elements the caller began, in that order, each    *)
(* key with its value, whether they were ended in strict mode or stored    *)
(* and finished later, on top of those of a whole value.  The elements of  *)
(* a set have no order.                                                    *)
(***************************************************************************)
AsDescribed ==
    phase = "Built" =>
        \/ mem[Root] = Some(said)
        \/ type[1] = "set" /\ ToSet(mem[Root][1]) = ToSet(said)

(***************************************************************************)
(* finish_deferred refuses only an incomplete value: a place that was      *)
(* begun has none, or an entry has a key and no value.                     *)
(***************************************************************************)
RefusesOnlyGaps ==
    [][phase = "Walking" /\ phase' \in {"Cleaning", "Dropping"} =>
          \E f \in Frames : mem[f.at] = None \/ f.state = "KeyDone"]_vars

=============================================================================
