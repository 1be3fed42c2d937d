------------------------- MODULE Collections_proofs -------------------------
(***************************************************************************)
(* What is said of Collections for every type, every number of elements    *)
(* and every order of calls, as long as Usage is empty.                    *)
(*                                                                         *)
(* The invariant relates the frames, as a set, to the memory (Owned): each *)
(* place is that of an element of a frame, and is in the hands of a frame  *)
(* of its own or of its collection, which is right about what it counts as *)
(* finished.  That a collection counts the right element when one passes   *)
(* the walk is a matter of numbers: the slots of a rope that are not       *)
(* finished all have frames (ListOK), and so have the keys and values of a *)
(* map that are not pending yet (MapIs).  With the order of the walk, the  *)
(* element that passes is then the next one to be counted.                 *)
(***************************************************************************)
EXTENDS Collections, FiniteSetTheorems, SequenceTheorems, TLAPS

IsSeq(s) == s \in Seq({s[i] : i \in DOMAIN s})

StepSet == {"item", "key", "value", "element"} \X Nat
Steps == Seq(StepSet)
Places == {a \in Steps : Len(a) <= 2}

RopeSet == [len : Nat, marked : Nat]
EntrySet == [key : Steps, value : Seq(Steps)]
FrameSet ==
    [at : Places, tracker : {"Scalar", "List", "Map", "Set"}, isInit : BOOLEAN,
     state : {"Idle", "Item", "Key", "KeyDone", "Value"}, cur : Seq(StepSet),
     rope : Seq(RopeSet), pending : Seq(EntrySet)]

-----------------------------------------------------------------------------
(* One frame *)

Part(f, kind, k) == Append(f.at, <<kind, k>>)
IsPart(a, b) == a # Root /\ Front(a) = b

\* The step a frame contributes to paths, and what its state says of it.
StateOK(f) ==
    \/ f.tracker = "Scalar" /\ f.state = "Idle" /\ f.cur = None
    \/ f.tracker = "Set" /\ f.state \in {"Idle", "Item"} /\ f.cur = None
    \/ f.tracker = "List" /\ f.state = "Idle" /\ f.cur = None
    \/ f.tracker = "List" /\ f.state = "Item" /\ \E k \in Nat : f.cur = Some(<<"item", k>>)
    \/ f.tracker = "Map" /\ f.state = "Idle" /\ f.cur = None /\ f.pending = << >>
    \/ f.tracker = "Map" /\ f.state \in {"Key", "KeyDone"} /\ \E k \in Nat : f.cur = Some(<<"key", k>>)
    \/ f.tracker = "Map" /\ f.state \in {"Value", "Idle"} /\ \E k \in Nat : f.cur = Some(<<"value", k>>)

EntryOK(f, e) ==
    /\ \E k \in Nat : e.key = Part(f, "key", k)
    /\ e.value # None => \E k \in Nat : e.value = Some(Part(f, "value", k))

FrameOK(f) ==
    /\ f \in FrameSet
    /\ IsLeaf(f) => f.tracker = "Scalar"
    /\ f.tracker # "Scalar" => f.isInit
    /\ f.rope # None => f.tracker = "List" /\ Marked(f) <= RopeLen(f)
    /\ f.pending # << >> => f.tracker = "Map"
    /\ \A i \in 1..Len(f.pending) : EntryOK(f, f.pending[i])
    /\ StateOK(f)

\* The elements that g can have.
Kid(g, s) ==
    \/ g.tracker = "List" /\ s[1] = "item" /\ s[2] < RopeLen(g)
    \/ /\ g.tracker = "Map" /\ s[1] \in {"key", "value"} /\ g.cur # None
       /\ s[2] <= g.cur[1][2]
       /\ s[1] = "value" /\ s[2] = g.cur[1][2] => g.cur[1][1] = "value"
    \/ g.tracker = "Set" /\ s = Element /\ g.state = "Item"

-----------------------------------------------------------------------------
(* The frames F and the memory m *)

PlacesOf(F) == {f.at : f \in F}

\* Frame g is right about its place and its elements, where there are frames
\* at the places P.
OwnOK(g, P, m) ==
    /\ FrameOK(g)
    /\ g.at \in DOMAIN m
    /\ g.isInit <=> m[g.at] # None
    /\ Slots(g, RopeLen(g)) \subseteq DOMAIN m
    /\ \A a \in FinishedParts(g) : a \in DOMAIN m /\ m[a] # None /\ a \notin P
    /\ \A a \in DOMAIN m : IsPart(a, g.at) =>
        /\ Kid(g, Last(a))
        /\ a \notin P => a \in Allocations(g) /\ (m[a] # None => a \in FinishedParts(g))

Owned(F, m) ==
    /\ \A f, g \in F : f.at = g.at => f = g
    /\ \A a \in DOMAIN m : a \in Steps /\ (a # Root => Front(a) \in PlacesOf(F))
    /\ \A g \in F : OwnOK(g, PlacesOf(F), m)

-----------------------------------------------------------------------------
(* The stack s and the stored frames st *)

FramesOf(s, st) == {s[i] : i \in 1..Len(s)} \cup {st[p] : p \in DOMAIN st}
StoredAt(st) == {st[p].at : p \in DOMAIN st}

\* Where the element of g is whose frame is next on the stack.
StepOpen(g) ==
    IF g.tracker = "List" THEN <<"item", RopeLen(g) - 1>>
    ELSE IF g.tracker = "Map" THEN g.cur[1] ELSE Element

Placed(s, st) ==
    /\ s \in Seq(FrameSet)
    /\ \A i \in 1..Len(s) : Len(s[i].at) = i - 1
    /\ \A i \in 1..Len(s) - 1 : IsPart(s[i + 1].at, s[i].at)
    /\ \A p \in DOMAIN st :
        /\ st[p] \in FrameSet /\ p \in Steps /\ p # Root
        /\ Len(p) = Len(st[p].at) /\ Last(p) = Last(st[p].at)
    /\ \A p, q \in DOMAIN st : st[p].at = st[q].at => p = q
    /\ \A p \in DOMAIN st : \A i \in 1..Len(s) : s[i].at # st[p].at

Opened(s) ==
    /\ s[Len(s)].state \in {"Idle", "KeyDone"}
    /\ \A i \in 1..Len(s) - 1 :
        /\ s[i].state \in {"Item", "Key", "Value"}
        /\ s[i + 1].at = Append(s[i].at, StepOpen(s[i]))

\* Deferred mode was entered at the root: a path is a place.
AsTheyLie(st) == \A p \in DOMAIN st : st[p].at = p

\* It was entered in an element, whose number in the path is not its slot's.
Behind(s, st) ==
    \A p \in DOMAIN st :
        /\ Len(p) = 2 /\ Len(s) >= 2
        /\ s[1].cur = Some(p[1])
        /\ Front(st[p].at) = s[2].at

-----------------------------------------------------------------------------
(* Which elements of g have frames *)

\* A slot that is not finished has a frame.
ListOK(g, P) == Slots(g, RopeLen(g)) \ Slots(g, Marked(g)) \subseteq P

Given(g, k) == k < Len(g.pending) /\ g.pending[k + 1].value # None
Waits(g) == g.state \in {"KeyDone", "Value"}

\* n entries were begun since the map was completed last, and the keys and
\* values that are not pending are at the stored places S.
MapIs(g, S, n) ==
    /\ Len(g.pending) <= n
    /\ \A k \in Nat : Part(g, "key", k) \in S <=> Len(g.pending) <= k /\ k < n
    /\ \A k \in Nat : Part(g, "value", k) \in S <=> k < n /\ ~Given(g, k) /\ ~(Waits(g) /\ k = n - 1)
    /\ Waits(g) => n > 0 /\ ~Given(g, n - 1)

MapOK(g, S) == g.tracker = "Map" => \E n \in Nat : MapIs(g, S, n)

\* The numbers in paths are those of the entries.
Tied(g, S) ==
    g.tracker = "Map" => \A n \in Nat : MapIs(g, S, n) =>
        /\ g.state = "Key" => g.cur[1][2] = n
        /\ g.state = "Value" => g.cur[1][2] = n - 1

-----------------------------------------------------------------------------
(* The invariant *)

CollectionOf(t, f) ==
    LET kind == t[Len(f.at) + 1] IN
    CASE kind = "list" -> "List" [] kind = "map" -> "Map" [] OTHER -> "Set"
Tracked(t, f) == f.tracker = "Scalar" \/ f.tracker = CollectionOf(t, f)

LiveOK(t, s, st, m) ==
    /\ s # << >>
    /\ Placed(s, st)
    /\ Owned(FramesOf(s, st), m)
    /\ \A f \in FramesOf(s, st) : Tracked(t, f)

\* A collection's value is a sequence.
ValueOK(f, m) == ~IsLeaf(f) /\ f.isInit => IsSeq(m[f.at][1])

\* A frame that is built, where there are frames at P, those at S stored.
Sound(g, P, S, m) == ListOK(g, P) /\ MapOK(g, S) /\ ValueOK(g, m)

BuildingOK(s, st, m) ==
    /\ Opened(s)
    /\ \A p \in DOMAIN st : st[p].state \in {"Idle", "KeyDone"}
    /\ \A g \in FramesOf(s, st) :
        Sound(g, PlacesOf(FramesOf(s, st)), StoredAt(st), m)
    /\ AsTheyLie(st) \/ Behind(s, st)

DeferringOK(s, st, d) ==
    /\ d \in 1..Len(s)
    /\ IF d = 1 THEN AsTheyLie(st) ELSE Behind(s, st)
    /\ Len(s) > 1 => s[1].tracker # "Set"
    /\ \A i \in d..Len(s) - 1 :
        /\ s[i].tracker # "Set" => s[i].cur = Some(StepOpen(s[i]))
        /\ Tied(s[i], StoredAt(st))

Live == phase \in {"Active", "Walking", "Cleaning", "Dropping"}
Building == phase \in {"Active", "Walking"}
Deferring == Active /\ mode = "Deferred"

CollectionsInv ==
    /\ type \in Types /\ mode \in {"Strict", "Deferred"} /\ faults = {}
    /\ phase \in {"Active", "Walking", "Cleaning", "Dropping", "Dropped", "Built"}
    /\ Live => LiveOK(type, stack, stored, mem)
    /\ Building => BuildingOK(stack, stored, mem)
    /\ Active /\ mode = "Strict" => DOMAIN stored = {} /\ startDepth = 0
    /\ phase = "Walking" => mode = "Strict" /\ startDepth = 0
    /\ Deferring => DeferringOK(stack, stored, startDepth)
    /\ phase \in {"Dropped", "Built"} =>
        stack = << >> /\ DOMAIN stored = {} /\ DOMAIN mem = {Root}
    /\ phase = "Dropped" => mem = [a \in {Root} |-> None]

-----------------------------------------------------------------------------
(* Sequences and places *)

LEMMA SeqIs ==
    ASSUME NEW S, NEW s \in Seq(S)
    PROVE  IsSeq(s)
<1>1. Len(s) \in Nat /\ DOMAIN s = 1..Len(s)
  OBVIOUS
<1>2. s \in [1..Len(s) -> {s[i] : i \in DOMAIN s}]
  BY <1>1
<1> QED
  BY <1>1, <1>2 DEF IsSeq

LEMMA AllButLast ==
    ASSUME NEW S, NEW s \in Seq(S), s # << >>
    PROVE  /\ SubSeq(s, 1, Len(s) - 1) \in Seq(S)
           /\ Len(SubSeq(s, 1, Len(s) - 1)) = Len(s) - 1
           /\ \A i \in 1..Len(s) - 1 : SubSeq(s, 1, Len(s) - 1)[i] = s[i]
           /\ s[Len(s)] \in S
           /\ Len(s) \in Nat \ {0}
<1>1. Len(s) \in Nat \ {0} /\ \A i \in 1..Len(s) : s[i] \in S
  BY EmptySeq, ElementOfSeq
<1> DEFINE n == Len(s) - 1
           r == SubSeq(s, 1, n)
<1>2. n \in Nat /\ n = Len(s) - 1 /\ \A i \in 1..n : s[i] \in S
  BY <1>1
<1> HIDE DEF n
<1>3. /\ r \in Seq(S)
      /\ Len(r) = IF 1 <= n THEN n - 1 + 1 ELSE 0
      /\ \A i \in 1..n - 1 + 1 : r[i] = s[1 + i - 1]
  <2>1. 1 \in Int /\ n \in Int
    BY <1>2
  <2> QED
    BY <1>2, <2>1, SubSeqProperties
<1> HIDE DEF r
<1>4. Len(r) = n /\ \A i \in 1..n : r[i] = s[i]
  BY <1>2, <1>3
<1> QED
  BY <1>1, <1>2, <1>3, <1>4 DEF n, r

LEMMA Parent ==
    ASSUME NEW a \in Steps, a # Root
    PROVE  /\ Front(a) \in Steps
           /\ Last(a) \in StepSet
           /\ Last(a) = LastStep(a)
           /\ LastStep(a) = a[Len(a)]
           /\ Len(a) \in Nat \ {0}
           /\ Len(Front(a)) = Len(a) - 1
           /\ \A i \in 1..Len(a) - 1 : Front(a)[i] = a[i]
           /\ a = Append(Front(a), Last(a))
<1>1. /\ Front(a) \in Seq(StepSet) /\ Len(Front(a)) = Len(a) - 1
      /\ \A i \in 1..Len(a) - 1 : Front(a)[i] = a[i]
      /\ Last(a) = a[Len(a)] /\ a[Len(a)] \in StepSet /\ Len(a) \in Nat \ {0}
  BY AllButLast DEF Steps, Root, Front, Last
<1> DEFINE b == Front(a)
           s == Last(a)
<1>2. b \in Seq(StepSet) /\ s \in StepSet /\ a \in Seq(StepSet) /\ Len(b) = Len(a) - 1
      /\ (\A i \in 1..Len(a) - 1 : b[i] = a[i]) /\ s = a[Len(a)] /\ Len(a) \in Nat \ {0}
  BY <1>1 DEF Steps
<1> HIDE DEF b, s
<1>3. /\ Append(b, s) \in Seq(StepSet) /\ Len(Append(b, s)) = Len(b) + 1
      /\ \A i \in 1..Len(b) : Append(b, s)[i] = b[i]
      /\ Append(b, s)[Len(b) + 1] = s
  BY <1>2, AppendProperties
<1>4. Len(Append(b, s)) = Len(a) /\ \A i \in 1..Len(a) : Append(b, s)[i] = a[i]
  BY <1>2, <1>3
<1>5. Append(b, s) = a
  BY <1>2, <1>3, <1>4, SeqEqual
<1> QED
  BY <1>1, <1>5 DEF b, s, Steps, LastStep

LEMMA Child ==
    ASSUME NEW a \in Steps, NEW s \in StepSet
    PROVE  /\ Append(a, s) \in Steps
           /\ Append(a, s) # Root
           /\ Len(a) \in Nat
           /\ Len(Append(a, s)) = Len(a) + 1
           /\ Front(Append(a, s)) = a
           /\ Last(Append(a, s)) = s
           /\ \A i \in 1..Len(a) : Append(a, s)[i] = a[i]
           /\ Append(a, s)[Len(a) + 1] = s
<1>1. a \in Seq(StepSet) /\ Len(a) \in Nat
  BY DEF Steps
<1>2. /\ Append(a, s) \in Seq(StepSet) /\ Append(a, s) # << >>
      /\ Len(Append(a, s)) = Len(a) + 1
      /\ \A i \in 1..Len(a) : Append(a, s)[i] = a[i]
      /\ Append(a, s)[Len(a) + 1] = s
  BY <1>1, AppendProperties
<1> DEFINE b == Append(a, s)
<1>3. b \in Steps /\ b # Root
  BY <1>2 DEF Steps, Root
<1>4. Front(b) \in Steps /\ Last(b) \in StepSet /\ b = Append(Front(b), Last(b))
  BY <1>3, Parent
<1>5. Front(b) = a /\ Last(b) = s
  <2> HIDE DEF b
  <2>1. b = Append(a, s) /\ Front(b) \in Seq(StepSet) /\ Last(b) \in StepSet
    BY <1>4 DEF b, Steps
  <2>2. Append(a, s) = Append(Front(b), Last(b))
    BY <1>4, <2>1
  <2>3. ASSUME NEW c \in Seq(StepSet), NEW t \in StepSet, Append(a, s) = Append(c, t)
        PROVE  c = a /\ t = s
    BY <1>1, <2>3, AppendInjective
  <2> QED
    BY <2>1, <2>2, <2>3
<1> QED
  BY <1>1, <1>2, <1>3, <1>5

LEMMA RootIs == Root \in Steps /\ Len(Root) = 0 /\ \A a \in Steps : Len(a) = 0 => a = Root
<1>1. << >> \in Seq(StepSet) /\ Len(<< >>) = 0
  BY EmptySeq
<1>2. \A a \in Seq(StepSet) : a # << >> => Len(a) # 0
  BY EmptySeq
<1> QED
  BY <1>1, <1>2 DEF Root, Steps

-----------------------------------------------------------------------------
(* What a frame has *)

LEMMA FrameFacts ==
    ASSUME NEW f, FrameOK(f)
    PROVE  /\ f.at \in Steps /\ Len(f.at) \in 0..2
           /\ RopeLen(f) \in Nat /\ Marked(f) \in Nat /\ Marked(f) <= RopeLen(f)
           /\ f.tracker # "List" => f.rope = None /\ RopeLen(f) = 0 /\ Marked(f) = 0
           /\ f.tracker # "Map" => f.pending = << >> /\ Len(f.pending) = 0
           /\ Len(f.pending) \in Nat /\ DOMAIN f.pending = 1..Len(f.pending)
<1>1. f \in FrameSet
  BY DEF FrameOK
<1>2. f.at \in Steps /\ Len(f.at) \in 0..2
  <2>1. Len(f.at) \in Nat /\ Len(f.at) <= 2 /\ f.at \in Steps
    BY <1>1 DEF FrameSet, Places, Steps
  <2>2. \A n \in Nat : n <= 2 => n \in 0..2
    OBVIOUS
  <2> QED
    BY <2>1, <2>2
<1>3. CASE f.rope = None
  <2>1. RopeLen(f) = 0 /\ Marked(f) = 0
    BY <1>3 DEF RopeLen, Marked
  <2> QED
    BY <1>1, <1>2, <1>3, <2>1 DEF FrameSet, FrameOK
<1>4. CASE f.rope # None
  <2>1. f.rope[1] \in RopeSet
    <3>1. f.rope \in Seq(RopeSet)
      BY <1>1 DEF FrameSet
    <3>2. Len(f.rope) \in Nat \ {0}
      BY <1>4, <3>1, EmptySeq DEF None
    <3> QED
      BY <3>1, <3>2, ElementOfSeq
  <2>2. RopeLen(f) \in Nat /\ Marked(f) \in Nat
    BY <1>4, <2>1 DEF RopeLen, Marked, RopeSet
  <2> QED
    BY <1>1, <1>2, <1>4, <2>2 DEF FrameSet, FrameOK
<1> QED
  BY <1>3, <1>4

LEMMA PartFacts ==
    ASSUME NEW f, f.at \in Steps, NEW kind \in {"item", "key", "value", "element"}, NEW k \in Nat
    PROVE  /\ Part(f, kind, k) \in Steps
           /\ IsPart(Part(f, kind, k), f.at)
           /\ Last(Part(f, kind, k)) = <<kind, k>>
<1>1. <<kind, k>> \in StepSet
  BY DEF StepSet
<1> QED
  BY <1>1, Child DEF Part, IsPart

LEMMA SlotsAre ==
    ASSUME NEW f, NEW n \in Nat
    PROVE  \A a : a \in Slots(f, n) <=> \E k \in Nat : k < n /\ a = Part(f, "item", k)
<1>1. \A k : k \in 0..n - 1 <=> k \in Nat /\ k < n
  OBVIOUS
<1> QED
  BY <1>1 DEF Slots, Part

LEMMA EntryHas ==
    ASSUME NEW e, e.value = << >> \/ \E x : e.value = <<x>>
    PROVE  \A a : a \in EntryBuffers(e) <=>
               a = e.key \/ (e.value # None /\ a = e.value[1])
<1>1. CASE e.value = << >>
  <2>1. ToSet(e.value) = {} /\ e.value = None
    BY <1>1 DEF ToSet, None
  <2> QED
    BY <2>1 DEF EntryBuffers
<1>2. CASE \E x : e.value = <<x>>
  <2>1. PICK x : e.value = <<x>>
    BY <1>2
  <2>2. ToSet(e.value) = {x} /\ e.value # None /\ e.value[1] = x
    BY <2>1 DEF ToSet, None
  <2> QED
    BY <2>2 DEF EntryBuffers
<1> QED
  BY <1>1, <1>2

LEMMA FinishedAre ==
    ASSUME NEW f, FrameOK(f)
    PROVE  \A a : a \in FinishedParts(f) <=>
               \/ \E k \in Nat : k < Marked(f) /\ a = Part(f, "item", k)
               \/ \E i \in 1..Len(f.pending) :
                    \/ a = f.pending[i].key
                    \/ f.pending[i].value # None /\ a = f.pending[i].value[1]
<1>1. Marked(f) \in Nat /\ DOMAIN f.pending = 1..Len(f.pending)
  BY FrameFacts
<1>2. ASSUME NEW i \in 1..Len(f.pending), NEW a
      PROVE  a \in EntryBuffers(f.pending[i]) <=>
               a = f.pending[i].key \/ (f.pending[i].value # None /\ a = f.pending[i].value[1])
  <2>1. f.pending[i].value = << >> \/ \E x : f.pending[i].value = <<x>>
    BY DEF FrameOK, EntryOK, None, Some
  <2> QED
    BY <2>1, EntryHas
<1>3. \A a : a \in UNION {EntryBuffers(e) : e \in ToSet(f.pending)} <=>
               \E i \in 1..Len(f.pending) : a \in EntryBuffers(f.pending[i])
  BY <1>1 DEF ToSet
<1>4. \A a : a \in FinishedParts(f) <=>
        a \in Slots(f, Marked(f)) \/ \E i \in 1..Len(f.pending) : a \in EntryBuffers(f.pending[i])
  BY <1>3 DEF FinishedParts
<1>5. \A a : a \in Slots(f, Marked(f)) <=> \E k \in Nat : k < Marked(f) /\ a = Part(f, "item", k)
  BY <1>1, SlotsAre
<1>6. ASSUME NEW a
      PROVE  (\E i \in 1..Len(f.pending) : a \in EntryBuffers(f.pending[i]))
             <=> \E i \in 1..Len(f.pending) :
                    a = f.pending[i].key \/ (f.pending[i].value # None /\ a = f.pending[i].value[1])
  BY <1>2, Zenon
<1> QED
  BY <1>4, <1>5, <1>6, Zenon

\* What a collection has finished, or allocated, are places of its elements.
LEMMA AllocationsAreParts ==
    ASSUME NEW f, FrameOK(f), NEW a \in Allocations(f)
    PROVE  a \in Steps /\ IsPart(a, f.at)
<1>1. f.at \in Steps /\ RopeLen(f) \in Nat
  BY FrameFacts
<1>2. CASE a \in Slots(f, RopeLen(f))
  BY <1>1, <1>2, SlotsAre, PartFacts
<1>3. CASE a \in FinishedParts(f)
  <2>1. CASE \E k \in Nat : k < Marked(f) /\ a = Part(f, "item", k)
    BY <1>1, <2>1, PartFacts
  <2>2. ASSUME NEW i \in 1..Len(f.pending), a = f.pending[i].key
        PROVE  a \in Steps /\ IsPart(a, f.at)
    <3>1. \E k \in Nat : f.pending[i].key = Part(f, "key", k)
      BY DEF FrameOK, EntryOK
    <3> QED
      BY <1>1, <2>2, <3>1, PartFacts
  <2>3. ASSUME NEW i \in 1..Len(f.pending), f.pending[i].value # None, a = f.pending[i].value[1]
        PROVE  a \in Steps /\ IsPart(a, f.at)
    <3>1. \E k \in Nat : f.pending[i].value = <<Part(f, "value", k)>>
      BY <2>3 DEF FrameOK, EntryOK, Some
    <3>2. \E k \in Nat : f.pending[i].value[1] = Part(f, "value", k)
      BY <3>1
    <3> QED
      BY <1>1, <2>3, <3>2, PartFacts
  <2> QED
    BY <1>3, <2>1, <2>2, <2>3, FinishedAre
<1> QED
  BY <1>2, <1>3 DEF Allocations

LEMMA NoElements ==
    ASSUME NEW f, FrameOK(f), f.tracker \notin {"List", "Map"}
    PROVE  /\ FinishedParts(f) = {} /\ Allocations(f) = {} /\ Slots(f, RopeLen(f)) = {}
           /\ \A s : Kid(f, s) => f.tracker = "Set" /\ s = Element /\ f.state = "Item"
<1>1. RopeLen(f) = 0 /\ Marked(f) = 0 /\ Len(f.pending) = 0
  BY FrameFacts
<1>2. Slots(f, 0) = {}
  BY SlotsAre
<1>3. FinishedParts(f) = {}
  BY <1>1, FinishedAre
<1> QED
  BY <1>1, <1>2, <1>3 DEF Allocations, Kid

LEMMA ListParts ==
    ASSUME NEW f, FrameOK(f), f.tracker = "List"
    PROVE  FinishedParts(f) = Slots(f, Marked(f)) /\ Allocations(f) = Slots(f, RopeLen(f))
<1>1. Len(f.pending) = 0 /\ Marked(f) \in Nat /\ RopeLen(f) \in Nat /\ Marked(f) <= RopeLen(f)
  BY FrameFacts
<1>2. FinishedParts(f) = Slots(f, Marked(f))
  <2>1. \A a : a \in FinishedParts(f) <=> \E k \in Nat : k < Marked(f) /\ a = Part(f, "item", k)
    BY <1>1, FinishedAre
  <2>2. \A a : a \in Slots(f, Marked(f)) <=> \E k \in Nat : k < Marked(f) /\ a = Part(f, "item", k)
    BY <1>1, SlotsAre
  <2> QED
    BY <2>1, <2>2
<1>3. Slots(f, Marked(f)) \subseteq Slots(f, RopeLen(f))
  BY <1>1, SlotsAre
<1> QED
  BY <1>2, <1>3 DEF Allocations

LEMMA MapParts ==
    ASSUME NEW f, FrameOK(f), f.tracker = "Map"
    PROVE  Allocations(f) = FinishedParts(f) /\ Slots(f, RopeLen(f)) = {}
<1>1. RopeLen(f) = 0
  BY FrameFacts
<1>2. Slots(f, 0) = {}
  BY SlotsAre
<1> QED
  BY <1>1, <1>2 DEF Allocations

-----------------------------------------------------------------------------
(* The memory, without faults so far *)

LEMMA TakenIs ==
    ASSUME NEW m, m.faults = {}, NEW A, \A a \in A : a \in DOMAIN m.at /\ m.at[a] # None
    PROVE  /\ Taken(m, A).at = [a \in DOMAIN m.at |-> IF a \in A THEN None ELSE m.at[a]]
           /\ Taken(m, A).faults = {}
<1>1. \A a \in A : Holds(m, a)
  BY DEF Holds
<1> QED
  BY <1>1 DEF Taken

LEMMA FreedIs ==
    ASSUME NEW m, m.faults = {}, NEW A, \A a \in A : a \in DOMAIN m.at => m.at[a] = None
    PROVE  /\ Freed(m, A).at = [a \in DOMAIN m.at \ A |-> m.at[a]]
           /\ Freed(m, A).faults = {}
<1>1. ~\E a \in A : Holds(m, a)
  BY DEF Holds
<1> QED
  BY <1>1 DEF Freed

\* No element of f has a frame.
Bare(f, P) == \A a \in P : ~IsPart(a, f.at)

\* What a collection has is dropped, and its chunks and buffers are freed.
Emptied(M, f) == [a \in DOMAIN M \ Allocations(f) |-> M[a]]

LEMMA NotInItself == ASSUME NEW a \in Steps PROVE ~IsPart(a, a)
<1>1. SUFFICES ASSUME a # Root, Front(a) = a PROVE FALSE
  BY DEF IsPart
<1>2. Len(a) = Len(a) - 1 /\ Len(a) \in Nat
  BY <1>1, Parent
<1> QED
  BY <1>2

\* An allocation of f that has no frame is f's to empty.
LEMMA BareFacts ==
    ASSUME NEW f, NEW P, NEW M, OwnOK(f, P, M), Bare(f, P)
    PROVE  /\ \A a \in FinishedParts(f) : a \in DOMAIN M /\ M[a] # None
           /\ \A a \in DOMAIN M : IsPart(a, f.at) =>
                a \in Allocations(f) /\ (M[a] # None => a \in FinishedParts(f))
           /\ \A a \in Allocations(f) : a \in Steps /\ IsPart(a, f.at)
           /\ f.at \in DOMAIN M /\ f.at \notin Allocations(f)
           /\ f.at \in DOMAIN Emptied(M, f) /\ Emptied(M, f)[f.at] = M[f.at]
<1>1. FrameOK(f) /\ f.at \in DOMAIN M /\ f.at \in Steps
  BY FrameFacts DEF OwnOK
<1>2. \A a \in FinishedParts(f) : a \in DOMAIN M /\ M[a] # None
  BY DEF OwnOK
<1>3. \A a \in DOMAIN M : IsPart(a, f.at) => a \in Allocations(f) /\ (M[a] # None => a \in FinishedParts(f))
  BY DEF OwnOK, Bare
<1>4. \A a \in Allocations(f) : a \in Steps /\ IsPart(a, f.at)
  BY <1>1, AllocationsAreParts
<1>5. f.at \notin Allocations(f)
  BY <1>1, <1>4, NotInItself
<1>6. f.at \in DOMAIN Emptied(M, f) /\ Emptied(M, f)[f.at] = M[f.at]
  BY <1>1, <1>5 DEF Emptied
<1> QED
  BY <1>1, <1>2, <1>3, <1>4, <1>5, <1>6

LEMMA EmptiedIs ==
    ASSUME NEW f, NEW P, NEW m, m.faults = {}, OwnOK(f, P, m.at), Bare(f, P)
    PROVE  /\ Freed(Taken(m, FinishedParts(f)), Allocations(f)).at = Emptied(m.at, f)
           /\ Freed(Taken(m, FinishedParts(f)), Allocations(f)).faults = {}
<1> DEFINE t == Taken(m, FinishedParts(f))
<1>1. /\ t.at = [a \in DOMAIN m.at |-> IF a \in FinishedParts(f) THEN None ELSE m.at[a]]
      /\ t.faults = {}
  BY BareFacts, TakenIs
<1>2. \A a \in Allocations(f) : a \in DOMAIN t.at => t.at[a] = None
  BY <1>1, BareFacts
<1>3. DOMAIN t.at = DOMAIN m.at /\ \A a \in DOMAIN m.at \ Allocations(f) : t.at[a] = m.at[a]
  BY <1>1 DEF Allocations
<1> HIDE DEF t
<1>4. Freed(t, Allocations(f)).at = [a \in DOMAIN t.at \ Allocations(f) |-> t.at[a]]
      /\ Freed(t, Allocations(f)).faults = {}
  BY <1>1, <1>2, FreedIs
<1>5. [a \in DOMAIN t.at \ Allocations(f) |-> t.at[a]] = Emptied(m.at, f)
  BY <1>3 DEF Emptied
<1> QED
  BY <1>4, <1>5 DEF t

\* deinit: the frame has nothing any more.
LEMMA DeinitIs ==
    ASSUME NEW f, NEW P, NEW m, m.faults = {}, OwnOK(f, P, m.at), Bare(f, P)
    PROVE  /\ Deinit(m, f).at =
                [a \in DOMAIN m.at \ Allocations(f) |-> IF a = f.at THEN None ELSE m.at[a]]
           /\ Deinit(m, f).faults = {}
<1> DEFINE e == Freed(Taken(m, FinishedParts(f)), Allocations(f))
           D == [a \in DOMAIN m.at \ Allocations(f) |-> IF a = f.at THEN None ELSE m.at[a]]
<1>1. e.at = Emptied(m.at, f) /\ e.faults = {}
  BY EmptiedIs
<1>2. Deinit(m, f) = IF f.isInit THEN Taken(e, {f.at}) ELSE e
  BY DEF Deinit
<1> HIDE DEF e
<1>3. f.at \in DOMAIN e.at /\ e.at[f.at] = m.at[f.at]
  BY <1>1, BareFacts
<1>4. f.isInit <=> m.at[f.at] # None
  BY DEF OwnOK
<1>5. CASE f.isInit
  <2>1. \A a \in {f.at} : a \in DOMAIN e.at /\ e.at[a] # None
    BY <1>3, <1>4, <1>5
  <2>2. /\ Taken(e, {f.at}).at = [a \in DOMAIN e.at |-> IF a \in {f.at} THEN None ELSE e.at[a]]
        /\ Taken(e, {f.at}).faults = {}
    BY <1>1, <2>1, TakenIs
  <2>3. [a \in DOMAIN e.at |-> IF a \in {f.at} THEN None ELSE e.at[a]] = D
    BY <1>1 DEF Emptied
  <2> QED
    BY <1>2, <1>5, <2>2, <2>3
<1>6. CASE ~f.isInit
  <2>1. e.at = D
    BY <1>1, <1>4, <1>6 DEF Emptied
  <2> QED
    BY <1>1, <1>2, <1>6, <2>1
<1> QED
  BY <1>5, <1>6

\* The places of m2 are those of m without A; they hold what they did, but
\* for the place b, which still has its value.
Became(M, M2, A, b) ==
    /\ DOMAIN M2 = DOMAIN M \ A
    /\ \A a \in DOMAIN M2 : a # b => M2[a] = M[a]
    /\ b \in DOMAIN M2 /\ M2[b] # None
    /\ IsSeq(M[b][1]) => IsSeq(M2[b][1])

LEMMA Joined == ASSUME NEW s, NEW t, IsSeq(s), IsSeq(t) PROVE IsSeq(s \o t)
<1> DEFINE S == {s[i] : i \in DOMAIN s} \cup {t[i] : i \in DOMAIN t}
<1>1. s \in Seq(S) /\ t \in Seq(S)
  BY SeqMonotonic DEF IsSeq
<1> HIDE DEF S
<1>2. s \o t \in Seq(S)
  BY <1>1, ConcatProperties
<1> QED
  BY <1>2, SeqIs

LEMMA ElementsAreSeq ==
    ASSUME NEW m, NEW f, FrameOK(f)
    PROVE  IsSeq(ElementsOf(m, f))
<1> DEFINE L == [k \in 1..Marked(f) |-> m.at[Append(f.at, <<"item", k - 1>>)][1]]
           K == [k \in 1..Len(f.pending) |-> <<m.at[f.pending[k].key][1], m.at[f.pending[k].value[1]][1]>>]
<1>1. Len(f.pending) \in Nat /\ Marked(f) \in Nat
  BY FrameFacts
<1>2. IsSeq(L)
  <2> DEFINE S == {L[i] : i \in 1..Marked(f)}
  <2>1. L \in [1..Marked(f) -> S]
    OBVIOUS
  <2> HIDE DEF L, S
  <2>2. L \in Seq(S)
    BY <1>1, <2>1
  <2> QED
    BY <2>2, SeqIs
<1>3. IsSeq(K)
  <2> DEFINE S == {K[i] : i \in 1..Len(f.pending)}
  <2>1. K \in [1..Len(f.pending) -> S]
    OBVIOUS
  <2> HIDE DEF K, S
  <2>2. K \in Seq(S)
    BY <1>1, <2>1
  <2> QED
    BY <2>2, SeqIs
<1>4. ElementsOf(m, f) = IF f.tracker = "List" THEN L ELSE K
  BY DEF ElementsOf
<1> HIDE DEF L, K
<1> QED
  BY <1>2, <1>3, <1>4

\* require_full_initialization: the elements go into the value.  There is no
\* half-entry.
LEMMA FinishIs ==
    ASSUME NEW f, NEW P, NEW m, m.faults = {}, OwnOK(f, P, m.at), Bare(f, P), f.isInit,
           \A i \in 1..Len(f.pending) : f.pending[i].value # None
    PROVE  /\ Became(m.at, Finish(m, f).at, Allocations(f), f.at)
           /\ Finish(m, f).faults = {}
<1>1. FrameOK(f) /\ f.at \in DOMAIN m.at /\ m.at[f.at] # None
  BY DEF OwnOK
<1>2. CASE f.tracker = "Scalar"
  <2>1. Allocations(f) = {} /\ Finish(m, f) = m
    BY <1>1, <1>2, NoElements DEF Finish
  <2> QED
    BY <1>1, <2>1 DEF Became
<1>3. CASE f.tracker # "Scalar"
  <2> DEFINE e == Freed(Taken(m, FinishedParts(f)), Allocations(f))
             v == Some(m.at[f.at][1] \o ElementsOf(m, f))
  <2>1. e.at = Emptied(m.at, f) /\ e.faults = {}
    BY EmptiedIs
  <2>2. \A a \in FinishedParts(f) : Holds(m, a)
    BY BareFacts DEF Holds
  <2>3. ~\E d \in ToSet(f.pending) : d.value = None
    <3>1. DOMAIN f.pending = 1..Len(f.pending)
      BY <1>1, FrameFacts
    <3> QED
      BY <3>1 DEF ToSet
  <2>4. Finish(m, f) = [e EXCEPT !.at[f.at] = v]
    BY <1>3, <2>2, <2>3 DEF Finish, Drain
  <2>5. e = [at |-> e.at, faults |-> e.faults]
    BY DEF Freed
  <2>6. v # None /\ v[1] = m.at[f.at][1] \o ElementsOf(m, f)
    BY DEF Some, None
  <2>7. IsSeq(m.at[f.at][1]) => IsSeq(v[1])
    BY <1>1, <2>6, ElementsAreSeq, Joined
  <2>8. f.at \in DOMAIN Emptied(m.at, f)
    BY BareFacts
  <2>9. \A a \in DOMAIN Emptied(m.at, f) : Emptied(m.at, f)[a] = m.at[a]
    BY DEF Emptied
  <2>10. DOMAIN Emptied(m.at, f) = DOMAIN m.at \ Allocations(f)
    BY DEF Emptied
  <2> HIDE DEF e, v
  <2>11. Finish(m, f).at = [e.at EXCEPT ![f.at] = v] /\ Finish(m, f).faults = {}
    BY <2>1, <2>4, <2>5
  <2>12. Finish(m, f).at = [Emptied(m.at, f) EXCEPT ![f.at] = v]
    BY <2>1, <2>11
  <2> QED
    BY <2>6, <2>7, <2>8, <2>9, <2>10, <2>11, <2>12 DEF Became
<1> QED
  BY <1>2, <1>3

HasBuffer(f) == f.at # Root /\ LastStep(f.at)[1] # "item"

\* deinit and dealloc.
LEMMA DisposedIs ==
    ASSUME NEW f, NEW P, NEW m, m.faults = {}, OwnOK(f, P, m.at), Bare(f, P)
    PROVE  LET gone == Allocations(f) \cup (IF HasBuffer(f) THEN {f.at} ELSE {}) IN
           /\ Disposed(m, f).at =
                [a \in DOMAIN m.at \ gone |-> IF a = f.at THEN None ELSE m.at[a]]
           /\ Disposed(m, f).faults = {}
<1> DEFINE d == Deinit(m, f)
<1>1. /\ d.at = [a \in DOMAIN m.at \ Allocations(f) |-> IF a = f.at THEN None ELSE m.at[a]]
      /\ d.faults = {}
  BY DeinitIs
<1>2. Disposed(m, f) = IF HasBuffer(f) THEN Freed(d, {f.at}) ELSE d
  BY DEF Disposed, Dealloc, HasBuffer
<1> HIDE DEF d
<1>3. CASE HasBuffer(f)
  <2>1. \A a \in {f.at} : a \in DOMAIN d.at => d.at[a] = None
    BY <1>1
  <2>2. /\ Freed(d, {f.at}).at = [a \in DOMAIN d.at \ {f.at} |-> d.at[a]]
        /\ Freed(d, {f.at}).faults = {}
    BY <1>1, <2>1, FreedIs
  <2>3. [a \in DOMAIN d.at \ {f.at} |-> d.at[a]] =
          [a \in DOMAIN m.at \ (Allocations(f) \cup {f.at}) |-> IF a = f.at THEN None ELSE m.at[a]]
    BY <1>1
  <2> QED
    BY <1>2, <1>3, <2>2, <2>3
<1>4. CASE ~HasBuffer(f)
  BY <1>1, <1>2, <1>4
<1> QED
  BY <1>3, <1>4

\* The element at a goes into the set g.
LEMMA InsertIs ==
    ASSUME NEW g, NEW a, NEW m, m.faults = {},
           a \in DOMAIN m.at, m.at[a] # None, g.at \in DOMAIN m.at, m.at[g.at] # None, a # g.at
    PROVE  /\ Became(m.at, Insert(m, g, a).at, {a}, g.at)
           /\ Insert(m, g, a).faults = {}
<1> DEFINE t == Taken(m, {a})
           e == Freed(t, {a})
           v == Some(Append(m.at[g.at][1], m.at[a][1]))
<1>1. /\ t.at = [b \in DOMAIN m.at |-> IF b \in {a} THEN None ELSE m.at[b]]
      /\ t.faults = {}
  BY TakenIs
<1>2. Insert(m, g, a) = IF m.at[a][1] \in ToSet(m.at[g.at][1]) THEN e
                        ELSE [e EXCEPT !.at[g.at] = Some(Append(@[1], m.at[a][1]))]
  BY DEF Insert, Holds
<1>3. e = [at |-> e.at, faults |-> e.faults]
  BY DEF Freed
<1>4. e.at = [b \in DOMAIN t.at \ {a} |-> t.at[b]] /\ e.faults = {}
  <2> HIDE DEF t
  <2>1. \A b \in {a} : b \in DOMAIN t.at => t.at[b] = None
    BY <1>1
  <2> QED
    BY <1>1, <2>1, FreedIs
<1>5. DOMAIN e.at = DOMAIN m.at \ {a} /\ \A b \in DOMAIN e.at : e.at[b] = m.at[b]
  <2> HIDE DEF t, e
  <2> QED
    BY <1>1, <1>4
<1>6. IsSeq(m.at[g.at][1]) => IsSeq(v[1])
  <2>1. SUFFICES ASSUME IsSeq(m.at[g.at][1]) PROVE IsSeq(Append(m.at[g.at][1], m.at[a][1]))
    BY DEF Some
  <2> DEFINE s == m.at[g.at][1]
             x == m.at[a][1]
             S == {s[i] : i \in DOMAIN s} \cup {x}
  <2>2. s \in Seq(S) /\ x \in S
    BY <2>1, SeqMonotonic DEF IsSeq
  <2> HIDE DEF s, x, S
  <2>3. Append(s, x) \in Seq(S)
    BY <2>2, AppendProperties
  <2> QED
    BY <2>3, SeqIs DEF s, x
<1>7. v # None
  BY DEF Some, None
<1>8. g.at \in DOMAIN e.at /\ e.at[g.at] = m.at[g.at]
  BY <1>5
<1> HIDE DEF t, e
<1>9. CASE m.at[a][1] \in ToSet(m.at[g.at][1])
  BY <1>2, <1>4, <1>5, <1>8, <1>9 DEF Became
<1>10. CASE m.at[a][1] \notin ToSet(m.at[g.at][1])
  <2>1. Insert(m, g, a) = [e EXCEPT !.at[g.at] = v]
    BY <1>2, <1>3, <1>8, <1>10
  <2> HIDE DEF v
  <2>2. Insert(m, g, a).at = [e.at EXCEPT ![g.at] = v] /\ Insert(m, g, a).faults = {}
    BY <1>3, <1>4, <2>1
  <2> QED
    BY <1>5, <1>6, <1>7, <1>8, <2>2 DEF Became
<1> QED
  BY <1>9, <1>10

-----------------------------------------------------------------------------
(* Changes to frames and memory *)

\* A frame is as right as it was if its place and its elements are as before.
LEMMA Untouched ==
    ASSUME NEW g, NEW P, NEW M, NEW P2, NEW M2, OwnOK(g, P, M),
           g.at \in DOMAIN M2, M2[g.at] = None <=> M[g.at] = None,
           \A a : IsPart(a, g.at) =>
                /\ a \in DOMAIN M2 <=> a \in DOMAIN M
                /\ a \in P2 <=> a \in P
                /\ a \in DOMAIN M /\ a \notin P => (M2[a] = None <=> M[a] = None)
    PROVE  OwnOK(g, P2, M2)
<1>1. FrameOK(g) /\ g.at \in Steps
  BY FrameFacts DEF OwnOK
<1>2. \A a \in FinishedParts(g) \cup Slots(g, RopeLen(g)) : IsPart(a, g.at)
  BY <1>1, AllocationsAreParts DEF Allocations
<1>3. \A a \in FinishedParts(g) : a \in DOMAIN M /\ M[a] # None /\ a \notin P
  BY DEF OwnOK
<1>4. \A a \in FinishedParts(g) : a \in DOMAIN M2 /\ M2[a] # None /\ a \notin P2
  BY <1>2, <1>3
<1>5. Slots(g, RopeLen(g)) \subseteq DOMAIN M2
  BY <1>2 DEF OwnOK
<1>6. ASSUME NEW a \in DOMAIN M2, IsPart(a, g.at)
      PROVE  /\ Kid(g, Last(a))
             /\ a \notin P2 => a \in Allocations(g) /\ (M2[a] # None => a \in FinishedParts(g))
  <2>1. a \in DOMAIN M /\ (a \in P2 <=> a \in P) /\ (a \notin P => (M2[a] = None <=> M[a] = None))
    BY <1>6
  <2>2. /\ Kid(g, Last(a))
        /\ a \notin P => a \in Allocations(g) /\ (M[a] # None => a \in FinishedParts(g))
    BY <1>6, <2>1 DEF OwnOK
  <2> QED
    BY <2>1, <2>2
<1>7. g.isInit <=> M2[g.at] # None
  BY DEF OwnOK
<1> QED
  BY <1>1, <1>4, <1>5, <1>6, <1>7 DEF OwnOK

LEMMA OwnedFacts ==
    ASSUME NEW F, NEW M, Owned(F, M), NEW f \in F
    PROVE  /\ OwnOK(f, PlacesOf(F), M) /\ FrameOK(f)
           /\ f.at \in DOMAIN M /\ f.at \in PlacesOf(F) /\ f.at \in Steps
           /\ \A g \in F : g.at = f.at => g = f
           /\ \A a \in DOMAIN M : IsPart(a, f.at) => a # f.at
<1>1. OwnOK(f, PlacesOf(F), M) /\ FrameOK(f) /\ f.at \in DOMAIN M
  BY DEF Owned, OwnOK
<1>2. f.at \in Steps
  BY <1>1, FrameFacts
<1> QED
  BY <1>1, <1>2, NotInItself DEF Owned, PlacesOf

\* A frame that has no element frames is replaced by one at its place.
LEMMA Replaced ==
    ASSUME NEW F, NEW M, Owned(F, M), NEW f \in F, Bare(f, PlacesOf(F)),
           NEW f2, f2.at = f.at, NEW M2, f.at \in DOMAIN M2,
           DOMAIN M2 \subseteq DOMAIN M,
           \A a \in DOMAIN M : ~IsPart(a, f.at) => a \in DOMAIN M2 /\ (a # f.at => M2[a] = M[a]),
           OwnOK(f2, PlacesOf(F), M2)
    PROVE  /\ Owned((F \ {f}) \cup {f2}, M2)
           /\ PlacesOf((F \ {f}) \cup {f2}) = PlacesOf(F)
<1> DEFINE F2 == (F \ {f}) \cup {f2}
           P == PlacesOf(F)
<1>1. PlacesOf(F2) = P
  BY DEF PlacesOf
<1>2. \A g, h \in F2 : g.at = h.at => g = h
  BY DEF Owned
<1>3. \A a \in DOMAIN M2 : a \in Steps /\ (a # Root => Front(a) \in P)
  BY DEF Owned
<1>4. ASSUME NEW g \in F, g # f PROVE OwnOK(g, P, M2)
  <2>1. OwnOK(g, P, M) /\ g.at \in DOMAIN M /\ g.at \in P /\ g.at # f.at
    BY <1>4, OwnedFacts
  <2>2. ~IsPart(g.at, f.at)
    BY <2>1 DEF Bare
  <2>3. g.at \in DOMAIN M2 /\ M2[g.at] = M[g.at]
    BY <2>1, <2>2
  <2>4. ASSUME NEW a, IsPart(a, g.at)
        PROVE  /\ a \in DOMAIN M2 <=> a \in DOMAIN M
               /\ a \in DOMAIN M /\ a \notin P => (M2[a] = None <=> M[a] = None)
    <3>1. ~IsPart(a, f.at)
      BY <2>1, <2>4 DEF IsPart
    <3>2. f.at \in P
      BY OwnedFacts
    <3> QED
      BY <3>1, <3>2
  <2> HIDE DEF P
  <2> QED
    BY <2>1, <2>3, <2>4, Untouched
<1>5. \A g \in F2 : OwnOK(g, P, M2)
  BY <1>4
<1> HIDE DEF F2
<1> QED
  BY <1>1, <1>2, <1>3, <1>5 DEF Owned, F2

\* Place b is new.
Grown(m, m2, b) == m2 = [a \in DOMAIN m \cup {b} |-> IF a = b THEN None ELSE m[a]]

\* An element of f is begun at b: f2 has it, and a new frame builds it.
\* Frame f becomes f2 when its element x, at b, is begun.
Begins(f, x, b, f2) ==
    /\ f.tracker # "Scalar" /\ b = Append(f.at, x)
    /\ FrameOK(f2) /\ f2.at = f.at /\ f2.isInit = f.isInit /\ f2.tracker = f.tracker
    /\ f2.pending = f.pending
    /\ f2.state \in {"Item", "Key", "Value"} /\ Waits(f2) = Waits(f) /\ StepOpen(f2) = x
    /\ FinishedParts(f2) = FinishedParts(f) /\ Allocations(f) \subseteq Allocations(f2)
    /\ Slots(f2, RopeLen(f2)) \subseteq Slots(f, RopeLen(f)) \cup {b}
    /\ Slots(f2, Marked(f2)) = Slots(f, Marked(f))
    /\ \A k \in StepSet : Kid(f, k) => Kid(f2, k)
    /\ Kid(f2, x)

LEMMA Added ==
    ASSUME NEW F, NEW M, Owned(F, M), NEW f \in F,
           NEW x \in StepSet, NEW b, b \notin DOMAIN M, NEW f2, Begins(f, x, b, f2),
           NEW M2, Grown(M, M2, b)
    PROVE  /\ Owned((F \ {f}) \cup {f2, NewFrame(b)}, M2)
           /\ PlacesOf((F \ {f}) \cup {f2, NewFrame(b)}) = PlacesOf(F) \cup {b}
<1> DEFINE n == NewFrame(b)
           F2 == (F \ {f}) \cup {f2, n}
           P == PlacesOf(F)
           P2 == P \cup {b}
<1>1. OwnOK(f, P, M) /\ FrameOK(f) /\ f.at \in DOMAIN M /\ f.at \in P /\ f.at \in Steps
  BY OwnedFacts
<1>0. /\ b = Append(f.at, x) /\ f.tracker # "Scalar"
      /\ FrameOK(f2) /\ f2.at = f.at /\ f2.isInit = f.isInit
      /\ FinishedParts(f2) = FinishedParts(f) /\ Allocations(f) \subseteq Allocations(f2)
      /\ Slots(f2, RopeLen(f2)) \subseteq Slots(f, RopeLen(f)) \cup {b}
      /\ \A k \in StepSet : Kid(f, k) => Kid(f2, k)
      /\ Kid(f2, x)
  BY DEF Begins
<1>2. /\ b \in Steps /\ b # Root /\ Front(b) = f.at /\ Last(b) = x /\ IsPart(b, f.at)
      /\ Len(b) \in Nat /\ Len(b) <= 2
  <2>1. ~IsLeaf(f) /\ Len(f.at) \in 0..2
    BY <1>0, <1>1, FrameFacts DEF FrameOK
  <2>2. Len(f.at) # 2
    BY <2>1 DEF IsLeaf
  <2>3. \A k \in 0..2 : k # 2 => k + 1 <= 2
    OBVIOUS
  <2> QED
    BY <1>0, <1>1, <2>1, <2>2, <2>3, Child DEF IsPart
<1>3. n.at = b /\ n.tracker = "Scalar" /\ n.isInit = FALSE
  BY DEF NewFrame
<1>4. PlacesOf(F2) = P2
  <2> HIDE DEF n
  <2> QED
    BY <1>0, <1>3 DEF PlacesOf
<1>5. \A g \in F : g.at # b
  BY DEF Owned, OwnOK
<1>6. \A g, h \in F2 : g.at = h.at => g = h
  <2> HIDE DEF n
  <2> QED
    BY <1>0, <1>3, <1>5, OwnedFacts DEF Owned
<1>7. \A a \in DOMAIN M2 : a \in Steps /\ (a # Root => Front(a) \in P2)
  BY <1>1, <1>2 DEF Owned, Grown
<1>8. DOMAIN M2 = DOMAIN M \cup {b} /\ M2[b] = None /\ \A a \in DOMAIN M : a # b /\ M2[a] = M[a]
  BY DEF Grown
<1>9. ASSUME NEW g \in F, g # f PROVE OwnOK(g, P2, M2)
  <2>1. OwnOK(g, P, M) /\ g.at \in DOMAIN M /\ g.at # f.at
    BY <1>9, OwnedFacts
  <2>2. \A a : IsPart(a, g.at) => a # b
    BY <1>2, <2>1 DEF IsPart
  <2> HIDE DEF P
  <2>3. \A a : IsPart(a, g.at) =>
            /\ a \in DOMAIN M2 <=> a \in DOMAIN M
            /\ a \in P2 <=> a \in P
            /\ a \in DOMAIN M /\ a \notin P => (M2[a] = None <=> M[a] = None)
    BY <1>8, <2>2
  <2>4. g.at \in DOMAIN M2 /\ (M2[g.at] = None <=> M[g.at] = None)
    BY <1>8, <2>1
  <2> HIDE DEF P2
  <2> QED
    BY <2>1, <2>3, <2>4, Untouched
<1>10. OwnOK(f2, P2, M2)
  <2>1. f2.at \in DOMAIN M2 /\ (f2.isInit <=> M2[f2.at] # None)
    BY <1>0, <1>1, <1>8 DEF OwnOK
  <2>2. Slots(f2, RopeLen(f2)) \subseteq DOMAIN M2
    BY <1>0, <1>1, <1>8 DEF OwnOK
  <2>3. \A a \in FinishedParts(f2) : a \in DOMAIN M2 /\ M2[a] # None /\ a \notin P2
    BY <1>0, <1>1, <1>8 DEF OwnOK
  <2>4. ASSUME NEW a \in DOMAIN M2, IsPart(a, f2.at)
        PROVE  /\ Kid(f2, Last(a))
               /\ a \notin P2 => a \in Allocations(f2) /\ (M2[a] # None => a \in FinishedParts(f2))
    <3>1. CASE a = b
      BY <1>0, <1>2, <3>1
    <3>2. CASE a # b
      <4>1. a \in DOMAIN M /\ IsPart(a, f.at) /\ M2[a] = M[a]
        BY <1>0, <1>8, <2>4, <3>2
      <4>2. /\ Kid(f, Last(a))
            /\ a \notin P => a \in Allocations(f) /\ (M[a] # None => a \in FinishedParts(f))
        BY <1>1, <4>1 DEF OwnOK
      <4>3. Last(a) \in StepSet
        BY <4>1, Parent DEF Owned, IsPart
      <4> QED
        BY <1>0, <4>1, <4>2, <4>3
    <3> QED
      BY <3>1, <3>2
  <2> HIDE DEF P, P2
  <2> QED
    BY <1>0, <2>1, <2>2, <2>3, <2>4 DEF OwnOK
<1>11. FrameOK(n)
  <2>1. n \in FrameSet
    <3>1. b \in Places
      BY <1>2 DEF Places
    <3>2. << >> \in Seq(StepSet) /\ << >> \in Seq(RopeSet) /\ << >> \in Seq(EntrySet)
      BY EmptySeq
    <3> QED
      BY <3>1, <3>2 DEF FrameSet, NewFrame, None
  <2>2. n.state = "Idle" /\ n.cur = None /\ n.rope = None /\ n.pending = << >> /\ Len(n.pending) = 0
    BY EmptySeq DEF NewFrame, None
  <2> HIDE DEF n
  <2> QED
    BY <1>3, <2>1, <2>2 DEF FrameOK, StateOK
<1>12. OwnOK(n, P2, M2)
  <2>1. FinishedParts(n) = {} /\ Slots(n, RopeLen(n)) = {}
    BY <1>3, <1>11, NoElements
  <2>2. \A a \in DOMAIN M2 : ~IsPart(a, n.at)
    <3>1. ~IsPart(b, b)
      BY <1>2, NotInItself
    <3>2. \A a \in DOMAIN M : ~IsPart(a, b)
      BY <1>5 DEF Owned, PlacesOf, IsPart
    <3> QED
      BY <1>3, <1>8, <3>1, <3>2
  <2> HIDE DEF n, P2
  <2> QED
    BY <1>3, <1>8, <1>11, <2>1, <2>2 DEF OwnOK
<1>13. \A g \in F2 : OwnOK(g, P2, M2)
  BY <1>9, <1>10, <1>12
<1> HIDE DEF F2, P2, n
<1>14. Owned(F2, M2)
  BY <1>4, <1>6, <1>7, <1>13 DEF Owned
<1> QED
  BY <1>4, <1>14 DEF F2, n, P2

LEMMA LeftPlaces ==
    ASSUME NEW F, NEW M, Owned(F, M), NEW f \in F, NEW g \in F, IsPart(f.at, g.at),
           NEW g2, g2.at = g.at
    PROVE  PlacesOf((F \ {f, g}) \cup {g2}) = PlacesOf(F) \ {f.at}
<1>1. f.at \in Steps /\ g.at # f.at
  BY OwnedFacts, NotInItself
<1>2. \A h \in F : h.at = f.at => h = f
  BY DEF Owned
<1> QED
  BY <1>1, <1>2 DEF PlacesOf

\* A frame that has no element frames is gone; g2 is what its parent becomes.
LEMMA Left ==
    ASSUME NEW F, NEW M, Owned(F, M), NEW f \in F, Bare(f, PlacesOf(F)),
           NEW g \in F, IsPart(f.at, g.at),
           NEW g2, g2.at = g.at, NEW M2,
           DOMAIN M2 \subseteq DOMAIN M,
           \A a \in DOMAIN M2 : ~IsPart(a, f.at),
           \A a \in DOMAIN M : ~IsPart(a, f.at) /\ a # f.at =>
                a \in DOMAIN M2 /\ (M2[a] = None <=> M[a] = None),
           OwnOK(g2, PlacesOf(F) \ {f.at}, M2)
    PROVE  Owned((F \ {f, g}) \cup {g2}, M2)
<1> DEFINE F2 == (F \ {f, g}) \cup {g2}
           P == PlacesOf(F)
           P2 == P \ {f.at}
<1>1. f.at \in P /\ f.at \in Steps /\ g.at \in P /\ g.at # f.at
  BY OwnedFacts, NotInItself
<1>2. PlacesOf(F2) = P2
  BY LeftPlaces
<1>3. \A h, k \in F2 : h.at = k.at => h = k
  BY DEF Owned
<1>4. \A a \in DOMAIN M2 : a \in Steps /\ (a # Root => Front(a) \in P2)
  BY DEF Owned, IsPart
<1>5. ASSUME NEW h \in F, h # f, h # g PROVE OwnOK(h, P2, M2)
  <2>1. OwnOK(h, P, M) /\ h.at \in DOMAIN M /\ h.at \in P /\ h.at # f.at /\ h.at # g.at
    BY <1>5, OwnedFacts
  <2>2. ~IsPart(h.at, f.at)
    BY <2>1 DEF Bare
  <2>3. h.at \in DOMAIN M2 /\ (M2[h.at] = None <=> M[h.at] = None)
    BY <2>1, <2>2
  <2>4. ASSUME NEW a, IsPart(a, h.at)
        PROVE  /\ a \in DOMAIN M2 <=> a \in DOMAIN M
               /\ a \in P2 <=> a \in P
               /\ a \in DOMAIN M /\ a \notin P => (M2[a] = None <=> M[a] = None)
    <3>1. ~IsPart(a, f.at) /\ a # f.at
      BY <2>1, <2>4 DEF IsPart
    <3> QED
      BY <3>1
  <2> HIDE DEF P, P2
  <2> QED
    BY <2>1, <2>3, <2>4, Untouched
<1>6. \A h \in F2 : OwnOK(h, P2, M2)
  BY <1>5
<1> HIDE DEF F2, P2
<1>7. Owned(F2, M2)
  BY <1>2, <1>3, <1>4, <1>6 DEF Owned
<1> QED
  BY <1>2, <1>7 DEF F2, P2

\* g becomes g2 when it counts what is at a as finished.
TakesOver(g, a, g2) ==
    /\ FrameOK(g2) /\ g2.at = g.at /\ g2.isInit = g.isInit /\ g2.tracker = g.tracker
    /\ RopeLen(g2) = RopeLen(g)
    /\ FinishedParts(g2) = FinishedParts(g) \cup {a}
    /\ \A t : Kid(g, t) => Kid(g2, t)

\* A frame that is complete, with nothing left half done.
Ready(f) == f.isInit /\ \A i \in 1..Len(f.pending) : f.pending[i].value # None

\* Of the frames F, f hands its place over to g, which becomes g2.
LeftTo(F, f, g, g2, m, m2) ==
    /\ Owned((F \ {f, g}) \cup {g2}, m2)
    /\ PlacesOf((F \ {f, g}) \cup {g2}) = PlacesOf(F) \ {f.at}
    /\ \A a \in PlacesOf(F) \ {f.at, g.at} : m2[a] = m[a]

\* f is the last of the frames F with a part of its place, and can go to g.
Hands(F, m, f, g, g2) ==
    /\ m.faults = {} /\ Owned(F, m.at) /\ f \in F /\ Bare(f, PlacesOf(F)) /\ Ready(f)
    /\ g \in F /\ IsPart(f.at, g.at) /\ TakesOver(g, f.at, g2)

\* An element is complete, and g2 has it.
LEMMA HandedOver ==
    ASSUME NEW F, NEW m, NEW f, NEW g, NEW g2, Hands(F, m, f, g, g2)
    PROVE  /\ LeftTo(F, f, g, g2, m.at, Finish(m, f).at)
           /\ Finish(m, f).faults = {}
           /\ Finish(m, f).at[g.at] = m.at[g.at]
<1> /\ m.faults = {} /\ Owned(F, m.at) /\ f \in F /\ Bare(f, PlacesOf(F)) /\ Ready(f)
    /\ g \in F /\ IsPart(f.at, g.at) /\ TakesOver(g, f.at, g2)
  BY DEF Hands
<1> /\ FrameOK(g2) /\ g2.at = g.at /\ g2.isInit = g.isInit /\ RopeLen(g2) = RopeLen(g)
    /\ FinishedParts(g2) = FinishedParts(g) \cup {f.at}
    /\ \A t : Kid(g, t) => Kid(g2, t)
    /\ f.isInit /\ \A i \in 1..Len(f.pending) : f.pending[i].value # None
  BY DEF TakesOver, Ready
<1> DEFINE P == PlacesOf(F)
           P2 == P \ {f.at}
           M2 == Finish(m, f).at
<1>1. OwnOK(f, P, m.at) /\ f.at \in P /\ f.at \in Steps /\ f.at \in DOMAIN m.at
  BY OwnedFacts
<1>2. OwnOK(g, P, m.at) /\ FrameOK(g) /\ g.at \in DOMAIN m.at /\ g.at # f.at /\ g.at \in P
  BY OwnedFacts
<1>3. Became(m.at, M2, Allocations(f), f.at) /\ Finish(m, f).faults = {}
  BY <1>1, FinishIs
<1>4. /\ \A a \in DOMAIN m.at : IsPart(a, f.at) => a \in Allocations(f)
      /\ \A a \in Allocations(f) : IsPart(a, f.at)
  BY <1>1, BareFacts
<1>5. \A a \in DOMAIN m.at : ~IsPart(a, f.at) => a \in DOMAIN M2 /\ (a # f.at => M2[a] = m.at[a])
  BY <1>3, <1>4 DEF Became
<1>6. /\ DOMAIN M2 \subseteq DOMAIN m.at
      /\ \A a \in DOMAIN M2 : ~IsPart(a, f.at)
      /\ f.at \in DOMAIN M2 /\ M2[f.at] # None
  BY <1>3, <1>4 DEF Became
<1>7. ~IsPart(g.at, f.at)
  BY <1>2 DEF Bare
<1> HIDE DEF M2
<1>8. OwnOK(g2, P2, M2)
  <2>1. \A a : IsPart(a, g.at) => ~IsPart(a, f.at)
    BY <1>2 DEF IsPart
  <2>2. g2.at \in DOMAIN M2 /\ (g2.isInit <=> M2[g2.at] # None)
    <3>1. g.at \in DOMAIN M2 /\ M2[g.at] = m.at[g.at]
      BY <1>2, <1>5, <1>7
    <3> QED
      BY <1>2, <3>1 DEF OwnOK
  <2>3. \A a \in FinishedParts(g) \cup Slots(g, RopeLen(g)) : IsPart(a, g.at)
    BY <1>2, AllocationsAreParts DEF Allocations
  <2>4. Slots(g2, RopeLen(g2)) \subseteq DOMAIN M2
    <3>1. Slots(g2, RopeLen(g2)) = Slots(g, RopeLen(g))
      BY DEF Slots
    <3>2. Slots(g, RopeLen(g)) \subseteq DOMAIN m.at
      BY <1>2 DEF OwnOK
    <3> QED
      BY <1>5, <2>1, <2>3, <3>1, <3>2
  <2>5. ASSUME NEW a \in FinishedParts(g2) PROVE a \in DOMAIN M2 /\ M2[a] # None /\ a \notin P2
    <3>1. CASE a = f.at
      BY <1>6, <3>1
    <3>2. CASE a # f.at
      <4>1. a \in FinishedParts(g)
        BY <3>2
      <4>2. a \in DOMAIN m.at /\ m.at[a] # None /\ a \notin P
        BY <1>2, <4>1 DEF OwnOK
      <4> QED
        BY <1>5, <2>1, <2>3, <3>2, <4>1, <4>2
    <3> QED
      BY <3>1, <3>2
  <2>6. ASSUME NEW a \in DOMAIN M2, IsPart(a, g2.at)
        PROVE  /\ Kid(g2, Last(a))
               /\ a \notin P2 => a \in Allocations(g2) /\ (M2[a] # None => a \in FinishedParts(g2))
    <3>1. a \in DOMAIN m.at /\ Kid(g, Last(a))
      BY <1>2, <1>6, <2>6 DEF OwnOK
    <3>2. CASE a = f.at
      BY <3>1, <3>2 DEF Allocations
    <3>3. CASE a # f.at
      <4>1. M2[a] = m.at[a]
        BY <1>5, <2>1, <2>6, <3>1, <3>3
      <4>2. a \notin P => a \in Allocations(g) /\ (m.at[a] # None => a \in FinishedParts(g))
        BY <1>2, <2>6, <3>1 DEF OwnOK
      <4>3. Allocations(g) \subseteq Allocations(g2)
        BY DEF Allocations, Slots
      <4> QED
        BY <3>1, <3>3, <4>1, <4>2, <4>3
    <3> QED
      BY <3>2, <3>3
  <2> HIDE DEF P2
  <2> QED
    BY <2>2, <2>4, <2>5, <2>6 DEF OwnOK
<1>9. \A a \in DOMAIN m.at : ~IsPart(a, f.at) /\ a # f.at =>
            a \in DOMAIN M2 /\ (M2[a] = None <=> m.at[a] = None)
  BY <1>5
<1>10. Owned((F \ {f, g}) \cup {g2}, M2)
  BY <1>6, <1>8, <1>9, Left
<1>11. PlacesOf((F \ {f, g}) \cup {g2}) = P2
  BY LeftPlaces
<1>12. \A a \in P : a \in DOMAIN m.at /\ ~IsPart(a, f.at)
  <2>1. \A h \in F : h.at \in DOMAIN m.at
    BY OwnedFacts
  <2> QED
    BY <2>1 DEF Bare, PlacesOf
<1>13. \A a \in P \ {f.at} : M2[a] = m.at[a]
  BY <1>5, <1>12
<1>14. LeftTo(F, f, g, g2, m.at, M2)
  BY <1>10, <1>11, <1>13 DEF LeftTo
<1>15. M2[g.at] = m.at[g.at]
  BY <1>2, <1>13
<1> QED
  BY <1>3, <1>14, <1>15 DEF M2

\* An element is complete and a member of the set g from now on.
LEMMA HandedToSet ==
    ASSUME NEW F, NEW m, m.faults = {}, Owned(F, m.at), NEW f \in F, Bare(f, PlacesOf(F)),
           Ready(f), NEW g \in F, IsPart(f.at, g.at), g.tracker = "Set", Last(f.at) = Element,
           NEW g2, FrameOK(g2), g2.tracker = "Set", g2.at = g.at, g2.isInit = g.isInit
    PROVE  LET m2 == Insert(Finish(m, f), g, f.at) IN
           /\ LeftTo(F, f, g, g2, m.at, m2.at)
           /\ m2.faults = {}
           /\ IsSeq(m.at[g.at][1]) => IsSeq(m2.at[g.at][1])
<1> f.isInit /\ \A i \in 1..Len(f.pending) : f.pending[i].value # None
  BY DEF Ready
<1> DEFINE P == PlacesOf(F)
           P2 == P \ {f.at}
           m1 == Finish(m, f)
           m2 == Insert(m1, g, f.at)
<1>1. OwnOK(f, P, m.at) /\ f.at \in P /\ f.at \in Steps /\ f.at \in DOMAIN m.at
  BY OwnedFacts
<1>2. OwnOK(g, P, m.at) /\ FrameOK(g) /\ g.at \in DOMAIN m.at /\ g.at # f.at /\ g.at \in P
  BY OwnedFacts
<1>3. Became(m.at, m1.at, Allocations(f), f.at) /\ m1.faults = {}
  BY <1>1, FinishIs
<1>4. /\ \A a \in DOMAIN m.at : IsPart(a, f.at) => a \in Allocations(f)
      /\ \A a \in Allocations(f) : IsPart(a, f.at)
  BY <1>1, BareFacts
<1>5. ~IsPart(g.at, f.at)
  BY <1>2 DEF Bare
<1>6. m.at[g.at] # None
  <2>1. g.isInit
    BY <1>2 DEF FrameOK
  <2> QED
    BY <1>2, <2>1 DEF OwnOK
<1> HIDE DEF m1
<1>7. f.at \in DOMAIN m1.at /\ m1.at[f.at] # None /\ g.at \in DOMAIN m1.at /\ m1.at[g.at] = m.at[g.at]
  BY <1>2, <1>3, <1>4, <1>5 DEF Became
<1>8. Became(m1.at, m2.at, {f.at}, g.at) /\ m2.faults = {}
  BY <1>2, <1>3, <1>6, <1>7, InsertIs
<1> HIDE DEF m2
<1>9. Became(m.at, m2.at, Allocations(f) \cup {f.at}, g.at)
  <2>1. DOMAIN m2.at = DOMAIN m.at \ (Allocations(f) \cup {f.at})
    BY <1>3, <1>8 DEF Became
  <2>2. \A a \in DOMAIN m2.at : a # g.at => m2.at[a] = m.at[a]
    BY <1>3, <1>8, <2>1 DEF Became
  <2>3. IsSeq(m.at[g.at][1]) => IsSeq(m2.at[g.at][1])
    BY <1>7, <1>8 DEF Became
  <2> QED
    BY <1>8, <2>1, <2>2, <2>3 DEF Became
<1>10. \A a \in DOMAIN m.at : ~IsPart(a, f.at) /\ a # f.at =>
            a \in DOMAIN m2.at /\ (m2.at[a] = None <=> m.at[a] = None)
  <2>1. ASSUME NEW a \in DOMAIN m.at, ~IsPart(a, f.at), a # f.at
        PROVE  a \in DOMAIN m2.at /\ (a # g.at => m2.at[a] = m.at[a])
    BY <1>4, <1>9, <2>1 DEF Became
  <2>2. m2.at[g.at] # None
    BY <1>9 DEF Became
  <2> QED
    BY <1>6, <2>1, <2>2
<1>11. /\ DOMAIN m2.at \subseteq DOMAIN m.at /\ f.at \notin DOMAIN m2.at
       /\ \A a \in DOMAIN m2.at : ~IsPart(a, f.at)
       /\ g.at \in DOMAIN m2.at /\ m2.at[g.at] # None
  BY <1>4, <1>9 DEF Became
<1>12. f.at = Append(g.at, Element)
  BY <1>1, Parent DEF IsPart
<1>13. OwnOK(g2, P2, m2.at)
  <2>1. FinishedParts(g2) = {} /\ Slots(g2, RopeLen(g2)) = {}
    BY NoElements
  <2>2. \A a \in DOMAIN m2.at : ~IsPart(a, g2.at)
    <3>1. SUFFICES ASSUME NEW a \in DOMAIN m2.at, IsPart(a, g.at) PROVE FALSE
      OBVIOUS
    <3>2. a \in DOMAIN m.at /\ Kid(g, Last(a)) /\ a \in Steps
      BY <1>2, <1>11, <3>1 DEF OwnOK, Owned
    <3>3. Last(a) = Element
      BY <1>2, <3>2, NoElements
    <3>4. a = Append(g.at, Element)
      BY <3>1, <3>2, <3>3, Parent DEF IsPart
    <3> QED
      BY <1>11, <1>12, <3>1, <3>4
  <2>3. g2.isInit
    BY DEF FrameOK
  <2> QED
    BY <1>11, <2>1, <2>2, <2>3 DEF OwnOK
<1>14. Owned((F \ {f, g}) \cup {g2}, m2.at)
  <2> DEFINE M2 == m2.at
  <2>1. /\ OwnOK(g2, P2, M2) /\ DOMAIN M2 \subseteq DOMAIN m.at
        /\ \A a \in DOMAIN M2 : ~IsPart(a, f.at)
        /\ \A a \in DOMAIN m.at : ~IsPart(a, f.at) /\ a # f.at =>
            a \in DOMAIN M2 /\ (M2[a] = None <=> m.at[a] = None)
    BY <1>10, <1>11, <1>13
  <2> HIDE DEF M2
  <2>2. Owned((F \ {f, g}) \cup {g2}, M2)
    BY <2>1, Left
  <2> QED
    BY <2>2 DEF M2
<1>15. PlacesOf((F \ {f, g}) \cup {g2}) = P2
  BY LeftPlaces
<1>16. \A a \in P \ {f.at, g.at} : m2.at[a] = m.at[a]
  <2>1. \A a \in P : a \in DOMAIN m.at /\ ~IsPart(a, f.at)
    <3>1. \A h \in F : h.at \in DOMAIN m.at
      BY OwnedFacts
    <3> QED
      BY <3>1 DEF Bare, PlacesOf
  <2>2. \A a \in DOMAIN m2.at : a # g.at => m2.at[a] = m.at[a]
    BY <1>9 DEF Became
  <2> QED
    BY <1>10, <2>1, <2>2
<1>17. LeftTo(F, f, g, g2, m.at, m2.at)
  BY <1>14, <1>15, <1>16 DEF LeftTo
<1>18. IsSeq(m.at[g.at][1]) => IsSeq(m2.at[g.at][1])
  BY <1>9 DEF Became
<1> QED
  BY <1>8, <1>17, <1>18 DEF m1, m2

\* A frame is given up; its parent's allocation is empty, or gone.
LEMMA GivenUp ==
    ASSUME NEW F, NEW m, m.faults = {}, Owned(F, m.at), NEW f \in F, Bare(f, PlacesOf(F)),
           f.at # Root
    PROVE  /\ Owned(F \ {f}, Disposed(m, f).at)
           /\ Disposed(m, f).faults = {}
<1> DEFINE P == PlacesOf(F)
           P2 == P \ {f.at}
           gone == Allocations(f) \cup (IF HasBuffer(f) THEN {f.at} ELSE {})
           M2 == Disposed(m, f).at
<1>1. OwnOK(f, P, m.at) /\ f.at \in P /\ f.at \in Steps /\ f.at \in DOMAIN m.at
  BY OwnedFacts
<1>2. PICK g \in F : g.at = Front(f.at)
  BY <1>1 DEF Owned, PlacesOf
<1>3. IsPart(f.at, g.at)
  BY <1>2 DEF IsPart
<1>4. OwnOK(g, P, m.at) /\ FrameOK(g) /\ g.at \in DOMAIN m.at /\ g.at # f.at /\ g.at \in P
  BY <1>3, OwnedFacts
<1>5. /\ M2 = [a \in DOMAIN m.at \ gone |-> IF a = f.at THEN None ELSE m.at[a]]
      /\ Disposed(m, f).faults = {}
  BY <1>1, DisposedIs
<1>6. /\ \A a \in DOMAIN m.at : IsPart(a, f.at) => a \in Allocations(f)
      /\ \A a \in Allocations(f) : IsPart(a, f.at)
  BY <1>1, BareFacts
<1> HIDE DEF M2
<1>7. /\ \A a \in DOMAIN m.at : ~IsPart(a, f.at) /\ a # f.at => a \in DOMAIN M2 /\ M2[a] = m.at[a]
      /\ DOMAIN M2 \subseteq DOMAIN m.at
      /\ \A a \in DOMAIN M2 : ~IsPart(a, f.at)
      /\ f.at \in DOMAIN M2 => M2[f.at] = None /\ ~HasBuffer(f)
      /\ ~HasBuffer(f) => f.at \in DOMAIN M2
  BY <1>1, <1>5, <1>6, BareFacts
<1>8. ~IsPart(g.at, f.at)
  BY <1>4 DEF Bare
<1>9. \A a : IsPart(a, g.at) => ~IsPart(a, f.at)
  BY <1>4 DEF IsPart
<1>10. Kid(g, Last(f.at))
  BY <1>1, <1>3, <1>4 DEF OwnOK
<1>11. ~HasBuffer(f) => f.at \in Slots(g, RopeLen(g))
  <2>1. SUFFICES ASSUME ~HasBuffer(f) PROVE f.at \in Slots(g, RopeLen(g))
    OBVIOUS
  <2>2. Last(f.at)[1] = "item" /\ Last(f.at) \in StepSet /\ f.at = Append(g.at, Last(f.at))
    BY <1>1, <1>2, <2>1, Parent DEF HasBuffer
  <2>3. Last(f.at)[2] < RopeLen(g) /\ Last(f.at)[2] \in Nat
    BY <1>10, <2>2 DEF Kid, StepSet, Element
  <2>4. Last(f.at) = <<"item", Last(f.at)[2]>>
    BY <2>2 DEF StepSet
  <2>5. f.at = Part(g, "item", Last(f.at)[2])
    BY <2>2, <2>4 DEF Part
  <2>6. RopeLen(g) \in Nat
    BY <1>4, FrameFacts
  <2> QED
    BY <2>3, <2>5, <2>6, SlotsAre
<1>12. f.at \in Slots(g, RopeLen(g)) => ~HasBuffer(f)
  <2>1. RopeLen(g) \in Nat /\ g.at \in Steps
    BY <1>4, FrameFacts
  <2>2. f.at \in Slots(g, RopeLen(g)) => \E k \in Nat : f.at = Part(g, "item", k)
    BY <2>1, SlotsAre
  <2>3. f.at \in Slots(g, RopeLen(g)) => \E k \in Nat : Last(f.at) = <<"item", k>>
    BY <2>1, <2>2, PartFacts
  <2> QED
    BY <1>1, <2>3, Parent DEF HasBuffer
<1>13. OwnOK(g, P2, M2)
  <2>1. g.at \in DOMAIN M2 /\ (g.isInit <=> M2[g.at] # None)
    <3>1. g.at \in DOMAIN M2 /\ M2[g.at] = m.at[g.at]
      BY <1>4, <1>7, <1>8
    <3> QED
      BY <1>4, <3>1 DEF OwnOK
  <2>2. \A a \in FinishedParts(g) \cup Slots(g, RopeLen(g)) : IsPart(a, g.at)
    BY <1>4, AllocationsAreParts DEF Allocations
  <2>3. Slots(g, RopeLen(g)) \subseteq DOMAIN M2
    <3>1. Slots(g, RopeLen(g)) \subseteq DOMAIN m.at
      BY <1>4 DEF OwnOK
    <3> QED
      BY <1>7, <1>9, <1>12, <2>2, <3>1
  <2>4. \A a \in FinishedParts(g) : a \in DOMAIN M2 /\ M2[a] # None /\ a \notin P2
    <3>1. \A a \in FinishedParts(g) : a \in DOMAIN m.at /\ m.at[a] # None /\ a \notin P
      BY <1>4 DEF OwnOK
    <3> QED
      BY <1>1, <1>7, <1>9, <2>2, <3>1
  <2>5. ASSUME NEW a \in DOMAIN M2, IsPart(a, g.at)
        PROVE  /\ Kid(g, Last(a))
               /\ a \notin P2 => a \in Allocations(g) /\ (M2[a] # None => a \in FinishedParts(g))
    <3>1. a \in DOMAIN m.at /\ Kid(g, Last(a))
          /\ (a \notin P => a \in Allocations(g) /\ (m.at[a] # None => a \in FinishedParts(g)))
      BY <1>4, <1>7, <2>5 DEF OwnOK
    <3>2. CASE a = f.at
      BY <1>7, <1>11, <2>5, <3>1, <3>2 DEF Allocations
    <3>3. CASE a # f.at
      BY <1>7, <1>9, <2>5, <3>1, <3>3
    <3> QED
      BY <3>2, <3>3
  <2> HIDE DEF P2
  <2> QED
    BY <1>4, <2>1, <2>3, <2>4, <2>5 DEF OwnOK
<1>14. \A a \in DOMAIN m.at : ~IsPart(a, f.at) /\ a # f.at =>
            a \in DOMAIN M2 /\ (M2[a] = None <=> m.at[a] = None)
  BY <1>7
<1>15. Owned((F \ {f, g}) \cup {g}, M2)
  BY <1>3, <1>7, <1>13, <1>14, Left
<1>16. (F \ {f, g}) \cup {g} = F \ {f}
  BY <1>4
<1> QED
  BY <1>5, <1>15, <1>16 DEF M2

-----------------------------------------------------------------------------
(* What the calls make of a frame *)

LEMMA SameParts ==
    ASSUME NEW f, NEW g, g.at = f.at, g.rope = f.rope, g.pending = f.pending
    PROVE  /\ RopeLen(g) = RopeLen(f) /\ Marked(g) = Marked(f)
           /\ FinishedParts(g) = FinishedParts(f) /\ Allocations(g) = Allocations(f)
           /\ Slots(g, RopeLen(g)) = Slots(f, RopeLen(f))
           /\ Slots(g, Marked(g)) = Slots(f, Marked(f))
<1>1. RopeLen(g) = RopeLen(f) /\ Marked(g) = Marked(f)
  BY DEF RopeLen, Marked
<1>2. \A n : Slots(g, n) = Slots(f, n)
  BY DEF Slots
<1> QED
  BY <1>1, <1>2 DEF FinishedParts, Allocations

LEMMA SameEntries ==
    ASSUME NEW f, FrameOK(f), NEW g, g.at = f.at, g.pending = f.pending
    PROVE  \A i \in 1..Len(g.pending) : EntryOK(g, g.pending[i])
BY DEF FrameOK, EntryOK, Part

\* The frame above has ended.
LEMMA EndedIs ==
    ASSUME NEW f, FrameOK(f), f.state \in {"Item", "Key", "Value"}
    PROVE  /\ FrameOK(Ended(f))
           /\ Ended(f).at = f.at /\ Ended(f).isInit = f.isInit /\ Ended(f).tracker = f.tracker
           /\ Ended(f).rope = f.rope /\ Ended(f).pending = f.pending
           /\ Ended(f).state = IF f.state = "Key" THEN "KeyDone" ELSE "Idle"
           /\ f.tracker # "List" => Ended(f).cur = f.cur
           /\ f.tracker # "Set" => \A t : Kid(f, t) => Kid(Ended(f), t)
<1> DEFINE g == Ended(f)
<1>1. f \in FrameSet
  BY DEF FrameOK
<1>2. << >> \in Seq(StepSet)
  BY EmptySeq
<1>3. /\ g.at = f.at /\ g.isInit = f.isInit /\ g.tracker = f.tracker
      /\ g.rope = f.rope /\ g.pending = f.pending
      /\ g.state = (IF f.state = "Key" THEN "KeyDone" ELSE "Idle")
      /\ g.cur = IF f.tracker = "List" THEN None ELSE f.cur
      /\ g \in FrameSet
  BY <1>1, <1>2 DEF Ended, FrameSet, None
<1> HIDE DEF g
<1>4. RopeLen(g) = RopeLen(f) /\ Marked(g) = Marked(f)
  BY <1>3, SameParts
<1>5. \A i \in 1..Len(g.pending) : EntryOK(g, g.pending[i])
  BY <1>3, SameEntries
<1>6. StateOK(g)
  BY <1>3 DEF FrameOK, StateOK
<1>7. FrameOK(g)
  BY <1>3, <1>4, <1>5, <1>6 DEF FrameOK, IsLeaf
<1>8. f.tracker # "Set" => \A t : Kid(f, t) => Kid(g, t)
  BY <1>3, <1>4 DEF Kid
<1> QED
  BY <1>3, <1>7, <1>8 DEF g

\* mark_last_initialized counts the first slot that was not finished.
LEMMA MarkLastIs ==
    ASSUME NEW f, FrameOK(f), f.tracker = "List", Marked(f) < RopeLen(f)
    PROVE  LET g == MarkLast(f) IN
           /\ FrameOK(g)
           /\ g.at = f.at /\ g.isInit = f.isInit /\ g.tracker = f.tracker
           /\ g.state = f.state /\ g.cur = f.cur /\ g.pending = f.pending
           /\ RopeLen(g) = RopeLen(f) /\ Marked(g) = Marked(f) + 1
           /\ FinishedParts(g) = FinishedParts(f) \cup {Part(f, "item", Marked(f))}
           /\ \A t : Kid(f, t) => Kid(g, t)
<1> DEFINE g == MarkLast(f)
<1>1. f \in FrameSet /\ RopeLen(f) \in Nat /\ Marked(f) \in Nat
  BY FrameFacts DEF FrameOK
<1>2. f.rope # None
  BY <1>1 DEF RopeLen, Marked
<1>3. f.rope \in Seq(RopeSet) /\ Len(f.rope) \in Nat \ {0} /\ f.rope[1] \in RopeSet
  <2>1. f.rope \in Seq(RopeSet)
    BY <1>1 DEF FrameSet
  <2>2. Len(f.rope) \in Nat \ {0}
    BY <1>2, <2>1, EmptySeq DEF None
  <2> QED
    BY <2>1, <2>2, ElementOfSeq
<1> DEFINE r == f.rope
           r2 == [r EXCEPT ![1].marked = @ + 1]
<1>4. g = [f EXCEPT !.rope = r2]
  BY <1>1, <1>2 DEF MarkLast, FrameSet
<1>5. r[1] = [len |-> RopeLen(f), marked |-> Marked(f)]
  BY <1>2, <1>3 DEF RopeLen, Marked, RopeSet
<1>6. r2 \in Seq(RopeSet) /\ r2 # None /\ r2[1].len = RopeLen(f) /\ r2[1].marked = Marked(f) + 1
  <2>1. r \in Seq(RopeSet) /\ 1 \in 1..Len(r)
    BY <1>3
  <2> DEFINE x == [r[1] EXCEPT !.marked = @ + 1]
  <2>2. x.len = RopeLen(f) /\ x.marked = Marked(f) + 1 /\ x \in RopeSet
    BY <1>1, <1>5 DEF RopeSet
  <2>3. r2 = [r EXCEPT ![1] = x]
    BY <2>1
  <2> HIDE DEF x, r
  <2>4. [r EXCEPT ![1] = x] \in Seq(RopeSet) /\ Len([r EXCEPT ![1] = x]) = Len(r)
        /\ [r EXCEPT ![1] = x][1] = x
    BY <2>1, <2>2, ExceptSeq
  <2>5. [r EXCEPT ![1] = x] # << >>
    BY <1>3, <2>4, EmptySeq DEF r
  <2> QED
    BY <2>2, <2>3, <2>4, <2>5 DEF None
<1> HIDE DEF r2
<1>7. /\ g.at = f.at /\ g.isInit = f.isInit /\ g.tracker = f.tracker
      /\ g.state = f.state /\ g.cur = f.cur /\ g.pending = f.pending /\ g.rope = r2
      /\ g \in FrameSet
  BY <1>1, <1>4, <1>6 DEF FrameSet
<1> HIDE DEF g
<1>8. RopeLen(g) = RopeLen(f) /\ Marked(g) = Marked(f) + 1
  BY <1>6, <1>7 DEF RopeLen, Marked
<1>9. \A i \in 1..Len(g.pending) : EntryOK(g, g.pending[i])
  BY <1>7, SameEntries
<1>10. StateOK(g)
  BY <1>7 DEF FrameOK, StateOK
<1>11. FrameOK(g)
  BY <1>1, <1>7, <1>8, <1>9, <1>10 DEF FrameOK, IsLeaf
<1>12. FinishedParts(g) = FinishedParts(f) \cup {Part(f, "item", Marked(f))}
  <2>1. FinishedParts(g) = Slots(g, Marked(f) + 1) /\ FinishedParts(f) = Slots(f, Marked(f))
    BY <1>7, <1>8, <1>11, ListParts
  <2>2. \A a : a \in Slots(g, Marked(f) + 1) <=> \E k \in Nat : k < Marked(f) + 1 /\ a = Part(g, "item", k)
    BY <1>1, SlotsAre
  <2>3. \A a : a \in Slots(f, Marked(f)) <=> \E k \in Nat : k < Marked(f) /\ a = Part(f, "item", k)
    BY <1>1, SlotsAre
  <2>4. \A k : Part(g, "item", k) = Part(f, "item", k)
    BY <1>7 DEF Part
  <2>5. \A k \in Nat : k < Marked(f) + 1 <=> k < Marked(f) \/ k = Marked(f)
    BY <1>1
  <2> QED
    BY <1>1, <2>1, <2>2, <2>3, <2>4, <2>5
<1>13. \A t : Kid(f, t) => Kid(g, t)
  BY <1>7, <1>8 DEF Kid
<1> QED
  BY <1>7, <1>8, <1>11, <1>12, <1>13 DEF g

\* A finished key becomes a half-entry.
LEMMA PushKeyIs ==
    ASSUME NEW f, FrameOK(f), f.tracker = "Map", f.cur # None, NEW k \in Nat
    PROVE  LET g == PushKey(f, Part(f, "key", k)) IN
           /\ FrameOK(g)
           /\ g.at = f.at /\ g.isInit = f.isInit /\ g.tracker = f.tracker
           /\ g.state = f.state /\ g.cur = f.cur /\ g.rope = f.rope
           /\ RopeLen(g) = RopeLen(f)
           /\ Len(g.pending) = Len(f.pending) + 1
           /\ \A j \in Nat : Given(g, j) <=> Given(f, j)
           /\ FinishedParts(g) = FinishedParts(f) \cup {Part(f, "key", k)}
           /\ \A t : Kid(f, t) => Kid(g, t)
<1> DEFINE a == Part(f, "key", k)
           g == PushKey(f, a)
           e == [key |-> a, value |-> None]
           p == f.pending
           p2 == Append(p, e)
<1>1. f \in FrameSet /\ RopeLen(f) \in Nat /\ Marked(f) \in Nat /\ f.at \in Steps
      /\ Marked(f) = 0 /\ f.rope = None
  BY FrameFacts DEF FrameOK
<1>2. a \in Steps
  BY <1>1, PartFacts
<1>3. e \in EntrySet /\ e.key = a /\ e.value = None
  <2> HIDE DEF a
  <2>1. << >> \in Seq(Steps)
    BY EmptySeq
  <2> QED
    BY <1>2, <2>1 DEF EntrySet, None
<1>4. p \in Seq(EntrySet)
  BY <1>1 DEF FrameSet
<1>5. g = [f EXCEPT !.pending = p2]
  BY <1>1 DEF PushKey, FrameSet
<1> HIDE DEF e
<1>6. /\ p2 \in Seq(EntrySet) /\ p2 # << >> /\ Len(p2) = Len(p) + 1
      /\ \A i \in 1..Len(p) : p2[i] = p[i]
      /\ p2[Len(p) + 1] = e /\ Len(p) \in Nat
  <2> HIDE DEF p
  <2> QED
    BY <1>3, <1>4, AppendProperties
<1> HIDE DEF p2
<1>7. /\ g.at = f.at /\ g.isInit = f.isInit /\ g.tracker = f.tracker
      /\ g.state = f.state /\ g.cur = f.cur /\ g.rope = f.rope /\ g.pending = p2
      /\ g \in FrameSet
  BY <1>1, <1>5, <1>6 DEF FrameSet
<1> HIDE DEF g
<1>8. RopeLen(g) = RopeLen(f) /\ Marked(g) = Marked(f)
  BY <1>7 DEF RopeLen, Marked
<1>9. \A x \in 1..Len(p2) : x \in 1..Len(p) \/ x = Len(p) + 1
  BY <1>6
<1>10. \A i \in 1..Len(p2) : EntryOK(g, p2[i])
  <2>1. ASSUME NEW i \in 1..Len(p) PROVE EntryOK(g, p2[i])
    <3>1. EntryOK(f, p[i]) /\ p2[i] = p[i]
      BY <1>6 DEF FrameOK
    <3> QED
      BY <1>7, <3>1 DEF EntryOK, Part
  <2>2. EntryOK(g, e)
    BY <1>3, <1>7 DEF EntryOK, Part
  <2> QED
    BY <1>6, <1>9, <2>1, <2>2
<1>11. StateOK(g)
  BY <1>7 DEF FrameOK, StateOK
<1>12. FrameOK(g)
  BY <1>7, <1>8, <1>10, <1>11 DEF FrameOK, IsLeaf
<1>13. FinishedParts(g) = FinishedParts(f) \cup {a}
  <2>1. ASSUME NEW x
        PROVE  x \in FinishedParts(g) <=>
                \E i \in 1..Len(p2) : x = p2[i].key \/ (p2[i].value # None /\ x = p2[i].value[1])
    BY <1>1, <1>7, <1>8, <1>12, FinishedAre
  <2>2. ASSUME NEW x
        PROVE  x \in FinishedParts(f) <=>
                \E i \in 1..Len(p) : x = p[i].key \/ (p[i].value # None /\ x = p[i].value[1])
    BY <1>1, FinishedAre
  <2>3. \A i \in 1..Len(p) : i \in 1..Len(p2) /\ p2[i] = p[i]
    BY <1>6
  <2>4. Len(p) + 1 \in 1..Len(p2) /\ p2[Len(p) + 1].key = a /\ p2[Len(p) + 1].value = None
    BY <1>3, <1>6
  <2> HIDE DEF a, p
  <2>5. ASSUME NEW x PROVE x \in FinishedParts(g) <=> x \in FinishedParts(f) \/ x = a
    BY <1>9, <2>1, <2>2, <2>3, <2>4
  <2> QED
    BY <2>5
<1>14. \A j \in Nat : Given(g, j) <=> Given(f, j)
  <2>1. SUFFICES ASSUME NEW j \in Nat PROVE Given(g, j) <=> Given(f, j)
    OBVIOUS
  <2>2. CASE j < Len(p)
    <3>1. j + 1 \in 1..Len(p) /\ j < Len(p2)
      BY <1>6, <2>2
    <3> QED
      BY <1>6, <1>7, <2>2, <3>1 DEF Given
  <2>3. CASE j = Len(p)
    BY <1>3, <1>6, <1>7, <2>3 DEF Given
  <2>4. CASE j > Len(p)
    BY <1>6, <1>7, <2>4 DEF Given
  <2> QED
    BY <1>6, <2>2, <2>3, <2>4
<1>15. \A t : Kid(f, t) => Kid(g, t)
  BY <1>7, <1>8 DEF Kid
<1> QED
  BY <1>6, <1>7, <1>8, <1>12, <1>13, <1>14, <1>15 DEF g, a

\* The value makes it a whole one.
LEMMA SetValueIs ==
    ASSUME NEW f, FrameOK(f), f.tracker = "Map", NEW i \in 1..Len(f.pending),
           f.pending[i].value = None, NEW k \in Nat
    PROVE  LET g == SetValue(f, i, Part(f, "value", k)) IN
           /\ FrameOK(g)
           /\ g.at = f.at /\ g.isInit = f.isInit /\ g.tracker = f.tracker
           /\ g.state = f.state /\ g.cur = f.cur /\ g.rope = f.rope
           /\ RopeLen(g) = RopeLen(f)
           /\ Len(g.pending) = Len(f.pending)
           /\ \A j \in Nat : Given(g, j) <=> Given(f, j) \/ j = i - 1
           /\ FinishedParts(g) = FinishedParts(f) \cup {Part(f, "value", k)}
           /\ \A t : Kid(f, t) => Kid(g, t)
<1> DEFINE a == Part(f, "value", k)
           g == SetValue(f, i, a)
           p == f.pending
           e == [p[i] EXCEPT !.value = Some(a)]
           p2 == [p EXCEPT ![i] = e]
<1>1. f \in FrameSet /\ RopeLen(f) \in Nat /\ Marked(f) \in Nat /\ f.at \in Steps
      /\ Marked(f) = 0 /\ f.rope = None /\ Len(p) \in Nat /\ DOMAIN p = 1..Len(p)
  BY FrameFacts DEF FrameOK
<1>2. a \in Steps
  BY <1>1, PartFacts
<1>3. p \in Seq(EntrySet) /\ p[i] \in EntrySet
  <2>1. p \in Seq(EntrySet)
    BY <1>1 DEF FrameSet
  <2> QED
    BY <2>1, ElementOfSeq
<1>4. e \in EntrySet /\ e.key = p[i].key /\ e.value = Some(a) /\ Some(a) # None /\ Some(a)[1] = a
  <2> HIDE DEF a, p
  <2>1. <<a>> \in Seq(Steps)
    BY <1>2
  <2> QED
    BY <1>3, <2>1 DEF EntrySet, Some, None
<1>5. g = [f EXCEPT !.pending = p2]
  BY <1>1, <1>3 DEF SetValue, FrameSet
<1> HIDE DEF e
<1>6. /\ p2 \in Seq(EntrySet) /\ Len(p2) = Len(p)
      /\ \A j \in 1..Len(p) : p2[j] = IF j = i THEN e ELSE p[j]
  <2> DEFINE q == p
  <2>1. q \in Seq(EntrySet) /\ i \in 1..Len(q)
    BY <1>3
  <2> HIDE DEF q
  <2>2. /\ [q EXCEPT ![i] = e] \in Seq(EntrySet) /\ Len([q EXCEPT ![i] = e]) = Len(q)
        /\ \A j \in 1..Len(q) : [q EXCEPT ![i] = e][j] = IF j = i THEN e ELSE q[j]
    BY <1>4, <2>1, ExceptSeq
  <2> QED
    BY <2>2 DEF q
<1> HIDE DEF p2
<1>7. /\ g.at = f.at /\ g.isInit = f.isInit /\ g.tracker = f.tracker
      /\ g.state = f.state /\ g.cur = f.cur /\ g.rope = f.rope /\ g.pending = p2
      /\ g \in FrameSet
  BY <1>1, <1>5, <1>6 DEF FrameSet
<1> HIDE DEF g
<1>8. RopeLen(g) = RopeLen(f) /\ Marked(g) = Marked(f)
  BY <1>7 DEF RopeLen, Marked
<1>9. \A j \in 1..Len(p2) : EntryOK(g, p2[j])
  <2>1. SUFFICES ASSUME NEW j \in 1..Len(p) PROVE EntryOK(g, p2[j])
    BY <1>6
  <2>2. EntryOK(f, p[j]) /\ EntryOK(f, p[i])
    BY DEF FrameOK
  <2>3. CASE j # i
    BY <1>6, <1>7, <2>2, <2>3 DEF EntryOK, Part
  <2>4. CASE j = i
    <3>1. p2[j] = e /\ e.key = p[i].key /\ e.value = Some(a)
      BY <1>4, <1>6, <2>4
    <3>2. \E n \in Nat : p[i].key = Part(f, "key", n)
      BY <2>2 DEF EntryOK
    <3> QED
      BY <1>7, <3>1, <3>2 DEF EntryOK, Part
  <2> QED
    BY <2>3, <2>4
<1>10. StateOK(g)
  BY <1>7 DEF FrameOK, StateOK
<1>11. p # << >>
  BY EmptySeq
<1>12. FrameOK(g)
  BY <1>7, <1>8, <1>9, <1>10, <1>11 DEF FrameOK, IsLeaf
<1>13. FinishedParts(g) = FinishedParts(f) \cup {a}
  <2>1. ASSUME NEW x
        PROVE  x \in FinishedParts(g) <=>
                \E j \in 1..Len(p2) : x = p2[j].key \/ (p2[j].value # None /\ x = p2[j].value[1])
    BY <1>1, <1>7, <1>8, <1>12, FinishedAre
  <2>2. ASSUME NEW x
        PROVE  x \in FinishedParts(f) <=>
                \E j \in 1..Len(p) : x = p[j].key \/ (p[j].value # None /\ x = p[j].value[1])
    BY <1>1, FinishedAre
  <2>3. \A j \in 1..Len(p) : j # i => p2[j] = p[j]
    BY <1>6
  <2>4. p2[i].key = p[i].key /\ p2[i].value # None /\ p2[i].value[1] = a /\ p[i].value = None
    BY <1>4, <1>6
  <2>5. i \in 1..Len(p) /\ Len(p2) = Len(p)
    BY <1>6
  <2> HIDE DEF a, p
  <2>6. ASSUME NEW x PROVE x \in FinishedParts(g) <=> x \in FinishedParts(f) \/ x = a
    BY <2>1, <2>2, <2>3, <2>4, <2>5
  <2> QED
    BY <2>6
<1>14. \A j \in Nat : Given(g, j) <=> Given(f, j) \/ j = i - 1
  <2>1. SUFFICES ASSUME NEW j \in Nat PROVE Given(g, j) <=> Given(f, j) \/ j = i - 1
    OBVIOUS
  <2>2. i \in Nat /\ 1 <= i /\ i <= Len(p)
    BY <1>1
  <2>3. CASE j = i - 1
    <3>1. j + 1 = i /\ j < Len(p2)
      BY <1>1, <1>6, <2>2, <2>3
    <3>2. p2[i].value # None
      BY <1>4, <1>6
    <3> QED
      BY <1>7, <2>3, <3>1, <3>2 DEF Given
  <2>4. CASE j # i - 1
    <3>1. j + 1 # i /\ (j < Len(p) => j + 1 \in 1..Len(p))
      BY <1>1, <2>2, <2>4
    <3> QED
      BY <1>6, <1>7, <2>4, <3>1 DEF Given
  <2> QED
    BY <2>3, <2>4
<1>15. \A t : Kid(f, t) => Kid(g, t)
  BY <1>7, <1>8 DEF Kid
<1> QED
  BY <1>6, <1>7, <1>8, <1>12, <1>13, <1>14, <1>15 DEF g, a

\* begin_list_item: a slot more.
LEMMA PushUninitIs ==
    ASSUME NEW f, FrameOK(f), f.tracker = "List", f.state = "Idle", NEW k \in Nat
    PROVE  LET g == [PushUninit(f) EXCEPT !.state = "Item", !.cur = Some(<<"item", k>>)] IN
           /\ FrameOK(g)
           /\ g.at = f.at /\ g.isInit = f.isInit /\ g.tracker = f.tracker
           /\ g.state = "Item" /\ g.cur = Some(<<"item", k>>) /\ g.pending = f.pending
           /\ RopeLen(g) = RopeLen(f) + 1 /\ Marked(g) = Marked(f)
           /\ FinishedParts(g) = FinishedParts(f) /\ Allocations(f) \subseteq Allocations(g)
           /\ Slots(g, RopeLen(g)) = Slots(f, RopeLen(f)) \cup {Part(f, "item", RopeLen(f))}
           /\ Slots(g, Marked(g)) = Slots(f, Marked(f))
           /\ \A t \in StepSet : Kid(f, t) => Kid(g, t)
<1> DEFINE c == Some(<<"item", k>>)
           g == [PushUninit(f) EXCEPT !.state = "Item", !.cur = c]
           r2 == Some([len |-> RopeLen(f) + 1, marked |-> Marked(f)])
<1>1. f \in FrameSet /\ RopeLen(f) \in Nat /\ Marked(f) \in Nat /\ Marked(f) <= RopeLen(f)
  BY FrameFacts DEF FrameOK
<1>2. r2 \in Seq(RopeSet) /\ r2 # None /\ r2[1].len = RopeLen(f) + 1 /\ r2[1].marked = Marked(f)
  <2>1. [len |-> RopeLen(f) + 1, marked |-> Marked(f)] \in RopeSet
    BY <1>1 DEF RopeSet
  <2> QED
    BY <2>1 DEF Some, None
<1>3. c \in Seq(StepSet)
  <2>1. <<"item", k>> \in StepSet
    BY DEF StepSet
  <2> QED
    BY <2>1 DEF Some
<1>4. PushUninit(f) = [f EXCEPT !.rope = r2]
  BY <1>1 DEF PushUninit, FrameSet
<1> HIDE DEF r2, c
<1>5. /\ g.at = f.at /\ g.isInit = f.isInit /\ g.tracker = f.tracker
      /\ g.state = "Item" /\ g.cur = c /\ g.pending = f.pending /\ g.rope = r2
      /\ g \in FrameSet
  BY <1>1, <1>2, <1>3, <1>4 DEF FrameSet
<1> HIDE DEF g
<1>6. RopeLen(g) = RopeLen(f) + 1 /\ Marked(g) = Marked(f)
  BY <1>2, <1>5 DEF RopeLen, Marked
<1>7. \A i \in 1..Len(g.pending) : EntryOK(g, g.pending[i])
  BY <1>5, SameEntries
<1>8. StateOK(g)
  BY <1>5 DEF StateOK, c
<1>9. FrameOK(g)
  BY <1>1, <1>5, <1>6, <1>7, <1>8 DEF FrameOK, IsLeaf
<1>10. \A n : Slots(g, n) = Slots(f, n)
  BY <1>5 DEF Slots
<1>11. FinishedParts(g) = FinishedParts(f)
  BY <1>5, <1>6, <1>10 DEF FinishedParts
<1>12. Slots(g, RopeLen(g)) = Slots(f, RopeLen(f)) \cup {Part(f, "item", RopeLen(f))}
  <2>1. \A a : a \in Slots(f, RopeLen(f) + 1) <=> \E j \in Nat : j < RopeLen(f) + 1 /\ a = Part(f, "item", j)
    BY <1>1, SlotsAre
  <2>2. \A a : a \in Slots(f, RopeLen(f)) <=> \E j \in Nat : j < RopeLen(f) /\ a = Part(f, "item", j)
    BY <1>1, SlotsAre
  <2>3. \A j \in Nat : j < RopeLen(f) + 1 <=> j < RopeLen(f) \/ j = RopeLen(f)
    BY <1>1
  <2> QED
    BY <1>1, <1>6, <1>10, <2>1, <2>2, <2>3
<1>13. Allocations(f) \subseteq Allocations(g)
  BY <1>11, <1>12 DEF Allocations
<1>14. \A t \in StepSet : Kid(f, t) => Kid(g, t)
  <2>1. ASSUME NEW t \in StepSet, Kid(f, t) PROVE Kid(g, t)
    <3>1. t[1] = "item" /\ t[2] < RopeLen(f) /\ t[2] \in Nat
      BY <2>1 DEF Kid, StepSet
    <3>2. t[2] < RopeLen(f) + 1
      BY <1>1, <3>1
    <3> QED
      BY <1>5, <1>6, <3>1, <3>2 DEF Kid
  <2> QED
    BY <2>1
<1> QED
  BY <1>5, <1>6, <1>9, <1>10, <1>11, <1>12, <1>13, <1>14 DEF g, c

\* begin_key and begin_value: the map says which entry it is at.
LEMMA HalfBegunIs ==
    ASSUME NEW f, FrameOK(f), f.tracker = "Map", NEW st, NEW k \in Nat,
           \/ f.state = "Idle" /\ st = <<"Key", "key">> /\ (f.cur = None \/ k > f.cur[1][2])
           \/ f.state = "KeyDone" /\ st = <<"Value", "value">> /\ k = f.cur[1][2]
    PROVE  LET s == <<st[2], k>>
               g == [f EXCEPT !.state = st[1], !.cur = Some(s)] IN
           /\ FrameOK(g)
           /\ g.at = f.at /\ g.isInit = f.isInit /\ g.tracker = f.tracker
           /\ g.state = st[1] /\ g.cur = Some(s) /\ g.cur[1] = s /\ g.rope = f.rope /\ g.pending = f.pending
           /\ \A t \in StepSet : Kid(f, t) => Kid(g, t)
           /\ Kid(g, s) /\ ~Kid(f, s)
<1> DEFINE s == <<st[2], k>>
           c == Some(s)
           g == [f EXCEPT !.state = st[1], !.cur = c]
<1>1. f \in FrameSet
  BY DEF FrameOK
<1>2. /\ st[1] \in {"Key", "Value"} /\ st[2] \in {"key", "value"} /\ s \in StepSet
      /\ st[1] = "Key" <=> st[2] = "key"
      /\ s[1] = st[2] /\ s[2] = k
  BY DEF StepSet
<1>3. c \in Seq(StepSet) /\ c # None /\ c[1] = s
  BY <1>2 DEF Some, None
<1> HIDE DEF s
<1>4. s = <<st[2], k>>
  BY DEF s
<1> HIDE DEF c
<1>5. /\ g.at = f.at /\ g.isInit = f.isInit /\ g.tracker = f.tracker
      /\ g.state = st[1] /\ g.cur = c /\ g.rope = f.rope /\ g.pending = f.pending
      /\ g \in FrameSet
  BY <1>1, <1>2, <1>3 DEF FrameSet
<1> HIDE DEF g
<1>6. RopeLen(g) = RopeLen(f) /\ Marked(g) = Marked(f)
  BY <1>5, SameParts
<1>7. \A i \in 1..Len(g.pending) : EntryOK(g, g.pending[i])
  BY <1>5, SameEntries
<1>8. c = Some(<<st[2], k>>)
  BY <1>4 DEF c
<1>9. StateOK(g)
  <2>1. CASE st[1] = "Key"
    BY <1>2, <1>5, <1>8, <2>1 DEF StateOK
  <2>2. CASE st[1] = "Value"
    <3>1. st[2] = "value"
      BY <1>2, <2>2
    <3> QED
      BY <1>5, <1>8, <2>2, <3>1 DEF StateOK
  <2> QED
    BY <1>2, <2>1, <2>2
<1>10. FrameOK(g)
  BY <1>5, <1>6, <1>7, <1>9 DEF FrameOK, IsLeaf
<1>11. f.cur # None => \E j \in Nat : f.cur[1][2] = j
  BY DEF FrameOK, StateOK, Some, None
<1>12. f.state = "KeyDone" => f.cur # None /\ f.cur[1][1] = "key"
  BY DEF FrameOK, StateOK, Some, None
<1>13. Kid(g, s)
  BY <1>2, <1>3, <1>5 DEF Kid, Element
<1>14. ~Kid(f, s)
  BY <1>2, <1>11, <1>12 DEF Kid, Element
<1>15. ASSUME NEW t \in StepSet, Kid(f, t) PROVE Kid(g, t)
  <2>1. /\ t[1] \in {"key", "value"} /\ f.cur # None /\ t[2] <= f.cur[1][2]
        /\ t[1] = "value" /\ t[2] = f.cur[1][2] => f.cur[1][1] = "value"
    BY <1>15 DEF Kid
  <2>2. t[2] \in Nat /\ f.cur[1][2] \in Nat
    BY <1>11, <2>1 DEF StepSet
  <2>3. f.cur[1][2] <= k
    BY <1>11, <2>1
  <2>4. t[2] <= k
    BY <2>1, <2>2, <2>3
  <2>5. t[1] = "value" /\ t[2] = k => st[2] = "value"
    <3>1. CASE f.state = "KeyDone"
      BY <1>2, <3>1
    <3>2. CASE f.state = "Idle"
      BY <2>1, <2>2, <3>2
    <3> QED
      BY <3>1, <3>2
  <2> QED
    BY <1>2, <1>3, <1>5, <2>1, <2>4, <2>5 DEF Kid
<1> QED
  BY <1>5, <1>10, <1>13, <1>14, <1>15, <1>3 DEF g, c, s

\* A frame whose place has no elements.
LEMMA EmptyOwnOK ==
    ASSUME NEW g, FrameOK(g), g.rope = None, g.pending = << >>, NEW P, NEW M,
           g.at \in DOMAIN M, g.isInit <=> M[g.at] # None,
           \A a \in DOMAIN M : ~IsPart(a, g.at)
    PROVE  OwnOK(g, P, M)
<1>1. RopeLen(g) = 0 /\ Marked(g) = 0 /\ Len(g.pending) = 0
  BY EmptySeq DEF RopeLen, Marked
<1>2. Slots(g, 0) = {}
  BY SlotsAre
<1>3. FinishedParts(g) = {}
  BY <1>1, FinishedAre
<1> QED
  BY <1>1, <1>2, <1>3 DEF OwnOK

LEMMA NewFrameIs ==
    ASSUME NEW a \in Steps, Len(a) <= 2
    PROVE  LET n == NewFrame(a)
               w == [NewFrame(a) EXCEPT !.isInit = TRUE] IN
           /\ FrameOK(n) /\ FrameOK(w)
           /\ n.at = a /\ n.tracker = "Scalar" /\ n.isInit = FALSE
           /\ n.state = "Idle" /\ n.cur = None /\ n.rope = None /\ n.pending = << >>
           /\ w.at = a /\ w.tracker = "Scalar" /\ w.isInit = TRUE
           /\ w.state = "Idle" /\ w.cur = None /\ w.rope = None /\ w.pending = << >>
<1> DEFINE n == NewFrame(a)
           w == [NewFrame(a) EXCEPT !.isInit = TRUE]
<1>1. << >> \in Seq(StepSet) /\ << >> \in Seq(RopeSet) /\ << >> \in Seq(EntrySet)
  BY EmptySeq
<1>2. a \in Places
  BY DEF Places
<1>3. /\ n \in FrameSet
      /\ n.at = a /\ n.tracker = "Scalar" /\ n.isInit = FALSE
      /\ n.state = "Idle" /\ n.cur = None /\ n.rope = None /\ n.pending = << >>
  BY <1>1, <1>2 DEF FrameSet, NewFrame, None
<1>4. /\ w \in FrameSet
      /\ w.at = a /\ w.tracker = "Scalar" /\ w.isInit = TRUE
      /\ w.state = "Idle" /\ w.cur = None /\ w.rope = None /\ w.pending = << >>
  BY <1>1, <1>2 DEF FrameSet, NewFrame, None
<1>5. Len(<< >>) = 0
  BY EmptySeq
<1> HIDE DEF n, w
<1>6. FrameOK(n)
  BY <1>3, <1>5 DEF FrameOK, StateOK
<1>7. FrameOK(w)
  BY <1>4, <1>5 DEF FrameOK, StateOK
<1> QED
  BY <1>3, <1>4, <1>6, <1>7 DEF n, w

LEMMA InitIs ==
    ASSUME NEW f, FrameOK(f), ~IsLeaf(f), f.tracker = "Scalar", NEW t \in {"List", "Map", "Set"}
    PROVE  LET g == [f EXCEPT !.tracker = t, !.isInit = TRUE] IN
           /\ FrameOK(g)
           /\ g.at = f.at /\ g.tracker = t /\ g.isInit = TRUE
           /\ g.state = "Idle" /\ g.cur = None /\ g.rope = None /\ g.pending = << >>
<1> DEFINE g == [f EXCEPT !.tracker = t, !.isInit = TRUE]
<1>1. f \in FrameSet /\ f.state = "Idle" /\ f.cur = None /\ f.rope = None /\ f.pending = << >>
  BY DEF FrameOK, StateOK
<1>2. /\ g \in FrameSet
      /\ g.at = f.at /\ g.tracker = t /\ g.isInit = TRUE
      /\ g.state = "Idle" /\ g.cur = None /\ g.rope = None /\ g.pending = << >>
  BY <1>1 DEF FrameSet
<1>3. Len(<< >>) = 0
  BY EmptySeq
<1> HIDE DEF g
<1>4. ~IsLeaf(g)
  BY <1>2 DEF IsLeaf
<1>5. FrameOK(g)
  BY <1>2, <1>3, <1>4 DEF FrameOK, StateOK
<1> QED
  BY <1>2, <1>5 DEF g

\* The rope and the entries have gone into the value.
LEMMA FinishedIs ==
    ASSUME NEW f, FrameOK(f), f.state \in {"Idle", "KeyDone"}
    PROVE  LET g == Finished(f) IN
           /\ FrameOK(g)
           /\ g.at = f.at /\ g.tracker = f.tracker /\ g.isInit = f.isInit
           /\ g.state = f.state /\ g.cur = f.cur /\ g.rope = None /\ g.pending = << >>
<1> DEFINE g == Finished(f)
<1>1. f \in FrameSet
  BY DEF FrameOK
<1>2. << >> \in Seq(RopeSet) /\ << >> \in Seq(EntrySet) /\ Len(<< >>) = 0
  BY EmptySeq
<1>3. /\ g \in FrameSet
      /\ g.at = f.at /\ g.tracker = f.tracker /\ g.isInit = f.isInit
      /\ g.state = f.state /\ g.cur = f.cur /\ g.rope = None /\ g.pending = << >>
  BY <1>1, <1>2 DEF FrameSet, Finished, None
<1> HIDE DEF g
<1>4. StateOK(g)
  BY <1>3 DEF FrameOK, StateOK
<1>5. FrameOK(g)
  BY <1>2, <1>3, <1>4 DEF FrameOK, IsLeaf
<1> QED
  BY <1>3, <1>5 DEF g

\* A frame changes, and its elements stay.
LEMMA Moved ==
    ASSUME NEW F, NEW M, Owned(F, M), NEW f \in F, NEW f2, FrameOK(f2),
           f2.at = f.at, f2.isInit = f.isInit, f2.rope = f.rope, f2.pending = f.pending,
           \A t \in StepSet : Kid(f, t) => Kid(f2, t)
    PROVE  /\ Owned((F \ {f}) \cup {f2}, M)
           /\ PlacesOf((F \ {f}) \cup {f2}) = PlacesOf(F)
<1> DEFINE F2 == (F \ {f}) \cup {f2}
           P == PlacesOf(F)
<1>1. PlacesOf(F2) = P
  BY DEF PlacesOf
<1>2. OwnOK(f, P, M)
  BY DEF Owned
<1>3. RopeLen(f2) = RopeLen(f) /\ FinishedParts(f2) = FinishedParts(f)
      /\ Allocations(f2) = Allocations(f) /\ Slots(f2, RopeLen(f2)) = Slots(f, RopeLen(f))
  BY SameParts
<1>4. \A a \in DOMAIN M : IsPart(a, f.at) => Kid(f2, Last(a))
  <2>1. ASSUME NEW a \in DOMAIN M, IsPart(a, f.at) PROVE Kid(f2, Last(a))
    <3>1. Kid(f, Last(a))
      BY <1>2, <2>1 DEF OwnOK
    <3>2. Last(a) \in StepSet
      BY <2>1, Parent DEF Owned, IsPart
    <3> QED
      BY <3>1, <3>2
  <2> QED
    BY <2>1
<1> HIDE DEF P
<1>5. OwnOK(f2, P, M)
  BY <1>2, <1>3, <1>4 DEF OwnOK
<1>6. \A g \in F2 : OwnOK(g, P, M)
  BY <1>5 DEF Owned, P
<1>7. \A g, h \in F2 : g.at = h.at => g = h
  BY DEF Owned
<1>8. \A a \in DOMAIN M : a \in Steps /\ (a # Root => Front(a) \in P)
  BY DEF Owned, P
<1> HIDE DEF F2
<1> QED
  BY <1>1, <1>6, <1>7, <1>8 DEF Owned, F2, P

\* The same memory, as a function.
LEMMA SameMemory ==
    ASSUME NEW F, NEW M, Owned(F, M), NEW M2, DOMAIN M2 = DOMAIN M,
           \A a \in DOMAIN M : M2[a] = M[a]
    PROVE  Owned(F, M2)
<1>1. ASSUME NEW g \in F PROVE OwnOK(g, PlacesOf(F), M2)
  <2>1. OwnOK(g, PlacesOf(F), M) /\ g.at \in DOMAIN M
    BY DEF Owned, OwnOK
  <2> QED
    BY <2>1, Untouched
<1> QED
  BY <1>1 DEF Owned

-----------------------------------------------------------------------------
(* Changes to the stack and the stored frames *)

LEMMA StackFacts ==
    ASSUME NEW s, NEW st, Placed(s, st)
    PROVE  /\ Len(s) \in Nat /\ DOMAIN s = 1..Len(s) /\ Len(s) <= 3
           /\ s # << >> => Len(s) \in Nat \ {0} /\ Len(s) \in 1..Len(s) /\ s[Len(s)] \in FramesOf(s, st)
           /\ \A i \in 1..Len(s) : s[i] \in FrameSet /\ s[i].at \in Steps /\ s[i] \in FramesOf(s, st)
           /\ \A i, j \in 1..Len(s) : s[i].at = s[j].at => i = j
           /\ \A p \in DOMAIN st : st[p] \in FramesOf(s, st) /\ st[p].at \in Steps
<1>1. s \in Seq(FrameSet) /\ Len(s) \in Nat /\ DOMAIN s = 1..Len(s)
  BY DEF Placed
<1>2. \A i \in 1..Len(s) : s[i] \in FrameSet
  BY <1>1, ElementOfSeq
<1>3. \A g \in FrameSet : g.at \in Steps /\ Len(g.at) <= 2
  BY DEF FrameSet, Places
<1>4. s # << >> => Len(s) \in Nat \ {0}
  BY <1>1, EmptySeq
<1>5. Len(s) <= 3
  <2>1. CASE Len(s) > 0
    <3>1. Len(s) \in 1..Len(s)
      BY <1>1, <2>1
    <3>2. Len(s[Len(s)].at) = Len(s) - 1
      BY <3>1 DEF Placed
    <3>3. Len(s[Len(s)].at) <= 2
      BY <1>2, <1>3, <3>1
    <3>4. Len(s) - 1 <= 2
      BY <3>2, <3>3
    <3> QED
      BY <1>1, <3>4
  <2> QED
    BY <1>1, <2>1
<1>6. \A i, j \in 1..Len(s) : s[i].at = s[j].at => i = j
  <2>1. \A i \in 1..Len(s) : Len(s[i].at) = i - 1
    BY DEF Placed
  <2>2. \A i, j \in 1..Len(s) : i - 1 = j - 1 => i = j
    OBVIOUS
  <2> QED
    BY <2>1, <2>2
<1>7. \A i \in 1..Len(s) : s[i] \in FramesOf(s, st)
  BY DEF FramesOf
<1>8. \A p \in DOMAIN st : st[p] \in FramesOf(s, st) /\ st[p].at \in Steps
  BY <1>3 DEF FramesOf, Placed
<1>9. s # << >> => Len(s) \in 1..Len(s)
  BY <1>4
<1> QED
  BY <1>1, <1>2, <1>3, <1>4, <1>5, <1>6, <1>7, <1>8, <1>9

\* s2 is s with the frame g at i.
Changed(s, s2, i, g) ==
    /\ s2 \in Seq(FrameSet) /\ Len(s2) = Len(s)
    /\ \A j \in 1..Len(s) : s2[j] = IF j = i THEN g ELSE s[j]

LEMMA StackReplaced ==
    ASSUME NEW s, NEW st, Placed(s, st), NEW i \in 1..Len(s), NEW g \in FrameSet, g.at = s[i].at,
           NEW s2, Changed(s, s2, i, g)
    PROVE  /\ Placed(s2, st)
           /\ Len(s2) = Len(s) /\ s2 # << >>
           /\ \A j \in 1..Len(s) : s2[j] = IF j = i THEN g ELSE s[j]
           /\ \A j \in 1..Len(s) : s2[j].at = s[j].at
           /\ FramesOf(s2, st) = (FramesOf(s, st) \ {s[i]}) \cup {g}
<1>2. /\ s2 \in Seq(FrameSet) /\ Len(s2) = Len(s)
      /\ \A j \in 1..Len(s) : s2[j] = IF j = i THEN g ELSE s[j]
  BY DEF Changed
<1>3. Len(s) \in Nat /\ \A j, k \in 1..Len(s) : s[j].at = s[k].at => j = k
  BY StackFacts
<1>4. \A j \in 1..Len(s) : s2[j].at = s[j].at
  BY <1>2
<1>5. \A j \in 1..Len(s) - 1 : j \in 1..Len(s) /\ j + 1 \in 1..Len(s)
  BY <1>3
<1>6. Placed(s2, st)
  <2>1. \A j \in 1..Len(s2) : Len(s2[j].at) = j - 1
    <3>1. \A j \in 1..Len(s) : Len(s[j].at) = j - 1
      BY DEF Placed
    <3> QED
      BY <1>2, <1>4, <3>1
  <2>2. \A j \in 1..Len(s2) - 1 : IsPart(s2[j + 1].at, s2[j].at)
    <3>1. \A j \in 1..Len(s) - 1 : IsPart(s[j + 1].at, s[j].at)
      BY DEF Placed
    <3>2. \A j \in 1..Len(s) - 1 : s2[j + 1].at = s[j + 1].at /\ s2[j].at = s[j].at
      BY <1>4, <1>5
    <3> QED
      BY <1>2, <3>1, <3>2
  <2>3. \A p \in DOMAIN st : \A j \in 1..Len(s2) : s2[j].at # st[p].at
    <3>1. \A p \in DOMAIN st : \A j \in 1..Len(s) : s[j].at # st[p].at
      BY DEF Placed
    <3> QED
      BY <1>2, <1>4, <3>1
  <2> QED
    BY <1>2, <2>1, <2>2, <2>3 DEF Placed
<1>7. \A p \in DOMAIN st : st[p] # s[i]
  BY DEF Placed
<1>8. FramesOf(s2, st) = (FramesOf(s, st) \ {s[i]}) \cup {g}
  BY <1>2, <1>3, <1>7 DEF FramesOf
<1>9. s2 # << >>
  BY <1>2, EmptySeq
<1> QED
  BY <1>2, <1>4, <1>6, <1>8, <1>9

Appended(s, s2, n) == s2 = Append(s, n)

LEMMA StackPushed ==
    ASSUME NEW s, NEW st, Placed(s, st), s # << >>,
           NEW n \in FrameSet, n.at # Root, IsPart(n.at, s[Len(s)].at), n.at \notin StoredAt(st),
           NEW s2, Appended(s, s2, n)
    PROVE  /\ Placed(s2, st)
           /\ Len(s2) = Len(s) + 1 /\ s2 # << >> /\ s2[Len(s) + 1] = n
           /\ \A j \in 1..Len(s) : s2[j] = s[j]
           /\ FramesOf(s2, st) = FramesOf(s, st) \cup {n}
<1>1. s \in Seq(FrameSet) /\ Len(s) \in Nat \ {0} /\ Len(s) \in 1..Len(s)
  BY StackFacts DEF Placed
<1>2. /\ s2 \in Seq(FrameSet) /\ Len(s2) = Len(s) + 1 /\ s2 # << >> /\ s2[Len(s) + 1] = n
      /\ \A j \in 1..Len(s) : s2[j] = s[j]
  BY <1>1, AppendProperties DEF Appended
<1>3. Len(n.at) = Len(s)
  <2>1. n.at \in Steps
    BY DEF FrameSet, Places
  <2>2. Len(n.at) \in Nat /\ Len(Front(n.at)) = Len(n.at) - 1
    BY <2>1, Parent
  <2>3. Len(s[Len(s)].at) = Len(s) - 1
    BY <1>1 DEF Placed
  <2> QED
    BY <1>1, <2>2, <2>3 DEF IsPart
<1>4. \A j \in 1..Len(s2) : j \in 1..Len(s) \/ j = Len(s) + 1
  BY <1>1, <1>2
<1>5. \A j \in 1..Len(s2) - 1 : (j \in 1..Len(s) - 1 /\ j \in 1..Len(s) /\ j + 1 \in 1..Len(s)) \/ j = Len(s)
  BY <1>1, <1>2
<1>6. \A j \in 1..Len(s2) : Len(s2[j].at) = j - 1
  <2>1. \A j \in 1..Len(s) : Len(s[j].at) = j - 1
    BY DEF Placed
  <2> QED
    BY <1>1, <1>2, <1>3, <1>4, <2>1
<1>7. \A j \in 1..Len(s2) - 1 : IsPart(s2[j + 1].at, s2[j].at)
  <2>1. \A j \in 1..Len(s) - 1 : IsPart(s[j + 1].at, s[j].at)
    BY DEF Placed
  <2> QED
    BY <1>1, <1>2, <1>5, <2>1
<1>8. \A p \in DOMAIN st : \A j \in 1..Len(s2) : s2[j].at # st[p].at
  <2>1. \A p \in DOMAIN st : \A j \in 1..Len(s) : s[j].at # st[p].at
    BY DEF Placed
  <2> QED
    BY <1>2, <1>4, <2>1 DEF StoredAt
<1>9. Placed(s2, st)
  BY <1>2, <1>6, <1>7, <1>8 DEF Placed
<1>10. FramesOf(s2, st) = FramesOf(s, st) \cup {n}
  <2>1. 1..Len(s2) = 1..Len(s) \cup {Len(s) + 1}
    BY <1>1, <1>2
  <2>2. {s2[j] : j \in 1..Len(s2)} = {s[j] : j \in 1..Len(s)} \cup {n}
    BY <1>1, <1>2, <2>1
  <2> QED
    BY <2>2 DEF FramesOf
<1> QED
  BY <1>2, <1>9, <1>10

LEMMA StackPopped ==
    ASSUME NEW s, NEW st, Placed(s, st), s # << >>, NEW s2, s2 = Pop(s)
    PROVE  /\ Placed(s2, st)
           /\ Len(s2) = Len(s) - 1
           /\ \A j \in 1..Len(s) - 1 : s2[j] = s[j]
           /\ FramesOf(s2, st) = FramesOf(s, st) \ {s[Len(s)]}
           /\ Len(s) = 1 => s2 = << >>
           /\ Len(s) # 1 => s2 # << >>
<1>1. s \in Seq(FrameSet) /\ Len(s) \in Nat \ {0} /\ Len(s) \in 1..Len(s)
      /\ \A j, k \in 1..Len(s) : s[j].at = s[k].at => j = k
  BY StackFacts DEF Placed
<1>2. /\ s2 \in Seq(FrameSet) /\ Len(s2) = Len(s) - 1
      /\ \A j \in 1..Len(s) - 1 : s2[j] = s[j]
  BY <1>1, AllButLast DEF Pop
<1>3. \A j \in 1..Len(s2) : j \in 1..Len(s) - 1 /\ j \in 1..Len(s) /\ j # Len(s)
  BY <1>1, <1>2
<1>4. \A j \in 1..Len(s2) - 1 : j \in 1..Len(s) - 1 /\ j + 1 \in 1..Len(s) - 1
  BY <1>1, <1>2
<1>5. Placed(s2, st)
  <2>1. \A j \in 1..Len(s2) : Len(s2[j].at) = j - 1
    <3>1. \A j \in 1..Len(s) : Len(s[j].at) = j - 1
      BY DEF Placed
    <3> QED
      BY <1>2, <1>3, <3>1
  <2>2. \A j \in 1..Len(s2) - 1 : IsPart(s2[j + 1].at, s2[j].at)
    <3>1. \A j \in 1..Len(s) - 1 : IsPart(s[j + 1].at, s[j].at)
      BY DEF Placed
    <3> QED
      BY <1>2, <1>4, <3>1
  <2>3. \A p \in DOMAIN st : \A j \in 1..Len(s2) : s2[j].at # st[p].at
    <3>1. \A p \in DOMAIN st : \A j \in 1..Len(s) : s[j].at # st[p].at
      BY DEF Placed
    <3> QED
      BY <1>2, <1>3, <3>1
  <2> QED
    BY <1>2, <2>1, <2>2, <2>3 DEF Placed
<1>6. FramesOf(s2, st) = FramesOf(s, st) \ {s[Len(s)]}
  <2>1. 1..Len(s) = 1..Len(s2) \cup {Len(s)}
    BY <1>1, <1>2
  <2>2. \A p \in DOMAIN st : st[p] # s[Len(s)]
    BY <1>1 DEF Placed
  <2>3. \A j \in 1..Len(s2) : s2[j] = s[j] /\ s[j] # s[Len(s)]
    BY <1>1, <1>2, <1>3
  <2> QED
    BY <2>1, <2>2, <2>3 DEF FramesOf
<1>7. Len(s) = 1 => s2 = << >>
  <2>1. SUFFICES ASSUME Len(s) = 1 PROVE s2 = << >>
    OBVIOUS
  <2>2. Len(s2) = 0
    BY <1>2, <2>1
  <2> QED
    BY <1>2, <2>2, EmptySeq
<1>8. Len(s) # 1 => s2 # << >>
  BY <1>1, <1>2, EmptySeq
<1> QED
  BY <1>2, <1>5, <1>6, <1>7, <1>8

\* The frame above ends, and its parent becomes g.
LEMMA StackReturned ==
    ASSUME NEW s, NEW st, Placed(s, st), Len(s) > 1,
           NEW g \in FrameSet, g.at = s[Len(s) - 1].at,
           NEW s2, Changed(Pop(s), s2, Len(s) - 1, g)
    PROVE  /\ Placed(s2, st)
           /\ Len(s2) = Len(s) - 1 /\ s2 # << >>
           /\ s2[Len(s) - 1] = g
           /\ \A j \in 1..Len(s) - 2 : s2[j] = s[j]
           /\ \A j \in 1..Len(s) - 1 : s2[j].at = s[j].at
           /\ FramesOf(s2, st) = (FramesOf(s, st) \ {s[Len(s)], s[Len(s) - 1]}) \cup {g}
<1> DEFINE r == Pop(s)
           i == Len(s) - 1
<1>1. s # << >>
  BY EmptySeq
<1>2. Len(s) \in Nat
  BY StackFacts
<1>3. /\ Placed(r, st) /\ Len(r) = Len(s) - 1
      /\ \A j \in 1..Len(s) - 1 : r[j] = s[j]
      /\ FramesOf(r, st) = FramesOf(s, st) \ {s[Len(s)]}
  BY <1>1, StackPopped
<1>12. Changed(r, s2, i, g)
  OBVIOUS
<1> HIDE DEF r
<1>4. Len(s) - 1 \in 1..Len(r) /\ Len(s) - 1 \in 1..Len(s) - 1
  BY <1>2, <1>3
<1>5. g.at = r[Len(s) - 1].at /\ r[Len(s) - 1] = s[Len(s) - 1]
  BY <1>3, <1>4
<1>6. i \in 1..Len(r) /\ g.at = r[i].at /\ Placed(r, st)
  BY <1>3, <1>4, <1>5
<1> HIDE DEF i
<1>7. /\ Placed(s2, st) /\ Len(s2) = Len(r) /\ s2 # << >>
      /\ \A j \in 1..Len(r) : s2[j] = IF j = i THEN g ELSE r[j]
      /\ \A j \in 1..Len(r) : s2[j].at = r[j].at
      /\ FramesOf(s2, st) = (FramesOf(r, st) \ {r[i]}) \cup {g}
  BY <1>6, <1>12, StackReplaced
<1>8. s2[Len(s) - 1] = g
  BY <1>4, <1>7 DEF i
<1>9. \A j \in 1..Len(s) - 2 : s2[j] = s[j]
  <2>1. \A j \in 1..Len(s) - 2 : j \in 1..Len(r) /\ j # Len(s) - 1 /\ j \in 1..Len(s) - 1
    BY <1>2, <1>3
  <2> QED
    BY <1>3, <1>7, <2>1 DEF i
<1>10. \A j \in 1..Len(s) - 1 : s2[j].at = s[j].at
  BY <1>3, <1>7
<1>11. FramesOf(s2, st) = (FramesOf(s, st) \ {s[Len(s)], s[Len(s) - 1]}) \cup {g}
  BY <1>3, <1>5, <1>7 DEF i
<1> QED
  BY <1>3, <1>7, <1>8, <1>9, <1>10, <1>11

\* st2 is st with the frame f under the path p, with another one there, or
\* with none.
Stores(st, st2, p, f) ==
    /\ DOMAIN st2 = DOMAIN st \cup {p}
    /\ \A q \in DOMAIN st2 : st2[q] = IF q = p THEN f ELSE st[q]
Restores(st, st2, p, f) ==
    /\ DOMAIN st2 = DOMAIN st
    /\ \A q \in DOMAIN st : st2[q] = IF q = p THEN f ELSE st[q]
Unstores(st, st2, p) ==
    /\ DOMAIN st2 = DOMAIN st \ {p}
    /\ \A q \in DOMAIN st2 : st2[q] = st[q]

\* p is a path of f, and no frame is at that place.
NewPath(s, st, p, f) ==
    /\ p \in Steps /\ p # Root /\ p \notin DOMAIN st /\ Len(p) = Len(f.at) /\ Last(p) = Last(f.at)
    /\ \A i \in 1..Len(s) : s[i].at # f.at
    /\ f.at \notin StoredAt(st)

LEMMA StoredAdded ==
    ASSUME NEW s, NEW st, Placed(s, st), NEW f \in FrameSet, NEW p, NewPath(s, st, p, f),
           NEW st2, Stores(st, st2, p, f)
    PROVE  /\ Placed(s, st2)
           /\ FramesOf(s, st2) = FramesOf(s, st) \cup {f}
           /\ StoredAt(st2) = StoredAt(st) \cup {f.at}
<1> /\ p \in Steps /\ p # Root /\ p \notin DOMAIN st /\ Len(p) = Len(f.at) /\ Last(p) = Last(f.at)
    /\ \A i \in 1..Len(s) : s[i].at # f.at
    /\ f.at \notin StoredAt(st)
    /\ DOMAIN st2 = DOMAIN st \cup {p}
    /\ \A q \in DOMAIN st2 : st2[q] = IF q = p THEN f ELSE st[q]
  BY DEF NewPath, Stores
<1>1. st2[p] = f /\ \A q \in DOMAIN st : q # p /\ st2[q] = st[q]
  OBVIOUS
<1>2. /\ s \in Seq(FrameSet)
      /\ \A i \in 1..Len(s) : Len(s[i].at) = i - 1
      /\ \A i \in 1..Len(s) - 1 : IsPart(s[i + 1].at, s[i].at)
      /\ \A q \in DOMAIN st :
            /\ st[q] \in FrameSet /\ q \in Steps /\ q # Root
            /\ Len(q) = Len(st[q].at) /\ Last(q) = Last(st[q].at)
      /\ \A q, r \in DOMAIN st : st[q].at = st[r].at => q = r
      /\ \A q \in DOMAIN st : \A i \in 1..Len(s) : s[i].at # st[q].at
  BY DEF Placed
<1>3. \A q \in DOMAIN st2 :
            /\ st2[q] \in FrameSet /\ q \in Steps /\ q # Root
            /\ Len(q) = Len(st2[q].at) /\ Last(q) = Last(st2[q].at)
  BY <1>1, <1>2
<1>4. \A q \in DOMAIN st : st[q].at # f.at
  BY DEF StoredAt
<1>5. \A q, r \in DOMAIN st2 : st2[q].at = st2[r].at => q = r
  BY <1>1, <1>2, <1>4
<1>6. \A q \in DOMAIN st2 : \A i \in 1..Len(s) : s[i].at # st2[q].at
  BY <1>1, <1>2
<1>7. Placed(s, st2)
  BY <1>2, <1>3, <1>5, <1>6 DEF Placed
<1>8. {st2[q] : q \in DOMAIN st2} = {st[q] : q \in DOMAIN st} \cup {f}
  BY <1>1
<1>9. StoredAt(st2) = StoredAt(st) \cup {f.at}
  BY <1>1 DEF StoredAt
<1> QED
  BY <1>7, <1>8, <1>9 DEF FramesOf

LEMMA StoredRemoved ==
    ASSUME NEW s, NEW st, Placed(s, st), NEW p \in DOMAIN st,
           NEW st2, Unstores(st, st2, p)
    PROVE  /\ Placed(s, st2)
           /\ FramesOf(s, st2) = FramesOf(s, st) \ {st[p]}
           /\ StoredAt(st2) = StoredAt(st) \ {st[p].at}
<1> DOMAIN st2 = DOMAIN st \ {p} /\ \A q \in DOMAIN st2 : st2[q] = st[q]
  BY DEF Unstores
<1>1. Placed(s, st2)
  BY DEF Placed
<1>2. \A q, r \in DOMAIN st : st[q].at = st[r].at => q = r
  BY DEF Placed
<1>3. \A i \in 1..Len(s) : s[i] # st[p]
  BY DEF Placed
<1>4. {st2[q] : q \in DOMAIN st2} = {st[q] : q \in DOMAIN st} \ {st[p]}
  BY <1>2
<1>5. StoredAt(st2) = StoredAt(st) \ {st[p].at}
  BY <1>2 DEF StoredAt
<1> QED
  BY <1>1, <1>3, <1>4, <1>5 DEF FramesOf

LEMMA StoredReplaced ==
    ASSUME NEW s, NEW st, Placed(s, st), NEW p \in DOMAIN st, NEW g \in FrameSet, g.at = st[p].at,
           NEW st2, Restores(st, st2, p, g)
    PROVE  /\ Placed(s, st2)
           /\ FramesOf(s, st2) = (FramesOf(s, st) \ {st[p]}) \cup {g}
           /\ StoredAt(st2) = StoredAt(st)
           /\ \A q \in DOMAIN st : st2[q].at = st[q].at
<1> DOMAIN st2 = DOMAIN st /\ \A q \in DOMAIN st : st2[q] = IF q = p THEN g ELSE st[q]
  BY DEF Restores
<1>1. st2[p] = g /\ \A q \in DOMAIN st : st2[q].at = st[q].at
  OBVIOUS
<1>2. /\ s \in Seq(FrameSet)
      /\ \A i \in 1..Len(s) : Len(s[i].at) = i - 1
      /\ \A i \in 1..Len(s) - 1 : IsPart(s[i + 1].at, s[i].at)
      /\ \A q \in DOMAIN st :
            /\ st[q] \in FrameSet /\ q \in Steps /\ q # Root
            /\ Len(q) = Len(st[q].at) /\ Last(q) = Last(st[q].at)
      /\ \A q, r \in DOMAIN st : st[q].at = st[r].at => q = r
      /\ \A q \in DOMAIN st : \A i \in 1..Len(s) : s[i].at # st[q].at
  BY DEF Placed
<1>3. Placed(s, st2)
  BY <1>1, <1>2 DEF Placed
<1>4. {st2[q] : q \in DOMAIN st2} = ({st[q] : q \in DOMAIN st} \ {st[p]}) \cup {g}
  <2>1. \A q \in DOMAIN st : q # p => st[q] # st[p]
    BY <1>2
  <2> QED
    BY <1>1, <2>1
<1>5. StoredAt(st2) = StoredAt(st)
  BY <1>1 DEF StoredAt
<1>6. \A i \in 1..Len(s) : s[i] # st[p]
  BY <1>2
<1> QED
  BY <1>1, <1>3, <1>4, <1>5, <1>6 DEF FramesOf

\* The frame on top has no frames above it; if nothing is stored of it, its
\* elements have no frames.
LEMMA TopIsBare ==
    ASSUME NEW s, NEW st, Placed(s, st), s # << >>,
           \A q \in DOMAIN st : ~IsPart(st[q].at, s[Len(s)].at)
    PROVE  Bare(s[Len(s)], PlacesOf(FramesOf(s, st)))
<1>1. \A i \in 1..Len(s) : ~IsPart(s[i].at, s[Len(s)].at)
  <2>1. SUFFICES ASSUME NEW i \in 1..Len(s), IsPart(s[i].at, s[Len(s)].at) PROVE FALSE
    OBVIOUS
  <2>2. s[i].at \in Steps /\ Len(s) \in Nat \ {0} /\ Len(s) \in 1..Len(s)
    BY StackFacts
  <2>3. Len(s[i].at) = i - 1 /\ Len(s[Len(s)].at) = Len(s) - 1
    BY <2>2 DEF Placed
  <2>4. Len(Front(s[i].at)) = Len(s[i].at) - 1
    BY <2>1, <2>2, Parent DEF IsPart
  <2>5. Len(s) - 1 = i - 1 - 1
    BY <2>1, <2>3, <2>4 DEF IsPart
  <2> QED
    BY <2>2, <2>5
<1> QED
  BY <1>1 DEF Bare, PlacesOf, FramesOf

\* The frame that is next in the walk has none either.
LEMMA FirstIsBare ==
    ASSUME NEW p \in DOMAIN stored, Placed(stack, stored), First(p)
    PROVE  Bare(stored[p], PlacesOf(FramesOf(stack, stored)))
<1> DEFINE f == stored[p]
<1>1. /\ f.at \in Steps /\ p \in Steps /\ p # Root /\ Len(p) = Len(f.at) /\ Len(p) \in Nat \ {0}
  BY StackFacts, Parent DEF Placed
<1>2. ASSUME NEW q \in DOMAIN stored, IsPart(stored[q].at, f.at) PROVE FALSE
  <2>1. stored[q].at \in Steps /\ q \in Steps /\ Len(q) = Len(stored[q].at)
    BY StackFacts DEF Placed
  <2>2. Len(f.at) = Len(stored[q].at) - 1 /\ Len(q) \in Nat
    BY <1>2, <2>1, Parent DEF IsPart
  <2>3. Len(p) < Len(q)
    BY <1>1, <2>1, <2>2
  <2>4. q # p
    BY <1>1, <2>3
  <2>5. Before(p, q)
    BY <2>4 DEF First
  <2> QED
    BY <1>1, <2>2, <2>3, <2>5 DEF Before
<1>3. ASSUME NEW i \in 1..Len(stack), IsPart(stack[i].at, f.at) PROVE FALSE
  <2>1. stack[i].at \in Steps /\ Len(stack[i].at) = i - 1 /\ Len(stack) \in Nat /\ stack[i].at # Root
    BY <1>3, StackFacts DEF Placed, IsPart
  <2>2. Len(f.at) = i - 1 - 1
    BY <1>3, <2>1, Parent DEF IsPart
  <2>3. i > 2
    BY <1>1, <2>1, <2>2
  <2>4. i - 1 \in 1..Len(stack) - 1 /\ i - 1 \in 1..Len(stack) /\ i - 1 + 1 = i
    BY <2>1, <2>3
  <2>5. IsPart(stack[i].at, stack[i - 1].at)
    BY <2>4 DEF Placed
  <2>6. stack[i - 1].at = f.at
    BY <1>3, <2>5 DEF IsPart
  <2> QED
    BY <2>4, <2>6 DEF Placed
<1> QED
  BY <1>2, <1>3 DEF Bare, PlacesOf, FramesOf

-----------------------------------------------------------------------------
(* The numbers of entries *)

LEMMA PartsDiffer ==
    ASSUME NEW g, g.at \in Steps, NEW x \in {"key", "value"}, NEW y \in {"key", "value"},
           NEW j \in Nat, NEW k \in Nat
    PROVE  Part(g, x, j) = Part(g, y, k) <=> x = y /\ j = k
<1>1. Last(Part(g, x, j)) = <<x, j>> /\ Last(Part(g, y, k)) = <<y, k>>
  BY PartFacts
<1> QED
  BY <1>1

\* Only the elements of g in S matter.
LEMMA MapSame ==
    ASSUME NEW g, g.at \in Steps, NEW S, NEW g2, NEW S2,
           g2.at = g.at, g2.pending = g.pending, Waits(g2) = Waits(g),
           \A a : IsPart(a, g.at) => (a \in S <=> a \in S2), NEW n
    PROVE  MapIs(g, S, n) <=> MapIs(g2, S2, n)
<1>1. \A k \in Nat : Part(g, "key", k) \in S <=> Part(g2, "key", k) \in S2
  <2>1. SUFFICES ASSUME NEW k \in Nat PROVE Part(g, "key", k) \in S <=> Part(g2, "key", k) \in S2
    OBVIOUS
  <2>2. IsPart(Part(g, "key", k), g.at) /\ Part(g2, "key", k) = Part(g, "key", k)
    BY PartFacts DEF Part
  <2> QED
    BY <2>2
<1>2. \A k \in Nat : Part(g, "value", k) \in S <=> Part(g2, "value", k) \in S2
  <2>1. SUFFICES ASSUME NEW k \in Nat PROVE Part(g, "value", k) \in S <=> Part(g2, "value", k) \in S2
    OBVIOUS
  <2>2. IsPart(Part(g, "value", k), g.at) /\ Part(g2, "value", k) = Part(g, "value", k)
    BY PartFacts DEF Part
  <2> QED
    BY <2>2
<1>3. \A k : Given(g, k) <=> Given(g2, k)
  BY DEF Given
<1> QED
  BY <1>1, <1>2, <1>3 DEF MapIs

\* Nothing of the map is stored, and no entry waits for its value.
LEMMA AllGiven ==
    ASSUME NEW g, FrameOK(g), NEW S, NEW n \in Nat, MapIs(g, S, n),
           \A a \in S : ~IsPart(a, g.at)
    PROVE  /\ n = Len(g.pending)
           /\ ~Waits(g) => \A i \in 1..Len(g.pending) : g.pending[i].value # None
           /\ \A k \in Nat : k < n => Given(g, k) \/ (Waits(g) /\ k = n - 1)
<1>1. g.at \in Steps /\ Len(g.pending) \in Nat
  BY FrameFacts
<1>2. \A k \in Nat : Part(g, "key", k) \notin S /\ Part(g, "value", k) \notin S
  BY <1>1, PartFacts
<1>3. n = Len(g.pending)
  <2>1. Len(g.pending) <= n
    BY DEF MapIs
  <2>2. ~(Len(g.pending) <= Len(g.pending) /\ Len(g.pending) < n)
    BY <1>1, <1>2 DEF MapIs
  <2> QED
    BY <1>1, <2>1, <2>2
<1>4. \A k \in Nat : k < n => Given(g, k) \/ (Waits(g) /\ k = n - 1)
  BY <1>2 DEF MapIs
<1>5. ASSUME ~Waits(g), NEW i \in 1..Len(g.pending) PROVE g.pending[i].value # None
  <2>1. i - 1 \in Nat /\ i - 1 < n /\ i - 1 + 1 = i
    BY <1>1, <1>3
  <2>2. Given(g, i - 1)
    BY <1>4, <1>5, <2>1
  <2> QED
    BY <2>1, <2>2 DEF Given
<1> QED
  BY <1>3, <1>4, <1>5

\* In deferred mode the key is stored, and the entry waits for its value.
LEMMA KeyStored ==
    ASSUME NEW g, FrameOK(g), NEW S, NEW n \in Nat, MapIs(g, S, n), g.state = "Key",
           NEW g2, g2.at = g.at, g2.pending = g.pending, g2.state = "KeyDone"
    PROVE  MapIs(g2, S \cup {Part(g, "key", n)}, n + 1)
<1>1. g.at \in Steps /\ Len(g.pending) \in Nat /\ Len(g.pending) <= n
  BY FrameFacts DEF MapIs
<1>2. ~Waits(g) /\ Waits(g2)
  BY DEF Waits
<1>3. \A k : Given(g, k) <=> Given(g2, k)
  BY DEF Given
<1>4. ~Given(g2, n)
  BY <1>1 DEF Given
<1>5. \A k \in Nat : Part(g2, "key", k) = Part(g, "key", k) /\ Part(g2, "value", k) = Part(g, "value", k)
  BY DEF Part
<1>6. \A k \in Nat : /\ Part(g, "key", k) = Part(g, "key", n) <=> k = n
                     /\ Part(g, "value", k) # Part(g, "key", n)
  BY <1>1, PartsDiffer
<1>7. \A k \in Nat : Part(g2, "key", k) \in S \cup {Part(g, "key", n)} <=>
                        Len(g2.pending) <= k /\ k < n + 1
  <2>1. \A k \in Nat : Part(g, "key", k) \in S <=> Len(g.pending) <= k /\ k < n
    BY DEF MapIs
  <2> QED
    BY <1>1, <1>5, <1>6, <2>1
<1>8. \A k \in Nat : Part(g2, "value", k) \in S \cup {Part(g, "key", n)} <=>
                        k < n + 1 /\ ~Given(g2, k) /\ ~(Waits(g2) /\ k = n + 1 - 1)
  <2>1. \A k \in Nat : Part(g, "value", k) \in S <=> k < n /\ ~Given(g, k)
    BY <1>2 DEF MapIs
  <2>2. \A k \in Nat : k < n + 1 /\ k # n + 1 - 1 <=> k < n
    OBVIOUS
  <2> QED
    BY <1>2, <1>3, <1>5, <1>6, <2>1, <2>2
<1>9. Len(g2.pending) <= n + 1 /\ n + 1 > 0 /\ n + 1 - 1 = n
  BY <1>1
<1> QED
  BY <1>4, <1>7, <1>8, <1>9 DEF MapIs

\* The value is stored, and the map is idle.
LEMMA ValueStored ==
    ASSUME NEW g, FrameOK(g), NEW S, NEW n \in Nat, MapIs(g, S, n), g.state = "Value",
           NEW g2, g2.at = g.at, g2.pending = g.pending, g2.state = "Idle"
    PROVE  MapIs(g2, S \cup {Part(g, "value", n - 1)}, n)
<1>1. g.at \in Steps /\ Len(g.pending) \in Nat
  BY FrameFacts
<1>2. Waits(g) /\ ~Waits(g2)
  BY DEF Waits
<1>3. \A k : Given(g, k) <=> Given(g2, k)
  BY DEF Given
<1>4. n > 0 /\ ~Given(g, n - 1) /\ n - 1 \in Nat /\ Len(g.pending) <= n
  BY <1>2 DEF MapIs
<1>5. \A k \in Nat : Part(g2, "key", k) = Part(g, "key", k) /\ Part(g2, "value", k) = Part(g, "value", k)
  BY DEF Part
<1>6. \A k \in Nat : /\ Part(g, "value", k) = Part(g, "value", n - 1) <=> k = n - 1
                     /\ Part(g, "key", k) # Part(g, "value", n - 1)
  BY <1>1, <1>4, PartsDiffer
<1>7. \A k \in Nat : Part(g2, "key", k) \in S \cup {Part(g, "value", n - 1)} <=>
                        Len(g2.pending) <= k /\ k < n
  <2>1. \A k \in Nat : Part(g, "key", k) \in S <=> Len(g.pending) <= k /\ k < n
    BY DEF MapIs
  <2> QED
    BY <1>5, <1>6, <2>1
<1>8. \A k \in Nat : Part(g2, "value", k) \in S \cup {Part(g, "value", n - 1)} <=>
                        k < n /\ ~Given(g2, k) /\ ~(Waits(g2) /\ k = n - 1)
  <2>1. \A k \in Nat : Part(g, "value", k) \in S <=> k < n /\ ~Given(g, k) /\ k # n - 1
    BY <1>2 DEF MapIs
  <2>2. n - 1 < n
    BY <1>4
  <2> QED
    BY <1>2, <1>3, <1>4, <1>5, <1>6, <2>1, <2>2
<1> QED
  BY <1>2, <1>4, <1>7, <1>8 DEF MapIs

\* A key that passes the walk, or ends in strict mode, is the next entry.
LEMMA KeyTaken ==
    ASSUME NEW g, FrameOK(g), NEW S, NEW n \in Nat, MapIs(g, S, n),
           NEW g2, g2.at = g.at, Len(g2.pending) = Len(g.pending) + 1,
           \A k \in Nat : Given(g2, k) <=> Given(g, k), Waits(g2) = Waits(g),
           Part(g, "key", Len(g.pending)) \in S
    PROVE  MapIs(g2, S \ {Part(g, "key", Len(g.pending))}, n)
<1> DEFINE l == Len(g.pending)
<1>1. g.at \in Steps /\ l \in Nat
  BY FrameFacts
<1>2. \A k \in Nat : Part(g2, "key", k) = Part(g, "key", k) /\ Part(g2, "value", k) = Part(g, "value", k)
  BY DEF Part
<1>3. \A k \in Nat : /\ Part(g, "key", k) = Part(g, "key", l) <=> k = l
                     /\ Part(g, "value", k) # Part(g, "key", l)
  BY <1>1, PartsDiffer
<1>4. l < n
  BY <1>1 DEF MapIs
<1> HIDE DEF l
<1>5. /\ \A k \in Nat : Part(g, "key", k) \in S <=> l <= k /\ k < n
      /\ \A k \in Nat : Part(g, "value", k) \in S <=> k < n /\ ~Given(g, k) /\ ~(Waits(g) /\ k = n - 1)
      /\ Waits(g) => n > 0 /\ ~Given(g, n - 1)
      /\ Len(g2.pending) = l + 1
  BY DEF MapIs, l
<1>6. \A k \in Nat : Part(g2, "key", k) \in S \ {Part(g, "key", l)} <=> Len(g2.pending) <= k /\ k < n
  BY <1>1, <1>2, <1>3, <1>5
<1>7. \A k \in Nat : Part(g2, "value", k) \in S \ {Part(g, "key", l)} <=>
                        k < n /\ ~Given(g2, k) /\ ~(Waits(g2) /\ k = n - 1)
  BY <1>2, <1>3, <1>5
<1>8. Waits(g2) => n > 0 /\ ~Given(g2, n - 1)
  <2>1. n > 0 => n - 1 \in Nat
    OBVIOUS
  <2> QED
    BY <1>5, <2>1
<1>9. Len(g2.pending) <= n
  BY <1>1, <1>4, <1>5
<1> QED
  BY <1>6, <1>7, <1>8, <1>9 DEF MapIs, l

\* A value that passes the walk finds its key.
LEMMA ValueTaken ==
    ASSUME NEW g, FrameOK(g), NEW S, NEW n \in Nat, MapIs(g, S, n), NEW j \in Nat,
           NEW g2, g2.at = g.at, Len(g2.pending) = Len(g.pending),
           \A k \in Nat : Given(g2, k) <=> Given(g, k) \/ k = j, Waits(g2) = Waits(g),
           Part(g, "value", j) \in S
    PROVE  MapIs(g2, S \ {Part(g, "value", j)}, n)
<1>1. g.at \in Steps /\ Len(g.pending) \in Nat
  BY FrameFacts
<1>2. \A k \in Nat : Part(g2, "key", k) = Part(g, "key", k) /\ Part(g2, "value", k) = Part(g, "value", k)
  BY DEF Part
<1>3. \A k \in Nat : /\ Part(g, "value", k) = Part(g, "value", j) <=> k = j
                     /\ Part(g, "key", k) # Part(g, "value", j)
  BY <1>1, PartsDiffer
<1>5. /\ \A k \in Nat : Part(g, "key", k) \in S <=> Len(g.pending) <= k /\ k < n
      /\ \A k \in Nat : Part(g, "value", k) \in S <=> k < n /\ ~Given(g, k) /\ ~(Waits(g) /\ k = n - 1)
      /\ Waits(g) => n > 0 /\ ~Given(g, n - 1)
      /\ Len(g.pending) <= n
  BY DEF MapIs
<1>6. \A k \in Nat : Part(g2, "key", k) \in S \ {Part(g, "value", j)} <=> Len(g2.pending) <= k /\ k < n
  BY <1>2, <1>3, <1>5
<1>7. \A k \in Nat : Part(g2, "value", k) \in S \ {Part(g, "value", j)} <=>
                        k < n /\ ~Given(g2, k) /\ ~(Waits(g2) /\ k = n - 1)
  BY <1>2, <1>3, <1>5
<1>8. Waits(g2) => n > 0 /\ ~Given(g2, n - 1)
  <2>1. n > 0 => n - 1 \in Nat
    OBVIOUS
  <2> QED
    BY <1>5, <2>1
<1> QED
  BY <1>5, <1>6, <1>7, <1>8 DEF MapIs

LEMMA KeyEnded ==
    ASSUME NEW g, FrameOK(g), NEW n \in Nat, MapIs(g, {}, n), g.state = "Key",
           NEW g2, g2.at = g.at, Len(g2.pending) = Len(g.pending) + 1, g2.state = "KeyDone",
           \A k \in Nat : Given(g2, k) <=> Given(g, k)
    PROVE  MapIs(g2, {}, n + 1)
<1>1. Len(g.pending) \in Nat
  BY FrameFacts
<1>2. ~Waits(g) /\ Waits(g2)
  BY DEF Waits
<1>3. n = Len(g.pending) /\ \A k \in Nat : k < n => Given(g, k)
  BY <1>2, AllGiven
<1>4. ~Given(g, n)
  BY <1>1, <1>3 DEF Given
<1>5. \A k \in Nat : ~(Len(g2.pending) <= k /\ k < n + 1)
  BY <1>1, <1>3
<1>6. \A k \in Nat : ~(k < n + 1 /\ ~Given(g2, k) /\ ~(Waits(g2) /\ k = n + 1 - 1))
  <2>1. \A k \in Nat : k < n + 1 => k < n \/ k = n + 1 - 1
    OBVIOUS
  <2> QED
    BY <1>2, <1>3, <2>1
<1>7. Len(g2.pending) <= n + 1 /\ n + 1 > 0 /\ n + 1 - 1 = n /\ n + 1 \in Nat
  BY <1>1, <1>3
<1>8. ~Given(g2, n)
  BY <1>4
<1> QED
  BY <1>5, <1>6, <1>7, <1>8 DEF MapIs

LEMMA ValueEnded ==
    ASSUME NEW g, FrameOK(g), NEW n \in Nat, MapIs(g, {}, n), g.state = "Value"
    PROVE  /\ n = Len(g.pending) /\ n \in 1..Len(g.pending) /\ g.pending[n].value = None
           /\ \A g2 :
                /\ g2.at = g.at /\ Len(g2.pending) = Len(g.pending) /\ g2.state = "Idle"
                /\ \A k \in Nat : Given(g2, k) <=> Given(g, k) \/ k = n - 1
                => MapIs(g2, {}, n)
<1>1. Len(g.pending) \in Nat
  BY FrameFacts
<1>2. Waits(g)
  BY DEF Waits
<1>3. n = Len(g.pending) /\ \A k \in Nat : k < n => Given(g, k) \/ k = n - 1
  BY <1>2, AllGiven
<1>4. n > 0 /\ ~Given(g, n - 1)
  BY <1>2 DEF MapIs
<1>5. g.pending[n].value = None
  <2>1. n - 1 < Len(g.pending) /\ n - 1 + 1 = n
    BY <1>3, <1>4
  <2> QED
    BY <1>4, <2>1 DEF Given
<1>6. ASSUME NEW g2, g2.at = g.at, Len(g2.pending) = Len(g.pending), g2.state = "Idle",
             \A k \in Nat : Given(g2, k) <=> Given(g, k) \/ k = n - 1
      PROVE  MapIs(g2, {}, n)
  <2>1. ~Waits(g2)
    BY <1>6 DEF Waits
  <2>2. \A k \in Nat : ~(k < n /\ ~Given(g2, k))
    BY <1>3, <1>6
  <2>3. \A k \in Nat : ~(Len(g2.pending) <= k /\ k < n)
    BY <1>1, <1>3, <1>6
  <2>4. Len(g2.pending) <= n
    BY <1>1, <1>3, <1>6
  <2> QED
    BY <2>1, <2>2, <2>3, <2>4 DEF MapIs
<1>7. n \in 1..Len(g.pending)
  BY <1>1, <1>3, <1>4
<1> QED
  BY <1>3, <1>5, <1>6, <1>7

\* A map without entries.
LEMMA NoEntries ==
    ASSUME NEW g, g.at \in Steps, g.pending = << >>, ~Waits(g), NEW S,
           \A a \in S : ~IsPart(a, g.at)
    PROVE  MapOK(g, S)
<1>1. \A k \in Nat : Part(g, "key", k) \notin S /\ Part(g, "value", k) \notin S
  BY PartFacts
<1>2. Len(g.pending) = 0
  BY EmptySeq
<1>3. \A k \in Nat : ~(k < 0)
  OBVIOUS
<1>4. MapIs(g, S, 0)
  BY <1>1, <1>2, <1>3 DEF MapIs
<1> QED
  BY <1>4 DEF MapOK

-----------------------------------------------------------------------------
(* While the value is built *)

LEMMA SoundKept ==
    ASSUME NEW g, FrameOK(g), NEW P, NEW S, NEW m, Sound(g, P, S, m), NEW P2, NEW S2, NEW m2,
           \A a : IsPart(a, g.at) => (a \in P => a \in P2) /\ (a \in S <=> a \in S2),
           m2[g.at] = m[g.at]
    PROVE  Sound(g, P2, S2, m2)
<1>1. g.at \in Steps /\ RopeLen(g) \in Nat
  BY FrameFacts
<1>2. \A a \in Slots(g, RopeLen(g)) : IsPart(a, g.at)
  BY <1>1, SlotsAre, PartFacts
<1>3. ListOK(g, P2)
  BY <1>2 DEF Sound, ListOK
<1>4. MapOK(g, S2)
  <2>1. \A n : MapIs(g, S, n) => MapIs(g, S2, n)
    BY <1>1, MapSame
  <2> QED
    BY <2>1 DEF Sound, MapOK
<1> QED
  BY <1>3, <1>4 DEF Sound, ValueOK

\* A frame with the elements it had is as sound as it was.
LEMMA SoundMoved ==
    ASSUME NEW g, FrameOK(g), NEW P, NEW S, NEW m, Sound(g, P, S, m), NEW g2,
           g2.at = g.at, g2.tracker = g.tracker, g2.rope = g.rope, g2.pending = g.pending,
           g2.isInit = g.isInit, Waits(g2) = Waits(g)
    PROVE  Sound(g2, P, S, m)
<1>1. g.at \in Steps
  BY FrameFacts
<1>2. ListOK(g2, P)
  BY SameParts DEF Sound, ListOK
<1>3. MapOK(g2, S)
  <2>1. \A n : MapIs(g, S, n) => MapIs(g2, S, n)
    BY <1>1, MapSame
  <2> QED
    BY <2>1 DEF Sound, MapOK
<1>4. ValueOK(g2, m)
  BY DEF Sound, ValueOK, IsLeaf
<1> QED
  BY <1>2, <1>3, <1>4 DEF Sound

LEMMA LiveFacts ==
    ASSUME NEW t, NEW s, NEW st, NEW m, LiveOK(t, s, st, m)
    PROVE  /\ s # << >> /\ Placed(s, st) /\ Owned(FramesOf(s, st), m)
           /\ Len(s) \in Nat \ {0} /\ Len(s) \in 1..Len(s)
           /\ s[Len(s)] \in FramesOf(s, st)
           /\ \A f \in FramesOf(s, st) : FrameOK(f) /\ Tracked(t, f) /\ f \in FrameSet /\ f.at \in Steps
           /\ \A i \in 1..Len(s) : s[i] \in FramesOf(s, st)
           /\ \A p \in DOMAIN st : st[p] \in FramesOf(s, st)
<1>1. s # << >> /\ Placed(s, st) /\ Owned(FramesOf(s, st), m)
  BY DEF LiveOK
<1>2. \A f \in FramesOf(s, st) : FrameOK(f) /\ f.at \in Steps
  BY <1>1, OwnedFacts
<1>3. \A f \in FramesOf(s, st) : f \in FrameSet
  BY <1>2 DEF FrameOK
<1>4. /\ Len(s) \in Nat \ {0} /\ Len(s) \in 1..Len(s) /\ s[Len(s)] \in FramesOf(s, st)
      /\ \A i \in 1..Len(s) : s[i] \in FramesOf(s, st)
      /\ \A p \in DOMAIN st : st[p] \in FramesOf(s, st)
  BY <1>1, StackFacts
<1> QED
  BY <1>1, <1>2, <1>3, <1>4 DEF LiveOK

\* The frame on top, which nothing is stored of, becomes f2, without elements.
LEMMA TopChanged ==
    ASSUME NEW t, NEW s, NEW st, NEW m, LiveOK(t, s, st, m), BuildingOK(s, st, m),
           \A q \in DOMAIN st : ~IsPart(st[q].at, s[Len(s)].at),
           NEW f2, FrameOK(f2), f2.at = s[Len(s)].at, f2.rope = None, f2.pending = << >>,
           f2.state \in {"Idle", "KeyDone"}, ~Waits(f2), Tracked(t, f2),
           NEW m2, f2.at \in DOMAIN m2, f2.isInit <=> m2[f2.at] # None, ValueOK(f2, m2),
           DOMAIN m2 \subseteq DOMAIN m, \A a \in DOMAIN m2 : ~IsPart(a, f2.at),
           \A a \in DOMAIN m : ~IsPart(a, f2.at) => a \in DOMAIN m2 /\ (a # f2.at => m2[a] = m[a]),
           NEW s2, Changed(s, s2, Len(s), f2)
    PROVE  /\ LiveOK(t, s2, st, m2) /\ BuildingOK(s2, st, m2) /\ Len(s2) = Len(s)
           /\ \A d : DeferringOK(s, st, d) => DeferringOK(s2, st, d)
<1> DEFINE F == FramesOf(s, st)
           F2 == FramesOf(s2, st)
           P == PlacesOf(F)
           S == StoredAt(st)
           f == s[Len(s)]
<1>1. /\ s # << >> /\ Placed(s, st) /\ Owned(F, m) /\ Len(s) \in Nat \ {0} /\ Len(s) \in 1..Len(s)
      /\ f \in F /\ \A g \in F : FrameOK(g) /\ Tracked(t, g) /\ g \in FrameSet /\ g.at \in Steps
  BY LiveFacts
<1>2. Bare(f, P)
  BY <1>1, TopIsBare
<1>3. f2 \in FrameSet
  BY DEF FrameOK
<1>4. /\ Placed(s2, st) /\ Len(s2) = Len(s) /\ s2 # << >>
      /\ \A j \in 1..Len(s) : s2[j] = IF j = Len(s) THEN f2 ELSE s[j]
      /\ \A j \in 1..Len(s) : s2[j].at = s[j].at
      /\ F2 = (F \ {f}) \cup {f2}
  <2> DEFINE i == Len(s)
  <2>1. i \in 1..Len(s) /\ f2.at = s[i].at /\ Changed(s, s2, i, f2)
    BY <1>1
  <2> HIDE DEF i
  <2>2. /\ Placed(s2, st) /\ Len(s2) = Len(s) /\ s2 # << >>
        /\ \A j \in 1..Len(s) : s2[j] = IF j = i THEN f2 ELSE s[j]
        /\ \A j \in 1..Len(s) : s2[j].at = s[j].at
        /\ FramesOf(s2, st) = (FramesOf(s, st) \ {s[i]}) \cup {f2}
    BY <1>1, <1>3, <2>1, StackReplaced
  <2> QED
    BY <2>2 DEF i
<1> HIDE DEF F2
<1>5. OwnOK(f2, P, m2)
  BY EmptyOwnOK
<1>6. Owned(F2, m2) /\ PlacesOf(F2) = P
  <2> DEFINE G == (F \ {f}) \cup {f2}
  <2>1. f2.at = f.at
    OBVIOUS
  <2> HIDE DEF f, F
  <2>2. Owned(G, m2) /\ PlacesOf(G) = PlacesOf(F)
    BY <1>1, <1>2, <1>5, <2>1, Replaced DEF F
  <2> QED
    BY <1>4, <2>2
<1>7. \A g \in F2 : Tracked(t, g)
  BY <1>1, <1>4
<1>8. LiveOK(t, s2, st, m2)
  BY <1>4, <1>6, <1>7 DEF LiveOK, F2
<1>9. Opened(s2)
  <2>1. \A i \in 1..Len(s) - 1 : i \in 1..Len(s) /\ i # Len(s) /\ i + 1 \in 1..Len(s)
    BY <1>1
  <2>2. \A i \in 1..Len(s) - 1 : s2[i] = s[i] /\ s2[i + 1].at = s[i + 1].at
    BY <1>4, <2>1
  <2>3. s2[Len(s2)] = f2 /\ Len(s2) = Len(s)
    BY <1>1, <1>4
  <2> QED
    BY <2>2, <2>3 DEF Opened, BuildingOK
<1>10. ASSUME NEW g \in F2 PROVE Sound(g, P, S, m2)
  <2>1. CASE g = f2
    <3>1. RopeLen(g) = 0
      BY <2>1 DEF RopeLen
    <3>2. ListOK(g, P)
      BY <3>1, SlotsAre DEF ListOK
    <3>3. MapOK(g, S)
      <4>1. \A a \in S : ~IsPart(a, f2.at)
        BY DEF StoredAt
      <4>2. f2.at \in Steps
        BY <1>1
      <4> HIDE DEF S
      <4> QED
        BY <2>1, <4>1, <4>2, NoEntries
    <3> QED
      BY <2>1, <3>2, <3>3 DEF Sound
  <2>2. CASE g # f2
    <3>1. g \in F /\ g # f
      BY <1>4, <2>2
    <3>2. g.at \in DOMAIN m /\ g.at \in P /\ g.at # f.at
      BY <1>1, <3>1 DEF Owned, OwnOK, PlacesOf
    <3>3. m2[g.at] = m[g.at]
      BY <1>2, <3>2 DEF Bare
    <3>4. Sound(g, P, S, m)
      BY <3>1 DEF BuildingOK
    <3> HIDE DEF P, S, F
    <3> QED
      BY <1>1, <3>1, <3>3, <3>4, SoundKept
  <2> QED
    BY <2>1, <2>2
<1>11. \A j \in 1..Len(s) - 1 : s2[j] = s[j]
  BY <1>1, <1>4
<1>12. Behind(s, st) => Behind(s2, st)
  <2>1. Len(s) >= 2 => 1 \in 1..Len(s) - 1 /\ 2 \in 1..Len(s)
    BY <1>1
  <2> QED
    BY <1>4, <1>11, <2>1 DEF Behind
<1>13. BuildingOK(s2, st, m2)
  BY <1>6, <1>9, <1>10, <1>12 DEF BuildingOK, F2
<1>14. \A d : DeferringOK(s, st, d) => DeferringOK(s2, st, d)
  <2>1. SUFFICES ASSUME NEW d, DeferringOK(s, st, d) PROVE DeferringOK(s2, st, d)
    OBVIOUS
  <2>2. d \in 1..Len(s) /\ IF d = 1 THEN AsTheyLie(st) ELSE Behind(s, st)
    BY <2>1 DEF DeferringOK
  <2>3. Len(s) > 1 => s2[1] = s[1] /\ s[1].tracker # "Set"
    <3>1. Len(s) > 1 => 1 \in 1..Len(s) - 1
      BY <1>1
    <3> QED
      BY <1>11, <2>1, <3>1 DEF DeferringOK
  <2>4. \A i \in d..Len(s) - 1 : s2[i] = s[i]
    BY <1>1, <1>11, <2>2
  <2> QED
    BY <1>4, <1>12, <2>1, <2>2, <2>3, <2>4 DEF DeferringOK
<1> QED
  BY <1>4, <1>8, <1>13, <1>14

-----------------------------------------------------------------------------
(* The steps: each action keeps the invariant *)

LEMMA CollectionIs ==
    ASSUME NEW f
    PROVE  Collection(f) = CollectionOf(type, f) /\ Collection(f) \in {"List", "Map", "Set"}
BY DEF Collection, CollectionOf, KindOf

LEMMA PutIs ==
    ASSUME NEW m, m.faults = {}, NEW a, a \in DOMAIN m.at, m.at[a] = None, NEW v
    PROVE  Put(m, a, v).at = [m.at EXCEPT ![a] = Some(v)] /\ Put(m, a, v).faults = {}
BY DEF Put

LEMMA ChangedIs ==
    ASSUME NEW s \in Seq(FrameSet), NEW i \in 1..Len(s), NEW g \in FrameSet
    PROVE  Changed(s, [s EXCEPT ![i] = g], i, g)
BY ExceptSeq DEF Changed

LEMMA MemoryAt == Memory.at = mem /\ Memory.faults = faults
BY DEF Memory

\* What holds while the caller builds.
LEMMA ActiveFacts ==
    ASSUME CollectionsInv, Building
    PROVE  /\ LiveOK(type, stack, stored, mem) /\ BuildingOK(stack, stored, mem)
           /\ stack # << >> /\ Placed(stack, stored) /\ Owned(FramesOf(stack, stored), mem)
           /\ Len(stack) \in Nat \ {0} /\ Len(stack) \in 1..Len(stack) /\ stack \in Seq(FrameSet)
           /\ Top = stack[Len(stack)] /\ Top \in FramesOf(stack, stored)
           /\ Top \in FrameSet /\ FrameOK(Top) /\ Top.at \in Steps /\ Len(Top.at) <= 2
           /\ Top.state \in {"Idle", "KeyDone"}
           /\ Sound(Top, PlacesOf(FramesOf(stack, stored)), StoredAt(stored), mem)
           /\ OwnOK(Top, PlacesOf(FramesOf(stack, stored)), mem)
           /\ Memory.at = mem /\ Memory.faults = {}
<1>1. LiveOK(type, stack, stored, mem) /\ BuildingOK(stack, stored, mem) /\ faults = {}
  BY DEF CollectionsInv, Building, Live
<1>2. /\ stack # << >> /\ Placed(stack, stored) /\ Owned(FramesOf(stack, stored), mem)
      /\ Len(stack) \in Nat \ {0} /\ Len(stack) \in 1..Len(stack)
      /\ stack[Len(stack)] \in FramesOf(stack, stored)
      /\ \A f \in FramesOf(stack, stored) : FrameOK(f) /\ f \in FrameSet /\ f.at \in Steps
  BY <1>1, LiveFacts
<1>3. Top = stack[Len(stack)]
  BY DEF Top
<1>4. stack \in Seq(FrameSet)
  BY <1>2 DEF Placed
<1>5. Len(Top.at) <= 2
  BY <1>2, <1>3 DEF FrameSet, Places
<1>6. Top.state \in {"Idle", "KeyDone"}
  BY <1>1, <1>3 DEF BuildingOK, Opened
<1>7. Sound(Top, PlacesOf(FramesOf(stack, stored)), StoredAt(stored), mem)
  BY <1>1, <1>2, <1>3 DEF BuildingOK
<1>8. OwnOK(Top, PlacesOf(FramesOf(stack, stored)), mem)
  BY <1>2, <1>3, OwnedFacts
<1> QED
  BY <1>1, <1>2, <1>3, <1>4, <1>5, <1>6, <1>7, <1>8, MemoryAt

LEMMA InitHolds == Init => CollectionsInv
<1> SUFFICES ASSUME Init PROVE CollectionsInv
  OBVIOUS
<1> DEFINE n == NewFrame(Root)
           F == FramesOf(stack, stored)
<1>1. /\ FrameOK(n) /\ n.at = Root /\ n.tracker = "Scalar" /\ n.isInit = FALSE
      /\ n.state = "Idle" /\ n.cur = None /\ n.rope = None /\ n.pending = << >>
  <2>1. Root \in Steps /\ Len(Root) <= 2
    BY RootIs
  <2> QED
    BY <2>1, NewFrameIs
<1>2. n \in FrameSet
  BY <1>1 DEF FrameOK
<1> HIDE DEF n
<1>3. stack = <<n>> /\ stored = << >> /\ mem = [a \in {Root} |-> None]
  BY DEF Init, n
<1>4. DOMAIN stored = {} /\ stack \in Seq(FrameSet) /\ Len(stack) = 1 /\ stack[1] = n /\ stack # << >>
  BY <1>2, <1>3
<1>5. F = {n} /\ PlacesOf({n}) = {Root} /\ StoredAt(stored) = {}
  <2>1. F = {n}
    BY <1>4 DEF FramesOf
  <2>2. PlacesOf({n}) = {Root}
    BY <1>1 DEF PlacesOf
  <2>3. StoredAt(stored) = {}
    BY <1>4 DEF StoredAt
  <2> QED
    BY <2>1, <2>2, <2>3
<1>6. Placed(stack, stored)
  <2>1. \A i \in 1..Len(stack) : i = 1
    BY <1>4
  <2>2. 1..Len(stack) - 1 = {}
    BY <1>4
  <2> QED
    BY <1>1, <1>4, <2>1, <2>2, RootIs DEF Placed
<1>7. Owned({n}, mem)
  <2>1. DOMAIN mem = {Root} /\ mem[Root] = None
    BY <1>3
  <2>2. ~IsPart(Root, n.at)
    BY DEF IsPart
  <2>3. OwnOK(n, PlacesOf({n}), mem)
    BY <1>1, <2>1, <2>2, EmptyOwnOK
  <2> QED
    BY <2>1, <2>3, RootIs DEF Owned
<1>8. LiveOK(type, stack, stored, mem)
  BY <1>1, <1>4, <1>5, <1>6, <1>7 DEF LiveOK, Tracked, F
<1>9. Sound(n, {Root}, {}, mem)
  <2>1. ListOK(n, {Root})
    <3>1. RopeLen(n) = 0
      BY <1>1 DEF RopeLen
    <3> QED
      BY <3>1, SlotsAre DEF ListOK
  <2>2. MapOK(n, {})
    BY <1>1, RootIs, NoEntries DEF Waits
  <2>3. ValueOK(n, mem)
    BY <1>1 DEF ValueOK
  <2> QED
    BY <2>1, <2>2, <2>3 DEF Sound
<1>10. BuildingOK(stack, stored, mem)
  <2>1. Opened(stack)
    <3>1. 1..Len(stack) - 1 = {}
      BY <1>4
    <3> QED
      BY <1>1, <1>4, <3>1 DEF Opened
  <2> QED
    BY <1>4, <1>5, <1>9, <2>1 DEF BuildingOK, AsTheyLie, F
<1>11. type \in Types /\ mode = "Strict" /\ faults = {} /\ phase = "Active" /\ startDepth = 0
  BY DEF Init
<1> QED
  BY <1>4, <1>8, <1>10, <1>11 DEF CollectionsInv, Live, Building, Deferring, Active

\* A call after which the caller goes on building.
LEMMA StillActive ==
    ASSUME CollectionsInv, Active, type' = type, mode' = mode, startDepth' = startDepth,
           phase' = phase, faults' = {},
           LiveOK(type, stack', stored', mem'), BuildingOK(stack', stored', mem'),
           mode = "Strict" => DOMAIN stored' = {},
           mode = "Deferred" => DeferringOK(stack', stored', startDepth)
    PROVE  CollectionsInv'
<1>1. /\ type' \in Types /\ mode' \in {"Strict", "Deferred"}
      /\ mode = "Strict" => startDepth' = 0
      /\ phase' = "Active"
  BY DEF CollectionsInv, Active
<1> QED
  BY <1>1 DEF CollectionsInv, Live, Building, Deferring, Active

LEMMA InMode ==
    ASSUME CollectionsInv, Active
    PROVE  /\ mode = "Strict" => DOMAIN stored = {} /\ startDepth = 0
           /\ mode = "Deferred" => DeferringOK(stack, stored, startDepth)
           /\ mode \in {"Strict", "Deferred"} /\ Building
BY DEF CollectionsInv, Deferring, Building, Active

LEMMA Unstored ==
    ASSUME CollectionsInv, Active, ~PartsStored
    PROVE  \A q \in DOMAIN stored : ~IsPart(stored[q].at, Top.at)
<1> SUFFICES ASSUME NEW q \in DOMAIN stored, IsPart(stored[q].at, Top.at) PROVE FALSE
  OBVIOUS
<1> DEFINE a == stored[q].at
           b == Top.at
<1>1. a \in Steps /\ b \in Steps /\ a # Root /\ Front(a) = b
  BY InMode, ActiveFacts, StackFacts DEF IsPart
<1>2. Len(b) = Len(a) - 1 /\ Len(a) \in Nat \ {0}
  BY <1>1, Parent
<1>3. SubSeq(b, 1, Len(b)) = b
  BY <1>1, SubSeqFull DEF Steps
<1>4. SubSeq(a, 1, Len(b)) = b
  BY <1>1, <1>2 DEF Front
<1>5. IsPrefix(b, a) /\ Len(a) > Len(b)
  BY <1>2, <1>3, <1>4 DEF IsPrefix
<1> QED
  BY <1>5 DEF PartsStored

LEMMA SetWholeKeeps ==
    ASSUME CollectionsInv, NEW n \in 0..1, SetWhole(n)
    PROVE  CollectionsInv'
<1> DEFINE F == FramesOf(stack, stored)
           P == PlacesOf(F)
           f2 == [NewFrame(Top.at) EXCEPT !.isInit = TRUE]
           d == Deinit(Memory, Top)
           v == Whole(n)
<1>0. Active /\ ~PartsStored
  BY DEF SetWhole
<1>1. /\ LiveOK(type, stack, stored, mem) /\ BuildingOK(stack, stored, mem)
      /\ stack # << >> /\ Placed(stack, stored)
      /\ Len(stack) \in 1..Len(stack) /\ stack \in Seq(FrameSet)
      /\ Top = stack[Len(stack)] /\ Top.at \in Steps /\ Len(Top.at) <= 2
      /\ OwnOK(Top, P, mem) /\ Memory.at = mem /\ Memory.faults = {}
  BY <1>0, InMode, ActiveFacts
<1>2. \A q \in DOMAIN stored : ~IsPart(stored[q].at, Top.at)
  BY <1>0, Unstored
<1>3. Bare(Top, P)
  BY <1>1, <1>2, TopIsBare
<1>4. /\ FrameOK(f2) /\ f2.at = Top.at /\ f2.tracker = "Scalar" /\ f2.isInit = TRUE
      /\ f2.state = "Idle" /\ f2.rope = None /\ f2.pending = << >>
  BY <1>1, NewFrameIs
<1>5. f2 \in FrameSet /\ ~Waits(f2) /\ Tracked(type, f2)
  <2> HIDE DEF f2
  <2> QED
    BY <1>4 DEF FrameOK, Waits, Tracked
<1>6. /\ d.at = [a \in DOMAIN mem \ Allocations(Top) |-> IF a = Top.at THEN None ELSE mem[a]]
      /\ d.faults = {}
  <2> DEFINE m == Memory
             f == Top
  <2>1. m.at = mem /\ m.faults = {} /\ OwnOK(f, P, m.at) /\ Bare(f, P)
    BY <1>1, <1>3
  <2> HIDE DEF m, f, P
  <2>2. /\ Deinit(m, f).at =
                [a \in DOMAIN m.at \ Allocations(f) |-> IF a = f.at THEN None ELSE m.at[a]]
        /\ Deinit(m, f).faults = {}
    BY <2>1, DeinitIs
  <2> QED
    BY <2>1, <2>2 DEF m, f
<1> HIDE DEF d
<1>7. /\ Top.at \in DOMAIN mem /\ Top.at \notin Allocations(Top)
      /\ \A a \in Allocations(Top) : IsPart(a, Top.at)
      /\ \A a \in DOMAIN mem : IsPart(a, Top.at) => a \in Allocations(Top)
  BY <1>1, <1>3, BareFacts
<1>8. Put(d, Top.at, v).at = [d.at EXCEPT ![Top.at] = Some(v)] /\ Put(d, Top.at, v).faults = {}
  <2>1. Top.at \in DOMAIN d.at /\ d.at[Top.at] = None
    BY <1>6, <1>7
  <2> HIDE DEF v
  <2> QED
    BY <1>6, <2>1, PutIs
<1>9. mem' = [d.at EXCEPT ![Top.at] = Some(v)] /\ faults' = {}
  BY <1>8 DEF SetWhole, MemoryIs, d
<1>10. /\ DOMAIN mem' = DOMAIN mem \ Allocations(Top)
       /\ mem'[Top.at] = Some(v)
       /\ \A a \in DOMAIN mem' : a # Top.at => mem'[a] = mem[a]
  <2> HIDE DEF v
  <2> QED
    BY <1>6, <1>7, <1>9
<1>11. ~IsLeaf(Top) => IsSeq(v)
  <2>1. IsSeq(<< >>)
    BY SeqIs, EmptySeq
  <2>2. \A x : IsSeq(<<x>>)
    <3>1. SUFFICES ASSUME NEW x PROVE IsSeq(<<x>>)
      OBVIOUS
    <3>2. <<x>> \in Seq({x})
      OBVIOUS
    <3> QED
      BY <3>2, SeqIs
  <2>3. \A x, kind, k : IsSeq(Unit(kind, x, k))
    BY <2>2 DEF Unit
  <2> QED
    BY <2>1, <2>3 DEF Whole
<1>12. Changed(stack, stack', Len(stack), f2)
  <2>1. stack' = [stack EXCEPT ![Len(stack)] = f2]
    BY DEF SetWhole, SetTop
  <2> HIDE DEF f2
  <2>2. Changed(stack, [stack EXCEPT ![Len(stack)] = f2], Len(stack), f2)
    BY <1>1, <1>5, ChangedIs
  <2> QED
    BY <2>1, <2>2
<1> HIDE DEF v, f2
<1>13. f2.at \in DOMAIN mem' /\ (f2.isInit <=> mem'[f2.at] # None) /\ ValueOK(f2, mem')
  <2>1. Some(v) # None /\ Some(v)[1] = v
    BY DEF Some, None
  <2> QED
    BY <1>4, <1>7, <1>10, <1>11, <2>1 DEF ValueOK, IsLeaf
<1>14. /\ DOMAIN mem' \subseteq DOMAIN mem /\ \A a \in DOMAIN mem' : ~IsPart(a, f2.at)
       /\ \A a \in DOMAIN mem : ~IsPart(a, f2.at) => a \in DOMAIN mem' /\ (a # f2.at => mem'[a] = mem[a])
  BY <1>4, <1>7, <1>10
<1>15. /\ f2.at = stack[Len(stack)].at /\ f2.state \in {"Idle", "KeyDone"}
       /\ \A q \in DOMAIN stored : ~IsPart(stored[q].at, stack[Len(stack)].at)
  BY <1>1, <1>2, <1>4
<1>16. /\ LiveOK(type, stack', stored, mem') /\ BuildingOK(stack', stored, mem')
       /\ \A k : DeferringOK(stack, stored, k) => DeferringOK(stack', stored, k)
  BY <1>1, <1>4, <1>5, <1>12, <1>13, <1>14, <1>15, TopChanged
<1>17. UNCHANGED <<type, mode, startDepth, stored, phase>>
  BY DEF SetWhole
<1> QED
  BY <1>0, <1>9, <1>16, <1>17, InMode, StillActive

LEMMA InitCollectionKeeps ==
    ASSUME CollectionsInv, InitCollection
    PROVE  CollectionsInv'
<1> DEFINE F == FramesOf(stack, stored)
           P == PlacesOf(F)
           f2 == [Top EXCEPT !.tracker = Collection(Top), !.isInit = TRUE]
<1>0. Active /\ ~IsLeaf(Top) /\ Top.tracker = "Scalar"
  BY DEF InitCollection
<1>1. /\ LiveOK(type, stack, stored, mem) /\ BuildingOK(stack, stored, mem)
      /\ stack # << >> /\ Placed(stack, stored) /\ Owned(F, mem)
      /\ Len(stack) \in 1..Len(stack) /\ stack \in Seq(FrameSet)
      /\ Top = stack[Len(stack)] /\ Top.at \in Steps /\ FrameOK(Top)
      /\ OwnOK(Top, P, mem) /\ Memory.at = mem /\ Memory.faults = {}
      /\ Sound(Top, P, StoredAt(stored), mem)
  BY <1>0, InMode, ActiveFacts
<1>2. \A a \in DOMAIN mem : ~IsPart(a, Top.at)
  BY <1>0, <1>1, NoElements DEF OwnOK
<1>3. \A q \in DOMAIN stored : ~IsPart(stored[q].at, stack[Len(stack)].at)
  <2>1. \A q \in DOMAIN stored : stored[q].at \in DOMAIN mem
    <3>1. \A q \in DOMAIN stored : stored[q] \in F
      BY <1>1, StackFacts
    <3> QED
      BY <1>1, <3>1 DEF Owned, OwnOK
  <2> QED
    BY <1>1, <1>2, <2>1
<1>4. Collection(Top) = CollectionOf(type, Top) /\ Collection(Top) \in {"List", "Map", "Set"}
  BY CollectionIs
<1>5. /\ FrameOK(f2) /\ f2.at = Top.at /\ f2.tracker = CollectionOf(type, Top) /\ f2.isInit = TRUE
      /\ f2.state = "Idle" /\ f2.rope = None /\ f2.pending = << >>
  <2> DEFINE k == Collection(Top)
             f == Top
  <2>1. k \in {"List", "Map", "Set"} /\ FrameOK(f) /\ ~IsLeaf(f) /\ f.tracker = "Scalar"
    BY <1>0, <1>1, <1>4
  <2> HIDE DEF k, f
  <2>2. LET g == [f EXCEPT !.tracker = k, !.isInit = TRUE] IN
           /\ FrameOK(g)
           /\ g.at = f.at /\ g.tracker = k /\ g.isInit = TRUE
           /\ g.state = "Idle" /\ g.cur = None /\ g.rope = None /\ g.pending = << >>
    BY <2>1, InitIs
  <2> QED
    BY <1>4, <2>2 DEF k, f
<1>12. Changed(stack, stack', Len(stack), f2)
  <2>1. stack' = [stack EXCEPT ![Len(stack)] = f2]
    BY DEF InitCollection, SetTop
  <2> HIDE DEF f2
  <2>2. f2 \in FrameSet
    BY <1>5 DEF FrameOK
  <2>3. Changed(stack, [stack EXCEPT ![Len(stack)] = f2], Len(stack), f2)
    BY <1>1, <2>2, ChangedIs
  <2> QED
    BY <2>1, <2>3
<1> HIDE DEF f2
<1>6. f2 \in FrameSet /\ ~Waits(f2) /\ Tracked(type, f2)
  BY <1>5 DEF FrameOK, Waits, Tracked, CollectionOf
<1>7. Top.at \in DOMAIN mem /\ (Top.isInit <=> mem[Top.at] # None)
  BY <1>1 DEF OwnOK
<1>8. /\ faults' = {} /\ DOMAIN mem' = DOMAIN mem
      /\ mem'[Top.at] = IF Top.isInit THEN mem[Top.at] ELSE Some(<< >>)
      /\ \A a \in DOMAIN mem : a # Top.at => mem'[a] = mem[a]
  <2>1. CASE Top.isInit
    <3>1. mem' = mem /\ faults' = {}
      BY <1>1, <2>1 DEF InitCollection, MemoryIs
    <3> QED
      BY <2>1, <3>1
  <2>2. CASE ~Top.isInit
    <3>1. Put(Memory, Top.at, << >>).at = [mem EXCEPT ![Top.at] = Some(<< >>)]
          /\ Put(Memory, Top.at, << >>).faults = {}
      BY <1>1, <1>7, <2>2, PutIs
    <3>2. mem' = [mem EXCEPT ![Top.at] = Some(<< >>)] /\ faults' = {}
      BY <2>2, <3>1 DEF InitCollection, MemoryIs
    <3> QED
      BY <1>7, <2>2, <3>2
  <2> QED
    BY <2>1, <2>2
<1>13. f2.at \in DOMAIN mem' /\ (f2.isInit <=> mem'[f2.at] # None) /\ ValueOK(f2, mem')
  <2>1. Some(<< >>) # None /\ Some(<< >>)[1] = << >> /\ IsSeq(<< >>)
    BY SeqIs, EmptySeq DEF Some, None
  <2>2. Top.isInit => IsSeq(mem[Top.at][1])
    BY <1>0, <1>1 DEF Sound, ValueOK
  <2>3. IsSeq(mem'[Top.at][1])
    BY <1>8, <2>1, <2>2
  <2> QED
    BY <1>5, <1>7, <1>8, <2>1, <2>3 DEF ValueOK
<1>14. /\ DOMAIN mem' \subseteq DOMAIN mem /\ \A a \in DOMAIN mem' : ~IsPart(a, f2.at)
       /\ \A a \in DOMAIN mem : ~IsPart(a, f2.at) => a \in DOMAIN mem' /\ (a # f2.at => mem'[a] = mem[a])
  BY <1>2, <1>5, <1>8
<1>15. f2.at = stack[Len(stack)].at /\ f2.state \in {"Idle", "KeyDone"}
  BY <1>1, <1>5
<1>16. /\ LiveOK(type, stack', stored, mem') /\ BuildingOK(stack', stored, mem')
       /\ \A k : DeferringOK(stack, stored, k) => DeferringOK(stack', stored, k)
  BY <1>1, <1>3, <1>5, <1>6, <1>12, <1>13, <1>14, <1>15, TopChanged
<1>17. UNCHANGED <<type, mode, startDepth, stored, phase>>
  BY DEF InitCollection
<1> QED
  BY <1>0, <1>8, <1>16, <1>17, InMode, StillActive

LEMMA WalkTopKeeps ==
    ASSUME CollectionsInv, WalkTop
    PROVE  CollectionsInv'
<1> DEFINE F == FramesOf(stack, stored)
           P == PlacesOf(F)
           f2 == Finished(Top)
           M2 == Finish(Memory, Top).at
<1>0. phase = "Walking" /\ DOMAIN stored = {} /\ Complete(Top) /\ Building
  BY DEF WalkTop, Building
<1>1. /\ LiveOK(type, stack, stored, mem) /\ BuildingOK(stack, stored, mem)
      /\ stack # << >> /\ Placed(stack, stored) /\ Owned(F, mem)
      /\ Len(stack) \in 1..Len(stack) /\ stack \in Seq(FrameSet)
      /\ Top = stack[Len(stack)] /\ Top.at \in Steps /\ FrameOK(Top) /\ Top \in F
      /\ OwnOK(Top, P, mem) /\ Memory.at = mem /\ Memory.faults = {}
      /\ Sound(Top, P, StoredAt(stored), mem)
  BY <1>0, ActiveFacts
<1>2. \A q \in DOMAIN stored : ~IsPart(stored[q].at, stack[Len(stack)].at)
  BY <1>0
<1>3. Bare(Top, P)
  BY <1>1, <1>2, TopIsBare
<1>4. Top.isInit /\ Top.state = "Idle"
  BY <1>0 DEF Complete
<1>5. \A i \in 1..Len(Top.pending) : Top.pending[i].value # None
  <2>1. CASE Top.tracker = "Map"
    <3>1. PICK n \in Nat : MapIs(Top, StoredAt(stored), n)
      BY <1>1, <2>1 DEF Sound, MapOK
    <3>2. \A a \in StoredAt(stored) : ~IsPart(a, Top.at)
      BY <1>0 DEF StoredAt
    <3>3. ~Waits(Top)
      BY <1>4 DEF Waits
    <3> QED
      BY <1>1, <3>1, <3>2, <3>3, AllGiven
  <2>2. CASE Top.tracker # "Map"
    BY <1>1, <2>2, FrameFacts
  <2> QED
    BY <2>1, <2>2
<1>6. Became(mem, M2, Allocations(Top), Top.at) /\ Finish(Memory, Top).faults = {}
  <2> DEFINE m == Memory
             f == Top
  <2>1. /\ m.at = mem /\ m.faults = {} /\ OwnOK(f, P, m.at) /\ Bare(f, P) /\ f.isInit
        /\ \A i \in 1..Len(f.pending) : f.pending[i].value # None
    BY <1>1, <1>3, <1>4, <1>5
  <2> HIDE DEF m, f, P
  <2>2. Became(m.at, Finish(m, f).at, Allocations(f), f.at) /\ Finish(m, f).faults = {}
    BY <2>1, FinishIs
  <2> QED
    BY <2>1, <2>2 DEF m, f
<1>7. mem' = M2 /\ faults' = {}
  BY <1>6 DEF WalkTop, MemoryIs
<1> HIDE DEF M2
<1>8. /\ \A a \in Allocations(Top) : IsPart(a, Top.at)
      /\ \A a \in DOMAIN mem : IsPart(a, Top.at) => a \in Allocations(Top)
  BY <1>1, <1>3, BareFacts
<1>9. /\ FrameOK(f2) /\ f2.at = Top.at /\ f2.tracker = Top.tracker /\ f2.isInit
      /\ f2.state = "Idle" /\ f2.rope = None /\ f2.pending = << >>
  BY <1>1, <1>4, FinishedIs
<1>10. Changed(stack, stack', Len(stack), f2)
  <2>1. stack' = [stack EXCEPT ![Len(stack)] = f2]
    BY DEF WalkTop, SetTop
  <2> HIDE DEF f2
  <2>2. f2 \in FrameSet
    BY <1>9 DEF FrameOK
  <2>3. Changed(stack, [stack EXCEPT ![Len(stack)] = f2], Len(stack), f2)
    BY <1>1, <2>2, ChangedIs
  <2> QED
    BY <2>1, <2>3
<1> HIDE DEF f2
<1>11. f2 \in FrameSet /\ ~Waits(f2) /\ Tracked(type, f2)
  <2>1. Tracked(type, Top)
    BY <1>1 DEF LiveOK
  <2> QED
    BY <1>9, <2>1 DEF FrameOK, Waits, Tracked, CollectionOf
<1>12. f2.at \in DOMAIN mem' /\ (f2.isInit <=> mem'[f2.at] # None) /\ ValueOK(f2, mem')
  BY <1>1, <1>4, <1>6, <1>7, <1>9 DEF Became, ValueOK, Sound, IsLeaf
<1>13. /\ DOMAIN mem' \subseteq DOMAIN mem /\ \A a \in DOMAIN mem' : ~IsPart(a, f2.at)
       /\ \A a \in DOMAIN mem : ~IsPart(a, f2.at) => a \in DOMAIN mem' /\ (a # f2.at => mem'[a] = mem[a])
  BY <1>6, <1>7, <1>8, <1>9 DEF Became
<1>14. f2.at = stack[Len(stack)].at /\ f2.state \in {"Idle", "KeyDone"}
  BY <1>1, <1>9
<1>15. LiveOK(type, stack', stored, mem') /\ BuildingOK(stack', stored, mem')
  BY <1>1, <1>2, <1>9, <1>10, <1>11, <1>12, <1>13, <1>14, TopChanged
<1>16. UNCHANGED <<type, mode, startDepth, stored>> /\ phase' = "Active"
  BY DEF WalkTop
<1>17. type \in Types /\ mode = "Strict" /\ startDepth = 0
  BY <1>0 DEF CollectionsInv
<1> QED
  BY <1>0, <1>7, <1>15, <1>16, <1>17 DEF CollectionsInv, Live, Building, Deferring, Active

Pushed(s, s2, f2, n) == \E r : Changed(s, r, Len(s), f2) /\ Appended(r, s2, n)

LEMMA StackBegun ==
    ASSUME NEW s, NEW st, Placed(s, st), s # << >>,
           NEW f2 \in FrameSet, f2.at = s[Len(s)].at,
           NEW n \in FrameSet, n.at # Root, IsPart(n.at, f2.at), n.at \notin StoredAt(st),
           NEW s2, Pushed(s, s2, f2, n)
    PROVE  /\ Placed(s2, st)
           /\ Len(s2) = Len(s) + 1 /\ s2 # << >> /\ s2[Len(s) + 1] = n /\ s2[Len(s)] = f2
           /\ \A j \in 1..Len(s) - 1 : s2[j] = s[j]
           /\ FramesOf(s2, st) = (FramesOf(s, st) \ {s[Len(s)]}) \cup {f2, n}
<1> SUFFICES ASSUME NEW r, Changed(s, r, Len(s), f2), Appended(r, s2, n)
             PROVE  /\ Placed(s2, st)
                    /\ Len(s2) = Len(s) + 1 /\ s2 # << >> /\ s2[Len(s) + 1] = n /\ s2[Len(s)] = f2
                    /\ \A j \in 1..Len(s) - 1 : s2[j] = s[j]
                    /\ FramesOf(s2, st) = (FramesOf(s, st) \ {s[Len(s)]}) \cup {f2, n}
  BY DEF Pushed
<1> DEFINE k == Len(s)
<1>1. k \in Nat \ {0} /\ k \in 1..Len(s) /\ f2.at = s[k].at /\ Changed(s, r, k, f2) /\ Len(s) = k
  BY StackFacts
<1> HIDE DEF k
<1>2. /\ Placed(r, st) /\ Len(r) = Len(s) /\ r # << >>
      /\ \A j \in 1..Len(s) : r[j] = IF j = k THEN f2 ELSE s[j]
      /\ FramesOf(r, st) = (FramesOf(s, st) \ {s[k]}) \cup {f2}
  BY <1>1, StackReplaced
<1>3. Len(r) = k /\ r[k] = f2 /\ IsPart(n.at, r[Len(r)].at) /\ \A j \in 1..k - 1 : r[j] = s[j]
  BY <1>1, <1>2
<1>4. /\ Placed(s2, st)
      /\ Len(s2) = Len(r) + 1 /\ s2 # << >> /\ s2[Len(r) + 1] = n
      /\ \A j \in 1..Len(r) : s2[j] = r[j]
      /\ FramesOf(s2, st) = FramesOf(r, st) \cup {n}
  BY <1>2, <1>3, StackPushed
<1>5. FramesOf(s2, st) = (FramesOf(s, st) \ {s[k]}) \cup {f2, n}
  BY <1>2, <1>4
<1>6. Len(s2) = k + 1 /\ s2[k + 1] = n /\ s2[k] = f2 /\ \A j \in 1..k - 1 : s2[j] = s[j]
  BY <1>1, <1>3, <1>4
<1> QED
  BY <1>1, <1>4, <1>5, <1>6

\* An element of the frame on top is begun: that becomes f2, and a new frame
\* lies above.
LEMMA ElementBegun ==
    ASSUME NEW t, NEW s, NEW st, NEW m, LiveOK(t, s, st, m), BuildingOK(s, st, m),
           NEW x \in StepSet, NEW b, b \notin DOMAIN m, NEW f2, Begins(s[Len(s)], x, b, f2),
           NEW s2, Pushed(s, s2, f2, NewFrame(b)), NEW m2, Grown(m, m2, b)
    PROVE  /\ LiveOK(t, s2, st, m2) /\ BuildingOK(s2, st, m2) /\ Len(s2) = Len(s) + 1
           /\ \A d : /\ DeferringOK(s, st, d)
                     /\ f2.tracker # "Set" => f2.cur = Some(StepOpen(f2))
                     /\ Len(s) = 1 => f2.tracker # "Set"
                     /\ Tied(f2, StoredAt(st))
                     => DeferringOK(s2, st, d)
<1> DEFINE F == FramesOf(s, st)
           F2 == FramesOf(s2, st)
           P == PlacesOf(F)
           S == StoredAt(st)
           f == s[Len(s)]
           n == NewFrame(b)
<1>0. /\ f.tracker # "Scalar" /\ b = Append(f.at, x)
      /\ FrameOK(f2) /\ f2.at = f.at /\ f2.isInit = f.isInit /\ f2.tracker = f.tracker
      /\ f2.pending = f.pending
      /\ f2.state \in {"Item", "Key", "Value"} /\ Waits(f2) = Waits(f) /\ StepOpen(f2) = x
      /\ FinishedParts(f2) = FinishedParts(f) /\ Allocations(f) \subseteq Allocations(f2)
      /\ Slots(f2, RopeLen(f2)) \subseteq Slots(f, RopeLen(f)) \cup {b}
      /\ Slots(f2, Marked(f2)) = Slots(f, Marked(f))
      /\ \A k \in StepSet : Kid(f, k) => Kid(f2, k)
      /\ Kid(f2, x)
  BY DEF Begins
<1>1. /\ s # << >> /\ Placed(s, st) /\ Owned(F, m) /\ Len(s) \in Nat \ {0} /\ Len(s) \in 1..Len(s)
      /\ f \in F /\ \A g \in F : FrameOK(g) /\ Tracked(t, g) /\ g \in FrameSet /\ g.at \in Steps
  BY LiveFacts
<1>2. f2 \in FrameSet /\ Len(f.at) <= 1
  <2>1. ~IsLeaf(f) /\ Len(f.at) \in 0..2
    BY <1>0, <1>1, FrameFacts DEF FrameOK
  <2>2. Len(f.at) # 2
    BY <2>1 DEF IsLeaf
  <2>3. \A k \in 0..2 : k # 2 => k <= 1
    OBVIOUS
  <2>4. f2 \in FrameSet
    BY <1>0 DEF FrameOK
  <2> HIDE DEF f
  <2> QED
    BY <2>1, <2>2, <2>3, <2>4
<1>3. /\ b \in Steps /\ b # Root /\ IsPart(b, f.at) /\ Len(b) <= 2 /\ Last(b) = x
  <2>1. f.at \in Steps
    BY <1>1
  <2>2. /\ b \in Steps /\ b # Root /\ Front(b) = f.at /\ Len(f.at) \in Nat /\ Len(b) = Len(f.at) + 1
        /\ Last(b) = x
    BY <1>0, <2>1, Child
  <2> QED
    BY <1>2, <2>2 DEF IsPart
<1>4. /\ FrameOK(n) /\ n.at = b /\ n.tracker = "Scalar" /\ n.isInit = FALSE
      /\ n.state = "Idle" /\ n.cur = None /\ n.rope = None /\ n.pending = << >>
  BY <1>3, NewFrameIs
<1>5. n \in FrameSet
  BY <1>4 DEF FrameOK
<1> HIDE DEF n
<1>6. \A g \in F : g.at \in DOMAIN m /\ g.at \in P /\ g.at # b
  BY <1>1 DEF Owned, OwnOK, PlacesOf
<1>7. b \notin S /\ S \subseteq P
  <2>1. \A p \in DOMAIN st : st[p] \in F
    BY <1>1, StackFacts
  <2> QED
    BY <1>6, <2>1 DEF StoredAt
<1>8. Pushed(s, s2, f2, n) /\ f2.at = s[Len(s)].at /\ IsPart(n.at, f2.at) /\ n.at # Root /\ n.at \notin StoredAt(st)
  BY <1>0, <1>3, <1>4, <1>7 DEF n
<1>9. /\ Placed(s2, st)
      /\ Len(s2) = Len(s) + 1 /\ s2 # << >> /\ s2[Len(s) + 1] = n /\ s2[Len(s)] = f2
      /\ \A j \in 1..Len(s) - 1 : s2[j] = s[j]
      /\ FramesOf(s2, st) = (FramesOf(s, st) \ {s[Len(s)]}) \cup {f2, n}
  BY <1>1, <1>2, <1>5, <1>8, StackBegun
<1> DEFINE l == Len(s)
<1>10. l \in Nat \ {0} /\ Len(s) = l /\ Len(s2) = l + 1
  BY <1>1, <1>9
<1> HIDE DEF F2, l
<1>11. F2 = (F \ {f}) \cup {f2, n}
  BY <1>9 DEF F2
<1>12. Owned(F2, m2) /\ PlacesOf(F2) = P \cup {b}
  <2> DEFINE F3 == (F \ {f}) \cup {f2, NewFrame(b)}
  <2>2. F3 = F2
    BY <1>11 DEF n
  <2>4. f \in F /\ Owned(F, m) /\ Begins(f, x, b, f2)
    BY <1>1
  <2> HIDE DEF f, F
  <2>3. Owned(F3, m2) /\ PlacesOf(F3) = PlacesOf(F) \cup {b}
    BY <2>4, Added
  <2> QED
    BY <2>2, <2>3
<1>13. \A g \in F2 : Tracked(t, g)
  <2>1. Tracked(t, f) /\ Tracked(t, n)
    BY <1>1, <1>4 DEF Tracked
  <2>2. Tracked(t, f2)
    BY <1>0, <2>1 DEF Tracked, CollectionOf
  <2> QED
    BY <1>1, <1>11, <2>1, <2>2
<1>14. LiveOK(t, s2, st, m2)
  BY <1>9, <1>12, <1>13 DEF LiveOK, F2
<1>15. Len(s2) = l + 1 /\ s2[l + 1] = n /\ s2[l] = f2 /\ \A j \in 1..l - 1 : s2[j] = s[j]
  BY <1>9 DEF l
<1>16. Opened(s2)
  <2>1. s2[Len(s2)].state = "Idle"
    BY <1>4, <1>15
  <2>2. \A i \in 1..Len(s2) - 1 : i = l \/ (i \in 1..l - 1 /\ (i + 1 = l \/ i + 1 \in 1..l - 1))
    BY <1>10
  <2>3. \A i \in 1..l - 1 :
            s[i].state \in {"Item", "Key", "Value"} /\ s[i + 1].at = Append(s[i].at, StepOpen(s[i]))
    BY <1>10 DEF BuildingOK, Opened
  <2>4. ASSUME NEW i \in 1..Len(s2) - 1
        PROVE  s2[i].state \in {"Item", "Key", "Value"} /\ s2[i + 1].at = Append(s2[i].at, StepOpen(s2[i]))
    <3>1. CASE i = l
      BY <1>0, <1>4, <1>15, <3>1
    <3>2. CASE i \in 1..l - 1
      <4>1. s2[i] = s[i] /\ s2[i + 1].at = s[i + 1].at
        <5>1. s2[i] = s[i]
          BY <1>15, <3>2
        <5>2. CASE i + 1 = l
          <6>1. s2[i + 1] = f2 /\ s[i + 1] = f
            BY <1>15, <5>2 DEF l
          <6> QED
            BY <1>0, <5>1, <6>1
        <5>3. CASE i + 1 # l
          <6>1. i + 1 \in 1..l - 1
            BY <2>2, <1>10, <3>2, <5>3
          <6> QED
            BY <1>15, <5>1, <6>1
        <5> QED
          BY <5>2, <5>3
      <4> QED
        BY <2>3, <3>2, <4>1
    <3> QED
      BY <2>2, <3>1, <3>2
  <2> QED
    BY <2>1, <2>4 DEF Opened
<1>17. m2[b] = None /\ \A a \in DOMAIN m : a # b /\ m2[a] = m[a]
  BY DEF Grown
<1>18. ASSUME NEW g \in F2 PROVE Sound(g, P \cup {b}, S, m2)
  <2>1. CASE g = n
    <3>1. RopeLen(g) = 0
      BY <1>4, <2>1 DEF RopeLen
    <3>2. ListOK(g, P \cup {b})
      BY <3>1, SlotsAre DEF ListOK
    <3>3. MapOK(g, S)
      BY <1>4, <2>1 DEF MapOK
    <3>4. ValueOK(g, m2)
      BY <1>4, <2>1 DEF ValueOK
    <3> QED
      BY <3>2, <3>3, <3>4 DEF Sound
  <2>2. CASE g = f2
    <3>1. Sound(f, P, S, m)
      BY <1>1 DEF BuildingOK
    <3>2. ListOK(g, P \cup {b})
      BY <1>0, <2>2, <3>1 DEF Sound, ListOK
    <3>3. MapOK(g, S)
      <4>1. /\ f.at \in Steps /\ f2.at = f.at /\ f2.pending = f.pending /\ Waits(f2) = Waits(f)
            /\ f2.tracker = f.tracker
        BY <1>0, <1>1
      <4> HIDE DEF f, S, P
      <4>2. \A k : MapIs(f, S, k) => MapIs(f2, S, k)
        BY <4>1, MapSame
      <4> QED
        BY <2>2, <3>1, <4>1, <4>2 DEF Sound, MapOK
    <3>4. ValueOK(g, m2)
      <4>1. m2[f2.at] = m[f2.at]
        BY <1>0, <1>1, <1>6, <1>17
      <4> QED
        BY <1>0, <2>2, <3>1, <4>1 DEF Sound, ValueOK, IsLeaf
    <3> QED
      BY <3>2, <3>3, <3>4 DEF Sound
  <2>3. CASE g # n /\ g # f2
    <3>1. g \in F
      BY <1>11, <2>3
    <3>2. m2[g.at] = m[g.at] /\ FrameOK(g)
      BY <1>1, <1>6, <1>17, <3>1
    <3>3. Sound(g, P, S, m)
      BY <3>1 DEF BuildingOK
    <3> HIDE DEF P, S, F
    <3> QED
      BY <3>2, <3>3, SoundKept
  <2> QED
    BY <2>1, <2>2, <2>3
<1>19. Behind(s, st) => Behind(s2, st)
  <2>1. l >= 2 => s2[1] = s[1] /\ s2[2].at = s[2].at /\ Len(s2) >= 2
    <3>1. l >= 2 => 1 \in 1..l - 1 /\ (2 = l \/ 2 \in 1..l - 1) /\ l + 1 >= 2
      BY <1>10
    <3>2. CASE 2 = l
      <4>1. s2[2] = f2 /\ s[2] = f
        BY <1>15, <3>2 DEF l
      <4>2. s[2].at = f2.at
        BY <1>0, <4>1
      <4> QED
        BY <1>15, <3>1, <3>2, <4>1, <4>2
    <3>3. CASE 2 # l
      BY <1>15, <3>1, <3>3
    <3> QED
      BY <3>2, <3>3
  <2> QED
    BY <1>10, <2>1 DEF Behind
<1>20. BuildingOK(s2, st, m2)
  BY <1>12, <1>16, <1>18, <1>19 DEF BuildingOK, F2
<1>21. ASSUME NEW d, DeferringOK(s, st, d), f2.tracker # "Set" => f2.cur = Some(StepOpen(f2)),
              Len(s) = 1 => f2.tracker # "Set", Tied(f2, S)
       PROVE  DeferringOK(s2, st, d)
  <2>1. d \in 1..l /\ IF d = 1 THEN AsTheyLie(st) ELSE Behind(s, st)
    BY <1>10, <1>21 DEF DeferringOK
  <2>2. d \in 1..Len(s2)
    BY <1>10, <2>1
  <2>3. s2[1].tracker # "Set"
    <3>1. CASE l = 1
      BY <1>10, <1>15, <1>21, <3>1
    <3>2. CASE l > 1
      <4>1. 1 \in 1..l - 1
        BY <1>10, <3>2
      <4>2. s[1].tracker # "Set"
        BY <1>10, <1>21, <3>2 DEF DeferringOK
      <4> QED
        BY <1>15, <4>1, <4>2
    <3> QED
      BY <1>10, <3>1, <3>2
  <2>4. \A i \in d..Len(s2) - 1 : i = l \/ (i \in d..l - 1 /\ i \in 1..l - 1)
    BY <1>10, <2>1
  <2>5. ASSUME NEW i \in d..Len(s2) - 1
        PROVE  /\ s2[i].tracker # "Set" => s2[i].cur = Some(StepOpen(s2[i]))
               /\ Tied(s2[i], S)
    <3>1. CASE i = l
      BY <1>15, <1>21, <3>1
    <3>2. CASE i # l
      <4>1. i \in d..l - 1 /\ s2[i] = s[i]
        BY <1>15, <2>4, <3>2
      <4> QED
        BY <1>10, <1>21, <4>1 DEF DeferringOK
    <3> QED
      BY <3>1, <3>2
  <2> QED
    BY <1>19, <2>1, <2>2, <2>3, <2>5 DEF DeferringOK
<1> QED
  BY <1>9, <1>14, <1>20, <1>21

LEMMA ItemBegins ==
    ASSUME NEW f, FrameOK(f), f.tracker = "List", f.state = "Idle", NEW k \in Nat
    PROVE  LET x == <<"item", RopeLen(f)>>
               g == [PushUninit(f) EXCEPT !.state = "Item", !.cur = Some(<<"item", k>>)] IN
           /\ Begins(f, x, Append(f.at, x), g)
           /\ x \in StepSet /\ ~Kid(f, x)
           /\ g.tracker = "List" /\ (k = RopeLen(f) => g.cur = Some(StepOpen(g)))
<1> DEFINE x == <<"item", RopeLen(f)>>
           g == [PushUninit(f) EXCEPT !.state = "Item", !.cur = Some(<<"item", k>>)]
<1>1. /\ FrameOK(g)
      /\ g.at = f.at /\ g.isInit = f.isInit /\ g.tracker = f.tracker
      /\ g.state = "Item" /\ g.cur = Some(<<"item", k>>) /\ g.pending = f.pending
      /\ RopeLen(g) = RopeLen(f) + 1 /\ Marked(g) = Marked(f)
      /\ FinishedParts(g) = FinishedParts(f) /\ Allocations(f) \subseteq Allocations(g)
      /\ Slots(g, RopeLen(g)) = Slots(f, RopeLen(f)) \cup {Part(f, "item", RopeLen(f))}
      /\ Slots(g, Marked(g)) = Slots(f, Marked(f))
      /\ \A t \in StepSet : Kid(f, t) => Kid(g, t)
  BY PushUninitIs
<1> HIDE DEF g
<1>2. RopeLen(f) \in Nat
  BY FrameFacts
<1>3. x \in StepSet /\ ~Kid(f, x) /\ Kid(g, x)
  BY <1>1, <1>2 DEF StepSet, Kid
<1>4. StepOpen(g) = x
  BY <1>1, <1>2 DEF StepOpen
<1>5. Waits(g) = Waits(f)
  BY <1>1 DEF Waits
<1>6. Append(f.at, x) = Part(f, "item", RopeLen(f))
  BY DEF Part
<1>7. Begins(f, x, Append(f.at, x), g)
  <2> HIDE DEF x
  <2> QED
    BY <1>1, <1>3, <1>4, <1>5, <1>6 DEF Begins
<1>8. k = RopeLen(f) => g.cur = Some(StepOpen(g))
  BY <1>1, <1>4
<1> QED
  BY <1>1, <1>3, <1>7, <1>8 DEF g

\* The half of entry k that can be begun, as a state and a kind of step.
Turn(f, st, k) ==
    \/ f.state = "Idle" /\ st = <<"Key", "key">> /\ (f.cur = None \/ k > f.cur[1][2])
    \/ f.state = "KeyDone" /\ st = <<"Value", "value">> /\ k = f.cur[1][2]

HalfStep(st, k) == <<st[2], k>>
HalfOpened(f, st, k) == [f EXCEPT !.state = st[1], !.cur = Some(HalfStep(st, k))]

LEMMA HalfBegins ==
    ASSUME NEW f, FrameOK(f), f.tracker = "Map", NEW st, NEW k \in Nat, Turn(f, st, k)
    PROVE  LET x == HalfStep(st, k)
               g == HalfOpened(f, st, k) IN
           /\ Begins(f, x, Append(f.at, x), g)
           /\ x \in StepSet /\ ~Kid(f, x)
           /\ g.tracker = "Map" /\ g.cur = Some(StepOpen(g)) /\ g.pending = f.pending
           /\ g.state = st[1] /\ g.cur[1] = x
<1> DEFINE x == HalfStep(st, k)
           g == HalfOpened(f, st, k)
<1>1. /\ FrameOK(g)
      /\ g.at = f.at /\ g.isInit = f.isInit /\ g.tracker = f.tracker
      /\ g.state = st[1] /\ g.cur = Some(x) /\ g.cur[1] = x /\ g.rope = f.rope /\ g.pending = f.pending
      /\ \A t \in StepSet : Kid(f, t) => Kid(g, t)
      /\ Kid(g, x) /\ ~Kid(f, x)
  BY HalfBegunIs DEF Turn, HalfStep, HalfOpened
<1>2. st[2] \in {"key", "value"} /\ g.state \in {"Key", "Value"} /\ Waits(g) = Waits(f)
  <2> HIDE DEF g
  <2>1. g.state = st[1]
    BY <1>1
  <2> QED
    BY <2>1 DEF Waits, Turn
<1>3. x \in StepSet
  BY <1>2 DEF StepSet, HalfStep
<1> HIDE DEF g, x
<1>4. /\ RopeLen(g) = RopeLen(f) /\ Marked(g) = Marked(f)
      /\ FinishedParts(g) = FinishedParts(f) /\ Allocations(g) = Allocations(f)
      /\ Slots(g, RopeLen(g)) = Slots(f, RopeLen(f))
      /\ Slots(g, Marked(g)) = Slots(f, Marked(f))
  BY <1>1, SameParts
<1>5. StepOpen(g) = x
  BY <1>1 DEF StepOpen
<1>6. Begins(f, x, Append(f.at, x), g)
  BY <1>1, <1>2, <1>4, <1>5 DEF Begins
<1> QED
  BY <1>1, <1>3, <1>5, <1>6 DEF g, x

LEMMA ElementBegins ==
    ASSUME NEW f, FrameOK(f), f.tracker = "Set", f.state = "Idle"
    PROVE  LET g == [f EXCEPT !.state = "Item"] IN
           /\ Begins(f, Element, Append(f.at, Element), g)
           /\ Element \in StepSet /\ ~Kid(f, Element)
           /\ g.tracker = "Set"
<1> DEFINE g == [f EXCEPT !.state = "Item"]
<1>0. f \in FrameSet
  BY DEF FrameOK
<1>1. /\ g \in FrameSet
      /\ g.at = f.at /\ g.isInit = f.isInit /\ g.tracker = f.tracker
      /\ g.state = "Item" /\ g.cur = f.cur /\ g.rope = f.rope /\ g.pending = f.pending
  BY <1>0 DEF FrameSet
<1> HIDE DEF g
<1>2. /\ RopeLen(g) = RopeLen(f) /\ Marked(g) = Marked(f)
      /\ FinishedParts(g) = FinishedParts(f) /\ Allocations(g) = Allocations(f)
      /\ Slots(g, RopeLen(g)) = Slots(f, RopeLen(f))
      /\ Slots(g, Marked(g)) = Slots(f, Marked(f))
  BY <1>1, SameParts
<1>3. StateOK(g)
  <2>1. f.cur = None
    BY DEF FrameOK, StateOK
  <2> QED
    BY <1>1, <2>1 DEF StateOK
<1>4. \A i \in 1..Len(g.pending) : EntryOK(g, g.pending[i])
  BY <1>1, SameEntries
<1>5. FrameOK(g)
  BY <1>1, <1>2, <1>3, <1>4 DEF FrameOK, IsLeaf
<1>6. Element \in StepSet /\ ~Kid(f, Element) /\ Kid(g, Element)
  BY <1>1 DEF Element, StepSet, Kid
<1>7. \A t \in StepSet : ~Kid(f, t)
  BY DEF Kid
<1>8. StepOpen(g) = Element /\ Waits(g) = Waits(f)
  BY <1>1 DEF StepOpen, Waits
<1>9. Begins(f, Element, Append(f.at, Element), g)
  BY <1>1, <1>2, <1>5, <1>6, <1>7, <1>8 DEF Begins
<1> QED
  BY <1>1, <1>6, <1>9 DEF g

\* The number of entries that were begun is the one paths have.
LEMMA BegunIs ==
    ASSUME Placed(stack, stored), NEW g, FrameOK(g), g.tracker = "Map", NEW n \in Nat,
           MapIs(g, StoredAt(stored), n)
    PROVE  Begun(g) = n
<1> DEFINE S == StoredAt(stored)
           Q == {q \in DOMAIN stored : Front(stored[q].at) = g.at /\ LastStep(q)[1] = "key"}
           K == {LastStep(p)[2] : p \in Q}
           l == Len(g.pending)
<1>1. g.at \in Steps /\ l \in Nat
  BY FrameFacts
<1>2. l <= n /\ \A k \in Nat : Part(g, "key", k) \in S <=> l <= k /\ k < n
  BY DEF MapIs
<1>3. ASSUME NEW q \in DOMAIN stored
      PROVE  /\ stored[q].at \in Steps /\ stored[q].at # Root
             /\ LastStep(q) = Last(stored[q].at) /\ Last(stored[q].at) \in StepSet
             /\ stored[q].at = Append(Front(stored[q].at), Last(stored[q].at))
  <2>0. stored[q].at \in Steps
    BY StackFacts
  <2>1. stored[q].at \in Steps /\ q \in Steps /\ q # Root /\ Len(q) = Len(stored[q].at)
        /\ Last(q) = Last(stored[q].at)
    BY <2>0 DEF Placed
  <2>2. stored[q].at # Root
    BY <2>1, Parent, RootIs
  <2>3. LastStep(q) = Last(q)
    BY <2>1, Parent
  <2> QED
    BY <2>1, <2>2, <2>3, Parent
<1>4. ASSUME NEW k \in Nat, Part(g, "key", k) \in S PROVE k \in K
  <2>1. PICK q \in DOMAIN stored : stored[q].at = Part(g, "key", k)
    BY <1>4 DEF StoredAt
  <2>2. Front(stored[q].at) = g.at /\ Last(stored[q].at) = <<"key", k>>
    BY <1>1, <2>1, PartFacts DEF IsPart
  <2>3. LastStep(q) = <<"key", k>>
    BY <1>3, <2>2
  <2> QED
    BY <2>2, <2>3
<1>5. ASSUME NEW k \in K PROVE k \in Nat /\ Part(g, "key", k) \in S
  <2>1. PICK q \in Q : k = LastStep(q)[2]
    OBVIOUS
  <2>2. q \in DOMAIN stored /\ Front(stored[q].at) = g.at /\ LastStep(q)[1] = "key"
    BY <2>1
  <2>3. LastStep(q) \in StepSet
    BY <1>3, <2>2
  <2>4. k \in Nat /\ LastStep(q) = <<"key", k>>
    BY <2>1, <2>2, <2>3 DEF StepSet
  <2>5. stored[q].at = Part(g, "key", k)
    BY <1>3, <2>2, <2>4 DEF Part
  <2> QED
    BY <2>2, <2>4, <2>5 DEF StoredAt
<1> HIDE DEF K, Q, S, l
<1>6. K = l..n - 1
  <2>1. \A k \in K : k \in Nat /\ l <= k /\ k < n
    BY <1>2, <1>5
  <2>2. \A k \in Nat : l <= k /\ k < n => k \in K
    BY <1>2, <1>4
  <2>3. \A k : k \in l..n - 1 <=> k \in Nat /\ l <= k /\ k < n
    BY <1>1
  <2> QED
    BY <2>1, <2>2, <2>3
<1>7. Cardinality(l..n - 1) = IF l > n - 1 THEN 0 ELSE n - 1 - l + 1
  <2>1. l \in Int /\ n - 1 \in Int
    BY <1>1
  <2> QED
    BY <2>1, FS_Interval
<1>8. l + Cardinality(K) = n
  BY <1>1, <1>2, <1>6, <1>7
<1> QED
  BY <1>8 DEF Begun, K, Q, l

\* The paths of a map whose entry is begun with the number it has.
LEMMA TiedIs ==
    ASSUME Placed(stack, stored), NEW g, FrameOK(g), g.tracker = "Map",
           NEW g2, g2.at = g.at, g2.pending = g.pending, Waits(g2) = Waits(g),
           g2.state = "Key" => g2.cur[1][2] = Begun(g),
           g2.state = "Value" => g2.cur[1][2] = Begun(g) - 1
    PROVE  Tied(g2, StoredAt(stored))
<1> DEFINE S == StoredAt(stored)
<1> SUFFICES ASSUME NEW n \in Nat, MapIs(g2, S, n)
             PROVE  /\ g2.state = "Key" => g2.cur[1][2] = n
                    /\ g2.state = "Value" => g2.cur[1][2] = n - 1
  BY DEF Tied
<1>1. g.at \in Steps
  BY FrameFacts
<1>2. MapIs(g, S, n)
  <2> HIDE DEF S
  <2> QED
    BY <1>1, MapSame
<1>3. Begun(g) = n
  BY <1>2, BegunIs
<1> QED
  BY <1>3

LEMMA PushedIs ==
    ASSUME NEW s \in Seq(FrameSet), Len(s) \in 1..Len(s), NEW f2 \in FrameSet, NEW n
    PROVE  Pushed(s, Append([s EXCEPT ![Len(s)] = f2], n), f2, n)
<1> DEFINE r == [s EXCEPT ![Len(s)] = f2]
<1>1. Changed(s, r, Len(s), f2)
  BY ChangedIs
<1> HIDE DEF r
<1>2. Appended(r, Append(r, n), n)
  BY DEF Appended
<1>3. Pushed(s, Append(r, n), f2, n)
  BY <1>1, <1>2 DEF Pushed
<1> QED
  BY <1>3 DEF r

\* An element of the frame on top is begun, and the caller goes on.
LEMMA BegunKeeps ==
    ASSUME CollectionsInv, Active, NEW x \in StepSet, ~Kid(Top, x),
           NEW b, NEW f2, Begins(Top, x, b, f2),
           Pushed(stack, stack', f2, NewFrame(b)), Grown(mem, mem', b),
           UNCHANGED <<type, mode, startDepth, stored, phase, faults>>,
           mode = "Deferred" =>
              /\ f2.tracker # "Set" => f2.cur = Some(StepOpen(f2))
              /\ Len(stack) = 1 => f2.tracker # "Set"
              /\ Tied(f2, StoredAt(stored))
    PROVE  CollectionsInv'
<1> DEFINE P == PlacesOf(FramesOf(stack, stored))
<1>1. /\ LiveOK(type, stack, stored, mem) /\ BuildingOK(stack, stored, mem)
      /\ Top = stack[Len(stack)] /\ Top.at \in Steps /\ OwnOK(Top, P, mem)
  BY InMode, ActiveFacts
<1>2. b \notin DOMAIN mem
  <2>1. b = Append(Top.at, x)
    BY DEF Begins
  <2>2. IsPart(b, Top.at) /\ Last(b) = x
    BY <1>1, <2>1, Child DEF IsPart
  <2> QED
    BY <1>1, <2>2 DEF OwnOK
<1> DEFINE s == stack
           s2 == stack'
           m2 == mem'
           t == type
<1>3. /\ LiveOK(t, s, stored, mem) /\ BuildingOK(s, stored, mem) /\ Begins(s[Len(s)], x, b, f2)
      /\ Pushed(s, s2, f2, NewFrame(b)) /\ Grown(mem, m2, b)
  BY <1>1
<1> HIDE DEF s, s2, m2, t
<1>4. /\ LiveOK(t, s2, stored, m2) /\ BuildingOK(s2, stored, m2)
      /\ \A d : /\ DeferringOK(s, stored, d)
                /\ f2.tracker # "Set" => f2.cur = Some(StepOpen(f2))
                /\ Len(s) = 1 => f2.tracker # "Set"
                /\ Tied(f2, StoredAt(stored))
                => DeferringOK(s2, stored, d)
  BY <1>2, <1>3, ElementBegun
<1>5. mode = "Deferred" => DeferringOK(stack', stored, startDepth)
  BY <1>4, InMode DEF s, s2
<1>6. faults' = {}
  BY DEF CollectionsInv
<1>7. LiveOK(type, stack', stored', mem') /\ BuildingOK(stack', stored', mem')
  BY <1>4 DEF t, s2, m2
<1>8. mode = "Strict" => DOMAIN stored' = {}
  BY InMode
<1>9. mode = "Deferred" => DeferringOK(stack', stored', startDepth)
  BY <1>5
<1> QED
  BY <1>6, <1>7, <1>8, <1>9, StillActive

LEMMA BeginItemKeeps ==
    ASSUME CollectionsInv, BeginItem, Usage = {}
    PROVE  CollectionsInv'
<1> DEFINE k == NextNumber(Top)
           x == <<"item", RopeLen(Top)>>
           b == Append(Top.at, x)
           f2 == [PushUninit(Top) EXCEPT !.state = "Item", !.cur = Some(<<"item", k>>)]
           T == Top
<1>0. /\ Active /\ T.tracker = "List" /\ T.state = "Idle" /\ MayBegin(k)
      /\ UNCHANGED <<type, mode, startDepth, stored, phase, faults>>
  BY DEF BeginItem
<1>1. /\ stack \in Seq(FrameSet) /\ Len(stack) \in 1..Len(stack) /\ FrameOK(T) /\ T = Top
      /\ Sound(Top, PlacesOf(FramesOf(stack, stored)), StoredAt(stored), mem)
  BY <1>0, InMode, ActiveFacts
<1>2. Grown(mem, mem', b) /\ stack' = Append([stack EXCEPT ![Len(stack)] = f2], NewFrame(b))
  BY DEF BeginItem, Grown, SetTop
<1>3. k \in Nat
  <2>1. RopeLen(Top) \in Nat
    BY <1>1, FrameFacts
  <2>2. ~IsLeaf(Top) /\ Top.isInit
    BY <1>0, <1>1 DEF FrameOK
  <2>3. IsSeq(mem[Top.at][1])
    BY <1>1, <2>2 DEF Sound, ValueOK
  <2>4. Len(mem[Top.at][1]) \in Nat
    <3> DEFINE v == mem[Top.at][1]
    <3>1. IsSeq(v)
      BY <2>3
    <3> HIDE DEF v
    <3>2. Len(v) \in Nat
      BY <3>1 DEF IsSeq
    <3> QED
      BY <3>2 DEF v
  <2> QED
    BY <1>0, <2>1, <2>4 DEF NextNumber
<1> HIDE DEF k
<1>4. /\ Begins(T, x, b, f2) /\ x \in StepSet /\ ~Kid(T, x)
      /\ f2.tracker = "List" /\ (k = RopeLen(T) => f2.cur = Some(StepOpen(f2)))
  <2> HIDE DEF T
  <2>1. LET y == <<"item", RopeLen(T)>>
            g == [PushUninit(T) EXCEPT !.state = "Item", !.cur = Some(<<"item", k>>)] IN
        /\ Begins(T, y, Append(T.at, y), g)
        /\ y \in StepSet /\ ~Kid(T, y)
        /\ g.tracker = "List" /\ (k = RopeLen(T) => g.cur = Some(StepOpen(g)))
    BY <1>0, <1>1, <1>3, ItemBegins
  <2> QED
    BY <2>1 DEF T
<1>5. mode = "Deferred" => k = RopeLen(T)
  BY <1>0, InMode DEF MayBegin, Begun
<1> HIDE DEF x, f2, b, T
<1>6. f2 \in FrameSet
  BY <1>4 DEF Begins, FrameOK
<1>7. Pushed(stack, stack', f2, NewFrame(b))
  BY <1>1, <1>2, <1>6, PushedIs
<1>8. Tied(f2, StoredAt(stored))
  BY <1>4 DEF Tied
<1>9. Begins(Top, x, b, f2) /\ ~Kid(Top, x)
  BY <1>1, <1>4
<1> QED
  BY <1>0, <1>2, <1>4, <1>5, <1>7, <1>8, <1>9, BegunKeeps

LEMMA BeginKeyKeeps ==
    ASSUME CollectionsInv, BeginKey, Usage = {}
    PROVE  CollectionsInv'
<1> DEFINE k == NextNumber(Top)
           st == <<"Key", "key">>
           x == HalfStep(st, k)
           b == Append(Top.at, x)
           f2 == HalfOpened(Top, st, k)
           T == Top
<1>0. /\ Active /\ T.tracker = "Map" /\ T.state = "Idle" /\ MayBegin(k)
      /\ UNCHANGED <<type, mode, startDepth, stored, phase, faults>>
  BY DEF BeginKey
<1>1. /\ stack \in Seq(FrameSet) /\ Len(stack) \in 1..Len(stack) /\ FrameOK(T) /\ T = Top
      /\ Placed(stack, stored)
  BY <1>0, InMode, ActiveFacts
<1>2. Grown(mem, mem', b) /\ stack' = Append([stack EXCEPT ![Len(stack)] = f2], NewFrame(b))
  BY DEF BeginKey, Grown, SetTop, HalfOpened, HalfStep
<1>3. k \in Nat /\ (T.cur = None \/ k > T.cur[1][2])
  <2>1. Len(T.pending) \in Nat
    BY <1>1, FrameFacts
  <2>2. T.cur = None \/ \E j \in Nat : T.cur = Some(<<"value", j>>)
    BY <1>0, <1>1 DEF FrameOK, StateOK
  <2>3. CASE T.cur = None
    BY <1>0, <2>1, <2>3 DEF NextNumber
  <2>4. CASE \E j \in Nat : T.cur = Some(<<"value", j>>)
    <3>1. PICK j \in Nat : T.cur = Some(<<"value", j>>)
      BY <2>4
    <3>2. T.cur # None /\ T.cur[1][2] = j
      BY <3>1 DEF Some, None
    <3>3. k = j + 1
      BY <1>0, <3>2 DEF NextNumber
    <3> QED
      BY <3>2, <3>3
  <2> QED
    BY <2>2, <2>3, <2>4
<1> HIDE DEF k
<1>4. /\ Begins(T, x, b, f2) /\ x \in StepSet /\ ~Kid(T, x)
      /\ f2.tracker = "Map" /\ f2.cur = Some(StepOpen(f2)) /\ f2.pending = T.pending
      /\ f2.state = st[1] /\ f2.cur[1] = x
  <2> HIDE DEF T, st
  <2>0. FrameOK(T) /\ T.tracker = "Map" /\ k \in Nat /\ Turn(T, st, k)
    BY <1>0, <1>1, <1>3 DEF Turn, st
  <2>1. LET y == HalfStep(st, k)
            g == HalfOpened(T, st, k) IN
        /\ Begins(T, y, Append(T.at, y), g)
        /\ y \in StepSet /\ ~Kid(T, y)
        /\ g.tracker = "Map" /\ g.cur = Some(StepOpen(g)) /\ g.pending = T.pending
        /\ g.state = st[1] /\ g.cur[1] = y
    BY <2>0, HalfBegins
  <2> QED
    BY <2>1 DEF T
<1>5. mode = "Deferred" => k = Begun(T)
  BY <1>0, InMode DEF MayBegin
<1>6. st[1] = "Key" /\ x[2] = k
  BY DEF HalfStep
<1> HIDE DEF x, f2, b, T, st
<1>7. f2 \in FrameSet /\ f2.at = T.at /\ Waits(f2) = Waits(T)
  BY <1>4 DEF Begins, FrameOK
<1>8. Pushed(stack, stack', f2, NewFrame(b))
  BY <1>1, <1>2, <1>7, PushedIs
<1>9. mode = "Deferred" => Tied(f2, StoredAt(stored))
  <2>1. f2.state = "Key" /\ f2.cur[1][2] = k
    BY <1>4, <1>6
  <2> QED
    BY <1>0, <1>1, <1>4, <1>5, <1>7, <2>1, TiedIs
<1>10. Begins(Top, x, b, f2) /\ ~Kid(Top, x)
  BY <1>1, <1>4
<1> QED
  BY <1>0, <1>2, <1>4, <1>8, <1>9, <1>10, BegunKeeps

LEMMA BeginValueKeeps ==
    ASSUME CollectionsInv, BeginValue, Usage = {}
    PROVE  CollectionsInv'
<1> DEFINE k == Top.cur[1][2]
           st == <<"Value", "value">>
           x == HalfStep(st, k)
           b == Append(Top.at, x)
           f2 == HalfOpened(Top, st, k)
           T == Top
<1>0. /\ Active /\ T.tracker = "Map" /\ T.state = "KeyDone" /\ MayBegin(k + 1)
      /\ UNCHANGED <<type, mode, startDepth, stored, phase, faults>>
  BY DEF BeginValue
<1>1. /\ stack \in Seq(FrameSet) /\ Len(stack) \in 1..Len(stack) /\ FrameOK(T) /\ T = Top
      /\ Placed(stack, stored)
  BY <1>0, InMode, ActiveFacts
<1>2. Grown(mem, mem', b) /\ stack' = Append([stack EXCEPT ![Len(stack)] = f2], NewFrame(b))
  BY DEF BeginValue, Grown, SetTop, HalfOpened, HalfStep
<1>3. k \in Nat /\ k = T.cur[1][2]
  <2>1. PICK j \in Nat : T.cur = Some(<<"key", j>>)
    BY <1>0, <1>1 DEF FrameOK, StateOK
  <2>2. T.cur[1][2] = j
    BY <2>1 DEF Some
  <2> QED
    BY <2>2
<1> HIDE DEF k
<1>4. /\ Begins(T, x, b, f2) /\ x \in StepSet /\ ~Kid(T, x)
      /\ f2.tracker = "Map" /\ f2.cur = Some(StepOpen(f2)) /\ f2.pending = T.pending
      /\ f2.state = st[1] /\ f2.cur[1] = x
  <2> HIDE DEF T, st
  <2>0. FrameOK(T) /\ T.tracker = "Map" /\ k \in Nat /\ Turn(T, st, k)
    BY <1>0, <1>1, <1>3 DEF Turn, st
  <2>1. LET y == HalfStep(st, k)
            g == HalfOpened(T, st, k) IN
        /\ Begins(T, y, Append(T.at, y), g)
        /\ y \in StepSet /\ ~Kid(T, y)
        /\ g.tracker = "Map" /\ g.cur = Some(StepOpen(g)) /\ g.pending = T.pending
        /\ g.state = st[1] /\ g.cur[1] = y
    BY <2>0, HalfBegins
  <2> QED
    BY <2>1 DEF T
<1>5. mode = "Deferred" => k + 1 = Begun(T)
  BY <1>0, InMode DEF MayBegin
<1>6. st[1] = "Value" /\ x[2] = k
  BY DEF HalfStep
<1> HIDE DEF x, f2, b, T, st
<1>7. f2 \in FrameSet /\ f2.at = T.at /\ Waits(f2) = Waits(T)
  BY <1>4 DEF Begins, FrameOK
<1>8. Pushed(stack, stack', f2, NewFrame(b))
  BY <1>1, <1>2, <1>7, PushedIs
<1>9. mode = "Deferred" => Tied(f2, StoredAt(stored))
  <2>1. f2.state = "Value" /\ f2.cur[1][2] = k
    BY <1>4, <1>6
  <2>2. mode = "Deferred" => f2.cur[1][2] = Begun(T) - 1
    BY <1>3, <1>5, <2>1
  <2> QED
    BY <1>0, <1>1, <1>4, <1>7, <2>1, <2>2, TiedIs
<1>10. Begins(Top, x, b, f2) /\ ~Kid(Top, x)
  BY <1>1, <1>4
<1> QED
  BY <1>0, <1>2, <1>4, <1>8, <1>9, <1>10, BegunKeeps

LEMMA BeginElementKeeps ==
    ASSUME CollectionsInv, BeginElement, Usage = {}
    PROVE  CollectionsInv'
<1> DEFINE b == Append(Top.at, Element)
           f2 == [Top EXCEPT !.state = "Item"]
           T == Top
<1>0. /\ Active /\ T.tracker = "Set" /\ T.state = "Idle" /\ (mode = "Strict" \/ ~Parts(T))
      /\ UNCHANGED <<type, mode, startDepth, stored, phase, faults>>
  BY DEF BeginElement
<1>1. /\ stack \in Seq(FrameSet) /\ Len(stack) \in 1..Len(stack) /\ FrameOK(T) /\ T = Top
      /\ Placed(stack, stored) /\ T = stack[Len(stack)]
  BY <1>0, InMode, ActiveFacts
<1>2. Grown(mem, mem', b) /\ stack' = Append([stack EXCEPT ![Len(stack)] = f2], NewFrame(b))
  BY DEF BeginElement, Grown, SetTop
<1>3. /\ Begins(T, Element, b, f2) /\ Element \in StepSet /\ ~Kid(T, Element)
      /\ f2.tracker = "Set"
  <2> HIDE DEF T
  <2>1. LET g == [T EXCEPT !.state = "Item"] IN
        /\ Begins(T, Element, Append(T.at, Element), g)
        /\ Element \in StepSet /\ ~Kid(T, Element)
        /\ g.tracker = "Set"
    BY <1>0, <1>1, ElementBegins
  <2> QED
    BY <2>1 DEF T
<1>4. mode = "Deferred" => Len(stack) # 1
  <2>1. Len(stack) = 1 => Len(T.at) = 0
    BY <1>1 DEF Placed
  <2> HIDE DEF T
  <2>2. mode = "Deferred" => Len(T.at) # 0
    BY <1>0, InMode DEF Parts
  <2> QED
    BY <2>1, <2>2
<1> HIDE DEF f2, b, T
<1>5. f2 \in FrameSet
  BY <1>3 DEF Begins, FrameOK
<1>6. Pushed(stack, stack', f2, NewFrame(b))
  BY <1>1, <1>2, <1>5, PushedIs
<1>7. Tied(f2, StoredAt(stored))
  BY <1>3 DEF Tied
<1>8. Begins(Top, Element, b, f2) /\ ~Kid(Top, Element)
  BY <1>1, <1>3
<1> QED
  BY <1>0, <1>2, <1>3, <1>4, <1>6, <1>7, <1>8, BegunKeeps

-----------------------------------------------------------------------------
(* The frame on top ends *)

\* The top of s goes, and the frame below becomes g2.
Returned(s, s2, g2) == Changed(Pop(s), s2, Len(s) - 1, g2)

LEMMA Returns ==
    ASSUME NEW s, NEW st, Placed(s, st), Opened(s), Len(s) > 1,
           NEW g2 \in FrameSet, g2.at = s[Len(s) - 1].at, g2.state \in {"Idle", "KeyDone"},
           NEW s2, Returned(s, s2, g2)
    PROVE  /\ Placed(s2, st) /\ Opened(s2)
           /\ Len(s2) = Len(s) - 1 /\ s2 # << >>
           /\ s2[Len(s) - 1] = g2
           /\ \A j \in 1..Len(s) - 2 : s2[j] = s[j]
           /\ FramesOf(s2, st) = (FramesOf(s, st) \ {s[Len(s)], s[Len(s) - 1]}) \cup {g2}
           /\ Len(s) > 2 => (Behind(s, st) => Behind(s2, st))
<1> DEFINE l == Len(s)
<1>1. /\ Placed(s2, st)
      /\ Len(s2) = Len(s) - 1 /\ s2 # << >>
      /\ s2[Len(s) - 1] = g2
      /\ \A j \in 1..Len(s) - 2 : s2[j] = s[j]
      /\ \A j \in 1..Len(s) - 1 : s2[j].at = s[j].at
      /\ FramesOf(s2, st) = (FramesOf(s, st) \ {s[Len(s)], s[Len(s) - 1]}) \cup {g2}
  BY StackReturned DEF Returned
<1>2. l \in Nat /\ l > 1 /\ Len(s2) = l - 1 /\ Len(s) = l /\ l <= 3
  BY <1>1, StackFacts
<1> HIDE DEF l
<1>3. Opened(s2)
  <2>1. s2[Len(s2)].state \in {"Idle", "KeyDone"}
    BY <1>1
  <2>2. \A i \in 1..Len(s2) - 1 : i \in 1..l - 2 /\ i \in 1..l - 1 /\ i + 1 \in 1..l - 1
    BY <1>2
  <2>3. \A i \in 1..l - 1 :
            s[i].state \in {"Item", "Key", "Value"} /\ s[i + 1].at = Append(s[i].at, StepOpen(s[i]))
    BY <1>2 DEF Opened
  <2>4. \A i \in 1..Len(s2) - 1 : s2[i] = s[i] /\ s2[i + 1].at = s[i + 1].at
    BY <1>1, <1>2, <2>2
  <2> QED
    BY <2>1, <2>2, <2>3, <2>4 DEF Opened
<1>4. Len(s) > 2 => (Behind(s, st) => Behind(s2, st))
  <2> SUFFICES ASSUME l > 2, Behind(s, st) PROVE Behind(s2, st)
    BY <1>2
  <2>1. 1 \in 1..l - 2 /\ 2 \in 1..l - 1 /\ Len(s2) >= 2
    BY <1>2
  <2>2. s2[1] = s[1] /\ s2[2].at = s[2].at
    BY <1>1, <1>2, <2>1
  <2> QED
    BY <2>1, <2>2 DEF Behind
<1> QED
  BY <1>1, <1>3, <1>4

\* In deferred mode too, unless it was entered in the frame that ends.
LEMMA StillDeferring ==
    ASSUME NEW s, NEW st, NEW d, Len(s) \in Nat, DeferringOK(s, st, d), d < Len(s),
           NEW s2, NEW st2, Len(s2) = Len(s) - 1, \A j \in 1..Len(s) - 2 : s2[j] = s[j],
           d = 1 => AsTheyLie(st2), d > 1 => Behind(s2, st2),
           \A j \in d..Len(s) - 2 : Tied(s[j], StoredAt(st)) => Tied(s[j], StoredAt(st2))
    PROVE  DeferringOK(s2, st2, d)
<1> DEFINE l == Len(s)
<1>1. l \in Nat /\ Len(s) = l /\ d < l /\ d \in 1..l
  BY DEF DeferringOK
<1> HIDE DEF l
<1>2. d \in 1..Len(s2)
  BY <1>1
<1>3. IF d = 1 THEN AsTheyLie(st2) ELSE Behind(s2, st2)
  BY <1>1
<1>4. Len(s2) > 1 => s2[1].tracker # "Set"
  <2>1. Len(s2) > 1 => 1 \in 1..l - 2 /\ l > 1
    BY <1>1
  <2>2. l > 1 => s[1].tracker # "Set"
    BY <1>1 DEF DeferringOK
  <2> QED
    BY <1>1, <2>1, <2>2
<1>5. ASSUME NEW i \in d..Len(s2) - 1
      PROVE  /\ s2[i].tracker # "Set" => s2[i].cur = Some(StepOpen(s2[i]))
             /\ Tied(s2[i], StoredAt(st2))
  <2>1. i \in d..l - 2 /\ i \in 1..l - 2 /\ i \in d..l - 1
    BY <1>1
  <2>2. /\ s[i].tracker # "Set" => s[i].cur = Some(StepOpen(s[i]))
        /\ Tied(s[i], StoredAt(st))
    BY <1>1, <2>1 DEF DeferringOK
  <2>3. s2[i] = s[i] /\ Tied(s[i], StoredAt(st2))
    BY <1>1, <2>1, <2>2
  <2> QED
    BY <2>2, <2>3
<1> QED
  BY <1>2, <1>3, <1>4, <1>5 DEF DeferringOK

LEMMA OthersSound ==
    ASSUME NEW F, NEW m, Owned(F, m), NEW f \in F, NEW g \in F, IsPart(f.at, g.at),
           NEW S, \A h \in F : Sound(h, PlacesOf(F), S, m),
           NEW S2, \A a : Front(a) # g.at => (a \in S <=> a \in S2),
           NEW g2, NEW m2, LeftTo(F, f, g, g2, m, m2), Sound(g2, PlacesOf(F) \ {f.at}, S2, m2)
    PROVE  \A h \in (F \ {f, g}) \cup {g2} : Sound(h, PlacesOf(F) \ {f.at}, S2, m2)
<1> DEFINE P == PlacesOf(F)
           P2 == P \ {f.at}
<1>1. ASSUME NEW h \in F, h # f, h # g
      PROVE  Sound(h, P2, S2, m2)
  <2>1. FrameOK(h) /\ h.at \in P /\ h.at # f.at /\ h.at # g.at
    BY <1>1, OwnedFacts
  <2>2. m2[h.at] = m[h.at]
    BY <2>1 DEF LeftTo
  <2>3. \A a : IsPart(a, h.at) => Front(a) # g.at /\ a # f.at
    BY <2>1 DEF IsPart
  <2>4. Sound(h, P, S, m)
    OBVIOUS
  <2> HIDE DEF P
  <2>5. \A a : IsPart(a, h.at) => (a \in P => a \in P2) /\ (a \in S <=> a \in S2)
    BY <2>3
  <2> HIDE DEF P2
  <2> QED
    BY <2>1, <2>2, <2>4, <2>5, SoundKept
<1> QED
  BY <1>1

LEMMA EndedBuilding ==
    ASSUME NEW t, NEW s, NEW st, NEW m, LiveOK(t, s, st, m), BuildingOK(s, st, m),
           Len(s) > 1, AsTheyLie(st) \/ Len(s) > 2,
           NEW g2, FrameOK(g2), g2.at = s[Len(s) - 1].at, g2.tracker = s[Len(s) - 1].tracker,
           g2.state \in {"Idle", "KeyDone"},
           NEW m2, LeftTo(FramesOf(s, st), s[Len(s)], s[Len(s) - 1], g2, m, m2),
           Sound(g2, PlacesOf(FramesOf(s, st)) \ {s[Len(s)].at}, StoredAt(st), m2),
           NEW s2, Returned(s, s2, g2)
    PROVE  LiveOK(t, s2, st, m2) /\ BuildingOK(s2, st, m2)
<1> DEFINE F == FramesOf(s, st)
           F2 == FramesOf(s2, st)
           P == PlacesOf(F)
           S == StoredAt(st)
           f == s[Len(s)]
           g == s[Len(s) - 1]
           P2 == P \ {f.at}
<1>1. /\ s # << >> /\ Placed(s, st) /\ Owned(F, m) /\ Len(s) \in Nat
      /\ \A h \in F : FrameOK(h) /\ Tracked(t, h)
      /\ \A i \in 1..Len(s) : s[i] \in F
  BY LiveFacts
<1>2. f \in F /\ g \in F
  <2>1. Len(s) \in 1..Len(s) /\ Len(s) - 1 \in 1..Len(s)
    BY <1>1
  <2> QED
    BY <1>1, <2>1
<1>3. IsPart(f.at, g.at)
  <2> DEFINE i == Len(s) - 1
  <2>1. i \in 1..Len(s) - 1 /\ i + 1 = Len(s)
    BY <1>1
  <2> HIDE DEF i
  <2>2. IsPart(s[i + 1].at, s[i].at)
    BY <1>1, <2>1 DEF Placed
  <2>3. s[i + 1] = f /\ s[i] = g
    BY <2>1 DEF i
  <2> QED
    BY <2>2, <2>3
<1>4. g2 \in FrameSet /\ Opened(s) /\ \A h \in F : Sound(h, P, S, m)
  BY DEF FrameOK, BuildingOK
<1>5. /\ Placed(s2, st) /\ Opened(s2)
      /\ Len(s2) = Len(s) - 1 /\ s2 # << >>
      /\ FramesOf(s2, st) = (FramesOf(s, st) \ {s[Len(s)], s[Len(s) - 1]}) \cup {g2}
      /\ Len(s) > 2 => (Behind(s, st) => Behind(s2, st))
  BY <1>1, <1>4, Returns
<1> HIDE DEF F2
<1>6. F2 = (F \ {f, g}) \cup {g2}
  BY <1>5 DEF F2
<1>7. Owned(F2, m2) /\ PlacesOf(F2) = P2
  BY <1>6 DEF LeftTo
<1>8. \A h \in F2 : Sound(h, P2, S, m2)
  <2>1. LeftTo(F, f, g, g2, m, m2) /\ Sound(g2, P2, S, m2)
    OBVIOUS
  <2> HIDE DEF F, f, g, S
  <2>2. \A h \in (F \ {f, g}) \cup {g2} : Sound(h, PlacesOf(F) \ {f.at}, S, m2)
    BY <1>1, <1>2, <1>3, <1>4, <2>1, OthersSound
  <2> QED
    BY <1>6, <2>2
<1>9. \A h \in F2 : Tracked(t, h)
  <2>1. Tracked(t, g)
    BY <1>1, <1>2
  <2>2. Tracked(t, g2)
    BY <2>1 DEF Tracked, CollectionOf
  <2> QED
    BY <1>1, <1>6, <2>2
<1>10. LiveOK(t, s2, st, m2)
  BY <1>5, <1>7, <1>9 DEF LiveOK, F2
<1>11. \A p \in DOMAIN st : st[p].state \in {"Idle", "KeyDone"}
  BY DEF BuildingOK
<1>12. AsTheyLie(st) \/ Behind(s2, st)
  <2>1. AsTheyLie(st) \/ Behind(s, st)
    BY DEF BuildingOK
  <2> QED
    BY <1>5, <2>1
<1>13. BuildingOK(s2, st, m2)
  <2>1. \A h \in FramesOf(s2, st) : Sound(h, PlacesOf(FramesOf(s2, st)), StoredAt(st), m2)
    BY <1>7, <1>8 DEF F2
  <2> QED
    BY <1>5, <1>11, <1>12, <2>1 DEF BuildingOK
<1> QED
  BY <1>10, <1>13

LEMMA SlotTaken ==
    ASSUME NEW g, FrameOK(g), g.tracker = "List", Marked(g) < RopeLen(g)
    PROVE  /\ TakesOver(g, Part(g, "item", Marked(g)), MarkLast(g))
           /\ MarkLast(g).state = g.state /\ MarkLast(g).cur = g.cur /\ MarkLast(g).pending = g.pending
           /\ Marked(MarkLast(g)) = Marked(g) + 1
<1> DEFINE h == MarkLast(g)
<1>1. /\ FrameOK(h)
      /\ h.at = g.at /\ h.isInit = g.isInit /\ h.tracker = g.tracker
      /\ h.state = g.state /\ h.cur = g.cur /\ h.pending = g.pending
      /\ RopeLen(h) = RopeLen(g) /\ Marked(h) = Marked(g) + 1
      /\ FinishedParts(h) = FinishedParts(g) \cup {Part(g, "item", Marked(g))}
      /\ \A t : Kid(g, t) => Kid(h, t)
  BY MarkLastIs
<1> HIDE DEF h
<1>2. TakesOver(g, Part(g, "item", Marked(g)), h)
  BY <1>1 DEF TakesOver
<1> QED
  BY <1>1, <1>2 DEF h

LEMMA HalfTaken ==
    ASSUME NEW g, FrameOK(g), g.tracker = "Map", g.cur # None, NEW k \in Nat
    PROVE  LET h == PushKey(g, Part(g, "key", k)) IN
           /\ TakesOver(g, Part(g, "key", k), h)
           /\ h.state = g.state /\ h.cur = g.cur
           /\ Len(h.pending) = Len(g.pending) + 1
           /\ \A j \in Nat : Given(h, j) <=> Given(g, j)
<1> DEFINE h == PushKey(g, Part(g, "key", k))
<1>1. /\ FrameOK(h)
      /\ h.at = g.at /\ h.isInit = g.isInit /\ h.tracker = g.tracker
      /\ h.state = g.state /\ h.cur = g.cur /\ h.rope = g.rope
      /\ RopeLen(h) = RopeLen(g)
      /\ Len(h.pending) = Len(g.pending) + 1
      /\ \A j \in Nat : Given(h, j) <=> Given(g, j)
      /\ FinishedParts(h) = FinishedParts(g) \cup {Part(g, "key", k)}
      /\ \A t : Kid(g, t) => Kid(h, t)
  BY PushKeyIs
<1> HIDE DEF h
<1>2. TakesOver(g, Part(g, "key", k), h)
  BY <1>1 DEF TakesOver
<1> QED
  BY <1>1, <1>2 DEF h

LEMMA EntryTaken ==
    ASSUME NEW g, FrameOK(g), g.tracker = "Map", NEW i \in 1..Len(g.pending),
           g.pending[i].value = None, NEW k \in Nat
    PROVE  LET h == SetValue(g, i, Part(g, "value", k)) IN
           /\ TakesOver(g, Part(g, "value", k), h)
           /\ h.state = g.state /\ h.cur = g.cur
           /\ Len(h.pending) = Len(g.pending)
           /\ \A j \in Nat : Given(h, j) <=> Given(g, j) \/ j = i - 1
<1> DEFINE h == SetValue(g, i, Part(g, "value", k))
<1>1. /\ FrameOK(h)
      /\ h.at = g.at /\ h.isInit = g.isInit /\ h.tracker = g.tracker
      /\ h.state = g.state /\ h.cur = g.cur /\ h.rope = g.rope
      /\ RopeLen(h) = RopeLen(g)
      /\ Len(h.pending) = Len(g.pending)
      /\ \A j \in Nat : Given(h, j) <=> Given(g, j) \/ j = i - 1
      /\ FinishedParts(h) = FinishedParts(g) \cup {Part(g, "value", k)}
      /\ \A t : Kid(g, t) => Kid(h, t)
  BY SetValueIs
<1> HIDE DEF h
<1>2. TakesOver(g, Part(g, "value", k), h)
  BY <1>1 DEF TakesOver
<1> QED
  BY <1>1, <1>2 DEF h

LEMMA EndedToo ==
    ASSUME NEW g, NEW a, NEW h, TakesOver(g, a, h), h.state \in {"Item", "Key", "Value"},
           h.tracker # "Set"
    PROVE  /\ TakesOver(g, a, Ended(h))
           /\ Ended(h).pending = h.pending /\ Marked(Ended(h)) = Marked(h)
           /\ Ended(h).state = IF h.state = "Key" THEN "KeyDone" ELSE "Idle"
<1> DEFINE e == Ended(h)
<1>1. FrameOK(h) /\ h.at = g.at /\ h.isInit = g.isInit /\ h.tracker = g.tracker
      /\ RopeLen(h) = RopeLen(g)
      /\ FinishedParts(h) = FinishedParts(g) \cup {a}
      /\ \A t : Kid(g, t) => Kid(h, t)
  BY DEF TakesOver
<1>2. /\ FrameOK(e)
      /\ e.at = h.at /\ e.isInit = h.isInit /\ e.tracker = h.tracker
      /\ e.rope = h.rope /\ e.pending = h.pending
      /\ e.state = IF h.state = "Key" THEN "KeyDone" ELSE "Idle"
      /\ \A t : Kid(h, t) => Kid(e, t)
  BY <1>1, EndedIs
<1> HIDE DEF e
<1>3. RopeLen(e) = RopeLen(h) /\ Marked(e) = Marked(h) /\ FinishedParts(e) = FinishedParts(h)
  BY <1>2, SameParts
<1>4. TakesOver(g, a, e)
  BY <1>1, <1>2, <1>3 DEF TakesOver
<1> QED
  BY <1>2, <1>3, <1>4 DEF e

\* A collection that may be completed has no half-entry.
LEMMA AllValues ==
    ASSUME NEW f, FrameOK(f), f.state = "Idle", NEW S, MapOK(f, S), \A a \in S : ~IsPart(a, f.at)
    PROVE  \A i \in 1..Len(f.pending) : f.pending[i].value # None
<1>1. CASE f.tracker = "Map"
  <2>1. PICK n \in Nat : MapIs(f, S, n)
    BY <1>1 DEF MapOK
  <2>2. ~Waits(f)
    BY DEF Waits
  <2> QED
    BY <2>1, <2>2, AllGiven
<1>2. CASE f.tracker # "Map"
  BY <1>2, FrameFacts
<1> QED
  BY <1>1, <1>2

\* The place of the element that g is open for.
Open(g) == Append(g.at, StepOpen(g))

\* The slot that ends is the first that is not finished, where no other frame
\* builds one.
LEMMA LastSlot ==
    ASSUME NEW g, FrameOK(g), g.tracker = "List", StepOpen(g) \in StepSet,
           NEW P, ListOK(g, P), Open(g) \notin FinishedParts(g),
           \A b \in P : IsPart(b, g.at) => b = Open(g)
    PROVE  /\ Marked(g) < RopeLen(g)
           /\ Open(g) = Part(g, "item", Marked(g))
           /\ RopeLen(g) = Marked(g) + 1
<1> DEFINE n == RopeLen(g)
           k == Marked(g)
<1>1. n \in Nat /\ k \in Nat /\ k <= n /\ g.at \in Steps
  BY FrameFacts
<1>2. StepOpen(g) = <<"item", n - 1>>
  BY DEF StepOpen
<1>3. n - 1 \in Nat /\ Open(g) = Part(g, "item", n - 1)
  BY <1>2 DEF StepSet, Open, Part
<1> HIDE DEF n, k
<1>4. k <= n - 1
  <2>1. SUFFICES ASSUME n - 1 < k PROVE FALSE
    BY <1>1, <1>3
  <2>2. Part(g, "item", n - 1) \in Slots(g, Marked(g))
    BY <1>1, <1>3, <2>1, SlotsAre DEF k
  <2> QED
    BY <1>3, <2>2 DEF FinishedParts
<1>5. Part(g, "item", k) = Open(g)
  <2>1. Part(g, "item", k) \in Slots(g, n)
    BY <1>1, <1>3, <1>4, SlotsAre
  <2>2. Part(g, "item", k) \notin Slots(g, k)
    <3>1. SUFFICES ASSUME NEW j \in Nat, j < k, Part(g, "item", k) = Part(g, "item", j) PROVE FALSE
      BY <1>1, SlotsAre
    <3>2. Last(Part(g, "item", k)) = <<"item", k>> /\ Last(Part(g, "item", j)) = <<"item", j>>
      BY <1>1, PartFacts
    <3> QED
      BY <1>1, <3>1, <3>2
  <2>3. Part(g, "item", k) \in P
    BY <2>1, <2>2 DEF ListOK, n, k
  <2>4. IsPart(Part(g, "item", k), g.at)
    BY <1>1, PartFacts
  <2> QED
    BY <2>3, <2>4
<1>6. k = n - 1
  <2>1. Last(Part(g, "item", k)) = <<"item", k>> /\ Last(Part(g, "item", n - 1)) = <<"item", n - 1>>
    BY <1>1, <1>3, PartFacts
  <2> QED
    BY <1>3, <1>5, <2>1
<1>7. k < n /\ n = k + 1
  BY <1>1, <1>6
<1> QED
  BY <1>5, <1>7 DEF n, k

\* In strict mode a list or a map takes over the element that ends.
LEMMA StrictTakes ==
    ASSUME NEW g, FrameOK(g), g.tracker \in {"List", "Map"}, g.state \in {"Item", "Key", "Value"},
           StepOpen(g) \in StepSet, NEW P, NEW m, Sound(g, P, {}, m), Open(g) \notin FinishedParts(g),
           \A b \in P : IsPart(b, g.at) => b = Open(g)
    PROVE  LET g2 == Ended(Take(g, Open(g))) IN
           /\ TakesOver(g, Open(g), g2) /\ g2.state \in {"Idle", "KeyDone"}
           /\ ListOK(g2, P \ {Open(g)}) /\ MapOK(g2, {})
<1> DEFINE o == Open(g)
           h == Take(g, o)
           g2 == Ended(h)
<1>1. CASE g.tracker = "List"
  <2>1. g.state = "Item"
    BY <1>1 DEF FrameOK, StateOK
  <2>2. /\ Marked(g) < RopeLen(g)
        /\ o = Part(g, "item", Marked(g))
        /\ RopeLen(g) = Marked(g) + 1
    BY <1>1, LastSlot DEF Sound
  <2>3. h = MarkLast(g)
    BY <1>1, <2>1 DEF Take
  <2>4. /\ TakesOver(g, Part(g, "item", Marked(g)), MarkLast(g))
        /\ MarkLast(g).state = g.state
        /\ Marked(MarkLast(g)) = Marked(g) + 1
    BY <1>1, <2>2, SlotTaken
  <2> HIDE DEF h, o
  <2>5. TakesOver(g, o, h) /\ h.state = "Item" /\ Marked(h) = RopeLen(g)
    BY <2>1, <2>2, <2>3, <2>4
  <2>6. h.tracker = "List"
    BY <1>1, <2>5 DEF TakesOver
  <2>7. TakesOver(g, o, g2) /\ g2.state = "Idle" /\ Marked(g2) = Marked(h)
    BY <2>5, <2>6, EndedToo
  <2> HIDE DEF g2
  <2>8. Marked(g2) = RopeLen(g2) /\ g2.tracker = "List"
    BY <1>1, <2>5, <2>7 DEF TakesOver
  <2>9. ListOK(g2, P \ {o}) /\ MapOK(g2, {})
    BY <2>8 DEF ListOK, MapOK
  <2> QED
    BY <2>7, <2>9 DEF g2, h, o
<1>2. CASE g.tracker = "Map" /\ g.state = "Key"
  <2>1. PICK k \in Nat : g.cur = Some(<<"key", k>>)
    BY <1>2 DEF FrameOK, StateOK
  <2>2. g.cur # None /\ g.cur[1] = <<"key", k>>
    BY <2>1 DEF Some, None
  <2>3. o = Part(g, "key", k)
    BY <1>2, <2>2 DEF Open, StepOpen, Part
  <2>4. h = PushKey(g, o)
    BY <1>2 DEF Take
  <2>5. LET y == PushKey(g, Part(g, "key", k)) IN
        /\ TakesOver(g, Part(g, "key", k), y)
        /\ y.state = g.state /\ y.cur = g.cur
        /\ Len(y.pending) = Len(g.pending) + 1
        /\ \A j \in Nat : Given(y, j) <=> Given(g, j)
    BY <1>2, <2>2, HalfTaken
  <2> HIDE DEF h, o
  <2>6. TakesOver(g, o, h) /\ h.state = "Key" /\ Len(h.pending) = Len(g.pending) + 1
        /\ \A j \in Nat : Given(h, j) <=> Given(g, j)
    BY <1>2, <2>3, <2>4, <2>5
  <2>7. h.tracker = "Map" /\ h.at = g.at
    BY <1>2, <2>6 DEF TakesOver
  <2>8. TakesOver(g, o, g2) /\ g2.state = "KeyDone" /\ g2.pending = h.pending
    BY <2>6, <2>7, EndedToo
  <2> HIDE DEF g2
  <2>9. g2.tracker = "Map" /\ g2.at = g.at
    BY <1>2, <2>8 DEF TakesOver
  <2>10. PICK n \in Nat : MapIs(g, {}, n)
    BY <1>2 DEF Sound, MapOK
  <2>11. Len(g2.pending) = Len(g.pending) + 1 /\ \A j \in Nat : Given(g2, j) <=> Given(g, j)
    BY <2>6, <2>8 DEF Given
  <2>12. MapIs(g2, {}, n + 1)
    BY <1>2, <2>8, <2>9, <2>10, <2>11, KeyEnded
  <2>13. ListOK(g2, P \ {o}) /\ MapOK(g2, {})
    <3>1. Slots(g2, RopeLen(g2)) = {}
      BY <2>8, <2>9, MapParts DEF TakesOver
    <3> QED
      BY <2>12, <3>1 DEF ListOK, MapOK
  <2> QED
    BY <2>8, <2>13 DEF g2, h, o
<1>3. CASE g.tracker = "Map" /\ g.state # "Key"
  <2>0. g.state = "Value"
    BY <1>3 DEF FrameOK, StateOK
  <2>1. PICK k \in Nat : g.cur = Some(<<"value", k>>)
    BY <1>3, <2>0 DEF FrameOK, StateOK
  <2>2. g.cur # None /\ g.cur[1] = <<"value", k>>
    BY <2>1 DEF Some, None
  <2>3. o = Part(g, "value", k)
    BY <1>3, <2>2 DEF Open, StepOpen, Part
  <2>10. PICK n \in Nat : MapIs(g, {}, n)
    BY <1>3 DEF Sound, MapOK
  <2>9. /\ n = Len(g.pending) /\ n \in 1..Len(g.pending) /\ g.pending[n].value = None
        /\ \A x :
                /\ x.at = g.at /\ Len(x.pending) = Len(g.pending) /\ x.state = "Idle"
                /\ \A j \in Nat : Given(x, j) <=> Given(g, j) \/ j = n - 1
                => MapIs(x, {}, n)
    BY <1>3, <2>0, <2>10, ValueEnded
  <2>4. h = SetValue(g, n, o)
    BY <1>3, <2>0, <2>9 DEF Take
  <2>5. LET y == SetValue(g, n, Part(g, "value", k)) IN
        /\ TakesOver(g, Part(g, "value", k), y)
        /\ y.state = g.state /\ y.cur = g.cur
        /\ Len(y.pending) = Len(g.pending)
        /\ \A j \in Nat : Given(y, j) <=> Given(g, j) \/ j = n - 1
    BY <1>3, <2>9, EntryTaken
  <2> HIDE DEF h, o
  <2>6. TakesOver(g, o, h) /\ h.state = "Value" /\ Len(h.pending) = Len(g.pending)
        /\ \A j \in Nat : Given(h, j) <=> Given(g, j) \/ j = n - 1
    BY <2>0, <2>3, <2>4, <2>5
  <2>7. h.tracker = "Map" /\ h.at = g.at
    BY <1>3, <2>6 DEF TakesOver
  <2>8. TakesOver(g, o, g2) /\ g2.state = "Idle" /\ g2.pending = h.pending
    BY <2>6, <2>7, EndedToo
  <2> HIDE DEF g2
  <2>11. g2.tracker = "Map" /\ g2.at = g.at
    BY <1>3, <2>8 DEF TakesOver
  <2>12. Len(g2.pending) = Len(g.pending) /\ \A j \in Nat : Given(g2, j) <=> Given(g, j) \/ j = n - 1
    BY <2>6, <2>8 DEF Given
  <2>13. MapIs(g2, {}, n)
    BY <2>8, <2>9, <2>11, <2>12
  <2>14. ListOK(g2, P \ {o}) /\ MapOK(g2, {})
    <3>1. Slots(g2, RopeLen(g2)) = {}
      BY <2>8, <2>11, MapParts DEF TakesOver
    <3> QED
      BY <2>13, <3>1 DEF ListOK, MapOK
  <2> QED
    BY <2>8, <2>14 DEF g2, h, o
<1> QED
  BY <1>1, <1>2, <1>3

\* The frame on top and the one below it.
LEMMA Below ==
    ASSUME NEW t, NEW s, NEW st, NEW m, LiveOK(t, s, st, m), BuildingOK(s, st, m), Len(s) > 1
    PROVE  LET F == FramesOf(s, st)
               f == s[Len(s)]
               g == s[Len(s) - 1] IN
           /\ f \in F /\ g \in F /\ FrameOK(f) /\ FrameOK(g)
           /\ IsPart(f.at, g.at) /\ f.at = Open(g) /\ f.at \in Steps
           /\ StepOpen(g) \in StepSet /\ Last(f.at) = StepOpen(g)
           /\ g.state \in {"Item", "Key", "Value"} /\ f.state \in {"Idle", "KeyDone"}
           /\ g.at \in DOMAIN m /\ f.at \in DOMAIN m /\ f.at # g.at
           /\ Open(g) \notin FinishedParts(g)
           /\ Len(f.at) = Len(s) - 1 /\ Len(g.at) = Len(s) - 2
<1> DEFINE F == FramesOf(s, st)
           k == Len(s) - 1
           f == s[k + 1]
           g == s[k]
<1>1. /\ Placed(s, st) /\ Owned(F, m) /\ Len(s) \in Nat
      /\ \A h \in F : FrameOK(h)
      /\ \A i \in 1..Len(s) : s[i] \in F
  BY LiveFacts
<1>2. k \in Nat /\ Len(s) = k + 1 /\ k \in 1..Len(s) - 1 /\ k \in 1..Len(s) /\ k + 1 \in 1..Len(s) /\ k = Len(s) - 1
  BY <1>1
<1> HIDE DEF F, k
<1>3. f \in F /\ g \in F /\ FrameOK(f) /\ FrameOK(g) /\ f.at \in Steps /\ g.at \in Steps
  <2>1. f \in F /\ g \in F /\ FrameOK(f) /\ FrameOK(g)
    BY <1>1, <1>2
  <2> QED
    BY <2>1, FrameFacts
<1>4. Len(f.at) = k + 1 - 1 /\ Len(g.at) = k - 1 /\ IsPart(f.at, g.at)
  BY <1>1, <1>2 DEF Placed
<1>5. f.at = Open(g) /\ g.state \in {"Item", "Key", "Value"} /\ f.state \in {"Idle", "KeyDone"}
  <2>1. Opened(s)
    BY DEF BuildingOK
  <2> QED
    BY <1>2, <2>1 DEF Opened, Open
<1>6. StepOpen(g) \in StepSet /\ Last(f.at) = StepOpen(g)
  <2> DEFINE x == StepOpen(g)
             T == StepSet \cup {x}
             a == g.at
             b == f.at
  <2>1. a \in Seq(StepSet) /\ x \in T /\ b \in Steps /\ b = Append(a, x) /\ b # Root
    BY <1>3, <1>4, <1>5 DEF Steps, Open, IsPart
  <2> HIDE DEF a, b, x
  <2>2. a \in Seq(T)
    BY <2>1, SeqMonotonic
  <2> HIDE DEF T
  <2>3. Len(b) = Len(a) + 1 /\ b[Len(a) + 1] = x
    BY <2>1, <2>2, AppendProperties
  <2>4. Last(b) \in StepSet /\ Last(b) = b[Len(b)]
    BY <2>1, Parent
  <2> QED
    BY <2>3, <2>4 DEF b, x
<1>7. f.at \in DOMAIN m /\ g.at \in DOMAIN m /\ f.at \in PlacesOf(F) /\ OwnOK(g, PlacesOf(F), m)
  BY <1>1, <1>3, OwnedFacts
<1>8. Open(g) \notin FinishedParts(g)
  <2>1. f.at \notin FinishedParts(g)
    BY <1>7 DEF OwnOK
  <2> QED
    BY <1>5, <2>1
<1>9. f.at # g.at
  BY <1>3, <1>4, NotInItself
<1> HIDE DEF f, g
<1>10. /\ f \in F /\ g \in F /\ FrameOK(f) /\ FrameOK(g)
       /\ IsPart(f.at, g.at) /\ f.at = Open(g) /\ f.at \in Steps
       /\ StepOpen(g) \in StepSet /\ Last(f.at) = StepOpen(g)
       /\ g.state \in {"Item", "Key", "Value"} /\ f.state \in {"Idle", "KeyDone"}
       /\ g.at \in DOMAIN m /\ f.at \in DOMAIN m /\ f.at # g.at
       /\ Open(g) \notin FinishedParts(g)
       /\ Len(f.at) = k /\ Len(g.at) = k - 1
  BY <1>2, <1>3, <1>4, <1>5, <1>6, <1>7, <1>8, <1>9
<1>11. f = s[Len(s)] /\ g = s[Len(s) - 1] /\ k = Len(s) - 1 /\ k - 1 = Len(s) - 2
  BY <1>2 DEF f, g
<1> QED
  BY <1>10, <1>11 DEF F

\* No other element of the frame below is on the stack.
LEMMA OnlyTop ==
    ASSUME NEW s, NEW st, Placed(s, st), Len(s) > 1,
           NEW b \in PlacesOf(FramesOf(s, st)), b \notin StoredAt(st), IsPart(b, s[Len(s) - 1].at)
    PROVE  b = s[Len(s)].at
<1>1. PICK i \in 1..Len(s) : b = s[i].at
  BY DEF PlacesOf, FramesOf, StoredAt
<1> DEFINE k == Len(s) - 1
<1>2. k \in 1..Len(s) /\ Len(s) = k + 1 /\ k \in Nat /\ i \in Nat
  BY StackFacts
<1> HIDE DEF k
<1>3. Len(s[i].at) = i - 1 /\ Len(s[k].at) = k - 1 /\ s[i].at \in Steps
  BY <1>2, StackFacts DEF Placed
<1>4. b # Root /\ Front(b) = s[k].at
  BY <1>2 DEF IsPart, k
<1>5. Len(Front(b)) = Len(b) - 1
  BY <1>1, <1>3, <1>4, Parent
<1>6. i = k + 1
  BY <1>1, <1>2, <1>3, <1>4, <1>5
<1> QED
  BY <1>1, <1>2, <1>6

LEMMA ReturnedIs ==
    ASSUME NEW s, NEW st, Placed(s, st), Len(s) > 1, NEW g2 \in FrameSet
    PROVE  Returned(s, [Pop(s) EXCEPT ![Len(s) - 1] = g2], g2)
<1> DEFINE k == Len(s) - 1
           r == Pop(s)
<1>1. s \in Seq(FrameSet) /\ s # << >> /\ Len(s) \in Nat /\ k \in 1..k /\ k = Len(s) - 1
  BY StackFacts DEF Placed
<1>2. r \in Seq(FrameSet) /\ Len(r) = k
  BY <1>1, AllButLast DEF Pop
<1> HIDE DEF r, k
<1>3. Changed(r, [r EXCEPT ![k] = g2], k, g2)
  BY <1>1, <1>2, ChangedIs
<1> QED
  BY <1>3 DEF r, k, Returned

LEMMA SetEnded ==
    ASSUME NEW g, FrameOK(g), g.tracker = "Set", g.state \in {"Item", "Key", "Value"}
    PROVE  LET g2 == Ended(g) IN
           /\ FrameOK(g2) /\ g2.tracker = "Set" /\ g2.at = g.at /\ g2.isInit = g.isInit
           /\ g2.state = "Idle"
           /\ \A P : ListOK(g2, P)
           /\ \A S : MapOK(g2, S)
<1> DEFINE g2 == Ended(g)
<1>1. g.state = "Item"
  BY DEF FrameOK, StateOK
<1>2. /\ FrameOK(g2) /\ g2.tracker = "Set" /\ g2.at = g.at /\ g2.isInit = g.isInit
      /\ g2.state = "Idle"
  BY <1>1, EndedIs
<1> HIDE DEF g2
<1>3. Slots(g2, RopeLen(g2)) = {}
  BY <1>2, NoElements
<1>4. \A P : ListOK(g2, P)
  BY <1>3 DEF ListOK
<1>5. \A S : MapOK(g2, S)
  BY <1>2 DEF MapOK
<1> QED
  BY <1>2, <1>4, <1>5 DEF g2

LEMMA EndStrictKeeps ==
    ASSUME CollectionsInv, EndStrict
    PROVE  CollectionsInv'
<1> DEFINE F == FramesOf(stack, stored)
           P == PlacesOf(F)
           f == stack[Len(stack)]
           g == stack[Len(stack) - 1]
           m == Memory
           m1 == Finish(m, f)
           o == Open(g)
           g2 == Ended(Take(g, o))
<1>0. /\ Active /\ mode = "Strict" /\ Len(stack) > 1 /\ Complete(f)
      /\ UNCHANGED <<type, mode, startDepth, stored, phase>>
  BY DEF EndStrict, Top
<1>1. /\ LiveOK(type, stack, stored, mem) /\ BuildingOK(stack, stored, mem)
      /\ Placed(stack, stored) /\ Owned(F, mem) /\ stack # << >>
      /\ m.at = mem /\ m.faults = {}
  BY <1>0, InMode, ActiveFacts
<1>2. DOMAIN stored = {} /\ StoredAt(stored) = {} /\ AsTheyLie(stored)
  BY <1>0, InMode DEF StoredAt, AsTheyLie
<1>3. /\ f \in F /\ g \in F /\ FrameOK(f) /\ FrameOK(g)
      /\ IsPart(f.at, g.at) /\ f.at = o /\ f.at \in Steps
      /\ StepOpen(g) \in StepSet /\ Last(f.at) = StepOpen(g)
      /\ g.state \in {"Item", "Key", "Value"}
      /\ f.at # g.at /\ o \notin FinishedParts(g)
  BY <1>0, <1>1, Below
<1>4. /\ MemoryIs(IF g.tracker = "Set" THEN Insert(m1, g, f.at) ELSE m1)
      /\ stack' = [Pop(stack) EXCEPT ![Len(stack) - 1] = g2]
  <2>1. MemoryIs(IF g.tracker = "Set" THEN Insert(m1, g, f.at) ELSE m1)
    BY DEF EndStrict, Top
  <2>2. stack' = [Pop(stack) EXCEPT ![Len(stack) - 1] = Ended(Take(@, f.at))]
    BY DEF EndStrict, Top
  <2> DEFINE k == Len(stack) - 1
             r == Pop(stack)
  <2>3. r[k] = g /\ r \in Seq(FrameSet) /\ k \in 1..Len(r)
    <3>1. stack \in Seq(FrameSet) /\ Len(stack) \in Nat /\ k \in 1..Len(stack) - 1
      BY <1>0, <1>1, StackFacts DEF Placed
    <3> QED
      BY <1>1, <3>1, AllButLast DEF Pop
  <2>4. f.at = o
    BY <1>3
  <2> HIDE DEF f, o, g
  <2>5. stack' = [r EXCEPT ![k] = Ended(Take(r[k], o))]
    BY <2>2, <2>4
  <2> HIDE DEF r, k
  <2>6. stack' = [r EXCEPT ![k] = Ended(Take(g, o))]
    BY <2>3, <2>5
  <2> QED
    BY <2>1, <2>6 DEF r, k
<1>5. f.isInit /\ f.state = "Idle"
  BY <1>0 DEF Complete
<1>6. Sound(f, P, {}, mem) /\ Sound(g, P, {}, mem)
  BY <1>1, <1>2, <1>3 DEF BuildingOK
<1>7. Ready(f)
  <2> HIDE DEF f
  <2>1. MapOK(f, {})
    BY <1>6 DEF Sound
  <2>2. \A i \in 1..Len(f.pending) : f.pending[i].value # None
    BY <1>3, <1>5, <2>1, AllValues
  <2> QED
    BY <1>5, <2>2 DEF Ready
<1>8. Bare(f, P)
  BY <1>1, <1>2, TopIsBare
<1>9. \A b \in P : IsPart(b, g.at) => b = o
  BY <1>0, <1>1, <1>2, <1>3, OnlyTop
<1> HIDE DEF F, f, g, m, o
<1>10. \E m2 : /\ MemoryIs(m2) /\ m2.faults = {}
               /\ LeftTo(F, f, g, g2, mem, m2.at)
               /\ Sound(g2, P \ {f.at}, {}, m2.at)
               /\ FrameOK(g2) /\ g2.at = g.at /\ g2.tracker = g.tracker /\ g2.state \in {"Idle", "KeyDone"}
  <2>1. CASE g.tracker = "Set"
    <3> DEFINE m2 == Insert(m1, g, f.at)
    <3>1. g2 = Ended(g)
      <4>1. g.state # "Key"
        BY <1>3, <2>1 DEF FrameOK, StateOK
      <4> QED
        BY <2>1, <4>1 DEF Take
    <3> HIDE DEF g2
    <3>2. LET h == Ended(g) IN
          /\ FrameOK(h) /\ h.tracker = "Set" /\ h.at = g.at /\ h.isInit = g.isInit
          /\ h.state = "Idle"
          /\ \A Q : ListOK(h, Q)
          /\ \A S : MapOK(h, S)
      BY <1>3, <2>1, SetEnded
    <3>3. /\ FrameOK(g2) /\ g2.tracker = "Set" /\ g2.at = g.at /\ g2.isInit = g.isInit
          /\ g2.state = "Idle" /\ ListOK(g2, P \ {f.at}) /\ MapOK(g2, {})
      BY <3>1, <3>2
    <3>4. Last(f.at) = Element
      BY <1>3, <2>1 DEF StepOpen
    <3>5. LET n == Insert(Finish(m, f), g, f.at) IN
          /\ LeftTo(F, f, g, g2, m.at, n.at)
          /\ n.faults = {}
          /\ IsSeq(m.at[g.at][1]) => IsSeq(n.at[g.at][1])
      BY <1>1, <1>3, <1>7, <1>8, <2>1, <3>3, <3>4, HandedToSet
    <3>6. LeftTo(F, f, g, g2, mem, m2.at) /\ m2.faults = {}
          /\ (IsSeq(mem[g.at][1]) => IsSeq(m2.at[g.at][1]))
      BY <1>1, <3>5
    <3>7. MemoryIs(m2)
      BY <1>4, <2>1
    <3> HIDE DEF m2
    <3>8. ValueOK(g2, m2.at)
      BY <1>6, <3>3, <3>6 DEF Sound, ValueOK, IsLeaf
    <3>9. Sound(g2, P \ {f.at}, {}, m2.at)
      BY <3>3, <3>8 DEF Sound
    <3> QED
      BY <2>1, <3>3, <3>6, <3>7, <3>9
  <2>2. CASE g.tracker # "Set"
    <3>1. g.tracker \in {"List", "Map"}
      <4>1. FrameOK(g) /\ g.state # "Idle"
        BY <1>3
      <4> QED
        BY <2>2, <4>1 DEF FrameOK, StateOK
    <3>2. LET h == Ended(Take(g, Open(g))) IN
          /\ TakesOver(g, Open(g), h) /\ h.state \in {"Idle", "KeyDone"}
          /\ ListOK(h, P \ {Open(g)}) /\ MapOK(h, {})
      <4> HIDE DEF P
      <4>1. Open(g) \notin FinishedParts(g) /\ \A b \in P : IsPart(b, g.at) => b = Open(g)
        BY <1>3, <1>9 DEF o
      <4> QED
        BY <1>3, <1>6, <3>1, <4>1, StrictTakes
    <3>3. /\ TakesOver(g, f.at, g2) /\ g2.state \in {"Idle", "KeyDone"}
          /\ ListOK(g2, P \ {f.at}) /\ MapOK(g2, {})
      BY <1>3, <3>2 DEF o
    <3> HIDE DEF g2
    <3>4. FrameOK(g2) /\ g2.at = g.at /\ g2.tracker = g.tracker /\ g2.isInit = g.isInit
      BY <3>3 DEF TakesOver
    <3>5. /\ LeftTo(F, f, g, g2, m.at, Finish(m, f).at)
          /\ Finish(m, f).faults = {}
          /\ Finish(m, f).at[g.at] = m.at[g.at]
      <4>1. Hands(F, m, f, g, g2)
        BY <1>1, <1>3, <1>7, <1>8, <3>3 DEF Hands
      <4> QED
        BY <4>1, HandedOver
    <3>6. ValueOK(g2, m1.at)
      <4>1. m1.at[g2.at] = mem[g.at]
        BY <1>1, <3>4, <3>5
      <4> HIDE DEF m1
      <4> QED
        BY <1>6, <3>4, <4>1 DEF Sound, ValueOK, IsLeaf
    <3>7. MemoryIs(m1)
      BY <1>4, <2>2
    <3>8. LeftTo(F, f, g, g2, mem, m1.at) /\ m1.faults = {}
      BY <1>1, <3>5
    <3> HIDE DEF m1
    <3>9. Sound(g2, P \ {f.at}, {}, m1.at)
      BY <3>3, <3>6 DEF Sound
    <3> QED
      BY <3>3, <3>4, <3>7, <3>8, <3>9
  <2> QED
    BY <2>1, <2>2
<1> HIDE DEF g2
<1>11. PICK m2 : /\ MemoryIs(m2) /\ m2.faults = {}
                 /\ LeftTo(F, f, g, g2, mem, m2.at)
                 /\ Sound(g2, P \ {f.at}, {}, m2.at)
                 /\ FrameOK(g2) /\ g2.at = g.at /\ g2.tracker = g.tracker /\ g2.state \in {"Idle", "KeyDone"}
  BY <1>10
<1>12. Returned(stack, stack', g2)
  <2>1. g2 \in FrameSet
    BY <1>11 DEF FrameOK
  <2> QED
    BY <1>0, <1>1, <1>4, <2>1, ReturnedIs
<1>13. LiveOK(type, stack', stored, mem') /\ BuildingOK(stack', stored, mem')
  <2> DEFINE M2 == mem'
             s2 == stack'
  <2>1. M2 = m2.at /\ Returned(stack, s2, g2)
    BY <1>11, <1>12 DEF MemoryIs
  <2>2. LeftTo(FramesOf(stack, stored), stack[Len(stack)], stack[Len(stack) - 1], g2, mem, M2)
    BY <1>11, <2>1 DEF F, f, g
  <2>3. Sound(g2, PlacesOf(FramesOf(stack, stored)) \ {stack[Len(stack)].at}, StoredAt(stored), M2)
    BY <1>2, <1>11, <2>1 DEF F, f
  <2>4. g2.at = stack[Len(stack) - 1].at /\ g2.tracker = stack[Len(stack) - 1].tracker
        /\ FrameOK(g2) /\ g2.state \in {"Idle", "KeyDone"}
    BY <1>11 DEF g
  <2> HIDE DEF M2, s2
  <2>5. LiveOK(type, s2, stored, M2) /\ BuildingOK(s2, stored, M2)
    BY <1>0, <1>1, <1>2, <2>1, <2>2, <2>3, <2>4, EndedBuilding
  <2> QED
    BY <2>5 DEF M2, s2
<1>14. faults' = {}
  BY <1>11 DEF MemoryIs
<1> QED
  BY <1>0, <1>2, <1>13, <1>14, StillActive

-----------------------------------------------------------------------------
(* The steps that change no frame *)

LEMMA BeginDeferredKeeps ==
    ASSUME CollectionsInv, BeginDeferred, Usage = {}
    PROVE  CollectionsInv'
<1>0. /\ Active /\ mode = "Strict" /\ mode' = "Deferred" /\ startDepth' = Len(stack)
      /\ \A i \in DOMAIN stack : Parts(stack[i]) => stack[i].state = "Idle"
      /\ UNCHANGED <<type, stack, stored, phase, mem, faults>>
  BY DEF BeginDeferred
<1>1. /\ LiveOK(type, stack, stored, mem) /\ BuildingOK(stack, stored, mem)
      /\ stack # << >> /\ Placed(stack, stored) /\ Len(stack) \in Nat \ {0}
  BY <1>0, InMode, ActiveFacts
<1>2. DOMAIN stored = {}
  BY <1>0, InMode
<1>3. DeferringOK(stack, stored, Len(stack))
  <2>1. AsTheyLie(stored) /\ Behind(stack, stored)
    BY <1>2 DEF AsTheyLie, Behind
  <2>2. ASSUME Len(stack) > 1 PROVE stack[1].tracker # "Set"
    <3>1. 1 \in DOMAIN stack /\ 1 \in 1..Len(stack) - 1 /\ 1 \in 1..Len(stack)
      BY <1>1, <2>2, StackFacts
    <3>2. stack[1].state # "Idle"
      BY <1>1, <3>1 DEF BuildingOK, Opened
    <3>3. Len(stack[1].at) = 1 - 1
      BY <1>1, <3>1 DEF Placed
    <3> QED
      BY <1>0, <3>1, <3>2, <3>3 DEF Parts
  <2>3. \A i \in Len(stack)..Len(stack) - 1 : FALSE
    BY <1>1
  <2>4. Len(stack) \in 1..Len(stack)
    BY <1>1
  <2> QED
    BY <2>1, <2>2, <2>3, <2>4 DEF DeferringOK
<1> QED
  BY <1>0, <1>1, <1>3 DEF CollectionsInv, Live, Building, Deferring, Active

LEMMA FinishDeferredKeeps ==
    ASSUME CollectionsInv, FinishDeferred
    PROVE  CollectionsInv'
<1>0. /\ Active /\ mode' = "Strict" /\ startDepth' = 0 /\ phase' = "Walking"
      /\ UNCHANGED <<type, stack, stored, mem, faults>>
  BY DEF FinishDeferred
<1>1. /\ LiveOK(type, stack, stored, mem) /\ BuildingOK(stack, stored, mem)
  BY <1>0, InMode, ActiveFacts
<1> QED
  BY <1>0, <1>1 DEF CollectionsInv, Live, Building, Deferring, Active

\* A step that gives the building up.
LEMMA GivenUpKeeps ==
    ASSUME CollectionsInv, Live, phase' = "Dropping",
           UNCHANGED <<type, mode, stack, stored, mem, faults>>
    PROVE  CollectionsInv'
<1>1. /\ phase' # "Active" /\ phase' # "Walking" /\ phase' # "Built" /\ phase' # "Dropped"
  OBVIOUS
<1>2. LiveOK(type, stack, stored, mem)
  BY DEF CollectionsInv
<1> QED
  BY <1>1, <1>2 DEF CollectionsInv, Live, Building, Deferring, Active

LEMMA CancelKeeps ==
    ASSUME CollectionsInv, Cancel \/ WalkTopFails \/ CleanedUp
    PROVE  CollectionsInv'
<1>1. Live /\ phase' = "Dropping" /\ UNCHANGED <<type, mode, stack, stored, mem, faults>>
  BY DEF Cancel, WalkTopFails, CleanedUp, Live, Active
<1> QED
  BY <1>1, GivenUpKeeps

-----------------------------------------------------------------------------
(* A frame is stored *)

\* Its collection goes on as one with that element stored.
LEMMA EndedSound ==
    ASSUME NEW g, FrameOK(g), g.tracker # "Set", g.state \in {"Item", "Key", "Value"},
           g.cur = Some(StepOpen(g)), StepOpen(g) \in StepSet,
           NEW P, NEW S, NEW m, Sound(g, P, S, m), Tied(g, S)
    PROVE  Sound(Ended(g), P, S \cup {Open(g)}, m)
<1> DEFINE g2 == Ended(g)
           o == Open(g)
<1>1. /\ FrameOK(g2) /\ g2.at = g.at /\ g2.isInit = g.isInit /\ g2.tracker = g.tracker
      /\ g2.rope = g.rope /\ g2.pending = g.pending
      /\ g2.state = IF g.state = "Key" THEN "KeyDone" ELSE "Idle"
  BY EndedIs
<1> HIDE DEF g2, o
<1>2. ListOK(g2, P)
  <2>1. Slots(g2, RopeLen(g2)) = Slots(g, RopeLen(g)) /\ Slots(g2, Marked(g2)) = Slots(g, Marked(g))
    BY <1>1, SameParts
  <2> QED
    BY <2>1 DEF ListOK, Sound
<1>3. ValueOK(g2, m)
  BY <1>1 DEF ValueOK, Sound, IsLeaf
<1>4. MapOK(g2, S \cup {o})
  <2>1. SUFFICES ASSUME g.tracker = "Map" PROVE \E n \in Nat : MapIs(g2, S \cup {o}, n)
    BY <1>1 DEF MapOK
  <2>2. PICK n \in Nat : MapIs(g, S, n)
    BY <2>1 DEF Sound, MapOK
  <2>3. /\ g.state = "Key" => g.cur[1][2] = n
        /\ g.state = "Value" => g.cur[1][2] = n - 1
    BY <2>1, <2>2 DEF Tied
  <2>4. CASE g.state = "Key"
    <3>1. PICK k \in Nat : g.cur = Some(<<"key", k>>)
      BY <2>1, <2>4 DEF FrameOK, StateOK
    <3>2. g.cur[1] = <<"key", n>> /\ StepOpen(g) = <<"key", n>>
      BY <2>1, <2>3, <2>4, <3>1 DEF Some, StepOpen
    <3>3. o = Part(g, "key", n)
      BY <3>2 DEF o, Open, Part
    <3>4. MapIs(g2, S \cup {Part(g, "key", n)}, n + 1)
      BY <1>1, <2>2, <2>4, KeyStored
    <3> QED
      BY <3>3, <3>4
  <2>5. CASE g.state # "Key"
    <3>0. g.state = "Value"
      BY <2>1, <2>5 DEF FrameOK, StateOK
    <3>1. PICK k \in Nat : g.cur = Some(<<"value", k>>)
      BY <2>1, <3>0 DEF FrameOK, StateOK
    <3>2. g.cur[1] = <<"value", n - 1>> /\ StepOpen(g) = <<"value", n - 1>>
      BY <2>1, <2>3, <3>0, <3>1 DEF Some, StepOpen
    <3>3. o = Part(g, "value", n - 1)
      BY <3>2 DEF o, Open, Part
    <3>4. MapIs(g2, S \cup {Part(g, "value", n - 1)}, n)
      BY <1>1, <2>2, <2>5, <3>0, ValueStored
    <3> QED
      BY <3>3, <3>4
  <2> QED
    BY <2>4, <2>5
<1> QED
  BY <1>2, <1>3, <1>4 DEF Sound, g2, o

\* The path p under which the frame on top of s is stored.
PathOf(s, st, d, p) ==
    /\ p \in Steps /\ p # Root /\ p \notin DOMAIN st
    /\ Len(p) = Len(s[Len(s)].at) /\ Last(p) = Last(s[Len(s)].at)
    /\ d = 1 => p = s[Len(s)].at
    /\ d > 1 => Len(p) = 2 /\ Len(s) = 3 /\ s[1].cur = Some(p[1])

LEMMA StoredPlaced ==
    ASSUME NEW t, NEW s, NEW st, NEW m, LiveOK(t, s, st, m), BuildingOK(s, st, m), Len(s) > 1,
           NEW d, NEW p, PathOf(s, st, d, p),
           NEW g2 \in FrameSet, g2.at = s[Len(s) - 1].at, g2.state \in {"Idle", "KeyDone"},
           NEW s2, Returned(s, s2, g2), NEW st2, Stores(st, st2, p, s[Len(s)])
    PROVE  /\ Placed(s2, st2) /\ Opened(s2) /\ s2 # << >> /\ Len(s2) = Len(s) - 1
           /\ s2[Len(s) - 1] = g2 /\ \A j \in 1..Len(s) - 2 : s2[j] = s[j]
           /\ FramesOf(s2, st2) = (FramesOf(s, st) \ {s[Len(s) - 1]}) \cup {g2}
           /\ StoredAt(st2) = StoredAt(st) \cup {s[Len(s)].at}
<1> DEFINE l == Len(s)
           f == s[Len(s)]
           F == FramesOf(s, st)
<1>1. Placed(s, st) /\ Opened(s)
  BY DEF LiveOK, BuildingOK
<1>2. /\ Placed(s2, st) /\ Opened(s2)
      /\ Len(s2) = Len(s) - 1 /\ s2 # << >>
      /\ s2[Len(s) - 1] = g2
      /\ \A j \in 1..Len(s) - 2 : s2[j] = s[j]
      /\ FramesOf(s2, st) = (FramesOf(s, st) \ {s[Len(s)], s[Len(s) - 1]}) \cup {g2}
  BY <1>1, Returns
<1>3. /\ f \in F /\ f \in FrameSet /\ Len(f.at) = Len(s) - 1 /\ f.at # s[Len(s) - 1].at
      /\ Len(s) \in Nat
  <2>1. f \in F /\ FrameOK(f) /\ Len(f.at) = Len(s) - 1 /\ f.at # s[Len(s) - 1].at
    BY Below
  <2>2. Len(s) \in Nat
    BY <1>1, StackFacts
  <2> QED
    BY <2>1, <2>2 DEF FrameOK
<1>4. f.at \notin StoredAt(st)
  <2>1. Len(s) \in 1..Len(s)
    BY <1>3
  <2> QED
    BY <1>1, <2>1 DEF Placed, StoredAt
<1>5. \A i \in 1..Len(s2) : s2[i].at # f.at
  <2>1. \A i \in 1..Len(s2) : Len(s2[i].at) = i - 1
    BY <1>2 DEF Placed
  <2>2. \A i \in 1..Len(s2) : i - 1 # l - 1
    BY <1>2, <1>3
  <2>3. Len(f.at) = l - 1
    BY <1>3
  <2> HIDE DEF f, l
  <2> QED
    BY <2>1, <2>2, <2>3
<1>6. NewPath(s2, st, p, f) /\ Stores(st, st2, p, f)
  BY <1>4, <1>5 DEF PathOf, NewPath
<1> HIDE DEF f
<1>7. /\ Placed(s2, st2)
      /\ FramesOf(s2, st2) = FramesOf(s2, st) \cup {f}
      /\ StoredAt(st2) = StoredAt(st) \cup {f.at}
  BY <1>2, <1>3, <1>4, <1>5, <1>6, StoredAdded
<1>8. FramesOf(s2, st2) = (FramesOf(s, st) \ {s[Len(s) - 1]}) \cup {g2}
  <2>1. f # s[Len(s) - 1] /\ f = s[Len(s)]
    BY <1>3 DEF f
  <2> QED
    BY <1>2, <1>3, <1>7, <2>1
<1> QED
  BY <1>2, <1>7, <1>8 DEF f

\* A frame ends in deferred mode, and is stored.
LEMMA EndedStored ==
    ASSUME NEW t, NEW s, NEW st, NEW m, LiveOK(t, s, st, m), BuildingOK(s, st, m), Len(s) > 1,
           NEW d, DeferringOK(s, st, d), d < Len(s), s[Len(s) - 1].tracker # "Set",
           NEW p, PathOf(s, st, d, p),
           NEW s2, Returned(s, s2, Ended(s[Len(s) - 1])), NEW st2, Stores(st, st2, p, s[Len(s)])
    PROVE  LiveOK(t, s2, st2, m) /\ BuildingOK(s2, st2, m) /\ DeferringOK(s2, st2, d)
<1> DEFINE F == FramesOf(s, st)
           f == s[Len(s)]
           g == s[Len(s) - 1]
           g2 == Ended(g)
           P == PlacesOf(F)
           S == StoredAt(st)
           F2 == FramesOf(s2, st2)
           S2 == StoredAt(st2)
<1>1. /\ f \in F /\ g \in F /\ FrameOK(f) /\ FrameOK(g)
      /\ IsPart(f.at, g.at) /\ f.at = Open(g) /\ f.at \in Steps
      /\ StepOpen(g) \in StepSet
      /\ g.state \in {"Item", "Key", "Value"} /\ f.state \in {"Idle", "KeyDone"}
      /\ f.at # g.at
  BY Below
<1>2. Placed(s, st) /\ Owned(F, m) /\ Len(s) \in Nat /\ Len(s) <= 3
      /\ \A h \in F : FrameOK(h) /\ Tracked(t, h)
  <2>1. Placed(s, st) /\ Owned(F, m) /\ \A h \in F : FrameOK(h) /\ Tracked(t, h)
    BY LiveFacts
  <2> QED
    BY <2>1, StackFacts
<1>3. /\ g.cur = Some(StepOpen(g)) /\ Tied(g, S)
  <2> DEFINE i == Len(s) - 1
  <2>1. i \in d..Len(s) - 1
    BY <1>2 DEF DeferringOK
  <2> HIDE DEF i
  <2>2. (s[i].tracker # "Set" => s[i].cur = Some(StepOpen(s[i]))) /\ Tied(s[i], StoredAt(st))
    BY <2>1 DEF DeferringOK
  <2> QED
    BY <2>2 DEF i
<1>4. \A h \in F : Sound(h, P, S, m)
  BY DEF BuildingOK
<1>5. Sound(g2, P, S \cup {f.at}, m)
  <2> HIDE DEF f, g, P, S
  <2>1. Sound(g, P, S, m)
    BY <1>1, <1>4
  <2>2. Sound(Ended(g), P, S \cup {Open(g)}, m)
    BY <1>1, <1>3, <2>1, EndedSound DEF g
  <2> QED
    BY <1>1, <2>2
<1>6. /\ FrameOK(g2) /\ g2.at = g.at /\ g2.isInit = g.isInit /\ g2.tracker = g.tracker
      /\ g2.rope = g.rope /\ g2.pending = g.pending
      /\ g2.state \in {"Idle", "KeyDone"}
      /\ \A k : Kid(g, k) => Kid(g2, k)
  <2> HIDE DEF g
  <2>1. /\ FrameOK(Ended(g)) /\ Ended(g).at = g.at /\ Ended(g).isInit = g.isInit
        /\ Ended(g).tracker = g.tracker
        /\ Ended(g).rope = g.rope /\ Ended(g).pending = g.pending
        /\ Ended(g).state = IF g.state = "Key" THEN "KeyDone" ELSE "Idle"
        /\ g.tracker # "Set" => \A k : Kid(g, k) => Kid(Ended(g), k)
    BY <1>1, EndedIs
  <2> QED
    BY <2>1 DEF g
<1>7. g2 \in FrameSet /\ Returned(s, s2, g2) /\ Stores(st, st2, p, f)
  BY <1>6 DEF FrameOK
<1> HIDE DEF g2, F2, S2
<1>8. /\ Placed(s2, st2) /\ Opened(s2) /\ s2 # << >> /\ Len(s2) = Len(s) - 1
      /\ s2[Len(s) - 1] = g2 /\ \A j \in 1..Len(s) - 2 : s2[j] = s[j]
      /\ F2 = (F \ {g}) \cup {g2} /\ S2 = S \cup {f.at}
  BY <1>6, <1>7, StoredPlaced DEF F2, S2
<1>9. Owned(F2, m) /\ PlacesOf(F2) = P
  <2> HIDE DEF F, g
  <2>1. /\ Owned((F \ {g}) \cup {g2}, m)
        /\ PlacesOf((F \ {g}) \cup {g2}) = PlacesOf(F)
    BY <1>1, <1>2, <1>6, Moved
  <2> QED
    BY <1>8, <2>1
<1>10. LiveOK(t, s2, st2, m)
  <2>1. Tracked(t, g)
    BY <1>1, <1>2
  <2>2. Tracked(t, g2)
    BY <1>6, <2>1 DEF Tracked, CollectionOf
  <2>3. \A h \in F2 : Tracked(t, h)
    BY <1>2, <1>8, <2>2
  <2> QED
    BY <1>8, <1>9, <2>3 DEF LiveOK, F2
<1> HIDE DEF f, g, F, S
<1>11. \A h \in F2 : Sound(h, P, S2, m)
  <2>1. ASSUME NEW h \in F, h # g PROVE Sound(h, P, S2, m)
    <3>1. h.at # g.at /\ FrameOK(h)
      BY <1>1, <1>2, <2>1 DEF Owned
    <3>2. \A a : IsPart(a, h.at) => a # f.at
      BY <1>1, <3>1 DEF IsPart
    <3>3. \A a : IsPart(a, h.at) => (a \in P => a \in P) /\ (a \in S <=> a \in S2)
      BY <1>8, <3>2
    <3>4. Sound(h, P, S, m)
      BY <1>4
    <3> HIDE DEF P
    <3> QED
      BY <3>1, <3>3, <3>4, SoundKept
  <2>2. Sound(g2, P, S2, m)
    BY <1>5, <1>8 DEF g2
  <2> QED
    BY <1>8, <2>1, <2>2
<1>12. \A q \in DOMAIN st2 : st2[q].state \in {"Idle", "KeyDone"}
  <2>1. \A q \in DOMAIN st : st[q].state \in {"Idle", "KeyDone"}
    BY DEF BuildingOK
  <2> QED
    BY <1>1, <1>7, <2>1 DEF Stores
<1>13. \A j \in 1..Len(s) - 1 : s2[j].at = s[j].at
  <2>1. \A j \in 1..Len(s) - 1 : j \in 1..Len(s) - 2 \/ j = Len(s) - 1
    BY <1>2
  <2> QED
    BY <1>6, <1>8, <2>1 DEF g
<1>14. (d = 1 => AsTheyLie(st2)) /\ (d > 1 => Behind(s2, st2))
  <2>1. d = 1 => AsTheyLie(st2)
    <3>1. SUFFICES ASSUME d = 1 PROVE AsTheyLie(st2)
      OBVIOUS
    <3>2. AsTheyLie(st) /\ p = f.at
      BY <3>1 DEF DeferringOK, PathOf, f
    <3> QED
      BY <1>7, <3>2 DEF AsTheyLie, Stores
  <2>2. d > 1 => Behind(s2, st2)
    <3>1. SUFFICES ASSUME d > 1 PROVE Behind(s2, st2)
      OBVIOUS
    <3>2. Behind(s, st) /\ Len(p) = 2 /\ Len(s) = 3 /\ s[1].cur = Some(p[1])
      BY <3>1 DEF DeferringOK, PathOf
    <3>3. s2[1] = s[1] /\ s2[2].at = s[2].at /\ Len(s2) = 2 /\ g = s[2]
      BY <1>8, <1>13, <3>2 DEF g
    <3>4. Front(f.at) = s2[2].at
      BY <1>1, <3>3 DEF IsPart
    <3> QED
      BY <1>7, <3>2, <3>3, <3>4 DEF Behind, Stores
  <2> QED
    BY <2>1, <2>2
<1>15. DeferringOK(s2, st2, d)
  <2>1. ASSUME NEW j \in d..Len(s) - 2, Tied(s[j], S) PROVE Tied(s[j], S2)
    <3>1. j \in 1..Len(s) /\ Len(s) - 1 \in 1..Len(s) /\ j # Len(s) - 1
      BY <1>2 DEF DeferringOK
    <3>2. s[j].at # g.at /\ s[j].at \in Steps
      BY <1>2, <3>1, StackFacts DEF g
    <3>3. \A a : IsPart(a, s[j].at) => (a \in S2 <=> a \in S)
      BY <1>1, <1>8, <3>2 DEF IsPart
    <3>4. ASSUME NEW n, MapIs(s[j], S2, n) PROVE MapIs(s[j], S, n)
      BY <3>2, <3>3, <3>4, MapSame
    <3> QED
      BY <2>1, <3>4 DEF Tied
  <2>2. \A j \in d..Len(s) - 2 : Tied(s[j], StoredAt(st)) => Tied(s[j], StoredAt(st2))
    BY <2>1 DEF S, S2
  <2>3. Len(s2) = Len(s) - 1 /\ \A j \in 1..Len(s) - 2 : s2[j] = s[j]
    BY <1>8
  <2> QED
    BY <1>2, <1>14, <2>2, <2>3, StillDeferring
<1>16. BuildingOK(s2, st2, m)
  <2>1. \A h \in F2 : Sound(h, PlacesOf(F2), S2, m)
    BY <1>9, <1>11
  <2>2. d = 1 \/ d > 1
    BY DEF DeferringOK
  <2> QED
    BY <1>8, <1>12, <1>14, <2>1, <2>2 DEF BuildingOK, F2, S2
<1> QED
  BY <1>10, <1>15, <1>16

LEMMA ShortPaths ==
    ASSUME NEW x \in StepSet, NEW y \in StepSet
    PROVE  /\ Append(Root, x) = <<x>> /\ <<x>> \o << >> = <<x>>
           /\ Append(<<x>>, y) = <<x, y>> /\ <<x>> \o <<y>> = <<x, y>>
           /\ <<x>> \in Steps /\ Len(<<x>>) = 1 /\ Last(<<x>>) = x /\ <<x>> # Root
           /\ <<x, y>> \in Steps /\ Len(<<x, y>>) = 2 /\ Last(<<x, y>>) = y /\ <<x, y>> # Root
           /\ <<x, y>>[1] = x
<1>1. <<x>> \in Steps /\ <<y>> \in Steps /\ <<x, y>> \in Steps /\ Root \in Steps
  BY DEF Steps, Root
<1>2. /\ Len(<<x>>) = 1 /\ Len(<<y>>) = 1 /\ Len(<<x, y>>) = 2 /\ Len(Root) = 0
      /\ <<x>>[1] = x /\ <<y>>[1] = y /\ <<x, y>>[1] = x /\ <<x, y>>[2] = y
  BY DEF Root
<1>3. Append(Root, x) = <<x>>
  <2>1. Append(Root, x) \in Steps /\ Len(Append(Root, x)) = 0 + 1 /\ Append(Root, x)[0 + 1] = x
    BY <1>1, <1>2, Child
  <2> DEFINE u == Append(Root, x)
             v == <<x>>
  <2>2. u \in Seq(StepSet) /\ v \in Seq(StepSet) /\ Len(u) = Len(v) /\ u[1] = x /\ v[1] = x /\ Len(u) = 1
    BY <1>1, <1>2, <2>1 DEF Steps
  <2> HIDE DEF u, v
  <2>3. \A k \in 1..Len(u) : u[k] = v[k]
    BY <2>2
  <2>4. u = v
    BY <2>2, <2>3, SeqEqual
  <2> QED
    BY <2>4 DEF u, v
<1>4. Append(<<x>>, y) = <<x, y>>
  <2> DEFINE u == Append(<<x>>, y)
             v == <<x, y>>
             w == <<x>>
  <2>1. w \in Steps /\ Len(w) = 1 /\ w[1] = x
    BY <1>1, <1>2
  <2> HIDE DEF w
  <2>2. Append(w, y) \in Steps /\ Len(Append(w, y)) = Len(w) + 1 /\ Append(w, y)[Len(w) + 1] = y
        /\ \A i \in 1..Len(w) : Append(w, y)[i] = w[i]
    BY <2>1, Child
  <2>3. u \in Seq(StepSet) /\ v \in Seq(StepSet) /\ Len(u) = 2 /\ Len(v) = 2
        /\ u[1] = x /\ v[1] = x /\ u[2] = y /\ v[2] = y
    BY <1>1, <1>2, <2>1, <2>2 DEF Steps, w
  <2> HIDE DEF u, v
  <2>4. \A k \in 1..Len(u) : u[k] = v[k]
    BY <2>3
  <2>5. u = v
    BY <2>3, <2>4, SeqEqual
  <2> QED
    BY <2>5 DEF u, v
<1>5. <<x>> \o << >> = <<x>>
  BY <1>1, ConcatEmptySeq DEF Steps
<1>6. <<x>> \o <<y>> = <<x, y>>
  <2> DEFINE a == <<x>>
             b == <<y>>
             u == a \o b
             v == <<x, y>>
  <2>1. a \in Seq(StepSet) /\ b \in Seq(StepSet) /\ Len(a) = 1 /\ Len(b) = 1 /\ a[1] = x /\ b[1] = y
    BY <1>1, <1>2 DEF Steps
  <2> HIDE DEF a, b
  <2>2. u \in Seq(StepSet) /\ Len(u) = Len(a) + Len(b)
        /\ \A i \in 1..Len(a) + Len(b) : u[i] = IF i <= Len(a) THEN a[i] ELSE b[i - Len(a)]
    BY <2>1, ConcatProperties
  <2>3. u \in Seq(StepSet) /\ v \in Seq(StepSet) /\ Len(u) = 2 /\ Len(v) = 2
        /\ u[1] = x /\ v[1] = x /\ u[2] = y /\ v[2] = y
    BY <1>1, <1>2, <2>1, <2>2 DEF Steps
  <2> HIDE DEF u, v
  <2>4. \A k \in 1..Len(u) : u[k] = v[k]
    BY <2>3
  <2>5. u = v
    BY <2>3, <2>4, SeqEqual
  <2> QED
    BY <2>5 DEF a, b, u, v
<1>7. <<x>> # Root /\ <<x, y>> # Root
  BY DEF Root
<1>8. Last(<<x>>) = x /\ Last(<<x, y>>) = y
  BY <1>2 DEF Last
<1> QED
  BY <1>1, <1>2, <1>3, <1>4, <1>5, <1>6, <1>7, <1>8

\* The path step of a frame that has a frame above it.
LEMMA CurIs ==
    ASSUME NEW g, FrameOK(g), g.tracker # "Set", g.state \in {"Item", "Key", "Value"}
    PROVE  g.cur = <<g.cur[1]>> /\ g.cur[1] \in StepSet
<1>1. \E kind \in {"item", "key", "value"}, k \in Nat : g.cur = Some(<<kind, k>>)
  BY DEF FrameOK, StateOK
<1>2. PICK kind \in {"item", "key", "value"}, k \in Nat : g.cur = Some(<<kind, k>>)
  BY <1>1
<1>3. <<kind, k>> \in StepSet
  BY DEF StepSet
<1> QED
  BY <1>2, <1>3 DEF Some

\* Frame::storage_path: the place of the frame, or one with the number of the
\* element that deferred mode was entered in.
LEMMA StoragePathIs ==
    ASSUME LiveOK(type, stack, stored, mem), BuildingOK(stack, stored, mem), Len(stack) > 1,
           NEW d, DeferringOK(stack, stored, d), d < Len(stack), stack[Len(stack) - 1].tracker # "Set"
    PROVE  PathOf(stack, stored, d, StoragePath)
<1> DEFINE s == stack
           f == s[Len(s)]
           g == s[Len(s) - 1]
           p == StoragePath
<1>1. /\ f.at = Open(g) /\ f.at \in Steps /\ StepOpen(g) \in StepSet /\ Last(f.at) = StepOpen(g)
      /\ IsPart(f.at, g.at) /\ Len(f.at) = Len(s) - 1 /\ Len(g.at) = Len(s) - 2
  BY Below
<1>2. Placed(s, stored) /\ Len(s) \in {2, 3} /\ d \in 1..2 /\ s # << >>
      /\ \A i \in 1..Len(s) : FrameOK(s[i])
  <2>1. Placed(s, stored) /\ s # << >> /\ \A i \in 1..Len(s) : FrameOK(s[i])
    BY LiveFacts
  <2>2. Len(s) \in Nat /\ Len(s) <= 3
    BY <2>1, StackFacts
  <2>3. d \in 1..Len(s)
    BY DEF DeferringOK
  <2>4. Len(s) \in {2, 3} /\ d \in 1..2
    <3> DEFINE l == Len(s)
    <3>1. l \in Nat /\ l <= 3 /\ l > 1 /\ d \in 1..l /\ d < l
      BY <2>2, <2>3
    <3> HIDE DEF l
    <3>2. l \in {2, 3} /\ d \in 1..2
      BY <3>1
    <3> QED
      BY <3>2 DEF l
  <2> QED
    BY <2>1, <2>4
<1>3. \A i \in d..Len(s) - 1 : s[i].tracker # "Set" => s[i].cur = Some(StepOpen(s[i]))
  BY DEF DeferringOK
<1>4. /\ s[1].tracker # "Set"
      /\ \A i \in 1..Len(s) - 1 :
            s[i].state \in {"Item", "Key", "Value"} /\ s[i + 1].at = Append(s[i].at, StepOpen(s[i]))
  BY DEF BuildingOK, Opened, DeferringOK
<1>5. f.at \notin StoredAt(stored)
  <2>1. Len(s) \in 1..Len(s)
    BY <1>2
  <2> QED
    BY <1>2, <2>1 DEF Placed, StoredAt
<1> DEFINE x == s[1].cur[1]
           y == StepOpen(g)
<1>6. s[1].cur = <<x>> /\ x \in StepSet
  <2>1. 1 \in 1..Len(s) - 1 /\ 1 \in 1..Len(s)
    BY <1>2
  <2> QED
    BY <1>2, <1>4, <2>1, CurIs
<1>7. s[1].at = Root
  <2>1. 1 \in 1..Len(s)
    BY <1>2
  <2>2. Len(s[1].at) = 1 - 1
    BY <1>2, <2>1 DEF Placed
  <2>3. s[1].at \in Steps
    BY <1>2, <2>1, StackFacts
  <2> QED
    BY <2>2, <2>3, RootIs
<1>8. d = 1 => x = StepOpen(s[1])
  <2>1. d = 1 => 1 \in d..Len(s) - 1
    BY <1>2
  <2>2. d = 1 => s[1].cur = Some(StepOpen(s[1]))
    BY <1>3, <1>4, <2>1
  <2> QED
    BY <2>2 DEF Some
<1>9. d = 1 => AsTheyLie(stored)
  BY DEF DeferringOK
<1> HIDE DEF x
<1>10. CASE Len(s) = 2
  <2>1. d = 1 /\ g = s[1]
    BY <1>2, <1>10
  <2>2. p = <<x>> \o << >>
    BY <1>6, <1>10 DEF StoragePath, StepFrom, None
  <2>3. f.at = Append(Root, x)
    BY <1>1, <1>7, <1>8, <2>1 DEF Open
  <2> HIDE DEF p, f, g, y
  <2>4. p = <<x>> /\ f.at = <<x>>
    BY <1>6, <2>2, <2>3, ShortPaths
  <2>5. p \in Steps /\ p # Root
    BY <1>6, <2>4, ShortPaths
  <2>6. p \notin DOMAIN stored
    BY <1>5, <1>9, <2>1, <2>4 DEF AsTheyLie, StoredAt
  <2> QED
    BY <2>1, <2>4, <2>5, <2>6 DEF PathOf, p, f
<1>11. CASE Len(s) = 3
  <2>1. g = s[2] /\ 2 \in d..Len(s) - 1
    BY <1>2, <1>11
  <2>2. g.cur = <<y>> /\ y \in StepSet
    BY <1>1, <1>3, <2>1 DEF Some
  <2>3. p = <<x>> \o <<y>>
    BY <1>6, <1>11, <2>1, <2>2 DEF StoragePath, StepFrom, None
  <2>4. f.at = Append(g.at, y) /\ g.at = Append(Root, StepOpen(s[1]))
    <3>1. 1 \in 1..Len(s) - 1 /\ s[1 + 1] = g
      BY <1>11
    <3>2. s[1 + 1].at = Append(s[1].at, StepOpen(s[1]))
      BY <1>4, <3>1
    <3> QED
      BY <1>1, <1>7, <3>1, <3>2 DEF Open
  <2>5. Len(f.at) = 2 /\ Last(f.at) = y
    BY <1>1, <1>11
  <2>6. d = 1 => f.at = Append(Append(Root, x), y)
    BY <1>8, <2>4
  <2>7. g.at \in Steps
    BY <1>2, <2>1, StackFacts, <1>11
  <2> HIDE DEF p, f, g, y
  <2>8. p = <<x, y>>
    BY <1>6, <2>2, <2>3, ShortPaths
  <2>9. p \in Steps /\ p # Root /\ Len(p) = 2 /\ Last(p) = y /\ p[1] = x
    BY <1>6, <2>2, <2>8, ShortPaths
  <2>10. d = 1 => f.at = p
    <3>1. Append(Append(Root, x), y) = <<x, y>>
      <4>1. Append(Root, x) = <<x>> /\ Append(<<x>>, y) = <<x, y>>
        BY <1>6, <2>2, ShortPaths
      <4> QED
        BY <4>1
    <3> QED
      BY <2>6, <2>8, <3>1
  <2>11. p \notin DOMAIN stored
    <3>1. SUFFICES ASSUME p \in DOMAIN stored PROVE FALSE
      OBVIOUS
    <3>2. CASE d = 1
      BY <1>5, <1>9, <2>10, <3>1, <3>2 DEF AsTheyLie, StoredAt
    <3>3. CASE d # 1
      <4> DEFINE a == stored[p].at
      <4>1. Behind(s, stored)
        BY <3>3 DEF DeferringOK
      <4>2. Front(a) = g.at /\ Last(a) = y /\ Len(a) = 2
        BY <1>2, <2>1, <2>9, <3>1, <4>1 DEF Behind, Placed
      <4>3. a \in Steps
        BY <1>2, <3>1, StackFacts
      <4> HIDE DEF a
      <4>4. a = Append(g.at, y)
        <5>1. a # Root
          BY <4>2, RootIs
        <5>2. a = Append(Front(a), Last(a))
          BY <4>3, <5>1, Parent
        <5> QED
          BY <4>2, <5>2
      <4>5. a \in StoredAt(stored)
        BY <3>1 DEF a, StoredAt
      <4> QED
        BY <1>5, <2>4, <4>4, <4>5
    <3> QED
      BY <3>2, <3>3
  <2>12. s[1].cur = Some(p[1])
    BY <1>6, <2>9 DEF Some
  <2> QED
    BY <1>11, <2>5, <2>9, <2>10, <2>11, <2>12 DEF PathOf, p, f
<1> QED
  BY <1>2, <1>10, <1>11

LEMMA EndDeferredKeeps ==
    ASSUME CollectionsInv, EndDeferred
    PROVE  CollectionsInv'
<1> DEFINE f == stack[Len(stack)]
           g == stack[Len(stack) - 1]
           g2 == Ended(g)
           p == StoragePath
           d == startDepth
<1>0. /\ Active /\ mode = "Deferred" /\ Len(stack) > 1 /\ Len(stack) > d /\ g.tracker # "Set"
      /\ UNCHANGED <<type, mode, startDepth, phase>>
  BY DEF EndDeferred
<1>1. /\ LiveOK(type, stack, stored, mem) /\ BuildingOK(stack, stored, mem)
      /\ Placed(stack, stored) /\ Top = f
      /\ Memory.at = mem /\ Memory.faults = {} /\ DeferringOK(stack, stored, d)
      /\ Len(stack) \in Nat
  BY <1>0, InMode, ActiveFacts
<1>2. d < Len(stack)
  BY <1>0, <1>1 DEF DeferringOK
<1>3. PathOf(stack, stored, d, p)
  <2> HIDE DEF d, p, g
  <2>1. PathOf(stack, stored, d, StoragePath)
    BY <1>0, <1>1, <1>2, StoragePathIs DEF g
  <2> QED
    BY <2>1 DEF p
<1>4. p \notin DOMAIN stored
  BY <1>3 DEF PathOf
<1>5. mem' = mem /\ faults' = {}
  <2>1. MemoryIs(Displaced(Memory))
    BY DEF EndDeferred
  <2>2. Displaced(Memory) = Memory
    BY <1>4 DEF Displaced
  <2> QED
    BY <1>1, <2>1, <2>2 DEF MemoryIs
<1>6. Stores(stored, stored', p, f)
  <2>1. stored' = [q \in DOMAIN stored \cup {p} |-> IF q = p THEN f ELSE stored[q]]
    BY <1>1 DEF EndDeferred, Stored
  <2> HIDE DEF p, f
  <2> QED
    BY <2>1 DEF Stores
<1>7. Returned(stack, stack', g2)
  <2> DEFINE k == Len(stack) - 1
             r == Pop(stack)
  <2>1. stack' = [r EXCEPT ![k] = Ended(@)]
    BY DEF EndDeferred
  <2>2. r[k] = g /\ r \in Seq(FrameSet) /\ k \in 1..Len(r)
    <3>1. stack \in Seq(FrameSet) /\ Len(stack) \in Nat /\ k \in 1..Len(stack) - 1
      BY <1>0, <1>1, StackFacts DEF Placed
    <3>2. stack # << >>
      BY <1>0, <3>1, EmptySeq
    <3> QED
      BY <3>1, <3>2, AllButLast DEF Pop
  <2> HIDE DEF r, k, g
  <2>3. stack' = [r EXCEPT ![k] = Ended(g)]
    BY <2>1, <2>2
  <2>4. FrameOK(g) /\ g.state \in {"Item", "Key", "Value"}
    BY <1>0, <1>1, Below DEF g
  <2>5. g2 \in FrameSet
    BY <2>4, EndedIs DEF FrameOK
  <2> HIDE DEF g2
  <2>6. Returned(stack, [Pop(stack) EXCEPT ![Len(stack) - 1] = g2], g2)
    BY <1>0, <1>1, <2>5, ReturnedIs
  <2> QED
    BY <2>3, <2>6 DEF g2, r, k
<1>8. /\ LiveOK(type, stack', stored', mem') /\ BuildingOK(stack', stored', mem')
      /\ DeferringOK(stack', stored', startDepth)
  <2> DEFINE s2 == stack'
             st2 == stored'
  <2>1. /\ Returned(stack, s2, Ended(stack[Len(stack) - 1]))
        /\ Stores(stored, st2, p, stack[Len(stack)])
        /\ stack[Len(stack) - 1].tracker # "Set"
    BY <1>0, <1>6, <1>7
  <2> HIDE DEF s2, st2, p, d
  <2>2. LiveOK(type, s2, st2, mem) /\ BuildingOK(s2, st2, mem) /\ DeferringOK(s2, st2, d)
    BY <1>0, <1>1, <1>2, <1>3, <2>1, EndedStored
  <2> QED
    BY <1>5, <2>2 DEF s2, st2, d
<1> QED
  BY <1>0, <1>5, <1>8, StillActive

\* Freeing nothing.
LEMMA FreedNothing ==
    ASSUME NEW F, NEW m, m.faults = {}, Owned(F, m.at)
    PROVE  LET n == Freed(m, {}) IN
           /\ n.faults = {} /\ Owned(F, n.at)
           /\ DOMAIN n.at = DOMAIN m.at /\ \A a \in DOMAIN m.at : n.at[a] = m.at[a]
<1> DEFINE n == Freed(m, {})
<1>1. n.at = [a \in DOMAIN m.at \ {} |-> m.at[a]] /\ n.faults = {}
  BY FreedIs
<1> DEFINE M == n.at
<1>2. DOMAIN M = DOMAIN m.at /\ \A a \in DOMAIN m.at : M[a] = m.at[a]
  BY <1>1
<1> HIDE DEF n, M
<1>3. Owned(F, M)
  BY <1>2, SameMemory
<1> QED
  BY <1>1, <1>2, <1>3 DEF n, M

LEMMA EndElementKeeps ==
    ASSUME CollectionsInv, EndElement, Usage = {}
    PROVE  CollectionsInv'
<1> DEFINE F == FramesOf(stack, stored)
           P == PlacesOf(F)
           S == StoredAt(stored)
           f == stack[Len(stack)]
           g == stack[Len(stack) - 1]
           g2 == Ended(g)
           d == startDepth
           n == Freed(Memory, {})
           m2 == Insert(n, g, f.at)
<1>0. /\ Active /\ mode = "Deferred" /\ Len(stack) > 1 /\ Len(stack) > d /\ g.tracker = "Set"
      /\ Holds(Memory, Top.at)
      /\ UNCHANGED <<type, mode, startDepth, stored, phase>>
  BY DEF EndElement
<1>1. /\ LiveOK(type, stack, stored, mem) /\ BuildingOK(stack, stored, mem)
      /\ Placed(stack, stored) /\ Owned(F, mem) /\ Top = f /\ stack # << >>
      /\ Memory.at = mem /\ Memory.faults = {} /\ DeferringOK(stack, stored, d)
      /\ Len(stack) \in Nat
  BY <1>0, InMode, ActiveFacts
<1>2. d < Len(stack)
  BY <1>0, <1>1 DEF DeferringOK
<1>3. Len(stack) > 2
  <2>1. stack[1].tracker # "Set"
    BY <1>0, <1>1 DEF DeferringOK
  <2> DEFINE l == Len(stack)
  <2>2. l - 1 # 1
    BY <1>0, <2>1
  <2>3. l \in Nat /\ l > 1
    BY <1>0, <1>1
  <2> HIDE DEF l
  <2>4. l > 2
    BY <2>2, <2>3
  <2> QED
    BY <2>4 DEF l
<1>4. /\ f \in F /\ g \in F /\ FrameOK(f) /\ FrameOK(g)
      /\ IsPart(f.at, g.at) /\ f.at \in Steps
      /\ Last(f.at) = StepOpen(g)
      /\ g.state \in {"Item", "Key", "Value"}
      /\ f.at # g.at /\ f.at \in DOMAIN mem /\ Len(f.at) = Len(stack) - 1
  BY <1>0, <1>1, Below
<1>5. f.tracker = "Scalar"
  <2>1. Len(stack) <= 3
    BY <1>1, StackFacts
  <2>2. Len(f.at) = 2
    <3> DEFINE l == Len(stack)
               k == Len(f.at)
    <3>1. l \in Nat /\ l <= 3 /\ l > 2 /\ k = l - 1
      BY <1>1, <1>3, <1>4, <2>1
    <3> HIDE DEF l, k
    <3>2. k = 2
      BY <3>1
    <3> QED
      BY <3>2 DEF k
  <2> HIDE DEF f
  <2> QED
    BY <1>4, <2>2 DEF FrameOK, IsLeaf
<1>6. OwnOK(f, P, mem) /\ Sound(f, P, S, mem) /\ Sound(g, P, S, mem)
  <2>1. OwnOK(f, P, mem)
    BY <1>1, <1>4, OwnedFacts
  <2> QED
    BY <1>1, <1>4, <2>1 DEF BuildingOK
<1>7. Slots(f, RopeLen(f)) = {} /\ \A a \in DOMAIN mem : ~IsPart(a, f.at)
  <2> HIDE DEF f, P
  <2>1. Slots(f, RopeLen(f)) = {} /\ \A x : ~Kid(f, x)
    BY <1>4, <1>5, NoElements
  <2> QED
    BY <1>6, <2>1 DEF OwnOK
<1>8. MemoryIs(m2) /\ stack' = [Pop(stack) EXCEPT ![Len(stack) - 1] = Ended(@)]
  BY <1>1, <1>7 DEF EndElement
<1>9. Bare(f, P)
  <2>1. \A q \in DOMAIN stored : stored[q] \in F
    BY <1>1, StackFacts
  <2>2. \A h \in F : h.at \in DOMAIN mem
    BY <1>1 DEF Owned, OwnOK
  <2>3. \A q \in DOMAIN stored : ~IsPart(stored[q].at, f.at)
    BY <1>7, <2>1, <2>2
  <2> QED
    BY <1>1, <2>3, TopIsBare
<1>10. Ready(f)
  <2>1. f.isInit
    <3>1. mem[f.at] # None
      BY <1>0, <1>1 DEF Holds
    <3> QED
      BY <1>6, <3>1 DEF OwnOK
  <2>2. Len(f.pending) = 0
    BY <1>4, <1>5, FrameFacts
  <2> HIDE DEF f
  <2> QED
    BY <2>1, <2>2 DEF Ready
<1> HIDE DEF F, f, g
<1>11. LET h == Ended(g) IN
       /\ FrameOK(h) /\ h.tracker = "Set" /\ h.at = g.at /\ h.isInit = g.isInit
       /\ h.state = "Idle"
       /\ \A Q : ListOK(h, Q)
       /\ \A T : MapOK(h, T)
  BY <1>0, <1>4, SetEnded
<1>12. /\ FrameOK(g2) /\ g2.tracker = "Set" /\ g2.at = g.at /\ g2.isInit = g.isInit
       /\ g2.state = "Idle" /\ ListOK(g2, P \ {f.at}) /\ MapOK(g2, S)
  BY <1>11
<1>13. n.faults = {} /\ Owned(F, n.at)
       /\ DOMAIN n.at = DOMAIN mem /\ \A a \in DOMAIN mem : n.at[a] = mem[a]
  BY <1>1, FreedNothing
<1> HIDE DEF g2, n
<1>14. Finish(n, f) = n /\ Last(f.at) = Element
  BY <1>0, <1>4, <1>5 DEF Finish, StepOpen
<1>15. LET x == Insert(Finish(n, f), g, f.at) IN
       /\ LeftTo(F, f, g, g2, n.at, x.at)
       /\ x.faults = {}
       /\ IsSeq(n.at[g.at][1]) => IsSeq(x.at[g.at][1])
  <2>1. n.faults = {} /\ Owned(F, n.at) /\ f \in F /\ Bare(f, PlacesOf(F)) /\ Ready(f)
        /\ g \in F /\ IsPart(f.at, g.at) /\ g.tracker = "Set" /\ Last(f.at) = Element
        /\ FrameOK(g2) /\ g2.tracker = "Set" /\ g2.at = g.at /\ g2.isInit = g.isInit
    BY <1>0, <1>4, <1>9, <1>10, <1>12, <1>13, <1>14
  <2> HIDE DEF P, S
  <2> QED
    BY <2>1, HandedToSet
<1>16. LeftTo(F, f, g, g2, n.at, m2.at) /\ m2.faults = {}
       /\ (IsSeq(n.at[g.at][1]) => IsSeq(m2.at[g.at][1]))
  BY <1>14, <1>15
<1>17. LeftTo(F, f, g, g2, mem, m2.at)
  <2>1. \A a \in PlacesOf(F) : a \in DOMAIN mem
    BY <1>1 DEF PlacesOf, Owned, OwnOK
  <2> HIDE DEF m2
  <2> QED
    BY <1>13, <1>16, <2>1 DEF LeftTo
<1>18. g.at \in DOMAIN mem
  BY <1>1, <1>4, OwnedFacts
<1> HIDE DEF m2
<1>19. Sound(g2, P \ {f.at}, S, m2.at)
  <2>1. ValueOK(g2, m2.at)
    BY <1>6, <1>12, <1>13, <1>16, <1>18 DEF Sound, ValueOK, IsLeaf
  <2> QED
    BY <1>12, <2>1 DEF Sound
<1>20. Returned(stack, stack', g2)
  <2> DEFINE k == Len(stack) - 1
             r == Pop(stack)
  <2>1. stack' = [r EXCEPT ![k] = Ended(@)]
    BY <1>8
  <2>2. r[k] = g /\ r \in Seq(FrameSet) /\ k \in 1..Len(r)
    <3>1. stack \in Seq(FrameSet) /\ k \in 1..Len(stack) - 1
      BY <1>0, <1>1 DEF Placed
    <3> QED
      BY <1>1, <3>1, AllButLast DEF Pop, g
  <2> HIDE DEF r, k
  <2>3. stack' = [r EXCEPT ![k] = g2]
    BY <2>1, <2>2 DEF g2
  <2>4. g2 \in FrameSet
    BY <1>12 DEF FrameOK
  <2>5. Returned(stack, [Pop(stack) EXCEPT ![Len(stack) - 1] = g2], g2)
    BY <1>0, <1>1, <2>4, ReturnedIs
  <2> QED
    BY <2>3, <2>5 DEF r, k
<1>21. /\ LiveOK(type, stack', stored, mem') /\ BuildingOK(stack', stored, mem')
       /\ DeferringOK(stack', stored, d)
  <2> DEFINE M2 == mem'
             s2 == stack'
             s == stack
             st == stored
  <2>1. M2 = m2.at /\ Returned(s, s2, g2)
    BY <1>8, <1>20 DEF MemoryIs
  <2>2. LeftTo(FramesOf(s, st), s[Len(s)], s[Len(s) - 1], g2, mem, M2)
    BY <1>17, <2>1 DEF F, f, g
  <2>3. Sound(g2, PlacesOf(FramesOf(s, st)) \ {s[Len(s)].at}, StoredAt(st), M2)
    BY <1>19, <2>1 DEF F, f
  <2>4. g2.at = s[Len(s) - 1].at /\ g2.tracker = s[Len(s) - 1].tracker
        /\ FrameOK(g2) /\ g2.state \in {"Idle", "KeyDone"} /\ g2 \in FrameSet
    BY <1>0, <1>12 DEF g, FrameOK
  <2>5. /\ LiveOK(type, s, st, mem) /\ BuildingOK(s, st, mem) /\ Len(s) > 1 /\ Len(s) > 2
        /\ Placed(s, st) /\ Opened(s) /\ DeferringOK(s, st, d) /\ d < Len(s) /\ Len(s) \in Nat
    BY <1>0, <1>1, <1>2, <1>3 DEF BuildingOK
  <2> HIDE DEF M2, s2, s, st, d
  <2>6. LiveOK(type, s2, st, M2) /\ BuildingOK(s2, st, M2)
    BY <2>1, <2>2, <2>3, <2>4, <2>5, EndedBuilding
  <2>7. /\ Len(s2) = Len(s) - 1 /\ \A j \in 1..Len(s) - 2 : s2[j] = s[j]
        /\ Behind(s, st) => Behind(s2, st)
    BY <2>1, <2>4, <2>5, Returns
  <2>8. (d = 1 => AsTheyLie(st)) /\ (d > 1 => Behind(s2, st))
    BY <2>5, <2>7 DEF DeferringOK
  <2>9. DeferringOK(s2, st, d)
    BY <2>5, <2>7, <2>8, StillDeferring
  <2> QED
    BY <2>6, <2>9 DEF M2, s2, s, st
<1>22. faults' = {}
  BY <1>8, <1>16 DEF MemoryIs
<1> QED
  BY <1>0, <1>21, <1>22, StillActive DEF d

-----------------------------------------------------------------------------
(* The walk *)

\* A stored frame and its path.
LEMMA StoredFacts ==
    ASSUME NEW s, NEW st, Placed(s, st), NEW p \in DOMAIN st
    PROVE  /\ p \in Steps /\ p # Root /\ Len(p) \in Nat \ {0}
           /\ st[p].at \in Steps /\ st[p].at # Root
           /\ Len(st[p].at) = Len(p) /\ Last(st[p].at) = Last(p)
           /\ Len(Front(p)) = Len(p) - 1 /\ Len(Front(st[p].at)) = Len(p) - 1
           /\ Last(p) = p[Len(p)] /\ Last(p) \in StepSet /\ LastStep(p) = Last(p)
           /\ \A i \in 1..Len(p) - 1 : Front(p)[i] = p[i]
           /\ IsPart(st[p].at, Front(st[p].at))
<1>1. p \in Steps /\ p # Root /\ Len(p) = Len(st[p].at) /\ Last(p) = Last(st[p].at)
  BY DEF Placed
<1>2. st[p].at \in Steps
  BY StackFacts
<1>3. /\ Len(p) \in Nat \ {0} /\ Len(Front(p)) = Len(p) - 1 /\ Last(p) \in StepSet
      /\ Last(p) = LastStep(p) /\ LastStep(p) = p[Len(p)]
      /\ \A i \in 1..Len(p) - 1 : Front(p)[i] = p[i]
  BY <1>1, Parent
<1>4. st[p].at # Root
  BY <1>1, <1>3, RootIs
<1>5. Len(Front(st[p].at)) = Len(st[p].at) - 1
  BY <1>2, <1>4, Parent
<1> QED
  BY <1>1, <1>2, <1>3, <1>4, <1>5 DEF IsPart

\* The parent is found, by path or by depth.
LEMMA ParentIs ==
    ASSUME LiveOK(type, stack, stored, mem), BuildingOK(stack, stored, mem), NEW p \in DOMAIN stored
    PROVE  /\ ParentOf(p) \in FramesOf(stack, stored)
           /\ ParentOf(p).at = Front(stored[p].at)
           /\ ~ParentIsStored(p) => Len(p) \in 1..Len(stack)
<1> DEFINE F == FramesOf(stack, stored)
           f == stored[p]
<1>1. /\ Placed(stack, stored) /\ Owned(F, mem)
      /\ \A i \in 1..Len(stack) : stack[i] \in F
      /\ \A q \in DOMAIN stored : stored[q] \in F
  BY LiveFacts
<1>2. /\ f.at \in Steps /\ f.at # Root /\ Len(f.at) = Len(p) /\ Len(p) \in Nat \ {0}
      /\ Len(Front(p)) = Len(p) - 1 /\ Len(Front(f.at)) = Len(p) - 1
  BY <1>1, StoredFacts
<1>3. Len(stack) \in Nat
  BY <1>1, StackFacts
<1>4. CASE AsTheyLie(stored)
  <2>1. f.at = p
    BY <1>4 DEF AsTheyLie
  <2>2. CASE ParentIsStored(p)
    <3>1. ParentOf(p) = stored[Front(p)] /\ Front(p) \in DOMAIN stored
      BY <2>2 DEF ParentIsStored, ParentOf
    <3>2. stored[Front(p)].at = Front(p)
      BY <1>4, <3>1 DEF AsTheyLie
    <3> QED
      BY <1>1, <2>1, <2>2, <3>1, <3>2
  <2>3. CASE ~ParentIsStored(p)
    <3>1. ParentOf(p) = stack[Len(p)] /\ Front(p) \notin DOMAIN stored
      BY <2>3 DEF ParentIsStored, ParentOf
    <3>2. f.at \in DOMAIN mem
      BY <1>1, OwnedFacts
    <3>3. Front(p) \in PlacesOf(F)
      BY <1>1, <1>2, <2>1, <3>2 DEF Owned
    <3>4. PICK h \in F : h.at = Front(p)
      BY <3>3 DEF PlacesOf
    <3>5. \A q \in DOMAIN stored : h # stored[q]
      BY <1>4, <3>1, <3>4 DEF AsTheyLie
    <3>6. PICK i \in 1..Len(stack) : h = stack[i]
      BY <3>5 DEF FramesOf
    <3>7. i = Len(p)
      <4>1. Len(stack[i].at) = i - 1 /\ i \in Nat
        BY <1>1, <1>3 DEF Placed
      <4> QED
        BY <1>2, <3>4, <3>6, <4>1
    <3> QED
      BY <2>1, <3>1, <3>4, <3>6, <3>7
  <2> QED
    BY <2>2, <2>3
<1>5. CASE Behind(stack, stored)
  <2>1. Len(p) = 2 /\ Len(stack) >= 2 /\ Front(f.at) = stack[2].at
    BY <1>5 DEF Behind
  <2>2. Front(p) \notin DOMAIN stored
    <3>1. \A q \in DOMAIN stored : Len(q) = 2
      BY <1>5 DEF Behind
    <3>2. Len(Front(p)) # 2
      BY <1>2, <2>1
    <3> QED
      BY <3>1, <3>2
  <2>3. ParentOf(p) = stack[2] /\ 2 \in 1..Len(stack)
    BY <1>3, <2>1, <2>2 DEF ParentIsStored, ParentOf
  <2> QED
    BY <1>1, <2>1, <2>3
<1> QED
  BY <1>4, <1>5 DEF BuildingOK

\* Of the stored elements of a collection, the walk takes the first.
LEMMA WalkOrder ==
    ASSUME LiveOK(type, stack, stored, mem), BuildingOK(stack, stored, mem),
           NEW p \in DOMAIN stored, First(p),
           NEW q \in DOMAIN stored, q # p, Front(stored[q].at) = Front(stored[p].at)
    PROVE  StepBefore(Last(p), Last(q))
<1>1. Placed(stack, stored)
  BY LiveFacts
<1>2. /\ p \in Steps /\ Len(p) \in Nat \ {0} /\ Last(p) = p[Len(p)]
      /\ Len(Front(stored[p].at)) = Len(p) - 1
      /\ \A i \in 1..Len(p) - 1 : Front(p)[i] = p[i]
  BY <1>1, StoredFacts
<1>3. /\ q \in Steps /\ Len(q) \in Nat \ {0} /\ Last(q) = q[Len(q)]
      /\ Len(Front(stored[q].at)) = Len(q) - 1
      /\ \A i \in 1..Len(q) - 1 : Front(q)[i] = q[i]
  BY <1>1, StoredFacts
<1>4. Len(q) = Len(p)
  BY <1>2, <1>3
<1>5. PICK i \in 1..Len(p) : StepBefore(p[i], q[i])
  <2>1. Before(p, q)
    BY DEF First
  <2>2. ~(Len(p) > Len(q))
    BY <1>2, <1>3, <1>4
  <2> QED
    BY <2>1, <2>2 DEF Before
<1>6. \A j \in 1..Len(p) - 1 : p[j] = q[j]
  <2>1. CASE AsTheyLie(stored)
    <3>1. stored[p].at = p /\ stored[q].at = q
      BY <2>1 DEF AsTheyLie
    <3> QED
      BY <1>2, <1>3, <1>4, <3>1
  <2>2. CASE Behind(stack, stored)
    <3>1. Len(p) = 2 /\ stack[1].cur = Some(p[1]) /\ stack[1].cur = Some(q[1])
      BY <2>2 DEF Behind
    <3>2. p[1] = q[1]
      BY <3>1 DEF Some
    <3>3. \A j \in 1..Len(p) - 1 : j = 1
      BY <3>1
    <3> QED
      BY <3>2, <3>3
  <2> QED
    BY <2>1, <2>2 DEF BuildingOK
<1>7. ASSUME i # Len(p) PROVE FALSE
  <2>1. i \in 1..Len(p) - 1
    BY <1>2, <1>7
  <2>2. StepBefore(p[i], p[i])
    BY <1>5, <1>6, <2>1
  <2>3. p[i] \in StepSet
    <3>1. p \in Seq(StepSet)
      BY <1>2 DEF Steps
    <3> QED
      BY <3>1, ElementOfSeq
  <2>4. p[i][2] \in Nat
    BY <2>3 DEF StepSet
  <2> QED
    BY <2>2, <2>4 DEF StepBefore
<1> QED
  BY <1>2, <1>3, <1>4, <1>5, <1>7

\* An element that has a frame is stored, or the one its collection is open for.
LEMMA StoredOrOpen ==
    ASSUME NEW t, NEW s, NEW st, NEW m, LiveOK(t, s, st, m), BuildingOK(s, st, m),
           NEW g \in FramesOf(s, st), NEW a \in PlacesOf(FramesOf(s, st)), IsPart(a, g.at)
    PROVE  a \in StoredAt(st) \/ (a = Open(g) /\ g.state \in {"Item", "Key", "Value"}
                                  /\ \E i \in 1..Len(s) : a = s[i].at)
<1>1. /\ Placed(s, st) /\ Owned(FramesOf(s, st), m)
      /\ \A i \in 1..Len(s) : s[i] \in FramesOf(s, st)
  BY LiveFacts
<1>2. CASE \E q \in DOMAIN st : a = st[q].at
  BY <1>2 DEF StoredAt
<1>3. CASE \E i \in 1..Len(s) : a = s[i].at
  <2>1. PICK i \in 1..Len(s) : a = s[i].at
    BY <1>3
  <2> DEFINE k == i - 1
  <2>2. Len(s) \in Nat /\ i \in Nat /\ i = k + 1
    BY <1>1, StackFacts
  <2>3. i # 1
    <3>1. SUFFICES ASSUME i = 1 PROVE FALSE
      OBVIOUS
    <3>2. Len(s[1].at) = 1 - 1 /\ s[1].at \in Steps
      BY <1>1, <2>1, <3>1, StackFacts DEF Placed
    <3> QED
      BY <2>1, <3>1, <3>2, RootIs DEF IsPart
  <2>4. k \in 1..Len(s) - 1 /\ k \in 1..Len(s)
    BY <2>2, <2>3
  <2> HIDE DEF k
  <2>5. IsPart(s[k + 1].at, s[k].at) /\ s[k + 1].at = a
    BY <1>1, <2>1, <2>2, <2>4 DEF Placed
  <2>6. s[k].at = g.at
    BY <2>5 DEF IsPart
  <2>7. s[k] = g
    BY <1>1, <2>4, <2>6 DEF Owned
  <2>8. s[k].state \in {"Item", "Key", "Value"} /\ s[k + 1].at = Append(s[k].at, StepOpen(s[k]))
    BY <2>4 DEF BuildingOK, Opened
  <2> QED
    BY <2>1, <2>5, <2>7, <2>8 DEF Open
<1> QED
  BY <1>2, <1>3 DEF PlacesOf, FramesOf

\* What is known of the frame p that the walk takes, and of its parent g.
Walks(p, g) ==
    /\ LiveOK(type, stack, stored, mem) /\ BuildingOK(stack, stored, mem)
    /\ p \in DOMAIN stored /\ First(p) /\ g = ParentOf(p)

LEMMA WalkFacts ==
    ASSUME NEW p, NEW g, Walks(p, g)
    PROVE  LET F == FramesOf(stack, stored)
               f == stored[p] IN
           /\ Placed(stack, stored) /\ Owned(F, mem) /\ p \in DOMAIN stored
           /\ f \in F /\ g \in F /\ FrameOK(f) /\ FrameOK(g) /\ g.at \in Steps
           /\ IsPart(f.at, g.at) /\ f.at = Append(g.at, Last(p)) /\ Last(p) \in StepSet
           /\ Last(f.at) = Last(p) /\ LastStep(p) = Last(p) /\ f.at \in Steps
           /\ Kid(g, Last(p)) /\ f.at \notin FinishedParts(g)
           /\ f.at \in PlacesOf(F) /\ f.at \in StoredAt(stored) /\ f.at \in DOMAIN mem
           /\ Bare(f, PlacesOf(F)) /\ f # g
           /\ Sound(f, PlacesOf(F), StoredAt(stored), mem)
           /\ Sound(g, PlacesOf(F), StoredAt(stored), mem)
<1> DEFINE F == FramesOf(stack, stored)
           f == stored[p]
<1>0. /\ LiveOK(type, stack, stored, mem) /\ BuildingOK(stack, stored, mem)
      /\ p \in DOMAIN stored /\ First(p) /\ g = ParentOf(p)
  BY DEF Walks
<1>1. /\ Placed(stack, stored) /\ Owned(F, mem) /\ f \in F
  BY <1>0, LiveFacts
<1>2. g \in F /\ g.at = Front(f.at)
  BY <1>0, ParentIs
<1>3. /\ OwnOK(f, PlacesOf(F), mem) /\ FrameOK(f) /\ f.at \in DOMAIN mem /\ f.at \in PlacesOf(F)
      /\ f.at \in Steps
  BY <1>1, OwnedFacts
<1>4. OwnOK(g, PlacesOf(F), mem) /\ FrameOK(g) /\ g.at \in Steps
  BY <1>1, <1>2, OwnedFacts
<1>5. /\ IsPart(f.at, g.at) /\ f.at # Root
      /\ Last(f.at) = Last(p) /\ LastStep(p) = Last(p) /\ Last(p) \in StepSet
  BY <1>0, <1>1, <1>2, StoredFacts
<1>6. f.at = Append(Front(f.at), Last(f.at))
  BY <1>3, <1>5, Parent
<1>7. Kid(g, Last(p)) /\ f.at \notin FinishedParts(g)
  BY <1>3, <1>4, <1>5 DEF OwnOK
<1>8. f.at \in StoredAt(stored)
  BY <1>0 DEF StoredAt
<1>9. Bare(f, PlacesOf(F))
  BY <1>0, <1>1, FirstIsBare
<1>10. f # g
  <2> HIDE DEF f
  <2> QED
    BY <1>3, <1>5, NotInItself
<1>11. \A h \in F : Sound(h, PlacesOf(F), StoredAt(stored), mem)
  BY <1>0 DEF BuildingOK
<1>12. Sound(f, PlacesOf(F), StoredAt(stored), mem) /\ Sound(g, PlacesOf(F), StoredAt(stored), mem)
  BY <1>1, <1>2, <1>11
<1> QED
  BY <1>0, <1>1, <1>2, <1>3, <1>4, <1>5, <1>6, <1>7, <1>8, <1>9, <1>10, <1>12

\* Another stored element of g comes after p.
LEMMA ComesAfter ==
    ASSUME NEW p, NEW g, Walks(p, g), NEW x \in StepSet, Append(g.at, x) \in StoredAt(stored), x # Last(p)
    PROVE  StepBefore(Last(p), x)
<1>0. /\ LiveOK(type, stack, stored, mem) /\ BuildingOK(stack, stored, mem)
      /\ p \in DOMAIN stored /\ First(p)
  BY DEF Walks
<1>1. PICK q \in DOMAIN stored : stored[q].at = Append(g.at, x)
  BY DEF StoredAt
<1>2. g.at \in Steps /\ IsPart(stored[p].at, g.at) /\ Placed(stack, stored)
  BY WalkFacts
<1>3. Front(stored[q].at) = g.at /\ Last(stored[q].at) = x
  BY <1>1, <1>2, Child
<1>4. Last(q) = x
  BY <1>2, <1>3 DEF Placed
<1>5. q # p
  BY <1>4
<1>6. Front(stored[q].at) = Front(stored[p].at)
  BY <1>2, <1>3 DEF IsPart
<1>7. StepBefore(Last(p), Last(q))
  BY <1>0, <1>5, <1>6, WalkOrder
<1> QED
  BY <1>4, <1>7

\* What the walk makes of the parent g of f, whose step is x.
WalkedTo(g, x, a, P, S) ==
    LET h == TakeAt(g, x, a) IN
    /\ TakesOver(g, a, h) /\ h.state = g.state /\ h.cur = g.cur
    /\ ListOK(h, P \ {a}) /\ MapOK(h, S \ {a})
    /\ Expected(g, x)

\* "the count goes up, whichever slot was meant": it was the first.
LEMMA ListWalked ==
    ASSUME NEW p, NEW g, Walks(p, g), g.tracker = "List"
    PROVE  WalkedTo(g, Last(p), stored[p].at, PlacesOf(FramesOf(stack, stored)), StoredAt(stored))
<1> DEFINE F == FramesOf(stack, stored)
           P == PlacesOf(F)
           S == StoredAt(stored)
           a == stored[p].at
           x == Last(p)
           n == RopeLen(g)
           k == Marked(g)
<1>0. /\ LiveOK(type, stack, stored, mem) /\ BuildingOK(stack, stored, mem) /\ p \in DOMAIN stored
  BY DEF Walks
<1>1. /\ Placed(stack, stored) /\ g \in F /\ FrameOK(g) /\ g.at \in Steps
      /\ a = Append(g.at, x) /\ x \in StepSet /\ Kid(g, x) /\ a \notin FinishedParts(g)
      /\ a \in P /\ a \in S /\ Sound(g, P, S, mem) /\ IsPart(a, g.at)
  BY WalkFacts
<1>2. n \in Nat /\ k \in Nat /\ k <= n
  BY <1>1, FrameFacts
<1>3. PICK j \in Nat : x = <<"item", j>> /\ j < n
  <2>1. x[1] = "item" /\ x[2] < n
    BY <1>1 DEF Kid
  <2>2. x = <<x[1], x[2]>> /\ x[2] \in Nat
    BY <1>1 DEF StepSet
  <2> QED
    BY <2>1, <2>2
<1> HIDE DEF n, k, a, x, P, S, F
<1>4. a = Part(g, "item", j)
  BY <1>1, <1>3 DEF Part
<1>5. k <= j
  <2>1. SUFFICES ASSUME j < k PROVE FALSE
    BY <1>2, <1>3
  <2>2. a \in Slots(g, Marked(g))
    BY <1>2, <1>4, <2>1, SlotsAre DEF k
  <2> QED
    BY <1>1, <2>2 DEF FinishedParts
<1>6. k = j
  <2>1. SUFFICES ASSUME k < j PROVE FALSE
    BY <1>2, <1>3, <1>5
  <2> DEFINE b == Part(g, "item", k)
  <2>2. b \in Steps /\ IsPart(b, g.at) /\ Last(b) = <<"item", k>>
    BY <1>1, <1>2, PartFacts
  <2>3. b \in P
    <3>1. b \in Slots(g, n)
      BY <1>2, <1>3, <2>1, SlotsAre
    <3>2. b \notin Slots(g, k)
      <4>1. SUFFICES ASSUME NEW i \in Nat, i < k, b = Part(g, "item", i) PROVE FALSE
        BY <1>2, SlotsAre
      <4>2. Last(Part(g, "item", i)) = <<"item", i>>
        BY <1>1, PartFacts
      <4> QED
        BY <1>2, <2>2, <4>1, <4>2
    <3> QED
      BY <1>1, <3>1, <3>2 DEF ListOK, Sound, n, k
  <2> HIDE DEF b
  <2>4. b \in S \/ b = Open(g)
    BY <1>0, <1>1, <2>2, <2>3, StoredOrOpen DEF F, P, S
  <2>5. CASE b \in S
    <3>1. <<"item", k>> \in StepSet /\ <<"item", k>> # x
      BY <1>2, <1>3, <2>1 DEF StepSet
    <3>2. Append(g.at, <<"item", k>>) \in S
      BY <2>5 DEF b, Part
    <3>3. StepBefore(x, <<"item", k>>)
      BY <3>1, <3>2, ComesAfter DEF x, S
    <3> QED
      BY <1>2, <1>3, <2>1, <3>3 DEF StepBefore
  <2>6. CASE b = Open(g)
    <3>1. b = Append(g.at, <<"item", n - 1>>)
      BY <2>6 DEF Open, StepOpen, n
    <3>2. n - 1 \in Nat /\ <<"item", n - 1>> \in StepSet
      BY <1>2, <1>3, <2>1 DEF StepSet
    <3>3. Last(b) = <<"item", n - 1>>
      BY <1>1, <3>1, <3>2, Child
    <3> QED
      BY <1>2, <1>3, <2>1, <2>2, <3>3
  <2> QED
    BY <2>4, <2>5, <2>6
<1> DEFINE h == TakeAt(g, x, a)
<1>7. h = MarkLast(g)
  BY <1>3 DEF TakeAt
<1>8. Marked(g) < RopeLen(g) /\ a = Part(g, "item", Marked(g))
  BY <1>3, <1>4, <1>6 DEF n, k
<1>9. /\ TakesOver(g, Part(g, "item", Marked(g)), MarkLast(g))
      /\ MarkLast(g).state = g.state /\ MarkLast(g).cur = g.cur
      /\ Marked(MarkLast(g)) = Marked(g) + 1
  BY <1>1, <1>8, SlotTaken
<1> HIDE DEF h
<1>10. TakesOver(g, a, h) /\ h.state = g.state /\ h.cur = g.cur /\ Marked(h) = k + 1
  BY <1>7, <1>8, <1>9 DEF k
<1>11. h.tracker = "List" /\ h.at = g.at /\ RopeLen(h) = n
  BY <1>10 DEF TakesOver, n
<1>12. ListOK(h, P \ {a})
  <2>1. SUFFICES ASSUME NEW b, b \in Slots(h, n), b \notin Slots(h, k + 1)
                 PROVE  b \in P \ {a}
    BY <1>10, <1>11 DEF ListOK
  <2>2. PICK i \in Nat : i < n /\ b = Part(h, "item", i)
    BY <1>2, <2>1, SlotsAre
  <2>3. ~(i < k + 1)
    <3>1. k + 1 \in Nat
      BY <1>2
    <3> QED
      BY <2>1, <2>2, <3>1, SlotsAre
  <2>4. b = Part(g, "item", i)
    BY <1>11, <2>2 DEF Part
  <2>5. b \in Slots(g, n)
    BY <1>2, <2>2, <2>4, SlotsAre
  <2>6. b # Part(g, "item", j) /\ \A l \in Nat : l < k => b # Part(g, "item", l)
    <3>1. Last(b) = <<"item", i>>
      BY <1>1, <2>4, PartFacts
    <3>2. \A l \in Nat : Last(Part(g, "item", l)) = <<"item", l>>
      BY <1>1, PartFacts
    <3>3. \A l \in Nat : l <= k => <<"item", l>> # <<"item", i>>
      BY <1>2, <2>3
    <3> QED
      BY <1>2, <1>6, <3>1, <3>2, <3>3
  <2>7. b \notin Slots(g, k)
    BY <1>2, <2>6, SlotsAre
  <2> QED
    BY <1>1, <1>4, <2>5, <2>6, <2>7 DEF ListOK, Sound, n, k
<1>13. MapOK(h, S \ {a})
  BY <1>11 DEF MapOK
<1>14. Expected(g, x)
  BY <1>3 DEF Expected
<1>15. WalkedTo(g, x, a, P, S)
  BY <1>10, <1>12, <1>13, <1>14 DEF WalkedTo, h
<1> QED
  BY <1>15 DEF x, a, P, S, F

\* "Every entry at finalize time MUST be a full (key, value) pair": keys become
\* pending in the order of their numbers, each value meets its key.
LEMMA MapWalked ==
    ASSUME NEW p, NEW g, Walks(p, g), g.tracker = "Map"
    PROVE  WalkedTo(g, Last(p), stored[p].at, PlacesOf(FramesOf(stack, stored)), StoredAt(stored))
<1> DEFINE F == FramesOf(stack, stored)
           P == PlacesOf(F)
           S == StoredAt(stored)
           a == stored[p].at
           x == Last(p)
           l == Len(g.pending)
           h == TakeAt(g, x, a)
<1>1. /\ FrameOK(g) /\ g.at \in Steps
      /\ a = Append(g.at, x) /\ x \in StepSet /\ Kid(g, x)
      /\ a \in S /\ Sound(g, P, S, mem)
  BY WalkFacts
<1>2. l \in Nat
  BY <1>1, FrameFacts
<1>3. PICK n \in Nat : MapIs(g, S, n)
  BY <1>1 DEF Sound, MapOK
<1>4. x[1] \in {"key", "value"} /\ g.cur # None /\ x[2] \in Nat /\ x = <<x[1], x[2]>>
  BY <1>1 DEF Kid, StepSet
<1> DEFINE j == x[2]
<1>5. ASSUME NEW y \in {"key", "value"}, NEW i \in Nat, Part(g, y, i) \in S, <<y, i>> # x
      PROVE  StepBefore(x, <<y, i>>)
  <2>1. <<y, i>> \in StepSet
    BY DEF StepSet
  <2>2. Append(g.at, <<y, i>>) \in S
    BY <1>5 DEF Part
  <2> QED
    BY <1>5, <2>1, <2>2, ComesAfter
<1> HIDE DEF h, a, x, P, S, F, l
<1>6. /\ l <= n
      /\ \A k \in Nat : Part(g, "key", k) \in S <=> l <= k /\ k < n
      /\ \A k \in Nat : Part(g, "value", k) \in S <=> k < n /\ ~Given(g, k) /\ ~(Waits(g) /\ k = n - 1)
  BY <1>3 DEF MapIs, l
<1>7. \A h2 : /\ TakesOver(g, a, h2) /\ h2.state = g.state /\ h2.cur = g.cur
             => /\ h2.tracker = "Map" /\ h2.at = g.at /\ FrameOK(h2) /\ ListOK(h2, P \ {a})
                /\ Waits(h2) = Waits(g)
  <2>1. SUFFICES ASSUME NEW h2, TakesOver(g, a, h2), h2.state = g.state
                 PROVE  /\ h2.tracker = "Map" /\ h2.at = g.at /\ FrameOK(h2)
                        /\ ListOK(h2, P \ {a}) /\ Waits(h2) = Waits(g)
    OBVIOUS
  <2>2. h2.tracker = "Map" /\ h2.at = g.at /\ FrameOK(h2)
    BY <2>1 DEF TakesOver
  <2>3. Slots(h2, RopeLen(h2)) = {}
    BY <2>2, MapParts
  <2>4. ListOK(h2, P \ {a})
    BY <2>3 DEF ListOK
  <2> QED
    BY <2>1, <2>2, <2>4 DEF Waits
<1>8. CASE x[1] = "key"
  <2>0. x = <<"key", j>> /\ j \in Nat
    BY <1>4, <1>8
  <2>1. a = Part(g, "key", j)
    BY <1>1, <2>0 DEF Part
  <2>2. l <= j /\ j < n
    BY <1>1, <1>6, <2>0, <2>1
  <2>3. j = l
    <3>1. SUFFICES ASSUME l # j PROVE FALSE
      OBVIOUS
    <3>2. Part(g, "key", l) \in S
      <4>1. l < n
        BY <1>2, <2>0, <2>2
      <4> QED
        BY <1>2, <1>6, <4>1
    <3>3. <<"key", l>> # x
      BY <2>0, <3>1
    <3>4. StepBefore(x, <<"key", l>>)
      BY <1>2, <1>5, <3>2, <3>3
    <3>5. j < l
      BY <2>0, <3>4 DEF StepBefore
    <3> QED
      BY <1>2, <2>0, <2>2, <3>5
  <2>4. h = PushKey(g, a)
    BY <2>0 DEF TakeAt, h
  <2>5. LET y == PushKey(g, Part(g, "key", j)) IN
        /\ TakesOver(g, Part(g, "key", j), y)
        /\ y.state = g.state /\ y.cur = g.cur
        /\ Len(y.pending) = Len(g.pending) + 1
        /\ \A i \in Nat : Given(y, i) <=> Given(g, i)
    BY <1>1, <1>4, HalfTaken
  <2>6. TakesOver(g, a, h) /\ h.state = g.state /\ h.cur = g.cur /\ Len(h.pending) = l + 1
        /\ \A i \in Nat : Given(h, i) <=> Given(g, i)
    BY <2>1, <2>4, <2>5 DEF l
  <2>7. h.tracker = "Map" /\ h.at = g.at /\ ListOK(h, P \ {a}) /\ Waits(h) = Waits(g)
    BY <1>7, <2>6
  <2>8. MapIs(h, S \ {a}, n)
    <3>1. Part(g, "key", Len(g.pending)) = a /\ a \in S /\ Len(h.pending) = Len(g.pending) + 1
      BY <1>1, <2>1, <2>3, <2>6 DEF l
    <3>2. MapIs(h, S \ {Part(g, "key", Len(g.pending))}, n)
      BY <1>1, <1>3, <2>6, <2>7, <3>1, KeyTaken
    <3> QED
      BY <3>1, <3>2
  <2>9. MapOK(h, S \ {a})
    BY <2>8 DEF MapOK
  <2>10. Expected(g, x)
    BY <1>8 DEF Expected
  <2>11. WalkedTo(g, x, a, P, S)
    BY <2>6, <2>7, <2>9, <2>10 DEF WalkedTo, h
  <2> QED
    BY <2>11 DEF x, a, P, S, F
<1>9. CASE x[1] = "value"
  <2>0. x = <<"value", j>> /\ j \in Nat
    BY <1>4, <1>9
  <2>1. a = Part(g, "value", j)
    BY <1>1, <2>0 DEF Part
  <2>2. j < n /\ ~Given(g, j)
    BY <1>1, <1>6, <2>0, <2>1
  <2>3. j < l
    <3>1. SUFFICES ASSUME l <= j PROVE FALSE
      BY <1>2, <2>0
    <3>2. Part(g, "key", j) \in S
      BY <1>6, <2>0, <2>2, <3>1
    <3>3. StepBefore(x, <<"key", j>>)
      BY <1>5, <2>0, <3>2
    <3> QED
      BY <2>0, <3>3 DEF StepBefore
  <2> DEFINE i == j + 1
  <2>4. i \in 1..l /\ i = j + 1 /\ j = i - 1
    BY <1>2, <2>0, <2>3
  <2> HIDE DEF i
  <2>5. i \in 1..Len(g.pending) /\ g.pending[i].value = None
    BY <2>2, <2>3, <2>4 DEF Given, l
  <2>6. h = SetValue(g, i, a)
    BY <2>0, <2>4 DEF TakeAt, h
  <2>7. LET y == SetValue(g, i, Part(g, "value", j)) IN
        /\ TakesOver(g, Part(g, "value", j), y)
        /\ y.state = g.state /\ y.cur = g.cur
        /\ Len(y.pending) = Len(g.pending)
        /\ \A k \in Nat : Given(y, k) <=> Given(g, k) \/ k = i - 1
    BY <1>1, <2>0, <2>5, EntryTaken
  <2>8. TakesOver(g, a, h) /\ h.state = g.state /\ h.cur = g.cur /\ Len(h.pending) = Len(g.pending)
        /\ \A k \in Nat : Given(h, k) <=> Given(g, k) \/ k = j
    BY <2>1, <2>4, <2>6, <2>7
  <2>9. h.tracker = "Map" /\ h.at = g.at /\ ListOK(h, P \ {a}) /\ Waits(h) = Waits(g)
    BY <1>7, <2>8
  <2>10. MapIs(h, S \ {a}, n)
    <3>1. Part(g, "value", j) \in S
      BY <1>1, <2>1
    <3>2. MapIs(h, S \ {Part(g, "value", j)}, n)
      BY <1>1, <1>3, <2>0, <2>8, <2>9, <3>1, ValueTaken
    <3> QED
      BY <2>1, <3>2
  <2>11. MapOK(h, S \ {a})
    BY <2>10 DEF MapOK
  <2>12. Expected(g, x)
    BY <2>0, <2>3 DEF Expected, l
  <2>13. WalkedTo(g, x, a, P, S)
    BY <2>8, <2>9, <2>11, <2>12 DEF WalkedTo, h
  <2> QED
    BY <2>13 DEF x, a, P, S, F
<1> QED
  BY <1>4, <1>8, <1>9

\* An element of a set is never stored.
LEMMA NoneOfSet ==
    ASSUME NEW p, NEW g, Walks(p, g)
    PROVE  g.tracker \in {"List", "Map"}
<1> DEFINE a == stored[p].at
<1>0. /\ LiveOK(type, stack, stored, mem) /\ BuildingOK(stack, stored, mem) /\ p \in DOMAIN stored
  BY DEF Walks
<1>1. /\ g \in FramesOf(stack, stored) /\ FrameOK(g) /\ a = Append(g.at, Last(p)) /\ Kid(g, Last(p))
      /\ Placed(stack, stored)
  BY WalkFacts
<1>2. SUFFICES ASSUME g.tracker \notin {"List", "Map"} PROVE FALSE
  OBVIOUS
<1>3. g.tracker = "Set" /\ Last(p) = Element /\ g.state = "Item"
  BY <1>1, <1>2, NoElements
<1>4. \A q \in DOMAIN stored : stored[q].state # "Item"
  BY <1>0 DEF BuildingOK
<1>5. PICK i \in 1..Len(stack) : g = stack[i]
  BY <1>1, <1>3, <1>4 DEF FramesOf
<1>6. i # Len(stack)
  <2>1. stack[Len(stack)].state # "Item"
    BY <1>0 DEF BuildingOK, Opened
  <2> QED
    BY <1>3, <1>5, <2>1
<1>7. Len(stack) \in Nat
  BY <1>1, StackFacts
<1>8. i \in 1..Len(stack) - 1 /\ i + 1 \in 1..Len(stack)
  BY <1>5, <1>6, <1>7
<1>9. stack[i + 1].at = Append(stack[i].at, StepOpen(stack[i]))
  BY <1>0, <1>8 DEF BuildingOK, Opened
<1>10. stack[i + 1].at = a
  BY <1>1, <1>3, <1>5, <1>9 DEF StepOpen
<1> QED
  BY <1>0, <1>1, <1>8, <1>10 DEF Placed

\* The frame stored under p is gone, and the frame g has become g2.
Handed(s, st, p, g, g2, s2, st2) ==
    /\ Placed(s2, st2) /\ Len(s2) = Len(s)
    /\ \A i \in 1..Len(s) : s2[i].at = s[i].at /\ (s2[i] = s[i] \/ (s[i] = g /\ s2[i] = g2))
    /\ \A q \in DOMAIN st2 : /\ q \in DOMAIN st /\ st2[q].at = st[q].at
                             /\ st2[q] = st[q] \/ (st[q] = g /\ st2[q] = g2)
    /\ FramesOf(s2, st2) = (FramesOf(s, st) \ {st[p], g}) \cup {g2}
    /\ StoredAt(st2) = StoredAt(st) \ {st[p].at}

LEMMA HandedStored ==
    ASSUME NEW s, NEW st, Placed(s, st), NEW p \in DOMAIN st, NEW q \in DOMAIN st, q # p,
           NEW g2 \in FrameSet, g2.at = st[q].at,
           NEW st1, Unstores(st, st1, p), NEW st2, Restores(st1, st2, q, g2)
    PROVE  Handed(s, st, p, st[q], g2, s, st2)
<1>1. /\ Placed(s, st1)
      /\ FramesOf(s, st1) = FramesOf(s, st) \ {st[p]}
      /\ StoredAt(st1) = StoredAt(st) \ {st[p].at}
  BY StoredRemoved
<1>2. q \in DOMAIN st1 /\ st1[q] = st[q]
  BY DEF Unstores
<1>3. g2.at = st1[q].at
  BY <1>2
<1>4. /\ Placed(s, st2)
      /\ FramesOf(s, st2) = (FramesOf(s, st1) \ {st1[q]}) \cup {g2}
      /\ StoredAt(st2) = StoredAt(st1)
  BY <1>1, <1>2, <1>3, StoredReplaced
<1>5. FramesOf(s, st2) = (FramesOf(s, st) \ {st[p], st[q]}) \cup {g2}
  BY <1>1, <1>2, <1>4
<1>6. \A r \in DOMAIN st2 : /\ r \in DOMAIN st /\ st2[r].at = st[r].at
                            /\ st2[r] = st[r] \/ (st[r] = st[q] /\ st2[r] = g2)
  BY DEF Unstores, Restores
<1> QED
  BY <1>1, <1>4, <1>5, <1>6 DEF Handed

LEMMA HandedOnStack ==
    ASSUME NEW s, NEW st, Placed(s, st), NEW p \in DOMAIN st, NEW i \in 1..Len(s),
           NEW g2 \in FrameSet, g2.at = s[i].at,
           NEW s2, Changed(s, s2, i, g2), NEW st2, Unstores(st, st2, p)
    PROVE  Handed(s, st, p, s[i], g2, s2, st2)
<1>1. /\ Placed(s, st2)
      /\ FramesOf(s, st2) = FramesOf(s, st) \ {st[p]}
      /\ StoredAt(st2) = StoredAt(st) \ {st[p].at}
  BY StoredRemoved
<1>2. /\ Placed(s2, st2)
      /\ Len(s2) = Len(s) /\ s2 # << >>
      /\ \A j \in 1..Len(s) : s2[j] = IF j = i THEN g2 ELSE s[j]
      /\ \A j \in 1..Len(s) : s2[j].at = s[j].at
      /\ FramesOf(s2, st2) = (FramesOf(s, st2) \ {s[i]}) \cup {g2}
  BY <1>1, StackReplaced
<1>3. FramesOf(s2, st2) = (FramesOf(s, st) \ {st[p], s[i]}) \cup {g2}
  BY <1>1, <1>2
<1>4. \A r \in DOMAIN st2 : /\ r \in DOMAIN st /\ st2[r].at = st[r].at
                            /\ st2[r] = st[r] \/ (st[r] = s[i] /\ st2[r] = g2)
  BY DEF Unstores
<1> QED
  BY <1>1, <1>2, <1>3, <1>4 DEF Handed

LEMMA HandedBuilding ==
    ASSUME NEW t, NEW s, NEW st, NEW m, LiveOK(t, s, st, m), BuildingOK(s, st, m),
           NEW p \in DOMAIN st, NEW g \in FramesOf(s, st), IsPart(st[p].at, g.at),
           NEW g2, TakesOver(g, st[p].at, g2), g2.state = g.state, g2.cur = g.cur,
           NEW m2, LeftTo(FramesOf(s, st), st[p], g, g2, m, m2),
           Sound(g2, PlacesOf(FramesOf(s, st)) \ {st[p].at}, StoredAt(st) \ {st[p].at}, m2),
           NEW s2, NEW st2, Handed(s, st, p, g, g2, s2, st2)
    PROVE  LiveOK(t, s2, st2, m2) /\ BuildingOK(s2, st2, m2)
<1> DEFINE F == FramesOf(s, st)
           P == PlacesOf(F)
           S == StoredAt(st)
           f == st[p]
           F2 == FramesOf(s2, st2)
           P2 == P \ {f.at}
           S2 == S \ {f.at}
<1>1. /\ s # << >> /\ Placed(s, st) /\ Owned(F, m) /\ Len(s) \in Nat \ {0}
      /\ f \in F
      /\ \A h \in F : Tracked(t, h)
  BY LiveFacts
<1>2. /\ Placed(s2, st2) /\ Len(s2) = Len(s)
      /\ \A i \in 1..Len(s) : s2[i].at = s[i].at /\ (s2[i] = s[i] \/ (s[i] = g /\ s2[i] = g2))
      /\ \A q \in DOMAIN st2 : /\ q \in DOMAIN st /\ st2[q].at = st[q].at
                               /\ st2[q] = st[q] \/ (st[q] = g /\ st2[q] = g2)
      /\ F2 = (F \ {f, g}) \cup {g2} /\ StoredAt(st2) = S2
  BY DEF Handed
<1>3. /\ FrameOK(g2) /\ g2.at = g.at /\ g2.tracker = g.tracker /\ RopeLen(g2) = RopeLen(g)
  BY DEF TakesOver
<1> HIDE DEF F2
<1>4. Owned(F2, m2) /\ PlacesOf(F2) = P2
  BY <1>2 DEF LeftTo
<1>5. \A h \in F2 : Tracked(t, h)
  <2>1. Tracked(t, g2)
    BY <1>1, <1>3 DEF Tracked, CollectionOf
  <2> QED
    BY <1>1, <1>2, <2>1
<1>6. \A h \in F2 : Sound(h, P2, S2, m2)
  <2>1. LeftTo(F, f, g, g2, m, m2) /\ Sound(g2, P2, S2, m2) /\ f \in F /\ g \in F
        /\ IsPart(f.at, g.at) /\ \A h \in F : Sound(h, P, S, m)
    BY <1>1 DEF BuildingOK
  <2>2. \A a : Front(a) # g.at => (a \in S <=> a \in S2)
    BY <2>1 DEF IsPart
  <2> HIDE DEF F, f, S, S2
  <2>3. \A h \in (F \ {f, g}) \cup {g2} : Sound(h, PlacesOf(F) \ {f.at}, S2, m2)
    BY <1>1, <2>1, <2>2, OthersSound
  <2> QED
    BY <1>2, <2>3
<1>7. s2 # << >>
  BY <1>1, <1>2, EmptySeq
<1>8. LiveOK(t, s2, st2, m2)
  BY <1>2, <1>4, <1>5, <1>7 DEF LiveOK, F2
<1>9. StepOpen(g2) = StepOpen(g)
  BY <1>3 DEF StepOpen
<1>10. \A i \in 1..Len(s) : s2[i].state = s[i].state /\ StepOpen(s2[i]) = StepOpen(s[i])
                            /\ s2[i].cur = s[i].cur /\ s2[i].at = s[i].at
  BY <1>2, <1>9
<1>11. Opened(s2)
  <2>1. Opened(s)
    BY DEF BuildingOK
  <2>2. s2[Len(s2)].state \in {"Idle", "KeyDone"}
    <3>1. Len(s) \in 1..Len(s)
      BY <1>1
    <3> QED
      BY <1>2, <1>10, <2>1, <3>1 DEF Opened
  <2>3. ASSUME NEW i \in 1..Len(s2) - 1
        PROVE  s2[i].state \in {"Item", "Key", "Value"} /\ s2[i + 1].at = Append(s2[i].at, StepOpen(s2[i]))
    <3>1. i \in 1..Len(s) - 1 /\ i \in 1..Len(s) /\ i + 1 \in 1..Len(s)
      BY <1>1, <1>2
    <3>2. s[i].state \in {"Item", "Key", "Value"} /\ s[i + 1].at = Append(s[i].at, StepOpen(s[i]))
      BY <2>1, <3>1 DEF Opened
    <3> QED
      BY <1>10, <3>1, <3>2
  <2> QED
    BY <2>2, <2>3 DEF Opened
<1>12. \A q \in DOMAIN st2 : st2[q].state \in {"Idle", "KeyDone"}
  <2>1. \A q \in DOMAIN st : st[q].state \in {"Idle", "KeyDone"}
    BY DEF BuildingOK
  <2>2. \A q \in DOMAIN st2 : st2[q].state = st[q].state /\ q \in DOMAIN st
    BY <1>2
  <2> QED
    BY <2>1, <2>2
<1>13. AsTheyLie(st2) \/ Behind(s2, st2)
  <2>1. CASE AsTheyLie(st)
    BY <1>2, <2>1 DEF AsTheyLie
  <2>2. CASE Behind(s, st)
    <3>1. ASSUME NEW q \in DOMAIN st2
          PROVE  Len(q) = 2 /\ Len(s2) >= 2 /\ s2[1].cur = Some(q[1]) /\ Front(st2[q].at) = s2[2].at
      <4>1. Len(q) = 2 /\ Len(s) >= 2 /\ s[1].cur = Some(q[1]) /\ Front(st[q].at) = s[2].at
        BY <1>2, <2>2 DEF Behind
      <4>2. 1 \in 1..Len(s) /\ 2 \in 1..Len(s)
        BY <1>1, <4>1
      <4> QED
        BY <1>2, <1>10, <4>1, <4>2
    <3> QED
      BY <3>1 DEF Behind
  <2> QED
    BY <2>1, <2>2 DEF BuildingOK
<1>14. BuildingOK(s2, st2, m2)
  <2>1. \A h \in F2 : Sound(h, PlacesOf(F2), StoredAt(st2), m2)
    BY <1>2, <1>4, <1>6
  <2> QED
    BY <1>11, <1>12, <1>13, <2>1 DEF BuildingOK, F2
<1> QED
  BY <1>8, <1>14

\* What a frame hands over in the walk: its collection takes it, and the memory
\* keeps what the collection holds.
LEMMA WalkHands ==
    ASSUME CollectionsInv, NEW p \in DOMAIN stored, WalkFrame(p)
    PROVE  LET F == FramesOf(stack, stored)
               f == stored[p]
               g == ParentOf(p)
               g2 == TakeAt(g, Last(p), f.at) IN
           /\ WalkedTo(g, Last(p), f.at, PlacesOf(F), StoredAt(stored))
           /\ Walks(p, g)
           /\ LeftTo(F, f, g, g2, mem, mem')
           /\ mem'[g.at] = mem[g.at]
           /\ faults' = {}
<1> DEFINE F == FramesOf(stack, stored)
           P == PlacesOf(F)
           S == StoredAt(stored)
           f == stored[p]
           g == ParentOf(p)
           x == Last(p)
           g2 == TakeAt(g, x, f.at)
           m == Memory
<1>0. /\ phase = "Walking" /\ First(p) /\ Complete(f) /\ Building
      /\ MemoryIs([Finish(m, f) EXCEPT !.faults = @ \cup
            IF Expected(g, LastStep(p)) THEN {} ELSE {"half entry"}])
  BY DEF WalkFrame, Building
<1>1. /\ LiveOK(type, stack, stored, mem) /\ BuildingOK(stack, stored, mem)
      /\ m.at = mem /\ m.faults = {}
  BY <1>0, ActiveFacts
<1>2. Walks(p, g)
  BY <1>0, <1>1 DEF Walks
<1>3. /\ Owned(F, mem)
      /\ f \in F /\ g \in F /\ FrameOK(f) /\ IsPart(f.at, g.at)
      /\ LastStep(p) = x
      /\ Bare(f, P) /\ Sound(f, P, S, mem)
  BY <1>2, WalkFacts
<1>4. WalkedTo(g, x, f.at, P, S)
  <2>1. CASE g.tracker = "List"
    BY <1>2, <2>1, ListWalked
  <2>2. CASE g.tracker = "Map"
    BY <1>2, <2>2, MapWalked
  <2> QED
    BY <1>2, <2>1, <2>2, NoneOfSet
<1>5. Ready(f)
  <2>1. f.isInit /\ f.state = "Idle" /\ MapOK(f, S)
    BY <1>0, <1>3 DEF Complete, Sound
  <2>2. \A a \in S : ~IsPart(a, f.at)
    <3>1. S \subseteq P
      BY DEF StoredAt, PlacesOf, FramesOf
    <3> QED
      BY <1>3, <3>1 DEF Bare
  <2> HIDE DEF f, S
  <2>3. \A i \in 1..Len(f.pending) : f.pending[i].value # None
    BY <1>3, <2>1, <2>2, AllValues
  <2> QED
    BY <2>1, <2>3 DEF Ready
<1>6. TakesOver(g, f.at, g2) /\ Expected(g, x)
  BY <1>4 DEF WalkedTo
<1> HIDE DEF F, f, g, x, g2, m
<1>7. Hands(F, m, f, g, g2)
  BY <1>1, <1>3, <1>5, <1>6 DEF Hands
<1>8. /\ LeftTo(F, f, g, g2, m.at, Finish(m, f).at)
      /\ Finish(m, f).faults = {}
      /\ Finish(m, f).at[g.at] = m.at[g.at]
  BY <1>7, HandedOver
<1>9. mem' = Finish(m, f).at /\ faults' = {}
  BY <1>0, <1>3, <1>6, <1>8 DEF MemoryIs, Finish, Drain, Memory, Freed, Taken, m
<1> QED
  BY <1>1, <1>2, <1>4, <1>8, <1>9 DEF F, f, g, x, g2

\* Where the frame goes that takes over: among the stored ones, or on the stack.
LEMMA WalkPlaces ==
    ASSUME NEW p, NEW g, Walks(p, g), HandToParent(p),
           TakesOver(g, stored[p].at, TakeAt(g, Last(p), stored[p].at))
    PROVE  Handed(stack, stored, p, g, TakeAt(g, Last(p), stored[p].at), stack', stored')
<1> DEFINE g2 == TakeAt(g, Last(p), stored[p].at)
           q == Front(p)
           s2 == stack'
           st2 == stored'
<1>1. /\ LiveOK(type, stack, stored, mem) /\ BuildingOK(stack, stored, mem)
      /\ p \in DOMAIN stored /\ g = ParentOf(p)
  BY DEF Walks
<1>2. /\ Placed(stack, stored) /\ LastStep(p) = Last(p)
  BY WalkFacts
<1>3. g2 \in FrameSet /\ g2.at = g.at
  BY DEF TakesOver, FrameOK
<1>4. IF q \in DOMAIN stored
      THEN stored' = [Removed(p) EXCEPT ![q] = g2] /\ UNCHANGED stack
      ELSE stored' = Removed(p) /\ stack' = [stack EXCEPT ![Len(p)] = g2]
  BY <1>1, <1>2 DEF HandToParent, ParentIsStored
<1>5. p \in Steps /\ Len(p) \in Nat \ {0} /\ Len(q) = Len(p) - 1
  BY <1>1, <1>2, StoredFacts
<1>6. Unstores(stored, Removed(p), p)
  BY DEF Unstores, Removed
<1> HIDE DEF g2
<1>7. CASE q \in DOMAIN stored
  <2>1. q # p
    BY <1>5
  <2>2. g = stored[q]
    BY <1>1, <1>7 DEF ParentOf, ParentIsStored
  <2> HIDE DEF q
  <2>3. Restores(Removed(p), st2, q, g2)
    <3>1. stored' = [Removed(p) EXCEPT ![q] = g2]
      BY <1>4, <1>7
    <3> DEFINE r == Removed(p)
    <3>2. r = [y \in DOMAIN r |-> r[y]]
      BY DEF Removed
    <3> HIDE DEF r
    <3>3. Restores(r, [r EXCEPT ![q] = g2], q, g2)
      BY <3>2 DEF Restores
    <3> QED
      BY <3>1, <3>3 DEF r
  <2>4. g2.at = stored[q].at
    BY <1>3, <2>2
  <2> DEFINE st1 == Removed(p)
  <2>5. Unstores(stored, st1, p) /\ Restores(st1, st2, q, g2)
    BY <1>6, <2>3
  <2> HIDE DEF st1, st2
  <2>6. Handed(stack, stored, p, stored[q], g2, stack, st2)
    BY <1>1, <1>2, <1>3, <1>7, <2>1, <2>4, <2>5, HandedStored
  <2>7. s2 = stack
    BY <1>4, <1>7
  <2> HIDE DEF s2
  <2> QED
    BY <2>2, <2>6, <2>7 DEF st2, g2, s2
<1>8. CASE q \notin DOMAIN stored
  <2> DEFINE i == Len(p)
  <2>1. i \in 1..Len(stack) /\ g = stack[i]
    BY <1>1, <1>8, ParentIs DEF ParentOf, ParentIsStored
  <2>2. stack' = [stack EXCEPT ![i] = g2] /\ stored' = Removed(p)
    BY <1>4, <1>8
  <2> HIDE DEF i
  <2>3. stack \in Seq(FrameSet)
    BY <1>2 DEF Placed
  <2>4. Changed(stack, [stack EXCEPT ![i] = g2], i, g2)
    BY <1>3, <2>1, <2>3, ChangedIs
  <2>5. Changed(stack, s2, i, g2) /\ Unstores(stored, st2, p) /\ g2.at = stack[i].at
    BY <1>3, <1>6, <2>1, <2>2, <2>4
  <2> HIDE DEF s2, st2
  <2>6. Handed(stack, stored, p, stack[i], g2, s2, st2)
    BY <1>1, <1>2, <1>3, <2>1, <2>5, HandedOnStack
  <2> QED
    BY <2>1, <2>6 DEF s2, st2, g2
<1> QED
  BY <1>7, <1>8

LEMMA WalkFrameKeeps ==
    ASSUME CollectionsInv, NEW p \in DOMAIN stored, WalkFrame(p)
    PROVE  CollectionsInv'
<1> DEFINE F == FramesOf(stack, stored)
           P == PlacesOf(F)
           S == StoredAt(stored)
           f == stored[p]
           g == ParentOf(p)
           g2 == TakeAt(g, Last(p), f.at)
           m2 == mem'
           s2 == stack'
           st2 == stored'
<1>0. phase = "Walking" /\ HandToParent(p) /\ UNCHANGED <<type, mode, startDepth, phase>>
  BY DEF WalkFrame
<1>1. /\ WalkedTo(g, Last(p), f.at, P, S)
      /\ Walks(p, g)
      /\ LeftTo(F, f, g, g2, mem, m2)
      /\ m2[g.at] = mem[g.at]
      /\ faults' = {}
  BY WalkHands
<1>2. /\ TakesOver(g, f.at, g2) /\ g2.state = g.state /\ g2.cur = g.cur
      /\ ListOK(g2, P \ {f.at}) /\ MapOK(g2, S \ {f.at})
  BY <1>1 DEF WalkedTo
<1>3. Handed(stack, stored, p, g, g2, s2, st2)
  BY <1>0, <1>1, <1>2, WalkPlaces
<1>4. /\ LiveOK(type, stack, stored, mem) /\ BuildingOK(stack, stored, mem)
  BY <1>1 DEF Walks
<1>5. g \in F /\ IsPart(f.at, g.at) /\ Sound(g, P, S, mem)
  BY <1>1, WalkFacts
<1> HIDE DEF g, g2, m2, s2, st2
<1>6. Sound(g2, P \ {f.at}, S \ {f.at}, m2)
  BY <1>1, <1>2, <1>5 DEF Sound, ValueOK, TakesOver, IsLeaf
<1>7. LiveOK(type, s2, st2, m2) /\ BuildingOK(s2, st2, m2)
  BY <1>1, <1>2, <1>3, <1>4, <1>5, <1>6, HandedBuilding
<1>8. LiveOK(type, stack', stored', mem') /\ BuildingOK(stack', stored', mem')
  BY <1>7 DEF m2, s2, st2
<1> QED
  BY <1>0, <1>1, <1>8 DEF CollectionsInv, Live, Building, Deferring, Active

\* A stored frame that is disposed of: what lies below it is gone before.
LEMMA StoredDisposed ==
    ASSUME LiveOK(type, stack, stored, mem), Memory.at = mem, Memory.faults = {},
           NEW p \in DOMAIN stored, First(p)
    PROVE  LET m2 == Disposed(Memory, stored[p]) IN
           LiveOK(type, stack, Removed(p), m2.at) /\ m2.faults = {}
<1> DEFINE F == FramesOf(stack, stored)
           f == stored[p]
           m == Memory
           st2 == Removed(p)
<1>1. /\ stack # << >> /\ Placed(stack, stored) /\ Owned(F, mem) /\ f \in F
      /\ \A h \in F : Tracked(type, h)
  BY LiveFacts
<1>2. Bare(f, PlacesOf(F))
  BY <1>1, FirstIsBare
<1>3. f.at # Root
  BY <1>1, StoredFacts
<1>4. Unstores(stored, st2, p)
  BY DEF Unstores, Removed
<1> HIDE DEF st2
<1>5. Placed(stack, st2) /\ FramesOf(stack, st2) = F \ {f}
  BY <1>1, <1>4, StoredRemoved
<1>6. m.faults = {} /\ Owned(F, m.at)
  BY <1>1
<1> HIDE DEF m, f, F
<1>7. Owned(F \ {f}, Disposed(m, f).at) /\ Disposed(m, f).faults = {}
  BY <1>1, <1>2, <1>3, <1>6, GivenUp
<1>8. LiveOK(type, stack, st2, Disposed(m, f).at)
  BY <1>1, <1>5, <1>7 DEF LiveOK
<1> QED
  BY <1>7, <1>8 DEF m, f, st2

LEMMA LiveMemory ==
    ASSUME CollectionsInv, Live
    PROVE  LiveOK(type, stack, stored, mem) /\ Memory.at = mem /\ Memory.faults = {}
BY DEF CollectionsInv, Memory

LEMMA DisposedKeeps ==
    ASSUME CollectionsInv, NEW p \in DOMAIN stored, WalkFails(p) \/ CleanStored(p)
    PROVE  CollectionsInv'
<1> DEFINE m2 == Disposed(Memory, stored[p])
<1>1. /\ Live /\ First(p) /\ MemoryIs(m2) /\ stored' = Removed(p)
      /\ phase' \in {"Cleaning", "Dropping"} /\ UNCHANGED <<type, mode, startDepth, stack>>
  BY DEF WalkFails, CleanStored, Live
<1>2. LiveOK(type, stack, Removed(p), m2.at) /\ m2.faults = {}
  BY <1>1, LiveMemory, StoredDisposed
<1>3. mem' = m2.at /\ faults' = {}
  BY <1>1, <1>2 DEF MemoryIs
<1> HIDE DEF m2
<1>4. LiveOK(type, stack', stored', mem')
  BY <1>1, <1>2, <1>3
<1>5. /\ phase' # "Active" /\ phase' # "Walking" /\ phase' # "Built" /\ phase' # "Dropped"
  BY <1>1
<1> QED
  BY <1>1, <1>3, <1>4, <1>5 DEF CollectionsInv, Live, Building, Deferring, Active

\* When the root's frame is all there is, every other place is one of its parts.
LEMMA LastFrame ==
    ASSUME NEW s, NEW st, NEW m, LiveOK(type, s, st, m), DOMAIN st = {}, Len(s) = 1
    PROVE  LET f == s[1] IN
           /\ f.at = Root /\ FrameOK(f) /\ OwnOK(f, PlacesOf(FramesOf(s, st)), m)
           /\ Bare(f, PlacesOf(FramesOf(s, st)))
           /\ DOMAIN m \ Allocations(f) = {Root}
           /\ Root \in DOMAIN m
<1> DEFINE F == FramesOf(s, st)
           f == s[1]
<1>1. /\ s # << >> /\ Placed(s, st) /\ Owned(F, m) /\ f \in F
  BY LiveFacts
<1>2. F = {f}
  BY DEF FramesOf
<1>3. f.at = Root
  <2>1. 1 \in 1..Len(s)
    OBVIOUS
  <2>2. Len(f.at) = 1 - 1 /\ f.at \in Steps
    BY <1>1, <2>1, StackFacts DEF Placed
  <2> QED
    BY <2>2, RootIs
<1>4. Bare(f, PlacesOf(F))
  <2>1. \A q \in DOMAIN st : ~IsPart(st[q].at, s[Len(s)].at)
    OBVIOUS
  <2> QED
    BY <1>1, <2>1, TopIsBare
<1>5. OwnOK(f, PlacesOf(F), m) /\ FrameOK(f) /\ f.at \in DOMAIN m
  BY <1>1, OwnedFacts
<1>6. /\ \A a \in DOMAIN m : IsPart(a, f.at) => a \in Allocations(f)
      /\ f.at \notin Allocations(f)
  BY <1>4, <1>5, BareFacts
<1>7. \A a \in DOMAIN m : a # Root => IsPart(a, f.at)
  BY <1>1, <1>2 DEF Owned, PlacesOf, IsPart
<1> QED
  BY <1>3, <1>4, <1>5, <1>6, <1>7

LEMMA DropFrameKeeps ==
    ASSUME CollectionsInv, DropFrame
    PROVE  CollectionsInv'
<1> DEFINE F == FramesOf(stack, stored)
           m == Memory
           f == stack[Len(stack)]
           s2 == stack'
<1>0. /\ phase = "Dropping" /\ DOMAIN stored = {} /\ Live
      /\ MemoryIs(Disposed(m, f)) /\ s2 = Pop(stack)
      /\ phase' = IF Len(stack) = 1 THEN "Dropped" ELSE phase
      /\ UNCHANGED <<type, mode, startDepth, stored>>
  BY DEF DropFrame, Live, Top
<1>1. LiveOK(type, stack, stored, mem) /\ m.at = mem /\ m.faults = {}
  BY <1>0, LiveMemory
<1>2. /\ stack # << >> /\ Placed(stack, stored) /\ Owned(F, mem) /\ f \in F
      /\ Len(stack) \in Nat \ {0} /\ Len(stack) \in 1..Len(stack)
      /\ \A h \in F : Tracked(type, h)
  BY <1>1, LiveFacts
<1>3. /\ Placed(s2, stored)
      /\ FramesOf(s2, stored) = F \ {f}
      /\ Len(stack) = 1 => s2 = << >>
      /\ Len(stack) # 1 => s2 # << >>
  BY <1>0, <1>2, StackPopped
<1>4. CASE Len(stack) = 1
  <2>1. /\ f.at = Root /\ FrameOK(f) /\ OwnOK(f, PlacesOf(F), mem) /\ Bare(f, PlacesOf(F))
        /\ DOMAIN mem \ Allocations(f) = {Root}
    BY <1>0, <1>1, <1>4, LastFrame
  <2>2. OwnOK(f, PlacesOf(F), m.at) /\ m.faults = {}
    BY <1>1, <2>1
  <2> HIDE DEF m, f, F
  <2>3. LET gone == Allocations(f) \cup (IF HasBuffer(f) THEN {f.at} ELSE {}) IN
        /\ Disposed(m, f).at =
                [a \in DOMAIN m.at \ gone |-> IF a = f.at THEN None ELSE m.at[a]]
        /\ Disposed(m, f).faults = {}
    BY <2>1, <2>2, DisposedIs
  <2>4. ~HasBuffer(f)
    BY <2>1 DEF HasBuffer
  <2>5. /\ Disposed(m, f).at = [a \in DOMAIN mem \ Allocations(f) |-> IF a = f.at THEN None ELSE mem[a]]
        /\ Disposed(m, f).faults = {}
    BY <1>1, <2>3, <2>4
  <2>6. mem' = [a \in {Root} |-> None] /\ faults' = {}
    BY <1>0, <2>1, <2>5 DEF MemoryIs
  <2>7. phase' = "Dropped" /\ stack' = << >>
    BY <1>0, <1>3, <1>4
  <2> QED
    BY <1>0, <2>6, <2>7 DEF CollectionsInv, Live, Building, Deferring, Active
<1>5. CASE Len(stack) # 1
  <2>1. f.at # Root
    <3> DEFINE l == Len(stack)
    <3>1. l \in Nat \ {0} /\ l \in 1..l /\ l # 1
      BY <1>2, <1>5
    <3>2. Len(f.at) = l - 1
      BY <1>2 DEF Placed
    <3>3. Len(Root) = 0
      BY RootIs
    <3> HIDE DEF l, f
    <3> QED
      BY <3>1, <3>2, <3>3
  <2>2. Bare(f, PlacesOf(F))
    <3>1. \A q \in DOMAIN stored : ~IsPart(stored[q].at, stack[Len(stack)].at)
      BY <1>0
    <3> QED
      BY <1>2, <3>1, TopIsBare
  <2>3. m.faults = {} /\ Owned(F, m.at)
    BY <1>1, <1>2
  <2> HIDE DEF m, f, F, s2
  <2>4. Owned(F \ {f}, Disposed(m, f).at) /\ Disposed(m, f).faults = {}
    BY <1>2, <2>1, <2>2, <2>3, GivenUp
  <2>5. mem' = Disposed(m, f).at /\ faults' = {}
    BY <1>0, <2>4 DEF MemoryIs
  <2>6. LiveOK(type, s2, stored, Disposed(m, f).at)
    BY <1>2, <1>3, <1>5, <2>4 DEF LiveOK
  <2>7. LiveOK(type', stack', stored', mem')
    BY <1>0, <2>5, <2>6 DEF s2
  <2>8. phase' = "Dropping"
    BY <1>0, <1>5
  <2> QED
    BY <1>0, <2>5, <2>7, <2>8 DEF CollectionsInv, Live, Building, Deferring, Active
<1> QED
  BY <1>4, <1>5

LEMMA BuildKeeps ==
    ASSUME CollectionsInv, Build
    PROVE  CollectionsInv'
<1> DEFINE F == FramesOf(stack, stored)
           P == PlacesOf(F)
           m == Memory
           f == stack[1]
<1>0. /\ Active /\ mode = "Strict" /\ Len(stack) = 1 /\ Complete(f)
      /\ MemoryIs(Finish(m, f)) /\ stack' = << >> /\ phase' = "Built"
      /\ UNCHANGED <<type, mode, startDepth, stored>>
  BY DEF Build, Top
<1>1. /\ LiveOK(type, stack, stored, mem) /\ BuildingOK(stack, stored, mem)
      /\ m.at = mem /\ m.faults = {} /\ DOMAIN stored = {}
  BY <1>0, InMode, ActiveFacts
<1>2. /\ f.at = Root /\ FrameOK(f) /\ OwnOK(f, P, mem) /\ Bare(f, P)
      /\ DOMAIN mem \ Allocations(f) = {Root}
  BY <1>0, <1>1, LastFrame
<1>3. f.isInit /\ f.state = "Idle"
  BY <1>0 DEF Complete
<1>4. MapOK(f, {})
  <2>1. f \in F
    BY <1>0 DEF FramesOf
  <2>2. Sound(f, P, StoredAt(stored), mem)
    BY <1>1, <2>1 DEF BuildingOK
  <2>3. StoredAt(stored) = {}
    BY <1>1 DEF StoredAt
  <2> QED
    BY <2>2, <2>3 DEF Sound
<1> HIDE DEF F, f, P, m
<1>5. \A i \in 1..Len(f.pending) : f.pending[i].value # None
  BY <1>2, <1>3, <1>4, AllValues
<1>6. OwnOK(f, P, m.at)
  BY <1>1, <1>2
<1>7. Became(m.at, Finish(m, f).at, Allocations(f), f.at) /\ Finish(m, f).faults = {}
  BY <1>1, <1>2, <1>3, <1>5, <1>6, FinishIs
<1>8. DOMAIN mem' = {Root} /\ faults' = {}
  BY <1>0, <1>1, <1>2, <1>7 DEF MemoryIs, Became
<1> QED
  BY <1>0, <1>1, <1>8 DEF CollectionsInv, Live, Building, Deferring, Active

-----------------------------------------------------------------------------
(* The invariant, and what follows *)

LEMMA NextKeeps ==
    ASSUME CollectionsInv, Usage = {}, [Next]_vars
    PROVE  CollectionsInv'
<1>1. CASE UNCHANGED vars
  BY <1>1 DEF vars, CollectionsInv, Live, Building, Deferring, Active
<1>2. CASE Call
  BY <1>2, SetWholeKeeps, InitCollectionKeeps, BeginItemKeeps, BeginKeyKeeps, BeginValueKeeps,
     BeginElementKeeps, EndStrictKeeps, EndDeferredKeeps, EndElementKeeps, BeginDeferredKeeps,
     FinishDeferredKeeps, BuildKeeps, CancelKeeps DEF Call
<1>3. CASE Loop
  BY <1>3, WalkFrameKeeps, DisposedKeeps, WalkTopKeeps, CancelKeeps, DropFrameKeeps DEF Loop
<1> QED
  BY <1>1, <1>2, <1>3 DEF Next

\* The invariant holds in every state, for all types and bounds.
THEOREM CollectionsInvariant == Usage = {} => (Spec => []CollectionsInv)
<1> SUFFICES ASSUME Usage = {} PROVE Spec => []CollectionsInv
  OBVIOUS
<1>1. Init => CollectionsInv
  BY InitHolds
<1>2. CollectionsInv /\ [Next]_vars => CollectionsInv'
  BY NextKeeps
<1> QED
  BY <1>1, <1>2, PTL DEF Spec

LEMMA FramesAre == Frames = FramesOf(stack, stored)
BY DEF Frames, FramesOf

\* What the invariant says of each frame of a Partial that is not gone yet.
LEMMA FrameTyped ==
    ASSUME CollectionsInv, NEW f \in Frames
    PROVE  /\ Live /\ FrameOK(f) /\ Tracked(type, f) /\ f.at \in DOMAIN mem
           /\ OwnOK(f, PlacesOf(Frames), mem)
<1>1. Live
  <2>1. ASSUME stack = << >>, DOMAIN stored = {} PROVE FALSE
    BY <2>1 DEF Frames
  <2> QED
    BY <2>1 DEF CollectionsInv, Live
<1>2. LiveOK(type, stack, stored, mem)
  BY <1>1 DEF CollectionsInv
<1> QED
  BY <1>1, <1>2, LiveFacts, OwnedFacts, FramesAre

LEMMA InvTyped == CollectionsInv => TypeOK
<1> SUFFICES ASSUME CollectionsInv PROVE TypeOK
  OBVIOUS
<1>1. /\ type \in Types /\ mode \in {"Strict", "Deferred"} /\ faults = {}
      /\ phase \in {"Active", "Walking", "Cleaning", "Dropping", "Dropped", "Built"}
  BY DEF CollectionsInv
<1>2. ASSUME Active PROVE startDepth <= Len(stack) /\ stack # << >>
  <2>1. stack # << >> /\ Len(stack) \in Nat
    BY <1>2, ActiveFacts DEF Building, Active
  <2>2. CASE mode = "Strict"
    BY <1>2, <2>1, <2>2, InMode
  <2>3. CASE mode = "Deferred"
    BY <1>2, <2>1, <2>3, InMode DEF DeferringOK
  <2> QED
    BY <1>1, <2>1, <2>2, <2>3
<1>3. /\ \A i \in 1..Len(stack) : Len(stack[i].at) = i - 1
      /\ \A p \in DOMAIN stored : Len(p) = Len(stored[p].at)
  <2>1. CASE Live
    <3>1. Placed(stack, stored)
      BY <2>1 DEF CollectionsInv, LiveOK
    <3> QED
      BY <3>1 DEF Placed
  <2>2. CASE ~Live
    <3>1. stack = << >> /\ DOMAIN stored = {}
      BY <2>2 DEF CollectionsInv, Live
    <3> QED
      BY <3>1
  <2> QED
    BY <2>1, <2>2
<1>4. ASSUME NEW f \in Frames
      PROVE  /\ f.tracker = IF IsLeaf(f) \/ f.tracker = "Scalar" THEN "Scalar" ELSE Collection(f)
             /\ f.at \in DOMAIN mem
             /\ f.rope # None => f.tracker = "List" /\ Marked(f) <= RopeLen(f)
             /\ f.pending # << >> => f.tracker = "Map"
             /\ f.state \in IF f.tracker \in {"List", "Set"} THEN {"Idle", "Item"}
                            ELSE IF f.tracker = "Map" THEN {"Idle", "Key", "KeyDone", "Value"}
                            ELSE {"Idle"}
  <2>1. FrameOK(f) /\ Tracked(type, f) /\ f.at \in DOMAIN mem
    BY FrameTyped
  <2>2. f.tracker = IF IsLeaf(f) \/ f.tracker = "Scalar" THEN "Scalar" ELSE Collection(f)
    <3>1. Collection(f) = CollectionOf(type, f)
      BY CollectionIs
    <3> QED
      BY <2>1, <3>1 DEF FrameOK, Tracked
  <2>3. /\ f.rope # None => f.tracker = "List" /\ Marked(f) <= RopeLen(f)
        /\ f.pending # << >> => f.tracker = "Map"
    BY <2>1 DEF FrameOK
  <2>4. f.state \in IF f.tracker \in {"List", "Set"} THEN {"Idle", "Item"}
                    ELSE IF f.tracker = "Map" THEN {"Idle", "Key", "KeyDone", "Value"}
                    ELSE {"Idle"}
    BY <2>1 DEF FrameOK, StateOK
  <2> QED
    BY <2>1, <2>2, <2>3, <2>4
<1> QED
  BY <1>1, <1>2, <1>3, <1>4 DEF TypeOK

LEMMA InvOneAuthority == CollectionsInv => OneAuthority
<1> SUFFICES ASSUME CollectionsInv, Building, NEW a \in DOMAIN mem \ {Root}
             PROVE  LET own == {f \in Frames : f.at = a}
                        parents == {f \in Frames : a \in FinishedParts(f)} IN
                    /\ Cardinality(own) + Cardinality(parents) = 1
                    /\ parents # {} => Holds(Memory, a)
  BY DEF OneAuthority, Building
<1> DEFINE own == {f \in Frames : f.at = a}
           parents == {f \in Frames : a \in FinishedParts(f)}
           P == PlacesOf(Frames)
<1>1. /\ Owned(Frames, mem) /\ Memory.at = mem
      /\ \A g \in Frames : Sound(g, P, StoredAt(stored), mem)
  BY ActiveFacts, FramesAre DEF BuildingOK
<1>2. \A g \in Frames : OwnOK(g, P, mem) /\ FrameOK(g)
  BY FrameTyped
<1>3. a \in Steps /\ Front(a) \in P
  BY <1>1 DEF Owned
<1>4. Cardinality({}) = 0 /\ \A x : Cardinality({x}) = 1
  BY FS_EmptySet, FS_Singleton
<1>5. CASE a \in P
  <2>1. PICK f \in Frames : f.at = a
    BY <1>5 DEF PlacesOf
  <2>2. own = {f}
    BY <1>1, <2>1 DEF Owned
  <2>3. parents = {}
    BY <1>2, <1>5 DEF OwnOK
  <2>4. Cardinality(own) = 1 /\ Cardinality(parents) = 0
    BY <1>4, <2>2, <2>3
  <2> HIDE DEF own, parents
  <2>5. Cardinality(own) + Cardinality(parents) = 1 /\ (parents # {} => Holds(Memory, a))
    BY <2>3, <2>4
  <2> QED
    BY <2>5 DEF own, parents
<1>6. CASE a \notin P
  <2>1. own = {}
    BY <1>6 DEF PlacesOf
  <2>2. PICK g \in Frames : g.at = Front(a)
    BY <1>3 DEF PlacesOf
  <2>3. IsPart(a, g.at)
    BY <2>2 DEF IsPart
  <2>4. a \in Allocations(g)
    BY <1>2, <1>6, <2>3 DEF OwnOK
  <2>5. a \in FinishedParts(g)
    <3>1. Slots(g, Marked(g)) \subseteq FinishedParts(g)
      BY DEF FinishedParts
    <3>2. Allocations(g) = Slots(g, RopeLen(g)) \cup FinishedParts(g)
      BY DEF Allocations
    <3>3. Slots(g, RopeLen(g)) \ Slots(g, Marked(g)) \subseteq P
      BY <1>1 DEF Sound, ListOK
    <3> QED
      BY <1>6, <2>4, <3>1, <3>2, <3>3
  <2>6. ASSUME NEW h \in Frames, a \in FinishedParts(h) PROVE h = g
    <3>1. a \in Allocations(h)
      BY <2>6 DEF Allocations
    <3>2. IsPart(a, h.at)
      BY <1>2, <3>1, AllocationsAreParts
    <3> QED
      BY <1>1, <2>3, <3>2 DEF Owned, IsPart
  <2>7. parents = {g}
    BY <2>5, <2>6
  <2>8. a \in DOMAIN mem /\ mem[a] # None
    BY <1>2, <2>5 DEF OwnOK
  <2>9. Holds(Memory, a)
    BY <1>1, <2>8 DEF Holds
  <2>10. Cardinality(own) = 0 /\ Cardinality(parents) = 1
    BY <1>4, <2>1, <2>7
  <2> HIDE DEF own, parents
  <2>11. Cardinality(own) + Cardinality(parents) = 1 /\ (parents # {} => Holds(Memory, a))
    BY <2>9, <2>10
  <2> QED
    BY <2>11 DEF own, parents
<1> QED
  BY <1>5, <1>6

\* A frame that is asked whether it is complete, and is not.
LEMMA NotComplete ==
    ASSUME CollectionsInv, Building, NEW f \in Frames, f.state \in {"Idle", "KeyDone"}, ~Complete(f)
    PROVE  mem[f.at] = None \/ f.state = "KeyDone"
BY FrameTyped DEF Complete, OwnOK

LEMMA WalkRefuses ==
    ASSUME CollectionsInv, Next, phase = "Walking", phase' \in {"Cleaning", "Dropping"}
    PROVE  \E f \in Frames : mem[f.at] = None \/ f.state = "KeyDone"
<1>0. Building
  BY DEF Building
<1>1. ~Active
  BY DEF Active
<1>2. ~Call
  BY <1>1 DEF Call, SetWhole, InitCollection, BeginItem, BeginKey, BeginValue, BeginElement,
     EndStrict, EndDeferred, EndElement, BeginDeferred, FinishDeferred, Build, Cancel
<1>3. (\E p \in DOMAIN stored : WalkFails(p)) \/ WalkTopFails
  BY <1>2 DEF Next, Loop, WalkFrame, CleanStored, WalkTop, CleanedUp, DropFrame
<1>4. CASE \E p \in DOMAIN stored : WalkFails(p)
  <2>1. PICK p \in DOMAIN stored : ~Complete(stored[p])
    BY <1>4 DEF WalkFails
  <2>2. stored[p] \in Frames
    BY DEF Frames
  <2>3. stored[p].state \in {"Idle", "KeyDone"}
    BY <1>0, ActiveFacts DEF BuildingOK
  <2> QED
    BY <1>0, <2>1, <2>2, <2>3, NotComplete
<1>5. CASE WalkTopFails
  <2>1. ~Complete(Top)
    BY <1>5 DEF WalkTopFails
  <2>2. Top \in Frames /\ Top.state \in {"Idle", "KeyDone"}
    BY <1>0, ActiveFacts, FramesAre
  <2> QED
    BY <1>0, <2>1, <2>2, NotComplete
<1> QED
  BY <1>3, <1>4, <1>5

(***************************************************************************)
(* The state is well formed; in particular mark_last_initialized never     *)
(* counts more slots than push_uninit handed out, whatever is begun,       *)
(* stored, ended again or given up.                                        *)
(***************************************************************************)
THEOREM CollectionsTyped == Usage = {} => (Spec => []TypeOK)
BY CollectionsInvariant, InvTyped, PTL

(***************************************************************************)
(* drain_rope_into_vec and drain_pending_into_map move initialized         *)
(* elements and full entries only, deinit drops no element that holds      *)
(* nothing, and complete_map_value_frame finds the half-entry of its key.  *)
(***************************************************************************)
THEOREM DrainsInitialized == Usage = {} => (Spec => []OnlyInitialized)
<1>1. CollectionsInv => OnlyInitialized
  BY DEF CollectionsInv, OnlyInitialized
<1> QED
  BY <1>1, CollectionsInvariant, PTL

(***************************************************************************)
(* No element is lost when a chunk or a buffer is freed or written over,   *)
(* and nothing is left behind by a Partial that is built or dropped, at    *)
(* whatever call or frame of the walk it is given up.                      *)
(***************************************************************************)
THEOREM ElementsKept == Usage = {} => (Spec => []NothingLost)
<1>1. CollectionsInv => NothingLost
  BY DEF CollectionsInv, NothingLost
<1> QED
  BY <1>1, CollectionsInvariant, PTL

(***************************************************************************)
(* "One authority": a slot or a buffer has either a frame of its own or a  *)
(* collection that counts it as finished, never both and never neither,    *)
(* through every call and every frame of the walk of finish_deferred.      *)
(***************************************************************************)
THEOREM SlotsHaveOneOwner == Usage = {} => (Spec => []OneAuthority)
BY CollectionsInvariant, InvOneAuthority, PTL

(***************************************************************************)
(* finish_deferred refuses a value only if one of its frames has none, or  *)
(* is a map that waits for the value of a key.                             *)
(***************************************************************************)
THEOREM OnlyGapsRefused == Usage = {} => (Spec => RefusesOnlyGaps)
<1> SUFFICES ASSUME Usage = {} PROVE Spec => RefusesOnlyGaps
  OBVIOUS
<1> DEFINE A == phase = "Walking" /\ phase' \in {"Cleaning", "Dropping"} =>
                   \E f \in Frames : mem[f.at] = None \/ f.state = "KeyDone"
<1>1. CollectionsInv /\ [Next]_vars => [A]_vars
  BY WalkRefuses
<1>2. Spec => []CollectionsInv
  BY CollectionsInvariant
<1>3. Spec => [][A]_vars
  BY <1>1, <1>2, PTL DEF Spec
<1> QED
  BY <1>3 DEF RefusesOnlyGaps
=============================================================================
