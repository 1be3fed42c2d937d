------------------------- MODULE Description_proofs -------------------------
(***************************************************************************)
(* That build() hands over the value the caller described, first part:     *)
(* what the frames are told, and the calls that begin an element or write  *)
(* a value.                                                                *)
(*                                                                         *)
(* The history variable said has one value, for the root.  What the        *)
(* frames are told to build is spread over it: some function d gives the   *)
(* value described of each place (Told), and d agrees with every frame,    *)
(* those stored included (Tells).  A collection's description is what it   *)
(* holds already, and then one value for each slot of its rope, for each   *)
(* pending entry and each entry begun; those it counts as finished hold    *)
(* what is described of them.  An element that has a frame in storage is   *)
(* described at the number of its step, which is where the walk counts it  *)
(* (Counted): this is where the order of the walk matters.  A set only     *)
(* agrees as a set, and a set of leaves in order, because the numbers      *)
(* written grow (Grows, New).                                              *)
(*                                                                         *)
(* The description is not a function of the frames and the memory (an      *)
(* element that a set dropped is in none of them), hence the \E d.         *)
(***************************************************************************)
EXTENDS Collections_proofs

-----------------------------------------------------------------------------
(* What is described: d gives the value described of each place *)

\* The value v of a collection that holds c has n elements more.
Longer(v, c, n) ==
    /\ Len(v) \in Nat /\ Len(c) \in Nat /\ Len(v) = Len(c) + n
    /\ \A i \in 1..Len(c) : v[i] = c[i]

\* What v says of the element with the number of step x.
Counted(c, v, x) == Half(v[Len(c) + x[2] + 1], x)

\* v says of the element that was begun last.
Lastly(v, x) == Half(v[Len(v)], x)

ScalarTells(g, v, m) == IF g.isInit THEN v = m[g.at][1] ELSE ~IsLeaf(g) => v = << >>

ListTells(g, v, c, m) ==
    /\ Longer(v, c, RopeLen(g))
    /\ \A k \in 0..Marked(g) - 1 : m[Part(g, "item", k)][1] = v[Len(c) + k + 1]

\* The number of elements of a map's description beyond those it holds, when
\* n entries have a key.
Entries(g, n) == IF g.state = "Key" THEN n + 1 ELSE n

EntryTells(e, x, m) ==
    /\ m[e.key][1] = x[1]
    /\ e.value # None => m[e.value[1]][1] = x[2]

MapTells(g, v, c, S, m) ==
    \E n \in Nat :
        /\ MapIs(g, S, n)
        /\ Longer(v, c, Entries(g, n))
        /\ \A j \in Len(c) + 1..Len(v) : v[j] = <<v[j][1], v[j][2]>>
        /\ \A i \in 1..Len(g.pending) : EntryTells(g.pending[i], v[Len(c) + i], m)
        /\ g.state \in {"Key", "KeyDone"} /\ g.at = Root => v[Len(v)][2] = << >>

\* A set of collections drops what it has already.
SetTells(g, v, c) ==
    LET n == IF g.state = "Item" THEN 1 ELSE 0 IN
    IF g.at = Root THEN Len(v) >= n /\ {v[i] : i \in 1..Len(v) - n} = ToSet(c)
    ELSE Longer(v, c, n)

Busy(g) == g.state \in {"Item", "Key", "Value"}

Tells(g, d, S, m) ==
    LET v == d[g.at]
        c == m[g.at][1] IN
    /\ g.tracker = "Scalar" => ScalarTells(g, v, m)
    /\ g.tracker # "Scalar" => IsSeq(v) /\ IsSeq(c)
    /\ g.tracker = "List" => ListTells(g, v, c, m)
    /\ g.tracker = "Map" => MapTells(g, v, c, S, m)
    /\ g.tracker = "Set" => SetTells(g, v, c)
    /\ g.tracker # "Set" => \A x \in StepSet : Append(g.at, x) \in S => d[Append(g.at, x)] = Counted(c, v, x)
    /\ Busy(g) => Len(v) >= 1 /\ d[Open(g)] = Lastly(v, StepOpen(g))

\* Leaves are written with numbers that grow: one that is written is new to a
\* set of leaves.
Grows(t, g, m, w) ==
    /\ Len(g.at) = 1 /\ ~IsLeaf(g) /\ t[2] = "set" /\ g.isInit => ToSet(m[g.at][1]) \subseteq 0..w
    /\ IsLeaf(g) /\ g.isInit => m[g.at][1] \in 0..w
New(g, m) ==
    g.tracker = "Set" /\ Busy(g) /\ g.at # Root /\ m[Open(g)] # None => m[Open(g)][1] \notin ToSet(m[g.at][1])

TellsAll(t, F, d, S, m, w) == \A g \in F : Tells(g, d, S, m) /\ Grows(t, g, m, w) /\ New(g, m)

Told(t, s, st, m, w, D) == \E d : d[Root] = D /\ TellsAll(t, FramesOf(s, st), d, StoredAt(st), m, w)

\* What a place holds is a value.
Boxed(m) == \A a \in DOMAIN m : m[a] # None => m[a] = Some(m[a][1])

DescriptionInv ==
    /\ Building => Told(type, stack, stored, mem, 3 * sets, said) /\ Boxed(mem)
    /\ sets \in Nat
    /\ AsDescribed

-----------------------------------------------------------------------------

\* What IsSeq gives.
LEMMA SeqFacts ==
    ASSUME NEW v, IsSeq(v)
    PROVE  Len(v) \in Nat /\ DOMAIN v = 1..Len(v)
  <1>1. v \in Seq({v[i] : i \in DOMAIN v})  BY DEF IsSeq
  <1>2. QED  BY <1>1

\* What Append gives.
LEMMA AppendIs ==
    ASSUME NEW v, IsSeq(v), NEW x
    PROVE  /\ IsSeq(Append(v, x)) /\ Len(Append(v, x)) = Len(v) + 1
           /\ Append(v, x)[Len(v) + 1] = x
           /\ \A i \in 1..Len(v) : Append(v, x)[i] = v[i]
  <1> DEFINE S == {v[i] : i \in DOMAIN v} \cup {x}
  <1>1. v \in Seq({v[i] : i \in DOMAIN v})  BY DEF IsSeq
  <1>2. v \in Seq(S)  BY <1>1
  <1>3. x \in S  OBVIOUS
  <1> HIDE DEF S
  <1>4. Append(v, x) \in Seq(S)  BY <1>2, <1>3
  <1>5. IsSeq(Append(v, x))  BY <1>4, SeqIs
  <1>6. QED  BY <1>2, <1>3, <1>5

\* The element begun last is described anew.
Over(v, x, w) == [v EXCEPT ![Len(v)] = WithHalf(@, x, w)]

LEMMA OverIs ==
    ASSUME NEW v, IsSeq(v), Len(v) >= 1, NEW x, NEW w
    PROVE  /\ IsSeq(Over(v, x, w)) /\ Len(Over(v, x, w)) = Len(v)
           /\ Over(v, x, w)[Len(v)] = WithHalf(v[Len(v)], x, w)
           /\ \A i \in 1..Len(v) : i # Len(v) => Over(v, x, w)[i] = v[i]
  <1> DEFINE y == WithHalf(v[Len(v)], x, w)
             S == {v[i] : i \in DOMAIN v} \cup {y}
  <1>1. v \in Seq({v[i] : i \in DOMAIN v})  BY DEF IsSeq
  <1>2. v \in Seq(S)  BY <1>1
  <1>3. y \in S  OBVIOUS
  <1>4. Len(v) \in 1..Len(v) /\ Len(v) \in DOMAIN v  BY <1>1
  <1>5. Over(v, x, w) = [v EXCEPT ![Len(v)] = y]  BY DEF Over
  <1> HIDE DEF S, y
  <1>6. [v EXCEPT ![Len(v)] = y] \in Seq(S)  BY <1>2, <1>3
  <1>7. IsSeq(Over(v, x, w))  BY <1>5, <1>6, SeqIs
  <1>8. /\ Len([v EXCEPT ![Len(v)] = y]) = Len(v)
        /\ [v EXCEPT ![Len(v)] = y][Len(v)] = y
        /\ \A i \in 1..Len(v) : i # Len(v) => [v EXCEPT ![Len(v)] = y][i] = v[i]
    BY <1>2, <1>3, <1>4
  <1>9. QED  BY <1>5, <1>7, <1>8 DEF y

LEMMA HalfIs ==
    ASSUME NEW x, NEW w, NEW s, s[1] \in {"item", "key", "value", "element"}
    PROVE  /\ Half(WithHalf(x, s, w), s) = w
           /\ s[1] = "key" => WithHalf(x, s, w) = <<w, x[2]>>
           /\ s[1] = "value" => WithHalf(x, s, w) = <<x[1], w>>
           /\ s[1] \in {"item", "element"} => WithHalf(x, s, w) = w
           /\ s[1] = "key" => Half(x, s) = x[1]
           /\ s[1] = "value" => Half(x, s) = x[2]
           /\ s[1] \in {"item", "element"} => Half(x, s) = x
  BY DEF Half, WithHalf

-----------------------------------------------------------------------------
(* What a frame is told depends on what concerns it only *)

\* What concerns frame g is as it was.
SameFor(g, d, S, m, d2, S2, m2) ==
    /\ d2[g.at] = d[g.at] /\ m2[g.at] = m[g.at]
    /\ \A a : IsPart(a, g.at) => (a \in S <=> a \in S2) /\ (a \in S => d2[a] = d[a])
    /\ Busy(g) => d2[Open(g)] = d[Open(g)]
    /\ \A a \in FinishedParts(g) : m2[a] = m[a]

LEMMA ListTellsKept ==
    ASSUME NEW g, FrameOK(g), NEW v, NEW c, NEW m, ListTells(g, v, c, m), NEW m2,
           \A a \in FinishedParts(g) : m2[a] = m[a]
    PROVE  ListTells(g, v, c, m2)
  <1>1. ASSUME NEW k \in 0..Marked(g) - 1
        PROVE  m2[Part(g, "item", k)] = m[Part(g, "item", k)]
    <2>1. Marked(g) \in Nat  BY FrameFacts
    <2>2. k \in Nat /\ k < Marked(g)  BY <2>1
    <2>3. Part(g, "item", k) \in FinishedParts(g)  BY <2>2, FinishedAre
    <2>4. QED  BY <2>3
  <1>2. QED  BY <1>1 DEF ListTells

LEMMA EntriesKept ==
    ASSUME NEW g, FrameOK(g), NEW m, NEW m2, \A a \in FinishedParts(g) : m2[a] = m[a],
           NEW i \in 1..Len(g.pending), NEW x, EntryTells(g.pending[i], x, m)
    PROVE  EntryTells(g.pending[i], x, m2)
  <1>1. m2[g.pending[i].key] = m[g.pending[i].key]  BY FinishedAre
  <1>2. g.pending[i].value # None => m2[g.pending[i].value[1]] = m[g.pending[i].value[1]]
    BY FinishedAre
  <1>3. QED  BY <1>1, <1>2 DEF EntryTells

LEMMA MapTellsKept ==
    ASSUME NEW g, FrameOK(g), NEW v, NEW c, NEW S, NEW m, MapTells(g, v, c, S, m), NEW S2, NEW m2,
           \A a : IsPart(a, g.at) => (a \in S <=> a \in S2),
           \A a \in FinishedParts(g) : m2[a] = m[a]
    PROVE  MapTells(g, v, c, S2, m2)
  <1>1. PICK n \in Nat :
            /\ MapIs(g, S, n)
            /\ Longer(v, c, Entries(g, n))
            /\ \A j \in Len(c) + 1..Len(v) : v[j] = <<v[j][1], v[j][2]>>
            /\ \A i \in 1..Len(g.pending) : EntryTells(g.pending[i], v[Len(c) + i], m)
            /\ g.state \in {"Key", "KeyDone"} /\ g.at = Root => v[Len(v)][2] = << >>
    BY DEF MapTells
  <1>2. g.at \in Steps  BY FrameFacts
  <1>3. MapIs(g, S2, n)  BY <1>1, <1>2, MapSame
  <1>4. \A i \in 1..Len(g.pending) : EntryTells(g.pending[i], v[Len(c) + i], m2)
    BY <1>1, EntriesKept
  <1>5. QED  BY <1>1, <1>3, <1>4 DEF MapTells

\* A frame is told the same where what concerns it is the same.
LEMMA TellsKept ==
    ASSUME NEW g, FrameOK(g), NEW d, NEW S, NEW m, Tells(g, d, S, m),
           NEW d2, NEW S2, NEW m2, SameFor(g, d, S, m, d2, S2, m2)
    PROVE  Tells(g, d2, S2, m2)
  <1> DEFINE v == d[g.at]
             c == m[g.at][1]
  <1>1. d2[g.at] = v /\ m2[g.at][1] = c /\ m2[g.at] = m[g.at]  BY DEF SameFor
  <1>2. \A a \in FinishedParts(g) : m2[a] = m[a]  BY DEF SameFor
  <1>3. \A a : IsPart(a, g.at) => (a \in S <=> a \in S2) /\ (a \in S => d2[a] = d[a])  BY DEF SameFor
  <1>4. g.tracker = "Scalar" => ScalarTells(g, v, m2)  BY <1>1 DEF Tells, ScalarTells
  <1>5. g.tracker # "Scalar" => IsSeq(v) /\ IsSeq(c)  BY DEF Tells
  <1>6. g.tracker = "List" => ListTells(g, v, c, m2)  BY <1>2, ListTellsKept DEF Tells
  <1>7. ASSUME g.tracker = "Map" PROVE MapTells(g, v, c, S2, m2)
    <2>1. MapTells(g, v, c, S, m)  BY <1>7 DEF Tells
    <2>2. \A a : IsPart(a, g.at) => (a \in S <=> a \in S2)  BY <1>3
    <2>3. QED  BY <2>1, <2>2, <1>2, MapTellsKept
  <1>8. g.tracker = "Set" => SetTells(g, v, c)  BY DEF Tells
  <1>9. ASSUME g.tracker # "Set", NEW x \in StepSet, Append(g.at, x) \in S2
        PROVE  d2[Append(g.at, x)] = Counted(c, v, x)
    <2>1. g.at \in Steps  BY FrameFacts
    <2>2. IsPart(Append(g.at, x), g.at)  BY <2>1, Child DEF IsPart
    <2>3. Append(g.at, x) \in S /\ d2[Append(g.at, x)] = d[Append(g.at, x)]  BY <2>2, <1>3, <1>9
    <2>4. d[Append(g.at, x)] = Counted(c, v, x)  BY <2>3, <1>9 DEF Tells
    <2>5. QED  BY <2>3, <2>4
  <1>10. Busy(g) => Len(v) >= 1 /\ d2[Open(g)] = Lastly(v, StepOpen(g))  BY DEF Tells, SameFor
  <1> HIDE DEF v, c
  <1>11. QED  BY <1>1, <1>4, <1>5, <1>6, <1>7, <1>8, <1>9, <1>10 DEF Tells

-----------------------------------------------------------------------------
(* The element begun last is described anew *)

\* v2 is v with its last element described anew, as w at the step x.
Retold(v, v2, x, w) ==
    /\ Len(v) \in Nat \ {0} /\ Len(v2) = Len(v)
    /\ v2[Len(v)] = WithHalf(v[Len(v)], x, w)
    /\ \A i \in 1..Len(v) : i # Len(v) => v2[i] = v[i]

LEMMA RetoldIs ==
    ASSUME NEW v, IsSeq(v), Len(v) >= 1, NEW x, NEW w
    PROVE  Retold(v, Over(v, x, w), x, w)
  BY OverIs, SeqFacts DEF Retold

LEMMA ListRetold ==
    ASSUME NEW g, FrameOK(g), g.tracker = "List", NEW v, NEW c, NEW m, ListTells(g, v, c, m),
           StepOpen(g) \in StepSet, Open(g) \notin FinishedParts(g),
           NEW v2, NEW w, Retold(v, v2, StepOpen(g), w)
    PROVE  /\ ListTells(g, v2, c, m)
           /\ \A k \in Nat : k < RopeLen(g) /\ k # StepOpen(g)[2] => v2[Len(c) + k + 1] = v[Len(c) + k + 1]
  <1>1. RopeLen(g) \in Nat /\ Marked(g) \in Nat /\ Marked(g) <= RopeLen(g)  BY FrameFacts
  <1>2. StepOpen(g) = <<"item", RopeLen(g) - 1>>  BY DEF StepOpen
  <1>3. RopeLen(g) - 1 \in Nat /\ StepOpen(g)[2] = RopeLen(g) - 1  BY <1>2 DEF StepSet
  <1>4. ASSUME Marked(g) = RopeLen(g) PROVE FALSE
    <2>1. RopeLen(g) - 1 < Marked(g)  BY <1>4, <1>1
    <2>2. Part(g, "item", RopeLen(g) - 1) \in FinishedParts(g)  BY <2>1, <1>3, FinishedAre
    <2>3. Open(g) = Part(g, "item", RopeLen(g) - 1)  BY <1>2 DEF Open, Part
    <2>4. QED  BY <2>2, <2>3
  <1> DEFINE l == Len(c)
             L == Len(v)
             r == RopeLen(g)
             mk == Marked(g)
  <1>5. l \in Nat /\ L \in Nat /\ L = l + r /\ \A i \in 1..l : v[i] = c[i]  BY DEF ListTells, Longer
  <1>6. Len(v2) = L /\ \A i \in 1..L : i # L => v2[i] = v[i]  BY DEF Retold
  <1>7. \A k \in 0..mk - 1 : m[Part(g, "item", k)][1] = v[l + k + 1]  BY DEF ListTells
  <1>8. r \in Nat /\ mk \in Nat /\ mk <= r - 1  BY <1>1, <1>4
  <1>9. StepOpen(g)[2] = r - 1  BY <1>3
  <1> HIDE DEF l, L, r, mk
  <1>10. \A i \in 1..l : v2[i] = c[i]  BY <1>5, <1>6, <1>8
  <1>11. ASSUME NEW k \in Nat, k < r, k # r - 1 PROVE v2[l + k + 1] = v[l + k + 1]
    <2>1. l + k + 1 \in 1..L /\ l + k + 1 # L  BY <1>5, <1>8, <1>11
    <2>2. QED  BY <2>1, <1>6
  <1>12. ASSUME NEW k \in 0..mk - 1 PROVE m[Part(g, "item", k)][1] = v2[l + k + 1]
    <2>1. k \in Nat /\ k < r /\ k # r - 1  BY <1>8, <1>12
    <2>2. v2[l + k + 1] = v[l + k + 1]  BY <2>1, <1>11
    <2>3. QED  BY <2>2, <1>7
  <1>13. Longer(v2, c, r)  BY <1>5, <1>6, <1>10 DEF Longer, l
  <1>14. ListTells(g, v2, c, m)  BY <1>12, <1>13 DEF ListTells, l, r, mk
  <1>15. QED  BY <1>14, <1>11, <1>9 DEF l, r

LEMMA PairIs == ASSUME NEW a, NEW b PROVE <<a, b>>[1] = a /\ <<a, b>>[2] = b /\ <<a, b>> = <<<<a, b>>[1], <<a, b>>[2]>>
  OBVIOUS

\* The entry whose half was begun is the last; the other half stays.
LEMMA MapRetold ==
    ASSUME NEW g, FrameOK(g), g.tracker = "Map", Busy(g), NEW v, NEW c, NEW S, NEW m, MapTells(g, v, c, S, m),
           NEW v2, NEW w, Retold(v, v2, StepOpen(g), w)
    PROVE  /\ MapTells(g, v2, c, S, m)
           /\ \A x \in StepSet : Append(g.at, x) \in S /\ x[1] \in {"key", "value"} =>
                Counted(c, v2, x) = Counted(c, v, x)
  <1>1. PICK n \in Nat :
            /\ MapIs(g, S, n)
            /\ Longer(v, c, Entries(g, n))
            /\ \A j \in Len(c) + 1..Len(v) : v[j] = <<v[j][1], v[j][2]>>
            /\ \A i \in 1..Len(g.pending) : EntryTells(g.pending[i], v[Len(c) + i], m)
            /\ g.state \in {"Key", "KeyDone"} /\ g.at = Root => v[Len(v)][2] = << >>
    BY DEF MapTells
  <1> DEFINE l == Len(c)
             L == Len(v)
             e == Entries(g, n)
             y == v[L]
             p == Len(g.pending)
  <1>2. l \in Nat /\ L \in Nat /\ L = l + e /\ \A i \in 1..l : v[i] = c[i]  BY <1>1 DEF Longer
  <1>3. L \in Nat \ {0} /\ Len(v2) = L /\ \A i \in 1..L : i # L => v2[i] = v[i]  BY DEF Retold
  <1>4. \/ g.state = "Key" /\ e = n + 1 /\ v2[L] = <<w, y[2]>>
        \/ g.state = "Value" /\ e = n /\ n > 0 /\ v2[L] = <<y[1], w>>
    <2>1. StateOK(g)  BY DEF FrameOK
    <2>2. \/ g.state = "Key" /\ StepOpen(g)[1] = "key"
          \/ g.state = "Value" /\ StepOpen(g)[1] = "value"
      BY <2>1 DEF StateOK, Busy, StepOpen, Some
    <2>3. v2[L] = WithHalf(y, StepOpen(g), w)  BY DEF Retold
    <2>4. g.state = "Value" => n > 0  BY <1>1 DEF MapIs, Waits
    <2>5. g.state = "Key" => e = n + 1  BY DEF Entries
    <2>6. g.state = "Value" => e = n  BY DEF Entries
    <2> HIDE DEF y, L, e
    <2>7. StepOpen(g)[1] = "key" => WithHalf(y, StepOpen(g), w) = <<w, y[2]>>  BY DEF WithHalf
    <2>8. StepOpen(g)[1] = "value" => WithHalf(y, StepOpen(g), w) = <<y[1], w>>  BY DEF WithHalf
    <2>9. QED  BY <2>2, <2>3, <2>4, <2>5, <2>6, <2>7, <2>8
  <1>5. /\ v2[L] = <<v2[L][1], v2[L][2]>>
        /\ g.state = "Key" => v2[L][2] = y[2]
        /\ g.state = "Value" => v2[L][1] = y[1]
    <2> HIDE DEF y, L, e
    <2>1. CASE g.state = "Key" /\ v2[L] = <<w, y[2]>>
      BY <2>1
    <2>2. CASE g.state = "Value" /\ v2[L] = <<y[1], w>>
      BY <2>2
    <2>3. QED  BY <2>1, <2>2, <1>4
  <1>6. g.state = "Key" \/ (g.state = "Value" /\ n > 0)  BY <1>4
  <1>7. (g.state = "Key" => e = n + 1) /\ (g.state = "Value" => e = n)  BY DEF Entries
  <1>8. p \in Nat /\ p <= n  BY <1>1, FrameFacts DEF MapIs
  <1>9. \A i \in 1..p : EntryTells(g.pending[i], v[l + i], m)  BY <1>1
  <1>10. \A j \in l + 1..L : v[j] = <<v[j][1], v[j][2]>>  BY <1>1
  <1>11. g.state = "Value" /\ n \in 1..p => g.pending[n].value = None
    <2>1. g.state = "Value" => ~Given(g, n - 1)  BY <1>1 DEF MapIs, Waits
    <2>2. n \in 1..p => n - 1 < Len(g.pending) /\ n - 1 + 1 = n  BY <1>8
    <2>3. QED  BY <2>1, <2>2 DEF Given
  <1>12. ASSUME NEW x \in StepSet, Append(g.at, x) \in S, x[1] \in {"key", "value"}
         PROVE  x[2] \in Nat /\ x[2] < n /\ (x[1] = "value" /\ g.state = "Value" => x[2] # n - 1)
    <2>1. x = <<x[1], x[2]>> /\ x[2] \in Nat  BY DEF StepSet
    <2>2. Append(g.at, x) = Part(g, x[1], x[2])  BY <2>1 DEF Part
    <2>3. x[1] = "key" => x[2] < n  BY <1>1, <1>12, <2>1, <2>2 DEF MapIs
    <2>4. x[1] = "value" => x[2] < n /\ ~(Waits(g) /\ x[2] = n - 1)  BY <1>1, <1>12, <2>1, <2>2 DEF MapIs
    <2>5. QED  BY <2>1, <2>3, <2>4, <1>12 DEF Waits
  <1>13. y = v[L]  OBVIOUS
  <1>14. g.state \in {"Key", "KeyDone"} /\ g.at = Root => y[2] = << >>  BY <1>1
  <1> HIDE DEF l, L, e, y, p
  <1>15. \A i \in 1..l : v2[i] = c[i]  BY <1>2, <1>3, <1>6, <1>7
  <1>16. \A j \in l + 1..L : v2[j] = <<v2[j][1], v2[j][2]>>
    <2> TAKE j \in l + 1..L
    <2>1. CASE j = L  BY <2>1, <1>5
    <2>2. CASE j # L
      <3>1. v2[j] = v[j]  BY <2>2, <1>3, <1>2
      <3>2. QED  BY <3>1, <1>10
    <2>3. QED  BY <2>1, <2>2
  <1>17. ASSUME NEW i \in 1..p PROVE EntryTells(g.pending[i], v2[l + i], m)
    <2>1. EntryTells(g.pending[i], v[l + i], m)  BY <1>9
    <2>2. CASE l + i # L
      <3>1. l + i \in 1..L  BY <1>2, <1>6, <1>7, <1>8
      <3>2. v2[l + i] = v[l + i]  BY <3>1, <2>2, <1>3
      <3>3. QED  BY <3>2, <2>1
    <2>3. CASE l + i = L
      <3>1. g.state = "Value" /\ i = n  BY <2>3, <1>2, <1>6, <1>7, <1>8
      <3>2. g.pending[i].value = None  BY <3>1, <1>11
      <3>3. v2[l + i][1] = v[l + i][1]  BY <3>1, <1>5, <2>3, <1>13
      <3>4. QED  BY <3>2, <3>3, <2>1 DEF EntryTells
    <2>4. QED  BY <2>2, <2>3
  <1>18. Longer(v2, c, e)  BY <1>2, <1>3, <1>15 DEF Longer, l
  <1>19. g.state \in {"Key", "KeyDone"} /\ g.at = Root => v2[Len(v2)][2] = << >>
    BY <1>14, <1>5, <1>6, <1>3
  <1>20. MapTells(g, v2, c, S, m)
    <2>1. Longer(v2, c, Entries(g, n))  BY <1>18 DEF e
    <2>2. \A j \in Len(c) + 1..Len(v2) : v2[j] = <<v2[j][1], v2[j][2]>>  BY <1>16, <1>3 DEF l
    <2>3. \A i \in 1..Len(g.pending) : EntryTells(g.pending[i], v2[Len(c) + i], m)  BY <1>17 DEF l, p
    <2>4. QED  BY <1>1, <2>1, <2>2, <2>3, <1>19 DEF MapTells
  <1>21. ASSUME NEW x \in StepSet, Append(g.at, x) \in S, x[1] \in {"key", "value"}
         PROVE  Half(v2[l + x[2] + 1], x) = Half(v[l + x[2] + 1], x)
    <2>1. x[2] \in Nat /\ x[2] < n /\ (x[1] = "value" /\ g.state = "Value" => x[2] # n - 1)  BY <1>12, <1>21
    <2>2. l + x[2] + 1 \in 1..L  BY <2>1, <1>2, <1>6, <1>7
    <2>3. CASE l + x[2] + 1 # L
      BY <2>2, <2>3, <1>3
    <2>4. CASE l + x[2] + 1 = L
      <3>1. g.state = "Value" /\ x[2] = n - 1  BY <2>4, <2>1, <1>2, <1>6, <1>7
      <3>2. x[1] = "key"  BY <3>1, <2>1, <1>21
      <3>3. v2[l + x[2] + 1][1] = v[l + x[2] + 1][1]  BY <3>1, <1>5, <2>4, <1>13
      <3>4. QED  BY <3>2, <3>3 DEF Half
    <2>5. QED  BY <2>3, <2>4
  <1>22. QED  BY <1>20, <1>21 DEF Counted, l

LEMMA SetRetold ==
    ASSUME NEW g, FrameOK(g), g.tracker = "Set", Busy(g), NEW v, NEW c, SetTells(g, v, c),
           NEW v2, NEW x, NEW w, Retold(v, v2, x, w)
    PROVE  SetTells(g, v2, c)
  <1>1. StateOK(g)  BY DEF FrameOK
  <1>2. g.state = "Item"  BY <1>1 DEF StateOK, Busy
  <1> DEFINE L == Len(v)
             l == Len(c)
  <1>3. L \in Nat \ {0} /\ Len(v2) = L /\ \A i \in 1..L : i # L => v2[i] = v[i]  BY DEF Retold
  <1>4. CASE g.at = Root
    <2>1. {v[i] : i \in 1..L - 1} = ToSet(c)  BY <1>2, <1>4 DEF SetTells
    <2>2. \A i \in 1..L - 1 : v2[i] = v[i]
      <3> HIDE DEF L
      <3>1. QED  BY <1>3
    <2>3. {v2[i] : i \in 1..L - 1} = {v[i] : i \in 1..L - 1}  BY <2>2
    <2>4. L >= 1  BY <1>3
    <2> HIDE DEF L
    <2>5. Len(v2) >= 1 /\ {v2[i] : i \in 1..Len(v2) - 1} = ToSet(c)  BY <2>1, <2>3, <2>4, <1>3
    <2>6. QED  BY <2>5, <1>2, <1>4 DEF SetTells
  <1>5. CASE g.at # Root
    <2>1. Longer(v, c, 1)  BY <1>2, <1>5 DEF SetTells
    <2>2. L \in Nat /\ l \in Nat /\ L = l + 1 /\ \A i \in 1..l : v[i] = c[i]  BY <2>1 DEF Longer
    <2> HIDE DEF L, l
    <2>3. \A i \in 1..l : v2[i] = c[i]  BY <2>2, <1>3
    <2>4. Len(v2) \in Nat /\ l \in Nat /\ Len(v2) = l + 1  BY <2>2, <1>3
    <2>5. Longer(v2, c, 1)  BY <2>3, <2>4 DEF Longer, l
    <2>6. QED  BY <2>5, <1>2, <1>5 DEF SetTells
  <1>6. QED  BY <1>4, <1>5

\* In d2 the element that g is open for is described anew, and nothing else
\* that concerns g.
RetoldFor(g, d, S, d2) ==
    /\ IsSeq(d2[g.at]) /\ Retold(d[g.at], d2[g.at], StepOpen(g), d2[Open(g)])
    /\ \A a \in S : IsPart(a, g.at) => d2[a] = d[a]

\* A frame that is open is told anew of its open element.
LEMMA TellsRetold ==
    ASSUME NEW g, FrameOK(g), Busy(g), StepOpen(g) \in StepSet, NEW d, NEW S, NEW m, Tells(g, d, S, m),
           Open(g) \notin FinishedParts(g), Open(g) \notin S,
           \A x \in StepSet : Append(g.at, x) \in S => Kid(g, x),
           NEW d2, RetoldFor(g, d, S, d2)
    PROVE  Tells(g, d2, S, m)
  <1> DEFINE v == d[g.at]
             v2 == d2[g.at]
             c == m[g.at][1]
             o == StepOpen(g)
             w == d2[Open(g)]
  <1>1. Retold(v, v2, o, w) /\ IsSeq(v2)  BY DEF RetoldFor
  <1>2. g.tracker \in {"List", "Map", "Set"}
    <2>1. StateOK(g) /\ g.tracker \in {"Scalar", "List", "Map", "Set"}  BY DEF FrameOK, FrameSet
    <2>2. QED  BY <2>1 DEF StateOK, Busy
  <1>3. IsSeq(c)  BY <1>2 DEF Tells
  <1>4. o[1] \in {"item", "key", "value", "element"}  BY DEF StepSet
  <1>5. v2[Len(v2)] = WithHalf(v[Len(v)], o, w) /\ Len(v2) >= 1  BY <1>1 DEF Retold
  <1>6. w = Lastly(v2, o)
    <2>1. Half(WithHalf(v[Len(v)], o, w), o) = w  BY <1>4, HalfIs
    <2>2. QED  BY <2>1, <1>5 DEF Lastly
  <1>7. ASSUME g.tracker = "List"
        PROVE  /\ ListTells(g, v2, c, m)
               /\ \A k \in Nat : k < RopeLen(g) /\ k # o[2] => v2[Len(c) + k + 1] = v[Len(c) + k + 1]
    <2>1. ListTells(g, v, c, m)  BY <1>7 DEF Tells
    <2>2. QED  BY <2>1, <1>7, <1>1, ListRetold
  <1>8. ASSUME g.tracker = "Map"
        PROVE  /\ MapTells(g, v2, c, S, m)
               /\ \A x \in StepSet : Append(g.at, x) \in S /\ x[1] \in {"key", "value"} =>
                    Counted(c, v2, x) = Counted(c, v, x)
    <2>1. MapTells(g, v, c, S, m)  BY <1>8 DEF Tells
    <2>2. QED  BY <2>1, <1>8, <1>1, MapRetold
  <1>9. ASSUME g.tracker = "Set" PROVE SetTells(g, v2, c)
    <2>1. SetTells(g, v, c)  BY <1>9 DEF Tells
    <2>2. QED  BY <2>1, <1>9, <1>1, SetRetold
  <1>10. ASSUME g.tracker # "Set", NEW x \in StepSet, Append(g.at, x) \in S
         PROVE  d2[Append(g.at, x)] = Counted(c, v2, x)
    <2>1. g.at \in Steps  BY FrameFacts
    <2>2. IsPart(Append(g.at, x), g.at)  BY <2>1, Child DEF IsPart
    <2>3. d2[Append(g.at, x)] = d[Append(g.at, x)]  BY <2>2, <1>10 DEF RetoldFor
    <2>4. d[Append(g.at, x)] = Counted(c, v, x)  BY <1>10 DEF Tells
    <2>5. Kid(g, x) /\ x # o  BY <1>10 DEF Open
    <2>6. CASE g.tracker = "List"
      <3>1. x[1] = "item" /\ x[2] < RopeLen(g) /\ x[2] \in Nat /\ x = <<x[1], x[2]>>
        BY <2>5, <2>6 DEF Kid, StepSet
      <3>2. o = <<"item", o[2]>>  BY <2>6 DEF StepOpen
      <3>3. x[2] # o[2]  BY <3>1, <3>2, <2>5
      <3>4. v2[Len(c) + x[2] + 1] = v[Len(c) + x[2] + 1]  BY <3>1, <3>3, <1>7, <2>6
      <3>5. Counted(c, v2, x) = Counted(c, v, x)  BY <3>4 DEF Counted
      <3>6. QED  BY <3>5, <2>3, <2>4
    <2>7. CASE g.tracker = "Map"
      <3>1. x[1] \in {"key", "value"}  BY <2>5, <2>7 DEF Kid
      <3>2. Counted(c, v2, x) = Counted(c, v, x)  BY <3>1, <1>8, <2>7, <1>10
      <3>3. QED  BY <3>2, <2>3, <2>4
    <2>8. QED  BY <2>6, <2>7, <1>2, <1>10
  <1> HIDE DEF v, v2, c, o, w
  <1>11. v2 = d2[g.at] /\ c = m[g.at][1] /\ o = StepOpen(g) /\ w = d2[Open(g)]  BY DEF v2, c, o, w
  <1>12. QED  BY <1>1, <1>2, <1>3, <1>5, <1>6, <1>7, <1>8, <1>9, <1>10, <1>11 DEF Tells

-----------------------------------------------------------------------------
(* A call that describes the place on top describes the places below it anew *)

\* A place of a step that is no step: not among places.
LEMMA OpenStep ==
    ASSUME NEW g, g.at \in Steps, Open(g) \in Steps, IsPart(Open(g), g.at)
    PROVE  StepOpen(g) \in StepSet /\ Last(Open(g)) = StepOpen(g)
  <1> DEFINE x == StepOpen(g)
             T == StepSet \cup {x}
             a == g.at
             b == Open(g)
  <1>1. a \in Seq(StepSet) /\ x \in T /\ b \in Steps /\ b = Append(a, x) /\ b # Root
    BY DEF Steps, Open, IsPart
  <1> HIDE DEF a, b, x
  <1>2. a \in Seq(T)  BY <1>1, SeqMonotonic
  <1> HIDE DEF T
  <1>3. Len(b) = Len(a) + 1 /\ b[Len(a) + 1] = x  BY <1>1, <1>2, AppendProperties
  <1>4. Last(b) \in StepSet /\ Last(b) = b[Len(b)]  BY <1>1, Parent
  <1>5. QED  BY <1>3, <1>4 DEF b, x

\* A frame of the stack that is not the top, and the one above it.
LEMMA Inner ==
    ASSUME NEW t, NEW s, NEW st, NEW m, LiveOK(t, s, st, m), BuildingOK(s, st, m),
           NEW i \in 1..Len(s) - 1
    PROVE  LET g == s[i]
               F == FramesOf(s, st) IN
           /\ g \in F /\ FrameOK(g) /\ Busy(g) /\ StepOpen(g) \in StepSet
           /\ s[i + 1] \in F /\ s[i + 1].at = Open(g) /\ Open(g) \in PlacesOf(F)
           /\ IsPart(Open(g), g.at) /\ Open(g) \notin FinishedParts(g) /\ Open(g) \notin StoredAt(st)
           /\ Last(Open(g)) = StepOpen(g)
  <1> DEFINE F == FramesOf(s, st)
             g == s[i]
             k == i + 1
  <1>1. /\ Placed(s, st) /\ Owned(F, m) /\ Len(s) \in Nat
        /\ \A h \in F : FrameOK(h) /\ h.at \in Steps
        /\ \A j \in 1..Len(s) : s[j] \in F
    BY LiveFacts
  <1>2. i \in 1..Len(s) /\ k \in 1..Len(s)  BY <1>1
  <1>3. g \in F /\ s[k] \in F /\ FrameOK(g) /\ g.at \in Steps /\ s[k].at \in Steps  BY <1>1, <1>2
  <1>4. Opened(s)  BY DEF BuildingOK
  <1>5. Busy(g) /\ s[k].at = Open(g)  BY <1>4 DEF Opened, Open, Busy
  <1>6. IsPart(s[k].at, g.at)  BY <1>1 DEF Placed
  <1>7. s[k].at \in PlacesOf(F)  BY <1>3 DEF PlacesOf
  <1>8. s[k].at \notin StoredAt(st)  BY <1>1, <1>2 DEF Placed, StoredAt
  <1>9. s[k].at \notin FinishedParts(g)
    <2>1. OwnOK(g, PlacesOf(F), m)  BY <1>1, <1>3, OwnedFacts
    <2>2. QED  BY <2>1, <1>7 DEF OwnOK
  <1>10. Open(g) \in Steps /\ IsPart(Open(g), g.at)  BY <1>3, <1>5, <1>6
  <1>11. StepOpen(g) \in StepSet /\ Last(Open(g)) = StepOpen(g)  BY <1>3, <1>10, OpenStep
  <1>12. QED  BY <1>3, <1>5, <1>6, <1>7, <1>8, <1>9, <1>11

\* What the description of the root becomes when w is described of the place a
\* on top.
Anew(D, a, w) ==
    IF Len(a) = 0 THEN w
    ELSE IF Len(a) = 1 THEN Over(D, a[1], w)
    ELSE Over(D, a[1], Over(Lastly(D, a[1]), a[2], w))

\* d2 is d but for the places of the stack s: what is described of the last is w.
Upward(s, d, d2, w) ==
    /\ d2[s[Len(s)].at] = w
    /\ \A i \in 1..Len(s) - 1 : d2[s[i].at] = Over(d[s[i].at], StepOpen(s[i]), d2[s[i + 1].at])
    /\ \A a \in Steps : (\A i \in 1..Len(s) : s[i].at # a) => d2[a] = d[a]

\* The description of the frames on the stack, once the top is described anew.
LEMMA UpwardIs ==
    ASSUME NEW s, NEW st, Placed(s, st), s # << >>, NEW d, NEW w
    PROVE  \E d2 : Upward(s, d, d2, w)
  <1>0. Len(s) \in 1..3
    <2>1. Len(s) \in Nat /\ Len(s) <= 3  BY StackFacts
    <2>2. Len(s) \in Nat \ {0}  BY StackFacts
    <2> DEFINE l == Len(s)
    <2>3. l \in Nat /\ l <= 3 /\ l # 0  BY <2>1, <2>2
    <2> HIDE DEF l
    <2>4. l \in 1..3  BY <2>3
    <2>5. QED  BY <2>4 DEF l
  <1> DEFINE L == Len(s)
             O(i, x) == Over(d[s[i].at], StepOpen(s[i]), x)
             U(i) == IF i = L THEN w ELSE IF i = L - 1 THEN O(i, w) ELSE O(i, O(L - 1, w))
             d2 == [a \in Steps |->
                     IF Len(a) + 1 \in 1..L /\ s[Len(a) + 1].at = a THEN U(Len(a) + 1) ELSE d[a]]
  <1>1. L \in 1..3  BY <1>0
  <1>2. \A i \in 1..L : s[i].at \in Steps /\ Len(s[i].at) = i - 1  BY StackFacts DEF Placed
  <1> HIDE DEF L
  <1>3. ASSUME NEW i \in 1..L PROVE d2[s[i].at] = U(i)
    <2> DEFINE a == s[i].at
    <2>1. a \in Steps /\ Len(a) + 1 = i  BY <1>2
    <2>2. s[Len(a) + 1].at = a  BY <2>1
    <2> HIDE DEF a, U
    <2>3. d2[a] = U(i)  BY <2>1, <2>2
    <2>4. QED  BY <2>3 DEF a
  <1>4. ASSUME NEW a \in Steps, \A i \in 1..L : s[i].at # a PROVE d2[a] = d[a]
    <2> HIDE DEF U
    <2>1. QED  BY <1>4
  <1> HIDE DEF O
  <1>5. ASSUME NEW i \in 1..L - 1 PROVE U(i) = O(i, U(i + 1))
    <2>1. i = L - 1 \/ (i = L - 2 /\ i # L - 1 /\ i + 1 = L - 1)  BY <1>1
    <2>2. i # L /\ L - 1 # L  BY <1>1
    <2>3. CASE i = L - 1
      <3>1. i + 1 = L  BY <2>3, <1>1
      <3>2. QED  BY <2>2, <2>3, <3>1
    <2>4. CASE i = L - 2 /\ i # L - 1 /\ i + 1 = L - 1
      BY <2>2, <2>4
    <2>5. QED  BY <2>1, <2>3, <2>4
  <1>6. U(L) = w  OBVIOUS
  <1> HIDE DEF d2, U
  <1>7. d2[s[L].at] = w  BY <1>1, <1>3, <1>6
  <1>8. ASSUME NEW i \in 1..L - 1 PROVE d2[s[i].at] = Over(d[s[i].at], StepOpen(s[i]), d2[s[i + 1].at])
    <2>1. i \in 1..L /\ i + 1 \in 1..L  BY <1>1
    <2>2. d2[s[i].at] = U(i) /\ d2[s[i + 1].at] = U(i + 1)  BY <2>1, <1>3
    <2>3. QED  BY <2>2, <1>5 DEF O
  <1>9. Upward(s, d, d2, w)  BY <1>4, <1>7, <1>8 DEF Upward, L
  <1>10. QED  BY <1>9

LEMMA UpwardRoot ==
    ASSUME NEW t, NEW s, NEW st, NEW m, LiveOK(t, s, st, m), BuildingOK(s, st, m),
           NEW d, \A i \in 1..Len(s) : Tells(s[i], d, StoredAt(st), m),
           NEW w, NEW d2, Upward(s, d, d2, w)
    PROVE  d2[Root] = Anew(d[Root], s[Len(s)].at, w)
  <1>0. Placed(s, st) /\ s # << >>  BY LiveFacts
  <1>1. Len(s) \in Nat \ {0} /\ Len(s) <= 3  BY <1>0, StackFacts
  <1>2. \A i \in 1..Len(s) : s[i].at \in Steps /\ Len(s[i].at) = i - 1
    BY <1>0, StackFacts DEF Placed
  <1>3. \A i \in 1..Len(s) - 1 : StepOpen(s[i]) \in StepSet /\ s[i + 1].at = Append(s[i].at, StepOpen(s[i])) /\ Busy(s[i])
    BY Inner DEF Open
  <1>4. d2[s[Len(s)].at] = w
        /\ \A i \in 1..Len(s) - 1 : d2[s[i].at] = Over(d[s[i].at], StepOpen(s[i]), d2[s[i + 1].at])
    BY DEF Upward
  <1> DEFINE L == Len(s)
  <1>5. L = 1 \/ L = 2 \/ L = 3  
    <2> HIDE DEF L
    <2>1. L \in Nat \ {0} /\ L <= 3  BY <1>1 DEF L
    <2>2. QED  BY <2>1
  <1>6. s[1].at = Root
    <2>1. 1 \in 1..Len(s)  BY <1>1
    <2>2. s[1].at \in Steps /\ Len(s[1].at) = 0  BY <2>1, <1>2
    <2>3. QED  BY <2>2, RootIs
  <1>7. CASE L = 1
    <2>1. s[Len(s)].at = Root /\ Len(Root) = 0  BY <1>6, <1>7, RootIs
    <2>2. QED  BY <2>1, <1>4 DEF Anew
  <1>8. CASE L = 2
    <2> DEFINE x == StepOpen(s[1])
    <2>1. 1 \in 1..Len(s) - 1 /\ 1 + 1 = 2 /\ Len(s) = 2  BY <1>8
    <2>2. x \in StepSet /\ s[2].at = Append(Root, x)  BY <2>1, <1>3, <1>6
    <2> HIDE DEF x
    <2>3. Len(Append(Root, x)) = 1 /\ Append(Root, x)[1] = x
      <3>1. Len(Append(Root, x)) = Len(Root) + 1 /\ Append(Root, x)[Len(Root) + 1] = x /\ Len(Root) = 0
        BY <2>2, Child, RootIs
      <3>2. QED  BY <3>1
    <2>4. d2[Root] = Over(d[Root], x, w)  BY <2>1, <1>4, <1>6 DEF x
    <2>5. QED  BY <2>1, <2>2, <2>3, <2>4 DEF Anew
  <1>9. CASE L = 3
    <2> DEFINE x == StepOpen(s[1])
               y == StepOpen(s[2])
               a == Append(Root, x)
               b == Append(a, y)
    <2>1. 1 \in 1..Len(s) - 1 /\ 1 + 1 = 2 /\ Len(s) = 3 /\ 2 \in 1..Len(s) - 1 /\ 2 + 1 = 3 /\ 1 \in 1..Len(s)
      BY <1>9
    <2>2. x \in StepSet /\ y \in StepSet /\ s[2].at = a /\ s[3].at = b /\ Busy(s[1])
      BY <2>1, <1>3, <1>6
    <2>3. Lastly(d[Root], x) = d[a]
      <3>1. Tells(s[1], d, StoredAt(st), m)  BY <2>1
      <3>2. d[Open(s[1])] = Lastly(d[s[1].at], StepOpen(s[1]))  BY <2>2, <3>1 DEF Tells
      <3>3. Open(s[1]) = a  BY <1>6 DEF Open
      <3>4. QED  BY <3>2, <3>3, <1>6
    <2>4. d2[Root] = Over(d[Root], x, Over(d[a], y, w))
      <3>1. d2[s[1].at] = Over(d[s[1].at], x, d2[s[2].at])  BY <2>1, <1>4
      <3>2. d2[s[2].at] = Over(d[s[2].at], y, d2[s[3].at])  BY <2>1, <1>4
      <3>3. d2[s[3].at] = w  BY <2>1, <1>4
      <3>4. QED  BY <3>1, <3>2, <3>3, <2>2, <1>6
    <2> HIDE DEF x, y
    <2>5. a \in Steps /\ Len(a) = 1 /\ a[1] = x
      <3>1. Len(a) = Len(Root) + 1 /\ a[Len(Root) + 1] = x /\ Len(Root) = 0 /\ a \in Steps
        BY <2>2, Child, RootIs
      <3>2. QED  BY <3>1
    <2> HIDE DEF a
    <2>6. Len(b) = 2 /\ b[2] = y /\ b[1] = x
      <3>1. Len(b) = Len(a) + 1 /\ b[Len(a) + 1] = y /\ \A i \in 1..Len(a) : b[i] = a[i]
        BY <2>2, <2>5, Child
      <3>2. QED  BY <3>1, <2>5
    <2> HIDE DEF b
    <2>7. s[Len(s)].at = b  BY <2>1, <2>2
    <2>8. Anew(d[Root], b, w) = Over(d[Root], b[1], Over(Lastly(d[Root], b[1]), b[2], w))
      BY <2>6 DEF Anew
    <2>9. Anew(d[Root], b, w) = Over(d[Root], x, Over(d[a], y, w))  BY <2>3, <2>6, <2>8
    <2>10. QED  BY <2>4, <2>7, <2>9
  <1>10. QED  BY <1>5, <1>7, <1>8, <1>9

LEMMA StoredKids ==
    ASSUME NEW s, NEW st, NEW m, Owned(FramesOf(s, st), m), NEW g \in FramesOf(s, st),
           NEW x \in StepSet, Append(g.at, x) \in StoredAt(st)
    PROVE  Kid(g, x) /\ Append(g.at, x) \in PlacesOf(FramesOf(s, st)) /\ Append(g.at, x) \in DOMAIN m
           /\ IsPart(Append(g.at, x), g.at)
  <1> DEFINE F == FramesOf(s, st)
             a == Append(g.at, x)
  <1>1. PICK p \in DOMAIN st : a = st[p].at  BY DEF StoredAt
  <1>2. st[p] \in F  BY DEF FramesOf
  <1>3. a \in PlacesOf(F) /\ a \in DOMAIN m  BY <1>1, <1>2, OwnedFacts
  <1>4. OwnOK(g, PlacesOf(F), m) /\ g.at \in Steps  BY OwnedFacts
  <1>5. IsPart(a, g.at) /\ Last(a) = x  BY <1>4, Child DEF IsPart
  <1>6. Kid(g, x)  BY <1>3, <1>4, <1>5 DEF OwnOK
  <1>7. QED  BY <1>3, <1>5, <1>6

\* The frames below the top, and those stored, are told of as before.
LEMMA UpwardTells ==
    ASSUME NEW t, NEW s, NEW st, NEW m, LiveOK(t, s, st, m), BuildingOK(s, st, m),
           NEW d, \A h \in FramesOf(s, st) : Tells(h, d, StoredAt(st), m),
           NEW w, NEW d2, Upward(s, d, d2, w),
           NEW g \in FramesOf(s, st), g # s[Len(s)]
    PROVE  Tells(g, d2, StoredAt(st), m)
  <1> DEFINE F == FramesOf(s, st)
             S == StoredAt(st)
  <1>1. /\ Placed(s, st) /\ Owned(F, m) /\ Len(s) \in Nat \ {0}
        /\ \A h \in F : FrameOK(h) /\ h.at \in Steps
        /\ \A i \in 1..Len(s) : s[i] \in F
    BY LiveFacts
  <1>2. \A a \in S : a \in Steps /\ \A i \in 1..Len(s) : s[i].at # a
    <2>1. \A p \in DOMAIN st : st[p] \in F  BY DEF FramesOf
    <2>2. QED  BY <1>1, <2>1 DEF Placed, StoredAt
  <1>3. \A a \in S : d2[a] = d[a]  BY <1>2 DEF Upward
  <1>4. ASSUME NEW i \in 1..Len(s) - 1, g = s[i] PROVE Tells(g, d2, S, m)
    <2>1. FrameOK(g) /\ Busy(g) /\ StepOpen(g) \in StepSet /\ Open(g) \notin FinishedParts(g) /\ Open(g) \notin S
          /\ s[i + 1].at = Open(g)
      BY <1>4, Inner
    <2>2. Tells(g, d, S, m)  OBVIOUS
    <2>3. \A x \in StepSet : Append(g.at, x) \in S => Kid(g, x)  BY <1>1, StoredKids
    <2>4. d2[g.at] = Over(d[g.at], StepOpen(g), d2[Open(g)])  BY <2>1, <1>4 DEF Upward
    <2>5. IsSeq(d[g.at]) /\ Len(d[g.at]) >= 1
      <3>1. StateOK(g) /\ g.tracker \in {"Scalar", "List", "Map", "Set"}  BY <2>1 DEF FrameOK, FrameSet
      <3>2. g.tracker # "Scalar"  BY <3>1, <2>1 DEF StateOK, Busy
      <3>3. QED  BY <3>2, <2>1, <2>2 DEF Tells
    <2>6. IsSeq(d2[g.at]) /\ Retold(d[g.at], d2[g.at], StepOpen(g), d2[Open(g)])
      BY <2>4, <2>5, OverIs, RetoldIs
    <2>7. RetoldFor(g, d, S, d2)  BY <2>6, <1>3 DEF RetoldFor
    <2>8. QED  BY <2>1, <2>2, <2>3, <2>7, TellsRetold
  <1>5. ASSUME NEW p \in DOMAIN st, g = st[p] PROVE Tells(g, d2, S, m)
    <2>1. g.at \in S  BY <1>5 DEF StoredAt
    <2>2. ~Busy(g)  BY <1>5 DEF BuildingOK, Busy
    <2>3. SameFor(g, d, S, m, d2, S, m)  BY <2>1, <2>2, <1>3 DEF SameFor
    <2>4. Tells(g, d, S, m) /\ FrameOK(g)  BY <1>1
    <2>5. QED  BY <2>3, <2>4, TellsKept
  <1>6. (\E i \in 1..Len(s) - 1 : g = s[i]) \/ (\E p \in DOMAIN st : g = st[p])
    <2>1. (\E i \in 1..Len(s) : g = s[i]) \/ (\E p \in DOMAIN st : g = st[p])  BY DEF FramesOf
    <2>2. ASSUME NEW i \in 1..Len(s), g = s[i] PROVE i \in 1..Len(s) - 1
      <3>1. i # Len(s)  BY <2>2
      <3>2. QED  BY <3>1, <1>1
    <2>3. QED  BY <2>1, <2>2
  <1>7. QED  BY <1>4, <1>5, <1>6

-----------------------------------------------------------------------------
(* An element is begun *)

\* v2 is v and y.
Appends(v, v2, y) ==
    /\ IsSeq(v) /\ IsSeq(v2) /\ Len(v) \in Nat /\ Len(v2) = Len(v) + 1 /\ v2[Len(v) + 1] = y
    /\ \A i \in 1..Len(v) : v2[i] = v[i]

LEMMA AppendsIs == ASSUME NEW v, IsSeq(v), NEW y PROVE Appends(v, Append(v, y), y)
  BY AppendIs, SeqFacts DEF Appends

\* The frame f becomes f2 when an element is begun that holds nothing yet.
BegunFor(f, f2, d, d2, S, m, m2) ==
    /\ FrameOK(f) /\ FrameOK(f2) /\ f2.at = f.at /\ f2.tracker = f.tracker /\ f2.pending = f.pending
    /\ FinishedParts(f2) = FinishedParts(f) /\ Waits(f2) = Waits(f)
    /\ m2[f.at] = m[f.at] /\ \A a \in FinishedParts(f) : m2[a] = m[a]
    /\ \A a \in S : d2[a] = d[a]
    /\ \A x \in StepSet : Append(f.at, x) \in S => Kid(f, x)

\* A list is told of the item that is begun.
LEMMA ListBegun ==
    ASSUME NEW f, NEW f2, NEW d, NEW d2, NEW S, NEW m, NEW m2, BegunFor(f, f2, d, d2, S, m, m2),
           Tells(f, d, S, m), f.tracker = "List", RopeLen(f2) = RopeLen(f) + 1, Marked(f2) = Marked(f),
           NEW y, Appends(d[f.at], d2[f.at], y), d2[Open(f2)] = y
    PROVE  Tells(f2, d2, S, m2)
  <1> DEFINE v == d[f.at]
             v2 == d2[f.at]
             c == m[f.at][1]
             l == Len(c)
             L == Len(v)
             r == RopeLen(f)
             mk == Marked(f)
  <1>1. FrameOK(f) /\ FrameOK(f2) /\ f2.at = f.at /\ f2.tracker = "List" /\ m2[f.at] = m[f.at]
    BY DEF BegunFor
  <1>2. ListTells(f, v, c, m) /\ IsSeq(c)  BY DEF Tells
  <1>3. l \in Nat /\ L \in Nat /\ L = l + r /\ \A i \in 1..l : v[i] = c[i]  BY <1>2 DEF ListTells, Longer
  <1>4. IsSeq(v2) /\ Len(v2) = L + 1 /\ v2[L + 1] = y /\ \A i \in 1..L : v2[i] = v[i]  BY DEF Appends
  <1>5. r \in Nat /\ mk \in Nat /\ mk <= r  BY <1>1, FrameFacts
  <1>6. \A k \in 0..mk - 1 : m[Part(f, "item", k)][1] = v[l + k + 1]  BY <1>2 DEF ListTells
  <1>7. \A k \in 0..mk - 1 : m2[Part(f2, "item", k)] = m[Part(f, "item", k)]
    <2>1. ASSUME NEW k \in 0..mk - 1 PROVE m2[Part(f, "item", k)] = m[Part(f, "item", k)]
      <3>1. k \in Nat /\ k < Marked(f)  BY <1>5
      <3>2. Part(f, "item", k) \in FinishedParts(f)  BY <3>1, <1>1, FinishedAre
      <3>3. QED  BY <3>2 DEF BegunFor
    <2>2. \A k : Part(f2, "item", k) = Part(f, "item", k)
      <3>1. f2.at = f.at  BY <1>1
      <3>2. QED  BY <3>1 DEF Part
    <2> HIDE DEF mk
    <2>3. QED  BY <2>1, <2>2
  <1>8. StepOpen(f2) = <<"item", r>>
    <2>1. RopeLen(f2) - 1 = r  BY <1>5
    <2>2. QED  BY <2>1, <1>1 DEF StepOpen
  <1>9. y = Lastly(v2, StepOpen(f2))
    <2>1. v2[Len(v2)] = y  BY <1>4
    <2>2. QED  BY <2>1, <1>8 DEF Lastly, Half
  <1>10. ASSUME NEW x \in StepSet, Append(f2.at, x) \in S
         PROVE  d2[Append(f2.at, x)] = Counted(c, v2, x)
    <2>1. Append(f.at, x) \in S /\ Append(f2.at, x) = Append(f.at, x)  BY <1>1, <1>10
    <2>2. Kid(f, x)  BY <2>1 DEF BegunFor
    <2>3. x[2] \in Nat /\ x[2] < r  BY <2>2 DEF Kid, StepSet
    <2>4. d[Append(f.at, x)] = Counted(c, v, x)  BY <2>1 DEF Tells
    <2>5. d2[Append(f.at, x)] = d[Append(f.at, x)]  BY <2>1 DEF BegunFor
    <2> DEFINE j == l + x[2] + 1
    <2>6. j \in 1..L
      <3> HIDE DEF l, L, r
      <3>1. QED  BY <2>3, <1>3, <1>5
    <2>7. v2[j] = v[j]  BY <2>6, <1>4
    <2>8. Counted(c, v2, x) = Counted(c, v, x)  BY <2>7 DEF Counted
    <2>9. QED  BY <2>1, <2>4, <2>5, <2>8
  <1>11. Len(v2) >= 1  
    <2> HIDE DEF v2, L
    <2>1. QED  BY <1>3, <1>4
  <1>12. Longer(v2, c, r + 1)
    <2> HIDE DEF v2, v, c, L, r
    <2>1. \A i \in 1..l : v2[i] = c[i]
      <3> HIDE DEF l
      <3>1. QED  BY <1>3, <1>4, <1>5
    <2>2. Len(v2) \in Nat /\ l \in Nat /\ Len(v2) = l + (r + 1)
      <3> HIDE DEF l
      <3>1. QED  BY <1>3, <1>4, <1>5
    <2>3. QED  BY <2>1, <2>2 DEF Longer
  <1>13. ASSUME NEW k \in 0..mk - 1 PROVE m2[Part(f2, "item", k)][1] = v2[l + k + 1]
    <2>1. l + k + 1 \in 1..L
      <3> HIDE DEF l, L, r, mk
      <3>1. QED  BY <1>3, <1>5
    <2>2. v2[l + k + 1] = v[l + k + 1]  BY <2>1, <1>4
    <2>3. QED  BY <2>2, <1>6, <1>7
  <1>14. ListTells(f2, v2, c, m2)
    <2>1. RopeLen(f2) = r + 1 /\ Marked(f2) = mk  OBVIOUS
    <2>2. QED  BY <2>1, <1>12, <1>13 DEF ListTells
  <1> HIDE DEF v2, c
  <1>15. v2 = d2[f2.at] /\ c = m2[f2.at][1]  BY <1>1 DEF v2, c
  <1>16. QED  BY <1>1, <1>2, <1>4, <1>9, <1>10, <1>11, <1>14, <1>15 DEF Tells

\* The elements of a map that have frames are those of the entries begun.
LEMMA StoredEntry ==
    ASSUME NEW g, NEW S, NEW n \in Nat, MapIs(g, S, n), g.tracker = "Map",
           NEW x \in StepSet, Append(g.at, x) \in S, Kid(g, x)
    PROVE  x[2] \in Nat /\ x[2] < n /\ x[1] \in {"key", "value"}
  <1>1. x = <<x[1], x[2]>> /\ x[2] \in Nat  BY DEF StepSet
  <1>2. Append(g.at, x) = Part(g, x[1], x[2])  BY <1>1 DEF Part
  <1>3. x[1] \in {"key", "value"}  BY DEF Kid
  <1>4. x[1] = "key" => x[2] < n  BY <1>1, <1>2 DEF MapIs
  <1>5. x[1] = "value" => x[2] < n  BY <1>1, <1>2 DEF MapIs
  <1>6. QED  BY <1>1, <1>3, <1>4, <1>5

\* A map is told of the entry whose key is begun.
LEMMA KeyBegun ==
    ASSUME NEW f, NEW f2, NEW d, NEW d2, NEW S, NEW m, NEW m2, BegunFor(f, f2, d, d2, S, m, m2),
           Tells(f, d, S, m), f.tracker = "Map", f.state = "Idle", f2.state = "Key", StepOpen(f2)[1] = "key",
           NEW y, f.at = Root => y = << >>,
           Appends(d[f.at], d2[f.at], <<Missing, y>>), d2[Open(f2)] = Missing
    PROVE  Tells(f2, d2, S, m2)
  <1> DEFINE v == d[f.at]
             v2 == d2[f.at]
             c == m[f.at][1]
             l == Len(c)
             L == Len(v)
             p == Len(f.pending)
             z == <<Missing, y>>
  <1>1. FrameOK(f) /\ FrameOK(f2) /\ f2.at = f.at /\ f2.tracker = "Map" /\ m2[f.at] = m[f.at]
        /\ f2.pending = f.pending
    BY DEF BegunFor
  <1>2. MapTells(f, v, c, S, m) /\ IsSeq(c)  BY DEF Tells
  <1>3. PICK n \in Nat :
            /\ MapIs(f, S, n)
            /\ Longer(v, c, Entries(f, n))
            /\ \A j \in Len(c) + 1..Len(v) : v[j] = <<v[j][1], v[j][2]>>
            /\ \A i \in 1..Len(f.pending) : EntryTells(f.pending[i], v[Len(c) + i], m)
    BY <1>2 DEF MapTells
  <1>4. l \in Nat /\ L \in Nat /\ L = l + n /\ \A i \in 1..l : v[i] = c[i]
    <2>1. Entries(f, n) = n  BY DEF Entries
    <2>2. QED  BY <2>1, <1>3 DEF Longer
  <1>5. IsSeq(v2) /\ Len(v2) = L + 1 /\ v2[L + 1] = z /\ \A i \in 1..L : v2[i] = v[i]  BY DEF Appends
  <1>6. MapIs(f2, S, n)
    <2>1. Waits(f2) = Waits(f) /\ f.at \in Steps  BY <1>1, FrameFacts DEF BegunFor
    <2>2. QED  BY <2>1, <1>1, <1>3, MapSame
  <1>7. z[1] = Missing /\ z[2] = y /\ z = <<z[1], z[2]>>  OBVIOUS
  <1>8. p \in Nat /\ p <= n  BY <1>1, <1>3, FrameFacts DEF MapIs
  <1>9. ASSUME NEW i \in 1..p PROVE EntryTells(f2.pending[i], v2[l + i], m2)
    <2>1. EntryTells(f.pending[i], v[l + i], m)  BY <1>3
    <2>2. l + i \in 1..L
      <3> HIDE DEF l, L, p
      <3>1. QED  BY <1>4, <1>8
    <2>3. v2[l + i] = v[l + i]  BY <2>2, <1>5
    <2>4. EntryTells(f.pending[i], v2[l + i], m)  BY <2>1, <2>3
    <2>5. \A a \in FinishedParts(f) : m2[a] = m[a]  BY DEF BegunFor
    <2>6. EntryTells(f.pending[i], v2[l + i], m2)  BY <2>4, <2>5, <1>1, EntriesKept
    <2>7. QED  BY <2>6, <1>1
  <1>10. ASSUME NEW x \in StepSet, Append(f2.at, x) \in S
         PROVE  d2[Append(f2.at, x)] = Counted(c, v2, x)
    <2>1. Append(f.at, x) \in S /\ Append(f2.at, x) = Append(f.at, x)  BY <1>1, <1>10
    <2>2. Kid(f, x)  BY <2>1 DEF BegunFor
    <2>3. x[2] \in Nat /\ x[2] < n  BY <2>1, <2>2, <1>3, StoredEntry
    <2>4. d[Append(f.at, x)] = Counted(c, v, x)  BY <2>1 DEF Tells
    <2>5. d2[Append(f.at, x)] = d[Append(f.at, x)]  BY <2>1 DEF BegunFor
    <2> DEFINE j == l + x[2] + 1
    <2>6. j \in 1..L
      <3> HIDE DEF l, L
      <3>1. QED  BY <2>3, <1>4
    <2>7. v2[j] = v[j]  BY <2>6, <1>5
    <2>8. Counted(c, v2, x) = Counted(c, v, x)  BY <2>7 DEF Counted
    <2>9. QED  BY <2>1, <2>4, <2>5, <2>8
  <1>11. v2[Len(v2)] = z  BY <1>5
  <1>12. d2[Open(f2)] = Lastly(v2, StepOpen(f2))
    <2>1. Half(z, StepOpen(f2)) = z[1]  BY DEF Half
    <2>2. QED  BY <2>1, <1>7, <1>11 DEF Lastly
  <1>13. MapTells(f2, v2, c, S, m2)
    <2> HIDE DEF v, v2, c, L, p, z
    <2>1. \A j \in l + 1..Len(v2) : v2[j] = <<v2[j][1], v2[j][2]>>
      <3>0. \A j \in l + 1..L : v[j] = <<v[j][1], v[j][2]>>  BY <1>3 DEF L
      <3> HIDE DEF l
      <3> TAKE j \in l + 1..Len(v2)
      <3>1. CASE j = L + 1  BY <3>1, <1>5, <1>7
      <3>2. CASE j # L + 1
        <4>1. j \in l + 1..L /\ j \in 1..L  BY <3>2, <1>4, <1>5
        <4>2. QED  BY <4>1, <3>0, <1>5
      <3>3. QED  BY <3>1, <3>2
    <2>2. Longer(v2, c, n + 1)
      <3>1. Len(v2) \in Nat /\ l \in Nat /\ Len(v2) = l + (n + 1) /\ \A i \in 1..l : v2[i] = c[i]
        <4> HIDE DEF l
        <4>1. QED  BY <1>4, <1>5
      <3>2. QED  BY <3>1 DEF Longer
    <2>3. Entries(f2, n) = n + 1  BY DEF Entries
    <2>4. f2.at = Root => v2[Len(v2)][2] = << >>  BY <1>1, <1>11, <1>7
    <2>5. \A i \in 1..Len(f2.pending) : EntryTells(f2.pending[i], v2[Len(c) + i], m2)  BY <1>9, <1>1 DEF p
    <2>6. QED  BY <1>6, <2>1, <2>2, <2>3, <2>4, <2>5 DEF MapTells
  <1>14. Len(v2) >= 1  
    <2> HIDE DEF v2, L, l
    <2>1. QED  BY <1>4, <1>5
  <1> HIDE DEF v2, c
  <1>15. v2 = d2[f2.at] /\ c = m2[f2.at][1]  BY <1>1 DEF v2, c
  <1>16. QED  BY <1>1, <1>2, <1>5, <1>10, <1>12, <1>13, <1>14, <1>15 DEF Tells

\* What begin_key described of the value is begun.
LEMMA ValueBegun ==
    ASSUME NEW f, NEW f2, NEW d, NEW d2, NEW S, NEW m, NEW m2, BegunFor(f, f2, d, d2, S, m, m2),
           Tells(f, d, S, m), f.tracker = "Map", f.state = "KeyDone", f2.state = "Value", StepOpen(f2)[1] = "value",
           d2[f.at] = d[f.at], d2[Open(f2)] = d[f.at][Len(d[f.at])][2]
    PROVE  /\ Tells(f2, d2, S, m2)
           /\ f.at = Root => d2[Open(f2)] = << >>
  <1> DEFINE v == d[f.at]
             c == m[f.at][1]
             L == Len(v)
  <1>1. FrameOK(f) /\ FrameOK(f2) /\ f2.at = f.at /\ f2.tracker = "Map" /\ m2[f.at] = m[f.at]
        /\ f2.pending = f.pending
    BY DEF BegunFor
  <1>2. MapTells(f, v, c, S, m) /\ IsSeq(c) /\ IsSeq(v)  BY DEF Tells
  <1>3. PICK n \in Nat :
            /\ MapIs(f, S, n)
            /\ Longer(v, c, Entries(f, n))
            /\ \A j \in Len(c) + 1..Len(v) : v[j] = <<v[j][1], v[j][2]>>
            /\ \A i \in 1..Len(f.pending) : EntryTells(f.pending[i], v[Len(c) + i], m)
            /\ f.at = Root => v[Len(v)][2] = << >>
    BY <1>2 DEF MapTells
  <1>4. MapIs(f2, S, n)
    <2>1. Waits(f2) = Waits(f) /\ f.at \in Steps  BY <1>1, FrameFacts DEF BegunFor
    <2>2. QED  BY <2>1, <1>1, <1>3, MapSame
  <1>5. Entries(f, n) = n /\ Entries(f2, n) = n  BY DEF Entries
  <1>6. L >= 1
    <2>1. Waits(f)  BY DEF Waits
    <2>2. n > 0  BY <2>1, <1>3 DEF MapIs
    <2> DEFINE l == Len(c)
    <2>3. L \in Nat /\ l \in Nat /\ L = l + n  BY <1>3, <1>5 DEF Longer
    <2> HIDE DEF L, l
    <2>4. QED  BY <2>2, <2>3
  <1>7. d2[Open(f2)] = Lastly(v, StepOpen(f2))
    <2> HIDE DEF v
    <2>1. Half(v[L], StepOpen(f2)) = v[L][2]  BY DEF Half
    <2>2. QED  BY <2>1 DEF Lastly, v
  <1>8. \A i \in 1..Len(f2.pending) : EntryTells(f2.pending[i], v[Len(c) + i], m2)
    <2>1. \A a \in FinishedParts(f) : m2[a] = m[a]  BY DEF BegunFor
    <2> HIDE DEF v, c
    <2>2. ASSUME NEW i \in 1..Len(f2.pending) PROVE EntryTells(f2.pending[i], v[Len(c) + i], m2)
      <3> DEFINE x == v[Len(c) + i]
      <3>1. i \in 1..Len(f.pending) /\ f2.pending[i] = f.pending[i]  BY <1>1
      <3>2. EntryTells(f.pending[i], x, m)  BY <1>3, <3>1
      <3> HIDE DEF x
      <3>3. EntryTells(f.pending[i], x, m2)  BY <2>1, <1>1, <3>1, <3>2, EntriesKept
      <3>4. QED  BY <3>1, <3>3 DEF x
    <2>3. QED  BY <2>2
  <1>9. MapTells(f2, v, c, S, m2)
    <2> HIDE DEF v, c
    <2>1. QED  BY <1>3, <1>4, <1>5, <1>8 DEF MapTells
  <1>10. ASSUME NEW x \in StepSet, Append(f2.at, x) \in S
         PROVE  d2[Append(f2.at, x)] = Counted(c, v, x)
    <2>1. Append(f.at, x) \in S /\ Append(f2.at, x) = Append(f.at, x)  BY <1>1, <1>10
    <2>2. d[Append(f.at, x)] = Counted(c, v, x)  BY <2>1 DEF Tells
    <2>3. d2[Append(f.at, x)] = d[Append(f.at, x)]  BY <2>1 DEF BegunFor
    <2>4. QED  BY <2>1, <2>2, <2>3
  <1>11. f.at = Root => d2[Open(f2)] = << >>  BY <1>3
  <1> HIDE DEF v, c
  <1>12. v = d2[f2.at] /\ c = m2[f2.at][1]  BY <1>1 DEF v, c
  <1>13. Tells(f2, d2, S, m2)  BY <1>1, <1>2, <1>6, <1>7, <1>9, <1>10, <1>12 DEF Tells, L
  <1>14. QED  BY <1>11, <1>13

\* A set is told of the member that is begun.
LEMMA MemberBegun ==
    ASSUME NEW f, NEW f2, NEW d, NEW d2, NEW S, NEW m, NEW m2, BegunFor(f, f2, d, d2, S, m, m2),
           Tells(f, d, S, m), f.tracker = "Set", f.state = "Idle", f2.state = "Item",
           NEW y, Appends(d[f.at], d2[f.at], y), d2[Open(f2)] = y
    PROVE  Tells(f2, d2, S, m2)
  <1> DEFINE v == d[f.at]
             v2 == d2[f.at]
             c == m[f.at][1]
             L == Len(v)
  <1>1. f2.at = f.at /\ f2.tracker = "Set" /\ m2[f.at] = m[f.at]  BY DEF BegunFor
  <1>2. SetTells(f, v, c) /\ IsSeq(c)  BY DEF Tells
  <1>3. IsSeq(v2) /\ L \in Nat /\ Len(v2) = L + 1 /\ v2[L + 1] = y /\ \A i \in 1..L : v2[i] = v[i]  BY DEF Appends
  <1>4. SetTells(f2, v2, c)
    <2>1. CASE f.at = Root
      <3>1. {v[i] : i \in 1..L - 0} = ToSet(c)  BY <2>1 , <1>2 DEF SetTells
      <3> HIDE DEF L, v, v2, c
      <3>2. L - 0 = L /\ Len(v2) - 1 = L /\ Len(v2) >= 1  BY <1>3
      <3>3. {v2[i] : i \in 1..Len(v2) - 1} = {v[i] : i \in 1..L - 0}  BY <3>2, <1>3
      <3>4. QED  BY <2>1, <1>1, <3>1, <3>2, <3>3 DEF SetTells
    <2>2. CASE f.at # Root
      <3> DEFINE l == Len(c)
      <3>1. Longer(v, c, 0)  BY <2>2, <1>2 DEF SetTells
      <3>2. l \in Nat /\ L = l + 0 /\ \A i \in 1..l : v[i] = c[i]  BY <3>1 DEF Longer
      <3> HIDE DEF L, v, v2, c, l
      <3>3. Len(v2) \in Nat /\ Len(v2) = l + 1 /\ \A i \in 1..l : v2[i] = c[i]  BY <3>2, <1>3
      <3>4. Longer(v2, c, 1)  BY <3>2, <3>3 DEF Longer, l
      <3>5. QED  BY <2>2, <1>1, <3>4 DEF SetTells
    <2>3. QED  BY <2>1, <2>2
  <1>5. d2[Open(f2)] = Lastly(v2, StepOpen(f2)) /\ Len(v2) >= 1
    <2> HIDE DEF L
    <2>1. v2[Len(v2)] = y /\ Len(v2) >= 1  BY <1>3
    <2>2. StepOpen(f2) = Element  BY <1>1 DEF StepOpen
    <2>3. QED  BY <2>1, <2>2 DEF Lastly, Half, Element
  <1> HIDE DEF v2, c
  <1>6. v2 = d2[f2.at] /\ c = m2[f2.at][1]  BY <1>1 DEF v2, c
  <1>7. QED  BY <1>1, <1>2, <1>3, <1>4, <1>5, <1>6 DEF Tells

\* A frame that was made just now.
LEMMA NewTold ==
    ASSUME NEW b \in Steps, Len(b) <= 2, NEW d, ~IsLeaf(NewFrame(b)) => d[b] = << >>,
           NEW S, \A a \in S : ~IsPart(a, b), NEW m, NEW t, NEW w
    PROVE  Tells(NewFrame(b), d, S, m) /\ Grows(t, NewFrame(b), m, w) /\ New(NewFrame(b), m)
  <1> DEFINE n == NewFrame(b)
  <1>1. n.at = b /\ n.tracker = "Scalar" /\ n.isInit = FALSE /\ n.state = "Idle"  BY NewFrameIs
  <1> HIDE DEF n
  <1>2. ScalarTells(n, d[n.at], m)  BY <1>1 DEF ScalarTells, n
  <1>3. ASSUME NEW x \in StepSet PROVE Append(n.at, x) \notin S
    <2>1. IsPart(Append(b, x), b)  BY Child DEF IsPart
    <2>2. QED  BY <2>1, <1>1
  <1>4. Tells(n, d, S, m)  BY <1>1, <1>2, <1>3 DEF Tells, Busy
  <1>5. Grows(t, n, m, w) /\ New(n, m)  BY <1>1 DEF Grows, New
  <1>6. QED  BY <1>4, <1>5 DEF n

LEMMA StillGrows ==
    ASSUME NEW t, NEW g, NEW m, NEW w \in Nat, Grows(t, g, m, w), NEW w2 \in Nat, w <= w2,
           NEW g2, g2.at = g.at, g2.isInit = g.isInit, NEW m2, m2[g.at] = m[g.at]
    PROVE  Grows(t, g2, m2, w2)
  <1>1. IsLeaf(g2) <=> IsLeaf(g)  BY DEF IsLeaf
  <1>2. 0..w \subseteq 0..w2  OBVIOUS
  <1>3. QED  BY <1>1, <1>2 DEF Grows

LEMMA StillNew ==
    ASSUME NEW g, NEW m, New(g, m), NEW m2, m2[g.at] = m[g.at], Busy(g) => m2[Open(g)] = m[Open(g)]
    PROVE  New(g, m2)
  BY DEF New

LEMMA ToldFacts ==
    ASSUME NEW t, NEW F, NEW d, NEW S, NEW m, NEW w, TellsAll(t, F, d, S, m, w), NEW g \in F
    PROVE  Tells(g, d, S, m) /\ Grows(t, g, m, w) /\ New(g, m)
  BY DEF TellsAll

\* The place of an element that a frame is open for has a frame.
LEMMA OpenPlace ==
    ASSUME NEW t, NEW s, NEW st, NEW m, LiveOK(t, s, st, m), BuildingOK(s, st, m),
           NEW g \in FramesOf(s, st), Busy(g)
    PROVE  \E i \in 1..Len(s) - 1 : g = s[i] /\ s[i + 1].at = Open(g)
  <1>1. ASSUME NEW p \in DOMAIN st, g = st[p] PROVE FALSE
    BY <1>1 DEF BuildingOK, Busy
  <1>2. PICK i \in 1..Len(s) : g = s[i]  BY <1>1 DEF FramesOf
  <1>3. Len(s) \in Nat \ {0}  BY LiveFacts
  <1>4. i # Len(s)  BY <1>2 DEF BuildingOK, Opened, Busy
  <1>5. i \in 1..Len(s) - 1  BY <1>3, <1>4
  <1>6. QED  BY <1>2, <1>5, Inner

LEMMA OpenHasFrame ==
    ASSUME NEW t, NEW s, NEW st, NEW m, LiveOK(t, s, st, m), BuildingOK(s, st, m),
           NEW g \in FramesOf(s, st), Busy(g)
    PROVE  Open(g) \in PlacesOf(FramesOf(s, st)) /\ Open(g) \in DOMAIN m
  <1>1. PICK i \in 1..Len(s) - 1 : g = s[i] /\ s[i + 1].at = Open(g)  BY OpenPlace
  <1>2. s[i + 1] \in FramesOf(s, st)  BY Inner
  <1>3. Owned(FramesOf(s, st), m)  BY LiveFacts
  <1>4. QED  BY <1>1, <1>2, <1>3, OwnedFacts

LEMMA BegunTold ==
    ASSUME NEW t, NEW s, NEW st, NEW m, LiveOK(t, s, st, m), BuildingOK(s, st, m),
           NEW x \in StepSet, NEW b, b \notin DOMAIN m, NEW f2, Begins(s[Len(s)], x, b, f2),
           NEW s2, Pushed(s, s2, f2, NewFrame(b)), NEW m2, Grown(m, m2, b),
           NEW d, NEW w \in Nat, TellsAll(t, FramesOf(s, st), d, StoredAt(st), m, w),
           NEW d2, \A g \in FramesOf(s, st) : g # s[Len(s)] => Tells(g, d2, StoredAt(st), m),
           NEW d3, \A a \in PlacesOf(FramesOf(s, st)) : d3[a] = d2[a],
           Tells(f2, d3, StoredAt(st), m2), ~IsLeaf(NewFrame(b)) => d3[b] = << >>
    PROVE  TellsAll(t, FramesOf(s2, st), d3, StoredAt(st), m2, w)
  <1> DEFINE F == FramesOf(s, st)
             S == StoredAt(st)
             f == s[Len(s)]
             n == NewFrame(b)
  <1>1. /\ Placed(s, st) /\ Owned(F, m) /\ Len(s) \in Nat \ {0} /\ s # << >>
        /\ \A h \in F : FrameOK(h) /\ h.at \in Steps
        /\ f \in F
    BY LiveFacts
  <1>2. f2.at = f.at /\ f2.isInit = f.isInit /\ FrameOK(f2) /\ StepOpen(f2) = x /\ b = Append(f.at, x) /\ f.tracker # "Scalar"
    BY DEF Begins
  <1>3. FrameOK(f) /\ f.at \in Steps /\ f.at \in DOMAIN m  BY <1>1, OwnedFacts
  <1>4. b \in Steps /\ IsPart(b, f.at) /\ b # Root /\ Len(b) = Len(f.at) + 1  BY <1>2, <1>3, Child DEF IsPart
  <1>5. Len(b) <= 2
    <2>1. ~IsLeaf(f)  BY <1>2, <1>3 DEF FrameOK
    <2>2. Len(f.at) \in 0..2  BY <1>3, FrameFacts
    <2>3. Len(f.at) # 2  BY <2>1 DEF IsLeaf
    <2> DEFINE j == Len(f.at)
               k == Len(b)
    <2>4. j \in 0..2 /\ j # 2 /\ k = j + 1  BY <2>2, <2>3, <1>4
    <2> HIDE DEF j, k
    <2>5. k <= 2  BY <2>4
    <2>6. QED  BY <2>5 DEF k
  <1>6. \A a \in DOMAIN m : m2[a] = m[a]  BY DEF Grown
  <1>7. m2[b] = None  BY DEF Grown
  <1>8. S \subseteq PlacesOf(F) /\ PlacesOf(F) \subseteq DOMAIN m
    <2>1. \A p \in DOMAIN st : st[p] \in F  BY DEF FramesOf
    <2>2. \A h \in F : h.at \in DOMAIN m  BY <1>1, OwnedFacts
    <2>3. QED  BY <2>1, <2>2 DEF StoredAt, PlacesOf
  <1>9. FramesOf(s2, st) = (F \ {f}) \cup {f2, n}
    <2>1. FrameOK(n) /\ n.at = b  BY <1>4, <1>5, NewFrameIs
    <2>2. f2 \in FrameSet /\ n \in FrameSet  BY <2>1, <1>2 DEF FrameOK
    <2>3. n.at # Root /\ IsPart(n.at, f2.at) /\ n.at \notin StoredAt(st)  BY <2>1, <1>2, <1>4, <1>8
    <2>4. QED  BY <1>1, <1>2, <2>2, <2>3, StackBegun
  <1>10. ASSUME NEW g \in F, g # f
         PROVE  Tells(g, d3, S, m2) /\ Grows(t, g, m2, w) /\ New(g, m2)
    <2>1. FrameOK(g) /\ g.at \in PlacesOf(F) /\ g.at \in DOMAIN m /\ OwnOK(g, PlacesOf(F), m)
      BY <1>1, OwnedFacts
    <2>2. Busy(g) => Open(g) \in PlacesOf(F) /\ Open(g) \in DOMAIN m  BY OpenHasFrame
    <2>3. \A a \in FinishedParts(g) : a \in DOMAIN m  BY <2>1 DEF OwnOK
    <2>4. SameFor(g, d2, S, m, d3, S, m2)
      <3>1. d3[g.at] = d2[g.at] /\ m2[g.at] = m[g.at]  BY <2>1, <1>6
      <3>2. \A a \in S : d3[a] = d2[a]  BY <1>8
      <3>3. Busy(g) => d3[Open(g)] = d2[Open(g)]  BY <2>2
      <3>4. QED  BY <3>1, <3>2, <3>3, <2>3, <1>6 DEF SameFor
    <2>5. Tells(g, d2, S, m)  BY <1>10
    <2>6. Tells(g, d3, S, m2)  BY <2>1, <2>4, <2>5, TellsKept
    <2>7. Grows(t, g, m, w) /\ New(g, m)  BY ToldFacts
    <2>8. m2[g.at] = m[g.at] /\ (Busy(g) => m2[Open(g)] = m[Open(g)])  BY <2>1, <2>2, <1>6
    <2>9. Grows(t, g, m2, w)  BY <2>7, <2>8, StillGrows
    <2>10. New(g, m2)  BY <2>7, <2>8, StillNew
    <2>11. QED  BY <2>6, <2>9, <2>10
  <1>11. Grows(t, f2, m2, w) /\ New(f2, m2)
    <2>1. Grows(t, f, m, w)  BY <1>1, ToldFacts
    <2>2. m2[f.at] = m[f.at]  BY <1>3, <1>6
    <2>3. Grows(t, f2, m2, w)  BY <1>2, <2>1, <2>2, StillGrows
    <2>4. Open(f2) = b  BY <1>2 DEF Open
    <2>5. QED  BY <2>3, <2>4, <1>7 DEF New
  <1>12. Tells(n, d3, S, m2) /\ Grows(t, n, m2, w) /\ New(n, m2)
    <2>1. ASSUME NEW a \in S PROVE ~IsPart(a, b)
      <3>1. a \in DOMAIN m /\ a \in Steps  BY <1>8, <1>1 DEF Owned
      <3>2. SUFFICES ASSUME IsPart(a, b) PROVE FALSE  OBVIOUS
      <3>3. b \in PlacesOf(F)  BY <3>1, <3>2, <1>1 DEF Owned, IsPart
      <3>4. QED  BY <3>3, <1>8
    <2>2. QED  BY <2>1, <1>4, <1>5, NewTold
  <1> HIDE DEF n, f
  <1>13. QED  BY <1>9, <1>10, <1>11, <1>12 DEF TellsAll

\* What every begin makes of the frame on top.
LEMMA BegunForIs ==
    ASSUME NEW t, NEW s, NEW st, NEW m, LiveOK(t, s, st, m),
           NEW x \in StepSet, NEW b, b \notin DOMAIN m, NEW f2, Begins(s[Len(s)], x, b, f2),
           NEW m2, Grown(m, m2, b), NEW d, NEW d2, \A a \in StoredAt(st) : d2[a] = d[a]
    PROVE  BegunFor(s[Len(s)], f2, d, d2, StoredAt(st), m, m2) /\ Open(f2) = b /\ f2.at = s[Len(s)].at
  <1> DEFINE f == s[Len(s)]
             F == FramesOf(s, st)
  <1>1. f \in F /\ FrameOK(f) /\ Owned(F, m)  BY LiveFacts
  <1>2. /\ FrameOK(f2) /\ f2.at = f.at /\ f2.tracker = f.tracker /\ f2.pending = f.pending
        /\ FinishedParts(f2) = FinishedParts(f) /\ Waits(f2) = Waits(f) /\ StepOpen(f2) = x /\ b = Append(f.at, x)
    BY DEF Begins
  <1>3. \A a \in DOMAIN m : m2[a] = IF a = b THEN None ELSE m[a]  BY DEF Grown
  <1>4. OwnOK(f, PlacesOf(F), m) /\ f.at \in DOMAIN m /\ f.at \in Steps  BY <1>1, OwnedFacts
  <1>5. \A y \in StepSet : Append(f.at, y) \in StoredAt(st) => Kid(f, y)  BY <1>1, StoredKids
  <1>6. m2[f.at] = m[f.at] /\ \A a \in FinishedParts(f) : m2[a] = m[a]
    <2>1. \A a \in FinishedParts(f) : a \in DOMAIN m  BY <1>4 DEF OwnOK
    <2>2. \A a \in DOMAIN m : m2[a] = m[a]  BY <1>3
    <2>3. QED  BY <2>1, <2>2, <1>4
  <1>7. Open(f2) = b  BY <1>2 DEF Open
  <1>8. QED  BY <1>1, <1>2, <1>5, <1>6, <1>7 DEF BegunFor

\* An element is begun: the frame on top becomes f2, and a new frame lies above.
Making(t, s, st, m, x, b, f2, s2, m2) ==
    /\ LiveOK(t, s, st, m) /\ BuildingOK(s, st, m)
    /\ x \in StepSet /\ b \notin DOMAIN m /\ Begins(s[Len(s)], x, b, f2)
    /\ Pushed(s, s2, f2, NewFrame(b)) /\ Grown(m, m2, b)

\* To describe e too, and h of what is at its place, is right.
Describing(f, f2, d, S, m, m2, e, h) ==
    \A d2 : /\ BegunFor(f, f2, d, d2, S, m, m2)
            /\ Appends(d[f2.at], d2[f2.at], e) /\ d2[Open(f2)] = h
            => Tells(f2, d2, S, m2)

LEMMA AppendedTold ==
    ASSUME NEW t, NEW s, NEW st, NEW m, NEW x, NEW b, NEW f2, NEW s2, NEW m2,
           Making(t, s, st, m, x, b, f2, s2, m2),
           NEW d, NEW w \in Nat, TellsAll(t, FramesOf(s, st), d, StoredAt(st), m, w),
           NEW e, NEW h, ~IsLeaf(NewFrame(b)) => h = << >>,
           Describing(s[Len(s)], f2, d, StoredAt(st), m, m2, e, h)
    PROVE  Told(t, s2, st, m2, w, Anew(d[Root], f2.at, Append(d[f2.at], e)))
  <1>0. /\ LiveOK(t, s, st, m) /\ BuildingOK(s, st, m)
        /\ x \in StepSet /\ b \notin DOMAIN m /\ Begins(s[Len(s)], x, b, f2)
        /\ Pushed(s, s2, f2, NewFrame(b)) /\ Grown(m, m2, b)
    BY DEF Making
  <1> DEFINE F == FramesOf(s, st)
             S == StoredAt(st)
             f == s[Len(s)]
             v == d[f2.at]
  <1>1. /\ Placed(s, st) /\ Owned(F, m) /\ Len(s) \in Nat \ {0} /\ s # << >>
        /\ \A g \in F : FrameOK(g) /\ g.at \in Steps
        /\ f \in F
    BY <1>0, LiveFacts
  <1>2. f2.at = f.at /\ f.tracker # "Scalar" /\ b = Append(f.at, x)  BY <1>0 DEF Begins
  <1>3. f.at \in Steps /\ f.at \in PlacesOf(F) /\ b \in Steps  BY <1>0, <1>1, <1>2, Child DEF PlacesOf
  <1>4. PICK d1 : Upward(s, d, d1, Append(v, e))  BY <1>1, UpwardIs
  <1>5. \A g \in F : Tells(g, d, S, m)  BY ToldFacts
  <1>6. d1[Root] = Anew(d[Root], f2.at, Append(v, e))
    <2>1. \A i \in 1..Len(s) : s[i] \in F  BY <1>0, LiveFacts
    <2>2. d1[Root] = Anew(d[Root], f.at, Append(v, e))  BY <1>0, <1>4, <1>5, <2>1, UpwardRoot
    <2>3. QED  BY <2>2, <1>2
  <1>7. \A g \in F : g # f => Tells(g, d1, S, m)  BY <1>0, <1>4, <1>5, UpwardTells
  <1>8. \A a \in PlacesOf(F) : a \in DOMAIN m /\ a \in Steps
    <2>1. \A g \in F : g.at \in DOMAIN m  BY <1>1, OwnedFacts
    <2>2. QED  BY <2>1, <1>1 DEF PlacesOf
  <1>9. S \subseteq PlacesOf(F) /\ \A a \in S : \A i \in 1..Len(s) : s[i].at # a
    <2>1. \A p \in DOMAIN st : st[p] \in F  BY DEF FramesOf
    <2>2. QED  BY <1>1, <2>1 DEF StoredAt, PlacesOf, Placed
  <1>10. \A a \in S : d1[a] = d[a]  BY <1>4, <1>8, <1>9 DEF Upward
  <1> DEFINE d3 == [a \in Steps |-> IF a = b THEN h ELSE d1[a]]
  <1>11. \A a \in Steps : a # b => d3[a] = d1[a]  OBVIOUS
  <1>12. d3[b] = h  BY <1>3
  <1> HIDE DEF d3
  <1>13. \A a \in PlacesOf(F) : d3[a] = d1[a]  BY <1>0, <1>8, <1>11
  <1>14. \A a \in S : d3[a] = d[a]  BY <1>9, <1>10, <1>13
  <1>15. BegunFor(f, f2, d, d3, S, m, m2) /\ Open(f2) = b  BY <1>0, <1>14, BegunForIs
  <1>16. Appends(v, d3[f2.at], e)
    <2>1. d1[f.at] = Append(v, e)  BY <1>4 DEF Upward
    <2>2. d3[f2.at] = Append(v, e)  BY <2>1, <1>2, <1>3, <1>13
    <2>3. Tells(f, d, S, m)  BY <1>1, <1>5
    <2>4. IsSeq(v)  BY <2>3, <1>2 DEF Tells
    <2>5. QED  BY <2>2, <2>4, AppendsIs
  <1>17. Tells(f2, d3, S, m2)  BY <1>12, <1>15, <1>16 DEF Describing
  <1>18. TellsAll(t, FramesOf(s2, st), d3, S, m2, w)  BY <1>0, <1>7, <1>12, <1>13, <1>17, BegunTold
  <1>19. d3[Root] = d1[Root]
    <2>1. Root \in Steps /\ b # Root  BY <1>2, <1>3, RootIs, Child
    <2>2. QED  BY <2>1, <1>11
  <1>20. QED  BY <1>6, <1>18, <1>19 DEF Told

-----------------------------------------------------------------------------
(* begin_list_item, begin_key, begin_value, begin_set_item *)

LEMMA SayHereIs == ASSUME NEW v, SayHere(v) PROVE said' = Anew(said, Top.at, v)
  <1>1. Last(said) = said[Len(said)]  BY DEF Last
  <1>2. CASE Len(Top.at) = 0
    BY <1>2 DEF SayHere, Anew
  <1>3. CASE Len(Top.at) # 0 /\ Len(Top.at) = 1
    <2>1. said' = [said EXCEPT ![Len(said)] = WithHalf(Last(said), Top.at[1], v)]
      BY <1>3 DEF SayHere
    <2>2. said' = Over(said, Top.at[1], v)  BY <2>1, <1>1 DEF Over
    <2>3. QED  BY <2>2, <1>3 DEF Anew
  <1>4. CASE Len(Top.at) # 0 /\ Len(Top.at) # 1
    <2> DEFINE x == Last(said)
               inner == Half(x, Top.at[1])
               new == [inner EXCEPT ![Len(inner)] = WithHalf(@, Top.at[2], v)]
    <2>1. said' = [said EXCEPT ![Len(said)] = WithHalf(x, Top.at[1], new)]
      BY <1>4 DEF SayHere
    <2>2. new = Over(inner, Top.at[2], v)  BY DEF Over
    <2>3. inner = Lastly(said, Top.at[1])  BY <1>1 DEF Lastly
    <2> HIDE DEF new, inner
    <2>4. said' = Over(said, Top.at[1], new)  BY <2>1, <1>1 DEF Over
    <2>5. QED  BY <2>2, <2>3, <2>4, <1>4 DEF Anew
  <1>5. QED  BY <1>2, <1>3, <1>4

\* A collection is the root, or an element of it.
LEMMA SaidHereIs ==
    ASSUME CollectionsInv, Building, NEW d, d[Root] = said,
           \A i \in 1..Len(stack) : Tells(stack[i], d, StoredAt(stored), mem), ~IsLeaf(Top)
    PROVE  SaidHere = d[Top.at]
  <1>1. LiveOK(type, stack, stored, mem) /\ BuildingOK(stack, stored, mem) /\ Top = stack[Len(stack)]
        /\ Placed(stack, stored) /\ stack # << >>
    BY ActiveFacts
  <1>2. Len(stack) \in Nat \ {0} /\ Len(stack) \in 1..Len(stack)  BY <1>1, StackFacts
  <1>3. Len(Top.at) = Len(stack) - 1 /\ Len(stack[1].at) = 0
    BY <1>1, <1>2 DEF Placed
  <1>4. stack[1].at = Root
    <2>1. stack[1].at \in Steps  BY <1>1, <1>2, StackFacts
    <2>2. QED  BY <2>1, <1>3, RootIs
  <1> DEFINE k == Len(Top.at)
             L == Len(stack)
  <1>5. k = 0 \/ k = 1
    <2>1. Len(Top.at) \in 0..2  BY ActiveFacts, FrameFacts
    <2>2. Len(Top.at) # 2  BY DEF IsLeaf
    <2> HIDE DEF k
    <2>3. k \in 0..2 /\ k # 2  BY <2>1, <2>2 DEF k
    <2>4. QED  BY <2>3
  <1>6. CASE k = 0
    <2>1. Top.at \in Steps  BY ActiveFacts
    <2>2. Top.at = Root  BY <2>1, <1>6, RootIs
    <2>3. QED  BY <2>2, <1>6 DEF SaidHere
  <1>7. CASE k = 1
    <2> DEFINE x == StepOpen(stack[1])
    <2>1. L = 2
      <3> HIDE DEF k, L
      <3>1. k = L - 1 /\ L \in Nat /\ k = 1  BY <1>2, <1>3, <1>7 DEF k, L
      <3>2. QED  BY <3>1
    <2>2. 1 \in 1..Len(stack) - 1 /\ 1 + 1 = 2 /\ 1 \in 1..Len(stack)  BY <2>1
    <2>3. Busy(stack[1]) /\ x \in StepSet /\ stack[2].at = Open(stack[1])  BY <1>1, <2>2, Inner
    <2>4. Tells(stack[1], d, StoredAt(stored), mem)  BY <2>2
    <2>5. d[Open(stack[1])] = Lastly(d[stack[1].at], x)  BY <2>3, <2>4 DEF Tells
    <2>6. Top.at = Open(stack[1]) /\ Open(stack[1]) = Append(Root, x)  BY <1>1, <1>4, <2>1, <2>3 DEF Open
    <2>7. Top.at[1] = x
      <3> HIDE DEF x
      <3>1. Append(Root, x)[Len(Root) + 1] = x /\ Len(Root) = 0  BY <2>3, Child, RootIs
      <3>2. Append(Root, x)[1] = x  BY <3>1
      <3>3. QED  BY <3>2, <2>6
    <2>8. d[Top.at] = Lastly(said, x)  BY <2>5, <2>6, <1>4
    <2>9. SaidHere = Half(Last(said), Top.at[1])  BY <1>7 DEF SaidHere
    <2>10. Last(said) = said[Len(said)]  BY DEF Last
    <2> HIDE DEF x
    <2>11. QED  BY <2>7, <2>8, <2>9, <2>10 DEF Lastly
  <1>8. QED  BY <1>5, <1>6, <1>7

LEMMA InvTold ==
    ASSUME DescriptionInv, Building
    PROVE  \E d : d[Root] = said /\ TellsAll(type, FramesOf(stack, stored), d, StoredAt(stored), mem, 3 * sets)
  BY DEF DescriptionInv, Told

\* A call that begins an element, and says so.
LEMMA SaysAppended ==
    ASSUME CollectionsInv, DescriptionInv, Active, NEW x \in StepSet, ~Kid(Top, x),
           NEW b, NEW f2, Begins(Top, x, b, f2),
           Pushed(stack, stack', f2, NewFrame(b)), Grown(mem, mem', b),
           UNCHANGED <<type, stored, sets>>,
           NEW e, NEW h, SayHere(Append(SaidHere, e)), ~IsLeaf(NewFrame(b)) => h = << >>,
           \A d, d2, S, m, m2 : /\ BegunFor(Top, f2, d, d2, S, m, m2) /\ Tells(Top, d, S, m)
                                /\ Appends(d[f2.at], d2[f2.at], e) /\ d2[Open(f2)] = h
                                => Tells(f2, d2, S, m2)
    PROVE  Told(type', stack', stored', mem', 3 * sets', said')
  <1> DEFINE F == FramesOf(stack, stored)
             S == StoredAt(stored)
  <1>1. Building  BY DEF Building, Active
  <1>2. /\ LiveOK(type, stack, stored, mem) /\ BuildingOK(stack, stored, mem)
        /\ Top = stack[Len(stack)] /\ Top \in F /\ Top.at \in Steps /\ OwnOK(Top, PlacesOf(F), mem) /\ FrameOK(Top)
    BY <1>1, ActiveFacts
  <1>3. b \notin DOMAIN mem
    <2>1. b = Append(Top.at, x)  BY DEF Begins
    <2>2. IsPart(b, Top.at) /\ Last(b) = x  BY <1>2, <2>1, Child DEF IsPart
    <2>3. QED  BY <1>2, <2>2 DEF OwnOK
  <1>4. PICK d : d[Root] = said /\ TellsAll(type, F, d, S, mem, 3 * sets)  BY <1>1, InvTold
  <1>5. \A i \in 1..Len(stack) : Tells(stack[i], d, S, mem)
    <2>1. \A i \in 1..Len(stack) : stack[i] \in F  BY <1>2, LiveFacts
    <2>2. QED  BY <2>1, <1>4, ToldFacts
  <1>6. Tells(Top, d, S, mem)  BY <1>2, <1>4, ToldFacts
  <1>7. f2.at = Top.at /\ Top.tracker # "Scalar"  BY DEF Begins
  <1>8. SaidHere = d[f2.at]
    <2>1. ~IsLeaf(Top)  BY <1>2, <1>7 DEF FrameOK
    <2>2. SaidHere = d[Top.at]  BY <2>1, <1>1, <1>4, <1>5, SaidHereIs
    <2>3. QED  BY <2>2, <1>7
  <1>9. said' = Anew(d[Root], f2.at, Append(d[f2.at], e))
    <2>1. said' = Anew(said, Top.at, Append(SaidHere, e))  BY SayHereIs
    <2>2. QED  BY <2>1, <1>4, <1>7, <1>8
  <1> DEFINE s == stack
             s2 == stack'
             m2 == mem'
             w == 3 * sets
  <1>10. Making(type, s, stored, mem, x, b, f2, s2, m2) /\ TellsAll(type, FramesOf(s, stored), d, StoredAt(stored), mem, w)
    BY <1>2, <1>3, <1>4 DEF Making
  <1>11. w \in Nat
    <2>1. sets \in Nat  BY DEF DescriptionInv
    <2>2. QED  BY <2>1
  <1>12. Describing(s[Len(s)], f2, d, StoredAt(stored), mem, m2, e, h)
    BY <1>2, <1>6 DEF Describing
  <1> HIDE DEF s, s2, m2, w
  <1>13. Told(type, s2, stored, m2, w, Anew(d[Root], f2.at, Append(d[f2.at], e)))
    BY <1>10, <1>11, <1>12, AppendedTold
  <1>14. QED  BY <1>9, <1>13 DEF s2, m2, w

ToldNext == Told(type', stack', stored', mem', 3 * sets', said')

Appending(x, b, f2, e, h) ==
    /\ Active /\ x \in StepSet /\ ~Kid(Top, x) /\ Begins(Top, x, b, f2)
    /\ Pushed(stack, stack', f2, NewFrame(b)) /\ Grown(mem, mem', b)
    /\ UNCHANGED <<type, stored, sets>>
    /\ SayHere(Append(SaidHere, e))
    /\ ~IsLeaf(NewFrame(b)) => h = << >>

Describes(f, f2, e, h) ==
    \A d, d2, S, m, m2 : /\ BegunFor(f, f2, d, d2, S, m, m2) /\ Tells(f, d, S, m)
                         /\ Appends(d[f2.at], d2[f2.at], e) /\ d2[Open(f2)] = h
                         => Tells(f2, d2, S, m2)

LEMMA AppendingTold ==
    ASSUME CollectionsInv, DescriptionInv, NEW x, NEW b, NEW f2, NEW e, NEW h,
           Appending(x, b, f2, e, h), Describes(Top, f2, e, h)
    PROVE  ToldNext
  <1>1. /\ Active /\ x \in StepSet /\ ~Kid(Top, x) /\ Begins(Top, x, b, f2)
        /\ Pushed(stack, stack', f2, NewFrame(b)) /\ Grown(mem, mem', b)
        /\ UNCHANGED <<type, stored, sets>>
        /\ SayHere(Append(SaidHere, e))
        /\ ~IsLeaf(NewFrame(b)) => h = << >>
    BY DEF Appending
  <1>2. \A d, d2, S, m, m2 : /\ BegunFor(Top, f2, d, d2, S, m, m2) /\ Tells(Top, d, S, m)
                             /\ Appends(d[f2.at], d2[f2.at], e) /\ d2[Open(f2)] = h
                             => Tells(f2, d2, S, m2)
    BY DEF Describes
  <1>3. Told(type', stack', stored', mem', 3 * sets', said')  BY <1>1, <1>2, SaysAppended
  <1>4. QED  BY <1>3 DEF ToldNext

\* What is begun in the root's collection is blank.
LEMMA BlankIs ==
    ASSUME Top.at \in Steps, Len(Top.at) <= 2, ~IsLeaf(Top), NEW x \in StepSet, NEW b, b = Append(Top.at, x),
           ~IsLeaf(NewFrame(b))
    PROVE  Len(Top.at) = 0 /\ Blank = << >>
  <1> DEFINE k == Len(Top.at)
             j == Len(b)
  <1>1. k \in Nat /\ j = k + 1 /\ b \in Steps  BY Child
  <1>2. k # 2  BY DEF IsLeaf
  <1>3. NewFrame(b).at = b  BY DEF NewFrame
  <1>4. j # 2  BY <1>3 DEF IsLeaf
  <1>5. k <= 2  OBVIOUS
  <1> HIDE DEF k, j
  <1>6. k = 0  BY <1>1, <1>2, <1>4, <1>5
  <1>7. QED  BY <1>6 DEF Blank, k

\* begin_list_item: the description gets one more element, blank as yet.
LEMMA BeginItemTold ==
    ASSUME CollectionsInv, DescriptionInv, BeginItem
    PROVE  ToldNext
  <1> DEFINE k == NextNumber(Top)
             x == <<"item", RopeLen(Top)>>
             b == Append(Top.at, x)
             f2 == [PushUninit(Top) EXCEPT !.state = "Item", !.cur = Some(<<"item", k>>)]
             T == Top
  <1>0. /\ Active /\ Building /\ T.tracker = "List" /\ T.state = "Idle"
        /\ UNCHANGED <<type, stored, sets>>
        /\ SayHere(Append(SaidHere, Blank))
    BY DEF BeginItem, Active, Building
  <1>1. /\ stack \in Seq(FrameSet) /\ Len(stack) \in 1..Len(stack) /\ FrameOK(T) /\ T = Top
        /\ Sound(Top, PlacesOf(FramesOf(stack, stored)), StoredAt(stored), mem)
        /\ Top.at \in Steps /\ Len(Top.at) <= 2
    BY <1>0, ActiveFacts
  <1>2. Grown(mem, mem', b) /\ stack' = Append([stack EXCEPT ![Len(stack)] = f2], NewFrame(b))
    BY DEF BeginItem, Grown, SetTop
  <1>3. RopeLen(Top) \in Nat /\ ~IsLeaf(Top)  BY <1>0, <1>1, FrameFacts DEF FrameOK
  <1>4. k \in Nat
    <2>1. Top.isInit  BY <1>0, <1>1 DEF FrameOK
    <2>2. IsSeq(mem[Top.at][1])  BY <1>1, <1>3, <2>1 DEF Sound, ValueOK
    <2>3. Len(mem[Top.at][1]) \in Nat  BY <2>2, SeqFacts
    <2>4. QED  BY <1>0, <1>3, <2>3 DEF NextNumber
  <1> HIDE DEF k
  <1>5. Begins(T, x, b, f2) /\ x \in StepSet /\ ~Kid(T, x)
    <2> HIDE DEF T
    <2>1. LET y == <<"item", RopeLen(T)>>
              g == [PushUninit(T) EXCEPT !.state = "Item", !.cur = Some(<<"item", k>>)] IN
          Begins(T, y, Append(T.at, y), g) /\ y \in StepSet /\ ~Kid(T, y)
      BY <1>0, <1>1, <1>4, ItemBegins
    <2>2. QED  BY <2>1 DEF T
  <1>6. RopeLen(f2) = RopeLen(Top) + 1 /\ Marked(f2) = Marked(Top)
    <2>1. LET g == [PushUninit(T) EXCEPT !.state = "Item", !.cur = Some(<<"item", k>>)] IN
          RopeLen(g) = RopeLen(T) + 1 /\ Marked(g) = Marked(T)
      <3> HIDE DEF T
      <3>1. QED  BY <1>0, <1>1, <1>4, PushUninitIs
    <2>2. QED  BY <2>1
  <1> HIDE DEF f2
  <1>7. Pushed(stack, stack', f2, NewFrame(b))
    <2>1. f2 \in FrameSet  BY <1>5 DEF Begins, FrameOK
    <2> HIDE DEF b
    <2>2. QED  BY <1>1, <1>2, <2>1, PushedIs
  <1>8. ~IsLeaf(NewFrame(b)) => Blank = << >>
    <2>1. b = Append(Top.at, x)  OBVIOUS
    <2> HIDE DEF b, x
    <2>2. QED  BY <1>1, <1>3, <1>5, <2>1, BlankIs
  <1> HIDE DEF x, b
  <1>9. ASSUME NEW d, NEW d2, NEW S, NEW m, NEW m2, BegunFor(Top, f2, d, d2, S, m, m2), Tells(Top, d, S, m),
               Appends(d[f2.at], d2[f2.at], Blank), d2[Open(f2)] = Blank
        PROVE  Tells(f2, d2, S, m2)
    <2>1. f2.at = Top.at /\ Top.tracker = "List"  BY <1>0, <1>9 DEF BegunFor
    <2> DEFINE y == Blank
    <2>2. Appends(d[Top.at], d2[Top.at], y) /\ d2[Open(f2)] = y  BY <2>1, <1>9
    <2> HIDE DEF y
    <2>3. QED  BY <1>6, <1>9, <2>1, <2>2, ListBegun
  <1>10. Begins(Top, x, b, f2) /\ ~Kid(Top, x) /\ x \in StepSet /\ Grown(mem, mem', b)  BY <1>2, <1>5
  <1> HIDE DEF T
  <1> DEFINE y == Blank
  <1>11. SayHere(Append(SaidHere, y)) /\ (~IsLeaf(NewFrame(b)) => y = << >>)  BY <1>0, <1>8
  <1>12. \A d, d2, S, m, m2 : /\ BegunFor(Top, f2, d, d2, S, m, m2) /\ Tells(Top, d, S, m)
                              /\ Appends(d[f2.at], d2[f2.at], y) /\ d2[Open(f2)] = y
                              => Tells(f2, d2, S, m2)
    BY <1>9
  <1> HIDE DEF y
  <1>13. Appending(x, b, f2, y, y)  BY <1>0, <1>7, <1>10, <1>11 DEF Appending
  <1>14. Describes(Top, f2, y, y)  BY <1>12 DEF Describes
  <1>15. QED  BY <1>13, <1>14, AppendingTold

\* A key is a leaf.
LEMMA KeyIsLeaf ==
    ASSUME NEW a \in Steps, Len(a) <= 1, NEW k \in Nat, <<"key", k>> \in StepSet
    PROVE  IsLeaf(NewFrame(Append(a, <<"key", k>>)))
  <1> DEFINE x == <<"key", k>>
             b == Append(a, x)
             l == Len(a)
             j == Len(b)
  <1>1. l \in Nat /\ j = l + 1 /\ b[l + 1] = x  BY Child
  <1>2. x[1] = "key"  OBVIOUS
  <1>3. NewFrame(b).at = b  BY DEF NewFrame
  <1>4. l <= 1  OBVIOUS
  <1>5. b[j][1] = "key"  BY <1>1, <1>2
  <1> HIDE DEF l, j, x, b
  <1>6. j = 1 \/ j = 2  BY <1>1, <1>4
  <1>7. LastStep(b) = b[j]  BY DEF LastStep, j
  <1>8. IsLeaf(NewFrame(b))  BY <1>3, <1>5, <1>6, <1>7 DEF IsLeaf, j
  <1>9. QED  BY <1>8 DEF b, x

LEMMA Shallow ==
    ASSUME Top.at \in Steps, Len(Top.at) <= 2, ~IsLeaf(Top)
    PROVE  Len(Top.at) <= 1
  <1> DEFINE l == Len(Top.at)
  <1>1. l \in Nat /\ l <= 2  BY DEF Steps
  <1>2. l # 2  BY DEF IsLeaf
  <1> HIDE DEF l
  <1>3. l <= 1  BY <1>1, <1>2
  <1>4. QED  BY <1>3 DEF l

\* begin_key: the description gets one more entry, both halves blank.
LEMMA BeginKeyTold ==
    ASSUME CollectionsInv, DescriptionInv, BeginKey
    PROVE  ToldNext
  <1> DEFINE k == NextNumber(Top)
             s == <<"Key", "key">>
             x == HalfStep(s, k)
             b == Append(Top.at, x)
             f2 == HalfOpened(Top, s, k)
             T == Top
  <1>0. /\ Active /\ Building /\ T.tracker = "Map" /\ T.state = "Idle"
        /\ UNCHANGED <<type, stored, sets>>
        /\ SayHere(Append(SaidHere, <<Missing, Blank>>))
    BY DEF BeginKey, Active, Building
  <1>1. /\ stack \in Seq(FrameSet) /\ Len(stack) \in 1..Len(stack) /\ FrameOK(T) /\ T = Top
        /\ Top.at \in Steps /\ Len(Top.at) <= 2
    BY <1>0, ActiveFacts
  <1>2. Grown(mem, mem', b) /\ stack' = Append([stack EXCEPT ![Len(stack)] = f2], NewFrame(b))
    BY DEF BeginKey, Grown, SetTop, HalfOpened, HalfStep
  <1>3. k \in Nat /\ (T.cur = None \/ k > T.cur[1][2])
    <2>1. Len(T.pending) \in Nat  BY <1>1, FrameFacts
    <2>2. T.cur = None \/ \E j \in Nat : T.cur = Some(<<"value", j>>)  BY <1>0, <1>1 DEF FrameOK, StateOK
    <2>3. CASE T.cur = None  BY <1>0, <2>1, <2>3 DEF NextNumber
    <2>4. CASE \E j \in Nat : T.cur = Some(<<"value", j>>)
      <3>1. PICK j \in Nat : T.cur = Some(<<"value", j>>)  BY <2>4
      <3>2. T.cur # None /\ T.cur[1][2] = j  BY <3>1 DEF Some, None
      <3>3. k = j + 1  BY <1>0, <3>2 DEF NextNumber
      <3>4. QED  BY <3>2, <3>3
    <2>5. QED  BY <2>2, <2>3, <2>4
  <1> HIDE DEF k
  <1>4. /\ Begins(T, x, b, f2) /\ x \in StepSet /\ ~Kid(T, x)
        /\ f2.tracker = "Map" /\ f2.cur = Some(StepOpen(f2)) /\ f2.state = s[1] /\ f2.cur[1] = x
    <2> HIDE DEF T, s
    <2>1. FrameOK(T) /\ T.tracker = "Map" /\ k \in Nat /\ Turn(T, s, k)
      BY <1>0, <1>1, <1>3 DEF Turn, s
    <2>2. LET y == HalfStep(s, k)
              g == HalfOpened(T, s, k) IN
          /\ Begins(T, y, Append(T.at, y), g)
          /\ y \in StepSet /\ ~Kid(T, y)
          /\ g.tracker = "Map" /\ g.cur = Some(StepOpen(g)) /\ g.pending = T.pending
          /\ g.state = s[1] /\ g.cur[1] = y
      BY <2>1, HalfBegins
    <2>3. QED  BY <2>2 DEF T
  <1>5. s[1] = "Key" /\ x = <<"key", k>> /\ x[1] = "key"  BY DEF HalfStep
  <1>6. IsLeaf(NewFrame(b))
    <2>1. ~IsLeaf(Top)  BY <1>0, <1>1 DEF FrameOK
    <2>2. Len(Top.at) <= 1  BY <2>1, <1>1, Shallow
    <2> HIDE DEF x
    <2>3. QED  BY <1>1, <1>3, <1>4, <1>5, <2>2, KeyIsLeaf
  <1> HIDE DEF x, f2, b, T, s
  <1>7. f2 \in FrameSet /\ f2.state = "Key" /\ StepOpen(f2)[1] = "key"
    <2>1. StepOpen(f2) = x  BY <1>4 DEF Begins
    <2>2. QED  BY <2>1, <1>4, <1>5 DEF Begins, FrameOK
  <1>8. Pushed(stack, stack', f2, NewFrame(b))  BY <1>1, <1>2, <1>7, PushedIs
  <1>9. Begins(Top, x, b, f2) /\ ~Kid(Top, x) /\ Top.tracker = "Map" /\ Top.state = "Idle"  BY <1>0, <1>1, <1>4
  <1> DEFINE y == Blank
             e == <<Missing, y>>
             h == Missing
  <1>10. Top.at = Root => y = << >>
    <2>1. Len(Root) = 0  BY RootIs
    <2>2. QED  BY <2>1 DEF Blank
  <1> HIDE DEF y
  <1>11. ASSUME NEW d, NEW d2, NEW S, NEW m, NEW m2, BegunFor(Top, f2, d, d2, S, m, m2), Tells(Top, d, S, m),
                Appends(d[f2.at], d2[f2.at], e), d2[Open(f2)] = h
         PROVE  Tells(f2, d2, S, m2)
    <2>1. f2.at = Top.at  BY <1>11 DEF BegunFor
    <2>2. Appends(d[Top.at], d2[Top.at], <<Missing, y>>) /\ d2[Open(f2)] = Missing  BY <2>1, <1>11
    <2>3. QED  BY <1>7, <1>9, <1>10, <1>11, <2>2, KeyBegun
  <1>12. SayHere(Append(SaidHere, e))  BY <1>0 DEF y
  <1> HIDE DEF e, h
  <1>13. Appending(x, b, f2, e, h)  BY <1>0, <1>2, <1>4, <1>6, <1>8, <1>9, <1>12 DEF Appending
  <1>14. Describes(Top, f2, e, h)  BY <1>11 DEF Describes
  <1>15. QED  BY <1>13, <1>14, AppendingTold

\* begin_set_item: the description gets one more element.
LEMMA BeginElementTold ==
    ASSUME CollectionsInv, DescriptionInv, BeginElement
    PROVE  ToldNext
  <1> DEFINE x == Element
             b == Append(Top.at, x)
             f2 == [Top EXCEPT !.state = "Item"]
             T == Top
  <1>0. /\ Active /\ Building /\ T.tracker = "Set" /\ T.state = "Idle"
        /\ UNCHANGED <<type, stored, sets>>
        /\ SayHere(Append(SaidHere, Blank))
    BY DEF BeginElement, Active, Building
  <1>1. /\ stack \in Seq(FrameSet) /\ Len(stack) \in 1..Len(stack) /\ FrameOK(T) /\ T = Top
        /\ Top.at \in Steps /\ Len(Top.at) <= 2
    BY <1>0, ActiveFacts
  <1>2. Grown(mem, mem', b) /\ stack' = Append([stack EXCEPT ![Len(stack)] = f2], NewFrame(b))
    BY DEF BeginElement, Grown, SetTop
  <1>3. ~IsLeaf(Top)  BY <1>0, <1>1 DEF FrameOK
  <1>4. LET g == [T EXCEPT !.state = "Item"] IN
        /\ Begins(T, Element, Append(T.at, Element), g) /\ g.tracker = "Set"
        /\ Element \in StepSet /\ ~Kid(T, Element)
    <2> HIDE DEF T
    <2>1. QED  BY <1>0, <1>1, ElementBegins
  <1>5. Begins(T, x, b, f2) /\ x \in StepSet /\ ~Kid(T, x)  BY <1>4
  <1>6. f2.state = "Item"
    <2>1. T \in FrameSet  BY <1>1 DEF FrameOK
    <2>2. QED  BY <2>1 DEF FrameSet
  <1> HIDE DEF f2
  <1>7. Pushed(stack, stack', f2, NewFrame(b))
    <2>1. f2 \in FrameSet  BY <1>5 DEF Begins, FrameOK
    <2> HIDE DEF b
    <2>2. QED  BY <1>1, <1>2, <2>1, PushedIs
  <1>8. ~IsLeaf(NewFrame(b)) => Blank = << >>
    <2>1. b = Append(Top.at, x)  OBVIOUS
    <2> HIDE DEF b, x
    <2>2. QED  BY <1>1, <1>3, <1>5, <2>1, BlankIs
  <1> HIDE DEF x, b
  <1>9. ASSUME NEW d, NEW d2, NEW S, NEW m, NEW m2, BegunFor(Top, f2, d, d2, S, m, m2), Tells(Top, d, S, m),
               Appends(d[f2.at], d2[f2.at], Blank), d2[Open(f2)] = Blank
        PROVE  Tells(f2, d2, S, m2)
    <2>1. f2.at = Top.at /\ Top.tracker = "Set" /\ Top.state = "Idle"  BY <1>0, <1>9 DEF BegunFor
    <2> DEFINE y == Blank
    <2>2. Appends(d[Top.at], d2[Top.at], y) /\ d2[Open(f2)] = y  BY <2>1, <1>9
    <2> HIDE DEF y
    <2>3. QED  BY <1>6, <1>9, <2>1, <2>2, MemberBegun
  <1>10. Begins(Top, x, b, f2) /\ ~Kid(Top, x) /\ x \in StepSet /\ Grown(mem, mem', b)  BY <1>2, <1>5
  <1> HIDE DEF T
  <1> DEFINE y == Blank
  <1>11. SayHere(Append(SaidHere, y)) /\ (~IsLeaf(NewFrame(b)) => y = << >>)  BY <1>0, <1>8
  <1>12. \A d, d2, S, m, m2 : /\ BegunFor(Top, f2, d, d2, S, m, m2) /\ Tells(Top, d, S, m)
                              /\ Appends(d[f2.at], d2[f2.at], y) /\ d2[Open(f2)] = y
                              => Tells(f2, d2, S, m2)
    BY <1>9
  <1> HIDE DEF y
  <1>13. Appending(x, b, f2, y, y)  BY <1>0, <1>7, <1>10, <1>11 DEF Appending
  <1>14. Describes(Top, f2, y, y)  BY <1>12 DEF Describes
  <1>15. QED  BY <1>13, <1>14, AppendingTold

LEMMA AtRoot ==
    ASSUME NEW f, f.at \in Steps, Len(f.at) <= 2, ~IsLeaf(f), NEW x \in StepSet, NEW b, b = Append(f.at, x),
           ~IsLeaf(NewFrame(b))
    PROVE  f.at = Root
  <1> DEFINE k == Len(f.at)
             j == Len(b)
  <1>1. k \in Nat /\ j = k + 1 /\ b \in Steps  BY Child
  <1>2. k # 2  BY DEF IsLeaf
  <1>3. NewFrame(b).at = b  BY DEF NewFrame
  <1>4. j # 2  BY <1>3 DEF IsLeaf
  <1>5. k <= 2  OBVIOUS
  <1> HIDE DEF k, j
  <1>6. k = 0  BY <1>1, <1>2, <1>4, <1>5
  <1>7. QED  BY <1>6, RootIs DEF k

LEMMA ValueTold ==
    ASSUME NEW t, NEW s, NEW st, NEW m, NEW x, NEW b, NEW f2, NEW s2, NEW m2,
           Making(t, s, st, m, x, b, f2, s2, m2),
           NEW d, NEW w \in Nat, TellsAll(t, FramesOf(s, st), d, StoredAt(st), m, w),
           s[Len(s)].tracker = "Map", s[Len(s)].state = "KeyDone", f2.state = "Value", StepOpen(f2)[1] = "value"
    PROVE  Told(t, s2, st, m2, w, d[Root])
  <1>0. /\ LiveOK(t, s, st, m) /\ BuildingOK(s, st, m)
        /\ x \in StepSet /\ b \notin DOMAIN m /\ Begins(s[Len(s)], x, b, f2)
        /\ Pushed(s, s2, f2, NewFrame(b)) /\ Grown(m, m2, b)
    BY DEF Making
  <1> DEFINE F == FramesOf(s, st)
             S == StoredAt(st)
             f == s[Len(s)]
             v == d[f.at]
             h == v[Len(v)][2]
  <1>1. /\ Placed(s, st) /\ Owned(F, m) /\ Len(s) \in Nat \ {0} /\ s # << >>
        /\ \A g \in F : FrameOK(g) /\ g.at \in Steps
        /\ f \in F
    BY <1>0, LiveFacts
  <1>2. f2.at = f.at /\ f.tracker # "Scalar" /\ b = Append(f.at, x)  BY <1>0 DEF Begins
  <1>3. f.at \in Steps /\ f.at \in PlacesOf(F) /\ b \in Steps  BY <1>0, <1>1, <1>2, Child DEF PlacesOf
  <1>5. \A g \in F : Tells(g, d, S, m)  BY ToldFacts
  <1>8. \A a \in PlacesOf(F) : a \in DOMAIN m /\ a \in Steps
    <2>1. \A g \in F : g.at \in DOMAIN m  BY <1>1, OwnedFacts
    <2>2. QED  BY <2>1, <1>1 DEF PlacesOf
  <1>9. S \subseteq PlacesOf(F)
    <2>1. \A p \in DOMAIN st : st[p] \in F  BY DEF FramesOf
    <2>2. QED  BY <2>1 DEF StoredAt, PlacesOf
  <1> DEFINE d3 == [a \in Steps |-> IF a = b THEN h ELSE d[a]]
  <1>11. \A a \in Steps : a # b => d3[a] = d[a]  OBVIOUS
  <1>12. d3[b] = h  BY <1>3
  <1> HIDE DEF d3
  <1>13. \A a \in PlacesOf(F) : d3[a] = d[a]  BY <1>0, <1>8, <1>11
  <1>14. \A a \in S : d3[a] = d[a]  BY <1>9, <1>13
  <1>15. BegunFor(f, f2, d, d3, S, m, m2) /\ Open(f2) = b  BY <1>0, <1>14, BegunForIs
  <1>16. d3[f.at] = d[f.at] /\ d3[Open(f2)] = d[f.at][Len(d[f.at])][2]  BY <1>3, <1>12, <1>13, <1>15
  <1>17. Tells(f2, d3, S, m2) /\ (f.at = Root => d3[Open(f2)] = << >>)
    <2>1. Tells(f, d, S, m)  BY <1>1, <1>5
    <2>2. f.tracker = "Map" /\ f.state = "KeyDone"  OBVIOUS
    <2> HIDE DEF f, F, S
    <2>3. QED  BY <1>15, <1>16, <2>1, <2>2, ValueBegun
  <1>18. ~IsLeaf(NewFrame(b)) => d3[b] = << >>
    <2>1. ~IsLeaf(f)  BY <1>1, <1>2 DEF FrameOK
    <2>2. Len(f.at) <= 2
      <3>1. f \in FrameSet  BY <1>0, <1>1, LiveFacts
      <3> HIDE DEF f
      <3>2. QED  BY <3>1 DEF FrameSet, Places
    <2>3. ~IsLeaf(NewFrame(b)) => f.at = Root  BY <1>0, <1>2, <1>3, <2>1, <2>2, AtRoot
    <2>4. QED  BY <2>3, <1>15, <1>17
  <1>19. TellsAll(t, FramesOf(s2, st), d3, S, m2, w)  BY <1>0, <1>5, <1>13, <1>17, <1>18, BegunTold
  <1>20. d3[Root] = d[Root]
    <2>1. Root \in Steps /\ b # Root  BY <1>2, <1>3, <1>0, RootIs, Child
    <2>2. QED  BY <2>1, <1>11
  <1>21. QED  BY <1>19, <1>20 DEF Told

\* begin_value: the description already has the value, blank as yet.
LEMMA BeginValueTold ==
    ASSUME CollectionsInv, DescriptionInv, BeginValue
    PROVE  ToldNext
  <1> DEFINE k == Top.cur[1][2]
             s == <<"Value", "value">>
             x == HalfStep(s, k)
             b == Append(Top.at, x)
             f2 == HalfOpened(Top, s, k)
             T == Top
  <1>0. /\ Active /\ Building /\ T.tracker = "Map" /\ T.state = "KeyDone"
        /\ UNCHANGED <<type, stored, sets, said>>
    BY DEF BeginValue, Active, Building
  <1>1. /\ stack \in Seq(FrameSet) /\ Len(stack) \in 1..Len(stack) /\ FrameOK(T) /\ T = Top
        /\ Top.at \in Steps /\ Len(Top.at) <= 2
        /\ LiveOK(type, stack, stored, mem) /\ BuildingOK(stack, stored, mem)
        /\ Top = stack[Len(stack)] /\ OwnOK(Top, PlacesOf(FramesOf(stack, stored)), mem)
    BY <1>0, ActiveFacts
  <1>2. Grown(mem, mem', b) /\ stack' = Append([stack EXCEPT ![Len(stack)] = f2], NewFrame(b))
    BY DEF BeginValue, Grown, SetTop, HalfOpened, HalfStep
  <1>3. k \in Nat /\ k = T.cur[1][2]
    <2>1. PICK j \in Nat : T.cur = Some(<<"key", j>>)  BY <1>0, <1>1 DEF FrameOK, StateOK
    <2>2. T.cur[1][2] = j  BY <2>1 DEF Some
    <2>3. QED  BY <2>2
  <1> HIDE DEF k
  <1>4. /\ Begins(T, x, b, f2) /\ x \in StepSet /\ ~Kid(T, x)
        /\ f2.tracker = "Map" /\ f2.cur = Some(StepOpen(f2)) /\ f2.state = s[1] /\ f2.cur[1] = x
    <2> HIDE DEF T, s
    <2>1. FrameOK(T) /\ T.tracker = "Map" /\ k \in Nat /\ Turn(T, s, k)
      BY <1>0, <1>1, <1>3 DEF Turn, s
    <2>2. LET y == HalfStep(s, k)
              g == HalfOpened(T, s, k) IN
          /\ Begins(T, y, Append(T.at, y), g)
          /\ y \in StepSet /\ ~Kid(T, y)
          /\ g.tracker = "Map" /\ g.cur = Some(StepOpen(g)) /\ g.pending = T.pending
          /\ g.state = s[1] /\ g.cur[1] = y
      BY <2>1, HalfBegins
    <2>3. QED  BY <2>2 DEF T
  <1>5. s[1] = "Value" /\ x = <<"value", k>> /\ x[1] = "value"  BY DEF HalfStep
  <1> HIDE DEF x, f2, T, s
  <1>6. b \notin DOMAIN mem
    <2>1. b = Append(Top.at, x)  OBVIOUS
    <2>2. IsPart(b, Top.at) /\ Last(b) = x  BY <1>1, <1>4, <2>1, Child DEF IsPart
    <2> HIDE DEF b
    <2>3. QED  BY <1>1, <1>4, <2>2 DEF OwnOK
  <1> HIDE DEF b
  <1>7. f2 \in FrameSet /\ f2.state = "Value" /\ StepOpen(f2)[1] = "value"
    <2>1. StepOpen(f2) = x  BY <1>4 DEF Begins
    <2>2. QED  BY <2>1, <1>4, <1>5 DEF Begins, FrameOK
  <1>8. Pushed(stack, stack', f2, NewFrame(b))  BY <1>1, <1>2, <1>7, PushedIs
  <1>9. PICK d : d[Root] = said /\ TellsAll(type, FramesOf(stack, stored), d, StoredAt(stored), mem, 3 * sets)
    BY <1>0, InvTold
  <1> DEFINE q == stack
             q2 == stack'
             m2 == mem'
             w == 3 * sets
  <1>10. Making(type, q, stored, mem, x, b, f2, q2, m2) /\ TellsAll(type, FramesOf(q, stored), d, StoredAt(stored), mem, w)
    BY <1>1, <1>2, <1>4, <1>6, <1>8, <1>9 DEF Making
  <1>11. w \in Nat
    <2>1. sets \in Nat  BY DEF DescriptionInv
    <2>2. QED  BY <2>1
  <1>12. q[Len(q)].tracker = "Map" /\ q[Len(q)].state = "KeyDone"  BY <1>0, <1>1
  <1> HIDE DEF q, q2, m2, w
  <1>13. Told(type, q2, stored, m2, w, d[Root])  BY <1>7, <1>10, <1>11, <1>12, ValueTold
  <1>14. QED  BY <1>0, <1>9, <1>13 DEF ToldNext, q2, m2, w

\* A frame elsewhere than at b, where the memory changes at b and in it only.
LEMMA Elsewhere ==
    ASSUME NEW F, NEW m, Owned(F, m), NEW g \in F, NEW b \in PlacesOf(F), g.at # b, ~IsPart(g.at, b),
           NEW m2, \A a \in DOMAIN m : a # b /\ ~IsPart(a, b) => m2[a] = m[a]
    PROVE  m2[g.at] = m[g.at] /\ \A a \in FinishedParts(g) : m2[a] = m[a]
  <1>1. OwnOK(g, PlacesOf(F), m) /\ FrameOK(g) /\ g.at \in DOMAIN m  BY OwnedFacts
  <1>2. ASSUME NEW a \in FinishedParts(g) PROVE m2[a] = m[a]
    <2>1. a \in DOMAIN m /\ a \notin PlacesOf(F)  BY <1>1 DEF OwnOK
    <2>2. a \in Allocations(g)  BY DEF Allocations
    <2>3. IsPart(a, g.at)  BY <1>1, <2>2, AllocationsAreParts
    <2>4. a # b /\ ~IsPart(a, b)  BY <2>1, <2>3 DEF IsPart
    <2>5. QED  BY <2>1, <2>4
  <1>3. QED  BY <1>1, <1>2

\* The frame on top becomes f2, and is described by d2.
LEMMA TopTold ==
    ASSUME NEW t, NEW s, NEW st, NEW m, LiveOK(t, s, st, m), BuildingOK(s, st, m),
           NEW f, f = s[Len(s)], Bare(f, PlacesOf(FramesOf(s, st))),
           NEW f2, f2.at = f.at, NEW s2, Changed(s, s2, Len(s), f2),
           NEW m2, \A a \in DOMAIN m : a # f.at /\ ~IsPart(a, f.at) => m2[a] = m[a],
           NEW d, NEW w \in Nat, TellsAll(t, FramesOf(s, st), d, StoredAt(st), m, w), NEW w2 \in Nat, w <= w2,
           NEW d2, \A g \in FramesOf(s, st) : g # f => Tells(g, d2, StoredAt(st), m),
           Tells(f2, d2, StoredAt(st), m2), Grows(t, f2, m2, w2), New(f2, m2),
           \A g \in FramesOf(s, st) : g # f /\ Busy(g) /\ Open(g) = f.at => New(g, m2)
    PROVE  TellsAll(t, FramesOf(s2, st), d2, StoredAt(st), m2, w2)
  <1> DEFINE F == FramesOf(s, st)
             P == PlacesOf(F)
             S == StoredAt(st)
             b == f.at
  <1>1. /\ Placed(s, st) /\ Owned(F, m) /\ Len(s) \in Nat \ {0} /\ Len(s) \in 1..Len(s)
        /\ \A g \in F : FrameOK(g) /\ g.at \in Steps
        /\ f \in F /\ b \in P
    BY LiveFacts DEF PlacesOf
  <1>2. ASSUME NEW g \in F, g # f
        PROVE  Tells(g, d2, S, m2) /\ Grows(t, g, m2, w2) /\ New(g, m2)
    <2>1. g.at # b  BY <1>1, <1>2, OwnedFacts
    <2>2. ~IsPart(g.at, b)  BY DEF Bare, PlacesOf
    <2>3. m2[g.at] = m[g.at] /\ \A a \in FinishedParts(g) : m2[a] = m[a]
      <3> HIDE DEF F, b
      <3>1. \A a \in DOMAIN m : a # b /\ ~IsPart(a, b) => m2[a] = m[a]  BY DEF b
      <3>2. QED  BY <1>1, <2>1, <2>2, <3>1, Elsewhere
    <2>4. Tells(g, d2, S, m)  BY <1>2
    <2>5. SameFor(g, d2, S, m, d2, S, m2)  BY <2>3 DEF SameFor
    <2>6. Tells(g, d2, S, m2)  BY <1>1, <2>4, <2>5, TellsKept
    <2>7. Grows(t, g, m, w) /\ New(g, m)  BY ToldFacts
    <2>8. Grows(t, g, m2, w2)  BY <2>3, <2>7, StillGrows
    <2>9. ASSUME Busy(g), Open(g) # b PROVE m2[Open(g)] = m[Open(g)]
      <3>1. Open(g) \in P /\ Open(g) \in DOMAIN m  BY <2>9, OpenHasFrame
      <3>2. ~IsPart(Open(g), b)  BY <3>1 DEF Bare
      <3>3. QED  BY <3>1, <3>2, <2>9
    <2>10. New(g, m2)
      <3>1. CASE Busy(g) /\ Open(g) = b  BY <3>1, <1>2
      <3>2. CASE ~(Busy(g) /\ Open(g) = b)
        <4>1. Busy(g) => m2[Open(g)] = m[Open(g)]  BY <3>2, <2>9
        <4>2. QED  BY <2>3, <2>7, <4>1, StillNew
      <3>3. QED  BY <3>1, <3>2
    <2>11. QED  BY <2>6, <2>8, <2>10
  <1>3. ASSUME NEW g \in FramesOf(s2, st) PROVE g = f2 \/ (g \in F /\ g # f)
    <2>1. CASE \E p \in DOMAIN st : g = st[p]
      <3>1. PICK p \in DOMAIN st : g = st[p]  BY <2>1
      <3>2. g \in F  BY <3>1 DEF FramesOf
      <3>3. g.at # f.at  BY <1>1, <3>1 DEF Placed
      <3>4. QED  BY <3>2, <3>3
    <2>2. CASE \E i \in 1..Len(s2) : g = s2[i]
      <3>1. PICK i \in 1..Len(s2) : g = s2[i]  BY <2>2
      <3>2. i \in 1..Len(s) /\ g = IF i = Len(s) THEN f2 ELSE s[i]  BY <3>1 DEF Changed
      <3>3. CASE i = Len(s)  BY <3>2, <3>3
      <3>4. CASE i # Len(s)
        <4>1. g = s[i] /\ g \in F  BY <3>2, <3>4, <1>1, StackFacts
        <4>2. s[i].at # s[Len(s)].at  BY <1>1, <3>2, <3>4, StackFacts
        <4>3. QED  BY <4>1, <4>2
      <3>5. QED  BY <3>3, <3>4
    <2>3. QED  BY <2>1, <2>2 DEF FramesOf
  <1>4. QED  BY <1>2, <1>3 DEF TellsAll

-----------------------------------------------------------------------------
(* set, init_list, init_map, init_set *)

\* A set in a set of sets, or among the values of a map: what is in it are leaves.
LEMMA NestedSet ==
    ASSUME NEW t, NEW g, FrameOK(g), Tracked(t, g), g.tracker = "Set", g.at # Root,
           t[1] \in Kinds, t[2] \in Kinds
    PROVE  Len(g.at) = 1 /\ ~IsLeaf(g) /\ t[2] = "set" /\ g.isInit
  <1> DEFINE l == Len(g.at)
             j == l + 1
  <1>1. l \in 0..2 /\ g.at \in Steps  BY FrameFacts
  <1>2. ~IsLeaf(g) /\ g.isInit  BY DEF FrameOK
  <1>3. l # 2  BY <1>2 DEF IsLeaf
  <1>4. l # 0  BY <1>1, RootIs
  <1> HIDE DEF l
  <1>5. l = 1 /\ j = 2  BY <1>1, <1>3, <1>4
  <1>6. CollectionOf(t, g) = "Set"  BY DEF Tracked
  <1>7. t[2] # "list" /\ t[2] # "map"  BY <1>5, <1>6 DEF CollectionOf, l
  <1>8. QED  BY <1>2, <1>5, <1>7 DEF Kinds, l

LEMMA TypeIs == ASSUME CollectionsInv PROVE type[1] \in Kinds /\ type[2] \in Kinds
  <1>1. type \in Kinds \X Kinds  BY CollectionsAssumption DEF CollectionsInv
  <1>2. QED  BY <1>1

\* What a whole value has.
LEMMA WholeIs ==
    ASSUME NEW n \in 0..1, sets \in Nat
    PROVE  /\ IsLeaf(Top) => Whole(n) = 3 * sets + 1
           /\ ~IsLeaf(Top) /\ Len(Top.at) = 1 /\ type[2] = "set" =>
                ToSet(Whole(n)) \subseteq 0..3 * sets + 3
  <1> DEFINE w == 3 * sets
  <1>1. w \in Nat  OBVIOUS
  <1> HIDE DEF w
  <1>2. IsLeaf(Top) => Whole(n) = w + 1  BY DEF Whole, w
  <1>3. ASSUME ~IsLeaf(Top), Len(Top.at) = 1, type[2] = "set" PROVE ToSet(Whole(n)) \subseteq 0..w + 3
    <2>1. KindOf(Top) = "set"  BY <1>3 DEF KindOf
    <2>2. Unit(KindOf(Top), w + 1, w + 2) = <<w + 1>>  BY <2>1 DEF Unit
    <2>3. Whole(n) = IF n = 0 THEN << >> ELSE Unit(KindOf(Top), w + 1, w + 2)  BY <1>3 DEF Whole, w
    <2>4. w + 1 \in 0..w + 3  BY <1>1
    <2>5. ToSet(<<w + 1>>) \subseteq 0..w + 3 /\ ToSet(<< >>) \subseteq 0..w + 3  BY <2>4 DEF ToSet
    <2>6. QED  BY <2>2, <2>3, <2>5
  <1>4. QED  BY <1>2, <1>3 DEF w

\* What SetWhole leaves of the memory.
LEMMA SetWholeIs ==
    ASSUME CollectionsInv, NEW n \in 0..1, SetWhole(n)
    PROVE  /\ Active /\ Building /\ Bare(Top, PlacesOf(FramesOf(stack, stored)))
           /\ mem'[Top.at] = Some(Whole(n))
           /\ \A a \in DOMAIN mem : a # Top.at /\ ~IsPart(a, Top.at) => mem'[a] = mem[a]
           /\ Changed(stack, stack', Len(stack), [NewFrame(Top.at) EXCEPT !.isInit = TRUE])
           /\ \A a \in StoredAt(stored) : ~IsPart(a, Top.at)
  <1> DEFINE F == FramesOf(stack, stored)
             P == PlacesOf(F)
             f2 == [NewFrame(Top.at) EXCEPT !.isInit = TRUE]
             d == Deinit(Memory, Top)
             v == Whole(n)
  <1>0. Active /\ ~PartsStored  BY DEF SetWhole
  <1>1. /\ stack # << >> /\ Placed(stack, stored)
        /\ Len(stack) \in 1..Len(stack) /\ stack \in Seq(FrameSet)
        /\ Top = stack[Len(stack)] /\ Top.at \in Steps /\ Len(Top.at) <= 2
        /\ OwnOK(Top, P, mem) /\ Memory.at = mem /\ Memory.faults = {}
    BY <1>0, InMode, ActiveFacts
  <1>2. \A q \in DOMAIN stored : ~IsPart(stored[q].at, Top.at)  BY <1>0, Unstored
  <1>3. Bare(Top, P)  BY <1>1, <1>2, TopIsBare
  <1>4. FrameOK(f2)  BY <1>1, NewFrameIs
  <1>5. d.at = [a \in DOMAIN mem \ Allocations(Top) |-> IF a = Top.at THEN None ELSE mem[a]]
    <2> DEFINE m == Memory
               f == Top
    <2>1. m.at = mem /\ m.faults = {} /\ OwnOK(f, P, m.at) /\ Bare(f, P)  BY <1>1, <1>3
    <2> HIDE DEF m, f, P
    <2>2. /\ Deinit(m, f).at = [a \in DOMAIN m.at \ Allocations(f) |-> IF a = f.at THEN None ELSE m.at[a]]
          /\ Deinit(m, f).faults = {}
      BY <2>1, DeinitIs
    <2>3. QED  BY <2>1, <2>2 DEF m, f
  <1> HIDE DEF d
  <1>6. /\ Top.at \in DOMAIN mem /\ Top.at \notin Allocations(Top)
        /\ \A a \in Allocations(Top) : IsPart(a, Top.at)
    BY <1>1, <1>3, BareFacts
  <1>7. mem' = [d.at EXCEPT ![Top.at] = Some(v)]
    <2>1. mem' = Put(d, Top.at, v).at  BY DEF SetWhole, MemoryIs, d
    <2> HIDE DEF v
    <2>2. QED  BY <2>1 DEF Put
  <1>8. mem'[Top.at] = Some(v) /\ \A a \in DOMAIN mem : a # Top.at /\ ~IsPart(a, Top.at) => mem'[a] = mem[a]
    <2> HIDE DEF v
    <2>1. QED  BY <1>5, <1>6, <1>7
  <1>9. Changed(stack, stack', Len(stack), f2)
    <2>1. stack' = [stack EXCEPT ![Len(stack)] = f2]  BY DEF SetWhole, SetTop
    <2> HIDE DEF f2
    <2>2. f2 \in FrameSet  BY <1>4 DEF FrameOK
    <2>3. Changed(stack, [stack EXCEPT ![Len(stack)] = f2], Len(stack), f2)  BY <1>1, <2>2, ChangedIs
    <2>4. QED  BY <2>1, <2>3
  <1>10. \A a \in StoredAt(stored) : ~IsPart(a, Top.at)  BY <1>2 DEF StoredAt
  <1>11. QED  BY <1>0, <1>3, <1>8, <1>9, <1>10 DEF Building, Active

\* The value v is written to the place on top.
LEMMA WrittenTold ==
    ASSUME NEW t, NEW s, NEW st, NEW m, LiveOK(t, s, st, m), BuildingOK(s, st, m),
           NEW f, f = s[Len(s)], Bare(f, PlacesOf(FramesOf(s, st))),
           NEW f2, f2.at = f.at, f2.tracker = "Scalar", f2.isInit, f2.state = "Idle",
           NEW s2, Changed(s, s2, Len(s), f2),
           NEW m2, \A a \in DOMAIN m : a # f.at /\ ~IsPart(a, f.at) => m2[a] = m[a],
           \A a \in StoredAt(st) : ~IsPart(a, f.at),
           NEW d, NEW w \in Nat, TellsAll(t, FramesOf(s, st), d, StoredAt(st), m, w), NEW w2 \in Nat, w <= w2,
           NEW v, m2[f.at] = Some(v), Grows(t, f2, m2, w2),
           \A g \in FramesOf(s, st) : g # f /\ Busy(g) /\ Open(g) = f.at => New(g, m2)
    PROVE  Told(t, s2, st, m2, w2, Anew(d[Root], f.at, v))
  <1> DEFINE F == FramesOf(s, st)
             S == StoredAt(st)
  <1>1. /\ Placed(s, st) /\ s # << >> /\ f \in F /\ FrameOK(f) /\ f.at \in Steps
        /\ \A i \in 1..Len(s) : s[i] \in F
    BY LiveFacts
  <1>2. PICK d2 : Upward(s, d, d2, v)  BY <1>1, UpwardIs
  <1>3. \A g \in F : Tells(g, d, S, m)  BY ToldFacts
  <1>4. d2[Root] = Anew(d[Root], f.at, v)
    <2>1. d2[Root] = Anew(d[Root], s[Len(s)].at, v)  BY <1>1, <1>2, <1>3, UpwardRoot
    <2>2. QED  BY <2>1
  <1>5. \A g \in F : g # f => Tells(g, d2, S, m)  BY <1>2, <1>3, UpwardTells
  <1>6. d2[f.at] = v  BY <1>2 DEF Upward
  <1>7. Tells(f2, d2, S, m2)
    <2>1. ScalarTells(f2, d2[f2.at], m2)
      <3>1. Some(v)[1] = v  BY DEF Some
      <3>2. QED  BY <3>1, <1>6 DEF ScalarTells
    <2>2. \A x \in StepSet : Append(f2.at, x) \notin S
      <3>1. \A x \in StepSet : IsPart(Append(f.at, x), f.at)  BY <1>1, Child DEF IsPart
      <3>2. QED  BY <3>1
    <2>3. ~Busy(f2)  BY DEF Busy
    <2>4. QED  BY <2>1, <2>2, <2>3 DEF Tells
  <1>8. New(f2, m2)  BY DEF New
  <1>9. TellsAll(t, FramesOf(s2, st), d2, S, m2, w2)
    <2>1. \A g \in FramesOf(s, st) : g # f => Tells(g, d2, StoredAt(st), m)  BY <1>5
    <2>2. Tells(f2, d2, StoredAt(st), m2)  BY <1>7
    <2>3. QED  BY <2>1, <2>2, <1>8, TopTold
  <1>10. QED  BY <1>4, <1>9 DEF Told

\* set and its kin: the value written is described of the place on top.
LEMMA SetWholeTold ==
    ASSUME CollectionsInv, DescriptionInv, NEW n \in 0..1, SetWhole(n)
    PROVE  ToldNext
  <1> DEFINE f == Top
             f2 == [NewFrame(Top.at) EXCEPT !.isInit = TRUE]
             v == Whole(n)
             m == mem
             m2 == mem'
             s == stack
             s2 == stack'
             F == FramesOf(s, stored)
             w == 3 * sets
             w2 == w + 3
  <1>1. /\ Building /\ Bare(f, PlacesOf(F))
        /\ m2[f.at] = Some(v)
        /\ \A a \in DOMAIN m : a # f.at /\ ~IsPart(a, f.at) => m2[a] = m[a]
        /\ Changed(s, s2, Len(s), f2)
        /\ \A a \in StoredAt(stored) : ~IsPart(a, f.at)
    BY SetWholeIs
  <1>2. LiveOK(type, s, stored, m) /\ BuildingOK(s, stored, m) /\ f = s[Len(s)] /\ f.at \in Steps /\ Len(f.at) <= 2
    BY <1>1, ActiveFacts
  <1>3. f2.at = f.at /\ f2.tracker = "Scalar" /\ f2.isInit /\ f2.state = "Idle"
    BY <1>2, NewFrameIs
  <1>4. PICK d : d[Root] = said /\ TellsAll(type, F, d, StoredAt(stored), m, w)  BY <1>1, InvTold
  <1>5. sets \in Nat  BY DEF DescriptionInv
  <1>6. w \in Nat /\ w2 \in Nat /\ w <= w2 /\ 3 * sets' = w2 /\ w + 1 \in 0..w2
    <2>1. sets' = sets + 1  BY DEF SetWhole
    <2>2. QED  BY <1>5, <2>1
  <1>7. /\ IsLeaf(f) => v = w + 1
        /\ ~IsLeaf(f) /\ Len(f.at) = 1 /\ type[2] = "set" => ToSet(v) \subseteq 0..w2
    BY <1>5, WholeIs
  <1>8. said' = Anew(d[Root], f.at, v) /\ UNCHANGED <<type, stored>>
    <2>1. SayHere(v) /\ UNCHANGED <<type, stored>>  BY DEF SetWhole
    <2> HIDE DEF v
    <2>2. QED  BY <2>1, <1>4, SayHereIs
  <1> HIDE DEF f, f2, v, m, m2, s, s2, w, w2
  <1>9. Some(v)[1] = v /\ Some(v) # None  BY DEF Some, None
  <1>10. Grows(type, f2, m2, w2)
    <2>1. IsLeaf(f2) <=> IsLeaf(f)  BY <1>3 DEF IsLeaf
    <2>2. IsLeaf(f) => v \in 0..w2  BY <1>6, <1>7
    <2>3. m2[f2.at][1] = v  BY <1>1, <1>3, <1>9
    <2>4. QED  BY <2>1, <2>2, <2>3, <1>3, <1>7 DEF Grows
  <1>11. ASSUME NEW g \in F, g # f, Busy(g), Open(g) = f.at PROVE New(g, m2)
    <2> SUFFICES ASSUME g.tracker = "Set", g.at # Root PROVE m2[f.at][1] \notin ToSet(m2[g.at][1])
      BY <1>11 DEF New
    <2>1. FrameOK(g) /\ Tracked(type, g) /\ Owned(F, m) /\ f \in F  BY <1>2, LiveFacts
    <2>2. Len(g.at) = 1 /\ ~IsLeaf(g) /\ type[2] = "set" /\ g.isInit  BY <2>1, TypeIs, NestedSet
    <2>3. Grows(type, g, m, w)  BY <1>4, ToldFacts
    <2>4. ToSet(m[g.at][1]) \subseteq 0..w  BY <2>2, <2>3 DEF Grows
    <2>5. g.at # f.at /\ g.at \in DOMAIN m  BY <2>1, <1>11, OwnedFacts
    <2>6. ~IsPart(g.at, f.at)  BY <1>1 DEF Bare, PlacesOf
    <2>7. m2[g.at] = m[g.at]  BY <1>1, <2>5, <2>6
    <2>8. IsLeaf(f)
      <3>1. StepOpen(g) = Element /\ Element \in StepSet  BY DEF StepOpen, Element, StepSet
      <3>2. f.at = Append(g.at, Element) /\ g.at \in Steps  BY <1>11, <2>1, <3>1, FrameFacts DEF Open
      <3>3. Len(f.at) = Len(g.at) + 1  BY <3>1, <3>2, Child
      <3>4. QED  BY <2>2, <3>3 DEF IsLeaf
    <2>9. v \notin 0..w  BY <1>6, <1>7, <2>8
    <2>10. QED  BY <1>1, <1>9, <2>4, <2>7, <2>9
  <1>12. Told(type, s2, stored, m2, w2, Anew(d[Root], f.at, v))
    BY <1>1, <1>2, <1>3, <1>4, <1>6, <1>10, <1>11, WrittenTold
  <1>13. QED  BY <1>6, <1>8, <1>12 DEF ToldNext, s2, m2

\* A description that says no more than a collection holds.
SaysIt(g, v, c) == v = c \/ (g.at = Root /\ g.tracker = "Set" /\ IsSeq(v) /\ ToSet(v) = ToSet(c))

LEMMA ToSetIs == ASSUME NEW v, IsSeq(v) PROVE {v[i] : i \in 1..Len(v)} = ToSet(v)
  BY SeqFacts DEF ToSet

LEMMA LongerBy0 == ASSUME NEW v, IsSeq(v) PROVE Longer(v, v, 0)
  BY SeqFacts DEF Longer

LEMMA PlainTells ==
    ASSUME NEW g, FrameOK(g), g.tracker # "Scalar", g.state = "Idle", g.rope = None, g.pending = << >>,
           NEW S, \A a \in S : ~IsPart(a, g.at), NEW d, NEW m, IsSeq(m[g.at][1]),
           SaysIt(g, d[g.at], m[g.at][1])
    PROVE  Tells(g, d, S, m)
  <1> DEFINE v == d[g.at]
             c == m[g.at][1]
  <1>1. v = c \/ (g.at = Root /\ g.tracker = "Set" /\ IsSeq(v) /\ ToSet(v) = ToSet(c))  BY DEF SaysIt
  <1>2. IsSeq(v) /\ IsSeq(c)  BY <1>1
  <1>3. RopeLen(g) = 0 /\ Marked(g) = 0 /\ Len(g.pending) = 0 /\ g.at \in Steps
    BY FrameFacts, EmptySeq DEF RopeLen, Marked
  <1> HIDE DEF v, c
  <1>4. ASSUME g.tracker = "List" PROVE ListTells(g, v, c, m)
    <2>1. Longer(v, c, 0)  BY <1>1, <1>2, <1>4, LongerBy0
    <2>2. 0..Marked(g) - 1 = {}  BY <1>3
    <2>3. QED  BY <1>3, <2>1, <2>2 DEF ListTells
  <1>5. ASSUME g.tracker = "Map" PROVE MapTells(g, v, c, S, m)
    <2>1. ~Waits(g)  BY DEF Waits
    <2>2. MapOK(g, S)  BY <1>3, <2>1, NoEntries
    <2>3. PICK n \in Nat : MapIs(g, S, n)  BY <1>5, <2>2 DEF MapOK
    <2>4. n = 0  BY <1>3, <2>3, AllGiven
    <2>5. Longer(v, c, 0) /\ v = c  BY <1>1, <1>2, <1>5, LongerBy0
    <2>6. Entries(g, n) = 0  BY <2>4 DEF Entries
    <2>7. Len(c) + 1..Len(v) = {}
      <3>1. Len(c) \in Nat /\ v = c  BY <2>5 DEF Longer
      <3>2. QED  BY <3>1
    <2>8. 1..Len(g.pending) = {}  BY <1>3
    <2>9. QED  BY <2>3, <2>5, <2>6, <2>7, <2>8 DEF MapTells
  <1>6. ASSUME g.tracker = "Set" PROVE SetTells(g, v, c)
    <2>1. v = c => Longer(v, c, 0)  BY <1>2, LongerBy0
    <2>2. ToSet(v) = ToSet(c)  BY <1>1
    <2>3. Len(v) \in Nat /\ Len(v) >= 0 /\ Len(v) - 0 = Len(v)  BY <1>2, SeqFacts
    <2>4. {v[i] : i \in 1..Len(v) - 0} = ToSet(c)  BY <1>2, <2>2, <2>3, ToSetIs
    <2>5. g.at # Root => Longer(v, c, 0)  BY <1>1, <2>1
    <2>6. QED  BY <2>3, <2>4, <2>5 DEF SetTells
  <1>7. \A x \in StepSet : Append(g.at, x) \notin S
    <2>1. \A x \in StepSet : IsPart(Append(g.at, x), g.at)  BY <1>3, Child DEF IsPart
    <2>2. QED  BY <2>1
  <1>8. ~Busy(g)  BY DEF Busy
  <1>9. v = d[g.at] /\ c = m[g.at][1]  BY DEF v, c
  <1>10. QED  BY <1>2, <1>4, <1>5, <1>6, <1>7, <1>8, <1>9 DEF Tells

\* What a nested set has is a leaf.
LEMMA LeafInNested ==
    ASSUME NEW t, NEW g, FrameOK(g), Tracked(t, g), g.tracker = "Set", g.at # Root,
           t[1] \in Kinds, t[2] \in Kinds, NEW f, f.at = Open(g)
    PROVE  IsLeaf(f)
  <1>1. Len(g.at) = 1  BY NestedSet
  <1>2. StepOpen(g) = Element /\ Element \in StepSet  BY DEF StepOpen, Element, StepSet
  <1>3. f.at = Append(g.at, Element) /\ g.at \in Steps  BY <1>2, FrameFacts DEF Open
  <1>4. Len(f.at) = Len(g.at) + 1  BY <1>2, <1>3, Child
  <1>5. QED  BY <1>1, <1>4 DEF IsLeaf

LEMMA NilIs == Some(<< >>)[1] = << >> /\ IsSeq(<< >>) /\ ToSet(<< >>) = {}
  <1>1. Some(<< >>)[1] = << >>  BY DEF Some
  <1>2. IsSeq(<< >>)  BY SeqIs, EmptySeq
  <1>3. DOMAIN << >> = {}  OBVIOUS
  <1>4. ToSet(<< >>) = {}  BY <1>3 DEF ToSet
  <1>5. QED  BY <1>1, <1>2, <1>4

LEMMA InitTells ==
    ASSUME NEW t, NEW s, NEW st, NEW m, LiveOK(t, s, st, m), BuildingOK(s, st, m),
           t[1] \in Kinds, t[2] \in Kinds,
           NEW f, f = s[Len(s)], f.tracker = "Scalar", ~IsLeaf(f), \A a \in DOMAIN m : ~IsPart(a, f.at),
           NEW f2, FrameOK(f2), f2.at = f.at, f2.tracker # "Scalar", f2.isInit, f2.state = "Idle",
           f2.rope = None, f2.pending = << >>,
           NEW s2, Changed(s, s2, Len(s), f2),
           NEW m2, \A a \in DOMAIN m : a # f.at => m2[a] = m[a],
           m2[f.at] = IF f.isInit THEN m[f.at] ELSE Some(<< >>),
           NEW d, NEW w \in Nat, TellsAll(t, FramesOf(s, st), d, StoredAt(st), m, w)
    PROVE  TellsAll(t, FramesOf(s2, st), d, StoredAt(st), m2, w)
  <1> DEFINE F == FramesOf(s, st)
             S == StoredAt(st)
  <1>1. f \in F /\ FrameOK(f) /\ f.at \in Steps /\ Owned(F, m)  BY LiveFacts
  <1>2. Tells(f, d, S, m) /\ Grows(t, f, m, w)  BY <1>1, ToldFacts
  <1>3. Some(<< >>)[1] = << >> /\ IsSeq(<< >>) /\ ToSet(<< >>) = {}
    BY NilIs
  <1>4. d[f.at] = m2[f.at][1]
    <2>1. ScalarTells(f, d[f.at], m)  BY <1>2 DEF Tells
    <2>2. QED  BY <1>3, <2>1 DEF ScalarTells
  <1>5. IsSeq(m2[f.at][1])
    <2>1. f.isInit => IsSeq(m[f.at][1])
      <3>1. ValueOK(f, m)  BY <1>1 DEF BuildingOK, Sound
      <3>2. QED  BY <3>1 DEF ValueOK
    <2>2. QED  BY <1>3, <2>1
  <1>6. \A g \in F : ~IsPart(g.at, f.at)
    <2>1. \A g \in F : g.at \in DOMAIN m  BY <1>1, OwnedFacts
    <2>2. QED  BY <2>1
  <1>7. Bare(f, PlacesOf(F)) /\ \A a \in S : ~IsPart(a, f.at)
    <2>1. \A p \in DOMAIN st : st[p] \in F  BY DEF FramesOf
    <2>2. QED  BY <2>1, <1>6 DEF Bare, PlacesOf, StoredAt
  <1>8. Tells(f2, d, S, m2)
    <2>1. SaysIt(f2, d[f2.at], m2[f2.at][1])  BY <1>4 DEF SaysIt
    <2>2. QED  BY <2>1, <1>5, <1>7, PlainTells
  <1>9. Grows(t, f2, m2, w)
    <2>1. IsLeaf(f2) <=> IsLeaf(f)  BY DEF IsLeaf
    <2>2. CASE f.isInit
      <3>1. m2[f.at] = m[f.at]  BY <2>2
      <3>2. QED  BY <1>2, <2>1, <2>2, <3>1 DEF Grows
    <2>3. CASE ~f.isInit
      <3>1. ToSet(m2[f2.at][1]) = {}  BY <1>3, <2>3
      <3>2. QED  BY <2>1, <3>1 DEF Grows
    <2>4. QED  BY <2>2, <2>3
  <1>10. New(f2, m2)  BY DEF New, Busy
  <1>11. ASSUME NEW g \in F, g # f, Busy(g), Open(g) = f.at PROVE New(g, m2)
    <2>1. FrameOK(g) /\ Tracked(t, g)  BY LiveFacts
    <2>2. ~(g.tracker = "Set" /\ g.at # Root)  BY <1>11, <2>1, LeafInNested
    <2>3. QED  BY <2>2 DEF New
  <1>12. \A g \in F : g # f => Tells(g, d, S, m)  BY ToldFacts
  <1>13. w <= w  OBVIOUS
  <1>14. QED  BY <1>7, <1>8, <1>9, <1>10, <1>11, <1>12, <1>13, TopTold

\* init_list, init_map and init_set: what is kept stays described.
LEMMA InitCollectionTold ==
    ASSUME CollectionsInv, DescriptionInv, InitCollection
    PROVE  ToldNext
  <1> DEFINE F == FramesOf(stack, stored)
             P == PlacesOf(F)
             f2 == [Top EXCEPT !.tracker = Collection(Top), !.isInit = TRUE]
  <1>0. Active /\ Building /\ ~IsLeaf(Top) /\ Top.tracker = "Scalar" /\ UNCHANGED <<type, stored, sets, said>>
    BY DEF InitCollection, Building, Active
  <1>1. /\ LiveOK(type, stack, stored, mem) /\ BuildingOK(stack, stored, mem)
        /\ Len(stack) \in 1..Len(stack) /\ stack \in Seq(FrameSet)
        /\ Top = stack[Len(stack)] /\ Top.at \in Steps /\ FrameOK(Top)
        /\ OwnOK(Top, P, mem) /\ Memory.at = mem /\ Memory.faults = {}
    BY <1>0, ActiveFacts
  <1>2. \A a \in DOMAIN mem : ~IsPart(a, Top.at)  BY <1>0, <1>1, NoElements DEF OwnOK
  <1>3. Collection(Top) \in {"List", "Map", "Set"}  BY CollectionIs
  <1>4. /\ FrameOK(f2) /\ f2.at = Top.at /\ f2.tracker # "Scalar" /\ f2.isInit
        /\ f2.state = "Idle" /\ f2.rope = None /\ f2.pending = << >>
    <2> DEFINE k == Collection(Top)
               f == Top
    <2>1. k \in {"List", "Map", "Set"} /\ FrameOK(f) /\ ~IsLeaf(f) /\ f.tracker = "Scalar"  BY <1>0, <1>1, <1>3
    <2> HIDE DEF k, f
    <2>2. LET g == [f EXCEPT !.tracker = k, !.isInit = TRUE] IN
             /\ FrameOK(g)
             /\ g.at = f.at /\ g.tracker = k /\ g.isInit = TRUE
             /\ g.state = "Idle" /\ g.cur = None /\ g.rope = None /\ g.pending = << >>
      BY <2>1, InitIs, Zenon
    <2>3. k # "Scalar"  BY <2>1
    <2>4. QED  BY <2>2, <2>3 DEF k, f
  <1>5. Changed(stack, stack', Len(stack), f2)
    <2>1. stack' = [stack EXCEPT ![Len(stack)] = f2]  BY DEF InitCollection, SetTop
    <2> HIDE DEF f2
    <2>2. f2 \in FrameSet  BY <1>4 DEF FrameOK
    <2>3. Changed(stack, [stack EXCEPT ![Len(stack)] = f2], Len(stack), f2)  BY <1>1, <2>2, ChangedIs
    <2>4. QED  BY <2>1, <2>3
  <1> HIDE DEF f2
  <1>6. Top.at \in DOMAIN mem /\ (Top.isInit <=> mem[Top.at] # None)  BY <1>1 DEF OwnOK
  <1>7. /\ mem'[Top.at] = IF Top.isInit THEN mem[Top.at] ELSE Some(<< >>)
        /\ \A a \in DOMAIN mem : a # Top.at => mem'[a] = mem[a]
    <2>1. CASE Top.isInit
      <3>1. mem' = mem  BY <1>1, <2>1 DEF InitCollection, MemoryIs
      <3>2. QED  BY <2>1, <3>1
    <2>2. CASE ~Top.isInit
      <3>1. Put(Memory, Top.at, << >>).at = [mem EXCEPT ![Top.at] = Some(<< >>)]  BY <1>1, <1>6, <2>2, PutIs
      <3>2. mem' = [mem EXCEPT ![Top.at] = Some(<< >>)]  BY <2>2, <3>1 DEF InitCollection, MemoryIs
      <3>3. QED  BY <1>6, <2>2, <3>2
    <2>3. QED  BY <2>1, <2>2
  <1>8. PICK d : d[Root] = said /\ TellsAll(type, F, d, StoredAt(stored), mem, 3 * sets)  BY <1>0, InvTold
  <1>9. type[1] \in Kinds /\ type[2] \in Kinds  BY TypeIs
  <1> DEFINE m == mem
             m2 == mem'
             s == stack
             s2 == stack'
             f == Top
             w == 3 * sets
  <1>10. w \in Nat
    <2>1. sets \in Nat  BY DEF DescriptionInv
    <2>2. QED  BY <2>1
  <1>11. /\ LiveOK(type, s, stored, m) /\ BuildingOK(s, stored, m)
         /\ f = s[Len(s)] /\ f.tracker = "Scalar" /\ ~IsLeaf(f) /\ \A a \in DOMAIN m : ~IsPart(a, f.at)
         /\ f2.at = f.at /\ Changed(s, s2, Len(s), f2)
         /\ (\A a \in DOMAIN m : a # f.at => m2[a] = m[a])
         /\ m2[f.at] = IF f.isInit THEN m[f.at] ELSE Some(<< >>)
         /\ TellsAll(type, FramesOf(s, stored), d, StoredAt(stored), m, w)
    BY <1>0, <1>1, <1>2, <1>4, <1>5, <1>7, <1>8
  <1> HIDE DEF m, m2, s, s2, f, w
  <1>12. TellsAll(type, FramesOf(s2, stored), d, StoredAt(stored), m2, w)
    BY <1>4, <1>9, <1>10, <1>11, InitTells
  <1>13. Told(type, s2, stored, m2, w, d[Root])  BY <1>12 DEF Told
  <1>14. QED  BY <1>0, <1>8, <1>13 DEF ToldNext, m2, s2, w

=============================================================================
