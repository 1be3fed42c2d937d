---------------------------- MODULE Built_proofs ----------------------------
(***************************************************************************)
(* That build() hands over the value the caller described, second part:    *)
(* the calls that end an element, the walk of finish_deferred, and build   *)
(* itself keep to the description, and so do all steps.                    *)
(*                                                                         *)
(* An element that goes over to its collection does so as the next one the *)
(* collection counts (Passes); completing a collection then makes of it    *)
(* what was described (FinishSays).                                        *)
(***************************************************************************)
EXTENDS Description_proofs

-----------------------------------------------------------------------------
(* A collection is completed *)

\* Two sequences that are alike at every index.
LEMMA SameSeq ==
    ASSUME NEW v, NEW u, IsSeq(v), IsSeq(u), Len(v) = Len(u), \A i \in 1..Len(v) : v[i] = u[i]
    PROVE  v = u
  <1> DEFINE S == {v[i] : i \in DOMAIN v} \cup {u[i] : i \in DOMAIN u}
  <1>1. v \in Seq(S) /\ u \in Seq(S)  BY SeqMonotonic DEF IsSeq
  <1> HIDE DEF S
  <1>2. QED  BY <1>1, SeqEqual

\* A description that is longer by what is added is what becomes of the value.
LEMMA Extended ==
    ASSUME NEW v, NEW c, NEW e, IsSeq(v), IsSeq(c), IsSeq(e), Longer(v, c, Len(e)),
           \A k \in 1..Len(e) : v[Len(c) + k] = e[k]
    PROVE  v = c \o e
  <1> DEFINE S == {c[i] : i \in DOMAIN c} \cup {e[i] : i \in DOMAIN e}
             u == c \o e
             l == Len(c)
             n == Len(e)
             L == Len(v)
  <1>1. c \in Seq(S) /\ e \in Seq(S)  BY SeqMonotonic DEF IsSeq
  <1> HIDE DEF S
  <1>2. /\ u \in Seq(S) /\ Len(u) = l + n
        /\ \A i \in 1..l + n : u[i] = IF i <= l THEN c[i] ELSE e[i - l]
    BY <1>1, ConcatProperties
  <1>3. IsSeq(u)  BY <1>2, SeqIs
  <1>4. l \in Nat /\ n \in Nat /\ L \in Nat /\ L = l + n /\ \A i \in 1..l : v[i] = c[i]
    BY <1>1 DEF Longer
  <1>5. \A k \in 1..n : v[l + k] = e[k]  OBVIOUS
  <1> HIDE DEF u, l, n, L
  <1>6. ASSUME NEW i \in 1..L PROVE v[i] = u[i]
    <2>1. CASE i <= l
      <3>1. i \in 1..l /\ i \in 1..l + n  BY <1>4, <2>1
      <3>2. QED  BY <1>2, <1>4, <2>1, <3>1
    <2>2. CASE ~(i <= l)
      <3>1. i - l \in 1..n /\ i \in 1..l + n /\ l + (i - l) = i  BY <1>4, <2>2
      <3>2. v[l + (i - l)] = e[i - l]  BY <1>5, <3>1
      <3>3. QED  BY <1>2, <2>2, <3>1, <3>2
    <2>3. QED  BY <2>1, <2>2
  <1>7. Len(v) = Len(u) /\ \A i \in 1..Len(v) : v[i] = u[i]  BY <1>2, <1>4, <1>6 DEF L
  <1>8. v = u  BY <1>3, <1>7, SameSeq
  <1>9. QED  BY <1>8 DEF u

\* What completing a collection writes to its place.
LEMMA FinishedValue ==
    ASSUME NEW f, NEW P, NEW m, m.faults = {}, OwnOK(f, P, m.at), Bare(f, P), f.tracker # "Scalar",
           \A i \in 1..Len(f.pending) : f.pending[i].value # None
    PROVE  Finish(m, f).at[f.at] = Some(m.at[f.at][1] \o ElementsOf(m, f))
  <1> DEFINE e == Freed(Taken(m, FinishedParts(f)), Allocations(f))
             v == Some(m.at[f.at][1] \o ElementsOf(m, f))
  <1>0. FrameOK(f)  BY DEF OwnOK
  <1>1. e.at = Emptied(m.at, f)  BY EmptiedIs
  <1>2. \A a \in FinishedParts(f) : Holds(m, a)  BY BareFacts DEF Holds
  <1>3. ~\E d \in ToSet(f.pending) : d.value = None
    <2>1. DOMAIN f.pending = 1..Len(f.pending)  BY <1>0, FrameFacts
    <2>2. QED  BY <2>1 DEF ToSet
  <1>4. Finish(m, f) = [e EXCEPT !.at[f.at] = v]  BY <1>2, <1>3 DEF Finish, Drain
  <1>5. e = [at |-> e.at, faults |-> e.faults]  BY DEF Freed
  <1>6. f.at \in DOMAIN Emptied(m.at, f)  BY BareFacts
  <1> HIDE DEF e, v
  <1>7. Finish(m, f).at = [e.at EXCEPT ![f.at] = v]  BY <1>4, <1>5
  <1>8. Finish(m, f).at[f.at] = v  BY <1>1, <1>6, <1>7
  <1>9. QED  BY <1>8 DEF v

\* Every slot of the rope holds a finished element.
LEMMA AllMarkedAre ==
    ASSUME NEW f, FrameOK(f), NEW P, ListOK(f, P), Bare(f, P)
    PROVE  Marked(f) = RopeLen(f)
  <1>1. RopeLen(f) \in Nat /\ Marked(f) \in Nat /\ Marked(f) <= RopeLen(f) /\ f.at \in Steps  BY FrameFacts
  <1> SUFFICES ASSUME Marked(f) # RopeLen(f) PROVE FALSE
    OBVIOUS
  <1> DEFINE r == RopeLen(f)
             k == Marked(f)
             a == Part(f, "item", k)
  <1>2. k \in Nat /\ k < r  BY <1>1
  <1>3. a \in Slots(f, r)  BY <1>1, <1>2, SlotsAre
  <1>4. a \notin Slots(f, k)
    <2>1. SUFFICES ASSUME NEW j \in Nat, j < k, a = Part(f, "item", j) PROVE FALSE
      BY <1>1, SlotsAre
    <2>2. Last(a) = <<"item", k>> /\ Last(a) = <<"item", j>>  BY <1>1, <2>1, PartFacts
    <2>3. j = k  BY <2>2
    <2>4. QED  BY <2>1, <2>3, <1>1
  <1>5. a \in P  BY <1>3, <1>4 DEF ListOK
  <1>6. IsPart(a, f.at)  BY <1>1, PartFacts
  <1>7. QED  BY <1>5, <1>6 DEF Bare

\* The length of a sequence, from its indices.
LEMMA LenIs ==
    ASSUME NEW v, IsSeq(v), NEW n \in Nat, DOMAIN v = 1..n
    PROVE  Len(v) = n
  <1>1. Len(v) \in Nat /\ DOMAIN v = 1..Len(v)  BY SeqFacts
  <1> DEFINE l == Len(v)
  <1>2. l \in Nat /\ 1..l = 1..n  BY <1>1
  <1> HIDE DEF l
  <1>3. ASSUME l < n PROVE FALSE
    <2>1. n \in 1..n /\ n \notin 1..l  BY <1>2, <1>3
    <2>2. QED  BY <1>2, <2>1
  <1>4. ASSUME n < l PROVE FALSE
    <2>1. l \in 1..l /\ l \notin 1..n  BY <1>2, <1>4
    <2>2. QED  BY <1>2, <2>1
  <1>5. l = n  BY <1>2, <1>3, <1>4
  <1>6. QED  BY <1>5 DEF l

\* All slots of a rope are moved to the Vec in the order they were described.
LEMMA ListSays ==
    ASSUME NEW f, FrameOK(f), f.tracker = "List", NEW P, ListOK(f, P), Bare(f, P),
           NEW m, NEW v, NEW c, IsSeq(v), IsSeq(c), ListTells(f, v, c, m.at)
    PROVE  v = c \o ElementsOf(m, f)
  <1> DEFINE e == ElementsOf(m, f)
             n == Marked(f)
             l == Len(c)
  <1>1. n \in Nat /\ n = RopeLen(f)  BY FrameFacts, AllMarkedAre
  <1>2. e = [k \in 1..n |-> m.at[Append(f.at, <<"item", k - 1>>)][1]]  BY DEF ElementsOf
  <1>3. IsSeq(e)  BY ElementsAreSeq
  <1>4. DOMAIN e = 1..n  BY <1>2
  <1>5. \A k \in 1..n : e[k] = m.at[Append(f.at, <<"item", k - 1>>)][1]  BY <1>2
  <1>6. l \in Nat  BY SeqFacts
  <1>7. \A k \in 0..n - 1 : m.at[Part(f, "item", k)][1] = v[l + k + 1]  BY DEF ListTells
  <1>8. Longer(v, c, n)  BY <1>1 DEF ListTells
  <1> HIDE DEF e, n, l
  <1>9. Len(e) = n  BY <1>1, <1>3, <1>4, LenIs
  <1>10. ASSUME NEW k \in 1..n PROVE v[l + k] = e[k]
    <2>1. k - 1 \in 0..n - 1 /\ l + (k - 1) + 1 = l + k  BY <1>1, <1>6
    <2>2. m.at[Part(f, "item", k - 1)][1] = v[l + k]  BY <1>7, <2>1
    <2>3. QED  BY <1>5, <2>2 DEF Part
  <1>11. Longer(v, c, Len(e)) /\ \A k \in 1..Len(e) : v[Len(c) + k] = e[k]  BY <1>8, <1>9, <1>10 DEF l
  <1>12. v = c \o e  BY <1>3, <1>11, Extended
  <1>13. QED  BY <1>12 DEF e

LEMMA PairOf == ASSUME NEW a, NEW b, NEW x, x = <<x[1], x[2]>>, x[1] = a, x[2] = b PROVE x = <<a, b>>
  OBVIOUS

\* All pending entries are moved to the map in the order they were described.
LEMMA MapSays ==
    ASSUME NEW f, FrameOK(f), f.tracker = "Map", f.state = "Idle", NEW S, \A a \in S : ~IsPart(a, f.at),
           NEW m, NEW v, NEW c, IsSeq(v), IsSeq(c), MapTells(f, v, c, S, m.at)
    PROVE  /\ v = c \o ElementsOf(m, f)
           /\ \A i \in 1..Len(f.pending) : f.pending[i].value # None
  <1> DEFINE e == ElementsOf(m, f)
             p == Len(f.pending)
             l == Len(c)
             L == Len(v)
  <1>1. PICK n \in Nat :
            /\ MapIs(f, S, n)
            /\ Longer(v, c, Entries(f, n))
            /\ \A j \in Len(c) + 1..Len(v) : v[j] = <<v[j][1], v[j][2]>>
            /\ \A i \in 1..Len(f.pending) : EntryTells(f.pending[i], v[Len(c) + i], m.at)
    BY DEF MapTells
  <1>2. ~Waits(f)  BY DEF Waits
  <1>3. n = p /\ \A i \in 1..p : f.pending[i].value # None  BY <1>1, <1>2, AllGiven
  <1>4. Entries(f, n) = p  BY <1>3 DEF Entries
  <1>5. Longer(v, c, p)  BY <1>1, <1>4
  <1>6. p \in Nat /\ l \in Nat /\ L \in Nat /\ L = l + p  BY <1>5, FrameFacts DEF Longer
  <1>7. e = [k \in 1..p |-> <<m.at[f.pending[k].key][1], m.at[f.pending[k].value[1]][1]>>]  BY DEF ElementsOf
  <1>8. IsSeq(e)  BY ElementsAreSeq
  <1>9. DOMAIN e = 1..p  BY <1>7
  <1>10. \A k \in 1..p : e[k] = <<m.at[f.pending[k].key][1], m.at[f.pending[k].value[1]][1]>>  BY <1>7, Zenon
  <1>11. \A j \in l + 1..L : v[j] = <<v[j][1], v[j][2]>>  BY <1>1
  <1>12. \A i \in 1..p : EntryTells(f.pending[i], v[l + i], m.at)  BY <1>1
  <1> HIDE DEF e, p, l, L
  <1>13. Len(e) = p  BY <1>6, <1>8, <1>9, LenIs
  <1>14. ASSUME NEW k \in 1..p PROVE v[l + k] = e[k]
    <2> DEFINE x == v[l + k]
    <2>1. l + k \in l + 1..L  BY <1>6
    <2>2. x = <<x[1], x[2]>>  BY <2>1, <1>11
    <2>3. EntryTells(f.pending[k], x, m.at)  BY <1>12
    <2>4. f.pending[k].value # None  BY <1>3
    <2> HIDE DEF x
    <2>5. x[1] = m.at[f.pending[k].key][1] /\ x[2] = m.at[f.pending[k].value[1]][1]
      BY <2>3, <2>4 DEF EntryTells
    <2>6. x = <<m.at[f.pending[k].key][1], m.at[f.pending[k].value[1]][1]>>  BY <2>2, <2>5, PairOf
    <2>7. QED  BY <1>10, <2>6 DEF x
  <1>15. Longer(v, c, Len(e)) /\ \A k \in 1..Len(e) : v[Len(c) + k] = e[k]  BY <1>5, <1>13, <1>14 DEF l
  <1>16. v = c \o e  BY <1>8, <1>15, Extended
  <1>17. QED  BY <1>3, <1>16 DEF e, p

\* A set that is not open has what is described.
LEMMA SetSays ==
    ASSUME NEW f, FrameOK(f), f.tracker = "Set", f.state = "Idle",
           NEW m, NEW v, NEW c, IsSeq(v), IsSeq(c), SetTells(f, v, c)
    PROVE  SaysIt(f, v, c \o ElementsOf(m, f))
  <1> DEFINE e == ElementsOf(m, f)
  <1>1. Len(f.pending) = 0  BY FrameFacts
  <1>2. e = [k \in 1..0 |-> <<m.at[f.pending[k].key][1], m.at[f.pending[k].value[1]][1]>>]  BY <1>1 DEF ElementsOf
  <1>3. IsSeq(e) /\ DOMAIN e = 1..0  BY <1>2, ElementsAreSeq
  <1> HIDE DEF e
  <1>4. Len(e) = 0  BY <1>3, LenIs
  <1>5. 1..Len(e) = {}  BY <1>4
  <1>6. c = c \o e  BY <1>3, <1>4, <1>5, LongerBy0, Extended
  <1>7. CASE f.at = Root
    <2>1. {v[i] : i \in 1..Len(v) - 0} = ToSet(c)  BY <1>7 DEF SetTells
    <2>2. Len(v) \in Nat /\ Len(v) - 0 = Len(v)  BY SeqFacts
    <2>3. ToSet(v) = ToSet(c)  BY <2>1, <2>2, ToSetIs
    <2>4. SaysIt(f, v, c)  BY <1>7, <2>3 DEF SaysIt
    <2>5. QED  BY <1>6, <2>4 DEF e
  <1>8. CASE f.at # Root
    <2>1. Longer(v, c, 0)  BY <1>8 DEF SetTells
    <2>2. v = c \o e  BY <1>3, <1>4, <1>5, <2>1, Extended
    <2>3. QED  BY <2>2 DEF SaysIt, e
  <1>9. QED  BY <1>7, <1>8

\* What a complete frame, none of whose elements has a frame, makes of its place.
LEMMA FinishSays ==
    ASSUME NEW f, NEW P, NEW S, NEW m, m.faults = {}, OwnOK(f, P, m.at), Bare(f, P), f.isInit, f.state = "Idle",
           ListOK(f, P), \A a \in S : ~IsPart(a, f.at), NEW d, Tells(f, d, S, m.at)
    PROVE  /\ Became(m.at, Finish(m, f).at, Allocations(f), f.at)
           /\ SaysIt(f, d[f.at], Finish(m, f).at[f.at][1])
           /\ f.tracker # "Scalar" => IsSeq(Finish(m, f).at[f.at][1])
           /\ Finish(m, f).faults = {}
  <1> DEFINE M == m.at
             v == d[f.at]
             c == M[f.at][1]
             e == ElementsOf(m, f)
  <1>1. FrameOK(f)  BY DEF OwnOK
  <1>2. /\ f.tracker = "Scalar" => ScalarTells(f, v, M)
        /\ f.tracker # "Scalar" => IsSeq(v) /\ IsSeq(c)
        /\ f.tracker = "List" => ListTells(f, v, c, M)
        /\ f.tracker = "Map" => MapTells(f, v, c, S, M)
        /\ f.tracker = "Set" => SetTells(f, v, c)
    BY DEF Tells
  <1>3. \A i \in 1..Len(f.pending) : f.pending[i].value # None
    <2>1. CASE f.tracker = "Map"  BY <1>1, <1>2, <2>1, MapSays
    <2>2. CASE f.tracker # "Map"
      <3>1. 1..Len(f.pending) = {}  BY <1>1, <2>2, FrameFacts
      <3>2. QED  BY <3>1
    <2>3. QED  BY <2>1, <2>2
  <1>4. Became(m.at, Finish(m, f).at, Allocations(f), f.at) /\ Finish(m, f).faults = {}  BY <1>3, FinishIs
  <1>5. CASE f.tracker = "Scalar"
    <2>1. Finish(m, f).at[f.at][1] = v  BY <1>2, <1>5 DEF Finish, ScalarTells
    <2>2. QED  BY <1>4, <1>5, <2>1 DEF SaysIt
  <1>6. CASE f.tracker # "Scalar"
    <2>1. Finish(m, f).at[f.at] = Some(c \o e)  BY <1>3, <1>6, FinishedValue
    <2>2. Some(c \o e)[1] = c \o e  BY DEF Some
    <2>3. f.tracker \in {"List", "Map", "Set"}
      <3>1. StateOK(f)  BY <1>1 DEF FrameOK
      <3>2. QED  BY <1>6, <3>1 DEF StateOK
    <2> DEFINE z == Finish(m, f).at[f.at][1]
    <2>01. z = c \o e  BY <2>1, <2>2
    <2>5. IsSeq(c \o e)  BY <1>1, <1>2, <1>6, ElementsAreSeq, Joined
    <2>02. ASSUME SaysIt(f, v, c \o e) PROVE SaysIt(f, v, z) /\ IsSeq(z)
      <3> HIDE DEF v, c, e, z
      <3>1. QED  BY <2>01, <2>02, <2>5
    <2>4. ASSUME f.tracker = "List" PROVE SaysIt(f, v, z) /\ IsSeq(z)
      <3>1. v = c \o e  BY <1>1, <1>2, <2>4, ListSays
      <3> HIDE DEF v, c, e, z
      <3>2. QED  BY <3>1, <2>02 DEF SaysIt
    <2>6. ASSUME f.tracker = "Map" PROVE SaysIt(f, v, z) /\ IsSeq(z)
      <3>1. MapTells(f, v, c, S, M) /\ IsSeq(v) /\ IsSeq(c)  BY <1>2, <2>6
      <3> HIDE DEF v, c
      <3>2. FrameOK(f) /\ f.tracker = "Map" /\ MapTells(f, v, c, S, m.at)  BY <1>1, <2>6, <3>1
      <3> HIDE DEF e, M
      <3>6. \A a \in S : ~IsPart(a, f.at)  OBVIOUS
      <3>7. (v = c \o ElementsOf(m, f)) /\ (\A i \in 1..Len(f.pending) : f.pending[i].value # None)
        BY <3>1, <3>2, <3>6, MapSays
      <3>5. v = c \o ElementsOf(m, f)  BY <3>7
      <3>3. v = c \o e  BY <3>5 DEF e
      <3> HIDE DEF z
      <3>4. QED  BY <3>3, <2>02 DEF SaysIt
    <2>7. ASSUME f.tracker = "Set" PROVE SaysIt(f, v, z) /\ IsSeq(z)
      <3>1. SaysIt(f, v, c \o e)  BY <1>1, <1>2, <2>7, SetSays
      <3> HIDE DEF v, c, e, z
      <3>2. QED  BY <3>1, <2>02
    <2>8. SaysIt(f, v, z) /\ IsSeq(z)
      <3> HIDE DEF v, z
      <3>1. QED  BY <2>3, <2>4, <2>6, <2>7
    <2>9. QED  BY <1>4, <2>8
  <1>7. QED  BY <1>5, <1>6

-----------------------------------------------------------------------------
(* An element goes over to its collection: the description stays *)

\* The frames are those of F, but f2's parent g is g2 now.  At f's place and at
\* g's the memory may change, and where f stays it does not.
HandsOver(F, F2, S, S2, m, m2, f, g, g2) ==
    /\ f \in F /\ g \in F /\ IsPart(f.at, g.at) /\ g2.at = g.at /\ ~Busy(f)
    /\ \A h \in F2 : h = g2 \/ (h \in F /\ h # g /\ (h = f => \A a \in DOMAIN m : m2[a] = m[a]))
    /\ \A a : a # f.at => (a \in S <=> a \in S2)
    /\ \A a \in DOMAIN m : a # f.at /\ ~IsPart(a, f.at) /\ a # g.at => m2[a] = m[a]
    /\ (\A a \in DOMAIN m : m2[a] = m[a]) \/ Bare(f, PlacesOf(F))

LEMMA HandedFrame ==
    ASSUME NEW F, NEW m, Owned(F, m), NEW F2, NEW S, NEW S2, NEW m2, NEW f, NEW g, NEW g2,
           HandsOver(F, F2, S, S2, m, m2, f, g, g2),
           NEW h \in F, h # g, h = f => \A a \in DOMAIN m : m2[a] = m[a]
    PROVE  /\ m2[h.at] = m[h.at]
           /\ \A a \in FinishedParts(h) : m2[a] = m[a]
           /\ \A a : IsPart(a, h.at) => (a \in S <=> a \in S2)
  <1>1. /\ f \in F /\ g \in F /\ IsPart(f.at, g.at)
        /\ \A a : a # f.at => (a \in S <=> a \in S2)
        /\ \A a \in DOMAIN m : a # f.at /\ ~IsPart(a, f.at) /\ a # g.at => m2[a] = m[a]
        /\ (\A a \in DOMAIN m : m2[a] = m[a]) \/ Bare(f, PlacesOf(F))
    BY DEF HandsOver
  <1>2. OwnOK(h, PlacesOf(F), m) /\ FrameOK(h) /\ h.at \in DOMAIN m /\ h.at # g.at /\ h.at \in PlacesOf(F)
        /\ g.at \in PlacesOf(F)
    BY <1>1, OwnedFacts
  <1>3. \A a \in FinishedParts(h) : a \in DOMAIN m /\ a \notin PlacesOf(F) /\ IsPart(a, h.at)
    <2>1. \A a \in FinishedParts(h) : a \in DOMAIN m /\ a \notin PlacesOf(F)  BY <1>2 DEF OwnOK
    <2>2. \A a \in FinishedParts(h) : a \in Allocations(h)  BY DEF Allocations
    <2>3. \A a \in FinishedParts(h) : IsPart(a, h.at)  BY <1>2, <2>2, AllocationsAreParts
    <2>4. QED  BY <2>1, <2>3
  <1>4. \A a : IsPart(a, h.at) => a # f.at  BY <1>1, <1>2 DEF IsPart
  <1>5. CASE \A a \in DOMAIN m : m2[a] = m[a]
    BY <1>1, <1>2, <1>3, <1>4, <1>5
  <1>6. CASE h # f /\ Bare(f, PlacesOf(F))
    <2>1. h.at # f.at /\ f.at \in PlacesOf(F)  BY <1>1, <1>6, OwnedFacts
    <2>2. ~IsPart(h.at, f.at)  BY <1>2, <1>6 DEF Bare
    <2>3. m2[h.at] = m[h.at]  BY <1>1, <1>2, <2>1, <2>2
    <2>4. ASSUME NEW a \in FinishedParts(h) PROVE m2[a] = m[a]
      <3>1. a \in DOMAIN m /\ a # f.at /\ a # g.at  BY <1>2, <1>3, <2>1
      <3>2. ~IsPart(a, f.at)  BY <1>3, <2>1 DEF IsPart
      <3>3. QED  BY <1>1, <3>1, <3>2
    <2>5. QED  BY <1>1, <1>4, <2>3, <2>4
  <1>7. QED  BY <1>1, <1>5, <1>6

\* A collection is no element of a nested set.
LEMMA HandedTold ==
    ASSUME NEW t, NEW s, NEW st, NEW m, LiveOK(t, s, st, m), BuildingOK(s, st, m),
           t[1] \in Kinds, t[2] \in Kinds,
           NEW F2, NEW S2, NEW m2, NEW f, NEW g, NEW g2,
           HandsOver(FramesOf(s, st), F2, StoredAt(st), S2, m, m2, f, g, g2), g.tracker # "Scalar",
           NEW d, NEW w \in Nat, TellsAll(t, FramesOf(s, st), d, StoredAt(st), m, w),
           Tells(g2, d, S2, m2), Grows(t, g2, m2, w), New(g2, m2)
    PROVE  TellsAll(t, F2, d, S2, m2, w)
  <1> DEFINE F == FramesOf(s, st)
             P == PlacesOf(F)
             S == StoredAt(st)
  <1>1. Owned(F, m) /\ \A h \in F : FrameOK(h) /\ Tracked(t, h) /\ h.at \in Steps  BY LiveFacts
  <1>2. /\ f \in F /\ g \in F /\ IsPart(f.at, g.at) /\ g2.at = g.at /\ ~Busy(f)
        /\ \A h \in F2 : h = g2 \/ (h \in F /\ h # g /\ (h = f => \A a \in DOMAIN m : m2[a] = m[a]))
        /\ \A a \in DOMAIN m : a # f.at /\ ~IsPart(a, f.at) /\ a # g.at => m2[a] = m[a]
        /\ (\A a \in DOMAIN m : m2[a] = m[a]) \/ Bare(f, P)
    BY DEF HandsOver
  <1>3. ASSUME NEW h \in F, h # g, h = f => \A a \in DOMAIN m : m2[a] = m[a]
        PROVE  Tells(h, d, S2, m2) /\ Grows(t, h, m2, w) /\ New(h, m2)
    <2>1. /\ m2[h.at] = m[h.at]
          /\ \A a \in FinishedParts(h) : m2[a] = m[a]
          /\ \A a : IsPart(a, h.at) => (a \in S <=> a \in S2)
      BY <1>1, <1>3, HandedFrame
    <2>2. Tells(h, d, S, m) /\ Grows(t, h, m, w) /\ New(h, m)  BY ToldFacts
    <2>3. SameFor(h, d, S, m, d, S2, m2)  BY <2>1 DEF SameFor
    <2>4. Tells(h, d, S2, m2)  BY <1>1, <2>2, <2>3, TellsKept
    <2>5. Grows(t, h, m2, w)
      <3>1. w <= w  OBVIOUS
      <3>2. QED  BY <2>1, <2>2, <3>1, StillGrows
    <2>6. New(h, m2)
      <3> SUFFICES ASSUME h.tracker = "Set", Busy(h), h.at # Root PROVE New(h, m2)
        BY DEF New
      <3>1. PICK i \in 1..Len(s) - 1 : h = s[i] /\ s[i + 1].at = Open(h)  BY OpenPlace
      <3>2. IsPart(Open(h), h.at) /\ Open(h) \in P /\ Open(h) \in DOMAIN m  BY <3>1, Inner, OpenHasFrame
      <3>3. h.at # g.at  BY <1>1, <1>2, <1>3, OwnedFacts
      <3>4. Open(h) # f.at  BY <1>2, <3>2, <3>3 DEF IsPart
      <3>5. Open(h) # g.at
        <4>1. SUFFICES ASSUME g.at = Open(h) PROVE FALSE
          OBVIOUS
        <4>2. IsLeaf(g)  BY <1>1, <4>1, LeafInNested
        <4>3. QED  BY <1>1, <1>2, <4>2 DEF FrameOK
      <3>6. m2[Open(h)] = m[Open(h)]
        <4>1. CASE Bare(f, P)
          <5>1. ~IsPart(Open(h), f.at)  BY <3>2, <4>1 DEF Bare
          <5>2. QED  BY <1>2, <3>2, <3>4, <3>5, <5>1
        <4>2. CASE \A a \in DOMAIN m : m2[a] = m[a]
          BY <3>2, <4>2
        <4>3. QED  BY <1>2, <4>1, <4>2
      <3>7. QED  BY <2>1, <2>2, <3>6, StillNew
    <2>7. QED  BY <2>4, <2>5, <2>6
  <1>4. QED  BY <1>2, <1>3 DEF TellsAll

\* The frame g becomes g2, which counts no element less; the description stays.
Passes(g, g2, d, S2, m, m2) ==
    /\ FrameOK(g) /\ g2.at = g.at /\ g2.tracker = g.tracker
    /\ m2[g.at] = m[g.at] /\ \A a \in FinishedParts(g) : m2[a] = m[a]
    /\ \A x \in StepSet : Append(g.at, x) \in S2 => d[Append(g.at, x)] = Counted(m[g.at][1], d[g.at], x)
    /\ Busy(g2) => Busy(g) /\ StepOpen(g2) = StepOpen(g)

LEMMA PassedOpen ==
    ASSUME NEW g, NEW g2, NEW d, NEW S, NEW S2, NEW m, NEW m2, Passes(g, g2, d, S2, m, m2), Tells(g, d, S, m)
    PROVE  Busy(g2) => Len(d[g2.at]) >= 1 /\ d[Open(g2)] = Lastly(d[g2.at], StepOpen(g2))
  BY DEF Passes, Tells, Open

\* A list counts no element, or one that holds what is described of it.
LEMMA ListPasses ==
    ASSUME NEW g, NEW g2, NEW d, NEW S, NEW S2, NEW m, NEW m2, Passes(g, g2, d, S2, m, m2), Tells(g, d, S, m),
           g.tracker = "List", RopeLen(g2) = RopeLen(g),
           \/ Marked(g2) = Marked(g)
           \/ /\ Marked(g2) = Marked(g) + 1
              /\ m2[Part(g, "item", Marked(g))][1] = d[g.at][Len(m[g.at][1]) + Marked(g) + 1]
    PROVE  Tells(g2, d, S2, m2)
  <1> DEFINE v == d[g.at]
             c == m[g.at][1]
             l == Len(c)
             k == Marked(g)
             k2 == Marked(g2)
  <1>1. /\ FrameOK(g) /\ g2.at = g.at /\ g2.tracker = "List" /\ m2[g.at] = m[g.at]
        /\ \A a \in FinishedParts(g) : m2[a] = m[a]
        /\ \A x \in StepSet : Append(g.at, x) \in S2 => d[Append(g.at, x)] = Counted(c, v, x)
    BY DEF Passes
  <1>2. ListTells(g, v, c, m) /\ IsSeq(v) /\ IsSeq(c)  BY DEF Tells
  <1>3. ListTells(g, v, c, m2)  BY <1>1, <1>2, ListTellsKept
  <1>4. \A j \in 0..k - 1 : m2[Part(g, "item", j)][1] = v[l + j + 1]  BY <1>3 DEF ListTells
  <1>5. k \in Nat  BY <1>1, FrameFacts
  <1>6. k2 = k \/ (k2 = k + 1 /\ m2[Part(g, "item", k)][1] = v[l + k + 1])  OBVIOUS
  <1>7. Longer(v, c, RopeLen(g2))  BY <1>2 DEF ListTells
  <1>8. \A j : Part(g2, "item", j) = Part(g, "item", j)  BY <1>1 DEF Part
  <1>9. v = d[g2.at] /\ c = m2[g2.at][1]  BY <1>1
  <1>10. Busy(g2) => Len(d[g2.at]) >= 1 /\ d[Open(g2)] = Lastly(d[g2.at], StepOpen(g2))  BY PassedOpen
  <1> HIDE DEF k, k2, l
  <1>11. ASSUME NEW j \in 0..k2 - 1 PROVE m2[Part(g2, "item", j)][1] = v[l + j + 1]
    <2>1. j \in 0..k - 1 \/ (j = k /\ k2 = k + 1)  BY <1>5, <1>6
    <2>2. CASE j \in 0..k - 1  BY <2>2, <1>4, <1>8
    <2>3. CASE j = k /\ k2 = k + 1
      <3>1. m2[Part(g, "item", k)][1] = v[l + k + 1]  BY <1>5, <1>6, <2>3
      <3>2. QED  BY <1>8, <2>3, <3>1
    <2>4. QED  BY <2>1, <2>2, <2>3
  <1>12. ListTells(g2, v, c, m2)  BY <1>7, <1>11 DEF ListTells, k2, l
  <1> HIDE DEF v, c
  <1>13. QED  BY <1>1, <1>2, <1>9, <1>10, <1>12 DEF Tells

\* What became of the pending entries: nothing, or one more key, or one more
\* value, where the description has it.
PendingTells(g, g2, v, l, m2) ==
    \/ g2.pending = g.pending
    \/ \E a : /\ g2.pending = Append(g.pending, [key |-> a, value |-> None])
              /\ m2[a][1] = v[l + Len(g.pending) + 1][1]
    \/ \E i \in 1..Len(g.pending) : \E a :
              /\ g2.pending = [g.pending EXCEPT ![i].value = Some(a)]
              /\ m2[a][1] = v[l + i][2]

LEMMA PendingIs ==
    ASSUME NEW g, NEW g2, FrameOK(g), NEW v, NEW l \in Nat, NEW m, NEW m2, PendingTells(g, g2, v, l, m2),
           \A a \in FinishedParts(g) : m2[a] = m[a],
           \A i \in 1..Len(g.pending) : EntryTells(g.pending[i], v[l + i], m),
           NEW i \in 1..Len(g2.pending)
    PROVE  EntryTells(g2.pending[i], v[l + i], m2)
  <1> DEFINE p == g.pending
             n == Len(p)
  <1>1. n \in Nat /\ p \in Seq(EntrySet)  BY FrameFacts DEF FrameOK, FrameSet
  <1>2. \A j \in 1..n : EntryTells(p[j], v[l + j], m2)
    <2>1. ASSUME NEW j \in 1..Len(g.pending) PROVE EntryTells(g.pending[j], v[l + j], m2)
      BY EntriesKept
    <2>2. QED  BY <2>1
  <1>3. CASE g2.pending = p  BY <1>2, <1>3
  <1>4. CASE \E a : g2.pending = Append(p, [key |-> a, value |-> None]) /\ m2[a][1] = v[l + n + 1][1]
    <2>1. PICK a : g2.pending = Append(p, [key |-> a, value |-> None]) /\ m2[a][1] = v[l + n + 1][1]  BY <1>4
    <2> DEFINE e == [key |-> a, value |-> None]
               q == Append(p, e)
    <2>2. e.key = a /\ e.value = None  OBVIOUS
    <2>3. IsSeq(p)  BY <1>1, SeqIs
    <2>4. Len(q) = n + 1 /\ q[n + 1] = e /\ \A j \in 1..n : q[j] = p[j]
      <3> HIDE DEF e
      <3>1. QED  BY <2>3, AppendIs
    <2>5. g2.pending = q  BY <2>1
    <2>51. n \in Nat  BY <1>1
    <2> HIDE DEF e, q, n, p
    <2>6. i \in 1..n + 1  BY <2>4, <2>5
    <2>7. CASE i \in 1..n  BY <1>2, <2>4, <2>5, <2>7
    <2>8. CASE i = n + 1
      <3>1. g2.pending[i] = e  BY <2>4, <2>5, <2>8
      <3>2. m2[e.key][1] = v[l + (n + 1)][1]
        <4>1. m2[a][1] = v[l + n + 1][1]  BY <2>1
        <4>2. l + n + 1 = l + (n + 1)  BY <2>51
        <4>3. v[l + n + 1] = v[l + (n + 1)]  BY <4>2
        <4>4. QED  BY <2>2, <4>1, <4>3
      <3>3. QED  BY <2>2, <2>8, <3>1, <3>2 DEF EntryTells
    <2>9. QED  BY <1>1, <2>6, <2>7, <2>8
  <1>5. CASE \E j \in 1..n : \E a : g2.pending = [p EXCEPT ![j].value = Some(a)] /\ m2[a][1] = v[l + j][2]
    <2>01. PICK j \in 1..n : \E a : g2.pending = [p EXCEPT ![j].value = Some(a)] /\ m2[a][1] = v[l + j][2]  BY <1>5
    <2>1. PICK a : g2.pending = [p EXCEPT ![j].value = Some(a)] /\ m2[a][1] = v[l + j][2]  BY <2>01
    <2>2. DOMAIN p = 1..n  BY <1>1
    <2>3. p[j] \in EntrySet  BY <1>1, ElementOfSeq
    <2> DEFINE e == [p[j] EXCEPT !.value = Some(a)]
    <2>4. e.key = p[j].key /\ e.value = Some(a)  BY <2>3 DEF EntrySet
    <2>5. g2.pending = [p EXCEPT ![j] = e]  BY <2>1
    <2> HIDE DEF e
    <2>6. Len(g2.pending) = n /\ \A k \in 1..n : g2.pending[k] = IF k = j THEN e ELSE p[k]
      <3>1. DOMAIN g2.pending = 1..n  BY <2>2, <2>5
      <3>2. Len(g2.pending) = n  BY <1>1, <2>5
      <3>3. QED  BY <2>2, <2>5, <3>2
    <2>7. EntryTells(p[j], v[l + j], m2)  BY <1>2
    <2>8. EntryTells(e, v[l + j], m2)
      <3>1. Some(a)[1] = a  BY DEF Some
      <3>2. QED  BY <2>1, <2>4, <2>7, <3>1 DEF EntryTells
    <2> HIDE DEF n, p
    <2>9. QED  BY <1>2, <2>6, <2>8
  <1>6. QED  BY <1>3, <1>4, <1>5 DEF PendingTells

MapStays(g, g2, S, S2) ==
    /\ \A n \in Nat : MapIs(g, S, n) => \E n2 \in Nat : MapIs(g2, S2, n2) /\ Entries(g2, n2) = Entries(g, n)
    /\ g2.state \in {"Key", "KeyDone"} => g.state \in {"Key", "KeyDone"}

\* A map counts no half, or one that holds what is described of it.
LEMMA MapPasses ==
    ASSUME NEW g, NEW g2, NEW d, NEW S, NEW S2, NEW m, NEW m2, Passes(g, g2, d, S2, m, m2), Tells(g, d, S, m),
           g.tracker = "Map", MapStays(g, g2, S, S2),
           PendingTells(g, g2, d[g.at], Len(m[g.at][1]), m2)
    PROVE  Tells(g2, d, S2, m2)
  <1> DEFINE v == d[g.at]
             c == m[g.at][1]
             l == Len(c)
  <1>1. /\ FrameOK(g) /\ g2.at = g.at /\ g2.tracker = "Map" /\ m2[g.at] = m[g.at]
        /\ \A a \in FinishedParts(g) : m2[a] = m[a]
        /\ \A x \in StepSet : Append(g.at, x) \in S2 => d[Append(g.at, x)] = Counted(c, v, x)
    BY DEF Passes
  <1>2. MapTells(g, v, c, S, m) /\ IsSeq(v) /\ IsSeq(c)  BY DEF Tells
  <1>3. l \in Nat  BY <1>2, SeqFacts
  <1>4. PICK n \in Nat :
            /\ MapIs(g, S, n)
            /\ Longer(v, c, Entries(g, n))
            /\ \A j \in Len(c) + 1..Len(v) : v[j] = <<v[j][1], v[j][2]>>
            /\ \A i \in 1..Len(g.pending) : EntryTells(g.pending[i], v[Len(c) + i], m)
            /\ g.state \in {"Key", "KeyDone"} /\ g.at = Root => v[Len(v)][2] = << >>
    BY <1>2 DEF MapTells
  <1>5. PICK n2 \in Nat : MapIs(g2, S2, n2) /\ Entries(g2, n2) = Entries(g, n)  BY <1>4 DEF MapStays
  <1>6. g2.state \in {"Key", "KeyDone"} => g.state \in {"Key", "KeyDone"}  BY DEF MapStays
  <1>7. PendingTells(g, g2, v, l, m2)  OBVIOUS
  <1>8. \A i \in 1..Len(g.pending) : EntryTells(g.pending[i], v[l + i], m)  BY <1>4
  <1>9. v = d[g2.at] /\ c = m2[g2.at][1]  BY <1>1
  <1>10. Busy(g2) => Len(d[g2.at]) >= 1 /\ d[Open(g2)] = Lastly(d[g2.at], StepOpen(g2))  BY PassedOpen
  <1> HIDE DEF v, l
  <1>11. ASSUME NEW i \in 1..Len(g2.pending) PROVE EntryTells(g2.pending[i], v[l + i], m2)
    <2>1. /\ FrameOK(g) /\ l \in Nat /\ PendingTells(g, g2, v, l, m2)
          /\ (\A a \in FinishedParts(g) : m2[a] = m[a])
          /\ (\A j \in 1..Len(g.pending) : EntryTells(g.pending[j], v[l + j], m))
      BY <1>1, <1>3, <1>7, <1>8
    <2> HIDE DEF c
    <2>2. QED  BY <1>11, <2>1, PendingIs
  <1>12. MapTells(g2, v, c, S2, m2)
    <2> HIDE DEF c
    <2>1. \A i \in 1..Len(g2.pending) : EntryTells(g2.pending[i], v[Len(c) + i], m2)  BY <1>11 DEF l
    <2>2. Longer(v, c, Entries(g2, n2))  BY <1>4, <1>5
    <2>3. g2.state \in {"Key", "KeyDone"} /\ g2.at = Root => v[Len(v)][2] = << >>  BY <1>1, <1>4, <1>6
    <2>4. QED  BY <1>4, <1>5, <2>1, <2>2, <2>3 DEF MapTells
  <1> HIDE DEF c
  <1>13. QED  BY <1>1, <1>2, <1>9, <1>10, <1>12 DEF Tells

\* A set gets an element.
LEMMA SetPasses ==
    ASSUME NEW g, NEW g2, FrameOK(g), NEW d, NEW S, NEW S2, NEW m, NEW m2, Tells(g, d, S, m), g.tracker = "Set",
           g.state = "Item", g2.at = g.at, g2.tracker = "Set", g2.state = "Idle",
           NEW x, x = d[Open(g)],
           \/ x \in ToSet(m[g.at][1]) /\ m2[g.at] = m[g.at]
           \/ m2[g.at] = Some(Append(m[g.at][1], x)),
           g.at # Root => x \notin ToSet(m[g.at][1])
    PROVE  Tells(g2, d, S2, m2)
  <1> DEFINE v == d[g.at]
             c == m[g.at][1]
             c2 == m2[g.at][1]
  <1>1. SetTells(g, v, c) /\ IsSeq(v) /\ IsSeq(c)  BY DEF Tells
  <1>2. StepOpen(g) = Element  BY DEF StepOpen
  <1>3. Len(v) >= 1 /\ x = v[Len(v)]
    <2>1. Busy(g)  BY DEF Busy
    <2>2. Len(v) >= 1 /\ x = Lastly(v, Element)  BY <1>2, <2>1 DEF Tells
    <2>3. Element[1] = "element"  BY DEF Element
    <2>4. QED  BY <2>2, <2>3 DEF Lastly, Half
  <1>4. (x \in ToSet(c) /\ c2 = c) \/ c2 = Append(c, x)
    <2>1. CASE x \in ToSet(c) /\ m2[g.at] = m[g.at]
      BY <2>1
    <2>2. CASE m2[g.at] = Some(Append(c, x))
      BY <2>2 DEF Some
    <2>3. QED  BY <2>1, <2>2
  <1>5. Len(v) \in Nat /\ Len(c) \in Nat /\ DOMAIN c = 1..Len(c)  BY <1>1, SeqFacts
  <1>6. /\ IsSeq(Append(c, x)) /\ Len(Append(c, x)) = Len(c) + 1
        /\ Append(c, x)[Len(c) + 1] = x /\ \A i \in 1..Len(c) : Append(c, x)[i] = c[i]
    BY <1>1, AppendIs
  <1>7. IsSeq(c2)  BY <1>1, <1>4, <1>6
  <1>8. g.at # Root => x \notin ToSet(c)  OBVIOUS
  <1>9. v = d[g2.at] /\ c2 = m2[g2.at][1]  OBVIOUS
  <1>10. SetTells(g, v, c) = IF g.at = Root THEN Len(v) >= 1 /\ {v[i] : i \in 1..Len(v) - 1} = ToSet(c)
                             ELSE Longer(v, c, 1)
    BY DEF SetTells
  <1> HIDE DEF v, c, c2
  <1>11. ToSet(Append(c, x)) = ToSet(c) \cup {x}
    <2>1. DOMAIN Append(c, x) = 1..Len(c) + 1  BY <1>6, SeqFacts
    <2>2. Len(c) + 1 \in 1..Len(c) + 1 /\ \A i \in 1..Len(c) + 1 : i \in 1..Len(c) \/ i = Len(c) + 1
      BY <1>5
    <2>3. ToSet(Append(c, x)) = {Append(c, x)[i] : i \in 1..Len(c) + 1}  BY <2>1 DEF ToSet
    <2>4. ToSet(c) = {c[i] : i \in 1..Len(c)}  BY <1>5 DEF ToSet
    <2>5. \A i \in 1..Len(c) : i \in 1..Len(c) + 1  BY <1>5
    <2> DEFINE k == Len(c) + 1
               D == 1..Len(c)
    <2>6. k \in 1..k /\ (\A i \in 1..k : i \in D \/ i = k) /\ (\A i \in D : i \in 1..k)
        BY <2>2, <2>5
    <2>7. Append(c, x)[k] = x /\ \A i \in D : Append(c, x)[i] = c[i]  BY <1>6
    <2>8. ToSet(Append(c, x)) = {Append(c, x)[i] : i \in 1..k} /\ ToSet(c) = {c[i] : i \in D}  BY <2>3, <2>4
    <2> HIDE DEF k, D
    <2>9. ASSUME NEW y \in ToSet(Append(c, x)) PROVE y \in ToSet(c) \cup {x}
      <3>1. PICK i \in 1..k : y = Append(c, x)[i]  BY <2>8
      <3>2. QED  BY <2>6, <2>7, <2>8, <3>1
    <2>10. ASSUME NEW y \in ToSet(c) PROVE y \in ToSet(Append(c, x))
      <3>1. PICK i \in D : y = c[i]  BY <2>8
      <3>2. y = Append(c, x)[i] /\ i \in 1..k  BY <2>6, <2>7, <3>1
      <3>3. QED  BY <2>8, <3>2
    <2>11. x \in ToSet(Append(c, x))  BY <2>6, <2>7, <2>8
    <2>12. QED  BY <2>9, <2>10, <2>11
  <1>12. SetTells(g2, v, c2)
    <2>1. CASE g.at = Root
      <3>1. {v[i] : i \in 1..Len(v) - 1} = ToSet(c)  BY <1>1, <1>10, <2>1
      <3>2. {v[i] : i \in 1..Len(v)} = ToSet(c) \cup {x}
        <4>1. \A i \in 1..Len(v) : i \in 1..Len(v) - 1 \/ i = Len(v)  BY <1>3, <1>5
        <4>2. Len(v) \in 1..Len(v) /\ \A i \in 1..Len(v) - 1 : i \in 1..Len(v)  BY <1>3, <1>5
        <4> DEFINE D == 1..Len(v) - 1
        <4>3. {v[i] : i \in D} = ToSet(c) /\ (\A i \in 1..Len(v) : i \in D \/ i = Len(v))
              /\ (\A i \in D : i \in 1..Len(v))
          BY <3>1, <4>1, <4>2
        <4> HIDE DEF D
        <4>4. QED  BY <1>3, <4>2, <4>3
      <3>3. ToSet(c2) = ToSet(c) \cup {x}  BY <1>4, <1>11
      <3>4. Len(v) - 0 = Len(v) /\ Len(v) >= 0  BY <1>5
      <3>5. {v[i] : i \in 1..Len(v) - 0} = ToSet(c2)  BY <3>2, <3>3, <3>4
      <3>6. QED  BY <2>1, <3>4, <3>5 DEF SetTells
    <2>2. CASE g.at # Root
      <3>1. c2 = Append(c, x)  BY <1>4, <1>8, <2>2
      <3>2. Longer(v, c, 1)  BY <1>1, <1>10, <2>2
      <3>3. Len(v) = Len(c) + 1 /\ \A i \in 1..Len(c) : v[i] = c[i]  BY <3>2 DEF Longer
      <3>4. Len(c2) = Len(v)  BY <1>6, <3>1, <3>3
      <3>5. \A i \in 1..Len(c2) : v[i] = c2[i]
        <4>1. \A i \in 1..Len(c2) : i \in 1..Len(c) \/ i = Len(c) + 1  BY <1>5, <3>3, <3>4
        <4>2. \A i \in 1..Len(c) : v[i] = c2[i]  BY <1>6, <3>1, <3>3
        <4>3. v[Len(c) + 1] = c2[Len(c) + 1]  BY <1>3, <1>6, <3>1, <3>3
        <4>4. QED  BY <4>1, <4>2, <4>3
      <3>6. Longer(v, c2, 0)  BY <1>5, <3>4, <3>5 DEF Longer
      <3>7. QED  BY <2>2, <3>6 DEF SetTells
    <2>3. QED  BY <2>1, <2>2
  <1>13. ~Busy(g2)  BY DEF Busy
  <1>14. QED  BY <1>1, <1>7, <1>9, <1>12, <1>13 DEF Tells

\* An element that is finished has the value described of it.
FinishedAt(g, d, m, m2) ==
    /\ m2[g.at] = m[g.at] /\ \A a \in FinishedParts(g) : m2[a] = m[a]
    /\ m2[Open(g)][1] = d[Open(g)]

LEMMA StrictListTells ==
    ASSUME NEW g, FrameOK(g), g.tracker = "List", g.state = "Item",
           StepOpen(g) \in StepSet, NEW P, ListOK(g, P), Open(g) \notin FinishedParts(g),
           \A b \in P : IsPart(b, g.at) => b = Open(g),
           NEW d, NEW m, NEW m2, Tells(g, d, {}, m), FinishedAt(g, d, m, m2)
    PROVE  Tells(Ended(Take(g, Open(g))), d, {}, m2)
  <1> DEFINE o == Open(g)
             h == MarkLast(g)
             g2 == Ended(h)
             v == d[g.at]
             c == m[g.at][1]
  <1>1. Take(g, o) = h  BY DEF Take
  <1>2. Marked(g) < RopeLen(g) /\ o = Part(g, "item", Marked(g)) /\ RopeLen(g) = Marked(g) + 1  BY LastSlot
  <1>3. /\ FrameOK(h) /\ h.at = g.at /\ h.tracker = g.tracker /\ h.state = g.state
        /\ RopeLen(h) = RopeLen(g) /\ Marked(h) = Marked(g) + 1
    BY <1>2, MarkLastIs
  <1> HIDE DEF h
  <1>4. FrameOK(g2) /\ g2.at = h.at /\ g2.tracker = h.tracker /\ g2.rope = h.rope /\ g2.state = "Idle"
    BY <1>3, EndedIs
  <1>5. RopeLen(g2) = RopeLen(g) /\ Marked(g2) = Marked(g) + 1 /\ g2.at = g.at /\ g2.tracker = "List"
    BY <1>3, <1>4 DEF RopeLen, Marked
  <1> HIDE DEF g2
  <1>6. Busy(g)  BY DEF Busy
  <1>7. ListTells(g, v, c, m) /\ Len(v) >= 1 /\ d[o] = Lastly(v, StepOpen(g))  BY <1>6 DEF Tells
  <1>8. StepOpen(g)[1] = "item"  BY DEF StepOpen
  <1>9. d[o] = v[Len(v)]  BY <1>7, <1>8 DEF Lastly, Half
  <1>10. Len(v) = Len(c) + Marked(g) + 1
    <2>1. Len(v) = Len(c) + RopeLen(g) /\ Len(c) \in Nat  BY <1>7 DEF ListTells, Longer
    <2>2. Marked(g) \in Nat  BY FrameFacts
    <2>3. QED  BY <1>2, <2>1, <2>2
  <1>11. m2[Part(g, "item", Marked(g))][1] = v[Len(c) + Marked(g) + 1]  BY <1>2, <1>9, <1>10 DEF FinishedAt
  <1>12. ~Busy(g2)  BY <1>4 DEF Busy
  <1>13. Passes(g, g2, d, {}, m, m2)  BY <1>5, <1>12 DEF Passes, FinishedAt
  <1>14. Marked(g2) = Marked(g) + 1
         /\ m2[Part(g, "item", Marked(g))][1] = d[g.at][Len(m[g.at][1]) + Marked(g) + 1]
    BY <1>5, <1>11
  <1>15. RopeLen(g2) = RopeLen(g)  BY <1>5
  <1>16. Tells(g2, d, {}, m2)  BY <1>13, <1>14, <1>15, ListPasses
  <1>17. QED  BY <1>1, <1>16 DEF g2

LEMMA StrictKeyTells ==
    ASSUME NEW g, FrameOK(g), g.tracker = "Map", g.state = "Key",
           NEW d, NEW m, NEW m2, Tells(g, d, {}, m), FinishedAt(g, d, m, m2)
    PROVE  Tells(Ended(Take(g, Open(g))), d, {}, m2)
  <1> DEFINE o == Open(g)
             h == PushKey(g, o)
             g2 == Ended(h)
             v == d[g.at]
             c == m[g.at][1]
  <1>1. Take(g, o) = h  BY DEF Take
  <1>2. PICK k \in Nat : g.cur = Some(<<"key", k>>)  BY DEF FrameOK, StateOK
  <1>3. g.cur # None /\ g.cur[1] = <<"key", k>>  BY <1>2 DEF Some, None
  <1>4. StepOpen(g) = <<"key", k>> /\ o = Part(g, "key", k)  BY <1>3 DEF Open, StepOpen, Part
  <1>5. LET y == PushKey(g, Part(g, "key", k)) IN
        /\ FrameOK(y) /\ y.at = g.at /\ y.tracker = g.tracker /\ y.state = g.state
        /\ Len(y.pending) = Len(g.pending) + 1
        /\ \A j \in Nat : Given(y, j) <=> Given(g, j)
    BY <1>3, PushKeyIs
  <1>6. h.pending = Append(g.pending, [key |-> o, value |-> None])  BY DEF PushKey, FrameOK, FrameSet
  <1>7. /\ FrameOK(h) /\ h.at = g.at /\ h.tracker = "Map" /\ h.state = "Key"
        /\ Len(h.pending) = Len(g.pending) + 1
        /\ \A j \in Nat : Given(h, j) <=> Given(g, j)
    BY <1>4, <1>5
  <1> HIDE DEF h, o
  <1>8. FrameOK(g2) /\ g2.at = h.at /\ g2.tracker = h.tracker /\ g2.pending = h.pending /\ g2.state = "KeyDone"
    BY <1>7, EndedIs
  <1> HIDE DEF g2
  <1>9. \A j \in Nat : Given(g2, j) <=> Given(g, j)  BY <1>7, <1>8 DEF Given
  <1>10. Busy(g)  BY DEF Busy
  <1>11. MapTells(g, v, c, {}, m) /\ Len(v) >= 1 /\ d[o] = Lastly(v, StepOpen(g))  BY <1>10 DEF Tells, o
  <1>12. PICK n \in Nat : MapIs(g, {}, n) /\ Longer(v, c, Entries(g, n))  BY <1>11 DEF MapTells
  <1>13. n = Len(g.pending)  BY <1>12, AllGiven
  <1>14. ASSUME NEW j \in Nat, MapIs(g, {}, j)
         PROVE  \E n2 \in Nat : MapIs(g2, {}, n2) /\ Entries(g2, n2) = Entries(g, j)
    <2>1. MapIs(g2, {}, j + 1)  BY <1>7, <1>8, <1>9, <1>14, KeyEnded
    <2>2. Entries(g2, j + 1) = Entries(g, j)  BY <1>8 DEF Entries
    <2>3. QED  BY <2>1, <2>2
  <1>15. MapStays(g, g2, {}, {})  BY <1>14 DEF MapStays
  <1>16. d[o] = v[Len(v)][1]  BY <1>4, <1>11 DEF Lastly, Half
  <1>17. Len(v) = Len(c) + Len(g.pending) + 1
    <2>1. Len(v) = Len(c) + Entries(g, n) /\ Len(c) \in Nat  BY <1>12 DEF Longer
    <2>2. Entries(g, n) = n + 1  BY DEF Entries
    <2>3. Len(v) = Len(c) + (n + 1)  BY <2>1, <2>2
    <2> HIDE DEF v, c
    <2>4. Len(v) = Len(c) + n + 1  BY <2>1, <2>3
    <2>5. QED  BY <1>13, <2>4
  <1>18. m2[o][1] = v[Len(c) + Len(g.pending) + 1][1]  BY <1>16, <1>17 DEF FinishedAt, o
  <1>19. PendingTells(g, g2, v, Len(c), m2)  BY <1>6, <1>8, <1>18 DEF PendingTells
  <1>20. ~Busy(g2)  BY <1>8 DEF Busy
  <1>21. Passes(g, g2, d, {}, m, m2)  BY <1>7, <1>8, <1>20 DEF Passes, FinishedAt
  <1>22. PendingTells(g, g2, d[g.at], Len(m[g.at][1]), m2)  BY <1>19
  <1>23. Tells(g2, d, {}, m2)  BY <1>15, <1>21, <1>22, MapPasses
  <1>24. QED  BY <1>1, <1>23 DEF g2, o

LEMMA StrictValueTells ==
    ASSUME NEW g, FrameOK(g), g.tracker = "Map", g.state = "Value",
           NEW d, NEW m, NEW m2, Tells(g, d, {}, m), FinishedAt(g, d, m, m2)
    PROVE  Tells(Ended(Take(g, Open(g))), d, {}, m2)
  <1> DEFINE o == Open(g)
             i == Len(g.pending)
             h == SetValue(g, i, o)
             g2 == Ended(h)
             v == d[g.at]
             c == m[g.at][1]
  <1>1. Take(g, o) = h  BY DEF Take
  <1>2. PICK k \in Nat : g.cur = Some(<<"value", k>>)  BY DEF FrameOK, StateOK
  <1>3. g.cur # None /\ g.cur[1] = <<"value", k>>  BY <1>2 DEF Some, None
  <1>4. StepOpen(g) = <<"value", k>> /\ o = Part(g, "value", k)  BY <1>3 DEF Open, StepOpen, Part
  <1>5. Busy(g)  BY DEF Busy
  <1>6. MapTells(g, v, c, {}, m) /\ Len(v) >= 1 /\ d[o] = Lastly(v, StepOpen(g))  BY <1>5 DEF Tells
  <1>7. PICK n \in Nat : MapIs(g, {}, n) /\ Longer(v, c, Entries(g, n))  BY <1>6 DEF MapTells
  <1>8. /\ n = Len(g.pending) /\ n \in 1..Len(g.pending) /\ g.pending[n].value = None
    BY <1>7, ValueEnded
  <1>9. i \in 1..Len(g.pending) /\ g.pending[i].value = None  BY <1>8
  <1>10. LET y == SetValue(g, i, Part(g, "value", k)) IN
         /\ FrameOK(y) /\ y.at = g.at /\ y.tracker = g.tracker /\ y.state = g.state
         /\ Len(y.pending) = Len(g.pending)
         /\ \A j \in Nat : Given(y, j) <=> Given(g, j) \/ j = i - 1
    BY <1>9, SetValueIs
  <1>11. h.pending = [g.pending EXCEPT ![i].value = Some(o)]  BY <1>9 DEF SetValue, FrameOK, FrameSet
  <1>12. /\ FrameOK(h) /\ h.at = g.at /\ h.tracker = "Map" /\ h.state = "Value"
         /\ Len(h.pending) = Len(g.pending)
         /\ \A j \in Nat : Given(h, j) <=> Given(g, j) \/ j = i - 1
    BY <1>4, <1>10
  <1> HIDE DEF h, o
  <1>13. FrameOK(g2) /\ g2.at = h.at /\ g2.tracker = h.tracker /\ g2.pending = h.pending /\ g2.state = "Idle"
    BY <1>12, EndedIs
  <1> HIDE DEF g2
  <1>14. \A j \in Nat : Given(g2, j) <=> Given(g, j) \/ j = i - 1  BY <1>12, <1>13 DEF Given
  <1>15. ASSUME NEW j \in Nat, MapIs(g, {}, j)
         PROVE  \E n2 \in Nat : MapIs(g2, {}, n2) /\ Entries(g2, n2) = Entries(g, j)
    <2>1. j = i /\ \A x :
                /\ x.at = g.at /\ Len(x.pending) = Len(g.pending) /\ x.state = "Idle"
                /\ \A q \in Nat : Given(x, q) <=> Given(g, q) \/ q = j - 1
                => MapIs(x, {}, j)
      BY <1>15, ValueEnded
    <2>2. MapIs(g2, {}, j)  BY <1>12, <1>13, <1>14, <2>1
    <2>3. Entries(g2, j) = Entries(g, j)  BY <1>13 DEF Entries
    <2>4. QED  BY <2>2, <2>3
  <1>16. MapStays(g, g2, {}, {})  BY <1>13, <1>15 DEF MapStays
  <1>17. d[o] = v[Len(v)][2]  BY <1>4, <1>6 DEF Lastly, Half, o
  <1>18. Len(v) = Len(c) + i
    <2>1. Len(v) = Len(c) + Entries(g, n) /\ Len(c) \in Nat  BY <1>7 DEF Longer
    <2>2. Entries(g, n) = n  BY DEF Entries
    <2>3. QED  BY <1>8, <2>1, <2>2
  <1>19. m2[o][1] = v[Len(c) + i][2]  BY <1>17, <1>18 DEF FinishedAt, o
  <1>20. PendingTells(g, g2, v, Len(c), m2)
    <2> HIDE DEF v, c
    <2>1. g2.pending = [g.pending EXCEPT ![i].value = Some(o)]  BY <1>11, <1>13
    <2>2. i \in 1..Len(g.pending)  BY <1>9
    <2>3. QED  BY <1>19, <2>1, <2>2 DEF PendingTells
  <1>21. ~Busy(g2)  BY <1>13 DEF Busy
  <1>22. Passes(g, g2, d, {}, m, m2)  BY <1>12, <1>13, <1>21 DEF Passes, FinishedAt
  <1>23. PendingTells(g, g2, d[g.at], Len(m[g.at][1]), m2)  BY <1>20
  <1>24. Tells(g2, d, {}, m2)  BY <1>16, <1>22, <1>23, MapPasses
  <1>25. QED  BY <1>1, <1>24 DEF g2, o

-----------------------------------------------------------------------------
(* end, in strict mode *)

\* What Insert leaves of the memory.
LEMMA InsertedIs ==
    ASSUME NEW g, NEW a, NEW m, a \in DOMAIN m.at, m.at[a] # None, g.at \in DOMAIN m.at, a # g.at
    PROVE  LET m2 == Insert(m, g, a).at
               x == m.at[a][1]
               c == m.at[g.at] IN
           /\ (x \in ToSet(c[1]) /\ m2[g.at] = c) \/ m2[g.at] = Some(Append(c[1], x))
           /\ \A b \in DOMAIN m.at : b # a /\ b # g.at => m2[b] = m.at[b]
  <1> DEFINE m1 == Freed(Taken(m, {a}), {a})
             x == m.at[a][1]
             c == m.at[g.at]
             m2 == Insert(m, g, a)
  <1>1. \A b \in DOMAIN m.at : b # a => b \in DOMAIN m1.at /\ m1.at[b] = m.at[b]  BY DEF Freed, Taken
  <1>2. Holds(m, a)  BY DEF Holds
  <1>3. CASE x \in ToSet(c[1])
    <2>1. m2 = m1  BY <1>2, <1>3 DEF Insert
    <2> HIDE DEF m1, m2
    <2>2. m2.at[g.at] = c  BY <1>1, <2>1
    <2>3. \A b \in DOMAIN m.at : b # a => m2.at[b] = m.at[b]  BY <1>1, <2>1
    <2>4. QED  BY <1>3, <2>2, <2>3 DEF m2
  <1>4. CASE x \notin ToSet(c[1])
    <2>1. m2 = [m1 EXCEPT !.at[g.at] = Some(Append(@[1], x))]  BY <1>2, <1>4 DEF Insert
    <2>2. m1 = [at |-> m1.at, faults |-> m1.faults]  BY DEF Freed
    <2> HIDE DEF m1, m2
    <2>3. m2.at = [m1.at EXCEPT ![g.at] = Some(Append(m1.at[g.at][1], x))]  BY <2>1, <2>2
    <2>4. m2.at[g.at] = Some(Append(c[1], x))  BY <1>1, <2>3
    <2>5. \A b \in DOMAIN m.at : b # a /\ b # g.at => m2.at[b] = m.at[b]  BY <1>1, <2>3
    <2>6. QED  BY <2>4, <2>5 DEF m2
  <1>5. QED  BY <1>3, <1>4

\* What the completed place f leaves as it is.
LEMMA FinishLeaves ==
    ASSUME NEW f, FrameOK(f), NEW m, NEW m2, Became(m, m2, Allocations(f), f.at), f.at \in DOMAIN m
    PROVE  /\ \A a \in DOMAIN m : a # f.at /\ ~IsPart(a, f.at) => a \in DOMAIN m2 /\ m2[a] = m[a]
           /\ f.at \in DOMAIN m2 /\ m2[f.at] # None
  BY AllocationsAreParts DEF Became

\* What end does in strict mode, in terms of frames and places.
LEMMA EndStrictIs ==
    ASSUME CollectionsInv, EndStrict
    PROVE  LET F == FramesOf(stack, stored)
               P == PlacesOf(F)
               f == stack[Len(stack)]
               g == stack[Len(stack) - 1]
               o == Open(g)
               g2 == Ended(Take(g, o))
               m1 == Finish(Memory, f) IN
           /\ Building /\ StoredAt(stored) = {} /\ StoredAt(stored') = {}
           /\ UNCHANGED <<type, sets, said>>
           /\ f \in F /\ g \in F /\ f.at = o /\ IsPart(f.at, g.at) /\ f.at # g.at
           /\ StepOpen(g) \in StepSet /\ g.state \in {"Item", "Key", "Value"} /\ o \notin FinishedParts(g)
           /\ f.isInit /\ f.state = "Idle" /\ Bare(f, P) /\ \A b \in P : IsPart(b, g.at) => b = o
           /\ Sound(f, P, {}, mem) /\ Sound(g, P, {}, mem)
           /\ mem' = IF g.tracker = "Set" THEN Insert(m1, g, o).at ELSE m1.at
           /\ g2 \in FrameSet /\ g2.at = g.at =>
                FramesOf(stack', stored') = (F \ {f, g}) \cup {g2}
<1> DEFINE F == FramesOf(stack, stored)
           P == PlacesOf(F)
           f == stack[Len(stack)]
           g == stack[Len(stack) - 1]
           m == Memory
           m1 == Finish(m, f)
           o == Open(g)
           g2 == Ended(Take(g, o))
<1>0. /\ Active /\ mode = "Strict" /\ Len(stack) > 1 /\ Complete(f)
      /\ UNCHANGED <<type, mode, startDepth, stored, phase, sets, said>>
  BY DEF EndStrict, Top
<1>1. /\ Building /\ LiveOK(type, stack, stored, mem) /\ BuildingOK(stack, stored, mem)
      /\ Placed(stack, stored) /\ Owned(F, mem) /\ stack # << >>
      /\ m.at = mem /\ m.faults = {}
  BY <1>0, InMode, ActiveFacts
<1>2. DOMAIN stored = {} /\ StoredAt(stored) = {} /\ StoredAt(stored') = {}
  BY <1>0, InMode DEF StoredAt
<1>3. /\ f \in F /\ g \in F /\ FrameOK(f) /\ FrameOK(g)
      /\ IsPart(f.at, g.at) /\ f.at = o /\ f.at \in Steps
      /\ StepOpen(g) \in StepSet /\ Last(f.at) = StepOpen(g)
      /\ g.state \in {"Item", "Key", "Value"}
      /\ f.at # g.at /\ o \notin FinishedParts(g)
  BY <1>0, <1>1, Below
<1>4. /\ MemoryIs(IF g.tracker = "Set" THEN Insert(m1, g, f.at) ELSE m1)
      /\ stack' = [Pop(stack) EXCEPT ![Len(stack) - 1] = g2]
  <2>1. MemoryIs(IF g.tracker = "Set" THEN Insert(m1, g, f.at) ELSE m1)
    BY DEF EndStrict, Top
  <2>2. stack' = [Pop(stack) EXCEPT ![Len(stack) - 1] = Ended(Take(@, f.at))]
    BY DEF EndStrict, Top
  <2> DEFINE k == Len(stack) - 1
             r == Pop(stack)
  <2>3. r[k] = g /\ r \in Seq(FrameSet) /\ k \in 1..Len(r)
    <3>1. stack \in Seq(FrameSet) /\ Len(stack) \in Nat /\ k \in 1..Len(stack) - 1
      BY <1>0, <1>1, StackFacts DEF Placed
    <3> QED
      BY <1>1, <3>1, AllButLast DEF Pop
  <2>4. f.at = o
    BY <1>3
  <2> HIDE DEF f, o, g
  <2>5. stack' = [r EXCEPT ![k] = Ended(Take(r[k], o))]
    BY <2>2, <2>4
  <2> HIDE DEF r, k
  <2>6. stack' = [r EXCEPT ![k] = Ended(Take(g, o))]
    BY <2>3, <2>5
  <2> QED
    BY <2>1, <2>6 DEF r, k
<1>5. f.isInit /\ f.state = "Idle"
  BY <1>0 DEF Complete
<1>6. Sound(f, P, {}, mem) /\ Sound(g, P, {}, mem)
  BY <1>1, <1>2, <1>3 DEF BuildingOK
<1>7. Bare(f, P)
  BY <1>1, <1>2, TopIsBare
<1>8. \A b \in P : IsPart(b, g.at) => b = o
  BY <1>0, <1>1, <1>2, <1>3, OnlyTop
<1>9. mem' = IF g.tracker = "Set" THEN Insert(m1, g, o).at ELSE m1.at
  <2> HIDE DEF m1, o, g
  <2>1. MemoryIs(IF g.tracker = "Set" THEN Insert(m1, g, o) ELSE m1)  BY <1>3, <1>4
  <2> QED
    BY <2>1 DEF MemoryIs
<1>10. g2 \in FrameSet /\ g2.at = g.at => FramesOf(stack', stored') = (F \ {f, g}) \cup {g2}
  <2> SUFFICES ASSUME g2 \in FrameSet, g2.at = g.at PROVE FramesOf(stack', stored') = (F \ {f, g}) \cup {g2}
    OBVIOUS
  <2> DEFINE s2 == stack'
  <2>1. stored' = stored  BY <1>0
  <2>2. s2 = [Pop(stack) EXCEPT ![Len(stack) - 1] = g2]  BY <1>4
  <2>3. g2.at = stack[Len(stack) - 1].at /\ g2 \in FrameSet  OBVIOUS
  <2> HIDE DEF g2, s2
  <2>4. Returned(stack, s2, g2)  BY <1>0, <1>1, <2>2, <2>3, ReturnedIs
  <2>5. FramesOf(s2, stored) = (FramesOf(stack, stored) \ {stack[Len(stack)], stack[Len(stack) - 1]}) \cup {g2}
    BY <1>0, <1>1, <2>3, <2>4, StackReturned DEF Returned
  <2>6. QED  BY <2>1, <2>5 DEF s2
<1> HIDE DEF F, f, g, o, m1, g2, P, m
<1> QED
  BY <1>0, <1>1, <1>2, <1>3, <1>5, <1>6, <1>7, <1>8, <1>9, <1>10 DEF F, P, f, g, o, m1, g2, m

\* The set g takes x, or has it.
Joins(g, x, m, m2) ==
    (x \in ToSet(m[g.at][1]) /\ m2[g.at] = m[g.at]) \/ m2[g.at] = Some(Append(m[g.at][1], x))

LEMMA AppendedSet == ASSUME NEW c, IsSeq(c), NEW x PROVE ToSet(Append(c, x)) = ToSet(c) \cup {x}
  <1> DEFINE k == Len(c) + 1
             D == 1..Len(c)
  <1>1. /\ IsSeq(Append(c, x)) /\ Len(Append(c, x)) = Len(c) + 1
        /\ Append(c, x)[Len(c) + 1] = x /\ \A i \in 1..Len(c) : Append(c, x)[i] = c[i]
    BY AppendIs
  <1>2. Len(c) \in Nat /\ DOMAIN c = 1..Len(c) /\ DOMAIN Append(c, x) = 1..Len(c) + 1  BY <1>1, SeqFacts
  <1>3. k \in 1..k /\ (\A i \in 1..k : i \in D \/ i = k) /\ (\A i \in D : i \in 1..k)  BY <1>2
  <1>4. Append(c, x)[k] = x /\ \A i \in D : Append(c, x)[i] = c[i]  BY <1>1
  <1>5. ToSet(Append(c, x)) = {Append(c, x)[i] : i \in 1..k} /\ ToSet(c) = {c[i] : i \in D}  BY <1>2 DEF ToSet
  <1> HIDE DEF k, D
  <1>6. ASSUME NEW y \in ToSet(Append(c, x)) PROVE y \in ToSet(c) \cup {x}
    <2>1. PICK i \in 1..k : y = Append(c, x)[i]  BY <1>5
    <2>2. QED  BY <1>3, <1>4, <1>5, <2>1
  <1>7. ASSUME NEW y \in ToSet(c) PROVE y \in ToSet(Append(c, x))
    <2>1. PICK i \in D : y = c[i]  BY <1>5
    <2>2. y = Append(c, x)[i] /\ i \in 1..k  BY <1>3, <1>4, <2>1
    <2>3. QED  BY <1>5, <2>2
  <1>8. x \in ToSet(Append(c, x))  BY <1>3, <1>4, <1>5
  <1>9. QED  BY <1>6, <1>7, <1>8

\* What a set has once it took an element.
LEMMA SetTakes ==
    ASSUME NEW t, t[1] \in Kinds, t[2] \in Kinds,
           NEW g, FrameOK(g), Tracked(t, g), g.tracker = "Set", g.state = "Item",
           NEW f, FrameOK(f), f.at = Open(g), f.isInit,
           NEW d, NEW S, NEW S2, NEW m, NEW m2, NEW w, Tells(g, d, S, m), New(g, m),
           Grows(t, g, m, w), Grows(t, f, m, w), m[f.at] # None,
           NEW x, x = d[Open(g)], Joins(g, x, m, m2), g.at # Root => x = m[f.at][1]
    PROVE  LET g2 == Ended(g) IN
           /\ Tells(g2, d, S2, m2) /\ Grows(t, g2, m2, w) /\ New(g2, m2)
           /\ FrameOK(g2) /\ g2.at = g.at /\ g2.tracker = "Set" /\ g2.state = "Idle"
  <1> DEFINE g2 == Ended(g)
             c == m[g.at][1]
  <1>1. FrameOK(g2) /\ g2.at = g.at /\ g2.tracker = "Set" /\ g2.state = "Idle" /\ g2.isInit = g.isInit
    BY SetEnded
  <1>2. Busy(g)  BY DEF Busy
  <1>3. g.at # Root => x \notin ToSet(c)  BY <1>2 DEF New
  <1>4. (x \in ToSet(c) /\ m2[g.at] = m[g.at]) \/ m2[g.at] = Some(Append(c, x))  BY DEF Joins
  <1>5. IsSeq(c)  BY DEF Tells
  <1> HIDE DEF g2
  <1>6. Tells(g2, d, S2, m2)
    <2>1. /\ g2.at = g.at /\ g2.tracker = "Set" /\ g2.state = "Idle"
          /\ (x \in ToSet(m[g.at][1]) /\ m2[g.at] = m[g.at]) \/ m2[g.at] = Some(Append(m[g.at][1], x))
          /\ g.at # Root => x \notin ToSet(m[g.at][1])
      BY <1>1, <1>3, <1>4
    <2>2. QED  BY <2>1, SetPasses
  <1> HIDE DEF c
  <1>7. ~IsLeaf(g2) /\ ~IsLeaf(g)  BY <1>1 DEF FrameOK
  <1>8. Grows(t, g2, m2, w)
    <2> SUFFICES ASSUME Len(g.at) = 1, t[2] = "set" PROVE ToSet(m2[g.at][1]) \subseteq 0..w
      BY <1>1, <1>7 DEF Grows
    <2>1. g.isInit  BY DEF FrameOK
    <2>2. ToSet(c) \subseteq 0..w  BY <1>7, <2>1 DEF Grows, c
    <2>3. g.at # Root
      <3>1. SUFFICES ASSUME g.at = Root PROVE FALSE
        OBVIOUS
      <3>2. Len(g.at) = Len(Root)  BY <3>1
      <3>3. Len(g.at) = 0  BY <3>2, RootIs
      <3> DEFINE n == Len(g.at)
      <3>4. n = 0 /\ n = 1  BY <3>3
      <3> HIDE DEF n
      <3>5. QED  BY <3>4
    <2>4. IsLeaf(f)  BY <2>3, LeafInNested
    <2>5. x \in 0..w  BY <2>3, <2>4 DEF Grows
    <2>6. CASE m2[g.at] = m[g.at]
      BY <2>2, <2>6 DEF c
    <2>7. CASE m2[g.at] = Some(Append(c, x))
      <3>1. m2[g.at][1] = Append(c, x)  BY <2>7 DEF Some
      <3>2. ToSet(m2[g.at][1]) = ToSet(c) \cup {x}  BY <1>5, <3>1, AppendedSet
      <3>3. QED  BY <2>2, <2>5, <3>2
    <2>8. QED  BY <1>4, <2>6, <2>7
  <1>9. New(g2, m2)  BY <1>1 DEF New, Busy
  <1>10. QED  BY <1>1, <1>6, <1>8, <1>9 DEF g2

\* The parent takes over the child it is open for.
LEMMA StrictTells ==
    ASSUME NEW g, FrameOK(g), g.tracker \in {"List", "Map"}, g.state \in {"Item", "Key", "Value"},
           StepOpen(g) \in StepSet, NEW P, NEW mm, Sound(g, P, {}, mm), Open(g) \notin FinishedParts(g),
           \A b \in P : IsPart(b, g.at) => b = Open(g),
           NEW d, NEW m, NEW m2, Tells(g, d, {}, m), FinishedAt(g, d, m, m2)
    PROVE  Tells(Ended(Take(g, Open(g))), d, {}, m2)
  <1>1. CASE g.tracker = "List"
    <2>1. g.state = "Item"  BY <1>1 DEF FrameOK, StateOK
    <2>2. ListOK(g, P)  BY DEF Sound
    <2>3. QED  BY <1>1, <2>1, <2>2, StrictListTells
  <1>2. CASE g.tracker = "Map" /\ g.state = "Key"
    BY <1>2, StrictKeyTells
  <1>3. CASE g.tracker = "Map" /\ g.state # "Key"
    <2>1. g.state = "Value"  BY <1>3 DEF FrameOK, StateOK
    <2>2. QED  BY <1>3, <2>1, StrictValueTells
  <1>4. QED  BY <1>1, <1>2, <1>3

\* What is known when f goes over to its parent g on the stack, in strict mode.
StrictlyEnds(t, s, st, m, d, w, f, g, m1, m2) ==
    LET F == FramesOf(s, st)
        P == PlacesOf(F) IN
    /\ LiveOK(t, s, st, m) /\ BuildingOK(s, st, m) /\ StoredAt(st) = {} /\ t[1] \in Kinds /\ t[2] \in Kinds
    /\ f \in F /\ g \in F /\ f.at = Open(g) /\ IsPart(f.at, g.at) /\ f.at # g.at
    /\ StepOpen(g) \in StepSet /\ g.state \in {"Item", "Key", "Value"} /\ Open(g) \notin FinishedParts(g)
    /\ f.isInit /\ f.state = "Idle" /\ Bare(f, P) /\ \A b \in P : IsPart(b, g.at) => b = Open(g)
    /\ Sound(f, P, {}, m) /\ Sound(g, P, {}, m)
    /\ w \in Nat /\ TellsAll(t, F, d, {}, m, w)
    /\ Became(m, m1, Allocations(f), f.at) /\ SaysIt(f, d[f.at], m1[f.at][1])
    /\ IsLeaf(f) => m1[f.at] = m[f.at]
    /\ IF g.tracker = "Set"
       THEN Joins(g, m1[f.at][1], m1, m2) /\ \A a \in DOMAIN m1 : a # f.at /\ a # g.at => m2[a] = m1[a]
       ELSE m2 = m1

\* What the completed place left as it was, and what it holds now.
LEMMA StrictlyFacts ==
    ASSUME NEW t, NEW s, NEW st, NEW m, NEW d, NEW w, NEW f, NEW g, NEW m1, NEW m2,
           StrictlyEnds(t, s, st, m, d, w, f, g, m1, m2)
    PROVE  /\ FrameOK(f) /\ FrameOK(g) /\ Tracked(t, g) /\ Owned(FramesOf(s, st), m)
           /\ \A a \in DOMAIN m : a # f.at /\ ~IsPart(a, f.at) => a \in DOMAIN m1 /\ m1[a] = m[a]
           /\ g.at \in DOMAIN m1 /\ m1[g.at] = m[g.at]
           /\ \A a \in FinishedParts(g) : a \in DOMAIN m /\ a # f.at /\ a # g.at /\ ~IsPart(a, f.at)
           /\ m1[f.at][1] = d[f.at] /\ m[f.at] # None
           /\ Tells(g, d, {}, m) /\ Grows(t, g, m, w) /\ New(g, m) /\ Grows(t, f, m, w)
  <1> DEFINE F == FramesOf(s, st)
             P == PlacesOf(F)
  <1>1. /\ LiveOK(t, s, st, m) /\ StoredAt(st) = {}
        /\ f \in F /\ g \in F /\ f.at = Open(g) /\ IsPart(f.at, g.at) /\ f.at # g.at /\ f.isInit
        /\ TellsAll(t, F, d, {}, m, w)
        /\ Became(m, m1, Allocations(f), f.at) /\ SaysIt(f, d[f.at], m1[f.at][1])
    BY DEF StrictlyEnds
  <1>2. Owned(F, m) /\ \A h \in F : FrameOK(h) /\ Tracked(t, h) /\ h.at \in Steps  BY <1>1, LiveFacts
  <1>3. FrameOK(f) /\ FrameOK(g) /\ Tracked(t, g) /\ f.at \in Steps /\ g.at \in Steps  BY <1>1, <1>2
  <1>4. /\ OwnOK(f, P, m) /\ OwnOK(g, P, m) /\ f.at \in DOMAIN m /\ g.at \in DOMAIN m /\ f.at \in P /\ g.at \in P
    BY <1>1, <1>2, OwnedFacts
  <1>5. \A a \in DOMAIN m : a # f.at /\ ~IsPart(a, f.at) => a \in DOMAIN m1 /\ m1[a] = m[a]
    BY <1>1, <1>3, <1>4, FinishLeaves
  <1>6. ~IsPart(g.at, f.at)
    <2>1. Len(f.at) = Len(g.at) + 1 /\ Len(g.at) \in Nat  BY <1>1, <1>3, Parent DEF IsPart
    <2>2. ASSUME IsPart(g.at, f.at) PROVE FALSE
      <3>1. Len(g.at) = Len(f.at) + 1 /\ Len(f.at) \in Nat
        BY <1>3, <2>2, Parent DEF IsPart
      <3>2. QED  BY <2>1, <3>1
    <2>3. QED  BY <2>2
  <1>7. g.at \in DOMAIN m1 /\ m1[g.at] = m[g.at]  BY <1>1, <1>4, <1>5, <1>6
  <1>8. ASSUME NEW a \in FinishedParts(g) PROVE a \in DOMAIN m /\ a # f.at /\ a # g.at /\ ~IsPart(a, f.at)
    <2>1. a \in DOMAIN m /\ a \notin P  BY <1>4 DEF OwnOK
    <2>2. a \in Allocations(g)  BY DEF Allocations
    <2>3. IsPart(a, g.at)  BY <1>3, <2>2, AllocationsAreParts
    <2>4. QED  BY <1>1, <1>4, <2>1, <2>3 DEF IsPart
  <1>9. f.at # Root  BY <1>1 DEF IsPart
  <1>10. m1[f.at][1] = d[f.at]  BY <1>1, <1>9 DEF SaysIt
  <1>11. m[f.at] # None  BY <1>1, <1>4 DEF OwnOK
  <1>12. Tells(g, d, {}, m) /\ Grows(t, g, m, w) /\ New(g, m) /\ Grows(t, f, m, w)  BY <1>1, ToldFacts
  <1> HIDE DEF F, P
  <1>13. QED  BY <1>2, <1>3, <1>5, <1>7, <1>8, <1>10, <1>11, <1>12 DEF F

LEMMA StrictlyTells ==
    ASSUME NEW t, NEW s, NEW st, NEW m, NEW d, NEW w, NEW f, NEW g, NEW m1, NEW m2,
           StrictlyEnds(t, s, st, m, d, w, f, g, m1, m2)
    PROVE  LET g2 == Ended(Take(g, Open(g))) IN
           /\ Tells(g2, d, {}, m2) /\ Grows(t, g2, m2, w) /\ New(g2, m2)
           /\ FrameOK(g2) /\ g2.at = g.at
  <1> DEFINE g2 == Ended(Take(g, Open(g)))
             P == PlacesOf(FramesOf(s, st))
  <1>1. /\ FrameOK(f) /\ FrameOK(g) /\ Tracked(t, g) /\ Owned(FramesOf(s, st), m)
        /\ \A a \in DOMAIN m : a # f.at /\ ~IsPart(a, f.at) => a \in DOMAIN m1 /\ m1[a] = m[a]
        /\ g.at \in DOMAIN m1 /\ m1[g.at] = m[g.at]
        /\ \A a \in FinishedParts(g) : a \in DOMAIN m /\ a # f.at /\ a # g.at /\ ~IsPart(a, f.at)
        /\ m1[f.at][1] = d[f.at] /\ m[f.at] # None
        /\ Tells(g, d, {}, m) /\ Grows(t, g, m, w) /\ New(g, m) /\ Grows(t, f, m, w)
    BY StrictlyFacts
  <1>2. /\ t[1] \in Kinds /\ t[2] \in Kinds /\ f.at = Open(g) /\ f.isInit
        /\ StepOpen(g) \in StepSet /\ g.state \in {"Item", "Key", "Value"} /\ Open(g) \notin FinishedParts(g)
        /\ \A b \in P : IsPart(b, g.at) => b = Open(g)
        /\ Sound(g, P, {}, m) /\ w \in Nat
        /\ IsLeaf(f) => m1[f.at] = m[f.at]
        /\ IF g.tracker = "Set"
           THEN Joins(g, m1[f.at][1], m1, m2) /\ \A a \in DOMAIN m1 : a # f.at /\ a # g.at => m2[a] = m1[a]
           ELSE m2 = m1
    BY DEF StrictlyEnds
  <1> HIDE DEF P
  <1>3. CASE g.tracker = "Set"
    <2>1. g.state = "Item"  BY <1>1, <1>2, <1>3 DEF FrameOK, StateOK
    <2>2. Take(g, Open(g)) = g  BY <1>3, <2>1 DEF Take
    <2>3. Joins(g, d[f.at], m, m2)  BY <1>1, <1>2, <1>3 DEF Joins
    <2>4. d[f.at] = d[Open(g)]  BY <1>2
    <2>5. g.at # Root => d[f.at] = m[f.at][1]
      <3>1. g.at # Root => IsLeaf(f)  BY <1>1, <1>2, <1>3, LeafInNested
      <3>2. QED  BY <1>1, <1>2, <3>1
    <2>6. LET h == Ended(g) IN
          /\ Tells(h, d, {}, m2) /\ Grows(t, h, m2, w) /\ New(h, m2)
          /\ FrameOK(h) /\ h.at = g.at /\ h.tracker = "Set" /\ h.state = "Idle"
      BY <1>1, <1>2, <1>3, <2>1, <2>3, <2>4, <2>5, SetTakes
    <2>7. QED  BY <2>2, <2>6
  <1>4. CASE g.tracker # "Set"
    <2>1. g.tracker \in {"List", "Map"}  BY <1>1, <1>2, <1>4 DEF FrameOK, StateOK
    <2>2. m2 = m1  BY <1>2, <1>4
    <2>3. FinishedAt(g, d, m, m2)
      <3>1. \A a \in FinishedParts(g) : m1[a] = m[a]  BY <1>1
      <3>2. QED  BY <1>1, <1>2, <2>2, <3>1 DEF FinishedAt
    <2>4. Tells(g2, d, {}, m2)  BY <1>1, <1>2, <2>1, <2>3, StrictTells
    <2>5. LET h == Ended(Take(g, Open(g))) IN
          /\ TakesOver(g, Open(g), h) /\ h.state \in {"Idle", "KeyDone"}
          /\ ListOK(h, P \ {Open(g)}) /\ MapOK(h, {})
      BY <1>1, <1>2, <2>1, StrictTakes
    <2>6. FrameOK(g2) /\ g2.at = g.at /\ g2.isInit = g.isInit /\ g2.state \in {"Idle", "KeyDone"}
      BY <2>5 DEF TakesOver
    <2> HIDE DEF g2
    <2>7. Grows(t, g2, m2, w)
      <3>1. m2[g.at] = m[g.at] /\ w <= w /\ w \in Nat  BY <1>1, <1>2, <2>2
      <3>2. QED  BY <1>1, <2>6, <3>1, StillGrows
    <2>8. New(g2, m2)  BY <2>6 DEF New, Busy
    <2>9. QED  BY <2>4, <2>6, <2>7, <2>8 DEF g2
  <1>5. QED  BY <1>3, <1>4

LEMMA StrictlyTold ==
    ASSUME NEW t, NEW s, NEW st, NEW m, NEW d, NEW w, NEW f, NEW g, NEW m1, NEW m2,
           StrictlyEnds(t, s, st, m, d, w, f, g, m1, m2),
           NEW g2, g2.at = g.at, Tells(g2, d, {}, m2), Grows(t, g2, m2, w), New(g2, m2),
           NEW F2, F2 = (FramesOf(s, st) \ {f, g}) \cup {g2}
    PROVE  TellsAll(t, F2, d, {}, m2, w)
  <1> DEFINE F == FramesOf(s, st)
  <1>1. /\ LiveOK(t, s, st, m) /\ BuildingOK(s, st, m) /\ StoredAt(st) = {} /\ t[1] \in Kinds /\ t[2] \in Kinds
        /\ f \in F /\ g \in F /\ IsPart(f.at, g.at) /\ f.state = "Idle" /\ Bare(f, PlacesOf(F))
        /\ w \in Nat /\ TellsAll(t, F, d, {}, m, w) /\ g.state \in {"Item", "Key", "Value"}
        /\ IF g.tracker = "Set"
           THEN Joins(g, m1[f.at][1], m1, m2) /\ \A a \in DOMAIN m1 : a # f.at /\ a # g.at => m2[a] = m1[a]
           ELSE m2 = m1
    BY DEF StrictlyEnds
  <1>2. FrameOK(g) /\ \A a \in DOMAIN m : a # f.at /\ ~IsPart(a, f.at) => a \in DOMAIN m1 /\ m1[a] = m[a]
    BY StrictlyFacts
  <1>3. \A a \in DOMAIN m : a # f.at /\ ~IsPart(a, f.at) /\ a # g.at => m2[a] = m[a]  BY <1>1, <1>2
  <1>4. ~Busy(f)  BY <1>1 DEF Busy
  <1>5. HandsOver(F, F2, {}, {}, m, m2, f, g, g2)
    <2>1. \A h \in F2 : h = g2 \/ (h \in F /\ h # g /\ h # f)  OBVIOUS
    <2> HIDE DEF F
    <2>2. QED  BY <1>1, <1>3, <1>4, <2>1 DEF HandsOver
  <1>6. g.tracker # "Scalar"  BY <1>1, <1>2 DEF FrameOK, StateOK
  <1> HIDE DEF F
  <1>7. /\ HandsOver(FramesOf(s, st), F2, StoredAt(st), {}, m, m2, f, g, g2)
        /\ TellsAll(t, FramesOf(s, st), d, StoredAt(st), m, w)
    BY <1>1, <1>5 DEF F
  <1>8. QED  BY <1>1, <1>6, <1>7, HandedTold

\* end, in strict mode: the collection counts the element that was described last.
LEMMA EndStrictTold ==
    ASSUME CollectionsInv, DescriptionInv, EndStrict
    PROVE  ToldNext
  <1> DEFINE F == FramesOf(stack, stored)
             P == PlacesOf(F)
             f == stack[Len(stack)]
             g == stack[Len(stack) - 1]
             o == Open(g)
             g2 == Ended(Take(g, o))
             m1 == Finish(Memory, f)
             w == 3 * sets
             F2 == FramesOf(stack', stored')
             m2 == mem'
  <1>1. /\ Building /\ StoredAt(stored) = {} /\ StoredAt(stored') = {}
        /\ UNCHANGED <<type, sets, said>>
        /\ f \in F /\ g \in F /\ f.at = o /\ IsPart(f.at, g.at) /\ f.at # g.at
        /\ StepOpen(g) \in StepSet /\ g.state \in {"Item", "Key", "Value"} /\ o \notin FinishedParts(g)
        /\ f.isInit /\ f.state = "Idle" /\ Bare(f, P) /\ \A b \in P : IsPart(b, g.at) => b = o
        /\ Sound(f, P, {}, mem) /\ Sound(g, P, {}, mem)
        /\ m2 = IF g.tracker = "Set" THEN Insert(m1, g, o).at ELSE m1.at
        /\ g2 \in FrameSet /\ g2.at = g.at => F2 = (F \ {f, g}) \cup {g2}
    BY EndStrictIs
  <1>2. /\ LiveOK(type, stack, stored, mem) /\ BuildingOK(stack, stored, mem)
        /\ Owned(F, mem) /\ Memory.at = mem /\ Memory.faults = {}
    BY <1>1, ActiveFacts
  <1>3. type[1] \in Kinds /\ type[2] \in Kinds  BY TypeIs
  <1>4. PICK d : d[Root] = said /\ TellsAll(type, F, d, StoredAt(stored), mem, w)  BY <1>1, InvTold
  <1>5. w \in Nat  BY DEF DescriptionInv
  <1>6. FrameOK(f) /\ OwnOK(f, P, mem) /\ FrameOK(g) /\ g.at \in DOMAIN mem /\ f.at \in DOMAIN mem
    BY <1>1, <1>2, OwnedFacts
  <1> HIDE DEF F, P, f, g, o, g2, w, F2, m2
  <1>7. Tells(f, d, {}, mem)  BY <1>1, <1>4, ToldFacts
  <1>8. Became(mem, m1.at, Allocations(f), f.at) /\ SaysIt(f, d[f.at], m1.at[f.at][1])
    <2>1. /\ Became(Memory.at, Finish(Memory, f).at, Allocations(f), f.at)
          /\ SaysIt(f, d[f.at], Finish(Memory, f).at[f.at][1])
          /\ f.tracker # "Scalar" => IsSeq(Finish(Memory, f).at[f.at][1])
          /\ Finish(Memory, f).faults = {}
      <3>1. ListOK(f, P)  BY <1>1 DEF Sound
      <3>2. Memory.faults = {} /\ OwnOK(f, P, Memory.at) /\ Tells(f, d, {}, Memory.at)
        BY <1>2, <1>6, <1>7
      <3>3. \A a \in {} : ~IsPart(a, f.at)  OBVIOUS
      <3>4. QED  BY <1>1, <3>1, <3>2, <3>3, FinishSays
    <2>2. QED  BY <1>2, <2>1
  <1>9. IsLeaf(f) => m1.at[f.at] = mem[f.at]
    <2>1. IsLeaf(f) => f.tracker = "Scalar"  BY <1>6 DEF FrameOK
    <2>2. QED  BY <1>2, <2>1 DEF Finish
  <1>10. IF g.tracker = "Set"
         THEN Joins(g, m1.at[f.at][1], m1.at, m2) /\ \A a \in DOMAIN m1.at : a # f.at /\ a # g.at => m2[a] = m1.at[a]
         ELSE m2 = m1.at
    <2> HIDE DEF m1
    <2>1. CASE g.tracker # "Set"
      BY <1>1, <2>1
    <2>2. CASE g.tracker = "Set"
      <3>1. /\ \A a \in DOMAIN mem : a # f.at /\ ~IsPart(a, f.at) => a \in DOMAIN m1.at /\ m1.at[a] = mem[a]
            /\ f.at \in DOMAIN m1.at /\ m1.at[f.at] # None
        BY <1>6, <1>8, FinishLeaves
      <3>2. ~IsPart(g.at, f.at)
        <4>1. f.at \in Steps /\ g.at \in Steps  BY <1>6 DEF FrameOK, FrameSet, Places
        <4>2. Len(f.at) = Len(g.at) + 1 /\ Len(g.at) \in Nat  BY <1>1, <4>1, Parent DEF IsPart
        <4>3. ASSUME IsPart(g.at, f.at) PROVE FALSE
          <5>1. Len(g.at) = Len(f.at) + 1 /\ Len(f.at) \in Nat  BY <4>1, <4>3, Parent DEF IsPart
          <5>2. QED  BY <4>2, <5>1
        <4>4. QED  BY <4>3
      <3>3. g.at \in DOMAIN m1.at  BY <1>1, <1>6, <3>1, <3>2
      <3>4. LET n == Insert(m1, g, f.at).at
                x == m1.at[f.at][1]
                c == m1.at[g.at] IN
            /\ (x \in ToSet(c[1]) /\ n[g.at] = c) \/ n[g.at] = Some(Append(c[1], x))
            /\ \A b \in DOMAIN m1.at : b # f.at /\ b # g.at => n[b] = m1.at[b]
        BY <1>1, <3>1, <3>3, InsertedIs
      <3>5. m2 = Insert(m1, g, f.at).at  BY <1>1, <2>2
      <3>6. QED  BY <2>2, <3>4, <3>5 DEF Joins
    <2>3. QED  BY <2>1, <2>2
  <1> HIDE DEF m1
  <1>11. StrictlyEnds(type, stack, stored, mem, d, w, f, g, m1.at, m2)
    BY <1>1, <1>2, <1>3, <1>4, <1>5, <1>8, <1>9, <1>10 DEF StrictlyEnds, F, P, o
  <1>12. LET h == Ended(Take(g, Open(g))) IN
         /\ Tells(h, d, {}, m2) /\ Grows(type, h, m2, w) /\ New(h, m2)
         /\ FrameOK(h) /\ h.at = g.at
    BY <1>11, StrictlyTells
  <1>13. Tells(g2, d, {}, m2) /\ Grows(type, g2, m2, w) /\ New(g2, m2) /\ FrameOK(g2) /\ g2.at = g.at
    BY <1>12 DEF g2, o
  <1>14. F2 = (FramesOf(stack, stored) \ {f, g}) \cup {g2}  BY <1>1, <1>13 DEF FrameOK, F
  <1>15. TellsAll(type, F2, d, {}, m2, w)  BY <1>11, <1>13, <1>14, StrictlyTold
  <1>16. Told(type, stack', stored', m2, w, said)  BY <1>1, <1>4, <1>15 DEF Told, F2
  <1>17. QED  BY <1>1, <1>16 DEF ToldNext, w, m2

-----------------------------------------------------------------------------
(* end, in deferred mode *)

\* The element that was begun last is stored: v says of it what it says of the
\* element with the number in its step.
CountedLast(g, d, m) ==
    LET v == d[g.at]
        c == m[g.at][1]
        x == StepOpen(g) IN
    Len(v) = Len(c) + x[2] + 1

LEMMA StoredListTells ==
    ASSUME NEW g, FrameOK(g), g.tracker = "List", g.state = "Item", StepOpen(g) \in StepSet,
           NEW S, NEW d, NEW m, Tells(g, d, S, m)
    PROVE  CountedLast(g, d, m)
  <1> DEFINE v == d[g.at]
             c == m[g.at][1]
  <1>1. ListTells(g, v, c, m)  BY DEF Tells
  <1>2. Len(v) = Len(c) + RopeLen(g) /\ Len(c) \in Nat  BY <1>1 DEF ListTells, Longer
  <1>3. StepOpen(g) = <<"item", RopeLen(g) - 1>>  BY DEF StepOpen
  <1>4. StepOpen(g)[2] = RopeLen(g) - 1  BY <1>3
  <1>5. RopeLen(g) \in Nat  BY FrameFacts
  <1> HIDE DEF v, c
  <1>6. Len(v) = Len(c) + (RopeLen(g) - 1) + 1  BY <1>2, <1>5
  <1>7. QED  BY <1>4, <1>6 DEF CountedLast, v, c

LEMMA StoredMapTells ==
    ASSUME NEW g, FrameOK(g), g.tracker = "Map", g.state \in {"Key", "Value"}, g.cur = Some(StepOpen(g)),
           StepOpen(g) \in StepSet, NEW S, NEW d, NEW m, Tells(g, d, S, m), Tied(g, S)
    PROVE  /\ CountedLast(g, d, m)
           /\ MapStays(g, Ended(g), S, S \cup {Open(g)})
  <1> DEFINE v == d[g.at]
             c == m[g.at][1]
             g2 == Ended(g)
             x == StepOpen(g)
             o == Open(g)
  <1>1. MapTells(g, v, c, S, m)  BY DEF Tells
  <1>2. PICK n \in Nat : MapIs(g, S, n) /\ Longer(v, c, Entries(g, n))  BY <1>1 DEF MapTells
  <1>3. \A j \in Nat : MapIs(g, S, j) => /\ g.state = "Key" => g.cur[1][2] = j
                                         /\ g.state = "Value" => g.cur[1][2] = j - 1
    BY DEF Tied
  <1>4. g.cur[1] = x  BY DEF Some, StepOpen
  <1>5. g2.at = g.at /\ g2.pending = g.pending /\ g2.state = IF g.state = "Key" THEN "KeyDone" ELSE "Idle"
    BY EndedIs
  <1>6. Len(v) = Len(c) + Entries(g, n) /\ Len(c) \in Nat  BY <1>2 DEF Longer
  <1> HIDE DEF g2, v, c
  <1>7. CASE g.state = "Key"
    <2>1. x[2] = n  BY <1>2, <1>3, <1>4, <1>7
    <2>2. Entries(g, n) = n + 1  BY <1>7 DEF Entries
    <2>3. Len(v) = Len(c) + x[2] + 1
      <3> HIDE DEF x
      <3>1. QED  BY <1>6, <2>1, <2>2
    <2>4. PICK k \in Nat : g.cur = Some(<<"key", k>>)  BY <1>7 DEF FrameOK, StateOK
    <2>5. x = <<"key", k>>  BY <1>4, <2>4 DEF Some
    <2>6. ASSUME NEW j \in Nat, MapIs(g, S, j)
          PROVE  \E n2 \in Nat : MapIs(g2, S \cup {o}, n2) /\ Entries(g2, n2) = Entries(g, j)
      <3>1. x[2] = j  BY <1>3, <1>4, <1>7, <2>6
      <3>2. x = <<"key", j>>  BY <2>5, <3>1
      <3>3. o = Part(g, "key", j)  BY <3>2 DEF Open, Part
      <3> HIDE DEF o, x
      <3>4. g2.state = "KeyDone"  BY <1>5, <1>7
      <3>5. MapIs(g2, S \cup {Part(g, "key", j)}, j + 1)  BY <1>5, <1>7, <2>6, <3>4, KeyStored
      <3>6. Entries(g2, j + 1) = Entries(g, j)  BY <1>7, <3>4 DEF Entries
      <3>7. QED  BY <3>3, <3>5, <3>6
    <2>7. MapStays(g, g2, S, S \cup {o})  BY <1>7, <2>6 DEF MapStays
    <2>8. QED  BY <2>3, <2>7 DEF CountedLast, v, c, g2
  <1>8. CASE g.state = "Value"
    <2>1. x[2] = n - 1  BY <1>2, <1>3, <1>4, <1>8
    <2>2. Entries(g, n) = n  BY <1>8 DEF Entries
    <2>3. Len(v) = Len(c) + x[2] + 1
      <3> HIDE DEF x
      <3>1. QED  BY <1>6, <2>1, <2>2
    <2>4. PICK k \in Nat : g.cur = Some(<<"value", k>>)  BY <1>8 DEF FrameOK, StateOK
    <2>5. x = <<"value", k>>  BY <1>4, <2>4 DEF Some
    <2>51. g2.state = "Idle"  BY <1>5, <1>8
    <2>6. ASSUME NEW j \in Nat, MapIs(g, S, j)
          PROVE  \E n2 \in Nat : MapIs(g2, S \cup {o}, n2) /\ Entries(g2, n2) = Entries(g, j)
      <3>1. x[2] = j - 1  BY <1>3, <1>4, <1>8, <2>6
      <3>2. x = <<"value", j - 1>>  BY <2>5, <3>1
      <3>3. o = Part(g, "value", j - 1)  BY <3>2 DEF Open, Part
      <3> HIDE DEF o, x
      <3>5. MapIs(g2, S \cup {Part(g, "value", j - 1)}, j)  BY <1>5, <1>8, <2>6, <2>51, ValueStored
      <3>6. Entries(g2, j) = Entries(g, j)  BY <1>8, <2>51 DEF Entries
      <3>7. QED  BY <3>3, <3>5, <3>6
    <2>7. MapStays(g, g2, S, S \cup {o})  BY <2>51, <2>6 DEF MapStays
    <2>8. QED  BY <2>3, <2>7 DEF CountedLast, v, c, g2
  <1>9. QED  BY <1>7, <1>8

\* The parent leaves the child it was open for to storage.
LEMMA StoredTells ==
    ASSUME NEW g, FrameOK(g), g.tracker # "Set", g.state \in {"Item", "Key", "Value"}, g.cur = Some(StepOpen(g)),
           StepOpen(g) \in StepSet, NEW S, NEW d, NEW m, Tells(g, d, S, m), Tied(g, S)
    PROVE  Tells(Ended(g), d, S \cup {Open(g)}, m)
  <1> DEFINE v == d[g.at]
             c == m[g.at][1]
             g2 == Ended(g)
             S2 == S \cup {Open(g)}
  <1>1. /\ FrameOK(g2) /\ g2.at = g.at /\ g2.tracker = g.tracker /\ g2.rope = g.rope /\ g2.pending = g.pending
        /\ g2.state = IF g.state = "Key" THEN "KeyDone" ELSE "Idle"
    BY EndedIs
  <1> HIDE DEF g2
  <1>2. RopeLen(g2) = RopeLen(g) /\ Marked(g2) = Marked(g)  BY <1>1 DEF RopeLen, Marked
  <1>3. (g.tracker = "List" /\ g.state = "Item") \/ (g.tracker = "Map" /\ g.state \in {"Key", "Value"})
    BY DEF FrameOK, StateOK
  <1>4. CountedLast(g, d, m)  BY <1>3, StoredListTells, StoredMapTells
  <1>5. ~Busy(g2)  BY <1>1 DEF Busy
  <1>6. Passes(g, g2, d, S2, m, m)
    <2>1. ASSUME NEW x \in StepSet, Append(g.at, x) \in S2 PROVE d[Append(g.at, x)] = Counted(c, v, x)
      <3>1. CASE Append(g.at, x) \in S
        BY <3>1 DEF Tells
      <3>2. CASE Append(g.at, x) = Open(g)
        <4>1. g.at \in Steps  BY DEF FrameOK, FrameSet, Places
        <4>2. x = StepOpen(g)
          <5>1. Last(Append(g.at, x)) = x /\ Last(Append(g.at, StepOpen(g))) = StepOpen(g)  BY <4>1, Child
          <5>2. QED  BY <3>2, <5>1 DEF Open
        <4>3. Busy(g)  BY DEF Busy
        <4>4. d[Open(g)] = Lastly(v, x)  BY <4>2, <4>3 DEF Tells
        <4>5. Len(v) = Len(c) + x[2] + 1  BY <1>4, <4>2 DEF CountedLast
        <4>6. QED  BY <3>2, <4>4, <4>5 DEF Counted, Lastly
      <3>3. QED  BY <2>1, <3>1, <3>2
    <2>2. QED  BY <1>1, <1>5, <2>1 DEF Passes
  <1> HIDE DEF S2
  <1>7. ASSUME g.tracker = "List" PROVE Tells(g2, d, S2, m)
    BY <1>2, <1>6, <1>7, ListPasses
  <1>8. ASSUME g.tracker = "Map" PROVE Tells(g2, d, S2, m)
    <2>1. g.state \in {"Key", "Value"}  BY <1>3, <1>8
    <2>2. MapStays(g, Ended(g), S, S \cup {Open(g)})  BY <1>8, <2>1, StoredMapTells
    <2>3. MapStays(g, g2, S, S2)  BY <2>2 DEF g2, S2
    <2>4. PendingTells(g, g2, d[g.at], Len(m[g.at][1]), m)  BY <1>1 DEF PendingTells
    <2>5. QED  BY <1>6, <1>8, <2>3, <2>4, MapPasses
  <1>9. QED  BY <1>3, <1>7, <1>8 DEF g2, S2

\* What end does in deferred mode, in terms of frames and places.
LEMMA EndDeferredIs ==
    ASSUME CollectionsInv, EndDeferred
    PROVE  LET F == FramesOf(stack, stored)
               f == stack[Len(stack)]
               g == stack[Len(stack) - 1] IN
           /\ Building /\ UNCHANGED <<type, sets, said, mem>> /\ Len(stack) > 1
           /\ f \in F /\ g \in F /\ f.at = Open(g) /\ IsPart(f.at, g.at) /\ f.state \in {"Idle", "KeyDone"}
           /\ StepOpen(g) \in StepSet /\ g.state \in {"Item", "Key", "Value"} /\ g.tracker # "Set"
           /\ g.cur = Some(StepOpen(g)) /\ Tied(g, StoredAt(stored))
           /\ FramesOf(stack', stored') = (F \ {g}) \cup {Ended(g)}
           /\ StoredAt(stored') = StoredAt(stored) \cup {f.at}
<1> DEFINE f == stack[Len(stack)]
           g == stack[Len(stack) - 1]
           g2 == Ended(g)
           p == StoragePath
           d == startDepth
           F == FramesOf(stack, stored)
<1>0. /\ Active /\ mode = "Deferred" /\ Len(stack) > 1 /\ Len(stack) > d /\ g.tracker # "Set"
      /\ UNCHANGED <<type, mode, startDepth, phase, sets, said>>
  BY DEF EndDeferred
<1>1. /\ LiveOK(type, stack, stored, mem) /\ BuildingOK(stack, stored, mem)
      /\ Placed(stack, stored) /\ Top = f /\ Building
      /\ Memory.at = mem /\ Memory.faults = {} /\ DeferringOK(stack, stored, d)
      /\ Len(stack) \in Nat
  BY <1>0, InMode, ActiveFacts
<1>2. d < Len(stack)
  BY <1>0, <1>1 DEF DeferringOK
<1>3. PathOf(stack, stored, d, p)
  <2> HIDE DEF d, p, g
  <2>1. PathOf(stack, stored, d, StoragePath)
    BY <1>0, <1>1, <1>2, StoragePathIs DEF g
  <2> QED
    BY <2>1 DEF p
<1>4. p \notin DOMAIN stored
  BY <1>3 DEF PathOf
<1>5. mem' = mem
  <2>1. MemoryIs(Displaced(Memory))
    BY DEF EndDeferred
  <2>2. Displaced(Memory) = Memory
    BY <1>4 DEF Displaced
  <2> QED
    BY <1>1, <2>1, <2>2 DEF MemoryIs
<1>6. Stores(stored, stored', p, f)
  <2>1. stored' = [q \in DOMAIN stored \cup {p} |-> IF q = p THEN f ELSE stored[q]]
    BY <1>1 DEF EndDeferred, Stored
  <2> HIDE DEF p, f
  <2> QED
    BY <2>1 DEF Stores
<1>7. /\ f \in F /\ g \in F /\ FrameOK(g) /\ f.at = Open(g) /\ IsPart(f.at, g.at) /\ f.state \in {"Idle", "KeyDone"}
      /\ StepOpen(g) \in StepSet /\ g.state \in {"Item", "Key", "Value"}
  BY <1>0, <1>1, Below
<1>8. /\ g2 \in FrameSet /\ g2.at = g.at /\ g2.state \in {"Idle", "KeyDone"}
  BY <1>7, EndedIs DEF FrameOK
<1>9. Returned(stack, stack', g2)
  <2> DEFINE k == Len(stack) - 1
             r == Pop(stack)
  <2>1. stack' = [r EXCEPT ![k] = Ended(@)]
    BY DEF EndDeferred
  <2>2. r[k] = g /\ r \in Seq(FrameSet) /\ k \in 1..Len(r)
    <3>1. stack \in Seq(FrameSet) /\ Len(stack) \in Nat /\ k \in 1..Len(stack) - 1
      BY <1>0, <1>1, StackFacts DEF Placed
    <3>2. stack # << >>
      BY <1>0, <3>1, EmptySeq
    <3> QED
      BY <3>1, <3>2, AllButLast DEF Pop
  <2> HIDE DEF r, k, g
  <2>3. stack' = [r EXCEPT ![k] = Ended(g)]
    BY <2>1, <2>2
  <2> HIDE DEF g2
  <2>6. Returned(stack, [Pop(stack) EXCEPT ![Len(stack) - 1] = g2], g2)
    BY <1>0, <1>1, <1>8, ReturnedIs
  <2> QED
    BY <2>3, <2>6 DEF g2, r, k
<1>10. g.cur = Some(StepOpen(g)) /\ Tied(g, StoredAt(stored))
  <2> DEFINE i == Len(stack) - 1
  <2>1. i \in d..Len(stack) - 1
    BY <1>1, <1>2 DEF DeferringOK
  <2> HIDE DEF i
  <2>2. (stack[i].tracker # "Set" => stack[i].cur = Some(StepOpen(stack[i]))) /\ Tied(stack[i], StoredAt(stored))
    BY <1>1, <2>1 DEF DeferringOK
  <2> QED
    BY <1>0, <2>2 DEF i
<1>11. /\ FramesOf(stack', stored') = (F \ {g}) \cup {g2}
       /\ StoredAt(stored') = StoredAt(stored) \cup {f.at}
  <2> DEFINE s2 == stack'
             st2 == stored'
  <2>1. /\ Returned(stack, s2, g2) /\ Stores(stored, st2, p, stack[Len(stack)])
        /\ g2.at = stack[Len(stack) - 1].at
    BY <1>6, <1>8, <1>9
  <2> HIDE DEF s2, st2, p, d, g2
  <2>2. /\ Placed(s2, st2) /\ Opened(s2) /\ s2 # << >> /\ Len(s2) = Len(stack) - 1
        /\ s2[Len(stack) - 1] = g2 /\ \A j \in 1..Len(stack) - 2 : s2[j] = stack[j]
        /\ FramesOf(s2, st2) = (FramesOf(stack, stored) \ {stack[Len(stack) - 1]}) \cup {g2}
        /\ StoredAt(st2) = StoredAt(stored) \cup {stack[Len(stack)].at}
    BY <1>0, <1>1, <1>3, <1>8, <2>1, StoredPlaced
  <2> QED
    BY <2>2 DEF s2, st2
<1> HIDE DEF f, g, g2, p, d, F
<1> QED
  BY <1>0, <1>1, <1>5, <1>7, <1>10, <1>11 DEF f, g, g2, F

\* end, in deferred mode: the frame is stored under the number of its step.
LEMMA EndDeferredTold ==
    ASSUME CollectionsInv, DescriptionInv, EndDeferred
    PROVE  ToldNext
  <1> DEFINE F == FramesOf(stack, stored)
             S == StoredAt(stored)
             f == stack[Len(stack)]
             g == stack[Len(stack) - 1]
             g2 == Ended(g)
             w == 3 * sets
             F2 == FramesOf(stack', stored')
             S2 == StoredAt(stored')
  <1>1. /\ Building /\ UNCHANGED <<type, sets, said, mem>> /\ Len(stack) > 1
        /\ f \in F /\ g \in F /\ f.at = Open(g) /\ IsPart(f.at, g.at) /\ f.state \in {"Idle", "KeyDone"}
        /\ StepOpen(g) \in StepSet /\ g.state \in {"Item", "Key", "Value"} /\ g.tracker # "Set"
        /\ g.cur = Some(StepOpen(g)) /\ Tied(g, S)
        /\ F2 = (F \ {g}) \cup {g2}
        /\ S2 = S \cup {f.at}
    BY EndDeferredIs
  <1>2. /\ LiveOK(type, stack, stored, mem) /\ BuildingOK(stack, stored, mem) /\ Owned(F, mem)
    BY <1>1, ActiveFacts
  <1>3. type[1] \in Kinds /\ type[2] \in Kinds  BY TypeIs
  <1>4. PICK d : d[Root] = said /\ TellsAll(type, F, d, S, mem, w)  BY <1>1, InvTold
  <1>5. w \in Nat  BY DEF DescriptionInv
  <1>6. FrameOK(f) /\ FrameOK(g)  BY <1>1, <1>2, OwnedFacts
  <1>7. g2.at = g.at /\ g2.isInit = g.isInit /\ g2.state \in {"Idle", "KeyDone"}
    BY <1>1, <1>6, EndedIs
  <1>8. Tells(g, d, S, mem) /\ Grows(type, g, mem, w)  BY <1>1, <1>4, ToldFacts
  <1> HIDE DEF F, S, f, g, w, F2, S2
  <1>9. Tells(g2, d, S2, mem)
    <2>1. Tells(Ended(g), d, S \cup {Open(g)}, mem)  BY <1>1, <1>6, <1>8, StoredTells
    <2>2. QED  BY <1>1, <2>1
  <1> HIDE DEF g2
  <1>10. Grows(type, g2, mem, w)
    <2>1. w <= w /\ mem[g.at] = mem[g.at]  BY <1>5
    <2>2. QED  BY <1>5, <1>7, <1>8, <2>1, StillGrows
  <1>11. New(g2, mem)  BY <1>7 DEF New, Busy
  <1>12. HandsOver(F, F2, S, S2, mem, mem, f, g, g2)
    <2>1. \A h \in F2 : h = g2 \/ (h \in F /\ h # g)  BY <1>1
    <2>2. \A a : a # f.at => (a \in S <=> a \in S2)  BY <1>1
    <2>3. ~Busy(f)  BY <1>1 DEF Busy
    <2>4. QED  BY <1>1, <1>7, <2>1, <2>2, <2>3 DEF HandsOver
  <1>13. g.tracker # "Scalar"  BY <1>1, <1>6 DEF FrameOK, StateOK
  <1>14. TellsAll(type, F2, d, S2, mem, w)
    <2>1. /\ HandsOver(FramesOf(stack, stored), F2, StoredAt(stored), S2, mem, mem, f, g, g2)
          /\ TellsAll(type, FramesOf(stack, stored), d, StoredAt(stored), mem, w)
      BY <1>4, <1>12 DEF F, S
    <2>2. QED  BY <1>2, <1>3, <1>5, <1>9, <1>10, <1>11, <1>13, <2>1, HandedTold
  <1>15. Told(type, stack', stored', mem, w, said)  BY <1>4, <1>14 DEF Told, F2, S2
  <1>16. QED  BY <1>1, <1>15 DEF ToldNext, w

\* What end does of a set's element, in terms of frames and places.
LEMMA EndElementIs ==
    ASSUME CollectionsInv, EndElement, Usage = {}
    PROVE  LET F == FramesOf(stack, stored)
               f == stack[Len(stack)]
               g == stack[Len(stack) - 1] IN
           /\ Building /\ UNCHANGED <<type, stored, sets, said>> /\ Len(stack) > 1
           /\ f \in F /\ g \in F /\ f.at = Open(g) /\ IsPart(f.at, g.at) /\ f.at # g.at
           /\ f.tracker = "Scalar" /\ IsLeaf(f) /\ f.isInit /\ f.state = "Idle" /\ Bare(f, PlacesOf(F))
           /\ g.tracker = "Set" /\ g.state \in {"Item", "Key", "Value"}
           /\ Joins(g, mem[f.at][1], mem, mem')
           /\ \A a \in DOMAIN mem : a # f.at /\ a # g.at => mem'[a] = mem[a]
           /\ FramesOf(stack', stored) = (F \ {f, g}) \cup {Ended(g)}
<1> DEFINE F == FramesOf(stack, stored)
           P == PlacesOf(F)
           f == stack[Len(stack)]
           g == stack[Len(stack) - 1]
           g2 == Ended(g)
           d == startDepth
           n == Freed(Memory, {})
           m2 == Insert(n, g, f.at)
<1>0. /\ Active /\ mode = "Deferred" /\ Len(stack) > 1 /\ Len(stack) > d /\ g.tracker = "Set"
      /\ Holds(Memory, Top.at)
      /\ UNCHANGED <<type, mode, startDepth, stored, phase, sets, said>>
  BY DEF EndElement
<1>1. /\ LiveOK(type, stack, stored, mem) /\ BuildingOK(stack, stored, mem)
      /\ Placed(stack, stored) /\ Owned(F, mem) /\ Top = f /\ stack # << >>
      /\ Memory.at = mem /\ Memory.faults = {} /\ DeferringOK(stack, stored, d)
      /\ Len(stack) \in Nat /\ Building
  BY <1>0, InMode, ActiveFacts
<1>2. d < Len(stack)
  BY <1>0, <1>1 DEF DeferringOK
<1>3. Len(stack) > 2
  <2>1. stack[1].tracker # "Set"
    BY <1>0, <1>1 DEF DeferringOK
  <2> DEFINE l == Len(stack)
  <2>2. l - 1 # 1
    BY <1>0, <2>1
  <2>3. l \in Nat /\ l > 1
    BY <1>0, <1>1
  <2> HIDE DEF l
  <2>4. l > 2
    BY <2>2, <2>3
  <2> QED
    BY <2>4 DEF l
<1>4. /\ f \in F /\ g \in F /\ FrameOK(f) /\ FrameOK(g)
      /\ IsPart(f.at, g.at) /\ f.at \in Steps /\ f.at = Open(g)
      /\ g.state \in {"Item", "Key", "Value"}
      /\ f.at # g.at /\ f.at \in DOMAIN mem /\ g.at \in DOMAIN mem /\ Len(f.at) = Len(stack) - 1
  BY <1>0, <1>1, Below
<1>5. Len(f.at) = 2
  <2>1. Len(stack) <= 3
    BY <1>1, StackFacts
  <2> DEFINE l == Len(stack)
             k == Len(f.at)
  <2>2. l \in Nat /\ l <= 3 /\ l > 2 /\ k = l - 1
    BY <1>1, <1>3, <1>4, <2>1
  <2> HIDE DEF l, k
  <2>3. k = 2
    BY <2>2
  <2> QED
    BY <2>3 DEF k
<1>6. f.tracker = "Scalar" /\ IsLeaf(f) /\ f.state = "Idle"
  <2> HIDE DEF f
  <2> QED
    BY <1>4, <1>5 DEF FrameOK, StateOK, IsLeaf
<1>7. OwnOK(f, P, mem)
  BY <1>1, <1>4, OwnedFacts
<1>8. Slots(f, RopeLen(f)) = {} /\ \A a \in DOMAIN mem : ~IsPart(a, f.at)
  <2> HIDE DEF f, P
  <2>1. Slots(f, RopeLen(f)) = {} /\ \A x : ~Kid(f, x)
    BY <1>4, <1>6, NoElements
  <2> QED
    BY <1>7, <2>1 DEF OwnOK
<1>9. MemoryIs(m2) /\ stack' = [Pop(stack) EXCEPT ![Len(stack) - 1] = Ended(@)]
  BY <1>1, <1>8 DEF EndElement
<1>10. Bare(f, P)
  <2>1. \A q \in DOMAIN stored : stored[q] \in F
    BY <1>1, StackFacts
  <2>2. \A h \in F : h.at \in DOMAIN mem
    BY <1>1 DEF Owned, OwnOK
  <2>3. \A q \in DOMAIN stored : ~IsPart(stored[q].at, f.at)
    BY <1>8, <2>1, <2>2
  <2> QED
    BY <1>1, <2>3, TopIsBare
<1>11. mem[f.at] # None /\ f.isInit
  <2>1. mem[f.at] # None
    BY <1>0, <1>1 DEF Holds
  <2> QED
    BY <1>7, <2>1 DEF OwnOK
<1> HIDE DEF F, f, g, P
<1>12. g2 \in FrameSet /\ g2.at = g.at
  BY <1>0, <1>4, SetEnded DEF FrameOK
<1> HIDE DEF g2
<1>13. DOMAIN n.at = DOMAIN mem /\ \A a \in DOMAIN mem : n.at[a] = mem[a]
  BY <1>1, FreedNothing
<1> HIDE DEF n
<1>14. Joins(g, mem[f.at][1], mem, m2.at) /\ \A a \in DOMAIN mem : a # f.at /\ a # g.at => m2.at[a] = mem[a]
  <2>1. LET q == Insert(n, g, f.at).at
            x == n.at[f.at][1]
            c == n.at[g.at] IN
        /\ (x \in ToSet(c[1]) /\ q[g.at] = c) \/ q[g.at] = Some(Append(c[1], x))
        /\ \A b \in DOMAIN n.at : b # f.at /\ b # g.at => q[b] = n.at[b]
    BY <1>4, <1>11, <1>13, InsertedIs
  <2> HIDE DEF m2
  <2>2. n.at[f.at] = mem[f.at] /\ n.at[g.at] = mem[g.at]
    BY <1>4, <1>13
  <2> QED
    BY <1>13, <2>1, <2>2 DEF Joins, m2
<1>15. Joins(g, mem[f.at][1], mem, mem') /\ \A a \in DOMAIN mem : a # f.at /\ a # g.at => mem'[a] = mem[a]
  <2> HIDE DEF m2
  <2> QED
    BY <1>9, <1>14 DEF MemoryIs
<1>16. FramesOf(stack', stored) = (F \ {f, g}) \cup {g2}
  <2> DEFINE k == Len(stack) - 1
             r == Pop(stack)
             s2 == stack'
  <2>1. s2 = [r EXCEPT ![k] = Ended(@)]
    BY <1>9
  <2>2. r[k] = g /\ r \in Seq(FrameSet) /\ k \in 1..Len(r)
    <3>1. stack \in Seq(FrameSet) /\ k \in 1..Len(stack) - 1
      BY <1>0, <1>1 DEF Placed
    <3> QED
      BY <1>1, <3>1, AllButLast DEF Pop, g
  <2> HIDE DEF r, k, s2
  <2>3. s2 = [r EXCEPT ![k] = g2]
    BY <2>1, <2>2 DEF g2
  <2>4. Returned(stack, [Pop(stack) EXCEPT ![Len(stack) - 1] = g2], g2)
    BY <1>0, <1>1, <1>12, ReturnedIs
  <2>5. Returned(stack, s2, g2)
    BY <2>3, <2>4 DEF r, k
  <2>6. FramesOf(s2, stored) = (FramesOf(stack, stored) \ {stack[Len(stack)], stack[Len(stack) - 1]}) \cup {g2}
    BY <1>0, <1>1, <1>12, <2>5, StackReturned DEF Returned, g
  <2> QED
    BY <2>6 DEF s2, F, f, g
<1> QED
  BY <1>0, <1>1, <1>4, <1>6, <1>10, <1>11, <1>15, <1>16 DEF F, f, g, P, g2

\* end of a set's element: what the set drops it has already.
LEMMA EndElementTold ==
    ASSUME CollectionsInv, DescriptionInv, EndElement, Usage = {}
    PROVE  ToldNext
  <1> DEFINE F == FramesOf(stack, stored)
             S == StoredAt(stored)
             f == stack[Len(stack)]
             g == stack[Len(stack) - 1]
             g2 == Ended(g)
             w == 3 * sets
             F2 == FramesOf(stack', stored)
             m2 == mem'
  <1>1. /\ Building /\ UNCHANGED <<type, stored, sets, said>> /\ Len(stack) > 1
        /\ f \in F /\ g \in F /\ f.at = Open(g) /\ IsPart(f.at, g.at) /\ f.at # g.at
        /\ f.tracker = "Scalar" /\ IsLeaf(f) /\ f.isInit /\ f.state = "Idle" /\ Bare(f, PlacesOf(F))
        /\ g.tracker = "Set" /\ g.state \in {"Item", "Key", "Value"}
        /\ Joins(g, mem[f.at][1], mem, m2)
        /\ \A a \in DOMAIN mem : a # f.at /\ a # g.at => m2[a] = mem[a]
        /\ F2 = (F \ {f, g}) \cup {g2}
    BY EndElementIs
  <1>2. /\ LiveOK(type, stack, stored, mem) /\ BuildingOK(stack, stored, mem) /\ Owned(F, mem)
    BY <1>1, ActiveFacts
  <1>3. type[1] \in Kinds /\ type[2] \in Kinds  BY TypeIs
  <1>4. PICK d : d[Root] = said /\ TellsAll(type, F, d, S, mem, w)  BY <1>1, InvTold
  <1>5. w \in Nat  BY DEF DescriptionInv
  <1>6. FrameOK(f) /\ FrameOK(g) /\ Tracked(type, g) /\ mem[f.at] # None
    <2>1. FrameOK(f) /\ FrameOK(g) /\ OwnOK(f, PlacesOf(F), mem)  BY <1>1, <1>2, OwnedFacts
    <2>2. Tracked(type, g)  BY <1>1, <1>2, LiveFacts
    <2>3. QED  BY <1>1, <2>1, <2>2 DEF OwnOK
  <1>7. /\ Tells(g, d, S, mem) /\ Grows(type, g, mem, w) /\ New(g, mem)
        /\ Tells(f, d, S, mem) /\ Grows(type, f, mem, w)
    BY <1>1, <1>4, ToldFacts
  <1>8. g.state = "Item"  BY <1>1, <1>6 DEF FrameOK, StateOK
  <1> HIDE DEF F, S, f, g, w, F2, m2
  <1>9. mem[f.at][1] = d[Open(g)]  BY <1>1, <1>7 DEF Tells, ScalarTells
  <1> DEFINE x == mem[f.at][1]
  <1>10. x = d[Open(g)] /\ Joins(g, x, mem, m2) /\ (g.at # Root => x = mem[f.at][1])  BY <1>1, <1>9
  <1> HIDE DEF x
  <1>11. LET h == Ended(g) IN
         /\ Tells(h, d, S, m2) /\ Grows(type, h, m2, w) /\ New(h, m2)
         /\ FrameOK(h) /\ h.at = g.at /\ h.tracker = "Set" /\ h.state = "Idle"
    <2> DEFINE t == type
               m == mem
    <2>1. /\ t[1] \in Kinds /\ t[2] \in Kinds
          /\ FrameOK(g) /\ Tracked(t, g) /\ g.tracker = "Set" /\ g.state = "Item"
          /\ FrameOK(f) /\ f.at = Open(g) /\ f.isInit
          /\ Tells(g, d, S, m) /\ New(g, m)
          /\ Grows(t, g, m, w) /\ Grows(t, f, m, w) /\ m[f.at] # None
          /\ x = d[Open(g)] /\ Joins(g, x, m, m2) /\ (g.at # Root => x = m[f.at][1])
      BY <1>1, <1>3, <1>6, <1>7, <1>8, <1>10
    <2> HIDE DEF t, m, g2
    <2>2. LET h == Ended(g) IN
          /\ Tells(h, d, S, m2) /\ Grows(t, h, m2, w) /\ New(h, m2)
          /\ FrameOK(h) /\ h.at = g.at /\ h.tracker = "Set" /\ h.state = "Idle"
      BY <2>1, SetTakes
    <2>3. QED  BY <2>2 DEF t
  <1>12. Tells(g2, d, S, m2) /\ Grows(type, g2, m2, w) /\ New(g2, m2) /\ g2.at = g.at  BY <1>11
  <1> HIDE DEF g2
  <1>13. HandsOver(F, F2, S, S, mem, m2, f, g, g2)
    <2>1. \A h \in F2 : h = g2 \/ (h \in F /\ h # g /\ h # f)  BY <1>1
    <2>2. ~Busy(f)  BY <1>1 DEF Busy
    <2>3. QED  BY <1>1, <1>12, <2>1, <2>2 DEF HandsOver
  <1>14. TellsAll(type, F2, d, S, m2, w)
    <2>1. /\ HandsOver(FramesOf(stack, stored), F2, StoredAt(stored), S, mem, m2, f, g, g2)
          /\ TellsAll(type, FramesOf(stack, stored), d, StoredAt(stored), mem, w)
      BY <1>4, <1>13 DEF F, S
    <2>2. g.tracker # "Scalar"  BY <1>1
    <2>3. QED  BY <1>2, <1>3, <1>5, <1>12, <2>1, <2>2, HandedTold
  <1>15. Told(type, stack', stored, m2, w, said)  BY <1>4, <1>14 DEF Told, F2, S
  <1>16. QED  BY <1>1, <1>15 DEF ToldNext, w, m2

-----------------------------------------------------------------------------
(* The walk of finish_deferred *)

\* The collection g takes over what the walk finished at a, its element with
\* step x, as h.
Walked(g, x, a, h, d, S, m, m2) ==
    /\ FrameOK(g) /\ g.at \in Steps /\ x \in StepSet /\ a = Append(g.at, x) /\ Kid(g, x) /\ a \notin FinishedParts(g) /\ a \in S
    /\ h = TakeAt(g, x, a) /\ TakesOver(g, a, h) /\ h.state = g.state /\ h.cur = g.cur
    /\ MapOK(h, S \ {a}) /\ Expected(g, x) /\ Tells(g, d, S, m)
    /\ m2[g.at] = m[g.at] /\ m2[a][1] = d[a] /\ \A b \in FinishedParts(g) : m2[b] = m[b]

LEMMA WalkedPasses ==
    ASSUME NEW g, NEW x, NEW a, NEW h, NEW d, NEW S, NEW m, NEW m2, Walked(g, x, a, h, d, S, m, m2),
           g.tracker \in {"List", "Map"}
    PROVE  /\ Passes(g, h, d, S \ {a}, m, m2)
           /\ m2[a][1] = Counted(m[g.at][1], d[g.at], x)
  <1>1. /\ FrameOK(g) /\ x \in StepSet /\ a = Append(g.at, x) /\ a \in S
        /\ TakesOver(g, a, h) /\ h.state = g.state /\ h.cur = g.cur /\ Tells(g, d, S, m)
        /\ m2[g.at] = m[g.at] /\ m2[a][1] = d[a] /\ \A b \in FinishedParts(g) : m2[b] = m[b]
    BY DEF Walked
  <1>2. h.at = g.at /\ h.tracker = g.tracker /\ RopeLen(h) = RopeLen(g)  BY <1>1 DEF TakesOver
  <1>3. StepOpen(h) = StepOpen(g)  BY <1>1, <1>2 DEF StepOpen
  <1>4. Busy(h) => Busy(g)  BY <1>1 DEF Busy
  <1>5. \A y \in StepSet : Append(g.at, y) \in S => d[Append(g.at, y)] = Counted(m[g.at][1], d[g.at], y)
    BY <1>1 DEF Tells
  <1>6. d[a] = Counted(m[g.at][1], d[g.at], x)  BY <1>1, <1>5
  <1>7. QED  BY <1>1, <1>2, <1>3, <1>4, <1>5, <1>6 DEF Passes

LEMMA ListWalkTells ==
    ASSUME NEW g, NEW x, NEW a, NEW h, NEW d, NEW S, NEW m, NEW m2, Walked(g, x, a, h, d, S, m, m2),
           g.tracker = "List"
    PROVE  Tells(h, d, S \ {a}, m2)
  <1> DEFINE n == RopeLen(g)
             k == Marked(g)
  <1>1. /\ FrameOK(g) /\ g.at \in Steps /\ x \in StepSet /\ a = Append(g.at, x) /\ Kid(g, x) /\ a \notin FinishedParts(g)
        /\ h = TakeAt(g, x, a) /\ TakesOver(g, a, h) /\ Tells(g, d, S, m)
    BY DEF Walked
  <1>2. n \in Nat /\ k \in Nat /\ k <= n  BY <1>1, FrameFacts
  <1>3. x[1] = "item" /\ x[2] < n /\ x[2] \in Nat /\ x = <<x[1], x[2]>>  BY <1>1 DEF Kid, StepSet
  <1>4. a = Part(g, "item", x[2])
    <2>1. x = <<"item", x[2]>>  BY <1>3
    <2>2. QED  BY <1>1, <2>1 DEF Part
  <1>5. k <= x[2]
    <2>1. SUFFICES ASSUME x[2] < k PROVE FALSE
      BY <1>2, <1>3
    <2>2. a \in Slots(g, Marked(g))  BY <1>2, <1>3, <1>4, <2>1, SlotsAre DEF k
    <2>3. QED  BY <1>1, <2>2 DEF FinishedParts
  <1>6. Marked(g) < RopeLen(g)
    <2> HIDE DEF n, k
    <2>1. k < n  BY <1>2, <1>3, <1>5
    <2>2. QED  BY <2>1 DEF n, k
  <1>7. LET y == MarkLast(g) IN
        /\ FrameOK(y)
        /\ y.at = g.at /\ y.isInit = g.isInit /\ y.tracker = g.tracker
        /\ y.state = g.state /\ y.cur = g.cur /\ y.pending = g.pending
        /\ RopeLen(y) = RopeLen(g) /\ Marked(y) = Marked(g) + 1
        /\ FinishedParts(y) = FinishedParts(g) \cup {Part(g, "item", Marked(g))}
        /\ \A t : Kid(g, t) => Kid(y, t)
    BY <1>1, <1>6, MarkLastIs
  <1>8. h = MarkLast(g)  BY <1>1, <1>3 DEF TakeAt
  <1>9. FinishedParts(h) = FinishedParts(g) \cup {a}  BY <1>1 DEF TakesOver
  <1>10. a = Part(g, "item", Marked(g))  BY <1>1, <1>7, <1>8, <1>9
  <1>11. x[2] = Marked(g)
    <2>1. Last(Part(g, "item", x[2])) = <<"item", x[2]>>  BY <1>1, <1>3, PartFacts
    <2>2. Last(Part(g, "item", Marked(g))) = <<"item", Marked(g)>>  BY <1>1, <1>2, PartFacts
    <2>3. QED  BY <1>4, <1>10, <2>1, <2>2
  <1>12. Passes(g, h, d, S \ {a}, m, m2) /\ m2[a][1] = Counted(m[g.at][1], d[g.at], x)  BY WalkedPasses
  <1>13. m2[a][1] = d[g.at][Len(m[g.at][1]) + Marked(g) + 1]  BY <1>3, <1>11, <1>12 DEF Counted, Half
  <1>14. /\ Marked(h) = Marked(g) + 1 /\ RopeLen(h) = RopeLen(g)
         /\ m2[Part(g, "item", Marked(g))][1] = d[g.at][Len(m[g.at][1]) + Marked(g) + 1]
    BY <1>7, <1>8, <1>10, <1>13
  <1>15. QED  BY <1>1, <1>12, <1>14, ListPasses

LEMMA KeyWalkTells ==
    ASSUME NEW g, NEW x, NEW a, NEW h, NEW d, NEW S, NEW m, NEW m2, Walked(g, x, a, h, d, S, m, m2),
           g.tracker = "Map", x[1] = "key"
    PROVE  Tells(h, d, S \ {a}, m2)
  <1> DEFINE l == Len(g.pending)
             j == x[2]
             T == S \ {a}
  <1>1. /\ FrameOK(g) /\ g.at \in Steps /\ x \in StepSet /\ a = Append(g.at, x) /\ Kid(g, x) /\ a \in S
        /\ h = TakeAt(g, x, a) /\ TakesOver(g, a, h) /\ h.state = g.state /\ h.cur = g.cur
        /\ MapOK(h, T) /\ Tells(g, d, S, m)
    BY DEF Walked
  <1>2. l \in Nat /\ j \in Nat /\ x = <<"key", j>>  BY <1>1, FrameFacts DEF StepSet
  <1>3. a = Part(g, "key", j)  BY <1>1, <1>2 DEF Part
  <1>4. g.cur # None  BY <1>1, <1>2 DEF Kid
  <1>5. h = PushKey(g, a)  BY <1>1 DEF TakeAt
  <1>6. h.pending = Append(g.pending, [key |-> a, value |-> None])
    BY <1>1, <1>5 DEF PushKey, FrameOK, FrameSet
  <1>7. LET y == PushKey(g, Part(g, "key", j)) IN
        /\ TakesOver(g, Part(g, "key", j), y)
        /\ y.state = g.state /\ y.cur = g.cur
        /\ Len(y.pending) = Len(g.pending) + 1
        /\ \A i \in Nat : Given(y, i) <=> Given(g, i)
    BY <1>1, <1>2, <1>4, HalfTaken
  <1>8. Len(h.pending) = Len(g.pending) + 1 /\ \A i \in Nat : Given(h, i) <=> Given(g, i)  BY <1>3, <1>5, <1>7
  <1>9. h.tracker = "Map" /\ h.at = g.at /\ Waits(h) = Waits(g)  BY <1>1 DEF TakesOver, Waits
  <1>10. Passes(g, h, d, S \ {a}, m, m2) /\ m2[a][1] = Counted(m[g.at][1], d[g.at], x)  BY WalkedPasses
  <1> HIDE DEF T, l, j
  <1>11. ASSUME NEW n \in Nat, MapIs(g, S, n) PROVE j = l /\ Part(g, "key", l) \in S
    <2>1. l <= n /\ \A k \in Nat : Part(g, "key", k) \in S <=> l <= k /\ k < n  BY <1>11 DEF MapIs, l
    <2>2. l <= j /\ j < n  BY <1>1, <1>2, <1>3, <2>1
    <2>3. l < n  BY <1>2, <2>2
    <2>4. Part(g, "key", l) \in S  BY <1>2, <2>1, <2>3
    <2>5. PICK n2 \in Nat : MapIs(h, T, n2)  BY <1>1, <1>9 DEF MapOK
    <2>6. \A k \in Nat : Part(h, "key", k) \in T => Len(h.pending) <= k  BY <2>5 DEF MapIs
    <2>7. Part(h, "key", l) = Part(g, "key", l)  BY <1>9 DEF Part
    <2>8. Len(h.pending) = l + 1  BY <1>8 DEF l
    <2>9. Part(g, "key", l) \notin T  BY <1>2, <2>6, <2>7, <2>8
    <2>10. a = Part(g, "key", l)  BY <2>4, <2>9 DEF T
    <2>11. Last(Part(g, "key", l)) = <<"key", l>> /\ Last(Part(g, "key", j)) = <<"key", j>>
      BY <1>1, <1>2, PartFacts
    <2>12. <<"key", l>> = <<"key", j>>  BY <1>3, <2>10, <2>11
    <2>13. QED  BY <2>4, <2>12
  <1>12. j = l
    <2>1. MapTells(g, d[g.at], m[g.at][1], S, m)  BY <1>1 DEF Tells
    <2>2. QED  BY <1>11, <2>1 DEF MapTells
  <1>13. ASSUME NEW n \in Nat, MapIs(g, S, n) PROVE MapIs(h, T, n)
    <2>1. Part(g, "key", Len(g.pending)) \in S /\ a = Part(g, "key", Len(g.pending))  BY <1>3, <1>11, <1>13 DEF l
    <2>2. MapIs(h, S \ {Part(g, "key", Len(g.pending))}, n)  BY <1>1, <1>8, <1>9, <1>13, <2>1, KeyTaken
    <2>3. QED  BY <2>1, <2>2 DEF T
  <1>14. MapStays(g, h, S, S \ {a})
    <2>1. \A n : Entries(h, n) = Entries(g, n)  BY <1>1 DEF Entries
    <2>2. QED  BY <1>1, <1>13, <2>1 DEF MapStays, T
  <1>15. m2[a][1] = d[g.at][Len(m[g.at][1]) + l + 1][1]
    <2>1. x[2] = l  BY <1>12 DEF j
    <2>2. m2[a][1] = Half(d[g.at][Len(m[g.at][1]) + l + 1], x)  BY <1>10, <2>1 DEF Counted
    <2>3. QED  BY <2>2 DEF Half
  <1>16. PendingTells(g, h, d[g.at], Len(m[g.at][1]), m2)  BY <1>6, <1>15 DEF PendingTells, l
  <1>17. QED  BY <1>1, <1>10, <1>14, <1>16, MapPasses

LEMMA ValueWalkTells ==
    ASSUME NEW g, NEW x, NEW a, NEW h, NEW d, NEW S, NEW m, NEW m2, Walked(g, x, a, h, d, S, m, m2),
           g.tracker = "Map", x[1] = "value"
    PROVE  Tells(h, d, S \ {a}, m2)
  <1> DEFINE l == Len(g.pending)
             j == x[2]
             i == j + 1
  <1>1. /\ FrameOK(g) /\ g.at \in Steps /\ x \in StepSet /\ a = Append(g.at, x) /\ Kid(g, x) /\ a \in S
        /\ h = TakeAt(g, x, a) /\ TakesOver(g, a, h) /\ h.state = g.state /\ h.cur = g.cur
        /\ MapOK(h, S \ {a}) /\ Tells(g, d, S, m) /\ Expected(g, x)
    BY DEF Walked
  <1>2. l \in Nat /\ j \in Nat /\ x = <<"value", j>>  BY <1>1, FrameFacts DEF StepSet
  <1>3. a = Part(g, "value", j)  BY <1>1, <1>2 DEF Part
  <1>4. j < l  BY <1>1 DEF Expected
  <1>5. h = SetValue(g, i, a)  BY <1>1 DEF TakeAt
  <1>6. h.tracker = "Map" /\ h.at = g.at /\ Waits(h) = Waits(g)  BY <1>1 DEF TakesOver, Waits
  <1>7. Passes(g, h, d, S \ {a}, m, m2) /\ m2[a][1] = Counted(m[g.at][1], d[g.at], x)  BY WalkedPasses
  <1>8. MapTells(g, d[g.at], m[g.at][1], S, m)  BY <1>1 DEF Tells
  <1>9. i \in 1..l /\ j = i - 1
    <2> HIDE DEF l, j
    <2>1. QED  BY <1>2, <1>4
  <1>10. PICK n0 \in Nat : MapIs(g, S, n0)  BY <1>8 DEF MapTells
  <1>11. ~Given(g, j)  BY <1>1, <1>2, <1>3, <1>10 DEF MapIs
  <1>12. g.pending[i].value = None  BY <1>4, <1>11 DEF Given
  <1>13. LET y == SetValue(g, i, Part(g, "value", j)) IN
         /\ TakesOver(g, Part(g, "value", j), y)
         /\ y.state = g.state /\ y.cur = g.cur
         /\ Len(y.pending) = Len(g.pending)
         /\ \A k \in Nat : Given(y, k) <=> Given(g, k) \/ k = i - 1
    BY <1>1, <1>2, <1>9, <1>12, EntryTaken
  <1>14. Len(h.pending) = Len(g.pending) /\ \A k \in Nat : Given(h, k) <=> Given(g, k) \/ k = j
    BY <1>3, <1>5, <1>9, <1>13
  <1>15. h.pending = [g.pending EXCEPT ![i].value = Some(a)]
    BY <1>1, <1>5, <1>9 DEF SetValue, FrameOK, FrameSet
  <1>16. ASSUME NEW n \in Nat, MapIs(g, S, n) PROVE MapIs(h, S \ {a}, n)
    <2>1. Part(g, "value", j) \in S  BY <1>1, <1>3
    <2> HIDE DEF j
    <2>2. MapIs(h, S \ {Part(g, "value", j)}, n)  BY <1>1, <1>2, <1>6, <1>14, <1>16, <2>1, ValueTaken
    <2>3. QED  BY <1>3, <2>2
  <1>17. MapStays(g, h, S, S \ {a})
    <2>1. \A n : Entries(h, n) = Entries(g, n)  BY <1>1 DEF Entries
    <2>2. QED  BY <1>1, <1>16, <2>1 DEF MapStays
  <1>18. m2[a][1] = d[g.at][Len(m[g.at][1]) + i][2]
    <2>1. m2[a][1] = Half(d[g.at][Len(m[g.at][1]) + j + 1], x)  BY <1>7 DEF Counted
    <2>2. Half(d[g.at][Len(m[g.at][1]) + j + 1], x) = d[g.at][Len(m[g.at][1]) + j + 1][2]  BY DEF Half
    <2>3. Len(m[g.at][1]) \in Nat  BY <1>8 DEF MapTells, Longer
    <2> DEFINE q == Len(m[g.at][1])
    <2>4. q + j + 1 = q + i
      <3>1. q \in Nat  BY <2>3
      <3> HIDE DEF q, j
      <3>2. QED  BY <1>2, <3>1
    <2>5. QED  BY <2>1, <2>2, <2>4
  <1>19. PendingTells(g, h, d[g.at], Len(m[g.at][1]), m2)  BY <1>9, <1>15, <1>18 DEF PendingTells
  <1>20. QED  BY <1>1, <1>7, <1>17, <1>19, MapPasses

\* The parent takes over a stored child.
LEMMA WalkTells ==
    ASSUME NEW g, NEW x, NEW a, NEW h, NEW d, NEW S, NEW m, NEW m2, Walked(g, x, a, h, d, S, m, m2),
           g.tracker \in {"List", "Map"}
    PROVE  Tells(h, d, S \ {a}, m2)
  <1>1. CASE g.tracker = "List"
    BY <1>1, ListWalkTells
  <1>2. CASE g.tracker = "Map"
    <2>1. x[1] \in {"key", "value"}  BY <1>2 DEF Walked, Kid
    <2>2. QED  BY <1>2, <2>1, KeyWalkTells, ValueWalkTells
  <1>3. QED  BY <1>1, <1>2

\* What the walk does of one frame, in terms of frames and places.
LEMMA WalkFrameIs ==
    ASSUME CollectionsInv, NEW p \in DOMAIN stored, WalkFrame(p)
    PROVE  LET F == FramesOf(stack, stored)
               f == stored[p]
               g == ParentOf(p)
               h == TakeAt(g, Last(p), f.at) IN
           /\ Building /\ UNCHANGED <<type, sets, said>> /\ Walks(p, g)
           /\ WalkedTo(g, Last(p), f.at, PlacesOf(F), StoredAt(stored))
           /\ mem' = Finish(Memory, f).at /\ mem'[g.at] = mem[g.at]
           /\ f.isInit /\ f.state = "Idle" /\ g.tracker \in {"List", "Map"}
           /\ FramesOf(stack', stored') = (F \ {f, g}) \cup {h}
           /\ StoredAt(stored') = StoredAt(stored) \ {f.at}
  <1> DEFINE F == FramesOf(stack, stored)
             f == stored[p]
             g == ParentOf(p)
             x == Last(p)
             h == TakeAt(g, x, f.at)
             m == Memory
  <1>1. /\ phase = "Walking" /\ HandToParent(p) /\ Complete(f) /\ Building
        /\ UNCHANGED <<type, sets, said>>
        /\ MemoryIs([Finish(m, f) EXCEPT !.faults = @ \cup
              IF Expected(g, LastStep(p)) THEN {} ELSE {"half entry"}])
    BY DEF WalkFrame, Building
  <1>2. /\ WalkedTo(g, x, f.at, PlacesOf(F), StoredAt(stored)) /\ Walks(p, g) /\ mem'[g.at] = mem[g.at]
    BY WalkHands
  <1>3. mem' = Finish(m, f).at
    <2>1. m = [at |-> m.at, faults |-> m.faults]  BY DEF Memory
    <2> HIDE DEF m, f, g
    <2>2. Finish(m, f) = [at |-> Finish(m, f).at, faults |-> Finish(m, f).faults]
      BY <2>1 DEF Finish, Drain, Freed, Taken
    <2>3. QED  BY <1>1, <2>2 DEF MemoryIs
  <1>4. f.isInit /\ f.state = "Idle"  BY <1>1 DEF Complete
  <1>5. g.tracker \in {"List", "Map"}  BY <1>2, NoneOfSet
  <1>6. TakesOver(g, f.at, h)  BY <1>2 DEF WalkedTo
  <1>7. Handed(stack, stored, p, g, h, stack', stored')  BY <1>1, <1>2, <1>6, WalkPlaces
  <1>8. /\ FramesOf(stack', stored') = (F \ {f, g}) \cup {h}
        /\ StoredAt(stored') = StoredAt(stored) \ {f.at}
    BY <1>7 DEF Handed
  <1> HIDE DEF F, f, g, h, m
  <1>9. QED  BY <1>1, <1>2, <1>3, <1>4, <1>5, <1>8 DEF F, f, g, h, m

\* A frame passes the walk: it is counted at the number it was described at.
LEMMA WalkFrameTold ==
    ASSUME CollectionsInv, DescriptionInv, NEW p \in DOMAIN stored, WalkFrame(p)
    PROVE  ToldNext
  <1> DEFINE F == FramesOf(stack, stored)
             P == PlacesOf(F)
             S == StoredAt(stored)
             f == stored[p]
             g == ParentOf(p)
             x == Last(p)
             h == TakeAt(g, x, f.at)
             w == 3 * sets
             F2 == FramesOf(stack', stored')
             S2 == StoredAt(stored')
             m2 == mem'
  <1>1. /\ Building /\ UNCHANGED <<type, sets, said>> /\ Walks(p, g)
        /\ WalkedTo(g, x, f.at, P, S)
        /\ m2 = Finish(Memory, f).at /\ m2[g.at] = mem[g.at]
        /\ f.isInit /\ f.state = "Idle" /\ g.tracker \in {"List", "Map"}
        /\ F2 = (F \ {f, g}) \cup {h} /\ S2 = S \ {f.at}
    BY WalkFrameIs
  <1>2. /\ f \in F /\ g \in F /\ FrameOK(f) /\ FrameOK(g) /\ g.at \in Steps /\ f.at \in Steps
        /\ IsPart(f.at, g.at) /\ f.at = Append(g.at, x) /\ x \in StepSet
        /\ Kid(g, x) /\ f.at \notin FinishedParts(g)
        /\ f.at \in P /\ f.at \in S /\ f.at \in DOMAIN mem
        /\ Bare(f, P) /\ f # g /\ Sound(f, P, S, mem)
    BY <1>1, WalkFacts
  <1>3. /\ LiveOK(type, stack, stored, mem) /\ BuildingOK(stack, stored, mem)
        /\ Owned(F, mem) /\ Memory.at = mem /\ Memory.faults = {}
    BY <1>1, ActiveFacts
  <1>4. type[1] \in Kinds /\ type[2] \in Kinds  BY TypeIs
  <1>5. PICK d : d[Root] = said /\ TellsAll(type, F, d, S, mem, w)  BY <1>1, InvTold
  <1>6. w \in Nat  BY DEF DescriptionInv
  <1>7. OwnOK(f, P, mem) /\ OwnOK(g, P, mem) /\ S \subseteq P
    <2>1. OwnOK(f, P, mem) /\ OwnOK(g, P, mem)  BY <1>2, <1>3, OwnedFacts
    <2>2. QED  BY <2>1 DEF StoredAt, PlacesOf, FramesOf
  <1>8. TakesOver(g, f.at, h) /\ h.state = g.state /\ h.cur = g.cur /\ MapOK(h, S \ {f.at}) /\ Expected(g, x)
    BY <1>1 DEF WalkedTo
  <1>9. h = TakeAt(g, x, f.at)  OBVIOUS
  <1> HIDE DEF F, P, S, f, g, x, h, w, F2, S2, m2
  <1>10. Tells(f, d, S, mem) /\ Tells(g, d, S, mem) /\ Grows(type, g, mem, w)  BY <1>2, <1>5, ToldFacts
  <1>11. Became(mem, m2, Allocations(f), f.at) /\ SaysIt(f, d[f.at], m2[f.at][1])
    <2>1. ListOK(f, P) /\ \A a \in S : ~IsPart(a, f.at)  BY <1>2, <1>7 DEF Sound, Bare
    <2>2. Memory.faults = {} /\ OwnOK(f, P, Memory.at) /\ Tells(f, d, S, Memory.at)  BY <1>3, <1>7, <1>10
    <2>3. /\ Became(Memory.at, Finish(Memory, f).at, Allocations(f), f.at)
          /\ SaysIt(f, d[f.at], Finish(Memory, f).at[f.at][1])
          /\ f.tracker # "Scalar" => IsSeq(Finish(Memory, f).at[f.at][1])
          /\ Finish(Memory, f).faults = {}
      BY <1>1, <1>2, <2>1, <2>2, FinishSays
    <2>4. QED  BY <1>1, <1>3, <2>3
  <1>12. m2[f.at][1] = d[f.at]  BY <1>2, <1>11 DEF SaysIt, IsPart
  <1>13. \A a \in DOMAIN mem : a # f.at /\ ~IsPart(a, f.at) => m2[a] = mem[a]
    <2>1. Became(mem, m2, Allocations(f), f.at)  BY <1>11
    <2>2. FrameOK(f) /\ f.at \in DOMAIN mem  BY <1>2
    <2>3. /\ \A a \in DOMAIN mem : a # f.at /\ ~IsPart(a, f.at) => a \in DOMAIN m2 /\ m2[a] = mem[a]
          /\ f.at \in DOMAIN m2 /\ m2[f.at] # None
      BY <2>1, <2>2, FinishLeaves
    <2>4. QED  BY <2>3
  <1>14. \A b \in FinishedParts(g) : m2[b] = mem[b]
    <2>1. ASSUME NEW b \in FinishedParts(g) PROVE b \in DOMAIN mem /\ b # f.at /\ ~IsPart(b, f.at)
      <3>1. b \in DOMAIN mem /\ b # f.at  BY <1>2, <1>7 DEF OwnOK
      <3>2. b \in Allocations(g)  BY DEF Allocations
      <3>3. IsPart(b, g.at)  BY <1>2, <3>2, AllocationsAreParts
      <3>4. g.at # f.at  BY <1>2, NotInItself
      <3>5. QED  BY <3>1, <3>3, <3>4 DEF IsPart
    <2>2. QED  BY <1>13, <2>1
  <1>15. Walked(g, x, f.at, h, d, S, mem, m2)
    BY <1>1, <1>2, <1>8, <1>9, <1>10, <1>12, <1>14 DEF Walked
  <1>16. Tells(h, d, S2, m2)
    <2>1. Tells(h, d, S \ {f.at}, m2)  BY <1>1, <1>15, WalkTells
    <2>2. QED  BY <1>1, <2>1
  <1>17. h.at = g.at /\ h.isInit = g.isInit /\ h.tracker = g.tracker  BY <1>8 DEF TakesOver
  <1>18. Grows(type, h, m2, w)
    <2>1. w <= w /\ m2[g.at] = mem[g.at]  BY <1>1, <1>6
    <2>2. QED  BY <1>6, <1>10, <1>17, <2>1, StillGrows
  <1>19. New(h, m2)  BY <1>1, <1>17 DEF New
  <1>20. HandsOver(F, F2, S, S2, mem, m2, f, g, h)
    <2>1. \A y \in F2 : y = h \/ (y \in F /\ y # g /\ y # f)  BY <1>1
    <2>2. \A a : a # f.at => (a \in S <=> a \in S2)  BY <1>1
    <2>3. ~Busy(f)  BY <1>1 DEF Busy
    <2>4. QED  BY <1>2, <1>13, <1>17, <2>1, <2>2, <2>3 DEF HandsOver, P
  <1>21. g.tracker # "Scalar"  BY <1>1
  <1>22. TellsAll(type, F2, d, S2, m2, w)
    <2>1. /\ HandsOver(FramesOf(stack, stored), F2, StoredAt(stored), S2, mem, m2, f, g, h)
          /\ TellsAll(type, FramesOf(stack, stored), d, StoredAt(stored), mem, w)
      BY <1>5, <1>20 DEF F, S
    <2>2. QED  BY <1>3, <1>4, <1>6, <1>16, <1>18, <1>19, <1>21, <2>1, HandedTold
  <1>23. Told(type, stack', stored', m2, w, said)  BY <1>5, <1>22 DEF Told, F2, S2
  <1>24. QED  BY <1>1, <1>23 DEF ToldNext, w, m2

\* A collection of the root's that is a set and complete holds what is described.
LEMMA SetHolds ==
    ASSUME NEW f, f.tracker = "Set", f.state = "Idle", f.at # Root, NEW d, NEW S, NEW m, Tells(f, d, S, m)
    PROVE  ToSet(d[f.at]) = ToSet(m[f.at][1])
  <1> DEFINE v == d[f.at]
             c == m[f.at][1]
  <1>1. IsSeq(v) /\ IsSeq(c) /\ SetTells(f, v, c)  BY DEF Tells
  <1>2. Longer(v, c, 0)  BY <1>1 DEF SetTells
  <1> HIDE DEF v, c
  <1>3. Len(v) = Len(c) /\ \A i \in 1..Len(c) : v[i] = c[i]
    <2>1. Len(v) = Len(c) + 0 /\ Len(c) \in Nat  BY <1>2 DEF Longer
    <2>2. QED  BY <1>2, <2>1 DEF Longer
  <1>4. {v[i] : i \in 1..Len(v)} = {c[i] : i \in 1..Len(c)}  BY <1>3
  <1>5. ToSet(v) = ToSet(c)  BY <1>1, <1>4, ToSetIs
  <1>6. QED  BY <1>5 DEF v, c

\* A frame that is complete tells of the value it made.
LEMMA FinishedTells ==
    ASSUME NEW t, t[1] \in Kinds, t[2] \in Kinds,
           NEW f, NEW P, NEW m, m.faults = {}, OwnOK(f, P, m.at), Bare(f, P), f.isInit, f.state = "Idle",
           ListOK(f, P), Tracked(t, f), NEW d, Tells(f, d, {}, m.at), NEW w, Grows(t, f, m.at, w),
           NEW f2, FrameOK(f2), f2.at = f.at, f2.tracker = f.tracker, f2.isInit, f2.state = "Idle",
           f2.rope = None, f2.pending = << >>
    PROVE  LET m2 == Finish(m, f).at IN
           Tells(f2, d, {}, m2) /\ Grows(t, f2, m2, w) /\ New(f2, m2)
  <1> DEFINE m2 == Finish(m, f).at
  <1>1. /\ SaysIt(f, d[f.at], m2[f.at][1])
        /\ f.tracker # "Scalar" => IsSeq(m2[f.at][1])
    <2>1. \A a \in {} : ~IsPart(a, f.at)  OBVIOUS
    <2>2. /\ Became(m.at, Finish(m, f).at, Allocations(f), f.at)
          /\ SaysIt(f, d[f.at], Finish(m, f).at[f.at][1])
          /\ f.tracker # "Scalar" => IsSeq(Finish(m, f).at[f.at][1])
          /\ Finish(m, f).faults = {}
      BY <2>1, FinishSays
    <2>3. QED  BY <2>2
  <1>2. ~Busy(f2)  BY DEF Busy
  <1>3. New(f2, m2)  BY <1>2 DEF New
  <1>4. f.tracker = "Scalar" => m2 = m.at  BY DEF Finish
  <1>5. FrameOK(f) /\ (IsLeaf(f2) <=> IsLeaf(f)) /\ (IsLeaf(f) => f.tracker = "Scalar")
    BY DEF OwnOK, FrameOK, IsLeaf
  <1> HIDE DEF m2
  <1>6. Tells(f2, d, {}, m2)
    <2>1. CASE f.tracker = "Scalar"
      <3>1. ScalarTells(f, d[f.at], m2)  BY <1>4, <2>1 DEF Tells
      <3>2. ScalarTells(f2, d[f2.at], m2)  BY <1>5, <3>1 DEF ScalarTells
      <3>3. QED  BY <1>2, <2>1, <3>2 DEF Tells
    <2>2. CASE f.tracker # "Scalar"
      <3>1. SaysIt(f2, d[f2.at], m2[f2.at][1])  BY <1>1 DEF SaysIt
      <3>2. IsSeq(m2[f2.at][1])  BY <1>1, <2>2
      <3>3. f2.tracker # "Scalar" /\ \A a \in {} : ~IsPart(a, f2.at)  BY <2>2
      <3>4. QED  BY <3>1, <3>2, <3>3, PlainTells
    <2>3. QED  BY <2>1, <2>2
  <1>7. Grows(t, f2, m2, w)
    <2>1. CASE f.tracker = "Scalar"
      BY <1>4, <1>5, <2>1 DEF Grows
    <2>2. CASE f.tracker # "Scalar"
      <3>1. SUFFICES ASSUME Len(f.at) = 1, t[2] = "set" PROVE ToSet(m2[f.at][1]) \subseteq 0..w
        BY <1>5, <2>2 DEF Grows
      <3>2. f.tracker = "Set"
        <4>1. t[Len(f.at) + 1] = "set"  BY <3>1
        <4>2. CollectionOf(t, f) = "Set"  BY <4>1 DEF CollectionOf
        <4>3. QED  BY <2>2, <4>2 DEF Tracked
      <3>3. f.at # Root
        <4>1. SUFFICES ASSUME f.at = Root PROVE FALSE
          OBVIOUS
        <4> DEFINE k == Len(f.at)
        <4>2. k = 0 /\ k = 1  BY <3>1, <4>1, RootIs
        <4> HIDE DEF k
        <4>3. QED  BY <4>2
      <3>4. m2[f.at][1] = d[f.at]  BY <1>1, <3>3 DEF SaysIt
      <3>5. ToSet(d[f.at]) = ToSet(m.at[f.at][1])  BY <3>2, <3>3, SetHolds
      <3>6. ToSet(m.at[f.at][1]) \subseteq 0..w
        <4>1. ~IsLeaf(f)  BY <1>5, <2>2
        <4>2. QED  BY <3>1, <4>1 DEF Grows
      <3>7. QED  BY <3>4, <3>5, <3>6
    <2>3. QED  BY <2>1, <2>2
  <1>8. QED  BY <1>3, <1>6, <1>7 DEF m2

\* What the walk does of the frame on top.
LEMMA WalkTopIs ==
    ASSUME CollectionsInv, WalkTop
    PROVE  LET f2 == Finished(Top) IN
           /\ Building /\ UNCHANGED <<type, stored, sets, said>>
           /\ StoredAt(stored) = {} /\ Bare(Top, PlacesOf(FramesOf(stack, stored)))
           /\ Top.isInit /\ Top.state = "Idle"
           /\ mem' = Finish(Memory, Top).at
           /\ \A a \in DOMAIN mem : a # Top.at /\ ~IsPart(a, Top.at) => mem'[a] = mem[a]
           /\ FrameOK(f2) /\ f2.at = Top.at /\ f2.tracker = Top.tracker /\ f2.isInit
           /\ f2.state = "Idle" /\ f2.rope = None /\ f2.pending = << >>
           /\ Changed(stack, stack', Len(stack), f2)
  <1> DEFINE P == PlacesOf(FramesOf(stack, stored))
             f == Top
             f2 == Finished(f)
             m == Memory
  <1>1. /\ phase = "Walking" /\ DOMAIN stored = {} /\ Complete(f) /\ Building
        /\ UNCHANGED <<type, stored, sets, said>>
        /\ MemoryIs(Finish(m, f)) /\ stack' = [stack EXCEPT ![Len(stack)] = f2]
    BY DEF WalkTop, Building, SetTop
  <1>2. /\ Placed(stack, stored) /\ stack # << >>
        /\ Len(stack) \in 1..Len(stack) /\ stack \in Seq(FrameSet)
        /\ f = stack[Len(stack)] /\ FrameOK(f) /\ f.at \in Steps
        /\ OwnOK(f, P, mem) /\ m.at = mem /\ m.faults = {}
        /\ Sound(f, P, StoredAt(stored), mem)
    BY <1>1, ActiveFacts
  <1>3. Bare(f, P)
    <2>1. \A q \in DOMAIN stored : ~IsPart(stored[q].at, stack[Len(stack)].at)  BY <1>1
    <2>2. QED  BY <1>2, <2>1, TopIsBare
  <1>4. StoredAt(stored) = {}  BY <1>1 DEF StoredAt
  <1>5. f.isInit /\ f.state = "Idle"  BY <1>1 DEF Complete
  <1>6. /\ FrameOK(f2) /\ f2.at = f.at /\ f2.tracker = f.tracker /\ f2.isInit
        /\ f2.state = "Idle" /\ f2.rope = None /\ f2.pending = << >>
    <2> HIDE DEF f
    <2>1. LET y == Finished(f) IN
          /\ FrameOK(y)
          /\ y.at = f.at /\ y.tracker = f.tracker /\ y.isInit = f.isInit
          /\ y.state = f.state /\ y.cur = f.cur /\ y.rope = None /\ y.pending = << >>
      BY <1>2, <1>5, FinishedIs
    <2>2. QED  BY <1>5, <2>1
  <1> HIDE DEF f2
  <1>7. Changed(stack, stack', Len(stack), f2)
    <2>1. f2 \in FrameSet  BY <1>6 DEF FrameOK
    <2>2. Changed(stack, [stack EXCEPT ![Len(stack)] = f2], Len(stack), f2)  BY <1>2, <2>1, ChangedIs
    <2>3. QED  BY <1>1, <2>2
  <1> HIDE DEF f, P
  <1>8. mem' = Finish(m, f).at  BY <1>1 DEF MemoryIs
  <1> HIDE DEF m
  <1>9. \A a \in DOMAIN mem : a # f.at /\ ~IsPart(a, f.at) => mem'[a] = mem[a]
    <2>1. \A i \in 1..Len(f.pending) : f.pending[i].value # None
      <3>1. MapOK(f, {})  BY <1>2, <1>4 DEF Sound
      <3>2. QED  BY <1>2, <1>5, <3>1, AllValues
    <2>2. OwnOK(f, P, m.at)  BY <1>2
    <2>3. Became(m.at, Finish(m, f).at, Allocations(f), f.at) /\ Finish(m, f).faults = {}
      BY <1>2, <1>3, <1>5, <2>1, <2>2, FinishIs
    <2> DEFINE M2 == Finish(m, f).at
    <2>4. Became(mem, M2, Allocations(f), f.at) /\ FrameOK(f) /\ f.at \in DOMAIN mem  BY <1>2, <2>3 DEF OwnOK
    <2> HIDE DEF M2
    <2>5. /\ \A a \in DOMAIN mem : a # f.at /\ ~IsPart(a, f.at) => a \in DOMAIN M2 /\ M2[a] = mem[a]
          /\ f.at \in DOMAIN M2 /\ M2[f.at] # None
      BY <2>4, FinishLeaves
    <2>6. QED  BY <1>8, <2>5 DEF M2
  <1>10. QED  BY <1>1, <1>3, <1>4, <1>5, <1>6, <1>7, <1>8, <1>9 DEF f, f2, P, m

\* The walk ends with the frame on top.
LEMMA WalkTopTold ==
    ASSUME CollectionsInv, DescriptionInv, WalkTop
    PROVE  ToldNext
  <1> DEFINE F == FramesOf(stack, stored)
             P == PlacesOf(F)
             f == Top
             f2 == Finished(f)
             w == 3 * sets
             s2 == stack'
             m2 == mem'
  <1>1. /\ Building /\ UNCHANGED <<type, stored, sets, said>>
        /\ StoredAt(stored) = {} /\ Bare(f, P)
        /\ f.isInit /\ f.state = "Idle"
        /\ m2 = Finish(Memory, f).at
        /\ \A a \in DOMAIN mem : a # f.at /\ ~IsPart(a, f.at) => m2[a] = mem[a]
        /\ FrameOK(f2) /\ f2.at = f.at /\ f2.tracker = f.tracker /\ f2.isInit
        /\ f2.state = "Idle" /\ f2.rope = None /\ f2.pending = << >>
        /\ Changed(stack, s2, Len(stack), f2)
    BY WalkTopIs
  <1>2. /\ LiveOK(type, stack, stored, mem) /\ BuildingOK(stack, stored, mem) /\ Owned(F, mem)
        /\ f = stack[Len(stack)] /\ f \in F /\ FrameOK(f)
        /\ OwnOK(f, P, mem) /\ Memory.at = mem /\ Memory.faults = {}
        /\ Sound(f, P, StoredAt(stored), mem)
    BY <1>1, ActiveFacts
  <1>3. type[1] \in Kinds /\ type[2] \in Kinds  BY TypeIs
  <1>4. PICK d : d[Root] = said /\ TellsAll(type, F, d, StoredAt(stored), mem, w)  BY <1>1, InvTold
  <1>5. w \in Nat  BY DEF DescriptionInv
  <1>6. Tracked(type, f) /\ \A g \in F : FrameOK(g) /\ Tracked(type, g)  BY <1>2, LiveFacts
  <1> HIDE DEF F, P, f, f2, w, s2, m2
  <1>7. Tells(f, d, {}, mem) /\ Grows(type, f, mem, w)  BY <1>1, <1>2, <1>4, ToldFacts
  <1>8. Tells(f2, d, {}, m2) /\ Grows(type, f2, m2, w) /\ New(f2, m2)
    <2> DEFINE m == Memory
               t == type
    <2>1. /\ t[1] \in Kinds /\ t[2] \in Kinds /\ m.faults = {} /\ OwnOK(f, P, m.at) /\ ListOK(f, P)
          /\ Tracked(t, f) /\ Tells(f, d, {}, m.at) /\ Grows(t, f, m.at, w)
      BY <1>2, <1>3, <1>6, <1>7 DEF Sound
    <2>2. m2 = Finish(m, f).at  BY <1>1
    <2> HIDE DEF m, t
    <2>3. LET y == Finish(m, f).at IN
          Tells(f2, d, {}, y) /\ Grows(t, f2, y, w) /\ New(f2, y)
      BY <1>1, <2>1, FinishedTells
    <2>4. QED  BY <2>2, <2>3 DEF t
  <1>9. ASSUME NEW g \in F, g # f, Busy(g), Open(g) = f.at PROVE New(g, m2)
    <2>1. SUFFICES ASSUME g.tracker = "Set", g.at # Root PROVE New(g, m2)
      BY DEF New
    <2>2. IsLeaf(f)  BY <1>3, <1>6, <1>9, <2>1, LeafInNested
    <2>3. f.tracker = "Scalar"  BY <1>2, <2>2 DEF FrameOK
    <2>4. m2 = mem  BY <1>1, <1>2, <2>3 DEF Finish
    <2>5. New(g, mem)  BY <1>4, ToldFacts
    <2>6. QED  BY <2>4, <2>5
  <1>10. TellsAll(type, FramesOf(s2, stored), d, StoredAt(stored), m2, w)
    <2> DEFINE t == type
               m == mem
               s == stack
    <2>1. /\ LiveOK(t, s, stored, m) /\ BuildingOK(s, stored, m)
          /\ f = s[Len(s)] /\ Bare(f, PlacesOf(FramesOf(s, stored)))
          /\ f2.at = f.at /\ Changed(s, s2, Len(s), f2)
          /\ (\A a \in DOMAIN m : a # f.at /\ ~IsPart(a, f.at) => m2[a] = m[a])
          /\ w \in Nat /\ TellsAll(t, FramesOf(s, stored), d, StoredAt(stored), m, w) /\ w <= w
          /\ (\A g \in FramesOf(s, stored) : g # f => Tells(g, d, StoredAt(stored), m))
          /\ Tells(f2, d, StoredAt(stored), m2) /\ Grows(t, f2, m2, w) /\ New(f2, m2)
          /\ (\A g \in FramesOf(s, stored) : g # f /\ Busy(g) /\ Open(g) = f.at => New(g, m2))
      <3>1. \A g \in F : Tells(g, d, StoredAt(stored), mem)  BY <1>4, ToldFacts
      <3>2. w <= w  BY <1>5
      <3>3. QED  BY <1>1, <1>2, <1>4, <1>5, <1>8, <1>9, <3>1, <3>2 DEF F, P
    <2> HIDE DEF t, m, s
    <2>2. TellsAll(t, FramesOf(s2, stored), d, StoredAt(stored), m2, w)  BY <2>1, TopTold
    <2>3. QED  BY <2>2 DEF t
  <1>11. Told(type, s2, stored, m2, w, said)  BY <1>4, <1>10 DEF Told
  <1>12. QED  BY <1>1, <1>11 DEF ToldNext, s2, m2, w

-----------------------------------------------------------------------------
(* What a place holds *)

LEMMA BoxedSome == ASSUME NEW m, Boxed(m), NEW a, NEW v PROVE Boxed([m EXCEPT ![a] = Some(v)])
  BY DEF Boxed, Some

LEMMA BoxedTaken == ASSUME NEW m, Boxed(m.at), NEW A PROVE Boxed(Taken(m, A).at)
  BY DEF Boxed, Taken

LEMMA BoxedFreed == ASSUME NEW m, Boxed(m.at), NEW A PROVE Boxed(Freed(m, A).at)
  BY DEF Boxed, Freed

LEMMA BoxedPut == ASSUME NEW m, Boxed(m.at), NEW a, NEW v PROVE Boxed(Put(m, a, v).at)
  <1>1. Put(m, a, v).at = [m.at EXCEPT ![a] = Some(v)]  BY DEF Put
  <1>2. QED  BY <1>1, BoxedSome

LEMMA BoxedDeinit == ASSUME NEW m, Boxed(m.at), NEW f PROVE Boxed(Deinit(m, f).at)
  <1> DEFINE m1 == Freed(Taken(m, FinishedParts(f)), Allocations(f))
  <1>1. Boxed(m1.at)  BY BoxedTaken, BoxedFreed
  <1>2. Deinit(m, f) = IF f.isInit THEN Taken(m1, {f.at}) ELSE m1  BY DEF Deinit
  <1> HIDE DEF m1
  <1>3. QED  BY <1>1, <1>2, BoxedTaken

LEMMA BoxedFinish ==
    ASSUME NEW m, m = [at |-> m.at, faults |-> m.faults], Boxed(m.at), NEW f
    PROVE  Boxed(Finish(m, f).at)
  <1> DEFINE m1 == Freed(Taken(m, FinishedParts(f)), Allocations(f))
             v == m.at[f.at][1] \o ElementsOf(m, f)
             n1 == [m EXCEPT !.faults = @ \cup {"half entry"}]
             n2 == [m1 EXCEPT !.at[f.at] = Some(v)]
  <1>1. Boxed(m1.at)  BY BoxedTaken, BoxedFreed
  <1>2. m1 = [at |-> m1.at, faults |-> m1.faults]  BY DEF Freed
  <1>3. Finish(m, f) \in {m, n1, n2, m1}  BY DEF Finish, Drain
  <1>4. n1.at = m.at  OBVIOUS
  <1> HIDE DEF m1, v
  <1>5. n2.at = [m1.at EXCEPT ![f.at] = Some(v)]  BY <1>2
  <1>6. Boxed(n2.at)  BY <1>1, <1>5, BoxedSome
  <1> HIDE DEF n1, n2
  <1>7. QED  BY <1>1, <1>3, <1>4, <1>6

LEMMA BoxedInsert == ASSUME NEW m, Boxed(m.at), NEW f, NEW a PROVE Boxed(Insert(m, f, a).at)
  <1> DEFINE m1 == Freed(Taken(m, {a}), {a})
             v == Append(m1.at[f.at][1], m.at[a][1])
             n2 == [m1 EXCEPT !.at[f.at] = Some(v)]
  <1>1. Boxed(m1.at)  BY BoxedTaken, BoxedFreed
  <1>2. m1 = [at |-> m1.at, faults |-> m1.faults]  BY DEF Freed
  <1>3. Insert(m, f, a) \in {m1, [m1 EXCEPT !.at[f.at] = Some(Append(@[1], m.at[a][1]))]}  BY DEF Insert
  <1> HIDE DEF m1
  <1>4. [m1 EXCEPT !.at[f.at] = Some(Append(@[1], m.at[a][1]))] = n2  BY <1>2
  <1> HIDE DEF v
  <1>5. n2.at = [m1.at EXCEPT ![f.at] = Some(v)]  BY <1>2
  <1>6. Boxed(n2.at)  BY <1>1, <1>5, BoxedSome
  <1> HIDE DEF n2
  <1>7. QED  BY <1>1, <1>3, <1>4, <1>6

LEMMA BoxedGrown == ASSUME NEW m, Boxed(m), NEW b, NEW m2, Grown(m, m2, b) PROVE Boxed(m2)
  BY DEF Boxed, Grown

\* Memory, as a record.
LEMMA MemoryBoxed ==
    ASSUME Building, DescriptionInv
    PROVE  Memory = [at |-> Memory.at, faults |-> Memory.faults] /\ Memory.at = mem /\ Boxed(Memory.at) /\ Boxed(mem)
  BY DEF DescriptionInv, Memory

\* Memory stays such while the caller builds.
LEMMA StaysBoxed ==
    ASSUME DescriptionInv, Building, Next, Building'
    PROVE  Boxed(mem')
  <1> DEFINE m == Memory
             m2 == mem'
  <1>1. /\ m = [at |-> m.at, faults |-> m.faults] /\ m.at = mem /\ Boxed(m.at) /\ Boxed(mem)
    BY MemoryBoxed
  <1>2. ASSUME NEW n, SetWhole(n) PROVE Boxed(m2)
    <2>1. m2 = Put(Deinit(m, Top), Top.at, Whole(n)).at  BY <1>2 DEF SetWhole, MemoryIs
    <2> HIDE DEF m, m2
    <2>2. Boxed(Put(Deinit(m, Top), Top.at, Whole(n)).at)  BY <1>1, BoxedDeinit, BoxedPut
    <2>3. QED  BY <2>1, <2>2
  <1>3. ASSUME InitCollection PROVE Boxed(m2)
    <2>1. m2 = m.at \/ m2 = Put(m, Top.at, << >>).at  BY <1>3 DEF InitCollection, MemoryIs
    <2> HIDE DEF m, m2
    <2>2. Boxed(Put(m, Top.at, << >>).at)  BY <1>1, BoxedPut
    <2>3. QED  BY <1>1, <2>1, <2>2
  <1>4. ASSUME BeginItem \/ BeginKey \/ BeginValue \/ BeginElement PROVE Boxed(m2)
    <2>1. \E b : Grown(mem, m2, b)  BY <1>4 DEF BeginItem, BeginKey, BeginValue, BeginElement, Grown
    <2> HIDE DEF m2
    <2>2. QED  BY <1>1, <2>1, BoxedGrown
  <1>5. ASSUME EndStrict PROVE Boxed(m2)
    <2> DEFINE n == Finish(m, Top)
               g == stack[Len(stack) - 1]
    <2>1. m2 = n.at \/ m2 = Insert(n, g, Top.at).at  BY <1>5 DEF EndStrict, MemoryIs
    <2>2. Boxed(n.at)
      <3> HIDE DEF m
      <3>1. QED  BY <1>1, BoxedFinish
    <2> HIDE DEF n, g, m2
    <2>3. Boxed(Insert(n, g, Top.at).at)  BY <2>2, BoxedInsert
    <2>4. QED  BY <2>1, <2>2, <2>3
  <1>6. ASSUME EndDeferred PROVE Boxed(m2)
    <2>1. m2 = m.at \/ \E A : m2 = Freed(m, A).at  BY <1>6 DEF EndDeferred, MemoryIs, Displaced
    <2> HIDE DEF m, m2
    <2>2. \A A : Boxed(Freed(m, A).at)  BY <1>1, BoxedFreed
    <2>3. QED  BY <1>1, <2>1, <2>2
  <1>7. ASSUME EndElement PROVE Boxed(m2)
    <2> DEFINE A == Slots(Top, RopeLen(Top))
               n == Freed(m, A)
               g == stack[Len(stack) - 1]
    <2>1. m2 = Insert(n, g, Top.at).at  BY <1>7 DEF EndElement, MemoryIs
    <2>2. Boxed(n.at)
      <3> HIDE DEF m, A
      <3>1. QED  BY <1>1, BoxedFreed
    <2> HIDE DEF n, g, m2
    <2>3. Boxed(Insert(n, g, Top.at).at)  BY <2>2, BoxedInsert
    <2>4. QED  BY <2>1, <2>3
  <1>8. ASSUME NEW p, WalkFrame(p) PROVE Boxed(m2)
    <2> DEFINE n == Finish(m, stored[p])
    <2>1. Boxed(n.at) /\ n = [at |-> n.at, faults |-> n.faults]
      <3> HIDE DEF m
      <3>1. n = [at |-> n.at, faults |-> n.faults]  BY <1>1 DEF Finish, Drain, Freed
      <3>2. QED  BY <1>1, <3>1, BoxedFinish
    <2>2. \E x : m2 = [n EXCEPT !.faults = x].at  BY <1>8 DEF WalkFrame, MemoryIs
    <2> HIDE DEF n, m2
    <2>3. \A x : [n EXCEPT !.faults = x].at = n.at  BY <2>1
    <2>4. QED  BY <2>1, <2>2, <2>3
  <1>9. ASSUME WalkTop PROVE Boxed(m2)
    <2>1. m2 = Finish(m, Top).at  BY <1>9 DEF WalkTop, MemoryIs
    <2> HIDE DEF m, m2
    <2>2. QED  BY <1>1, <2>1, BoxedFinish
  <1>10. ASSUME BeginDeferred \/ FinishDeferred PROVE Boxed(m2)
    BY <1>1, <1>10 DEF BeginDeferred, FinishDeferred
  <1>11. CASE \/ Build \/ Cancel \/ WalkTopFails \/ CleanedUp \/ DropFrame
              \/ \E p \in DOMAIN stored : WalkFails(p) \/ CleanStored(p)
    <2>1. ~Building'
      BY <1>11 DEF Build, Cancel, WalkTopFails, CleanedUp, DropFrame, WalkFails, CleanStored, Building, Active
    <2>2. QED  BY <2>1
  <1>12. QED
    BY <1>2, <1>3, <1>4, <1>5, <1>6, <1>7, <1>8, <1>9, <1>10, <1>11 DEF Next, Call, Loop, m2

-----------------------------------------------------------------------------
(* build, and every step *)

\* A tracker is that of its collection's kind.
LEMMA RootSetIs ==
    ASSUME NEW t, t[1] \in Kinds, NEW f, Tracked(t, f), f.at = Root, f.tracker = "Set"
    PROVE  t[1] = "set"
  <1>1. CollectionOf(t, f) = "Set"  BY DEF Tracked
  <1>2. Len(f.at) + 1 = 1  BY RootIs, EmptySeq DEF Root
  <1>3. t[1] # "list" /\ t[1] # "map"  BY <1>1, <1>2 DEF CollectionOf
  <1>4. QED  BY <1>3 DEF Kinds

\* build() hands over the value that was described.
LEMMA BuildSays ==
    ASSUME CollectionsInv, DescriptionInv, Build
    PROVE  AsDescribed'
  <1> DEFINE F == FramesOf(stack, stored)
             P == PlacesOf(F)
             f == stack[1]
             m == Memory
             m2 == mem'
             S == StoredAt(stored)
             w == 3 * sets
  <1>1. /\ Active /\ Building /\ mode = "Strict" /\ Len(stack) = 1 /\ Complete(f)
        /\ m2 = Finish(m, f).at /\ UNCHANGED <<type, said>>
    BY DEF Build, Top, MemoryIs, Building, Active
  <1>2. /\ LiveOK(type, stack, stored, mem) /\ BuildingOK(stack, stored, mem)
        /\ m.at = mem /\ m.faults = {} /\ DOMAIN stored = {}
    BY <1>1, InMode, ActiveFacts
  <1>3. f.at = Root /\ FrameOK(f) /\ OwnOK(f, P, mem) /\ Bare(f, P)
    BY <1>1, <1>2, LastFrame
  <1>4. f \in F /\ S = {}  BY <1>1, <1>2 DEF FramesOf, StoredAt
  <1>5. Sound(f, P, S, mem) /\ Tracked(type, f)  BY <1>2, <1>4 DEF BuildingOK, LiveOK
  <1>6. f.isInit /\ f.state = "Idle"  BY <1>1 DEF Complete
  <1>7. PICK d : d[Root] = said /\ TellsAll(type, F, d, S, mem, w)  BY <1>1, InvTold
  <1>8. m = [at |-> m.at, faults |-> m.faults] /\ Boxed(m.at)  BY <1>1, MemoryBoxed
  <1>9. type[1] \in Kinds  BY TypeIs
  <1> HIDE DEF F, P, f, m, m2, S, w
  <1>10. Tells(f, d, S, m.at)  BY <1>2, <1>4, <1>7 DEF TellsAll
  <1>11. /\ Became(m.at, Finish(m, f).at, Allocations(f), f.at)
         /\ SaysIt(f, d[f.at], Finish(m, f).at[f.at][1])
    <2>1. OwnOK(f, P, m.at) /\ ListOK(f, P) /\ \A a \in S : ~IsPart(a, f.at)
      BY <1>2, <1>3, <1>4, <1>5 DEF Sound
    <2>2. /\ Became(m.at, Finish(m, f).at, Allocations(f), f.at)
          /\ SaysIt(f, d[f.at], Finish(m, f).at[f.at][1])
          /\ f.tracker # "Scalar" => IsSeq(Finish(m, f).at[f.at][1])
          /\ Finish(m, f).faults = {}
      BY <1>2, <1>3, <1>6, <1>10, <2>1, FinishSays
    <2>3. QED  BY <2>2
  <1>12. Boxed(m2)  BY <1>1, <1>8, BoxedFinish
  <1>13. m2[Root] = Some(m2[Root][1])
    BY <1>1, <1>3, <1>11, <1>12 DEF Became, Boxed
  <1>14. \/ said = m2[Root][1]
         \/ f.tracker = "Set" /\ ToSet(said) = ToSet(m2[Root][1])
    BY <1>1, <1>3, <1>7, <1>11 DEF SaysIt
  <1>15. m2[Root] = Some(said) \/ (type[1] = "set" /\ ToSet(m2[Root][1]) = ToSet(said))
    BY <1>3, <1>5, <1>9, <1>13, <1>14, RootSetIs
  <1>16. mem'[Root] = Some(said') \/ (type'[1] = "set" /\ ToSet(mem'[Root][1]) = ToSet(said'))
    BY <1>1, <1>15 DEF m2
  <1>17. QED  BY <1>16 DEF AsDescribed

\* Only build() ends with a value.
LEMMA OnlyBuild == ASSUME Next, phase' = "Built" PROVE Build \/ UNCHANGED phase
  <1>1. ASSUME NEW n, SetWhole(n) PROVE UNCHANGED phase  BY <1>1 DEF SetWhole
  <1>2. InitCollection \/ BeginItem => UNCHANGED phase  BY DEF InitCollection, BeginItem
  <1>3. BeginKey \/ BeginValue => UNCHANGED phase  BY DEF BeginKey, BeginValue
  <1>4. BeginElement \/ EndStrict => UNCHANGED phase  BY DEF BeginElement, EndStrict
  <1>5. EndDeferred \/ EndElement => UNCHANGED phase  BY DEF EndDeferred, EndElement
  <1>6. BeginDeferred \/ FinishDeferred \/ Cancel => phase' # "Built" \/ UNCHANGED phase
    BY DEF BeginDeferred, FinishDeferred, Cancel
  <1>7. Call => Build \/ UNCHANGED phase  BY <1>1, <1>2, <1>3, <1>4, <1>5, <1>6 DEF Call
  <1>8. Loop => UNCHANGED phase
    BY DEF Loop, WalkFrame, WalkFails, CleanStored, WalkTop, WalkTopFails, CleanedUp, DropFrame
  <1>9. QED  BY <1>7, <1>8 DEF Next
\* The caller calls while no loop runs.
LEMMA CallsAreActive == ASSUME Call PROVE Active
  <1>1. ASSUME NEW n, SetWhole(n) PROVE Active  BY <1>1 DEF SetWhole
  <1>2. InitCollection => Active  BY DEF InitCollection
  <1>3. BeginItem => Active  BY DEF BeginItem
  <1>4. BeginKey => Active  BY DEF BeginKey
  <1>5. BeginValue => Active  BY DEF BeginValue
  <1>6. BeginElement => Active  BY DEF BeginElement
  <1>7. (EndStrict => Active) /\ (EndDeferred => Active) /\ (EndElement => Active)
    BY DEF EndStrict, EndDeferred, EndElement
  <1>8. BeginDeferred \/ FinishDeferred \/ Build \/ Cancel => Active
    BY DEF BeginDeferred, FinishDeferred, Build, Cancel
  <1>9. QED  BY <1>1, <1>2, <1>3, <1>4, <1>5, <1>6, <1>7, <1>8 DEF Call

\* A value that is built is no Partial any more.
LEMMA BuiltIsLast == ASSUME Next PROVE phase # "Built"
  <1>1. Call => Active  BY CallsAreActive
  <1>2. ASSUME Loop PROVE phase \in {"Walking", "Cleaning", "Dropping"}
    BY <1>2 DEF Loop, WalkFrame, WalkFails, CleanStored, WalkTop, WalkTopFails, CleanedUp, DropFrame
  <1>3. QED  BY <1>1, <1>2 DEF Next, Active

\* What is given up is not built again.
LEMMA NextBuilding == ASSUME Next, Building' PROVE Building
  <1>1. phase \in {"Cleaning", "Dropping"} /\ Loop => phase' # "Active" /\ phase' # "Walking"
    BY DEF Loop, WalkFrame, WalkFails, CleanStored, WalkTop, WalkTopFails, CleanedUp, DropFrame
  <1>2. Loop => phase \in {"Walking", "Cleaning", "Dropping"}
    BY DEF Loop, WalkFrame, WalkFails, CleanStored, WalkTop, WalkTopFails, CleanedUp, DropFrame
  <1>3. Call => Active  BY CallsAreActive
  <1>4. QED  BY <1>1, <1>2, <1>3 DEF Next, Building, Active

LEMMA SetsCounted == ASSUME sets \in Nat, Next PROVE sets' \in Nat
  <1>1. ASSUME NEW n, SetWhole(n) PROVE sets' = sets + 1  BY <1>1 DEF SetWhole
  <1>2. ASSUME Call, ~\E n \in 0..1 : SetWhole(n) PROVE sets' = sets
    <2>1. InitCollection \/ BeginItem => sets' = sets  BY DEF InitCollection, BeginItem
    <2>2. BeginKey \/ BeginValue => sets' = sets  BY DEF BeginKey, BeginValue
    <2>3. BeginElement \/ EndStrict => sets' = sets  BY DEF BeginElement, EndStrict
    <2>4. EndDeferred \/ EndElement => sets' = sets  BY DEF EndDeferred, EndElement
    <2>5. BeginDeferred \/ FinishDeferred \/ Build \/ Cancel => sets' = sets
      BY DEF BeginDeferred, FinishDeferred, Build, Cancel
    <2>6. QED  BY <1>2, <2>1, <2>2, <2>3, <2>4, <2>5 DEF Call
  <1>3. ASSUME Loop PROVE sets' = sets
    BY <1>3 DEF Loop, WalkFrame, WalkFails, CleanStored, WalkTop, WalkTopFails, CleanedUp, DropFrame
  <1>4. QED  BY <1>1, <1>2, <1>3 DEF Next

\* What was described stays so while the caller builds.
LEMMA StaysTold ==
    ASSUME CollectionsInv, DescriptionInv, Usage = {}, Next, Building'
    PROVE  ToldNext
  <1>1. Building  BY NextBuilding
  <1>2. ASSUME BeginDeferred \/ FinishDeferred PROVE ToldNext
    <2>1. UNCHANGED <<type, stack, stored, mem, sets, said>>
      BY <1>2 DEF BeginDeferred, FinishDeferred
    <2>2. Told(type, stack, stored, mem, 3 * sets, said)  BY <1>1 DEF DescriptionInv
    <2>3. QED  BY <2>1, <2>2 DEF ToldNext
  <1>3. ASSUME \/ Build \/ Cancel \/ WalkTopFails \/ CleanedUp \/ DropFrame
               \/ \E p \in DOMAIN stored : WalkFails(p) \/ CleanStored(p)
        PROVE  FALSE
    BY <1>3 DEF Build, Cancel, WalkTopFails, CleanedUp, DropFrame, WalkFails, CleanStored, Building, Active
  <1>4. ASSUME Call PROVE ToldNext
    BY <1>2, <1>3, <1>4, SetWholeTold, InitCollectionTold, BeginItemTold, BeginKeyTold, BeginValueTold,
       BeginElementTold, EndStrictTold, EndDeferredTold, EndElementTold DEF Call
  <1>5. ASSUME Loop PROVE ToldNext
    BY <1>3, <1>5, WalkFrameTold, WalkTopTold DEF Loop
  <1>6. QED  BY <1>4, <1>5 DEF Next

\* The root is told nothing yet.
LEMMA InitTold ==
    ASSUME Init PROVE DescriptionInv
  <1> DEFINE n == NewFrame(Root)
             d == [a \in {Root} |-> << >>]
             F == FramesOf(stack, stored)
  <1>1. /\ n.at = Root /\ n.tracker = "Scalar" /\ n.isInit = FALSE /\ n.state = "Idle"
    BY DEF NewFrame
  <1>2. stack = <<n>> /\ stored = << >> /\ mem = [a \in {Root} |-> None] /\ said = << >> /\ sets = 0 /\ phase = "Active"
    BY DEF Init
  <1>3. F = {n} /\ StoredAt(stored) = {}  BY <1>2 DEF FramesOf, StoredAt
  <1>4. d[Root] = << >>  OBVIOUS
  <1> HIDE DEF n, d, F
  <1>5. ~Busy(n)  BY <1>1 DEF Busy
  <1>6. Tells(n, d, {}, mem)  BY <1>1, <1>4, <1>5 DEF Tells, ScalarTells
  <1>7. Grows(type, n, mem, 3 * sets) /\ New(n, mem)  BY <1>1 DEF Grows, New
  <1>8. TellsAll(type, F, d, StoredAt(stored), mem, 3 * sets)  BY <1>3, <1>6, <1>7 DEF TellsAll
  <1>9. Told(type, stack, stored, mem, 3 * sets, said)  BY <1>2, <1>4, <1>8 DEF Told, F
  <1>10. Boxed(mem)  BY <1>2 DEF Boxed
  <1>11. sets \in Nat /\ AsDescribed  BY <1>2 DEF AsDescribed
  <1>12. QED  BY <1>9, <1>10, <1>11 DEF DescriptionInv

\* DescriptionInv is inductive, beside CollectionsInv.
LEMMA NextDescribed ==
    ASSUME CollectionsInv, DescriptionInv, Usage = {}, [Next]_vars
    PROVE  DescriptionInv'
  <1>1. CASE UNCHANGED vars
    BY <1>1 DEF vars, DescriptionInv, Building, AsDescribed, Told
  <1>2. CASE Next
    <2>1. sets' \in Nat  BY <1>2, SetsCounted DEF DescriptionInv
    <2>2. AsDescribed'
      <3>1. CASE Build  BY <3>1, BuildSays
      <3>2. CASE ~Build
        <4>1. phase' # "Built"  BY <1>2, <3>2, OnlyBuild, BuiltIsLast
        <4>2. QED  BY <4>1 DEF AsDescribed
      <3>3. QED  BY <3>1, <3>2
    <2>3. ASSUME Building' PROVE ToldNext /\ Boxed(mem')
      BY <1>2, <2>3, StaysTold, StaysBoxed, NextBuilding
    <2>4. QED  BY <2>1, <2>2, <2>3 DEF DescriptionInv, ToldNext
  <1>3. QED  BY <1>1, <1>2

(***************************************************************************)
(* The value that build() hands over is the one the caller's calls         *)
(* described, element by element and in order, a set's without regard to   *)
(* order, whatever was begun, stored, walked, drained or set again.        *)
(***************************************************************************)
THEOREM BuildsWhatWasSaid == Usage = {} => (Spec => []AsDescribed)
  <1> SUFFICES ASSUME Usage = {} PROVE Spec => []AsDescribed
    OBVIOUS
  <1>1. Init => DescriptionInv
    BY InitTold
  <1>2. CollectionsInv /\ DescriptionInv /\ [Next]_vars => DescriptionInv'
    BY NextDescribed
  <1>3. DescriptionInv => AsDescribed
    BY DEF DescriptionInv
  <1>4. Spec => []CollectionsInv
    BY CollectionsInvariant
  <1>5. QED
    BY <1>1, <1>2, <1>3, <1>4, PTL DEF Spec

=============================================================================
