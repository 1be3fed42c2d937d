---------------------------- MODULE ISet_proofs ----------------------------
(***************************************************************************)
(* What the operations of ISet do, for every word size and every count of  *)
(* fields: an ISet is the set of its indices, whatever words hold it, and  *)
(* all_set looks at exactly the first `count` of them.                     *)
(***************************************************************************)
EXTENDS ISet, TLAPS

-----------------------------------------------------------------------------
(* Division by the size of a word *)

LEMMA Multiples ==
    ASSUME NEW v \in Int, NEW w \in Int, v <= w
    PROVE  WordBits * v <= WordBits * w
BY WordBitsAssumption

LEMMA DivMod ==
    ASSUME NEW i \in Nat
    PROVE  /\ i \div WordBits \in Nat
           /\ i % WordBits \in Bits
           /\ i = WordBits * (i \div WordBits) + (i % WordBits)
<1> DEFINE q == i \div WordBits
           r == i % WordBits
<1>1. r \in Bits
  BY WordBitsAssumption DEF Bits
<1>2. q \in Int
  BY WordBitsAssumption
<1>3. i = WordBits * q + r
  BY WordBitsAssumption
<1>4. q >= 0
  <2>1. SUFFICES ASSUME q <= -1
                 PROVE  FALSE
    BY <1>2
  <2>2. WordBits * q <= WordBits * (-1)
    BY <1>2, <2>1, Multiples
  <2>3. QED
    BY <1>1, <1>3, <2>2, WordBitsAssumption DEF Bits
<1>5. q \in Nat
  <2> HIDE DEF q
  <2> QED
    BY <1>2, <1>4
<1>6. QED
  BY <1>1, <1>3, <1>5

LEMMA DivModUnique ==
    ASSUME NEW w \in Nat, NEW b \in Bits
    PROVE  /\ (WordBits * w + b) \div WordBits = w
           /\ (WordBits * w + b) % WordBits = b
BY WordBitsAssumption DEF Bits

\* An index is below a multiple of the word size if its word is.
LEMMA WordsBefore ==
    ASSUME NEW i \in Nat, NEW n \in Nat
    PROVE  i < WordBits * n <=> WordOf(i) <= n
<1> DEFINE q == i \div WordBits
<1>1. q \in Nat /\ i = WordBits * q + (i % WordBits) /\ i % WordBits \in Bits
  BY DivMod
<1>2. CASE q + 1 <= n
  <2>1. WordBits * (q + 1) <= WordBits * n
    BY <1>1, <1>2, Multiples
  <2>2. WordBits * (q + 1) = WordBits * q + WordBits
    BY <1>1, WordBitsAssumption
  <2>3. QED
    BY <1>1, <1>2, <2>1, <2>2, WordBitsAssumption DEF WordOf, Bits
<1>3. CASE n <= q
  <2>1. WordBits * n <= WordBits * q
    BY <1>1, <1>3, Multiples
  <2>2. QED
    BY <1>1, <1>3, <2>1, WordBitsAssumption DEF WordOf, Bits
<1>4. QED
  BY <1>1, <1>2, <1>3

\* The word of an index is one of the set's.
LEMMA WordInRange ==
    ASSUME NEW count \in Nat, NEW i \in 0..count - 1
    PROVE  WordOf(i) \in 1..WordCount(count) /\ BitOf(i) \in Bits
<1>1. i \in Nat
  OBVIOUS
<1>2. BitOf(i) \in Bits /\ i \div WordBits \in Nat
  BY <1>1, DivMod DEF BitOf
<1>3. CASE count <= WordBits
  <2>1. i < WordBits * 1
    BY <1>3, WordBitsAssumption
  <2>2. QED
    BY <1>1, <1>2, <1>3, <2>1, WordsBefore DEF WordOf, WordCount
<1>4. CASE count > WordBits
  <2> DEFINE c == count + WordBits - 1
             n == c \div WordBits
  <2>1. c \in Nat
    BY WordBitsAssumption
  <2>2. n \in Nat /\ c = WordBits * n + (c % WordBits) /\ c % WordBits \in Bits
    BY <2>1, DivMod
  <2>3. i < WordBits * n
    BY <2>2, WordBitsAssumption DEF Bits
  <2>4. WordOf(i) <= n
    BY <1>1, <2>2, <2>3, WordsBefore
  <2>5. WordCount(count) = n
    BY <1>4, WordBitsAssumption DEF WordCount
  <2>6. QED
    BY <1>2, <2>2, <2>4, <2>5 DEF WordOf
<1>5. QED
  BY <1>3, <1>4, WordBitsAssumption

\* Two indices with the same word and bit are the same.
LEMMA IndexUnique ==
    ASSUME NEW i \in Nat, NEW j \in Nat, WordOf(i) = WordOf(j), BitOf(i) = BitOf(j)
    PROVE  i = j
<1>1. i = WordBits * (i \div WordBits) + (i % WordBits) /\ i \div WordBits \in Nat
  BY DivMod
<1>2. j = WordBits * (j \div WordBits) + (j % WordBits) /\ j \div WordBits \in Nat
  BY DivMod
<1> DEFINE q(n) == n \div WordBits
           r(n) == (n % WordBits)
<1>3. q(i) = q(j) /\ r(i) = r(j)
  BY <1>1, <1>2 DEF WordOf, BitOf
<1>4. i = WordBits * q(i) + r(i) /\ j = WordBits * q(j) + r(j)
  BY <1>1, <1>2
<1> HIDE DEF q, r
<1>5. QED
  BY <1>3, <1>4

-----------------------------------------------------------------------------
(* Setting and unsetting one index *)

(***************************************************************************)
(* ISet::set, unset and get: an index that is set is set, one that is      *)
(* unset is not, and no other index changes, in the same word or another.  *)
(***************************************************************************)
THEOREM BitsAreIndependent ==
    ASSUME NEW count \in Nat, NEW s \in ISets(count),
           NEW i \in 0..count - 1, NEW j \in 0..count - 1
    PROVE  /\ SetBit(s, i) \in ISets(count) /\ UnsetBit(s, i) \in ISets(count)
           /\ GetBit(SetBit(s, i), j) <=> (j = i \/ GetBit(s, j))
           /\ GetBit(UnsetBit(s, i), j) <=> (j # i /\ GetBit(s, j))
           /\ ~GetBit(NewISet(count), j)
<1>1. /\ WordOf(i) \in 1..WordCount(count) /\ BitOf(i) \in Bits
      /\ WordOf(j) \in 1..WordCount(count) /\ BitOf(j) \in Bits
  BY WordInRange
<1>2. WordOf(i) = WordOf(j) /\ BitOf(i) = BitOf(j) => i = j
  BY IndexUnique
<1>3. s \in [1..WordCount(count) -> SUBSET Bits]
  BY DEF ISets
<1>4. SetBit(s, i) \in ISets(count) /\ UnsetBit(s, i) \in ISets(count)
  BY <1>1, <1>3 DEF SetBit, UnsetBit, ISets
<1>5. GetBit(SetBit(s, i), j) <=> (j = i \/ GetBit(s, j))
  BY <1>1, <1>2, <1>3 DEF GetBit, SetBit
<1>6. GetBit(UnsetBit(s, i), j) <=> (j # i /\ GetBit(s, j))
  BY <1>1, <1>2, <1>3 DEF GetBit, UnsetBit
<1>7. ~GetBit(NewISet(count), j)
  BY <1>1 DEF GetBit, NewISet
<1>8. QED
  BY <1>4, <1>5, <1>6, <1>7

-----------------------------------------------------------------------------
(* The first `count` indices at once *)

\* Bit b of word w is the bit of an index below count.
Below(count, w, b) ==
    \/ w <= count \div WordBits
    \/ w = count \div WordBits + 1 /\ b < (count % WordBits)

LEMMA BelowIsIndex ==
    ASSUME NEW count \in Nat, NEW w \in Nat, NEW b \in Bits
    PROVE  Below(count, w + 1, b) <=> WordBits * w + b < count
<1> DEFINE q == count \div WordBits
           r == count % WordBits
<1>1. q \in Nat /\ r \in Bits /\ count = WordBits * q + r
  BY DivMod
<1>2. CASE w < q
  <2>1. WordBits * (w + 1) <= WordBits * q
    BY <1>1, <1>2, Multiples
  <2>2. WordBits * (w + 1) = WordBits * w + WordBits
    BY WordBitsAssumption
  <2>3. QED
    BY <1>1, <1>2, <2>1, <2>2, WordBitsAssumption DEF Below, Bits
<1>3. CASE w = q
  BY <1>1, <1>3, WordBitsAssumption DEF Below, Bits
<1>4. CASE q < w
  <2>1. WordBits * (q + 1) <= WordBits * w
    BY <1>1, <1>4, Multiples
  <2>2. WordBits * (q + 1) = WordBits * q + WordBits
    BY <1>1, WordBitsAssumption
  <2>3. QED
    BY <1>1, <1>4, <2>1, <2>2, WordBitsAssumption DEF Below, Bits
<1>5. QED
  BY <1>1, <1>2, <1>3, <1>4

\* Every index is below count as its word and bit are.
LEMMA IndexIsBelow ==
    ASSUME NEW count \in Nat, NEW i \in 0..count - 1
    PROVE  Below(count, WordOf(i), BitOf(i))
<1> DEFINE w == i \div WordBits
           b == i % WordBits
<1>1. w \in Nat /\ b \in Bits /\ i = WordBits * w + b
  BY DivMod
<1>2. WordOf(i) = w + 1 /\ BitOf(i) = b
  BY DEF WordOf, BitOf
<1> HIDE DEF w, b
<1>3. Below(count, w + 1, b)
  BY <1>1, BelowIsIndex
<1>4. QED
  BY <1>2, <1>3

\* The words and bits that are below count are those of an index below count.
LEMMA BelowHasIndex ==
    ASSUME NEW count \in Nat, NEW w \in Nat \ {0}, NEW b \in Bits, Below(count, w, b)
    PROVE  \E i \in 0..count - 1 : WordOf(i) = w /\ BitOf(i) = b
<1> DEFINE v == w - 1
           i == WordBits * v + b
<1>1. v \in Nat /\ w = v + 1
  OBVIOUS
<1> HIDE DEF v
<1>2. WordBits * v + b < count
  BY <1>1, BelowIsIndex
<1>3. i \div WordBits = v /\ i % WordBits = b
  BY <1>1, DivModUnique
<1>4. WordBits * v \in Nat
  BY <1>1, WordBitsAssumption
<1>5. i \in 0..count - 1
  BY <1>2, <1>4 DEF Bits
<1>6. WordOf(i) = w /\ BitOf(i) = b
  BY <1>1, <1>3 DEF WordOf, BitOf
<1>7. QED
  BY <1>5, <1>6

\* The last word is partly used, and there is none after it.
LEMMA WordsUsed ==
    ASSUME NEW count \in Nat
    PROVE  /\ WordCount(count) \in Nat \ {0}
           /\ WordCount(count) = 1 <=> count <= WordBits
           /\ \A w \in Nat \ {0}, b \in Bits : Below(count, w, b) => w <= WordCount(count)
<1>1. WordCount(count) \in Nat \ {0} /\ (WordCount(count) = 1 <=> count <= WordBits)
  <2>1. CASE count <= WordBits
    BY <2>1 DEF WordCount
  <2>2. CASE count > WordBits
    <3> DEFINE c == count + WordBits - 1
               n == c \div WordBits
    <3>1. c \in Nat
      BY WordBitsAssumption
    <3>2. n \in Nat /\ c = WordBits * n + (c % WordBits) /\ c % WordBits \in Bits
      BY <3>1, DivMod
    <3>3. WordBits * 1 < WordBits * n
      BY <2>2, <3>2, WordBitsAssumption DEF Bits
    <3>4. ~(n <= 1)
      BY <3>2, <3>3, Multiples, WordBitsAssumption
    <3>5. WordCount(count) = n
      BY <2>2, WordBitsAssumption DEF WordCount
    <3> HIDE DEF n
    <3>6. QED
      BY <2>2, <3>2, <3>4, <3>5, WordBitsAssumption
  <2>3. QED
    BY <2>1, <2>2, WordBitsAssumption
<1>2. \A w \in Nat \ {0}, b \in Bits : Below(count, w, b) => w <= WordCount(count)
  BY BelowHasIndex, WordInRange
<1>3. QED
  BY <1>1, <1>2

\* All indices below count, word by word.
LEMMA BitsExact ==
    ASSUME NEW count \in Nat, NEW s \in ISets(count)
    PROVE  (\A i \in 0..count - 1 : GetBit(s, i))
             <=> (\A w \in 1..WordCount(count), b \in Bits : Below(count, w, b) => b \in s[w])
<1>1. ASSUME \A i \in 0..count - 1 : GetBit(s, i),
             NEW w \in 1..WordCount(count), NEW b \in Bits, Below(count, w, b)
      PROVE  b \in s[w]
  <2>1. w \in Nat \ {0}
    BY WordsUsed
  <2>2. PICK i \in 0..count - 1 : WordOf(i) = w /\ BitOf(i) = b
    BY <1>1, <2>1, BelowHasIndex
  <2>3. QED
    BY <1>1, <2>2 DEF GetBit
<1>2. ASSUME \A w \in 1..WordCount(count), b \in Bits : Below(count, w, b) => b \in s[w],
             NEW i \in 0..count - 1
      PROVE  GetBit(s, i)
  BY <1>2, WordInRange, IndexIsBelow DEF GetBit
<1>3. QED
  BY <1>1, <1>2

(***************************************************************************)
(* ISet::all_set, the question every struct, variant and array is asked    *)
(* before it is built: the whole words, the mask of the last one and the   *)
(* one-word case together say that each of the first `count` fields is     *)
(* initialized, and say nothing of the bits above them.                    *)
(***************************************************************************)
THEOREM AllSetExact ==
    ASSUME NEW count \in Nat, NEW s \in ISets(count)
    PROVE  AllSet(s, count) <=> \A i \in 0..count - 1 : GetBit(s, i)
<1> DEFINE full == count \div WordBits
           rest == count % WordBits
           n == WordCount(count)
<1>1. full \in Nat /\ rest \in Bits /\ count = WordBits * full + rest
  BY DivMod
<1>2. n \in Nat \ {0} /\ (n = 1 <=> count <= WordBits)
  BY WordsUsed
<1>3. \A w \in 1..n : s[w] \subseteq Bits
  BY DEF ISets
<1>4. Len(s) = n
  BY <1>2 DEF ISets
<1>5. AllSet(s, count)
        <=> (\A w \in 1..n, b \in Bits : Below(count, w, b) => b \in s[w])
  <2>1. CASE n = 1
    <3>1. CASE count = WordBits
      <4>1. full = 1 /\ rest = 0
        BY <3>1, WordBitsAssumption
      <4>2. \A b \in Bits : Below(count, 1, b)
        BY <4>1 DEF Below
      <4>3. AllSet(s, count) <=> s[1] = Bits
        BY <1>4, <2>1, <3>1, WordBitsAssumption DEF AllSet, Max64
      <4> HIDE DEF n, full, rest
      <4>4. QED
        BY <1>3, <2>1, <4>2, <4>3
    <3>2. CASE count < WordBits
      <4>1. full = 0 /\ rest = count
        BY <3>2, WordBitsAssumption
      <4>2. \A b \in Bits : Below(count, 1, b) <=> b < count
        BY <4>1 DEF Below
      <4>3. AllSet(s, count) <=> Mask(count) \subseteq s[1]
        BY <1>4, <2>1, <3>2, WordBitsAssumption DEF AllSet
      <4>4. Mask(count) = {b \in Bits : b < count}
        BY <3>2, WordBitsAssumption DEF Mask, Bits
      <4> HIDE DEF n, full, rest
      <4>5. QED
        BY <1>3, <2>1, <4>2, <4>3, <4>4
    <3>3. QED
      BY <1>2, <2>1, <3>1, <3>2, WordBitsAssumption
  <2>2. CASE n # 1
    <3>1. AllSet(s, count)
            <=> /\ \A w \in 1..n : w <= full => s[w] = Bits
                /\ (rest > 0 /\ full < n) => Mask(rest) \subseteq s[full + 1]
      BY <1>4, <2>2 DEF AllSet, Max64
    <3>2. Mask(rest) = {b \in Bits : b < rest}
      BY <1>1, WordBitsAssumption DEF Mask, Bits
    <3>3. \A w \in 1..n, b \in Bits :
            Below(count, w, b) <=> (w <= full \/ (w = full + 1 /\ b < rest))
      BY DEF Below
    <3> HIDE DEF n, full, rest
    <3>4. \A w \in 1..n : w <= full
            => (s[w] = Bits <=> \A b \in Bits : Below(count, w, b) => b \in s[w])
      BY <1>3, <3>3
    <3>5. (rest > 0 /\ full < n) => full + 1 \in 1..n
      BY <1>1, <1>2
    <3>6. ~(rest > 0 /\ full < n) => \A w \in 1..n, b \in Bits :
            w = full + 1 => ~(b < rest)
      BY <1>1, <1>2 DEF Bits
    <3>7. ASSUME AllSet(s, count), NEW w \in 1..n, NEW b \in Bits, Below(count, w, b)
          PROVE  b \in s[w]
      BY <3>1, <3>2, <3>3, <3>4, <3>5, <3>6, <3>7
    <3>8. ASSUME \A w \in 1..n, b \in Bits : Below(count, w, b) => b \in s[w]
          PROVE  AllSet(s, count)
      <4>1. \A w \in 1..n : w <= full => s[w] = Bits
        BY <3>4, <3>8
      <4>2. ASSUME rest > 0 /\ full < n, NEW b \in Mask(rest)
            PROVE  b \in s[full + 1]
        <5>1. full + 1 \in 1..n /\ b \in Bits /\ b < rest
          BY <3>2, <3>5, <4>2
        <5>2. Below(count, full + 1, b)
          BY <3>3, <5>1
        <5>3. QED
          BY <3>8, <5>1, <5>2
      <4>3. QED
        BY <3>1, <4>1, <4>2
    <3>9. QED
      BY <3>7, <3>8
  <2>3. QED
    BY <2>1, <2>2
<1>6. QED
  BY <1>5, BitsExact

(***************************************************************************)
(* ISet::set_all, what a struct, an array or a variant set as a whole is   *)
(* given: it is an ISet of the same size in which each field is            *)
(* initialized, so all_set answers yes.                                    *)
(***************************************************************************)
THEOREM SetAllIsAllSet ==
    ASSUME NEW count \in Nat, NEW s \in ISets(count)
    PROVE  /\ SetAll(s, count) \in ISets(count)
           /\ AllSet(SetAll(s, count), count)
<1> DEFINE full == count \div WordBits
           rest == count % WordBits
           n == WordCount(count)
           t == SetAll(s, count)
<1>1. full \in Nat /\ rest \in Bits /\ count = WordBits * full + rest
  BY DivMod
<1>2. n \in Nat \ {0} /\ (n = 1 <=> count <= WordBits)
  BY WordsUsed
<1>3. \A w \in 1..n : s[w] \subseteq Bits
  BY DEF ISets
<1>4. Len(s) = n
  BY <1>2 DEF ISets
<1>5. Mask(rest) = {b \in Bits : b < rest}
  BY <1>1, WordBitsAssumption DEF Mask, Bits
<1>6. t \in ISets(count)
      /\ \A w \in 1..n, b \in Bits : Below(count, w, b) => b \in t[w]
  <2>1. CASE n = 1
    <3>1. CASE count = WordBits
      <4>1. t = [s EXCEPT ![1] = Bits]
        BY <1>4, <2>1, <3>1, WordBitsAssumption DEF SetAll, Max64
      <4>2. QED
        BY <2>1, <4>1 DEF ISets
    <3>2. CASE count < WordBits
      <4>1. full = 0 /\ rest = count
        BY <3>2, WordBitsAssumption
      <4>2. Len(s) = 1 /\ ~(count >= WordBits)
        BY <1>4, <2>1, <3>2, WordBitsAssumption
      <4>3. t = [s EXCEPT ![1] = @ \cup Mask(count)]
        BY <4>2 DEF SetAll
      <4>4. \A b \in Bits : Below(count, 1, b) <=> b < count
        BY <4>1 DEF Below
      <4>5. Mask(count) = {b \in Bits : b < count}
        BY <1>5, <4>1
      <4> HIDE DEF rest
      <4>6. QED
        BY <2>1, <4>3, <4>4, <4>5 DEF ISets
    <3>3. QED
      BY <1>2, <2>1, <3>1, <3>2, WordBitsAssumption
  <2>2. CASE n # 1
    <3>1. t = [w \in 1..n |-> IF w <= full THEN Bits
                              ELSE IF w = full + 1 /\ rest > 0
                                   THEN s[w] \cup Mask(rest) ELSE s[w]]
      BY <1>4, <2>2 DEF SetAll, Max64
    <3>2. \A w \in 1..n, b \in Bits :
            Below(count, w, b) <=> (w <= full \/ (w = full + 1 /\ b < rest))
      BY DEF Below
    <3>3. t \in [1..n -> SUBSET Bits]
      BY <1>3, <1>5, <3>1
    <3>4. ASSUME NEW w \in 1..n, NEW b \in Bits, Below(count, w, b)
          PROVE  b \in t[w]
      <4> HIDE DEF n, full, rest, t
      <4>1. CASE w <= full
        BY <3>1, <4>1
      <4>2. CASE ~(w <= full)
        <5>1. w = full + 1 /\ b < rest
          BY <3>2, <3>4, <4>2
        <5>2. rest > 0
          BY <1>1, <5>1 DEF Bits
        <5>3. QED
          BY <1>5, <3>1, <4>2, <5>1, <5>2
      <4>3. QED
        BY <4>1, <4>2
    <3>5. QED
      BY <3>3, <3>4 DEF ISets
  <2>3. QED
    BY <2>1, <2>2
<1>7. \A i \in 0..count - 1 : GetBit(t, i)
  <2> HIDE DEF t, n
  <2>1. \A w \in 1..WordCount(count), b \in Bits : Below(count, w, b) => b \in t[w]
    BY <1>6 DEF n
  <2>2. QED
    BY <1>6, <2>1, BitsExact
<1>8. QED
  BY <1>6, <1>7, AllSetExact
=============================================================================
