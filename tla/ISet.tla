-------------------------------- MODULE ISet --------------------------------
(***************************************************************************)
(* ISet: which of `count` fields are initialized, as words of WordBits     *)
(* bits (64 in the code).                                                  *)
(*                                                                         *)
(* A word is the set of its bits that are 1, an ISet the sequence of its   *)
(* words.  ISetInner::Small is the ISet of one word: Large has at least    *)
(* two, since it is made for more than WordBits fields only.               *)
(***************************************************************************)
EXTENDS Integers, Sequences

CONSTANT WordBits   \* ISet::BITS_PER_WORD

ASSUME WordBitsAssumption == WordBits \in Nat \ {0}

Bits == 0..WordBits - 1

\* 2^n - 1, the mask of the lowest n bits; all of them are u64::MAX.
Mask(n) == 0..n - 1
Max64 == Bits

WordOf(i) == i \div WordBits + 1
BitOf(i) == i % WordBits

\* div_ceil
WordCount(count) ==
    IF count <= WordBits THEN 1 ELSE (count + WordBits - 1) \div WordBits

ISets(count) == [1..WordCount(count) -> SUBSET Bits]

NewISet(count) == [w \in 1..WordCount(count) |-> {}]

SetBit(s, i) == [s EXCEPT ![WordOf(i)] = @ \cup {BitOf(i)}]
UnsetBit(s, i) == [s EXCEPT ![WordOf(i)] = @ \ {BitOf(i)}]
GetBit(s, i) == BitOf(i) \in s[WordOf(i)]

\* Slip: a count of WordBits is taken for "no limit".
AllSetBelow(s, count) ==
    LET full == count \div WordBits
        rest == count % WordBits IN
    IF Len(s) = 1
    THEN count < WordBits => Mask(count) \subseteq s[1]
    ELSE /\ \A w \in 1..Len(s) : w <= full => s[w] = Max64
         /\ (rest > 0 /\ full < Len(s)) => Mask(rest) \subseteq s[full + 1]

AllSet(s, count) ==
    LET full == count \div WordBits
        rest == count % WordBits IN
    IF Len(s) = 1
    THEN IF count >= WordBits THEN s[1] = Max64 ELSE Mask(count) \subseteq s[1]
    ELSE /\ \A w \in 1..Len(s) : w <= full => s[w] = Max64
         /\ (rest > 0 /\ full < Len(s)) => Mask(rest) \subseteq s[full + 1]

SetAll(s, count) ==
    LET full == count \div WordBits
        rest == count % WordBits IN
    IF Len(s) = 1
    THEN [s EXCEPT ![1] = IF count >= WordBits THEN Max64 ELSE @ \cup Mask(count)]
    ELSE [w \in 1..Len(s) |->
            IF w <= full THEN Max64
            ELSE IF w = full + 1 /\ rest > 0 THEN s[w] \cup Mask(rest) ELSE s[w]]

=============================================================================
