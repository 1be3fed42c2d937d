----------------------------- MODULE NameTables -----------------------------
(***************************************************************************)
(* FieldLookup and VariantLookup: from a name to the index of the field or *)
(* variant.  Few entries are a list that is searched from its beginning.   *)
(* Many entries of fields are put in buckets by the first bytes of their   *)
(* names, many of variants are sorted by name.                             *)
(*                                                                         *)
(* A name is the sequence of its bytes.  The thresholds of the code are    *)
(* constants here, and the order that buckets are sorted in is any.        *)
(***************************************************************************)
EXTENDS Naturals, Sequences, SequencesExt, FiniteSets

CONSTANTS
    LookupThreshold,  \* LOOKUP_THRESHOLD, 8
    ShortPrefix,      \* 4
    LongPrefix        \* 8, and the length from which a name is long

NoIndex == 0

\* Declared: a sequence of [name, aliases] (a field has at most one alias).
EntriesOf(declared) ==
    FlattenSeq([i \in DOMAIN declared |->
        <<[name |-> declared[i].name, index |-> i, isAlias |-> FALSE]>>
        \o [k \in DOMAIN declared[i].aliases |->
             [name |-> declared[i].aliases[k], index |-> i, isAlias |-> TRUE]]])

First(entries, name) ==
    LET found == SelectSeq(entries, LAMBDA e : e.name = name) IN
    IF found = << >> THEN NoIndex ELSE found[1].index

\* compute_prefix: n bytes, a shorter name is padded with zeroes.
Prefix(name, n) == [i \in 1..n |-> IF i <= Len(name) THEN name[i] ELSE 0]

PrefixLen(entries) ==
    IF Cardinality({i \in DOMAIN entries : Len(entries[i].name) >= LongPrefix}) > Len(entries) \div 2
    THEN LongPrefix ELSE ShortPrefix

\* Entries of one bucket keep their order.
Bucket(entries, n, prefix) == SelectSeq(entries, LAMBDA e : Prefix(e.name, n) = prefix)

\* Where the buckets begin in the one array of all entries.
\* Slip: a bucket begins where the one before it begins.
StartsTooEarly(buckets) ==
    [b \in DOMAIN buckets |-> IF b <= 2 THEN 0 ELSE Len(FlattenSeq(SubSeq(buckets, 1, b - 2)))]
Starts(buckets) == [b \in DOMAIN buckets |-> Len(FlattenSeq(SubSeq(buckets, 1, b - 1)))]

FieldLookup(entries) ==
    IF Len(entries) <= LookupThreshold
    THEN [small |-> TRUE, entries |-> entries]
    ELSE LET n == PrefixLen(entries)
             prefixes == SetToSeq({Prefix(entries[i].name, n) : i \in DOMAIN entries})
             buckets == [b \in DOMAIN prefixes |-> Bucket(entries, n, prefixes[b])] IN
         [small |-> FALSE, prefixLen |-> n, entries |-> FlattenSeq(buckets),
          buckets |-> [b \in DOMAIN buckets |->
                        [prefix |-> prefixes[b], start |-> Starts(buckets)[b], count |-> Len(buckets[b])]]]

FindField(table, name) ==
    IF table.small THEN First(table.entries, name)
    ELSE LET hits == {b \in DOMAIN table.buckets :
                        table.buckets[b].prefix = Prefix(name, table.prefixLen)} IN
         IF hits = {} THEN NoIndex
         ELSE LET b == table.buckets[CHOOSE b \in hits : TRUE] IN
              First(SubSeq(table.entries, b.start + 1, b.start + b.count), name)

\* Names before aliases, the fallback variant (`other`) not at all.
VariantEntries(declared) ==
    LET all == SelectSeq(EntriesOf(declared), LAMBDA e : ~declared[e.index].other) IN
    FoldLeft(LAMBDA acc, e : IF First(acc, e.name) = NoIndex THEN Append(acc, e) ELSE acc,
             SelectSeq(all, LAMBDA e : ~e.isAlias), SelectSeq(all, LAMBDA e : e.isAlias))

\* A binary search finds one of the entries of that name; First, the first.
FindVariant(declared, name) ==
    LET entries == VariantEntries(declared)
        hits == {entries[i].index : i \in {j \in DOMAIN entries : entries[j].name = name}} IN
    IF Len(entries) <= LookupThreshold THEN {First(entries, name)}
    ELSE IF hits = {} THEN {NoIndex} ELSE hits

=============================================================================
