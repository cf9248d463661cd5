------------------------------ MODULE HashMap ------------------------------
(***************************************************************************)
(* HashMap of src/hashmap/hashmap.go: an open-addressed table of items    *)
(* with linear probing, grown by rebuild when the load factor would pass  *)
(* 0.65.  The map is not safe for concurrent use and the code takes no    *)
(* lock, so one client's Set and Get are the steps.  uint64 arithmetic is *)
(* kept at a word width of Width bits (roundUp, the index mask, the wrap  *)
(* of len-1 at an empty table); HashCode gives the low Width bits of      *)
(* hashcode(key), all that hashFor's mask ever reads.                      *)
(***************************************************************************)
EXTENDS Naturals, Sequences, SequencesExt, FiniteSetsExt, Bitwise

CONSTANTS
    Keys,       \* the keys Set and Get use (uint64 values)
    Vals,       \* the values stored
    NoVal,      \* the nil, false Get returns for an absent key
    Hints,      \* the hints New may be given
    Width,      \* the word width, in bits
    HashCode,   \* HashCode[k] = hashcode(k) mod 2^Width
    MaxSets     \* bound on the Sets made

ASSUME /\ Width \in 1..16
       /\ HashCode \in [Keys -> 0..(2^Width - 1)]
       /\ Hints \subseteq 0..(2^Width - 1)

Word == 2^Width
Nil == [key |-> NoVal, val |-> NoVal]        \* an empty slot of buckets
Panic == -1     \* find indexed past the table: index out of range
Spin == -2      \* find loops for ever on a full table

VARIABLES
    buckets,    \* hm.buckets: slot index 0..len-1 -> item or Nil
    count,      \* hm.count
    got         \* the value the last Get returned

vars == <<buckets, count, got>>

-----------------------------------------------------------------------------
(* roundUp: v-1 with every lower bit set by shifting, then plus one.       *)

\* Mutant: roundUp without the leading v--.
RoundUpNoDecrement(v) ==
    LET smear == FoldLeft(LAMBDA x, s : x | shiftR(x, s), v, <<1, 2, 4, 8, 16, 32>>)
    IN  (smear + 1) % Word

RoundUp(v) ==
    LET smear == FoldLeft(LAMBDA x, s : x | shiftR(x, s),
                          (v - 1) % Word, <<1, 2, 4, 8, 16, 32>>)
    IN  (smear + 1) % Word

\* The reference: the least power of two not below v, as a Width-bit word.
RefRoundUp(v) ==
    (CHOOSE p \in {2^i : i \in 0..Width} : p >= v /\ (p = 1 \/ p \div 2 < v)) % Word

TableLen(b) == Cardinality(DOMAIN b)

\* uint64(len(buckets)) - 1, which wraps at an empty table.
Mask(b) == (TableLen(b) - 1) % Word

HashFor(b, h) == h & Mask(b)

\* Mutant: the probe steps to idx+1 without masking, so it never wraps.
RECURSIVE ProbeNoWrap(_, _, _, _)
ProbeNoWrap(b, key, idx, steps) ==
    IF idx \notin DOMAIN b THEN Panic
    ELSE IF b[idx] = Nil \/ b[idx].key = key THEN idx
    ELSE IF steps >= TableLen(b) THEN Spin
    ELSE ProbeNoWrap(b, key, idx + 1, steps + 1)

\* find's probe loop; it never ends on a full table without the key.
RECURSIVE Probe(_, _, _, _)
Probe(b, key, idx, steps) ==
    IF idx \notin DOMAIN b THEN Panic
    ELSE IF b[idx] = Nil \/ b[idx].key = key THEN idx
    ELSE IF steps >= TableLen(b) THEN Spin
    ELSE Probe(b, key, (idx + 1) & Mask(b), steps + 1)

Find(b, key) == Probe(b, key, HashFor(b, HashCode[key]), 0)

\* buckets.set: store into the free slot find reached, or overwrite val.
SetItem(b, it) ==
    LET i == Find(b, it.key)
    IN  IF b[i] = Nil THEN [b EXCEPT ![i] = it] ELSE [b EXCEPT ![i].val = it.val]

EmptyTable(n) == [i \in 0..(n - 1) |-> Nil]

\* Mutant: rebuild sizes the new table len+1 without roundUp.
RebuildNoRoundUp(b) ==
    FoldLeft(LAMBDA t, i : IF b[i] = Nil THEN t ELSE SetItem(t, b[i]),
             EmptyTable(TableLen(b) + 1),
             [j \in 1..TableLen(b) |-> j - 1])

\* rebuild: a table of roundUp(len+1) slots, the items set in slot order.
Rebuild(b) ==
    FoldLeft(LAMBDA t, i : IF b[i] = Nil THEN t ELSE SetItem(t, b[i]),
             EmptyTable(RoundUp((TableLen(b) + 1) % Word)),
             [j \in 1..TableLen(b) |-> j - 1])

\* Mutant: the load factor tested with count instead of count+1.
NeedsRebuildNoPlusOne(n, c) == 20 * c > 13 * n

\* float64(count+1)/float64(len) > 0.65; no power of two len makes the two
\* sides equal, so the comparison is exact.
NeedsRebuild(n, c) == 20 * (c + 1) > 13 * n

-----------------------------------------------------------------------------
\* New(hint): a hint of 0 means 16.
Init ==
    /\ \E h \in Hints : buckets = EmptyTable(RoundUp(IF h = 0 THEN 16 ELSE h))
    /\ count = 0
    /\ got = NoVal

Set(k, v) ==
    LET b == IF NeedsRebuild(TableLen(buckets), count) THEN Rebuild(buckets)
             ELSE buckets
    IN  /\ count < MaxSets
        /\ buckets' = SetItem(b, [key |-> k, val |-> v])
        /\ count' = count + 1
        /\ UNCHANGED got

Get(k) ==
    LET i == Find(buckets, k)
    IN  /\ got' = IF i = Panic THEN "panic" ELSE IF i = Spin THEN "spin"
                  ELSE IF buckets[i] = Nil THEN NoVal ELSE buckets[i].val
        /\ UNCHANGED <<buckets, count>>

Next == \E k \in Keys : Get(k) \/ \E v \in Vals : Set(k, v)

Spec == Init /\ [][Next]_vars

-----------------------------------------------------------------------------
(* Properties.                                                             *)

\* The keys stored and their values.
Stored == {buckets[i].key : i \in {j \in DOMAIN buckets : buckets[j] # Nil}}
Contents == [k \in Stored |->
                buckets[CHOOSE i \in DOMAIN buckets : buckets[i].key = k].val]

TypeOK ==
    /\ \E n \in 0..Width : DOMAIN buckets = 0..(2^n - 1)
    /\ \A i \in DOMAIN buckets :
          buckets[i] = Nil \/ buckets[i] \in [key : Keys, val : Vals]
    /\ count \in 0..MaxSets
    /\ got \in Vals \cup {NoVal, "panic", "spin"}

\* Every table New and rebuild make has the length the reference roundUp
\* gives: the least power of two not below the hint (16 for 0), and on a
\* rebuild not below len+1.
TableSizedByRoundUp ==
    /\ TableLen(buckets) \in {RefRoundUp(IF h = 0 THEN 16 ELSE h) : h \in Hints}
    /\ [][TableLen(buckets') # TableLen(buckets) =>
            TableLen(buckets') = RefRoundUp((TableLen(buckets) + 1) % Word)]_vars

\* find's linear probe reaches, for every key, its slot or an empty one:
\* the load factor test and rebuild never let the table fill.
FindTerminates == \A k \in Keys : Find(buckets, k) # Spin


\* The smallest table the load factor allows for m keys.
Needed(m) == Min({p \in {2^i : i \in 0..Width} : 20 * m <= 13 * p})

\* The table is never larger than New's hint or the load factor of the keys
\* it holds calls for: Set rebuilds only when the stored keys need room.
TableNoLargerThanNeeded ==
    \E h \in Hints :
        TableLen(buckets) <= Max({RoundUp(IF h = 0 THEN 16 ELSE h),
                                  Needed(Cardinality(Stored))})

\* HashMap implements MapSpec: every Get, whatever the probing and the
\* rebuilds before it, returns the value of the key's last Set.
AbstractMap == INSTANCE MapSpec WITH map <- Contents
RefinesMap == AbstractMap!Spec

=============================================================================
