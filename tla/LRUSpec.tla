------------------------------ MODULE LRUSpec ------------------------------
(***************************************************************************)
(* What a least-recently-used cache of capacity Cap promises, with every   *)
(* operation one atomic step: a lookup returns what was last stored under  *)
(* the key and makes the key the most recently used; a store makes room by *)
(* dropping exactly the least recently used keys that must go for the new  *)
(* item to fit.  LRUCache is checked to implement this specification.      *)
(***************************************************************************)
EXTENDS Naturals, Sequences, SequencesExt, FiniteSetsExt, Functions

CONSTANTS
    Keys,       \* the keys clients use
    Items,      \* the items clients store
    ItemSize,   \* ItemSize[i] is Item.Size() of item i
    Cap,        \* the capacity, in the unit of ItemSize
    Clients,    \* the goroutines using the cache
    NoItem      \* the nil a lookup of an absent key returns

VARIABLES
    store,      \* store[k] is the item cached under key k
    recency,    \* the cached keys, most recently used first
    result      \* result[c] is what client c's last lookup returned

vars == <<store, recency, result>>

\* The total size of the items cached under the keys ks.
Weight(ks) == MapThenSumSet(LAMBDA k : ItemSize[store[k]], ks)

\* The recency order after a lookup of key k.
Touch(r, k) == IF k \in DOMAIN store THEN <<k>> \o Remove(r, k) ELSE r

Init ==
    /\ store = [k \in {} |-> NoItem]
    /\ recency = <<>>
    /\ result = [c \in Clients |-> <<>>]

Lookup(c, ks) ==
    /\ result' = [result EXCEPT ![c] =
                    [j \in 1..Len(ks) |->
                        IF ks[j] \in DOMAIN store THEN store[ks[j]] ELSE NoItem]]
    /\ recency' = FoldLeft(Touch, recency, ks)
    /\ UNCHANGED store

\* The new item fits beside the items of the keys in the prefix p.
Fits(p, i) == Weight(ToSet(p)) + ItemSize[i] <= Cap

\* An item that does not fit even alone is never stored.
Store(k, i) ==
    LET rest == Remove(recency, k)
        keep == CHOOSE p \in Prefixes(rest) :
                    /\ Fits(p, i)
                    /\ \A q \in Prefixes(rest) : Fits(q, i) => Len(q) <= Len(p)
    IN  /\ Fits(<<>>, i)
        /\ store' = [x \in ToSet(keep) \cup {k} |-> IF x = k THEN i ELSE store[x]]
        /\ recency' = <<k>> \o keep
        /\ UNCHANGED result

Drop(ks) ==
    /\ store' = Restrict(store, DOMAIN store \ ks)
    /\ recency' = SelectSeq(recency, LAMBDA x : x \notin ks)
    /\ UNCHANGED result

Next ==
    \/ \E c \in Clients, n \in 1..2 : \E ks \in [1..n -> Keys] : Lookup(c, ks)
    \/ \E k \in Keys, i \in Items : Store(k, i)
    \/ \E ks \in SUBSET Keys : ks # {} /\ Drop(ks)

Spec == Init /\ [][Next]_vars

=============================================================================
