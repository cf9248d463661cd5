----------------------------- MODULE OrderedSet -----------------------------
(***************************************************************************)
(* What the B+ tree of src/btree/plus promises: a set of keys that Insert  *)
(* adds to, and a find that positions an iterator on the least stored key *)
(* not before the one asked for (or on nothing).  BPlusTree is checked to  *)
(* implement it.                                                           *)
(***************************************************************************)
EXTENDS Naturals, FiniteSetsExt

CONSTANTS Keys, NoKey

VARIABLES
    set,    \* the keys inserted so far
    found   \* the key the last find's iterator yields first, or NoKey

vars == <<set, found>>

Init == set = {} /\ found = NoKey

Insert(k) == set' = set \cup {k} /\ UNCHANGED found

Find(k) ==
    /\ found' = LET after == {x \in set : x >= k}
                IN  IF after = {} THEN NoKey ELSE Min(after)
    /\ UNCHANGED set

Next == \E k \in Keys : Insert(k) \/ Find(k)

Spec == Init /\ [][Next]_vars

=============================================================================
