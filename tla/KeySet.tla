------------------------------- MODULE KeySet -------------------------------
(***************************************************************************)
(* What the BTree interface of src/unnamed/part_002 promises (lines 43-52) *)
(* and what Get adds: a set of items, ReplaceOrInsert returns the item      *)
(* when it was already there and nil when it is new, Delete removes it and  *)
(* returns it or nil, and Get returns it or nil.  Items are integers        *)
(* (IntItem), so the item equal to k is k itself.  BTree is checked to      *)
(* implement it.                                                            *)
(***************************************************************************)
CONSTANTS Keys, NoItem

VARIABLES
    set,    \* the items in the tree
    ret     \* what the last call returned

vars == <<set, ret>>

Init == set = {} /\ ret = NoItem

Answer(k) == IF k \in set THEN k ELSE NoItem

ReplaceOrInsert(k) == ret' = Answer(k) /\ set' = set \cup {k}

Delete(k) == ret' = Answer(k) /\ set' = set \ {k}

Get(k) == ret' = Answer(k) /\ UNCHANGED set

Next == \E k \in Keys : ReplaceOrInsert(k) \/ Delete(k) \/ Get(k)

Spec == Init /\ [][Next]_vars

=============================================================================
