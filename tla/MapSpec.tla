------------------------------ MODULE MapSpec ------------------------------
(***************************************************************************)
(* What a map from keys to values promises: Get returns the value of the  *)
(* last Set of the key, or reports the key absent.  HashMap is checked to *)
(* implement it.                                                           *)
(***************************************************************************)
EXTENDS TLC

CONSTANTS Keys, Vals, NoVal

VARIABLES
    map,    \* the values set so far, by key
    got     \* what the last Get returned

vars == <<map, got>>

Init == map = [k \in {} |-> NoVal] /\ got = NoVal

Set(k, v) == map' = (k :> v) @@ map /\ UNCHANGED got

Get(k) == got' = (IF k \in DOMAIN map THEN map[k] ELSE NoVal) /\ UNCHANGED map

Next == \E k \in Keys : Get(k) \/ \E v \in Vals : Set(k, v)

Spec == Init /\ [][Next]_vars

=============================================================================
