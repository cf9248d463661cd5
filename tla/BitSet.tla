------------------------------- MODULE BitSet -------------------------------
(***************************************************************************)
(* What a bit array of fixed capacity promises: a set of positions below   *)
(* its capacity that Set adds to (an error past the capacity), Clear       *)
(* removes from, and Has, Count, Empty and ToNums report on.  BitmapArray  *)
(* of src/unnamed/part_008 is checked against it.                           *)
(***************************************************************************)
EXTENDS Naturals, Sequences, SequencesExt, FiniteSets

CONSTANTS Capacities, Positions, Ok, Err

VARIABLES
    cap,    \* the capacity, fixed when the array is made
    set,    \* the positions set
    out     \* <<the last call, its argument, what it returned>>

vars == <<cap, set, out>>

Init == cap \in Capacities /\ set = {} /\ out = <<"New", "-", Ok>>

Set(p) ==
    IF p < cap THEN set' = set \cup {p} /\ out' = <<"Set", p, Ok>> /\ UNCHANGED cap
    ELSE out' = <<"Set", p, Err>> /\ UNCHANGED <<cap, set>>

Clear(p) == set' = set \ {p} /\ out' = <<"Clear", p, Ok>> /\ UNCHANGED cap

Has(p) == out' = <<"Has", p, p \in set>> /\ UNCHANGED <<cap, set>>

Count == out' = <<"Count", "-", Cardinality(set)>> /\ UNCHANGED <<cap, set>>

Empty == out' = <<"Empty", "-", set = {}>> /\ UNCHANGED <<cap, set>>

ToNums == out' = <<"ToNums", "-", SetToSortSeq(set, <)>> /\ UNCHANGED <<cap, set>>

Next == (\E p \in Positions : Set(p) \/ Clear(p) \/ Has(p)) \/ Count \/ Empty \/ ToNums

Spec == Init /\ [][Next]_vars

=============================================================================
