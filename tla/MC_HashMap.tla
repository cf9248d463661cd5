------------------------------ MODULE MC_HashMap ------------------------------
EXTENDS HashMap

\* hashcode(k) mod 2^8 for the keys of the runs, as hashcode computes it in
\* uint64 arithmetic: keys 4 and 5 agree in their low eight bits, and with
\* key 1 in their lowest bit, so their probes collide and wrap.
MCHashCode == (0 :> 0) @@ (1 :> 44) @@ (4 :> 117) @@ (5 :> 117)

=============================================================================
