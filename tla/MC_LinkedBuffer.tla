--------------------------- MODULE MC_LinkedBuffer ---------------------------
EXTENDS LinkedBuffer

\* The n of Discard, a negative one among them.
MCDiscardLens == {-1, 0, 1, 2, 4}

\* The slices pushed: every sequence of at most two of the Bytes.
MCChunks == UNION {[1..n -> Bytes] : n \in 0..2}

=============================================================================
