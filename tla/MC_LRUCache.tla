----------------------------- MODULE MC_LRUCache -----------------------------
EXTENDS LRUCache

CONSTANTS a, b, big

\* Item.Size() of the items the runs store.
MCItemSize == (a :> 1) @@ (b :> 2) @@ (big :> 4)

=============================================================================
