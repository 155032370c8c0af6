--------------------------- MODULE MCSharedStores ---------------------------
\* Both shared backends on small sets, for TLC.
EXTENDS SharedStores, TLC

Symmetry ==
    Permutations(Caller) \cup Permutations(Msg) \cup Permutations(Item)
=============================================================================
