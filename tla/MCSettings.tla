----------------------------- MODULE MCSettings -----------------------------
\* TLC instance of Settings: goroutines, objects, items and addresses are
\* interchangeable.
EXTENDS Settings, TLC

Symmetry ==
    Permutations(Proc) \cup Permutations(Ref) \cup Permutations(Item) \cup Permutations(Url)
=============================================================================
