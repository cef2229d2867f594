--------------------------- MODULE MCMemoPayload ---------------------------
\* TLC instances of MemoPayload with tags that differ in case alone, and with
\* tags that differ otherwise; in both the tags are interchangeable.
EXTENDS MemoPayload, TLC

FoldToOne == [t \in Tag |-> "tag"]

FoldToNone == [t \in Tag |-> t]

Symmetry == Permutations(Proc) \cup Permutations(Memo) \cup Permutations(Tag)
=============================================================================
