----------------------------- MODULE MCMemoTree -----------------------------
(***************************************************************************)
(* MemoTree on small instances for TLC.                                    *)
(***************************************************************************)
EXTENDS MemoTree, TLC

\* Goroutines, memos and attachments are interchangeable.
Symmetry == Permutations(Proc) \cup Permutations(Memo) \cup Permutations(File)
=============================================================================
