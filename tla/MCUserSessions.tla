--------------------------- MODULE MCUserSessions ---------------------------
(***************************************************************************)
(* UserSessions on small instances for TLC.                                *)
(***************************************************************************)
EXTENDS UserSessions, TLC

\* Goroutines, objects and session ids are interchangeable.
Symmetry == Permutations(Proc) \cup Permutations(Ref) \cup Permutations(Session)
=============================================================================
