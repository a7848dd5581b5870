----------------------------- MODULE MCRegistry -----------------------------
(* Registry for TLC: ids, names, sessions and requests are alike.          *)
EXTENDS Registry, TLC

Symmetry ==
  Permutations(Procs) \cup Permutations(Ids)
    \cup Permutations(Names) \cup Permutations(Sessions)

=============================================================================
