------------------------------ MODULE MCRelay ------------------------------
(* Relay for TLC: requests, polls and posts are alike.                     *)
EXTENDS Relay, TLC

Symmetry == Permutations(Downloads) \cup Permutations(Polls) \cup Permutations(Pieces)
=============================================================================
