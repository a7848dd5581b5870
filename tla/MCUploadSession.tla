-------------------------- MODULE MCUploadSession --------------------------
(* Instances of UploadSession for TLC.                                     *)
EXTENDS UploadRefinement, UploadInvariants, TLC

(* One file of all 1s, so that no unit of it reads like a hole.            *)
OneFile == {[u \in Units |-> 1]}

Symmetry == Permutations(Procs) \cup Permutations(Locks)

=============================================================================
