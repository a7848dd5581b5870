------------------------------ MODULE MCFiles -------------------------------
(* ChunkUpload and Placement for TLC.  They are about the bytes of a file  *)
(* and about its name, and share nothing: a behaviour is of one of them.   *)
EXTENDS Placement, ChunkUpload, TLC

VARIABLE of

TwoUnits == <<1, 2>>

Symmetry ==
  Permutations(Procs) \cup Permutations(Files)
    \cup Permutations(Writers) \cup Permutations(Inodes)

MCInit == Init /\ ChunkInit /\ of \in {"bytes", "names"}

MCNext ==
  \/ of = "names" /\ Next /\ UNCHANGED <<chunkvars, of>>
  \/ of = "bytes" /\ ChunkNext /\ UNCHANGED <<vars, of>>

MCSpec == MCInit /\ [][MCNext]_<<vars, chunkvars, of>>
=============================================================================
