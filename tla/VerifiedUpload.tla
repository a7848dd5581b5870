-------------------------- MODULE VerifiedUpload ---------------------------
(***************************************************************************)
(* What one upload session promises, without requests, locks, files or     *)
(* hashes: units of the client's file are stored one by one, a piece is    *)
(* marked only when it is stored, marks may be lost but are then earned    *)
(* again, and the file is delivered, once, when every piece is marked.     *)
(***************************************************************************)
CONSTANTS AllUnits,   \* the units of the file
          AllPieces,  \* its pieces
          Piece(_)    \* the units of a piece

VARIABLES stored,     \* the units that data.part holds of the file
          marked,     \* the pieces known to be stored
          delivered   \* has the file been published?

Init == stored = {} /\ marked = {} /\ delivered = FALSE

Store == \E u \in AllUnits :
           /\ stored' = stored \cup {u}
           /\ UNCHANGED <<marked, delivered>>

Mark == /\ marked' \subseteq AllPieces
        /\ \A i \in marked' : Piece(i) \subseteq stored
        /\ UNCHANGED <<stored, delivered>>

Deliver == /\ ~delivered
           /\ marked = AllPieces
           /\ stored = AllUnits
           /\ delivered' = TRUE
           /\ marked' = {}
           /\ UNCHANGED stored

Next == Store \/ Mark \/ Deliver

Spec == Init /\ [][Next]_<<stored, marked, delivered>>

=============================================================================
