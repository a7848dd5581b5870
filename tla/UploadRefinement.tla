------------------------- MODULE UploadRefinement --------------------------
(***************************************************************************)
(* The upload engine implements VerifiedUpload: one incarnation of one     *)
(* session, clients that send the bytes of one file (no unit of which      *)
(* reads like a hole), and every interleaving of requests and sweeps.      *)
(***************************************************************************)
EXTENDS UploadSession

(* A unit is stored when the session's file holds the client's value.      *)
Stored == {u \in Units : \A n \in Inodes : \E file \in Sources : disk[n][u] = file[u]}
Marked == IF meta = None THEN {} ELSE meta.bits

Promise == INSTANCE VerifiedUpload WITH
             AllUnits  <- Units,
             AllPieces <- Pieces,
             Piece     <- PieceUnits,
             stored    <- Stored,
             marked    <- Marked,
             delivered <- (saved # {})

(* Every step of the handlers stores, marks, delivers or changes nothing   *)
(* that the promise speaks of.                                             *)
KeepsPromise == Promise!Spec

=============================================================================
