--------------------------- MODULE MCUploadQueue ----------------------------
(* UploadQueue for TLC.                                                    *)
EXTENDS UploadQueue, TLC
=============================================================================
