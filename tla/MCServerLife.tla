---------------------------- MODULE MCServerLife ----------------------------
(* ServerLife for TLC.                                                     *)
EXTENDS ServerLife, TLC
=============================================================================
