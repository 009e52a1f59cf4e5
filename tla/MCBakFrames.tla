---------------------------- MODULE MCBakFrames ----------------------------
(* Small instances of BakFrames for TLC. *)
EXTENDS BakFrames
=============================================================================
