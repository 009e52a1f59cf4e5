---------------------------- MODULE MCBakThreads ----------------------------
(* Small instances of BakThreads for TLC. *)
EXTENDS BakThreads
=============================================================================
