--------------------------- MODULE MCLspAnalysis ---------------------------
(* Small instances of LspAnalysis for TLC. *)
EXTENDS LspAnalysis
=============================================================================
