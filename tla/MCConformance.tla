----------------------------- MODULE MCConformance -----------------------------
(* Bodies of Conformance for TLC.                                        *)
EXTENDS Conformance

LoopMix   == {"use", "var", "break", "continue", "for", "while", "if", "end"}
BranchMix == {"var", "set", "return", "if", "else", "switch", "case", "end"}
JumpMix   == {"var", "break", "continue", "forRange", "switch", "block", "end"}
DeferMix  == {"call", "var", "set", "break", "return", "panic", "while", "defer", "end"}
NameMix   == {"use", "var", "set", "block", "for", "forRange", "end"}

AllMixes == {LoopMix, BranchMix, JumpMix, DeferMix, NameMix}
=============================================================================
