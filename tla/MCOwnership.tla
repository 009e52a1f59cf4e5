---------------------------- MODULE MCOwnership ----------------------------
(* Bodies of Ownership for TLC: moves among branches, moves among loops    *)
(* and deferred blocks, moves and borrows among blocks.                    *)
EXTENDS Ownership

BranchMix == {"use", "move", "decl", "return", "if", "else", "switch", "case", "block", "end"}
LoopMix   == {"use", "move", "decl", "break", "while", "for", "block", "defer", "return", "end"}
BorrowMix == {"move", "returnX", "decl", "hold", "share", "lend", "lendShared", "while", "block", "end"}

AllMixes == {BranchMix, LoopMix, BorrowMix}
=============================================================================
