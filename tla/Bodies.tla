------------------------------- MODULE Bodies -------------------------------
(***************************************************************************)
(* Function bodies and what they mean.  A body is chosen statement by      *)
(* statement, and then runs: a condition goes either way, a loop goes      *)
(* round as often as it likes, deferred blocks run last to first when the  *)
(* body is left.  The code generators are modelled beside it, in BodyCode  *)
(* (bytecode) and BodyNative (machine code): Conformance has them emit as  *)
(* the body is chosen and runs what they emitted with the body itself.     *)
(*                                                                         *)
(* All statements are about one name, x: a parameter or not, declared by   *)
(* var and by the loops, as often as the body likes.  A value is the place *)
(* of the statement that wrote it.                                         *)
(***************************************************************************)
EXTENDS Integers, Sequences, FiniteSets, SequencesExt

CONSTANTS
  Mixes,   \* bound: the sets of statements that a body may be made of
  MaxLen   \* bound: the statements and block ends of a body

VARIABLES
  phase,   \* writing, running, over, or refused by the bytecode compiler
  prog,    \* the body so far
  blocks,  \* the blocks that are open, after the function and its body
  at,      \* running: the next statement that does something
  vals,    \* the value of each declaration of x
  defers   \* the deferred blocks to run, the last first

bodyVars == <<phase, prog, blocks, at, vals, defers>>

(* f(); print(x); var x; x = ...; and for over a vector or over a range.   *)
Simple  == {"call", "use", "var", "set", "return", "panic", "break", "continue"}
Loops   == {"while", "for", "forRange"}
Openers == Loops \cup {"if", "switch", "block", "defer"}
Enders  == {"else", "case", "end"}
Tests   == Loops \cup {"if", "switch", "case"}

ASSUME BodiesAssumption ==
  /\ MaxLen \in Nat
  /\ Mixes \subseteq SUBSET (Simple \cup Openers \cup Enders)

Places == 0 .. MaxLen        \* of statements; 0 is the parameter list
None == -1

(* decl: the declaration that x means here; path: the blocks around it;    *)
(* head: the statement whose next branch, case or end it is.               *)
Token(op, decl, path, head) == [op |-> op, decl |-> decl, path |-> path, head |-> head]

(* decl: its last declaration of x.                                        *)
Block(op, place, head, decl) == [op |-> op, place |-> place, head |-> head, decl |-> decl]

Init ==
  /\ phase = "writing"
  /\ prog = <<>>
  /\ \E param \in {0, None} :
       blocks = <<Block("function", 0, 0, param), Block("block", 0, 0, None)>>
  /\ at = 1
  /\ vals = [d \in Places |-> 0]
  /\ defers = <<>>

Highest(S) == CHOOSE n \in S : \A m \in S : m <= n
Lowest(S)  == CHOOSE n \in S : \A m \in S : n <= m

Here  == Len(prog) + 1
Inner == Last(blocks)
Outer == Front(blocks)
Path(bs) == {b.place : b \in ToSet(bs)}

(* The innermost open block of one of these kinds, or 0.  The function's   *)
(* own block or the deferred block, which is a function by itself.         *)
InnermostOf(ops) == Highest({0} \cup {n \in DOMAIN blocks : blocks[n].op \in ops})
Function == Highest({1, InnermostOf({"defer"})})
InDefer  == Function # 1

(* What x means: the declaration of the innermost block of this function.  *)
Meant ==
  LET declaring == {n \in DOMAIN blocks : n >= Function /\ blocks[n].decl # None}
  IN  IF declaring = {} THEN None ELSE blocks[Highest(declaring)].decl

(* The statement may come next, and the open blocks can still be ended.    *)
Writing(op, ending) ==
  /\ phase = "writing"
  /\ Len(prog) + Len(blocks) + (IF op \in Openers THEN 1 ELSE 0) - ending <= MaxLen + 1
  /\ \E mix \in Mixes : {op} \cup {prog[k].op : k \in DOMAIN prog} \subseteq mix

Unrun == UNCHANGED <<at, vals, defers>>

(* The type checker knows x, and lets no loop variable be assigned to.  A  *)
(* break is in a loop; a deferred block does not panic.                    *)
Allowed(op) ==
  /\ op \in {"use", "set"} => Meant # None
  /\ op = "set" => Meant \notin {n \in DOMAIN prog : prog[n].op \in {"for", "forRange"}}
  /\ op \in {"break", "continue"} => InnermostOf(Loops) > InnermostOf({"defer"})
  /\ op = "panic" => ~InDefer

Write(op) ==
  /\ op \in Simple \ {"var"}
  /\ Writing(op, 0) /\ Allowed(op)
  /\ prog' = Append(prog, Token(op, Meant, Path(blocks), 0))
  /\ UNCHANGED blocks /\ Unrun

WriteVar ==
  /\ Writing("var", 0)
  /\ prog' = Append(prog, Token("var", Here, Path(blocks), 0))
  /\ blocks' = [blocks EXCEPT ![Len(blocks)].decl = Here]
  /\ UNCHANGED phase /\ Unrun

(* No deferred block in another.                                           *)
WriteOpen(op) ==
  /\ op \in Openers
  /\ Writing(op, 0)
  /\ op = "defer" => ~InDefer
  /\ prog' = Append(prog, Token(op, Meant, Path(blocks), 0))
  /\ blocks' = Append(blocks, Block(op, Here, Here, IF op \in {"for", "forRange"} THEN Here ELSE None))
  /\ UNCHANGED phase /\ Unrun

WriteNext(op) ==
  /\ op \in {"else", "case"}
  /\ Writing(op, 0)
  /\ IF op = "else" THEN Inner.op = "if" ELSE Inner.op \in {"switch", "case"}
  /\ prog' = Append(prog, Token(op, None, Path(Outer), Inner.head))
  /\ blocks' = Append(Outer, Block(op, Here, Inner.head, None))
  /\ UNCHANGED phase /\ Unrun

WriteEnd ==
  /\ Writing("end", 1)
  /\ Len(blocks) > 2
  /\ prog' = Append(prog, Token("end", None, Path(blocks), Inner.head))
  /\ blocks' = Outer
  /\ UNCHANGED phase /\ Unrun

-----------------------------------------------------------------------------
(* Running.                                                                *)

NextParts(k) == {m \in DOMAIN prog : prog[m].head = k}
EndOf(k)     == Highest(NextParts(k))
LoopOf(k)    == Highest({p \in prog[k].path \ {0} : prog[p].op \in Loops})

(* The first statement from k on that does something, going past the ends  *)
(* of blocks and the ways out of loops.  A loop ends at its own test.      *)
Settle[k \in 1 .. MaxLen + 1] ==
  IF k > Len(prog) THEN k
  ELSE CASE prog[k].op = "block"            -> Settle[k + 1]
         [] prog[k].op = "break"            -> Settle[EndOf(LoopOf(k)) + 1]
         [] prog[k].op = "continue"         -> LoopOf(k)
         [] prog[k].op \in {"else", "case"} -> Settle[EndOf(prog[k].head) + 1]
         [] prog[k].op = "end" ->
              IF prog[prog[k].head].op \in Loops THEN prog[k].head
              ELSE IF prog[prog[k].head].op = "defer" THEN k ELSE Settle[k + 1]
         [] OTHER -> k

(* The body is complete.                                                   *)
Start ==
  /\ phase = "writing"
  /\ Len(blocks) = 2
  /\ phase' = "running"
  /\ at' = Settle[1]
  /\ UNCHANGED <<prog, blocks, vals, defers>>

Op == IF at > Len(prog) THEN "end" ELSE prog[at].op
Text == UNCHANGED <<prog, blocks>>

(* A call, a read, a declaration, an assignment; defer.                    *)
DoPlain ==
  /\ Op \in {"call", "use", "var", "set"}
  /\ vals' = IF Op \in {"var", "set"} THEN [vals EXCEPT ![prog[at].decl] = at] ELSE vals
  /\ at' = Settle[at + 1]
  /\ UNCHANGED <<phase, defers>>

DoDefer ==
  /\ Op = "defer"
  /\ defers' = <<at>> \o defers
  /\ at' = Settle[EndOf(at) + 1]
  /\ UNCHANGED <<phase, vals>>

(* The next case is tried where the one before it ends.                    *)
Skipped ==
  LET head == IF Op = "case" THEN prog[at].head ELSE at
      next == IF Op \in Loops THEN EndOf(at)
              ELSE Lowest({m \in NextParts(head) : m > at})
  IN  IF prog[next].op = "case" THEN next ELSE Settle[next + 1]

DoTest(b) ==
  /\ Op \in Tests
  /\ at' = IF b THEN Settle[at + 1] ELSE Skipped
  /\ vals' = IF b /\ Op \in {"for", "forRange"} THEN [vals EXCEPT ![at] = at] ELSE vals
  /\ UNCHANGED <<phase, defers>>

(* The function, or a deferred block, is left.                             *)
DoLeave ==
  /\ Op \in {"return", "panic", "end"}
  /\ IF defers = <<>> THEN phase' = "over" /\ at' = 0 /\ UNCHANGED defers
     ELSE /\ at' = Settle[Head(defers) + 1]
          /\ defers' = Tail(defers)
          /\ UNCHANGED phase
  /\ UNCHANGED vals

(* Bound: a loop does not defer the same block over and over.              *)
DeferBound == Op = "defer" => Cardinality({n \in DOMAIN defers : defers[n] = at}) < 2

Do(b) ==
  /\ phase = "running"
  /\ DeferBound
  /\ DoPlain \/ DoDefer \/ DoTest(b) \/ DoLeave
  /\ Text
=============================================================================
