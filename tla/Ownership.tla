----------------------------- MODULE Ownership -----------------------------
(***************************************************************************)
(* Moves and borrows in the type checker (pkg/typechecker): the statements *)
(* of a function body are checked in the order of the text, against a      *)
(* chain of environments that are opened and dropped with the blocks.      *)
(* Beside it stands what the language means: when the checker has accepted *)
(* the body it is executed, every branch and loop going either way, and a  *)
(* variable that is read after its value has moved is a fault.             *)
(*                                                                         *)
(* The body is chosen as it is checked, statement by statement.  Names do  *)
(* not interact, so there is one, x, of a type that is not copied: a       *)
(* parameter that the body may declare again.  Checking stops at the first *)
(* error; later ones are only more messages.                               *)
(***************************************************************************)
EXTENDS Integers, Sequences, FiniteSets, SequencesExt

CONSTANTS
  Mixes,   \* bound: the sets of statements that a body may be made of
  MaxLen   \* bound: the statements and block ends of a body

VARIABLES
  phase,   \* checking, rejected, running, faulty, done
  prog,    \* the body so far
  blocks,  \* the blocks that are open, the body's own first
  envs,    \* the checker's environments, the function's own first
  error,   \* what it reports: the move, or 0 for a borrow, and the use
  at,      \* execution: the next statement
  moved,   \* where the value of each declaration of x was moved away, or 0
  defers,  \* the deferred blocks to run, the last first
  fault    \* the move and the use that came after it, in execution

runVars == <<at, moved, defers, fault>>
vars == <<phase, prog, blocks, envs, error, runVars>>

(* x is read; f(x); var x; var r = &mut x; var r = &x; f(&mut x); f(&x);   *)
(* return or panic; return x; break.  Then blocks, branches and their end. *)
Simple == {"use", "move", "decl", "hold", "share", "lend", "lendShared",
           "return", "returnX", "break"}
Openers == {"if", "while", "for", "switch", "block", "defer"}
Enders == {"else", "case", "end"}
Loops == {"while", "for"}

ASSUME OwnershipAssumption ==
  /\ MaxLen \in Nat
  /\ Mixes \subseteq SUBSET (Simple \cup Openers \cup Enders)

Places == 0 .. MaxLen        \* of statements; 0 is the parameter list
None == -1

(* inst: the declaration that x means here; path: the blocks around it;    *)
(* head: the statement whose next branch or end it is; iso: whether its    *)
(* block is checked in an isolated environment.                            *)
Token(op, inst, path, head, iso) ==
  [op |-> op, inst |-> inst, path |-> path, head |-> head, iso |-> iso]

(* own: it has an environment of its own; decl: its last declaration of x; *)
(* ends: a statement in it always returns; term: whether that was expected *)
(* when it was opened; first: whether the branch before it ends.           *)
Block(op, place, head, own, term, first) ==
  [op |-> op, place |-> place, head |-> head, own |-> own, decl |-> None,
   ends |-> FALSE, term |-> term, first |-> first]

(* symbols, moved, borrowedMut and borrowedIm of a TypeEnv, as to x.       *)
TypeEnv(isolated, inst) ==
  [isolated |-> isolated, inst |-> inst, moved |-> 0, mut |-> FALSE, shared |-> FALSE]

Init ==
  /\ phase = "checking"
  /\ prog = <<>>
  /\ blocks = <<Block("block", 0, 0, TRUE, FALSE, FALSE)>>
  /\ envs = <<TypeEnv(FALSE, 0), TypeEnv(FALSE, None)>>
  /\ error = <<0, 0>>
  /\ at = 1
  /\ moved = [d \in Places |-> 0]
  /\ defers = <<>>
  /\ fault = <<0, 0>>

Highest(S) == CHOOSE n \in S : \A m \in S : m <= n
Lowest(S)  == CHOOSE n \in S : \A m \in S : n <= m

Here  == Len(prog) + 1
Inner == Last(blocks)
Path  == {blocks[n].place : n \in DOMAIN blocks}

(* What x means in the language: the declaration of the innermost block.   *)
Meant ==
  LET declaring == {n \in DOMAIN blocks : blocks[n].decl # None}
  IN  IF declaring = {} THEN 0 ELSE blocks[Highest(declaring)].decl

(* The statement may come next, and the open blocks can still be ended.    *)
Checking(op, ending) ==
  /\ phase = "checking"
  /\ Len(prog) + Len(blocks) + (IF op \in Openers THEN 1 ELSE 0) - ending <= MaxLen
  /\ \E mix \in Mixes : {op} \cup {prog[k].op : k \in DOMAIN prog} \subseteq mix

Accept(op) ==
  /\ prog' = Append(prog, Token(op, Meant, Path, 0, FALSE))
  /\ UNCHANGED <<phase, error, runVars>>

Reject(op, j) ==
  /\ phase' = "rejected"
  /\ error' = <<j, Here>>
  /\ prog' = Append(prog, Token(op, Meant, Path, 0, FALSE))
  /\ UNCHANGED <<blocks, envs, runVars>>

-----------------------------------------------------------------------------
(* The environments.                                                       *)

(* IsMoved and GetMoveInfo ask the environment that has the symbol.        *)
MovedAt == envs[Highest({n \in DOMAIN envs : envs[n].inst # None})].moved

BorrowedMut == \E n \in DOMAIN envs : envs[n].mut
BorrowedIm  == \E n \in DOMAIN envs : envs[n].shared

(* Mutant of MarkMoved: every move is marked where it is made.             *)
MarkMovedHere(k) == [envs EXCEPT ![Len(envs)].moved = k]

(* An isolated environment on the way keeps the move from the owner.       *)
MarkMoved(k) ==
  LET n == Highest({m \in DOMAIN envs : envs[m].inst # None \/ envs[m].isolated})
  IN  [envs EXCEPT ![n].moved = k]

DefineSymbol(d) == [envs EXCEPT ![Len(envs)].inst = d, ![Len(envs)].moved = 0]

(* Mutant of BorrowFails: only the innermost environment is asked.         *)
BorrowFailsHere(mutable) ==
  \/ MovedAt # 0
  \/ Last(envs).mut /\ ~mutable
  \/ ~Last(envs).mut /\ mutable /\ Last(envs).shared

(* A second &mut is taken for an expression that is inferred twice.        *)
BorrowFails(mutable) ==
  \/ MovedAt # 0
  \/ BorrowedMut /\ ~mutable
  \/ ~BorrowedMut /\ mutable /\ BorrowedIm

(* Mutant of Borrow: a second &x ends the first.                           *)
BorrowToggled(mutable) ==
  IF mutable THEN [envs EXCEPT ![Len(envs)].mut = ~BorrowedMut \/ @]
  ELSE [envs EXCEPT ![Len(envs)].shared = ~@]

Borrow(mutable) ==
  IF mutable THEN [envs EXCEPT ![Len(envs)].mut = ~BorrowedMut \/ @]
  ELSE [envs EXCEPT ![Len(envs)].shared = TRUE]

(* Once a call is checked, the &mut among its arguments are ended in the   *)
(* current environment, whoever made them; the & are not.                  *)
ClearBorrows(es) == [es EXCEPT ![Len(es)].mut = FALSE]

-----------------------------------------------------------------------------
(* Statements without a block.                                             *)

(* An identifier is inferred.  An assignment to it is checked like a use.  *)
CheckUse ==
  /\ Checking("use", 0)
  /\ IF MovedAt # 0 THEN Reject("use", MovedAt)
     ELSE Accept("use") /\ UNCHANGED <<blocks, envs>>

(* A use that takes the value.  An immutable borrow does not stop it.      *)
TakeValue(op, leaves) ==
  IF MovedAt # 0 THEN Reject(op, MovedAt)
  ELSE IF BorrowedMut THEN Reject(op, 0)
  ELSE /\ Accept(op)
       /\ envs' = MarkMoved(Here)
       /\ blocks' = [blocks EXCEPT ![Len(blocks)].ends = @ \/ leaves]

CheckMove    == Checking("move", 0) /\ TakeValue("move", FALSE)
CheckReturnX == Checking("returnX", 0) /\ TakeValue("returnX", TRUE)

CheckReturn ==
  /\ Checking("return", 0)
  /\ Accept("return")
  /\ blocks' = [blocks EXCEPT ![Len(blocks)].ends = TRUE]
  /\ UNCHANGED envs

(* The parser takes break inside loops only.                               *)
CheckBreak ==
  /\ Checking("break", 0)
  /\ \E n \in DOMAIN blocks :
       /\ blocks[n].op \in Loops
       /\ \A m \in n + 1 .. Len(blocks) : blocks[m].op # "defer"
  /\ Accept("break")
  /\ UNCHANGED <<blocks, envs>>

CheckVar ==
  /\ Checking("decl", 0)
  /\ prog' = Append(prog, Token("decl", Here, Path, 0, FALSE))
  /\ envs' = DefineSymbol(Here)
  /\ blocks' = [blocks EXCEPT ![Len(blocks)].decl = Here]
  /\ UNCHANGED <<phase, error, runVars>>

(* A borrow that a variable keeps lasts as long as the environment.        *)
CheckHold(op) ==
  /\ op \in {"hold", "share"}
  /\ Checking(op, 0)
  /\ IF BorrowFails(op = "hold") THEN Reject(op, MovedAt)
     ELSE /\ Accept(op)
          /\ envs' = Borrow(op = "hold")
          /\ UNCHANGED blocks

CheckLend(op) ==
  /\ op \in {"lend", "lendShared"}
  /\ Checking(op, 0)
  /\ IF BorrowFails(op = "lend") THEN Reject(op, MovedAt)
     ELSE /\ Accept(op)
          /\ envs' = IF op = "lend" THEN ClearBorrows(Borrow(TRUE)) ELSE Borrow(FALSE)
          /\ UNCHANGED blocks

-----------------------------------------------------------------------------
(* Blocks.  blockTerminates is asked before a branch is checked: its       *)
(* answer is guessed here, and held against the branch when it ends.       *)

(* Mutant of Isolates: a branch that returns is like any other.            *)
IsolatesLoops(op, term) == op \in {"while", "switch", "case"}

Isolates(op, term) ==
  op \in {"while", "switch", "case"} \/ (op \in {"if", "else"} /\ term)

(* checkBlockStatement opens no environment inside an isolated one.        *)
Open(op, head, term, first, outer, es) ==
  LET iso == Isolates(op, term)
      own == iso \/ op = "for" \/ ~Last(es).isolated
  IN  /\ prog' = Append(prog, Token(op, Meant, {b.place : b \in ToSet(outer)}, head, iso))
      /\ blocks' = Append(outer, Block(op, Here, IF head = 0 THEN Here ELSE head,
                                       own, term, first))
      /\ envs' = IF own THEN Append(es, TypeEnv(iso, None)) ELSE es
      /\ UNCHANGED <<phase, error, runVars>>

CheckOpen(op, term) ==
  /\ op \in Openers
  /\ term => op = "if"
  /\ Checking(op, 0)
  /\ Open(op, 0, term, FALSE, blocks, envs)

Outer == Front(blocks)

(* tc.env = oldEnv                                                         *)
Restored == IF Inner.own THEN Front(envs) ELSE envs
AsExpected == Inner.op \in {"if", "else"} => Inner.ends = Inner.term

(* The second branch of an if.                                             *)
CheckElse(term) ==
  /\ Checking("else", 0)
  /\ Inner.op = "if" /\ AsExpected
  /\ Open("else", Inner.head, term, Inner.ends, Outer, Restored)

(* The next case of a switch.                                              *)
CheckCase ==
  /\ Checking("case", 0)
  /\ Inner.op \in {"switch", "case"}
  /\ Open("case", Inner.head, FALSE, FALSE, Outer, Restored)

(* Mutant of IfReturns: one branch is enough.                              *)
IfReturnsSomewhere == Inner.op = "else" /\ (Inner.ends \/ Inner.first)

(* An if ends the block it is in when both its branches do; the switch that *)
(* ends it has a default, which no switch here has (blockTerminates).      *)
IfReturns == Inner.op = "else" /\ Inner.ends /\ Inner.first

CheckEnd ==
  /\ Checking("end", 1)
  /\ Len(blocks) > 1
  /\ AsExpected
  /\ prog' = Append(prog, Token("end", Meant, Path, Inner.head, FALSE))
  /\ blocks' = [Outer EXCEPT ![Len(Outer)].ends = @ \/ IfReturns]
  /\ envs' = Restored
  /\ UNCHANGED <<phase, error, runVars>>

(* The whole body is accepted.                                             *)
CheckFinished ==
  /\ phase = "checking"
  /\ Len(blocks) = 1
  /\ phase' = "running"
  /\ UNCHANGED <<prog, blocks, envs, error, runVars>>

-----------------------------------------------------------------------------
(* What an accepted body does.                                             *)

Op == prog[at].op
Running(ops) == phase = "running" /\ at <= Len(prog) /\ Op \in ops
NextParts(k) == {m \in DOMAIN prog : prog[m].head = k}
EndOf(k)     == Highest(NextParts(k))

Goto(k) ==
  /\ at' = k
  /\ UNCHANGED <<phase, prog, blocks, envs, error, fault>>

(* The body, or a deferred block, is over.                                 *)
Leave ==
  /\ IF defers = <<>> THEN phase' = "done" /\ UNCHANGED <<at, defers>>
     ELSE /\ at' = Head(defers) + 1
          /\ defers' = Tail(defers)
          /\ UNCHANGED phase
  /\ UNCHANGED <<prog, blocks, envs, error, fault>>

Reads == {"use", "hold", "share", "lend", "lendShared", "move", "returnX"}
MovedNow == moved[prog[at].inst]

RunFault ==
  /\ Running(Reads)
  /\ MovedNow # 0
  /\ phase' = "faulty"
  /\ fault' = <<MovedNow, at>>
  /\ UNCHANGED <<prog, blocks, envs, error, at, moved, defers>>

RunRead ==
  /\ Running(Reads \ {"move", "returnX"})
  /\ MovedNow = 0
  /\ Goto(at + 1)
  /\ UNCHANGED <<moved, defers>>

RunMove ==
  /\ Running({"move", "returnX"})
  /\ MovedNow = 0
  /\ moved' = [moved EXCEPT ![prog[at].inst] = at]
  /\ IF Op = "move" THEN Goto(at + 1) /\ UNCHANGED defers ELSE Leave

RunDecl ==
  /\ Running({"decl"})
  /\ moved' = [moved EXCEPT ![at] = 0]
  /\ Goto(at + 1)
  /\ UNCHANGED defers

RunReturn ==
  /\ Running({"return"})
  /\ Leave
  /\ UNCHANGED moved

RunEnd ==
  /\ phase = "running"
  /\ at > Len(prog)
  /\ Leave
  /\ UNCHANGED moved

(* A condition goes either way; a switch takes any case, or none.          *)
RunBranch ==
  /\ Running({"if", "while", "for", "switch"})
  /\ \E part \in {at} \cup (IF Op = "if" THEN {Lowest(NextParts(at))} ELSE NextParts(at)) :
       Goto(part + 1)
  /\ UNCHANGED <<moved, defers>>

RunBlock ==
  /\ Running({"block"})
  /\ Goto(at + 1)
  /\ UNCHANGED <<moved, defers>>

(* Bound: no more deferred blocks at once than the body has.               *)
RunDefer ==
  /\ Running({"defer"})
  /\ Len(defers) < Cardinality({k \in DOMAIN prog : prog[k].op = "defer"}) + 1
  /\ defers' = <<at>> \o defers
  /\ Goto(EndOf(at) + 1)
  /\ UNCHANGED moved

(* The end of a branch, a case, a loop body, a block or a deferred block.  *)
RunBranchEnd ==
  /\ Running(Enders)
  /\ LET head == prog[at].head
     IN  IF prog[head].op = "defer" THEN Leave
         ELSE /\ Goto(IF prog[head].op \in Loops THEN head ELSE EndOf(head) + 1)
              /\ UNCHANGED defers
  /\ UNCHANGED moved

RunBreak ==
  /\ Running({"break"})
  /\ Goto(EndOf(Highest({k \in prog[at].path \ {0} : prog[k].op \in Loops})) + 1)
  /\ UNCHANGED <<moved, defers>>

Check ==
  \/ CheckUse \/ CheckMove \/ CheckReturnX \/ CheckReturn \/ CheckBreak \/ CheckVar
  \/ \E op \in Simple : CheckHold(op) \/ CheckLend(op)
  \/ \E op \in Openers, term \in BOOLEAN : CheckOpen(op, term)
  \/ \E term \in BOOLEAN : CheckElse(term)
  \/ CheckCase \/ CheckEnd \/ CheckFinished

Run ==
  \/ RunFault \/ RunRead \/ RunMove \/ RunDecl \/ RunReturn \/ RunEnd
  \/ RunBranch \/ RunBlock \/ RunDefer \/ RunBranchEnd \/ RunBreak

Next == Check \/ Run
Spec == Init /\ [][Next]_vars

-----------------------------------------------------------------------------
(* Properties.                                                             *)

InIsolated(k) == \E p \in prog[k].path \ {0} : prog[p].iso

(* A block inside an isolated one has no environment of its own, and its   *)
(* declaration of x still counts when it is over.                          *)
Redeclared(j, k) == \E d \in j + 1 .. k - 1 : prog[d].op = "decl" /\ InIsolated(d)

(* A value that is read after it was moved, in a body the checker took, is *)
(* one of the kinds it does not follow: the move is in a loop body, a case *)
(* or a branch that returns; or the use stands before it in the text, in a *)
(* loop or a deferred block; or x was declared over.  It misses no other.  *)
MissedMoves ==
  phase = "faulty" =>
    LET j == fault[1]
        k == fault[2]
    IN  InIsolated(j) \/ k <= j \/ Redeclared(j, k)

(* A use that is reported is of the variable that was moved, and no branch *)
(* that ends by returning, no case and no while body lies around the move  *)
(* and not around the use.                                                 *)
AlarmsMeanPaths ==
  phase = "rejected" /\ error[1] # 0 =>
    LET j == error[1]
        k == error[2]
    IN  /\ prog[j].inst = prog[k].inst \/ InIsolated(prog[j].inst)
        /\ \A p \in prog[j].path \ prog[k].path :
             /\ prog[p].op \notin {"while", "switch", "case"}
             /\ ~\E r \in p + 1 .. k - 1 :
                  /\ prog[r].op \in {"return", "returnX"}
                  /\ prog[r].path = prog[p].path \cup {p}
                  /\ prog[p].op \in {"if", "else"}

(* A function of which blockTerminates says that it returns does not run   *)
(* off the end of its body.                                                *)
ReturnsWhenRequired ==
  phase = "running" /\ blocks[1].ends => at <= Len(prog)

(* The statements accepted while a borrow of the same x lives, which is to *)
(* the end of its block.                                                   *)
AcceptedUnder(holds, ops) ==
  {jk \in (DOMAIN prog) \X (DOMAIN prog) :
     LET j == jk[1]
         k == jk[2]
     IN  /\ j < k /\ (phase = "rejected" => k # error[2])
         /\ prog[j].op = holds /\ prog[k].op \in ops
         /\ prog[j].inst = prog[k].inst /\ prog[j].path \subseteq prog[k].path}

(* While r = &mut x lives, x is not moved nor lent again, but for a second *)
(* &mut x; and once one was lent to a call the checker may forget r.       *)
MutableBorrowGuarded ==
  \A jk \in AcceptedUnder("hold", {"move", "returnX", "share", "lendShared"}) :
    \E l \in jk[1] + 1 .. jk[2] - 1 : prog[l].op = "lend"

(* While r = &x lives no &mut x is taken.                                  *)
SharedNotMutated == AcceptedUnder("share", {"hold", "lend"}) = {}
=============================================================================
