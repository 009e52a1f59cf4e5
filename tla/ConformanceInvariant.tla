----------------------- MODULE ConformanceInvariant -----------------------
(***************************************************************************)
(* The inductive invariants of Conformance that ConformanceProofs proves,  *)
(* and what they are made of: what is true of the text and of its open     *)
(* blocks (BodyInv), of the machine code's deferred blocks (NatInv) and of *)
(* the bytecode (CodeInv).                                                 *)
(***************************************************************************)
EXTENDS Conformance

-----------------------------------------------------------------------------
Ops == Simple \cup Openers \cup Enders

TokenType == [op : Ops, decl : Nat \cup {None}, path : SUBSET Nat, head : Nat]

BlockType ==
  [op : Ops \cup {"function"}, place : Nat, head : Nat, decl : Nat \cup {None}]

Typed(pr, bs) == pr \in Seq(TokenType) /\ bs \in Seq(BlockType) /\ Len(bs) >= 2

PlacesOf(bs) == {bs[n].place : n \in 1 .. Len(bs)}

(* What is true of each statement of the text,                             *)
LoopsAround(pr, k) == {p \in pr[k].path \ {0} : pr[p].op \in Loops}

LoopIn(pr, k) == Highest(LoopsAround(pr, k))

SameHead(op, head) ==
  /\ op = "else" => head = "if"
  /\ op = "case" => head = "switch"
  /\ op \notin {"else", "case"} => op = head

(* p begins a part of the statement h.                                     *)
Part(pr, p, h) == p = h \/ pr[p].head = h

TokenOK(pr, k) ==
  /\ 0 \in pr[k].path /\ pr[k].path \subseteq 0 .. k - 1
  /\ \A p \in pr[k].path \ {0} : pr[p].op \in Openers \cup {"else", "case"}
  /\ pr[k].decl <= k
  /\ pr[k].op = "var" => pr[k].decl = k
  /\ pr[k].op = "set" => pr[k].decl # None
  /\ pr[k].op \in Enders => pr[k].head \in 1 .. k - 1 /\ pr[pr[k].head].op \in Openers
  /\ pr[k].op \in {"else", "case"} => SameHead(pr[k].op, pr[pr[k].head].op)
  /\ pr[k].op \notin Enders => pr[k].head = 0
  /\ pr[k].op \in {"else", "case"} => \A p \in pr[k].path : p < pr[k].head
  /\ pr[k].op = "end" =>
       /\ \E p \in pr[k].path \ {0} : Part(pr, p, pr[k].head)
       /\ \A p \in pr[k].path \ {0} : p < pr[k].head \/ Part(pr, p, pr[k].head)
  /\ pr[k].op = "defer" => \A p \in pr[k].path \ {0} : pr[p].op # "defer"
  /\ pr[k].op \in {"break", "continue"} =>
       \E p \in LoopsAround(pr, k) : \A q \in pr[k].path \ {0} : pr[q].op = "defer" => q < p

Statements(pr) == \A k \in 1 .. Len(pr) : TokenOK(pr, k)

(* of the open blocks,                                                     *)
Base(bs) ==
  /\ bs[1].op = "function" /\ bs[1].place = 0 /\ bs[1].head = 0
  /\ bs[2].op = "block" /\ bs[2].place = 0 /\ bs[2].head = 0
  /\ bs[1].decl \in {0, None}

BlockOK(pr, bs, n) ==
  /\ bs[n].op \in Openers \cup {"else", "case"}
  /\ bs[n].place \in 1 .. Len(pr) /\ pr[bs[n].place].op = bs[n].op
  /\ bs[n].head \in 1 .. bs[n].place
  /\ SameHead(bs[n].op, pr[bs[n].head].op)
  /\ bs[n].op \in Openers => bs[n].head = bs[n].place
  /\ bs[n].op \notin Openers => pr[bs[n].place].head = bs[n].head
  /\ \A x \in 1 .. Len(pr) : pr[x].head = bs[n].head => x <= bs[n].place

Nest(pr, bs) ==
  /\ Base(bs)
  /\ \A n \in 3 .. Len(bs) : BlockOK(pr, bs, n)
  /\ \A m, n \in 1 .. Len(bs) : m < n /\ n >= 3 => bs[m].place < bs[n].head
  /\ \A m, n \in 3 .. Len(bs) : bs[m].op = "defer" /\ bs[n].op = "defer" => m = n

(* of the parts of a statement,                                            *)
LastPart(pr, y) == \A x \in 1 .. Len(pr) : pr[x].head = pr[y].head => x <= y

Parts(pr, bs) ==
  /\ \A y \in 1 .. Len(pr) :
       pr[y].op = "end" => LastPart(pr, y) /\ \A n \in 3 .. Len(bs) : bs[n].head # pr[y].head
  /\ \A k \in 1 .. Len(pr) :
       pr[k].op \in Openers =>
         \/ \E n \in 3 .. Len(bs) : bs[n].head = k
         \/ \E y \in 1 .. Len(pr) : pr[y].op = "end" /\ pr[y].head = k

(* and of what stands inside what.                                         *)
NextOf(pr, j, h) == pr[j].op \in {"else", "case"} /\ pr[j].head = h

Within(pr, j, h) == NextOf(pr, j, h) \/ \E p \in pr[j].path \ {0} : Part(pr, p, h)

Inside(pr, bs) ==
  /\ \A n \in 3 .. Len(bs), j \in 1 .. Len(pr) : bs[n].head < j => Within(pr, j, bs[n].head)
  /\ \A y \in 1 .. Len(pr), j \in 1 .. Len(pr) :
       pr[y].op = "end" /\ pr[y].head < j /\ j <= y => Within(pr, j, pr[y].head)
  /\ \A y \in 1 .. Len(pr), j \in 1 .. Len(pr) :
       pr[y].op = "end" /\ y < j => pr[y].head \notin pr[j].path

(* The declarations of the open blocks are in the order of the blocks.     *)
Declared(pr, bs) ==
  /\ \A n \in 1 .. Len(bs) : bs[n].decl <= Len(pr)
  /\ \A n \in 3 .. Len(bs) : bs[n].decl # None => bs[n].place <= bs[n].decl
  /\ \A m, n \in 1 .. Len(bs) : m < n /\ n >= 3 => bs[m].decl < bs[n].head
  /\ bs[2].decl # None => 1 <= bs[2].decl

TextOK(pr, bs) ==
  /\ Typed(pr, bs) /\ Statements(pr) /\ Nest(pr, bs) /\ Parts(pr, bs)
  /\ Inside(pr, bs) /\ Declared(pr, bs)

-----------------------------------------------------------------------------
(* Sequences that differ in their last element.                            *)

Grows(s, t) == Len(t) = Len(s) + 1 /\ \A k \in 1 .. Len(s) : t[k] = s[k]

-----------------------------------------------------------------------------
(* Four kinds of steps: a statement is added, and perhaps a declaration,   *)

NewToken(pr, bs, pr2, op, decl, path, head) ==
  /\ Typed(pr, bs)
  /\ op \in Ops /\ decl \in Nat \cup {None} /\ path \in SUBSET Nat /\ head \in Nat
  /\ pr2 = Append(pr, Token(op, decl, path, head))
  /\ TokenOK(pr2, Len(pr) + 1)

SimpleStep(pr, bs, pr2, bs2, op, decl) ==
  /\ op \in Simple
  /\ NewToken(pr, bs, pr2, op, decl, PlacesOf(bs), 0)
  /\ bs2 = IF op = "var" THEN [bs EXCEPT ![Len(bs)].decl = Len(pr) + 1] ELSE bs

(* a block is opened,                                                      *)
OpenStep(pr, bs, pr2, bs2, op, decl) ==
  /\ op \in Openers
  /\ NewToken(pr, bs, pr2, op, decl, PlacesOf(bs), 0)
  /\ op = "defer" => \A n \in 1 .. Len(bs) : bs[n].op # "defer"
  /\ bs2 = Append(bs, Block(op, Len(pr) + 1, Len(pr) + 1,
                            IF op \in {"for", "forRange"} THEN Len(pr) + 1 ELSE None))

(* the next part of a statement is opened,                                 *)
NextStep(pr, bs, pr2, bs2, op) ==
  /\ op \in {"else", "case"} /\ Len(bs) > 2
  /\ IF op = "else" THEN bs[Len(bs)].op = "if" ELSE bs[Len(bs)].op \in {"switch", "case"}
  /\ NewToken(pr, bs, pr2, op, None, PlacesOf(Front(bs)), bs[Len(bs)].head)
  /\ bs2 = Append(Front(bs), Block(op, Len(pr) + 1, bs[Len(bs)].head, None))

(* and a block is closed.                                                  *)
EndStep(pr, bs, pr2, bs2) ==
  /\ Len(bs) > 2
  /\ NewToken(pr, bs, pr2, "end", None, PlacesOf(bs), bs[Len(bs)].head)
  /\ bs2 = Front(bs)

-----------------------------------------------------------------------------
(* Where a statement ends.                                                 *)

EndIn(pr, h) == Highest({m \in 1 .. Len(pr) : pr[m].head = h})

-----------------------------------------------------------------------------
(* Functions that are defined by going on to larger arguments.             *)

RunsDown(F, n, J, nx, vl) ==
  /\ F = [k \in 1 .. n |-> F[k]]
  /\ \A k \in 1 .. n : F[k] = IF k \in J THEN F[nx[k]] ELSE vl[k]

(* Settle on a text that is complete.                                      *)
Silent(pr, k) ==
  \/ pr[k].op \in {"block", "break", "else", "case"}
  \/ pr[k].op = "end" /\ pr[pr[k].head].op \notin Loops \cup {"defer"}

SilentTo(pr, k) ==
  IF pr[k].op = "break" THEN EndIn(pr, LoopIn(pr, k)) + 1
  ELSE IF pr[k].op \in {"else", "case"} THEN EndIn(pr, pr[k].head) + 1
  ELSE k + 1

SettledAt(pr, k) ==
  IF k > Len(pr) THEN k
  ELSE IF pr[k].op = "continue" THEN LoopIn(pr, k)
  ELSE IF pr[k].op = "end" /\ pr[pr[k].head].op \in Loops THEN pr[k].head
  ELSE k

-----------------------------------------------------------------------------
(* The body that is written, and then stays as it is.                      *)

BodyInv ==
  /\ TextOK(prog, blocks)
  /\ Len(prog) + Len(blocks) <= MaxLen + 2
  /\ phase \in {"writing", "running", "over", "refused"}
  /\ phase = "running" => Len(blocks) = 2

(* The steps that write, and what they leave of the bound.                 *)
Wrote ==
  \/ \E op : Write(op) /\ SimpleStep(prog, blocks, prog', blocks', op, Meant)
  \/ WriteVar /\ SimpleStep(prog, blocks, prog', blocks', "var", Len(prog) + 1)
  \/ \E op : WriteOpen(op) /\ OpenStep(prog, blocks, prog', blocks', op, Meant)
  \/ \E op : WriteNext(op) /\ NextStep(prog, blocks, prog', blocks', op)
  \/ WriteEnd /\ EndStep(prog, blocks, prog', blocks')

-----------------------------------------------------------------------------
(* What stands in a deferred block, in a text that is complete.            *)

DeferredBy(pr, d, k) ==
  d \in 1 .. Len(pr) /\ pr[d].op = "defer" /\ k \in Nat /\ d < k /\ k <= EndIn(pr, d)

Deferred(pr, k) == \E d \in 1 .. Len(pr) : DeferredBy(pr, d, k)

Complete2(pr, bs) == TextOK(pr, bs) /\ Len(bs) = 2

-----------------------------------------------------------------------------
(* What the generator of machine code does not emit, and the deferred      *)
(* blocks that it has emitted when it comes to a statement.                *)

LiveOK(pr, D) ==
  /\ D \subseteq 1 .. Len(pr) /\ 1 \notin D
  /\ \A k \in 1 .. Len(pr) : k \notin D => pr[k].path \cap D = {}
  /\ \A k \in 1 .. Len(pr) : pr[k].op \in Enders => (k \in D <=> pr[k].head \in D)
  /\ \A k \in 1 .. Len(pr) : k \notin D /\ pr[k].op \notin Terminators => k + 1 \notin D

DeadOK(pr, bs, dead, D) ==
  /\ dead \in {0} \cup 2 .. Len(bs) /\ (Len(pr) = 0 => dead = 0)
  /\ \A k \in 1 .. Len(pr) :
       k = Len(pr) /\ k \notin D /\ pr[k].op \notin Terminators => dead = 0
  /\ \A n \in 3 .. Len(bs) :
       /\ bs[n].head \in D <=> dead # 0 /\ n > dead
       /\ bs[n].place \in D <=> dead # 0 /\ n > dead

StackOK(pr, na, D, S) ==
  /\ S \in [1 .. Len(pr) + 1 -> Seq(Nat)]
  /\ S[1] = <<>> /\ S[Len(pr) + 1] = na.deferStack
  /\ \A k \in 1 .. Len(pr) :
       S[k + 1] = IF pr[k].op = "defer" /\ k \notin D THEN Append(S[k], k) ELSE S[k]
  /\ \A k \in 1 .. Len(pr) :
       pr[k].op = "return" /\ k \notin D => na.inlined[k] = Reverse(S[k])

NatShape ==
  /\ nat = [scopes |-> nat.scopes, deferStack |-> nat.deferStack, dead |-> nat.dead,
            built |-> nat.built, slot |-> nat.slot, inlined |-> nat.inlined]
  /\ nat.inlined \in [1 .. MaxLen + 1 -> Seq(Nat)]
  /\ nat.deferStack \in Seq(Nat)

(* A token that is emitted, or left out.                                   *)
Adds(pr, bs, pr2, op, decl, path, head, D, D2) ==
  /\ TextOK(pr, bs) /\ NewToken(pr, bs, pr2, op, decl, path, head) /\ LiveOK(pr, D)
  /\ D2 \in {D, D \cup {Len(pr) + 1}}
  /\ Len(pr) + 1 \notin D2 => path \cap D = {}
  /\ op \in Enders => (Len(pr) + 1 \in D2 <=> head \in D)

(* na2 follows na by a statement that is emitted or not.                   *)
Emits(pr, na, na2, op, live) ==
  /\ na2.deferStack = IF op = "defer" /\ live THEN Append(na.deferStack, Len(pr) + 1)
                      ELSE na.deferStack
  /\ \A k \in 1 .. Len(pr) : na2.inlined[k] = na.inlined[k]
  /\ op = "return" /\ live => na2.inlined[Len(pr) + 1] = Reverse(na.deferStack)

-----------------------------------------------------------------------------
(* Each step of the generator.                                             *)

DefersOK(pr, bs, na, D, S) == LiveOK(pr, D) /\ DeadOK(pr, bs, na.dead, D) /\ StackOK(pr, na, D, S)

-----------------------------------------------------------------------------
(* The deferred blocks that are due, when none stands in a branch or loop. *)

Branches(pr) == {n \in 1 .. Len(pr) : pr[n].op \in Tests \cup {"else"}}

Plain(pr) == \A d \in 1 .. Len(pr) : pr[d].op = "defer" => pr[d].path \cap Branches(pr) = {}

(* The function itself, where it is emitted.                               *)
Main(pr, D, k) == k \in 1 .. Len(pr) + 1 /\ ~Deferred(pr, k) /\ k \notin D

Emitted2(pr, bs, na, D, S) ==
  /\ Complete2(pr, bs) /\ Plain(pr) /\ LiveOK(pr, D) /\ StackOK(pr, na, D, S)

-----------------------------------------------------------------------------
(* Settling stays in the function.                                         *)

Reached(pr, D, S, r, s) == Main(pr, D, r) /\ S[r] = s /\ (r \in 1 .. Len(pr) => pr[r].op # "end")

-----------------------------------------------------------------------------
(* The stack of deferred blocks while the body is written.                 *)

WrittenDefers == defers = <<>> /\ \E D, S : DefersOK(prog, blocks, nat, D, S)

Writes ==
  \/ \E op \in Simple : Statement(op)
  \/ Variable
  \/ \E op \in Openers : Opening(op)
  \/ \E op \in {"else", "case"} : Branch(op)
  \/ Ending

-----------------------------------------------------------------------------
(* The deferred blocks that are due when the body runs.                    *)

Placed == defers \in Seq({d \in 1 .. Len(prog) : prog[d].op = "defer"})

InMain(D, S) == Reached(prog, D, S, at, S[at]) /\ defers = Reverse(S[at])

NatRun(D, S) ==
  /\ LiveOK(prog, D) /\ StackOK(prog, nat, D, S)
  /\ nat.inlined[Len(prog) + 1] = Reverse(S[Len(prog) + 1])
  /\ Plain(prog) => Placed /\ (Deferred(prog, at) \/ InMain(D, S))

(* A test that fails goes on with a later part of its statement.           *)
SkipsTo(h, m) ==
  /\ h \in 1 .. Len(prog) /\ prog[h].op \in Loops \cup {"if", "switch"}
  /\ h <= at /\ at <= EndIn(prog, h)
  /\ h = at \/ (prog[at].op = "case" /\ prog[at].head = h /\ h < at)
  /\ m \in 1 .. Len(prog) /\ at < m /\ m <= EndIn(prog, h)
  /\ prog[m].head = h /\ prog[m].op \in Enders
  /\ \A x \in 1 .. Len(prog) : at < x /\ x < m => prog[x].head # h
  /\ Skipped = IF prog[m].op = "case" THEN m ELSE Settle[m + 1]

-----------------------------------------------------------------------------
NatInv ==
  /\ NatShape
  /\ phase = "writing" => WrittenDefers
  /\ phase = "running" => \E D, S : NatRun(D, S)

-----------------------------------------------------------------------------
(* Sequences of any elements, and code.                                    *)

IsSeq(s) == \E S : s \in Seq(S)

IsCode(c) ==
  /\ IsSeq(c)
  /\ \A n \in 1 .. Len(c) : c[n] = Instr(c[n].op, c[n].arg, c[n].of) /\ c[n].of \in Nat

Patched(c, jumps) ==
  [n \in DOMAIN c |-> IF n \in jumps THEN [c[n] EXCEPT !.arg = Len(c) + 1] ELSE c[n]]

Filled(s, x, m) == s \o [i \in 1 .. m |-> x]

Popped(c, n) == Filled(c, Instr("POP", 0, 0), n)

-----------------------------------------------------------------------------
(* The state of the compiler.                                              *)

GenOK(g) ==
  /\ g = [fn |-> g.fn, code |-> g.code, depth |-> g.depth, locals |-> g.locals,
          loopStart |-> g.loopStart, continueDest |-> g.continueDest,
          continues |-> g.continues, breaks |-> g.breaks, depths |-> g.depths]
  /\ g.fn \in Places /\ g.code = [f \in Places |-> g.code[f]]
  /\ \A f \in Places : IsCode(g.code[f])
  /\ IsSeq(g.locals)

SameLoop(g, g2) ==
  /\ g2.loopStart = g.loopStart /\ g2.continueDest = g.continueDest
  /\ g2.continues = g.continues /\ g2.breaks = g.breaks /\ g2.depths = g.depths

SameScope(g, g2) == g2.depth = g.depth /\ g2.locals = g.locals

(* g2 is g with this code for its function.                                *)
Recoded(g, g2, c) ==
  /\ GenOK(g2) /\ SameLoop(g, g2)
  /\ g2.fn = g.fn /\ g2.code[g.fn] = c
  /\ \A f \in Places : f # g.fn => g2.code[f] = g.code[f]

-----------------------------------------------------------------------------
(* Where control goes.  R says of each place of the text which statement   *)
(* does something next when control is there (to), when it has left the    *)
(* statement whose head is there (past), and when the test that is there   *)
(* fails (skip).  Each instruction is annotated with the statement that    *)
(* does something next when the machine is there.                          *)

Does(R, pr, i, b) ==
  \/ /\ i.op \in {"CALL", "GET", "CONST"} /\ i.of \in 1 .. Len(pr)
     /\ pr[i.of].op \in {"call", "use", "var", "set"} /\ b = R.to[i.of + 1]
  \/ /\ i.op = "TEST" /\ i.of \in 1 .. Len(pr)
     /\ pr[i.of].op \in Tests /\ b = R.to[i.of + 1]
  \/ /\ i.op = "DEFER" /\ i.of \in 1 .. Len(pr)
     /\ pr[i.of].op = "defer" /\ i.arg = i.of /\ b = R.past[i.of]
  \/ /\ i.op \in {"RETURN", "PANIC"} /\ i.of \in 1 .. Len(pr)
     /\ pr[i.of].op \in {"return", "panic", "end"}

FlowOK(R, pr, i, a, b) ==
  /\ i.of # 0 => a = i.of /\ Does(R, pr, i, b)
  /\ i.of = 0 => i.op \in {"CONST", "POP", "SET", "JMP"}
  /\ i.of = 0 /\ i.op # "JMP" => b = a

JumpOK(R, i, a, A) ==
  /\ i.op = "JMP" /\ i.arg # 0 => i.arg \in 1 .. Len(A) /\ A[i.arg] = a
  /\ i.op = "TEST" /\ i.arg # 0 => i.arg \in 1 .. Len(A) /\ A[i.arg] = R.skip[i.of]

Fits(R, pr, c, A) ==
  /\ IsCode(c) /\ A \in Seq(Int) /\ Len(A) = Len(c) + 1
  /\ \A n \in 1 .. Len(c) : FlowOK(R, pr, c[n], A[n], A[n + 1]) /\ JumpOK(R, c[n], A[n], A)

Unpatched(c) == {n \in 1 .. Len(c) : c[n].op \in {"JMP", "TEST"} /\ c[n].arg = 0}

Grown(c, A, c2, A2) ==
  /\ Len(c) <= Len(c2)
  /\ \A n \in 1 .. Len(c) : c2[n].op = c[n].op /\ c2[n].of = c[n].of
  /\ \A n \in 1 .. Len(c) + 1 : A2[n] = A[n]

Coded(R, pr, g, A, v, U) ==
  /\ GenOK(g) /\ Fits(R, pr, g.code[g.fn], A)
  /\ A[Size(g) + 1] = v /\ Unpatched(g.code[g.fn]) \subseteq U

Link(g, A, g2, A2) ==
  /\ g2.fn = g.fn /\ \A f \in Places : f # g.fn => g2.code[f] = g.code[f]
  /\ Grown(g.code[g.fn], A, g2.code[g.fn], A2)

-----------------------------------------------------------------------------
(* The helpers of the compiler keep the annotations.                       *)

EmittedAs(R, pr, g, A, v, U, op, arg, of, w, g2, B) ==
  /\ Coded(R, pr, g2, B, w,
           IF op \in {"JMP", "TEST"} /\ arg = 0 THEN U \cup {Size(g) + 1} ELSE U)
  /\ Link(g, A, g2, B) /\ SameLoop(g, g2) /\ SameScope(g, g2)
  /\ Size(g2) = Size(g) + 1
  /\ g2.code[g.fn][Size(g) + 1] = Instr(op, arg, of) /\ B[Size(g) + 1] = v

TargetOK(g, A, v, op, arg) ==
  /\ op = "TEST" => arg = 0
  /\ op = "JMP" /\ arg # 0 => arg \in 1 .. Size(g) + 1 /\ A[arg] = v

(* From g, annotated by A, the compiler comes to g2, annotated by B.       *)
Comes(R, pr, g, A, g2, B, v, U) ==
  Coded(R, pr, g2, B, v, U) /\ Link(g, A, g2, B) /\ SameLoop(g, g2)

FitsAfter(R, pr, c, A, d) ==
  \E B : Fits(R, pr, d, B) /\ Grown(c, A, d, B) /\ B[Len(d) + 1] = A[Len(c) + 1]

(* Jumps are patched to what comes next.                                   *)
Landing(R, c, A, jumps, v) ==
  \A n \in 1 .. Len(c) : n \in jumps =>
    \/ c[n].op = "JMP" /\ A[n] = v
    \/ c[n].op = "TEST" /\ R.skip[c[n].of] = v

-----------------------------------------------------------------------------
(* What R has to say of the text.                                          *)

Stops == {"call", "use", "var", "set", "return", "panic", "defer"} \cup (Tests \ {"case"})

(* m begins the part of a statement that comes after the part that p begins*)
Follows(pr, p, m) ==
  /\ pr[m].op \in Enders /\ p < m
  /\ p = pr[m].head \/ (pr[p].op \in Enders /\ pr[p].head = pr[m].head)
  /\ \A x \in 1 .. Len(pr) : p < x /\ x < m => pr[x].head # pr[m].head

Goes(R, pr, k) ==
  /\ pr[k].op \in Stops => R.to[k] = k
  /\ pr[k].op = "block" => R.to[k] = R.to[k + 1]
  /\ pr[k].op = "break" => R.to[k] = R.past[LoopIn(pr, k)]
  /\ pr[k].op = "continue" => R.to[k] = LoopIn(pr, k)
  /\ pr[k].op \in {"else", "case"} => R.to[k] = R.past[pr[k].head]
  /\ pr[k].op = "end" =>
       /\ R.past[pr[k].head] = R.to[k + 1]
       /\ R.to[k] = IF pr[pr[k].head].op \in Loops THEN pr[k].head
                    ELSE IF pr[pr[k].head].op = "defer" THEN k ELSE R.to[k + 1]

Respects(R, pr) ==
  /\ R.to \in [Int -> Int] /\ R.past \in [Int -> Int] /\ R.skip \in [Int -> Int]
  /\ \A k \in 1 .. Len(pr) : Goes(R, pr, k)
  /\ \A p, m \in 1 .. Len(pr) :
       Follows(pr, p, m) => R.skip[p] = IF pr[m].op = "case" THEN m ELSE R.to[m + 1]

(* The loop that is left or continued is the innermost open one.           *)
LoopAt(bs, n, l) ==
  /\ l \in 3 .. n /\ bs[l].op \in Loops
  /\ \A m \in l + 1 .. n : bs[m].op \notin Loops \cup {"defer"}

(* The function whose code block n is part of.                             *)
FnIs(bs, n, f) ==
  \/ f = 0 /\ \A m \in 3 .. n : bs[m].op # "defer"
  \/ \E m \in 3 .. n : bs[m].op = "defer" /\ bs[m].place = f

-----------------------------------------------------------------------------
(* What is true of the compiler while it emits, with the annotations A of  *)
(* the code of each function.                                              *)

Codes(R, pr, g, A) ==
  /\ GenOK(g)
  /\ \A f \in Places :
       /\ Fits(R, pr, g.code[f], A[f]) /\ A[f][1] = R.to[f + 1]
       /\ f > Len(pr) => g.code[f] = <<>>

(* The end of the code of each function.                                   *)
EndAt(C, A, f) == A[f][Len(C[f]) + 1]

Endings(R, pr, bs, g, A) ==
  /\ FnIs(bs, Len(bs), g.fn) /\ EndAt(g.code, A, g.fn) = R.to[Len(pr) + 1]
  /\ \A m \in 3 .. Len(bs) : bs[m].op = "defer" => EndAt(g.code, A, 0) = bs[m].place
  /\ \A y \in 1 .. Len(pr) :
       pr[y].op = "end" /\ pr[pr[y].head].op = "defer" => EndAt(g.code, A, pr[y].head) = y

(* Jumps that are to land where v is done.                                 *)
Jumps(c, a, S, v) == \A j \in S : j \in 1 .. Len(c) /\ c[j].op = "JMP" /\ a[j] = v

Held(R, bs, ct, C, A, n) ==
  /\ bs[n].op \in Openers => ct[n - 2].ends = {}
  /\ \A f \in Places : FnIs(bs, n, f) =>
       /\ bs[n].op \in Tests =>
            /\ ct[n - 2].exit \in 1 .. Len(C[f]) /\ C[f][ct[n - 2].exit].op = "TEST"
            /\ C[f][ct[n - 2].exit].of = bs[n].place
       /\ Jumps(C[f], A[f], ct[n - 2].ends, R.past[bs[n].head])

(* s: the state of the loops when the first n blocks are open.             *)
LoopOK(R, bs, C, A, s, n, f, l) ==
  /\ s.loopStart \in 0 .. Len(C[f]) /\ A[f][s.loopStart + 1] = bs[l].place
  /\ Jumps(C[f], A[f], s.breaks, R.past[bs[l].place])
  /\ IF bs[l].op = "while" THEN s.continueDest = s.loopStart
     ELSE s.continueDest = -1 /\ Jumps(C[f], A[f], s.continues, bs[l].place)

LoopsOK(R, bs, ct, C, A, s, n) ==
  /\ \A f \in Places, l \in 3 .. n :
       FnIs(bs, n, f) /\ LoopAt(bs, n, l) => LoopOK(R, bs, C, A, s, n, f, l)
  /\ (\A l \in 3 .. n : ~LoopAt(bs, n, l)) =>
       \A d \in 3 .. n : bs[d].op = "defer" =>
         s.continueDest = ct[d - 2].old.continueDest /\ s.continues = ct[d - 2].old.continues

IsControl(c) == c = [exit |-> c.exit, ends |-> c.ends, old |-> c.old]

Under(R, bs, ct, C, A, n) ==
  \A m \in 3 .. n :
    /\ IsControl(ct[m - 2])
    /\ Held(R, bs, ct, C, A, m)
    /\ LoopsOK(R, bs, ct, C, A, ct[m - 2].old, m - 1)
    /\ ct[m - 2].old.fn \in Places /\ FnIs(bs, m - 1, ct[m - 2].old.fn)
    /\ IsSeq(ct[m - 2].old.locals)

LoopHole(bs, s, n, f, j) ==
  /\ FnIs(bs, n, f)
  /\ \E l \in 3 .. n : LoopAt(bs, n, l) /\ (j \in s.breaks \/ (bs[l].op # "while" /\ j \in s.continues))

BlockHole(bs, ct, m, f, j) ==
  \/ FnIs(bs, m, f) /\ ((bs[m].op \in Tests /\ j = ct[m - 2].exit) \/ j \in ct[m - 2].ends)
  \/ bs[m].op \in Loops \cup {"defer"} /\ LoopHole(bs, ct[m - 2].old, m - 1, f, j)

Hole(bs, ct, g, f, j) ==
  \/ LoopHole(bs, g, Len(bs), f, j)
  \/ \E m \in 3 .. Len(bs) : BlockHole(bs, ct, m, f, j)

Pending(bs, ct, g) == \A f \in Places : \A j \in Unpatched(g.code[f]) : Hole(bs, ct, g, f, j)

Written(R, pr, bs, ct, g, A) ==
  /\ Codes(R, pr, g, A) /\ Endings(R, pr, bs, g, A)
  /\ IsSeq(ct) /\ Len(ct) = Len(bs) - 2
  /\ Under(R, bs, ct, g.code, A, Len(bs)) /\ LoopsOK(R, bs, ct, g.code, A, g, Len(bs))
  /\ Pending(bs, ct, g)

-----------------------------------------------------------------------------
(* What is kept when the code grows and blocks are added.                  *)

SameBlocks(bs, bs2, n) ==
  \A m \in 3 .. n : bs2[m].op = bs[m].op /\ bs2[m].place = bs[m].place /\ bs2[m].head = bs[m].head

SameOlds(ct, ct2, n) == \A m \in 3 .. n : ct2[m - 2].old = ct[m - 2].old

SameCtl(ct, ct2, n) == \A m \in 3 .. n : ct2[m - 2] = ct[m - 2]

AllGrown(C, A, C2, A2) ==
  \A f \in Places : Len(C[f]) \in Nat /\ Len(C2[f]) \in Nat /\ Grown(C[f], A[f], C2[f], A2[f])

IsMap(A) == A = [f \in Places |-> A[f]]

(* The function that is emitted goes on.                                   *)
Onward(A, g, B) == [A EXCEPT ![g.fn] = B]

Further(R, pr2, g, A, g2, A2, v) ==
  /\ Codes(R, pr2, g2, A2) /\ AllGrown(g.code, A, g2.code, A2) /\ IsMap(A2)
  /\ g2.fn = g.fn /\ EndAt(g2.code, A2, g.fn) = v
  /\ \A f \in Places : f # g.fn => A2[f] = A[f] /\ g2.code[f] = g.code[f]

-----------------------------------------------------------------------------
(* A step that goes on with the function that is emitted.                  *)

SameDefers(bs, bs2) ==
  \A m \in 3 .. Len(bs2) : bs2[m].op = "defer" =>
    m \in 3 .. Len(bs) /\ bs[m].op = "defer" /\ bs2[m].place = bs[m].place

EndsDefer(pr, y) == pr[y].op = "end" /\ pr[pr[y].head].op = "defer"

Carried(R, pr, bs, ct, g, A, pr2) ==
  /\ TextOK(pr, bs) /\ Written(R, pr, bs, ct, g, A) /\ IsMap(A)
  /\ Grows(pr, pr2) /\ Len(pr2) <= MaxLen /\ Respects(R, pr2)

Annotated(R, pr, bs, ct, g) == \E A : IsMap(A) /\ Written(R, pr, bs, ct, g, A)

-----------------------------------------------------------------------------
(* A statement that is no block.                                           *)

JumpsLoop(R, bs, g, g2, B, l, j) ==
  /\ LoopAt(bs, Len(bs), l) /\ g2.loopStart = g.loopStart /\ g2.continueDest = g.continueDest
  /\ g.breaks \subseteq g2.breaks /\ g.continues \subseteq g2.continues
  /\ g2.breaks \subseteq g.breaks \cup {j} /\ g2.continues \subseteq g.continues \cup {j}
  /\ j \in g2.breaks \/ (j \in g2.continues /\ bs[l].op # "while")
  /\ j \in 1 .. Size(g2) /\ g2.code[g.fn][j].op = "JMP"
  /\ g2.breaks # g.breaks => B[j] = R.past[bs[l].place]
  /\ bs[l].op # "while" /\ g2.continues # g.continues => B[j] = bs[l].place

-----------------------------------------------------------------------------
(* The instructions that the compiler emits.                               *)

(* A jump or a test that is patched later.                                 *)
Holed(R, pr, g, A, U, op, of, v, w, g2, j) ==
  /\ \E B : Comes(R, pr, g, A, g2, B, w, U \cup {j}) /\ B[j] = v
  /\ Size(g2) = Size(g) + 1 /\ j = Size(g) + 1 /\ SameScope(g, g2) /\ g2.code[g.fn][j] = Instr(op, 0, of)

-----------------------------------------------------------------------------
(* Break and continue.                                                     *)

WithBreak(g, j) == [g EXCEPT !.breaks = @ \cup {j}]

WithContinue(g, j) == [g EXCEPT !.continues = @ \cup {j}]

(* The locals are popped, and the jump is emitted.                         *)
JumpsOut(R, pr, g, a, g2, B, j, v, w) ==
  /\ Comes(R, pr, g, a, g2, B, w, Unpatched(g.code[g.fn]) \cup {j})
  /\ B[j] = v /\ j \in 1 .. Size(g2) /\ g2.code[g.fn][j].op = "JMP"

-----------------------------------------------------------------------------
(* A block is opened, in the same function.                                *)

(* What the compiler has when it goes on with the block.                   *)
LoopBegun(op, n, g, g2, B) ==
  IF op \in Loops
  THEN /\ g2.loopStart \in 0 .. Size(g2) /\ B[g2.loopStart + 1] = n /\ g2.breaks = {}
       /\ IF op = "while" THEN g2.continueDest = g2.loopStart
          ELSE g2.continueDest = -1 /\ g2.continues = {}
  ELSE SameLoop(g, g2)

TestAt(op, n, g2, x) ==
  op \in Tests => x \in 1 .. Size(g2) /\ g2.code[g2.fn][x].op = "TEST" /\ g2.code[g2.fn][x].of = n

OpensTo(R, pr2, n, op, g, a, g2, B, x) ==
  /\ Coded(R, pr2, g2, B, R.to[n + 1], Unpatched(g.code[g.fn]) \cup (IF op \in Tests THEN {x} ELSE {}))
  /\ Link(g, a, g2, B) /\ LoopBegun(op, n, g, g2, B) /\ TestAt(op, n, g2, x)

Control(exit, ends, old) == [exit |-> exit, ends |-> ends, old |-> old]

-----------------------------------------------------------------------------
(* The code at the head of a block.                                        *)

Guards(R, pr, n, g, A, g2, U) ==
  /\ \E B : Comes(R, pr, g, A, g2, B, R.to[n + 1], U \cup {Size(g) + 1})
  /\ Size(g2) = Size(g) + 1 /\ g2.fn = g.fn
  /\ g2.code[g2.fn][Size(g) + 1].op = "TEST" /\ g2.code[g2.fn][Size(g) + 1].of = n

(* What the compiler remembers when it begins a loop.                      *)
WhileLoop(g) ==
  [g EXCEPT !.loopStart = Size(g), !.continueDest = Size(g),
            !.breaks = {}, !.depths = Append(@, g.depth)]

ForLoop(g) ==
  [g EXCEPT !.loopStart = Size(g), !.continueDest = -1, !.continues = {},
            !.breaks = {}, !.depths = Append(@, g.depth)]

-----------------------------------------------------------------------------
(* A deferred block is opened.                                             *)

InDeferred(g, f) ==
  [g EXCEPT !.fn = f, !.locals = <<>>, !.depth = 0,
            !.loopStart = -1, !.breaks = {}, !.depths = <<>>]

-----------------------------------------------------------------------------
(* What the call on the innermost block holds.                             *)
TopOK(R, b, h, g, a, t) ==
  /\ IsControl(t) /\ IsSeq(t.old.locals)
  /\ b \in Openers => t.ends = {}
  /\ Jumps(g.code[g.fn], a, t.ends, R.past[h])

-----------------------------------------------------------------------------
(* The next part of a statement.                                           *)

NextsTo(R, pr2, n, op, g, a, exit, g2, B, x, j, v) ==
  /\ Coded(R, pr2, g2, B, R.to[n + 1],
           ((Unpatched(g.code[g.fn]) \ {exit}) \cup {j}) \cup (IF op = "case" THEN {x} ELSE {}))
  /\ Link(g, a, g2, B) /\ SameLoop(g, g2) /\ TestAt(op, n, g2, x)
  /\ j \in 1 .. Size(g2) /\ g2.code[g2.fn][j].op = "JMP" /\ B[j] = v

-----------------------------------------------------------------------------
(* The end of a block that is not deferred.                                *)

(* What is still to be patched when the jumps of the block are.            *)
Left(b, g, t) ==
  {i \in Unpatched(g.code[g.fn]) :
     /\ b \in Tests => i # t.exit
     /\ i \notin t.ends
     /\ b \in Loops => i \notin g.breaks /\ (b # "while" => i \notin g.continues)}

EndsTo(R, pr2, n, b, g, a, t, g2, B) ==
  /\ Coded(R, pr2, g2, B, R.to[n + 1], Left(b, g, t)) /\ Link(g, a, g2, B)
  /\ IF b \in Loops THEN SameLoop(t.old, g2) ELSE SameLoop(g, g2)

-----------------------------------------------------------------------------
(* The next part of a statement, and the branch before it that is over.    *)

(* The branch jumps to the end, and its test lands behind the jump.        *)
BranchTo(R, pr, g, a, t, g2, B, j, v, w) ==
  /\ Comes(R, pr, g, a, g2, B, w, (Unpatched(g.code[g.fn]) \ {t.exit}) \cup {j})
  /\ B[j] = v /\ j \in 1 .. Size(g2) /\ g2.code[g2.fn][j].op = "JMP"

-----------------------------------------------------------------------------
(* The code at the end of a block.                                         *)

EndingAt(R, a) ==
  /\ Here \in Nat /\ R.to[Here + 1] \in Int /\ GenOK(gen)
  /\ Coded(R, prog', gen, a, R.to[Here], Unpatched(gen.code[gen.fn]))
  /\ R.past[Inner.head] = R.to[Here + 1] /\ R.skip[Inner.place] = R.to[Here + 1]
  /\ R.to[Here] = IF Inner.op \in Loops THEN Inner.head
                  ELSE IF Inner.op = "defer" THEN Here ELSE R.to[Here + 1]
  /\ Inner.op \in Openers => Inner.head = Inner.place
  /\ TopOK(R, Inner.op, Inner.head, gen, a, Top)
  /\ TestAt(Inner.op, Inner.place, gen, Top.exit)

-----------------------------------------------------------------------------
(* The end of a loop.                                                      *)

LoopTopOK(R, a) ==
  /\ gen.loopStart \in 0 .. Size(gen) /\ a[gen.loopStart + 1] = Inner.place
  /\ Jumps(gen.code[gen.fn], a, gen.breaks, R.past[Inner.place])
  /\ Inner.op # "while" => Jumps(gen.code[gen.fn], a, gen.continues, Inner.place)

LoopDone(R, a, g2, B, U) ==
  /\ Coded(R, prog', g2, B, R.to[Here + 1], U \ ({Top.exit} \cup gen.breaks))
  /\ Link(gen, a, g2, B) /\ SameLoop(Top.old, g2) /\ GenOK(g2)

-----------------------------------------------------------------------------
(* The end of a deferred block: the function around it goes on.            *)

DeferClosed(R, pr2, g, a, h, B) ==
  /\ Coded(R, pr2, h, B, Len(pr2), Unpatched(g.code[g.fn])) /\ Link(g, a, h, B) /\ SameLoop(g, h)

Resumes(h, old, g3) ==
  /\ GenOK(g3) /\ g3.fn = old.fn /\ g3.code = h.code
  /\ g3.loopStart = old.loopStart /\ g3.breaks = old.breaks /\ g3.depths = old.depths
  /\ g3.continueDest = h.continueDest /\ g3.continues = h.continues

-----------------------------------------------------------------------------
(* Each statement that is written keeps the annotations.                   *)

CodeWritten ==
  /\ \A R : Respects(R, prog) => Annotated(R, prog, blocks, ctl, gen)
  /\ mach = [fn |-> 0, pc |-> 1, stack |-> <<>>, defers |-> <<>>]

-----------------------------------------------------------------------------
(* Where control goes in a body that is complete.                          *)

GoesOn(R) ==
  /\ Respects(R, prog)
  /\ \A k \in 1 .. Len(prog) + 1 : R.to[k] = Settle[k] /\ R.to[k] \in 1 .. Len(prog) + 1

-----------------------------------------------------------------------------
(* The code of a body that is complete, with its annotations: no jump is   *)
(* left to be patched, and each function ends where its text does.         *)

FunctionsOf(pr) == {0} \cup {d \in 1 .. Len(pr) : pr[d].op = "defer"}

Finished(pr) == Append(pr, Token("end", None, {0}, 0))

Runs(R, pr, g, A) ==
  /\ GenOK(g)
  /\ \A f \in FunctionsOf(pr) :
       /\ Fits(R, Finished(pr), g.code[f], A[f]) /\ Unpatched(g.code[f]) = {}
       /\ A[f][1] = R.to[f + 1]
       /\ EndAt(g.code, A, f) = IF f = 0 THEN Len(pr) + 1 ELSE EndIn(pr, f)

CodeRun(R, A) == GoesOn(R) /\ Runs(R, prog, gen, A)

(* The machine is where the body is.                                       *)
InCode(A) ==
  /\ mach = [fn |-> mach.fn, pc |-> mach.pc, stack |-> mach.stack, defers |-> mach.defers]
  /\ mach.fn \in FunctionsOf(prog) /\ mach.pc \in 1 .. Len(gen.code[mach.fn]) + 1
  /\ A[mach.fn][mach.pc] = at /\ at \in 1 .. Len(prog) + 1
  /\ mach.defers = defers /\ Placed

-----------------------------------------------------------------------------
(* The machine runs the code in step with the body.                        *)

(* The instruction that comes next, or the end of the code.                *)
Fetched(R, A) ==
  LET c == gen.code[mach.fn]  a == A[mach.fn]
  IN  /\ mach.pc \in 1 .. Len(c) /\ mach.pc + 1 \in 1 .. Len(c) + 1 /\ Len(a) = Len(c) + 1
      /\ FlowOK(R, Finished(prog), Fetch, at, a[mach.pc + 1]) /\ JumpOK(R, Fetch, at, a)
      /\ Fetch.op \in {"JMP", "TEST"} => Fetch.arg # 0

(* The state of the machine, after a step inside of a function.            *)
IsMach(m, fn, pc, ds) ==
  /\ m = [fn |-> m.fn, pc |-> m.pc, stack |-> m.stack, defers |-> m.defers]
  /\ m.fn = fn /\ m.pc = pc /\ m.defers = ds

-----------------------------------------------------------------------------
CodeInv ==
  /\ phase = "writing" => CodeWritten
  /\ phase = "running" => \E R, A : CodeRun(R, A) /\ InCode(A)
=============================================================================
