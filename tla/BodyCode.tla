------------------------------ MODULE BodyCode ------------------------------
(***************************************************************************)
(* The bytecode of a body (pkg/compiler): emitted statement by statement,  *)
(* with the locals and scopes the compiler keeps, the jumps that are       *)
(* patched when their target is known and the state of the loops saved     *)
(* around each other; then run by a machine in step with the body itself.  *)
(* An instruction stands for the few that do one thing.                    *)
(***************************************************************************)
EXTENDS Bodies

VARIABLES
  gen,   \* the compiler
  ctl,   \* what its calls on the open blocks hold in their variables
  mach   \* the machine

codeVars == <<gen, ctl, mach>>

(* of: the statement the instruction does, or 0 if it does nothing one can *)
(* see.  Positions count from 1; the target of an unpatched jump is 0.     *)
Instr(op, arg, of) == [op |-> op, arg |-> arg, of |-> of]

(* loopStart counts from 0, as in the code.                                *)
GenInit(param) ==
  [fn |-> 0, code |-> [f \in Places |-> <<>>], depth |-> 1,
   locals |-> IF param = None THEN <<>> ELSE <<[depth |-> 0, decl |-> param]>>,
   loopStart |-> 0, continueDest |-> 0, continues |-> {}, breaks |-> {}, depths |-> <<>>]

NoCtl == [exit |-> 0, ends |-> {}, old |-> <<>>]

CodeInit ==
  /\ gen = GenInit(blocks[1].decl)
  /\ ctl = <<>>
  /\ mach = [fn |-> 0, pc |-> 1, stack |-> <<>>, defers |-> <<>>]

-----------------------------------------------------------------------------
(* The compiler's helpers, from one state of it to the next.               *)

Size(g) == Len(g.code[g.fn])
Emit(g, op, arg, of) == [g EXCEPT !.code[g.fn] = Append(@, Instr(op, arg, of))]

(* patchJump, for each of a set of jumps.                                  *)
Patch(g, jumps) ==
  LET c == g.code[g.fn]
  IN  [g EXCEPT !.code[g.fn] =
        [n \in DOMAIN c |-> IF n \in jumps THEN [c[n] EXCEPT !.arg = Len(c) + 1] ELSE c[n]]]

Pops(g, n) == [g EXCEPT !.code[g.fn] = @ \o [i \in 1 .. n |-> Instr("POP", 0, 0)]]
BeginScope(g) == [g EXCEPT !.depth = @ + 1]
AddLocal(g, decl) == [g EXCEPT !.locals = Append(@, [depth |-> g.depth, decl |-> decl])]
Below(g, depth) == Cardinality({i \in DOMAIN g.locals : g.locals[i].depth > depth})

EndScope(g) ==
  LET n == Below(g, g.depth - 1)
  IN  [Pops(g, n) EXCEPT !.depth = @ - 1, !.locals = SubSeq(@, 1, Len(@) - n)]

(* resolveLocal: the last one of the name.                                 *)
Slot(g) == Highest({i \in DOMAIN g.locals : g.locals[i].decl # None})

(* Mutant of Cleanup: the locals of the loop itself go too.                *)
CleanupLoop(g) == IF g.depths = <<>> THEN g ELSE Pops(g, Below(g, Last(g.depths) - 1))

(* emitLoopCleanup: the locals declared inside the loop are popped.        *)
Cleanup(g) == IF g.depths = <<>> THEN g ELSE Pops(g, Below(g, Last(g.depths)))

JumpAt(g) == Size(g) + 1
Jump(g, target) == Emit(g, "JMP", target, 0)

-----------------------------------------------------------------------------
(* Statements.                                                             *)

GenCall     == Pops(Emit(gen, "CALL", 0, Here), 1)
GenUse      == Pops(Emit(gen, "GET", Slot(gen), Here), 1)
GenVar      == AddLocal(Emit(gen, "CONST", Here, Here), Here)
GenSet      == Emit(Emit(gen, "CONST", Here, Here), "SET", Slot(gen), 0)
GenReturn   == Emit(gen, "RETURN", 0, Here)
GenPanic    == Emit(gen, "PANIC", 0, Here)
GenBreak    == LET g == Cleanup(gen)
               IN  [Jump(g, 0) EXCEPT !.breaks = @ \cup {JumpAt(g)}]
GenContinue ==
  LET g == Cleanup(gen)
  IN  IF g.continueDest # -1 THEN Jump(g, g.continueDest + 1)
      ELSE [Jump(g, 0) EXCEPT !.continues = @ \cup {JumpAt(g)}]

(* compileBreak: "break outside of loop".                                  *)
Refused(op) == op = "break" /\ gen.loopStart = 0 /\ gen.breaks = {}

Compile(op) ==
  /\ IF Refused(op) THEN phase' = "refused" /\ UNCHANGED gen
     ELSE /\ gen' = CASE op = "call"     -> GenCall
                      [] op = "use"      -> GenUse
                      [] op = "set"      -> GenSet
                      [] op = "return"   -> GenReturn
                      [] op = "panic"    -> GenPanic
                      [] op = "break"    -> GenBreak
                      [] op = "continue" -> GenContinue
          /\ UNCHANGED phase
  /\ UNCHANGED <<ctl, mach>>

CompileVar ==
  /\ gen' = GenVar
  /\ UNCHANGED <<ctl, mach>>

-----------------------------------------------------------------------------
(* Blocks, and the statements made of them.                                *)

(* A test, and the scope of what it guards.                                *)
Guarded(g) == BeginScope(Emit(g, "TEST", 0, Here))
Opened(g, old) == gen' = g /\ ctl' = Append(ctl, [NoCtl EXCEPT !.exit = Size(g), !.old = old])

OpenIf     == Opened(Guarded(gen), gen)
OpenBlock  == Opened(BeginScope(gen), gen)

OpenWhile ==
  LET g == [gen EXCEPT !.loopStart = Size(gen), !.continueDest = Size(gen),
                       !.breaks = {}, !.depths = Append(@, gen.depth)]
  IN  Opened(Guarded(g), gen)

(* The loop variable, the index and the length are locals of the loop.     *)
OpenFor ==
  LET s == BeginScope(gen)
      l == AddLocal(AddLocal(AddLocal(s, Here), None), None)
      i == Emit(Emit(Emit(l, "CONST", 0, 0), "CONST", 0, 0), "CONST", 0, 0)
      g == [i EXCEPT !.loopStart = Size(i), !.continueDest = -1, !.continues = {},
                     !.breaks = {}, !.depths = Append(@, i.depth)]
      t == Emit(g, "TEST", 0, Here)
      x == Emit(Emit(t, "CONST", Here, 0), "SET", Slot(t), 0)
  IN  /\ gen' = BeginScope(x)
      /\ ctl' = Append(ctl, [NoCtl EXCEPT !.exit = Size(t), !.old = gen])

(* The value that is switched on is a local.                               *)
OpenSwitch ==
  Opened(Guarded(AddLocal(BeginScope(Emit(gen, "CONST", 0, 0)), None)), gen)

(* compileFunctionLiteral: the compiler starts over in a new function, but *)
(* keeps loopContinueDest and loopContinues.                               *)
OpenDefer ==
  Opened(BeginScope([gen EXCEPT !.fn = Here, !.locals = <<>>, !.depth = 0,
                                !.loopStart = -1, !.breaks = {}, !.depths = <<>>]), gen)

CompileOpen(op) ==
  /\ CASE op = "if"                  -> OpenIf
       [] op = "block"               -> OpenBlock
       [] op = "while"               -> OpenWhile
       [] op \in {"for", "forRange"} -> OpenFor
       [] op = "switch"              -> OpenSwitch
       [] op = "defer"               -> OpenDefer
  /\ UNCHANGED mach

Top == Last(ctl)

(* The branch is over: it jumps to the end, and the next one starts here.  *)
BranchOver ==
  LET g == EndScope(gen)
  IN  Patch(Jump(g, 0), {Top.exit})
BranchJump == JumpAt(EndScope(gen))

CompileNext(op) ==
  /\ LET g == IF op = "else" THEN BeginScope(BranchOver) ELSE Guarded(BranchOver)
     IN  /\ gen' = g
         /\ ctl' = Append(Front(ctl), [Top EXCEPT !.exit = Size(g), !.ends = @ \cup {BranchJump}])
  /\ UNCHANGED mach

(* Mutant of Restored: the breaks of the inner loop stay.                  *)
RestoredStart(g, old) ==
  [g EXCEPT !.loopStart = old.loopStart, !.continueDest = old.continueDest,
            !.continues = old.continues, !.depths = old.depths]

(* The state of the loop around this one.                                  *)
Restored(g, old) ==
  [g EXCEPT !.loopStart = old.loopStart, !.continueDest = old.continueDest,
            !.continues = old.continues, !.breaks = old.breaks, !.depths = old.depths]

LoopOver(g) ==
  Restored(Patch(Jump(g, gen.loopStart + 1), {Top.exit} \cup gen.breaks), Top.old)

EndWhile  == LoopOver(EndScope(gen))
EndFor    == EndScope(LoopOver(Patch(EndScope(gen), gen.continues)))
EndIf     == Patch(BranchOver, Top.ends \cup {BranchJump})
EndElse   == Patch(EndScope(gen), Top.ends)
EndSwitch == EndScope(EndIf)

(* A function ends with a return, unless its last instruction is one.      *)
Ended(g, of) ==
  LET c == g.code[g.fn]
  IN  IF c # <<>> /\ Last(c).op = "RETURN" THEN g ELSE Emit(g, "RETURN", 0, of)

EndDefer ==
  LET g == Ended(EndScope(gen), Here)
  IN  Emit([g EXCEPT !.fn = Top.old.fn, !.locals = Top.old.locals, !.depth = Top.old.depth,
                     !.loopStart = Top.old.loopStart, !.breaks = Top.old.breaks,
                     !.depths = Top.old.depths],
           "DEFER", Inner.place, Inner.place)

CompileEnd ==
  /\ gen' = CASE Inner.op = "while"               -> EndWhile
              [] Inner.op \in {"for", "forRange"} -> EndFor
              [] Inner.op = "if"                  -> EndIf
              [] Inner.op = "else"                -> EndElse
              [] Inner.op \in {"switch", "case"}  -> EndSwitch
              [] Inner.op = "defer"               -> EndDefer
              [] Inner.op = "block"               -> EndScope(gen)
  /\ ctl' = Front(ctl)
  /\ UNCHANGED mach

(* The body is complete; the machine starts with the argument.             *)
CompileFunction ==
  /\ gen' = Ended(EndScope(gen), Here)
  /\ mach' = [mach EXCEPT !.stack = IF blocks[1].decl = None THEN <<>> ELSE <<0>>]
  /\ UNCHANGED ctl

-----------------------------------------------------------------------------
(* The machine.                                                            *)

Code == gen.code[mach.fn]
CodeEnded == mach.pc \notin DOMAIN Code   \* the end of the code returns as well

(* What the machine does next, as a place of the text; 0 if nothing that   *)
(* one can see.                                                            *)
Observed ==
  IF CodeEnded THEN IF mach.fn = 0 THEN Len(prog) + 1 ELSE EndOf(mach.fn)
  ELSE Code[mach.pc].of

Fetch == Code[mach.pc]
Push(v) == [mach EXCEPT !.stack = Append(@, v), !.pc = @ + 1]

(* POP, SET_LOCAL, JMP and the constants of the compiler.                  *)
Internal ==
  /\ phase = "running" /\ Observed = 0
  /\ mach' = CASE Fetch.op = "CONST" -> Push(Fetch.arg)
               [] Fetch.op = "POP"   -> [mach EXCEPT !.stack = Front(@), !.pc = @ + 1]
               [] Fetch.op = "JMP"   -> [mach EXCEPT !.pc = Fetch.arg]
               [] Fetch.op = "SET"   ->
                    [mach EXCEPT !.stack = Front([mach.stack EXCEPT ![Fetch.arg] = Last(mach.stack)]),
                                 !.pc = @ + 1]
  /\ UNCHANGED <<gen, ctl>>

Leave ==
  IF mach.defers = <<>> THEN mach
  ELSE [fn |-> Head(mach.defers), pc |-> 1, stack |-> <<>>, defers |-> Tail(mach.defers)]

Seen(b) ==
  IF CodeEnded THEN Leave
  ELSE CASE Fetch.op = "GET"              -> Push(mach.stack[Fetch.arg])
         [] Fetch.op \in {"CALL", "CONST"} -> Push(Fetch.arg)
         [] Fetch.op = "TEST"             -> [mach EXCEPT !.pc = IF b THEN @ + 1 ELSE Fetch.arg]
         [] Fetch.op = "DEFER"            -> [mach EXCEPT !.defers = <<Fetch.arg>> \o @, !.pc = @ + 1]
         [] Fetch.op \in {"RETURN", "PANIC"} -> Leave

(* The machine takes the step that the body takes.                         *)
Step(b) ==
  /\ Observed = at
  /\ mach' = Seen(b)
  /\ UNCHANGED <<gen, ctl>>

-----------------------------------------------------------------------------
(* Properties.                                                             *)

(* Whatever the machine does that one can see is what the body does then:  *)
(* every jump was patched, and lands where the text goes on.               *)
InStep == phase = "running" /\ Observed # 0 => Observed = at

Hidden == -2
Around == IF at > Len(prog) THEN {} ELSE prog[at].path \cup {at}
Switched == {prog[p].head : p \in {q \in Around \ {0} : prog[q].op = "case"}} \cup Around

(* The locals that the text has in scope at `at`, with their values.       *)
LocalsOf(j) ==
  CASE prog[j].op = "var" /\ j < at /\ prog[j].path \subseteq Around -> <<vals[j]>>
    [] prog[j].op \in {"for", "forRange"} /\ j \in Around ->
         <<IF j = at THEN Hidden ELSE vals[j], Hidden, Hidden>>
    [] prog[j].op = "switch" /\ j \in Switched -> <<Hidden>>
    [] OTHER -> <<>>

Layout ==
  LET params == IF mach.fn = 0 /\ blocks[1].decl # None THEN <<vals[0]>> ELSE <<>>
  IN  IF Op = "end" THEN params
      ELSE params \o FlattenSeq([i \in 1 .. at - mach.fn |-> LocalsOf(mach.fn + i)])

(* The stack holds the locals in scope and nothing else, each with its     *)
(* value, whichever way the machine came: after breaks and continues out   *)
(* of scopes, in cases, in loops and in deferred blocks.                   *)
StackIsLocals ==
  phase = "running" /\ Observed # 0 =>
    LET want == Layout
    IN  /\ Len(mach.stack) = Len(want)
        /\ \A i \in DOMAIN want : want[i] \in {Hidden, mach.stack[i]}

(* A break inside a loop compiles.                                         *)
BreakAccepted == phase # "refused"
=============================================================================
