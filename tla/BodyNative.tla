----------------------------- MODULE BodyNative -----------------------------
(***************************************************************************)
(* The machine code of a body (pkg/backend/native).  Its jumps follow the  *)
(* blocks of the text, so only two things are kept of it: which slot a     *)
(* name is, for every statement emitted, and which deferred blocks are     *)
(* emitted, inline, wherever the function is left.                         *)
(***************************************************************************)
EXTENDS Bodies

VARIABLES
  nat,   \* the code generator and what it emitted
  mem    \* the slots when the body runs; a slot is named for its declaration

nativeVars == <<nat, mem>>

(* scopes: the declarations of x in each open scope, in the order of the   *)
(* text.  The function's body shares the scope of its parameters.  dead:   *)
(* the open block of which nothing more is emitted, or 0.                  *)
NativeInit ==
  /\ nat = [scopes |-> <<IF blocks[1].decl = None THEN <<>> ELSE <<0>>>>,
            deferStack |-> <<>>, dead |-> 0, built |-> TRUE,
            slot |-> [k \in Places |-> None],
            inlined |-> [k \in 1 .. MaxLen + 1 |-> <<>>]]
  /\ mem = [d \in {None} \cup Places |-> IF d = 0 THEN 0 ELSE None]

Dead == nat.dead # 0

-----------------------------------------------------------------------------
(* Scopes.                                                                 *)

EnterScope(ss)    == Append(ss, <<>>)
LeaveScope(ss)    == Front(ss)
DeclareLocal(ss)  == [ss EXCEPT ![Len(ss)] = Append(@, Here)]

(* resolveLocal: the innermost scope that has the name; its first entry.   *)
ResolveLocal ==
  LET having == {n \in DOMAIN nat.scopes : nat.scopes[n] # <<>>}
  IN  IF having = {} THEN None ELSE Head(nat.scopes[Highest(having)])

(* Mutant of RemoveLoopVariable: the first entry goes.                     *)
RemoveFirstEntry(ss) == [ss EXCEPT ![Len(ss)] = Tail(@)]

(* The end of emitForIterable: the last entry of the name goes.            *)
RemoveLoopVariable(ss) == [ss EXCEPT ![Len(ss)] = Front(@)]

-----------------------------------------------------------------------------
(* Statements.  After one that leaves its block, the rest is not emitted.  *)

(* Mutant of DeferredBodies: in the order of the text.                     *)
InTextOrder == nat.deferStack

(* emitDeferredBodies: all those seen so far, wherever they stand.         *)
DeferredBodies == Reverse(nat.deferStack)

Terminators == {"return", "break", "continue", "panic"}

(* A return emits the deferred blocks, and one that stands in a deferred   *)
(* block does so without end.                                              *)
EmitSimple(op) ==
  nat' = IF Dead THEN nat
         ELSE [nat EXCEPT !.slot[Here] = IF op \in {"use", "set"} THEN ResolveLocal ELSE @,
                          !.inlined[Here] = IF op = "return" THEN DeferredBodies ELSE @,
                          !.built = @ /\ ~(op = "return" /\ InDefer),
                          !.dead = IF op \in Terminators THEN Len(blocks) ELSE @]

EmitVar == nat' = IF Dead THEN nat ELSE [nat EXCEPT !.scopes = DeclareLocal(@)]

(* A loop's variable is declared around the loop; the body of a loop over  *)
(* a vector has no scope of its own.  The names of a deferred block are    *)
(* its own, the same wherever it is emitted.                               *)
EmitOpen(op) ==
  nat' = IF Dead THEN nat
         ELSE [nat EXCEPT
                 !.scopes = CASE op = "for"      -> DeclareLocal(@)
                              [] op = "forRange" -> EnterScope(DeclareLocal(@))
                              [] OTHER           -> EnterScope(@),
                 !.deferStack = IF op = "defer" THEN Append(@, Here) ELSE @]

(* The block that ends was emitted, if only up to a terminator.            *)
Emitted == nat.dead \in {0, Len(blocks)}

EmitNext ==
  nat' = IF ~Emitted THEN nat
         ELSE [nat EXCEPT !.scopes = EnterScope(LeaveScope(@)), !.dead = 0]

EmitEnd ==
  nat' = IF ~Emitted THEN nat
         ELSE [nat EXCEPT !.dead = 0,
                          !.scopes = IF Inner.op = "for" THEN RemoveLoopVariable(@)
                                     ELSE LeaveScope(@)]

EmitFunction == nat' = [nat EXCEPT !.inlined[Here] = DeferredBodies]

Emitting == UNCHANGED mem

(* What the step of the body writes.  A range loop sets its variable       *)
(* before it tests it.                                                     *)
NativeStep(b) ==
  /\ mem' = CASE Op = "var" \/ Op = "forRange" \/ (Op = "for" /\ b) -> [mem EXCEPT ![at] = at]
              [] Op = "set" -> [mem EXCEPT ![nat.slot[at]] = at]
              [] OTHER -> mem
  /\ UNCHANGED nat

-----------------------------------------------------------------------------
(* Properties.                                                             *)

(* The blocks that open the native scope of a declaration: all around it   *)
(* but the bodies of loops over vectors.                                   *)
NativeScope(d) ==
  IF d = 0 THEN {0} ELSE {p \in prog[d].path : IF p = 0 THEN TRUE ELSE prog[p].op # "for"}

(* The other declarations of x that a use at k could be taken for.         *)
Declarations == ({blocks[1].decl} \ {None})
                \cup {d \in DOMAIN prog : prog[d].op \in {"var", "for", "forRange"}}
Over(d, k)   == IF d = 0 THEN FALSE ELSE prog[d].op = "for" /\ d \notin prog[k].path
Rivals(k) ==
  {d \in Declarations \ {prog[k].decl} :
     /\ d < k
     /\ NativeScope(prog[k].decl) \subseteq NativeScope(d)
     /\ NativeScope(d) \subseteq prog[k].path
     /\ ~Over(d, k)}

Running == phase = "running" /\ nat.built

Accesses(d) == {k \in DOMAIN prog : prog[k].op \in {"use", "set"} /\ prog[k].decl = d}

(* Machine code reads the value that the text means, unless one of the     *)
(* accesses to that x can be taken for another declaration, in the scopes  *)
(* that the generator knows.                                               *)
NativeNames ==
  Running /\ Op = "use" =>
    \/ \E k \in Accesses(prog[at].decl) : Rivals(k) # {}
    \/ mem[nat.slot[at]] = vals[prog[at].decl]

Conditional == {n \in DOMAIN prog : prog[n].op \in Tests \cup {"else"}}
InFunction  == IF at > Len(prog) THEN TRUE
               ELSE \A p \in prog[at].path \ {0} : prog[p].op # "defer"

(* Machine code that leaves the function runs the deferred blocks that are *)
(* due, the last first: unless it panics, or one of them stands in a       *)
(* branch or a loop.                                                       *)
NativeDefers ==
  Running /\ Op \in {"return", "end"} /\ InFunction =>
    \/ \E n \in DOMAIN prog : prog[n].op = "defer" /\ prog[n].path \cap Conditional # {}
    \/ nat.inlined[at] = defers
=============================================================================
