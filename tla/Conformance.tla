---------------------------- MODULE Conformance ----------------------------
(***************************************************************************)
(* Both back ends on the same body: the bytecode compiler and the machine  *)
(* code generator emit each statement as it is chosen, and the bytecode    *)
(* machine and the machine code run in step with what the body means.      *)
(***************************************************************************)
EXTENDS BodyCode, BodyNative

vars == <<bodyVars, codeVars, nativeVars>>

ConformanceInit == Init /\ CodeInit /\ NativeInit

Statement(op) == Write(op) /\ Compile(op) /\ EmitSimple(op) /\ Emitting
Variable      == WriteVar /\ CompileVar /\ EmitVar /\ Emitting
Opening(op)   == WriteOpen(op) /\ CompileOpen(op) /\ EmitOpen(op) /\ Emitting
Branch(op)    == WriteNext(op) /\ CompileNext(op) /\ EmitNext /\ Emitting
Ending        == WriteEnd /\ CompileEnd /\ EmitEnd /\ Emitting
Complete      == Start /\ CompileFunction /\ EmitFunction /\ Emitting

Execute(b) == Do(b) /\ Step(b) /\ NativeStep(b)
Unseen     == Internal /\ UNCHANGED <<bodyVars, nativeVars>>

Next ==
  \/ \E op \in Simple : Statement(op)
  \/ Variable
  \/ \E op \in Openers : Opening(op)
  \/ \E op \in {"else", "case"} : Branch(op)
  \/ Ending \/ Complete
  \/ Unseen \/ \E b \in BOOLEAN : Execute(b)

Spec == ConformanceInit /\ [][Next]_vars
=============================================================================
