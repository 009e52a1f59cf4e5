------------------------------ MODULE MCImports ------------------------------
(* A small instance of Imports for TLC. *)
EXTENDS Imports, FiniteSets

CONSTANT MaxImports   \* bound: imports in all the files

(* One file is in the directory of the program, the others are each in a   *)
(* directory of their own: cycles through one, two and three directories,  *)
(* and cycles that leave the program's directory and come back to it.      *)
Neighbour == CHOOSE f \in Files : f # Root
Shared    == [f \in Files |-> IF f = Neighbour THEN Root ELSE f]

(* All graphs of at most MaxImports imports, in which only the program may *)
(* import itself.                                                          *)
MCInit ==
  /\ Init
  /\ \A f \in Files \ {Root} : f \notin imports[f]
  /\ Cardinality({e \in Files \X Files : e[2] \in imports[e[1]]}) <= MaxImports

MCSpec == MCInit /\ [][Next]_vars /\ WF_vars(Next)
=============================================================================
