------------------------------- MODULE Imports -------------------------------
(***************************************************************************)
(* How a program's imports are checked and compiled: the type checker      *)
(* loads the files a file imports, each with a checker of its own, into    *)
(* one registry (pkg/typechecker/imports.go, pkg/packages/registry.go);    *)
(* when it has no error the compiler compiles the files again, each import *)
(* with a compiler of its own (pkg/compiler/compiler.go).  The compiler    *)
(* looks for no cycles: that it ever returns depends on the checker.       *)
(*                                                                         *)
(* A file stands for what one import path resolves to, a file or a         *)
(* directory.  What it says besides its imports is left open: it may have  *)
(* an error of its own.  A file that imports another one twice finds it    *)
(* loaded the second time and imports nothing, so the imports are a set.   *)
(***************************************************************************)
EXTENDS Integers, Sequences

CONSTANTS
  Files,     \* the files that can be imported
  Root,      \* the program
  Dir,       \* the directory of each file
  MaxDepth   \* bound: compilers nested in one another

ASSUME ConstantsAssumption ==
  /\ Root \in Files
  /\ Dir \in [Files -> Files]
  /\ MaxDepth \in Nat \ {0}

VARIABLES
  imports,    \* the files each file imports
  packages,   \* registry.packages
  resolved,   \* ResolvedImports of each package
  checkers,   \* the type checkers at work, innermost last
  erroneous,  \* the files in which an error was reported
  cyclic,     \* was an import cycle reported?
  compilers,  \* the compilers at work, innermost last
  phase       \* of the pipeline

vars == <<imports, packages, resolved, checkers, erroneous, cyclic, compilers, phase>>

Phases == {"check", "compile", "rejected", "compiled"}

(* A checker or a compiler of a file, and the imports it has still to do.  *)
Checker(f)  == [file |-> f, todo |-> imports[f]]
Compiler(f) == [file |-> f, todo |-> imports[f]]

Init ==
  /\ imports \in [Files -> SUBSET Files]
  /\ packages = {Root}
  /\ resolved = [f \in Files |-> {}]
  /\ checkers = <<Checker(Root)>>
  /\ erroneous = {}
  /\ cyclic = FALSE
  /\ compilers = <<>>
  /\ phase = "check"

Last(s)  == s[Len(s)]
Front(s) == SubSeq(s, 1, Len(s) - 1)

(* The same stack, without import f of its last element.                   *)
Done(s, f) == [s EXCEPT ![Len(s)].todo = @ \ {f}]

-----------------------------------------------------------------------------
(* CheckCyclicImport.                                                      *)

(* There is a path from x to y in the graph with edges E.                  *)
Path(x, y, E) ==
  \A S \in SUBSET Files :
    (x \in S /\ \A e \in E : e[1] \in S => e[2] \in S) => y \in S

(* Mutant of FindsCycle: a package counts as being loaded for ever.        *)
FindsLoaded(start, f) == Dir[f] # Dir[start] /\ f \in packages

(* Mutant of FindsCycle: only the imports of the imported file are seen.   *)
FindsShortCycle(start, f) ==
  Dir[f] # Dir[start] /\ f \in packages /\ start \in resolved[f]

(* The search from f finds start, or a cycle on the way.  It leaves out    *)
(* the files in the directory of start, and what only they import.         *)
FindsCycle(start, f) ==
  LET E == {e \in packages \X Files : e[2] \in resolved[e[1]] /\ Dir[e[2]] # Dir[start]}
      Visited == {x \in packages : Path(f, x, E)}
  IN /\ Dir[f] # Dir[start]
     /\ \/ \E x \in Visited : start \in resolved[x]
        \/ \E x \in Visited : \E y \in resolved[x] : <<x, y>> \in E /\ Path(y, x, E)

-----------------------------------------------------------------------------
(* The type checker.                                                       *)

Importer == Last(checkers).file

(* RecordResolvedImport comes before the search for cycles.                *)
Recorded(f) == [resolved EXCEPT ![Importer] = @ \cup {f}]

(* A package cannot import itself.                                         *)
SelfImport ==
  /\ phase = "check"
  /\ Importer \in Last(checkers).todo
  /\ erroneous' = erroneous \cup {Importer}
  /\ checkers' = Done(checkers, Importer)
  /\ UNCHANGED <<imports, packages, resolved, cyclic, compilers, phase>>

(* The import closes a cycle of packages that are loaded.                  *)
CyclicImport(f) ==
  /\ phase = "check"
  /\ f \in Last(checkers).todo \ {Importer}
  /\ FindsCycle(Importer, f)
  /\ resolved' = Recorded(f)
  /\ erroneous' = erroneous \cup {Importer}
  /\ cyclic' = TRUE
  /\ checkers' = Done(checkers, f)
  /\ UNCHANGED <<imports, packages, compilers, phase>>

(* The package is loaded: its symbols are bound to the alias.              *)
BindImport(f) ==
  /\ phase = "check"
  /\ f \in Last(checkers).todo \ {Importer}
  /\ ~FindsCycle(Importer, f)
  /\ f \in packages
  /\ resolved' = Recorded(f)
  /\ checkers' = Done(checkers, f)
  /\ UNCHANGED <<imports, packages, erroneous, cyclic, compilers, phase>>

(* The package is parsed, registered, and checked by a checker of its own. *)
LoadImport(f) ==
  /\ phase = "check"
  /\ f \in Last(checkers).todo \ {Importer}
  /\ ~FindsCycle(Importer, f)
  /\ f \notin packages
  /\ packages' = packages \cup {f}
  /\ resolved' = Recorded(f)
  /\ checkers' = Append(Done(checkers, f), Checker(f))
  /\ UNCHANGED <<imports, erroneous, cyclic, compilers, phase>>

(* The import does not resolve, or the file cannot be read or parsed.      *)
UnreadableImport(f) ==
  /\ phase = "check"
  /\ f \in Last(checkers).todo \ {Importer}
  /\ f \notin packages
  /\ resolved' \in {resolved, Recorded(f)}
  /\ erroneous' = erroneous \cup {Importer}
  /\ checkers' = Done(checkers, f)
  /\ UNCHANGED <<imports, packages, cyclic, compilers, phase>>

(* Mutant of CheckReturns: the importer does not take over the errors of   *)
(* the imported module.                                                    *)
CheckForgets(error) ==
  /\ phase = "check"
  /\ Last(checkers).todo = {}
  /\ checkers' = Front(checkers)
  /\ LET failed == error \/ Importer \in erroneous
     IN IF Len(checkers) > 1
          THEN /\ erroneous' = erroneous \cup (IF failed THEN {Importer} ELSE {})
               /\ UNCHANGED <<compilers, phase>>
          ELSE /\ erroneous' = erroneous
               /\ phase' = IF failed THEN "rejected" ELSE "compile"
               /\ compilers' = IF failed THEN <<>> ELSE <<Compiler(Root)>>
  /\ UNCHANGED <<imports, packages, resolved, cyclic>>

(* The imports of a file are done: its statements are checked, and the     *)
(* importing file takes over the errors.  A program without errors is      *)
(* compiled.                                                               *)
CheckReturns(error) ==
  /\ phase = "check"
  /\ Last(checkers).todo = {}
  /\ checkers' = Front(checkers)
  /\ LET failed == error \/ Importer \in erroneous
     IN IF Len(checkers) > 1
          THEN /\ erroneous' = erroneous \cup
                    (IF failed THEN {Importer, checkers[Len(checkers) - 1].file} ELSE {})
               /\ UNCHANGED <<compilers, phase>>
          ELSE /\ erroneous' = erroneous \cup (IF failed THEN {Importer} ELSE {})
               /\ phase' = IF failed THEN "rejected" ELSE "compile"
               /\ compilers' = IF failed THEN <<>> ELSE <<Compiler(Root)>>
  /\ UNCHANGED <<imports, packages, resolved, cyclic>>

-----------------------------------------------------------------------------
(* The compiler: processImport.                                            *)

(* The file is compiled, whoever else has compiled it or is about to: the  *)
(* modules a compiler has loaded are known to that compiler only.          *)
CompileImport(f) ==
  /\ phase = "compile"
  /\ Len(compilers) < MaxDepth
  /\ f \in Last(compilers).todo
  /\ compilers' = Append(Done(compilers, f), Compiler(f))
  /\ UNCHANGED <<imports, packages, resolved, checkers, erroneous, cyclic, phase>>

(* An import does not resolve, cannot be parsed or does not compile: every *)
(* compiler hands the error to its importer.                               *)
CompileFails ==
  /\ phase = "compile"
  /\ Len(compilers) < MaxDepth
  /\ compilers' = <<>>
  /\ phase' = "rejected"
  /\ UNCHANGED <<imports, packages, resolved, checkers, erroneous, cyclic>>

(* The module is handed to the importing compiler, or to the pipeline.     *)
CompileReturns ==
  /\ phase = "compile"
  /\ Last(compilers).todo = {}
  /\ compilers' = Front(compilers)
  /\ phase' = IF Len(compilers) = 1 THEN "compiled" ELSE phase
  /\ UNCHANGED <<imports, packages, resolved, checkers, erroneous, cyclic>>

-----------------------------------------------------------------------------
Next ==
  \/ SelfImport
  \/ \E f \in Files : \/ CyclicImport(f) \/ BindImport(f)
                      \/ LoadImport(f) \/ UnreadableImport(f)
  \/ \E error \in BOOLEAN : CheckReturns(error)
  \/ \E f \in Files : CompileImport(f)
  \/ CompileFails \/ CompileReturns

Spec == Init /\ [][Next]_vars

(* The pipeline is a sequential program: it goes on while it can.          *)
FairSpec == Spec /\ WF_vars(Next)

-----------------------------------------------------------------------------
(* Properties.                                                             *)

Work == [file : Files, todo : SUBSET Files]

(* Every variable has its type, and one of the two stacks is in use.       *)
TypeOK ==
  /\ imports \in [Files -> SUBSET Files]
  /\ packages \in SUBSET Files /\ erroneous \in SUBSET Files
  /\ resolved \in [Files -> SUBSET Files]
  /\ checkers \in Seq(Work) /\ compilers \in Seq(Work)
  /\ cyclic \in BOOLEAN
  /\ phase \in Phases
  /\ checkers # <<>> <=> phase = "check"
  /\ compilers # <<>> <=> phase = "compile"

Distinct(stack) ==
  \A i, j \in 1..Len(stack) : stack[i].file = stack[j].file => i = j

(* No file is checked inside its own check: a package is in the registry   *)
(* before its imports are looked at (imports.go:83).                       *)
CheckedOnce == Distinct(checkers)

(* No file is compiled inside its own compilation.  processImport has no   *)
(* check of its own and would recurse for ever (compiler.go:889); the      *)
(* checker has to reject every program whose imports form a cycle.         *)
NoReentry == Distinct(compilers)

(* From compiler i to compiler j there are two files of one directory.     *)
RepeatsDirectory(i, j) ==
  \E k, l \in i..j : /\ compilers[k].file # compilers[l].file
                     /\ Dir[compilers[k].file] = Dir[compilers[l].file]

(* What the exemption of imports in the importer's directory leaves of     *)
(* that (registry.go:531): a file is compiled inside its own compilation   *)
(* only by way of two files of one directory.  The cycle need not stay in  *)
(* that directory.                                                         *)
ReentryRepeatsDirectory ==
  \A i, j \in 1..Len(compilers) :
    i < j /\ compilers[i].file = compilers[j].file => RepeatsDirectory(i, j)

(* Only a file that was loaded and checked without an error is compiled.   *)
(* The error of a module imported through others reaches the program       *)
(* (emitImportedModuleErrors), whichever importer the module was checked   *)
(* for.                                                                    *)
CompilesOnlyChecked ==
  \A i \in 1..Len(compilers) : compilers[i].file \in packages \ erroneous

(* A cycle is reported only when there is one: a package that is imported  *)
(* along two ways is no cycle, although it is met while it is loaded, or   *)
(* after, with its imports recorded in part (checkCyclicImport).           *)
AcyclicAccepted ==
  cyclic => LET E == {e \in Files \X Files : e[2] \in imports[e[1]]}
            IN \E e \in E : Path(e[2], e[1], E)

(* The pipeline ends, with an error or with a compiled program, unless it  *)
(* has come to compile a file inside its own compilation along such a way. *)
PipelineEnds ==
  <>(\/ phase \in {"rejected", "compiled"}
     \/ \E i, j \in 1..Len(compilers) :
          /\ i < j /\ compilers[i].file = compilers[j].file
          /\ RepeatsDirectory(i, j))

=============================================================================
