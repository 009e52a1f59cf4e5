--------------------------- MODULE ImportsProofs ---------------------------
(***************************************************************************)
(* Proofs about Imports, for any files, any import graph and any bound on  *)
(* the depth of the compilers.                                             *)
(***************************************************************************)
EXTENDS Imports, SequenceTheorems, TLAPS

(* A set of files that contains what its files have recorded as imports;   *)
(* one file leads to another when no such set separates them.              *)
Closed(S, R)   == \A x \in S : R[x] \subseteq S
Leads(x, y, R) == \A S \in SUBSET Files : x \in S /\ Closed(S, R) => y \in S
Acyclic(R)     == \A x \in Files : \A y \in R[x] : ~Leads(y, x, R)

(* The recorded imports between files of S.                                *)
Within(S, R) == [x \in Files |-> IF x \in S THEN R[x] \cap S ELSE {}]

(* Files of the same directory escape the search for cycles: what it finds *)
(* are the cycles among files of which no two share one.                   *)
Apart(S) == \A f, g \in S : Dir[f] = Dir[g] => f = g

-----------------------------------------------------------------------------
(* The inductive invariant.                                                *)

(* A checker is at work on a loaded package and on imports it really has.  *)
WorkOK ==
  /\ \A i \in 1 .. Len(checkers) :
       /\ checkers[i].file \in packages
       /\ checkers[i].todo \subseteq imports[checkers[i].file]
  /\ \A f \in Files : resolved[f] \subseteq imports[f]
  /\ \A f \in Files \ packages : resolved[f] = {}
  /\ Root \in packages

(* An error anywhere is also an error of a file whose check goes on.       *)
ErrorsSurface ==
  /\ phase = "check" /\ erroneous # {} =>
       \E i \in 1 .. Len(checkers) : checkers[i].file \in erroneous
  /\ phase = "compile" => erroneous = {}

(* Without an error so far, an import of a loaded package is recorded or   *)
(* still to do, and what is recorded is loaded.                            *)
ImportsFollowed ==
  erroneous = {} =>
    /\ \A f \in packages : \A g \in imports[f] :
         \/ g \in resolved[f]
         \/ \E i \in 1 .. Len(checkers) : checkers[i].file = f /\ g \in checkers[i].todo
    /\ \A f \in Files : resolved[f] \subseteq packages

(* Without an error so far, the recorded imports form no cycle among files *)
(* of different directories.                                               *)
NoCycleRecorded ==
  erroneous = {} => \A S \in SUBSET Files : Apart(S) => Acyclic(Within(S, resolved))

(* Each compiler follows recorded imports down from those below it, by way *)
(* of the compilers between them.                                          *)
CompilersOK ==
  /\ \A i \in 1 .. Len(compilers) :
       /\ compilers[i].file \in packages
       /\ compilers[i].todo \subseteq resolved[compilers[i].file]
  /\ \A S \in SUBSET Files : \A i, j \in 1 .. Len(compilers) :
       i <= j /\ (\A k \in i .. j : compilers[k].file \in S)
         => Leads(compilers[i].file, compilers[j].file, Within(S, resolved))

IInv ==
  /\ TypeOK /\ WorkOK /\ CheckedOnce /\ ErrorsSurface /\ ImportsFollowed
  /\ NoCycleRecorded /\ CompilersOK
  /\ ReentryRepeatsDirectory
  /\ AcyclicAccepted

-----------------------------------------------------------------------------
(* Stacks.                                                                 *)

LEMMA WorkType ==
  ASSUME TypeOK, NEW f \in Files
  PROVE  Checker(f) \in Work /\ Compiler(f) \in Work
BY DEF TypeOK, Checker, Compiler, Work

LEMMA TopStack ==
  ASSUME NEW s \in Seq(Work), s # <<>>
  PROVE  /\ Len(s) \in Nat \ {0} /\ Len(s) \in 1 .. Len(s)
         /\ Last(s) = s[Len(s)]
         /\ \A i \in 1 .. Len(s) : s[i].file \in Files /\ s[i].todo \subseteq Files
<1>1. Len(s) \in Nat \ {0}
  OBVIOUS
<1>2. \A i \in 1 .. Len(s) : s[i] \in Work
  OBVIOUS
<1>3. \A i \in 1 .. Len(s) : s[i].file \in Files /\ s[i].todo \subseteq Files
  BY <1>2 DEF Work
<1> QED  BY <1>1, <1>3 DEF Last

LEMMA DoneStack ==
  ASSUME NEW s \in Seq(Work), s # <<>>, NEW f
  PROVE  /\ Done(s, f) \in Seq(Work) /\ Len(Done(s, f)) = Len(s) /\ Done(s, f) # <<>>
         /\ \A i \in 1 .. Len(s) :
              /\ Done(s, f)[i].file = s[i].file
              /\ Done(s, f)[i].todo = IF i = Len(s) THEN s[i].todo \ {f} ELSE s[i].todo
<1> DEFINE n == Len(s)
           w == [s[n] EXCEPT !.todo = @ \ {f}]
<1>1. n \in Nat \ {0} /\ n \in 1 .. n /\ s[n] \in Work
  OBVIOUS
<1>2. w \in Work /\ w.file = s[n].file /\ w.todo = s[n].todo \ {f}
  BY <1>1 DEF Work
<1>3. Done(s, f) = [s EXCEPT ![n] = w]
  BY DEF Done
<1> HIDE DEF w
<1>4. /\ Done(s, f) \in Seq(Work)
      /\ Len(Done(s, f)) = n
      /\ \A i \in 1 .. n : Done(s, f)[i] = IF i = n THEN w ELSE s[i]
  BY <1>1, <1>2, <1>3, ExceptSeq
<1>5. Done(s, f) # <<>>
  BY <1>1, <1>4
<1> QED  BY <1>2, <1>4, <1>5

LEMMA PushStack ==
  ASSUME NEW s \in Seq(Work), NEW w \in Work
  PROVE  /\ Append(s, w) \in Seq(Work) /\ Append(s, w) # <<>>
         /\ Len(Append(s, w)) = Len(s) + 1 /\ Len(s) \in Nat
         /\ \A i \in 1 .. Len(s) : Append(s, w)[i] = s[i]
         /\ Append(s, w)[Len(s) + 1] = w
BY AppendProperties

LEMMA Prefix ==
  ASSUME NEW s \in Seq(Work), NEW n \in Nat, n <= Len(s)
  PROVE  /\ SubSeq(s, 1, n) \in Seq(Work) /\ Len(SubSeq(s, 1, n)) = n
         /\ \A i \in 1 .. n : SubSeq(s, 1, n)[i] = s[i]
BY SubSeqProperties

LEMMA FrontStack ==
  ASSUME NEW s \in Seq(Work), s # <<>>
  PROVE  /\ Front(s) \in Seq(Work) /\ Len(Front(s)) = Len(s) - 1
         /\ \A i \in 1 .. Len(s) - 1 : Front(s)[i] = s[i]
         /\ Front(s) = <<>> <=> Len(s) = 1
<1>1. Len(s) \in Nat \ {0}
  OBVIOUS
<1>2. Len(s) - 1 \in Nat /\ Len(s) - 1 <= Len(s)
  BY <1>1
<1>3. /\ Front(s) \in Seq(Work) /\ Len(Front(s)) = Len(s) - 1
      /\ \A i \in 1 .. Len(s) - 1 : Front(s)[i] = s[i]
  BY <1>2, Prefix DEF Front
<1>4. CASE Len(s) = 1
  <2>1. Len(Front(s)) = 0
    BY <1>3, <1>4
  <2> QED  BY <1>3, <1>4, <2>1, EmptySeq
<1>5. CASE Len(s) # 1
  <2>1. Len(Front(s)) # 0
    BY <1>1, <1>3, <1>5
  <2>2. Front(s) # <<>>
    BY <2>1
  <2> QED  BY <1>3, <1>5, <2>2
<1> QED  BY <1>3, <1>4, <1>5

(* A stack of one.                                                         *)
LEMMA OneStack ==
  ASSUME NEW w \in Work
  PROVE  <<w>> \in Seq(Work) /\ Len(<<w>>) = 1 /\ <<w>>[1] = w /\ <<w>> # <<>>
OBVIOUS
-----------------------------------------------------------------------------
(* Types.                                                                  *)

LEMMA TypeInit == Init => TypeOK
<1>1. SUFFICES ASSUME Init  PROVE TypeOK
  OBVIOUS
<1>2. /\ imports \in [Files -> SUBSET Files] /\ packages \in SUBSET Files
      /\ erroneous \in SUBSET Files /\ resolved \in [Files -> SUBSET Files]
      /\ cyclic \in BOOLEAN /\ phase \in Phases
  BY <1>1, ConstantsAssumption DEF Init, Phases
<1>3. Checker(Root) \in Work
  BY <1>2, ConstantsAssumption DEF Checker, Work
<1>4. checkers \in Seq(Work) /\ checkers # <<>>
  BY <1>1, <1>3, OneStack DEF Init
<1>5. compilers \in Seq(Work) /\ compilers = <<>>
  BY <1>1 DEF Init
<1>6. phase = "check"
  BY <1>1 DEF Init
<1> QED  BY <1>2, <1>4, <1>5, <1>6 DEF TypeOK

LEMMA CheckerTypes ==
  ASSUME TypeOK, phase = "check"
  PROVE  /\ checkers \in Seq(Work) /\ checkers # <<>>
         /\ Len(checkers) \in Nat \ {0} /\ Len(checkers) \in 1 .. Len(checkers)
         /\ Importer = checkers[Len(checkers)].file
         /\ Importer \in Files
         /\ Last(checkers).todo = checkers[Len(checkers)].todo
         /\ Last(checkers).todo \subseteq Files
<1>1. checkers \in Seq(Work) /\ checkers # <<>>
  BY DEF TypeOK
<1> QED  BY <1>1, TopStack DEF Importer

LEMMA RecordedType ==
  ASSUME TypeOK, phase = "check", NEW f \in Files
  PROVE  /\ Recorded(f) \in [Files -> SUBSET Files]
         /\ \A g \in Files : Recorded(f)[g] = IF g = Importer THEN resolved[g] \cup {f}
                                                             ELSE resolved[g]
<1>1. Importer \in Files
  BY CheckerTypes
<1> QED  BY <1>1 DEF TypeOK, Recorded

LEMMA TypeStep == TypeOK /\ [Next]_vars => TypeOK'
<1>1. SUFFICES ASSUME TypeOK, [Next]_vars  PROVE TypeOK'
  OBVIOUS
<1>2. CASE SelfImport
  <2>1. checkers' \in Seq(Work) /\ checkers' # <<>> /\ Importer \in Files
    BY <1>1, <1>2, CheckerTypes, DoneStack DEF SelfImport
  <2> QED  BY <1>1, <1>2, <2>1 DEF SelfImport, TypeOK
<1>3. ASSUME NEW f \in Files, CyclicImport(f) \/ BindImport(f) \/ UnreadableImport(f)
      PROVE  TypeOK'
  <2>1. phase = "check" /\ checkers' = Done(checkers, f)
    BY <1>1, <1>3 DEF CyclicImport, BindImport, UnreadableImport
  <2>2. checkers' \in Seq(Work) /\ checkers' # <<>> /\ Importer \in Files
    BY <1>1, <2>1, CheckerTypes, DoneStack
  <2>3. resolved' \in [Files -> SUBSET Files]
    BY <1>1, <1>3, <2>1, RecordedType DEF CyclicImport, BindImport, UnreadableImport, TypeOK
  <2>4. erroneous' \in SUBSET Files /\ cyclic' \in BOOLEAN
    BY <1>1, <1>3, <2>2 DEF CyclicImport, BindImport, UnreadableImport, TypeOK
  <2>5. UNCHANGED <<imports, packages, compilers, phase>>
    BY <1>1, <1>3 DEF CyclicImport, BindImport, UnreadableImport
  <2> QED  BY <1>1, <2>1, <2>2, <2>3, <2>4, <2>5 DEF TypeOK
<1>4. ASSUME NEW f \in Files, LoadImport(f)
      PROVE  TypeOK'
  <2>1. Done(checkers, f) \in Seq(Work) /\ Checker(f) \in Work /\ phase = "check"
    BY <1>1, <1>4, CheckerTypes, DoneStack, WorkType DEF LoadImport
  <2>2. checkers' \in Seq(Work) /\ checkers' # <<>>
    BY <1>1, <1>4, <2>1, PushStack DEF LoadImport
  <2>3. resolved' \in [Files -> SUBSET Files] /\ packages' \in SUBSET Files
    BY <1>1, <1>4, <2>1, RecordedType DEF LoadImport, TypeOK
  <2> QED  BY <1>1, <1>4, <2>1, <2>2, <2>3 DEF LoadImport, TypeOK
<1>5. ASSUME NEW error \in BOOLEAN, CheckReturns(error)
      PROVE  TypeOK'
  <2>0. phase = "check" /\ checkers' = Front(checkers)
    BY <1>1, <1>5 DEF CheckReturns
  <2>1. checkers' \in Seq(Work) /\ Importer \in Files
    BY <1>1, <2>0, CheckerTypes, FrontStack
  <2> DEFINE n == Len(checkers)
  <2>6. n \in Nat \ {0}
    BY <1>1, <2>0, CheckerTypes
  <2>2. UNCHANGED <<imports, packages, resolved, cyclic>>
    BY <1>1, <1>5 DEF CheckReturns
  <2>3. CASE n > 1
    <3>1. checkers[n - 1].file \in Files
      <4>1. n - 1 \in 1 .. n
        BY <2>3, <2>6
      <4> QED  BY <1>1, <2>0, <4>1, TopStack, CheckerTypes
    <3>2. erroneous' \in SUBSET Files /\ UNCHANGED <<compilers, phase>>
      BY <1>1, <1>5, <2>1, <2>3, <3>1 DEF CheckReturns, TypeOK
    <3>3. checkers' # <<>>
      BY <1>1, <2>0, <2>3, <2>6, CheckerTypes, FrontStack
    <3> QED  BY <1>1, <2>0, <2>1, <2>2, <3>2, <3>3 DEF TypeOK
  <2>4. CASE n = 1
    <3>1. checkers' = <<>>
      <4>1. Len(checkers) = 1
        BY <2>4, <2>6
      <4> QED  BY <1>1, <2>0, <4>1, CheckerTypes, FrontStack
    <3>2. erroneous' \in SUBSET Files
      BY <1>1, <1>5, <2>1, <2>4 DEF CheckReturns, TypeOK
    <3>3. \/ phase' = "rejected" /\ compilers' = <<>>
          \/ phase' = "compile" /\ compilers' = <<Compiler(Root)>>
      BY <1>1, <1>5, <2>4 DEF CheckReturns
    <3>4. <<Compiler(Root)>> \in Seq(Work) /\ <<Compiler(Root)>> # <<>>
      BY <1>1, ConstantsAssumption, WorkType, OneStack
    <3>5. compilers' \in Seq(Work)
      BY <3>3, <3>4, EmptySeq
    <3>6. phase' \in Phases /\ phase' # "check"
      BY <3>3 DEF Phases
    <3>7. /\ compilers' # <<>> <=> phase' = "compile"
          /\ checkers' # <<>> <=> phase' = "check"
      BY <3>1, <3>3, <3>4
    <3>8. /\ imports' \in [Files -> SUBSET Files] /\ packages' \in SUBSET Files
          /\ resolved' \in [Files -> SUBSET Files] /\ cyclic' \in BOOLEAN
      BY <1>1, <2>2 DEF TypeOK
    <3> QED  BY <2>1, <3>2, <3>5, <3>6, <3>7, <3>8 DEF TypeOK
  <2>7. n = 1 \/ n > 1
    BY <2>6
  <2> QED  BY <2>3, <2>4, <2>7
<1>6. ASSUME NEW f \in Files, CompileImport(f)
      PROVE  TypeOK'
  <2>1. compilers \in Seq(Work) /\ compilers # <<>>
    BY <1>1, <1>6 DEF CompileImport, TypeOK
  <2>2. Done(compilers, f) \in Seq(Work) /\ Compiler(f) \in Work
    BY <1>1, <2>1, DoneStack, WorkType
  <2>3. compilers' \in Seq(Work) /\ compilers' # <<>>
    BY <1>1, <1>6, <2>2, PushStack DEF CompileImport
  <2> QED  BY <1>1, <1>6, <2>3 DEF CompileImport, TypeOK
<1>7. CASE CompileFails
  BY <1>1, <1>7 DEF CompileFails, TypeOK, Phases
<1>8. CASE CompileReturns
  <2>1. compilers \in Seq(Work) /\ compilers # <<>> /\ phase = "compile"
    BY <1>1, <1>8 DEF CompileReturns, TypeOK
  <2>2. compilers' \in Seq(Work) /\ (compilers' = <<>> <=> Len(compilers) = 1)
    BY <1>1, <1>8, <2>1, FrontStack DEF CompileReturns
  <2>3. phase' = IF Len(compilers) = 1 THEN "compiled" ELSE "compile"
    BY <1>1, <1>8, <2>1 DEF CompileReturns
  <2>4. /\ phase' \in Phases /\ phase' # "check"
        /\ compilers' # <<>> <=> phase' = "compile"
    BY <2>2, <2>3 DEF Phases
  <2>5. UNCHANGED <<imports, packages, resolved, checkers, erroneous, cyclic>>
    BY <1>1, <1>8 DEF CompileReturns
  <2> QED  BY <1>1, <2>1, <2>2, <2>4, <2>5 DEF TypeOK
<1>9. CASE UNCHANGED vars
  BY <1>1, <1>9 DEF vars, TypeOK
<1> QED  BY <1>1, <1>2, <1>3, <1>4, <1>5, <1>6, <1>7, <1>8, <1>9 DEF Next

(* Every variable keeps its type (TypeOK): the stack of checkers is in use *)
(* while checking, that of compilers while compiling, and no other.        *)
THEOREM TypeCorrect == Spec => []TypeOK
BY TypeInit, TypeStep, PTL DEF Spec

-----------------------------------------------------------------------------
(* Recorded imports.                                                       *)

LEMMA LeadsSelf ==
  ASSUME NEW R, NEW x \in Files
  PROVE  Leads(x, x, R)
BY DEF Leads

LEMMA LeadsOn ==
  ASSUME NEW R, NEW x \in Files, NEW y \in Files, NEW z \in Files,
         Leads(x, y, R), z \in R[y] \/ Leads(y, z, R)
  PROVE  Leads(x, z, R)
BY DEF Leads, Closed

(* An edge from a to b closes a cycle only if b led to a already.          *)
LEMMA AddEdge ==
  ASSUME NEW R \in [Files -> SUBSET Files], NEW Q \in [Files -> SUBSET Files],
         NEW a \in Files, NEW b \in Files,
         \A x \in Files : Q[x] = IF x = a THEN R[x] \cup {b} ELSE R[x],
         Acyclic(R), ~Leads(b, a, R)
  PROVE  Acyclic(Q)
<1>1. ASSUME NEW u \in Files, NEW v \in Files, Leads(u, v, Q)
      PROVE  Leads(u, v, R) \/ (Leads(u, a, R) /\ Leads(b, v, R))
  <2> DEFINE S == {z \in Files : Leads(u, z, R) \/ (Leads(u, a, R) /\ Leads(b, z, R))}
  <2>1. S \in SUBSET Files /\ u \in S
    BY LeadsSelf
  <2>2. ASSUME NEW z \in S, NEW w \in Q[z]  PROVE w \in S
    <3>1. z \in Files /\ w \in Files
      OBVIOUS
    <3>2. CASE w \in R[z]
      BY <3>1, <3>2, LeadsOn
    <3>3. CASE z = a /\ w = b
      BY <3>1, <3>3, LeadsSelf
    <3> QED  BY <3>1, <3>2, <3>3
  <2>3. Closed(S, Q)
    BY <2>2 DEF Closed
  <2>4. v \in S
    BY <1>1, <2>1, <2>3 DEF Leads
  <2> QED  BY <2>4
<1>2. SUFFICES ASSUME NEW x \in Files, NEW y \in Q[x], Leads(y, x, Q)
               PROVE  FALSE
  BY DEF Acyclic
<1>3. y \in Files
  OBVIOUS
<1>4. Leads(y, x, R) \/ (Leads(y, a, R) /\ Leads(b, x, R))
  BY <1>1, <1>2, <1>3
<1>5. CASE y \in R[x]
  <2>1. Leads(y, a, R) /\ Leads(b, x, R)
    BY <1>4, <1>5 DEF Acyclic
  <2>2. Leads(b, y, R)
    BY <1>3, <1>5, <2>1, LeadsOn
  <2> QED  BY <1>3, <2>1, <2>2, LeadsOn
<1>6. CASE x = a /\ y = b
  BY <1>4, <1>6
<1> QED  BY <1>5, <1>6

(* A search that finds nothing shows that the import closes no cycle among *)
(* files of different directories.                                         *)
LEMMA NothingFound ==
  ASSUME TypeOK, WorkOK, NEW S \in SUBSET Files, Apart(S), NEW a \in S, NEW f \in S \ {a},
         ~FindsCycle(a, f), f \in packages \/ resolved[f] = {}
  PROVE  ~Leads(f, a, Within(S, resolved))
<1> DEFINE E == {e \in packages \X Files : e[2] \in resolved[e[1]] /\ Dir[e[2]] # Dir[a]}
           V == {x \in Files : Path(f, x, E)}
<1>0. \A x \in Files : Within(S, resolved)[x] = IF x \in S THEN resolved[x] \cap S ELSE {}
  BY DEF Within
<1>1. CASE f \in packages
  <2>1. Dir[f] # Dir[a]
    BY DEF Apart
  <2>2. \A x \in packages : Path(f, x, E) => a \notin resolved[x]
    BY <2>1 DEF FindsCycle
  <2>3. f \in V
    BY DEF Path
  <2>4. ASSUME NEW x \in V, NEW y \in Within(S, resolved)[x]  PROVE y \in V
    <3>0. x \in S /\ y \in S /\ y \in resolved[x]
      BY <1>0
    <3>1. x \in packages /\ y \in Files
      BY <3>0 DEF TypeOK, WorkOK
    <3>2. y # a
      BY <2>2, <3>0, <3>1
    <3>3. <<x, y>> \in E
      BY <3>0, <3>1, <3>2 DEF Apart
    <3>4. Path(f, y, E)
      BY <3>3 DEF Path
    <3> QED  BY <3>1, <3>4
  <2>5. Closed(V, Within(S, resolved))
    BY <2>4 DEF Closed
  <2>6. a \notin V
    <3>1. f \in Files \ {a} /\ \A e \in E : e[1] \in Files \ {a} => e[2] \in Files \ {a}
      OBVIOUS
    <3> QED  BY <3>1 DEF Path
  <2> QED  BY <2>3, <2>5, <2>6 DEF Leads
<1>2. CASE resolved[f] = {}
  <2>1. {f} \in SUBSET Files /\ Closed({f}, Within(S, resolved)) /\ a \notin {f}
    BY <1>0, <1>2 DEF Closed
  <2> QED  BY <2>1 DEF Leads
<1> QED  BY <1>1, <1>2

(* A search that finds something shows a cycle of the program's imports.   *)
LEMMA SomethingFound ==
  ASSUME TypeOK, WorkOK, NEW a \in Files, NEW f \in imports[a], FindsCycle(a, f)
  PROVE  LET I == {e \in Files \X Files : e[2] \in imports[e[1]]}
         IN  \E e \in I : Path(e[2], e[1], I)
<1> DEFINE I == {e \in Files \X Files : e[2] \in imports[e[1]]}
           E == {e \in packages \X Files : e[2] \in resolved[e[1]] /\ Dir[e[2]] # Dir[a]}
<1>1. f \in Files
  BY DEF TypeOK
<1>2. \A x, y \in Files : y \in resolved[x] => <<x, y>> \in I
  BY DEF WorkOK
<1>3. E \subseteq I
  BY DEF TypeOK, WorkOK
<1>4. ASSUME NEW x, NEW y, Path(x, y, E)  PROVE Path(x, y, I)
  BY <1>3, <1>4 DEF Path
<1>5. CASE \E x \in packages : Path(f, x, E) /\ a \in resolved[x]
  <2>1. PICK x \in packages : Path(f, x, E) /\ a \in resolved[x]
    BY <1>5
  <2>2. Path(f, x, I) /\ <<x, a>> \in I
    BY <1>2, <1>4, <2>1 DEF TypeOK
  <2>3. Path(f, a, I)
    BY <2>2 DEF Path
  <2>4. <<a, f>> \in I
    BY <1>1
  <2> QED  BY <2>3, <2>4
<1>6. CASE \E x \in packages : \E y \in resolved[x] : <<x, y>> \in E /\ Path(y, x, E)
  <2>1. PICK x, y : <<x, y>> \in E /\ Path(y, x, E)
    BY <1>6
  <2>2. <<x, y>> \in I /\ Path(y, x, I)
    BY <1>3, <1>4, <2>1
  <2> QED  BY <2>2
<1>7. \/ \E x \in packages : Path(f, x, E) /\ a \in resolved[x]
      \/ \E x \in packages : \E y \in resolved[x] : <<x, y>> \in E /\ Path(y, x, E)
  BY DEF FindsCycle
<1> QED  BY <1>5, <1>6, <1>7

-----------------------------------------------------------------------------
(* The type checker's steps.                                               *)

(* While files are checked nothing is compiled.                            *)
LEMMA NothingCompiled ==
  ASSUME TypeOK', phase' = "check"
  PROVE  compilers' = <<>> /\ CompilersOK' /\ ReentryRepeatsDirectory'
<1>1. compilers' = <<>>
  BY DEF TypeOK
<1> QED  BY <1>1 DEF CompilersOK, ReentryRepeatsDirectory, RepeatsDirectory

(* An import is taken up: it is no longer to do.                           *)
LEMMA TakenUp ==
  ASSUME TypeOK, WorkOK, CheckedOnce, phase = "check",
         NEW f \in Last(checkers).todo
  PROVE  LET D == Done(checkers, f)
             n == Len(checkers)
         IN  /\ f \in Files /\ Importer \in packages /\ f \in imports[Importer]
             /\ Len(D) = n /\ n \in 1 .. n /\ n \in Nat /\ D \in Seq(Work)
             /\ D[n].file = Importer
             /\ \A i \in 1 .. n : /\ D[i].file = checkers[i].file
                                   /\ D[i].file \in packages
                                   /\ D[i].todo \subseteq imports[D[i].file]
             /\ Distinct(D)
             /\ \A i \in 1 .. n : \A g \in checkers[i].todo :
                  g \in D[i].todo \/ (g = f /\ checkers[i].file = Importer)
<1> DEFINE D == Done(checkers, f)
           n == Len(checkers)
<1>1. /\ checkers \in Seq(Work) /\ checkers # <<>> /\ n \in Nat /\ n \in 1 .. n
      /\ Importer = checkers[n].file
      /\ Last(checkers).todo = checkers[n].todo /\ Last(checkers).todo \subseteq Files
  BY CheckerTypes
<1>2. /\ D \in Seq(Work) /\ Len(D) = n
      /\ \A i \in 1 .. n :
           /\ D[i].file = checkers[i].file
           /\ D[i].todo = IF i = n THEN checkers[i].todo \ {f} ELSE checkers[i].todo
  BY <1>1, DoneStack
<1>3. f \in Files /\ Importer \in packages /\ f \in imports[Importer]
  BY <1>1 DEF WorkOK
<1>4. \A i \in 1 .. n : /\ D[i].file \in packages
                        /\ D[i].todo \subseteq imports[D[i].file]
  BY <1>2 DEF WorkOK
<1>5. Distinct(D)
  BY <1>2 DEF CheckedOnce, Distinct
<1>6. \A i \in 1 .. n : \A g \in checkers[i].todo :
         g \in D[i].todo \/ (g = f /\ checkers[i].file = Importer)
  BY <1>1, <1>2
<1>7. D[n].file = Importer
  BY <1>1, <1>2
<1> QED  BY <1>1, <1>2, <1>3, <1>4, <1>5, <1>6, <1>7

(* What every import but a loaded one has in common.                       *)
LEMMA OneLess ==
  ASSUME TypeOK, WorkOK, CheckedOnce, phase = "check",
         NEW f \in Last(checkers).todo, checkers' = Done(checkers, f),
         resolved' \in {resolved, Recorded(f)}, UNCHANGED <<imports, packages>>
  PROVE  /\ WorkOK' /\ CheckedOnce'
         /\ \E i \in 1 .. Len(checkers') : checkers'[i].file = Importer
         /\ Len(checkers') = Len(checkers)
         /\ \A i \in 1 .. Len(checkers) : checkers'[i].file = checkers[i].file
<1> DEFINE n == Len(checkers)
<1>1. /\ f \in Files /\ Importer \in packages /\ f \in imports[Importer]
      /\ Len(checkers') = n /\ n \in 1 .. n /\ checkers'[n].file = Importer
      /\ \A i \in 1 .. n : /\ checkers'[i].file = checkers[i].file
                            /\ checkers'[i].file \in packages
                            /\ checkers'[i].todo \subseteq imports[checkers'[i].file]
      /\ Distinct(checkers')
  BY TakenUp
<1>2. \A g \in Files : /\ resolved'[g] \subseteq imports[g]
                       /\ g \notin packages => resolved'[g] = {}
  <2>1. \A g \in Files : Recorded(f)[g] = IF g = Importer THEN resolved[g] \cup {f}
                                                         ELSE resolved[g]
    BY <1>1, RecordedType
  <2>2. \A g \in Files : resolved[g] \subseteq imports[g] /\ (g \notin packages => resolved[g] = {})
    BY DEF WorkOK
  <2>3. CASE resolved' = resolved
    BY <2>2, <2>3
  <2>4. CASE resolved' = Recorded(f)
    <3>1. f \in imports[Importer] /\ Importer \in packages
      BY <1>1
    <3>2. \A g \in Files : resolved'[g] = IF g = Importer THEN resolved[g] \cup {f}
                                                         ELSE resolved[g]
      BY <2>1, <2>4
    <3> QED  BY <2>2, <3>1, <3>2
  <2> QED  BY <2>3, <2>4
<1>3. WorkOK'
  BY <1>1, <1>2 DEF WorkOK
<1> QED  BY <1>1, <1>3 DEF CheckedOnce, Distinct

LEMMA SelfImportStep == ASSUME IInv, SelfImport  PROVE IInv'
<1>1. TypeOK /\ TypeOK'
  BY TypeStep DEF IInv, Next
<1>2. /\ phase = "check" /\ phase' = "check" /\ Importer \in Last(checkers).todo
      /\ checkers' = Done(checkers, Importer) /\ erroneous' = erroneous \cup {Importer}
      /\ UNCHANGED <<imports, packages, resolved, cyclic, compilers>>
  BY DEF SelfImport
<1>3. /\ WorkOK' /\ CheckedOnce'
      /\ \E i \in 1 .. Len(checkers') : checkers'[i].file = Importer
  BY <1>1, <1>2, OneLess DEF IInv
<1>4. ErrorsSurface' /\ ImportsFollowed' /\ NoCycleRecorded'
  BY <1>2, <1>3 DEF ErrorsSurface, ImportsFollowed, NoCycleRecorded
<1>5. CompilersOK' /\ ReentryRepeatsDirectory'
  BY <1>1, <1>2, NothingCompiled
<1>6. AcyclicAccepted'
  BY <1>2 DEF IInv, AcyclicAccepted
<1> QED  BY <1>1, <1>3, <1>4, <1>5, <1>6 DEF IInv

LEMMA UnreadableImportStep ==
  ASSUME IInv, NEW f \in Files, UnreadableImport(f)  PROVE IInv'
<1>1. TypeOK /\ TypeOK'
  BY TypeStep DEF IInv, Next
<1>2. /\ phase = "check" /\ phase' = "check" /\ f \in Last(checkers).todo
      /\ checkers' = Done(checkers, f) /\ erroneous' = erroneous \cup {Importer}
      /\ resolved' \in {resolved, Recorded(f)}
      /\ UNCHANGED <<imports, packages, cyclic, compilers>>
  BY DEF UnreadableImport
<1>3. /\ WorkOK' /\ CheckedOnce'
      /\ \E i \in 1 .. Len(checkers') : checkers'[i].file = Importer
  BY <1>1, <1>2, OneLess DEF IInv
<1>4. ErrorsSurface' /\ ImportsFollowed' /\ NoCycleRecorded'
  BY <1>2, <1>3 DEF ErrorsSurface, ImportsFollowed, NoCycleRecorded
<1>5. CompilersOK' /\ ReentryRepeatsDirectory'
  BY <1>1, <1>2, NothingCompiled
<1>6. AcyclicAccepted'
  BY <1>2 DEF IInv, AcyclicAccepted
<1> QED  BY <1>1, <1>3, <1>4, <1>5, <1>6 DEF IInv

LEMMA CyclicImportStep ==
  ASSUME IInv, NEW f \in Files, CyclicImport(f)  PROVE IInv'
<1>1. TypeOK /\ TypeOK'
  BY TypeStep DEF IInv, Next
<1>2. /\ phase = "check" /\ phase' = "check" /\ f \in Last(checkers).todo
      /\ FindsCycle(Importer, f)
      /\ checkers' = Done(checkers, f) /\ erroneous' = erroneous \cup {Importer}
      /\ resolved' = Recorded(f)
      /\ UNCHANGED <<imports, packages, compilers>>
  BY DEF CyclicImport
<1>3. /\ WorkOK' /\ CheckedOnce'
      /\ \E i \in 1 .. Len(checkers') : checkers'[i].file = Importer
  BY <1>1, <1>2, OneLess DEF IInv
<1>4. ErrorsSurface' /\ ImportsFollowed' /\ NoCycleRecorded'
  BY <1>2, <1>3 DEF ErrorsSurface, ImportsFollowed, NoCycleRecorded
<1>5. CompilersOK' /\ ReentryRepeatsDirectory'
  BY <1>1, <1>2, NothingCompiled
<1>6. AcyclicAccepted'
  <2>1. Importer \in Files /\ f \in imports[Importer]
    BY <1>1, <1>2, TakenUp, CheckerTypes DEF IInv
  <2> QED  BY <1>1, <1>2, <2>1, SomethingFound DEF IInv, AcyclicAccepted
<1> QED  BY <1>1, <1>3, <1>4, <1>5, <1>6 DEF IInv

(* An import that is bound, whether it was loaded before or is loaded now, *)
(* leaves the recorded imports without a cycle among files of different    *)
(* directories.                                                            *)
LEMMA RecordedAcyclic ==
  ASSUME IInv, phase = "check", NEW f \in Last(checkers).todo \ {Importer},
         ~FindsCycle(Importer, f), erroneous = {}, NEW S \in SUBSET Files, Apart(S)
  PROVE  Acyclic(Within(S, Recorded(f)))
<1> DEFINE R == Within(S, resolved)
           Q == Within(S, Recorded(f))
<1>1. Importer \in Files /\ f \in Files /\ f # Importer
  BY CheckerTypes DEF IInv
<1>2. f \in packages \/ resolved[f] = {}
  BY <1>1 DEF IInv, WorkOK
<1>3. Acyclic(R)
  BY DEF IInv, NoCycleRecorded
<1>4. /\ resolved \in [Files -> SUBSET Files] /\ Recorded(f) \in [Files -> SUBSET Files]
      /\ \A x \in Files : Recorded(f)[x] = IF x = Importer THEN resolved[x] \cup {f}
                                                          ELSE resolved[x]
  BY <1>1, RecordedType DEF IInv, TypeOK
<1>5. R \in [Files -> SUBSET Files] /\ Q \in [Files -> SUBSET Files]
  BY <1>4 DEF Within
<1>6. \A x \in Files : Q[x] = IF x = Importer /\ {x, f} \subseteq S THEN R[x] \cup {f} ELSE R[x]
  BY <1>4 DEF Within
<1>7. Importer \in S /\ f \in S => ~Leads(f, Importer, R)
  BY <1>1, <1>2, NothingFound DEF IInv
<1> HIDE DEF R, Q
<1>8. CASE Importer \in S /\ f \in S
  <2>1. \A x \in Files : Q[x] = IF x = Importer THEN R[x] \cup {f} ELSE R[x]
    BY <1>6, <1>8
  <2>2. Acyclic(Q)
    BY <1>1, <1>3, <1>5, <1>7, <1>8, <2>1, AddEdge
  <2> QED  BY <2>2 DEF Q
<1>9. CASE ~(Importer \in S /\ f \in S)
  <2>1. Q = R
    BY <1>5, <1>6, <1>9
  <2> QED  BY <1>3, <2>1 DEF Q
<1> QED  BY <1>8, <1>9

LEMMA BindImportStep ==
  ASSUME IInv, NEW f \in Files, BindImport(f)  PROVE IInv'
<1>1. TypeOK /\ TypeOK'
  BY TypeStep DEF IInv, Next
<1>2. /\ phase = "check" /\ phase' = "check" /\ f \in Last(checkers).todo \ {Importer}
      /\ ~FindsCycle(Importer, f) /\ f \in packages
      /\ checkers' = Done(checkers, f) /\ resolved' = Recorded(f)
      /\ UNCHANGED <<imports, packages, erroneous, cyclic, compilers>>
  BY DEF BindImport
<1>3. /\ WorkOK' /\ CheckedOnce' /\ Len(checkers') = Len(checkers)
      /\ \A i \in 1 .. Len(checkers) : checkers'[i].file = checkers[i].file
  BY <1>1, <1>2, OneLess DEF IInv
<1>4. ErrorsSurface'
  BY <1>2, <1>3 DEF IInv, ErrorsSurface
<1>5. \A g \in Files : resolved'[g] = IF g = Importer THEN resolved[g] \cup {f}
                                                     ELSE resolved[g]
  BY <1>1, <1>2, RecordedType
<1>6. ImportsFollowed'
  <2>1. SUFFICES ASSUME erroneous = {}  PROVE ImportsFollowed'
    BY <1>2 DEF ImportsFollowed
  <2>2. \A g \in Files : resolved'[g] \subseteq packages
    <3>1. \A g \in Files : resolved[g] \subseteq packages
      BY <2>1 DEF IInv, ImportsFollowed
    <3> QED  BY <1>2, <1>5, <3>1
  <2>3. ASSUME NEW p \in packages, NEW g \in imports[p]
        PROVE  \/ g \in resolved'[p]
               \/ \E i \in 1 .. Len(checkers') :
                     checkers'[i].file = p /\ g \in checkers'[i].todo
    <3>1. p \in Files
      BY <1>1 DEF TypeOK
    <3>2. CASE g \in resolved[p]
      BY <1>5, <3>1, <3>2
    <3>3. CASE \E i \in 1 .. Len(checkers) : checkers[i].file = p /\ g \in checkers[i].todo
      <4>1. PICK i \in 1 .. Len(checkers) : checkers[i].file = p /\ g \in checkers[i].todo
        BY <3>3
      <4>2. g \in checkers'[i].todo \/ (g = f /\ p = Importer)
        BY <1>1, <1>2, <4>1, TakenUp DEF IInv
      <4> QED  BY <1>3, <1>5, <3>1, <4>1, <4>2
    <3> QED  BY <2>1, <3>2, <3>3 DEF IInv, ImportsFollowed
  <2> QED  BY <1>2, <2>2, <2>3 DEF ImportsFollowed
<1>7. NoCycleRecorded'
  BY <1>2, RecordedAcyclic DEF NoCycleRecorded
<1>8. CompilersOK' /\ ReentryRepeatsDirectory'
  BY <1>1, <1>2, NothingCompiled
<1>9. AcyclicAccepted'
  BY <1>2 DEF IInv, AcyclicAccepted
<1> QED  BY <1>1, <1>3, <1>4, <1>6, <1>7, <1>8, <1>9 DEF IInv

LEMMA LoadImportStep ==
  ASSUME IInv, NEW f \in Files, LoadImport(f)  PROVE IInv'
<1> DEFINE n == Len(checkers)
           D == Done(checkers, f)
<1>1. TypeOK /\ TypeOK'
  BY TypeStep DEF IInv, Next
<1>2. /\ phase = "check" /\ phase' = "check" /\ f \in Last(checkers).todo \ {Importer}
      /\ ~FindsCycle(Importer, f) /\ f \notin packages
      /\ packages' = packages \cup {f} /\ resolved' = Recorded(f)
      /\ checkers' = Append(D, Checker(f))
      /\ UNCHANGED <<imports, erroneous, cyclic, compilers>>
  BY DEF LoadImport
<1>3. /\ Importer \in packages /\ f \in imports[Importer]
      /\ Len(D) = n /\ n \in Nat /\ D \in Seq(Work)
      /\ \A i \in 1 .. n : /\ D[i].file = checkers[i].file
                            /\ D[i].file \in packages
                            /\ D[i].todo \subseteq imports[D[i].file]
      /\ Distinct(D)
      /\ \A i \in 1 .. n : \A g \in checkers[i].todo :
           g \in D[i].todo \/ (g = f /\ checkers[i].file = Importer)
  BY <1>1, <1>2, TakenUp DEF IInv
<1>4. Checker(f) \in Work /\ Checker(f).file = f /\ Checker(f).todo = imports[f]
  BY <1>1, WorkType DEF Checker
<1>5. /\ Len(checkers') = n + 1 /\ checkers'[n + 1] = Checker(f)
      /\ \A i \in 1 .. n : checkers'[i] = D[i]
  BY <1>2, <1>3, <1>4, PushStack
<1>6. \A i \in 1 .. n + 1 : i \in 1 .. n \/ i = n + 1
  BY <1>3
<1>7. 1 .. n \subseteq 1 .. n + 1 /\ n + 1 \in 1 .. n + 1
  BY <1>3
<1>8. \A g \in Files : resolved'[g] = IF g = Importer THEN resolved[g] \cup {f}
                                                     ELSE resolved[g]
  BY <1>1, <1>2, RecordedType
<1>9. WorkOK'
  <2>1. \A i \in 1 .. n + 1 : /\ checkers'[i].file \in packages'
                              /\ checkers'[i].todo \subseteq imports'[checkers'[i].file]
    BY <1>2, <1>3, <1>4, <1>5, <1>6
  <2>2. \A g \in Files : /\ resolved[g] \subseteq imports[g]
                         /\ g \notin packages => resolved[g] = {}
    BY DEF IInv, WorkOK
  <2>3. \A g \in Files : /\ resolved'[g] \subseteq imports[g]
                         /\ g \notin packages' => resolved'[g] = {}
    <3>1. f \in imports[Importer] /\ Importer \in packages /\ packages \subseteq packages'
      BY <1>2, <1>3
    <3> QED  BY <1>8, <2>2, <3>1
  <2>4. Root \in packages'
    BY <1>2 DEF IInv, WorkOK
  <2> QED  BY <1>2, <1>5, <2>1, <2>3, <2>4 DEF WorkOK
<1>10. CheckedOnce'
  <2>1. \A i \in 1 .. n : checkers'[i].file \in packages
    BY <1>3, <1>5
  <2>2. checkers'[n + 1].file \notin packages
    BY <1>2, <1>4, <1>5
  <2>3. \A i, j \in 1 .. n : checkers'[i].file = checkers'[j].file => i = j
    BY <1>3, <1>5 DEF Distinct
  <2>4. \A i, j \in 1 .. n + 1 : checkers'[i].file = checkers'[j].file => i = j
    BY <1>6, <2>1, <2>2, <2>3
  <2> QED  BY <1>5, <2>4 DEF CheckedOnce, Distinct
<1>11. ErrorsSurface'
  <2>1. ASSUME erroneous # {}
        PROVE  \E i \in 1 .. n + 1 : checkers'[i].file \in erroneous
    <3>1. PICK i \in 1 .. n : checkers[i].file \in erroneous
      BY <1>2, <2>1 DEF IInv, ErrorsSurface
    <3>2. checkers'[i].file \in erroneous /\ i \in 1 .. n + 1
      BY <1>3, <1>5, <1>7, <3>1
    <3> QED  BY <3>2
  <2> QED  BY <1>2, <1>5, <2>1 DEF ErrorsSurface
<1>12. ImportsFollowed'
  <2>1. SUFFICES ASSUME erroneous = {}  PROVE ImportsFollowed'
    BY <1>2 DEF ImportsFollowed
  <2>2. \A g \in Files : resolved'[g] \subseteq packages'
    <3>1. \A g \in Files : resolved[g] \subseteq packages
      BY <2>1 DEF IInv, ImportsFollowed
    <3> QED  BY <1>2, <1>8, <3>1
  <2>3. ASSUME NEW p \in packages, NEW g \in imports[p]
        PROVE  \/ g \in resolved'[p]
               \/ \E i \in 1 .. n + 1 :
                     checkers'[i].file = p /\ g \in checkers'[i].todo
    <3>1. p \in Files
      BY <1>1 DEF TypeOK
    <3>2. CASE g \in resolved[p]
      BY <1>8, <3>1, <3>2
    <3>3. CASE \E i \in 1 .. n : checkers[i].file = p /\ g \in checkers[i].todo
      <4>1. PICK i \in 1 .. n : checkers[i].file = p /\ g \in checkers[i].todo
        BY <3>3
      <4>2. g \in D[i].todo \/ (g = f /\ p = Importer)
        BY <1>3, <4>1
      <4>3. i \in 1 .. n + 1 /\ checkers'[i] = D[i] /\ D[i].file = p
        BY <1>3, <1>5, <1>7, <4>1
      <4>4. CASE g \in D[i].todo
        BY <4>3, <4>4
      <4>5. CASE g = f /\ p = Importer
        BY <1>8, <3>1, <4>5
      <4> QED  BY <4>2, <4>4, <4>5
    <3> QED  BY <2>1, <3>2, <3>3 DEF IInv, ImportsFollowed
  <2>4. ASSUME NEW g \in imports[f]
        PROVE  \E i \in 1 .. n + 1 : checkers'[i].file = f /\ g \in checkers'[i].todo
    BY <1>4, <1>5, <1>7
  <2> QED  BY <1>2, <1>5, <2>2, <2>3, <2>4 DEF ImportsFollowed
<1>13. NoCycleRecorded'
  BY <1>2, RecordedAcyclic DEF NoCycleRecorded
<1>14. CompilersOK' /\ ReentryRepeatsDirectory'
  BY <1>1, <1>2, NothingCompiled
<1>15. AcyclicAccepted'
  BY <1>2 DEF IInv, AcyclicAccepted
<1> QED  BY <1>1, <1>9, <1>10, <1>11, <1>12, <1>13, <1>14, <1>15 DEF IInv

(* The check of a file ends: its importer goes on, or the compiler begins. *)
LEMMA CheckReturnsStep ==
  ASSUME IInv, NEW error \in BOOLEAN, CheckReturns(error)  PROVE IInv'
<1> DEFINE n == Len(checkers)
           failed == error \/ Importer \in erroneous
<1>1. TypeOK /\ TypeOK'
  BY TypeStep DEF IInv, Next
<1>2. /\ phase = "check" /\ Last(checkers).todo = {} /\ checkers' = Front(checkers)
      /\ UNCHANGED <<imports, packages, resolved, cyclic>>
  BY DEF CheckReturns
<1>3. /\ n \in Nat \ {0} /\ Importer = checkers[n].file /\ checkers[n].todo = {}
      /\ Len(checkers') = n - 1
      /\ \A i \in 1 .. n - 1 : checkers'[i] = checkers[i]
  BY <1>1, <1>2, CheckerTypes, FrontStack
<1>4. 1 .. n - 1 \subseteq 1 .. n /\ \A i \in 1 .. n : i \in 1 .. n - 1 \/ i = n
  BY <1>3
<1>5. WorkOK'
  BY <1>2, <1>3, <1>4 DEF IInv, WorkOK
<1>6. CheckedOnce'
  BY <1>3, <1>4, SMTT(30) DEF IInv, CheckedOnce, Distinct
<1>7. erroneous \subseteq erroneous'
  BY DEF CheckReturns
<1>8. ImportsFollowed'
  <2>1. SUFFICES ASSUME erroneous = {}  PROVE ImportsFollowed'
    BY <1>7 DEF ImportsFollowed
  <2>2. \A p \in packages : \A g \in imports[p] :
          \/ g \in resolved[p]
          \/ \E i \in 1 .. n : checkers[i].file = p /\ g \in checkers[i].todo
    BY <2>1 DEF IInv, ImportsFollowed
  <2>3. \A p \in packages : \A g \in imports[p] :
          \/ g \in resolved[p]
          \/ \E i \in 1 .. n - 1 : checkers'[i].file = p /\ g \in checkers'[i].todo
    BY <1>3, <1>4, <2>2
  <2>4. \A g \in Files : resolved[g] \subseteq packages
    BY <2>1 DEF IInv, ImportsFollowed
  <2> QED  BY <1>2, <1>3, <2>3, <2>4 DEF ImportsFollowed
<1>9. NoCycleRecorded'
  BY <1>2, <1>7 DEF IInv, NoCycleRecorded
<1>10. AcyclicAccepted'
  BY <1>2 DEF IInv, AcyclicAccepted
<1>11. ErrorsSurface' /\ CompilersOK' /\ ReentryRepeatsDirectory'
  <2>1. CASE n > 1
    <3>1. /\ erroneous' = erroneous \cup (IF failed THEN {Importer, checkers[n - 1].file} ELSE {})
          /\ phase' = "check" /\ compilers' = compilers
      BY <1>2, <2>1 DEF CheckReturns
    <3>2. CompilersOK' /\ ReentryRepeatsDirectory'
      BY <1>1, <3>1, NothingCompiled
    <3>3. n - 1 \in 1 .. n - 1
      BY <1>3, <2>1
    <3>4. CASE failed
      <4>1. checkers'[n - 1].file \in erroneous'
        BY <1>3, <3>1, <3>3, <3>4
      <4> QED  BY <1>3, <3>1, <3>2, <3>3, <4>1 DEF ErrorsSurface
    <3>5. CASE ~failed
      <4>1. erroneous' = erroneous /\ checkers[n].file \notin erroneous
        BY <1>3, <3>1, <3>5
      <4>2. ASSUME erroneous # {}
            PROVE  \E i \in 1 .. n - 1 : checkers'[i].file \in erroneous
        <5>1. PICK i \in 1 .. n : checkers[i].file \in erroneous
          BY <1>2, <4>2 DEF IInv, ErrorsSurface
        <5>2. i \in 1 .. n - 1
          BY <1>4, <4>1, <5>1
        <5> QED  BY <1>3, <5>1, <5>2
      <4> QED  BY <1>3, <3>1, <3>2, <4>1, <4>2 DEF ErrorsSurface
    <3> QED  BY <3>4, <3>5
  <2>2. CASE n = 1 /\ failed
    <3>1. phase' = "rejected" /\ compilers' = <<>>
      BY <2>2 DEF CheckReturns
    <3> QED  BY <3>1 DEF ErrorsSurface, CompilersOK, ReentryRepeatsDirectory, RepeatsDirectory
  <2>3. CASE n = 1 /\ ~failed
    <3>1. phase' = "compile" /\ compilers' = <<Compiler(Root)>> /\ erroneous' = erroneous
      BY <2>3 DEF CheckReturns
    <3>2. erroneous = {}
      BY <1>2, <1>3, <2>3 DEF IInv, ErrorsSurface
    <3>3. /\ Compiler(Root) \in Work
          /\ Compiler(Root).file = Root /\ Compiler(Root).todo = imports[Root]
      BY <1>1, WorkType, ConstantsAssumption DEF Compiler
    <3>4. Len(compilers') = 1 /\ compilers'[1] = Compiler(Root)
      BY <3>1, <3>3, OneStack
    <3>5. Root \in packages /\ Root \in Files
      BY ConstantsAssumption DEF IInv, WorkOK
    <3>6. imports[Root] \subseteq resolved[Root]
      <4>1. ASSUME NEW g \in imports[Root]  PROVE g \in resolved[Root]
        <5>1. \/ g \in resolved[Root]
              \/ \E i \in 1 .. n : checkers[i].file = Root /\ g \in checkers[i].todo
          BY <3>2, <3>5 DEF IInv, ImportsFollowed
        <5>2. \A i \in 1 .. n : i = n
          BY <2>3
        <5> QED  BY <1>3, <5>1, <5>2
      <4> QED  BY <4>1
    <3>7. \A i \in 1 .. Len(compilers') : i = 1
      BY <3>4
    <3>8. CompilersOK'
      BY <1>2, <3>3, <3>4, <3>5, <3>6, <3>7, LeadsSelf DEF CompilersOK
    <3>9. ReentryRepeatsDirectory'
      BY <3>7 DEF ReentryRepeatsDirectory, RepeatsDirectory
    <3> QED  BY <3>1, <3>2, <3>8, <3>9 DEF ErrorsSurface
  <2>4. n = 1 \/ n > 1
    BY <1>3
  <2> QED  BY <2>1, <2>2, <2>3, <2>4
<1> QED  BY <1>1, <1>5, <1>6, <1>8, <1>9, <1>10, <1>11 DEF IInv

-----------------------------------------------------------------------------
(* The compiler's steps.                                                   *)

LEMMA CompileImportStep ==
  ASSUME IInv, NEW f \in Files, CompileImport(f)  PROVE IInv'
<1> DEFINE n == Len(compilers)
           D == Done(compilers, f)
<1>1. TypeOK /\ TypeOK'
  BY TypeStep DEF IInv, Next
<1>2. /\ phase = "compile" /\ phase' = "compile" /\ f \in Last(compilers).todo
      /\ compilers' = Append(D, Compiler(f))
      /\ UNCHANGED <<imports, packages, resolved, checkers, erroneous, cyclic>>
  BY DEF CompileImport
<1>3. erroneous = {} /\ checkers = <<>>
  BY <1>1, <1>2 DEF IInv, ErrorsSurface, TypeOK
<1>4. compilers \in Seq(Work) /\ compilers # <<>>
  BY <1>1, <1>2 DEF TypeOK
<1>5. /\ n \in Nat \ {0} /\ n \in 1 .. n /\ Last(compilers) = compilers[n]
      /\ D \in Seq(Work) /\ Len(D) = n
      /\ \A i \in 1 .. n : /\ compilers[i].file \in Files
                            /\ D[i].file = compilers[i].file
                            /\ D[i].todo \subseteq compilers[i].todo
  <2>1. n \in Nat \ {0} /\ n \in 1 .. n /\ Last(compilers) = compilers[n]
    BY <1>4, TopStack
  <2>2. \A i \in 1 .. n : compilers[i].file \in Files
    BY <1>4, TopStack
  <2>3. /\ D \in Seq(Work) /\ Len(D) = n
        /\ \A i \in 1 .. n :
             /\ D[i].file = compilers[i].file
             /\ D[i].todo = IF i = n THEN compilers[i].todo \ {f} ELSE compilers[i].todo
    BY <1>4, DoneStack
  <2>4. \A i \in 1 .. n : D[i].todo \subseteq compilers[i].todo
    BY <2>3
  <2> QED  BY <2>1, <2>2, <2>3, <2>4
<1>6. Compiler(f) \in Work /\ Compiler(f).file = f /\ Compiler(f).todo = imports[f]
  BY <1>1, WorkType DEF Compiler
<1>7. /\ Len(compilers') = n + 1 /\ compilers'[n + 1] = Compiler(f)
      /\ \A i \in 1 .. n : compilers'[i] = D[i]
  BY <1>2, <1>5, <1>6, PushStack
<1>8. \A i \in 1 .. n + 1 : i \in 1 .. n \/ i = n + 1
  BY <1>5
<1>9. \A i \in 1 .. n : /\ compilers[i].file \in packages
                        /\ compilers[i].todo \subseteq resolved[compilers[i].file]
  BY DEF IInv, CompilersOK
<1>10. \A g \in packages : imports[g] \subseteq resolved[g] /\ resolved[g] \subseteq packages
  BY <1>1, <1>3 DEF IInv, ImportsFollowed, TypeOK
<1>11. f \in resolved[compilers[n].file] /\ f \in packages
  BY <1>2, <1>5, <1>9, <1>10
<1>12. ASSUME NEW S \in SUBSET Files, NEW i \in 1 .. n, f \in S,
              \A k \in i .. n : compilers[k].file \in S
       PROVE  /\ Leads(compilers[i].file, compilers[n].file, Within(S, resolved))
              /\ f \in Within(S, resolved)[compilers[n].file]
              /\ Leads(compilers[i].file, f, Within(S, resolved))
  <2>1. Leads(compilers[i].file, compilers[n].file, Within(S, resolved))
    BY <1>5, <1>12 DEF IInv, CompilersOK
  <2>2. compilers[n].file \in S /\ compilers[n].file \in Files
    BY <1>5, <1>12
  <2>3. f \in Within(S, resolved)[compilers[n].file]
    BY <1>11, <1>12, <2>2 DEF Within
  <2> QED  BY <1>5, <2>1, <2>2, <2>3, LeadsOn
<1>13. CompilersOK'
  <2>1. \A i \in 1 .. n + 1 :
          /\ compilers'[i].file \in packages
          /\ compilers'[i].todo \subseteq resolved[compilers'[i].file]
    BY <1>5, <1>6, <1>7, <1>8, <1>9, <1>10, <1>11
  <2>2. ASSUME NEW S \in SUBSET Files, NEW i \in 1 .. n + 1, NEW j \in 1 .. n + 1, i <= j,
               \A k \in i .. j : compilers'[k].file \in S
        PROVE  Leads(compilers'[i].file, compilers'[j].file, Within(S, resolved))
    <3>1. \/ i \in 1 .. n /\ j \in 1 .. n
          \/ i \in 1 .. n /\ j = n + 1
          \/ i = n + 1 /\ j = n + 1
      BY <1>5, <2>2
    <3>2. CASE i \in 1 .. n /\ j \in 1 .. n
      <4>1. \A k \in i .. j : k \in 1 .. n /\ compilers[k].file \in S
        BY <1>5, <1>7, <2>2, <3>2
      <4>2. Leads(compilers[i].file, compilers[j].file, Within(S, resolved))
        BY <2>2, <3>2, <4>1 DEF IInv, CompilersOK
      <4> QED  BY <1>5, <1>7, <3>2, <4>2
    <3>3. CASE i \in 1 .. n /\ j = n + 1
      <4>1. \A k \in i .. n : k \in 1 .. n /\ k \in i .. j /\ compilers[k].file \in S
        BY <1>5, <1>7, <2>2, <3>3
      <4>2. j \in i .. j /\ compilers'[j].file = f /\ f \in S
        BY <1>5, <1>6, <1>7, <2>2, <3>3
      <4>3. Leads(compilers[i].file, f, Within(S, resolved))
        BY <1>12, <3>3, <4>1, <4>2
      <4> QED  BY <1>5, <1>7, <3>3, <4>2, <4>3
    <3>4. CASE i = n + 1 /\ j = n + 1
      BY <1>6, <1>7, <3>4, LeadsSelf
    <3> QED  BY <3>1, <3>2, <3>3, <3>4
  <2> QED  BY <1>2, <1>7, <2>1, <2>2 DEF CompilersOK
<1>14. ReentryRepeatsDirectory'
  <2>1. \A k \in 1 .. n : compilers'[k].file = compilers[k].file
    BY <1>5, <1>7
  <2>2. ASSUME NEW i \in 1 .. n + 1, NEW j \in 1 .. n + 1, i < j,
               compilers'[i].file = compilers'[j].file
        PROVE  \E k, l \in i .. j : /\ compilers'[k].file # compilers'[l].file
                                     /\ Dir[compilers'[k].file] = Dir[compilers'[l].file]
    <3>0. n \in Nat /\ i < j
      BY <1>5, <2>2
    <3>1. i \in 1 .. n /\ (j \in 1 .. n \/ j = n + 1)
      BY <3>0
    <3>2. CASE j \in 1 .. n
      <4>1. PICK k \in i .. j, l \in i .. j : /\ compilers[k].file # compilers[l].file
                                             /\ Dir[compilers[k].file] = Dir[compilers[l].file]
        BY <2>1, <2>2, <3>1, <3>2 DEF IInv, ReentryRepeatsDirectory, RepeatsDirectory
      <4>2. k \in 1 .. n /\ l \in 1 .. n
        BY <1>5, <3>1, <3>2
      <4> QED  BY <2>1, <4>1, <4>2
    <3>3. CASE j = n + 1
      <4> DEFINE S == {compilers[k].file : k \in i .. n}
      <4>1. \A k \in i .. n : k \in 1 .. n /\ k \in i .. j /\ compilers'[k].file = compilers[k].file
        BY <1>5, <2>1, <3>1, <3>3
      <4>2. S \in SUBSET Files /\ \A k \in i .. n : compilers[k].file \in S
        BY <1>5, <4>1
      <4>3. compilers[i].file = f /\ i \in i .. n
        BY <1>5, <1>6, <1>7, <2>1, <2>2, <3>1, <3>3
      <4>4. f \in S
        BY <4>2, <4>3
      <4> HIDE DEF S
      <4>5. /\ Leads(f, compilers[n].file, Within(S, resolved))
            /\ f \in Within(S, resolved)[compilers[n].file]
        BY <1>12, <3>1, <4>2, <4>3, <4>4
      <4>6. ~Acyclic(Within(S, resolved))
        BY <1>5, <4>5 DEF Acyclic
      <4>7. ~Apart(S)
        BY <1>3, <4>2, <4>6 DEF IInv, NoCycleRecorded
      <4>8. PICK x \in S, y \in S : x # y /\ Dir[x] = Dir[y]
        BY <4>7 DEF Apart
      <4>9. PICK k \in i .. n, l \in i .. n : x = compilers[k].file /\ y = compilers[l].file
        BY <4>8 DEF S
      <4> QED  BY <4>1, <4>8, <4>9
    <3> QED  BY <3>1, <3>2, <3>3
  <2> QED  BY <1>7, <2>2 DEF ReentryRepeatsDirectory, RepeatsDirectory
<1>15. /\ WorkOK' /\ CheckedOnce' /\ ErrorsSurface' /\ ImportsFollowed'
       /\ NoCycleRecorded' /\ AcyclicAccepted'
  BY <1>2 DEF IInv, WorkOK, CheckedOnce, Distinct, ErrorsSurface, ImportsFollowed,
              NoCycleRecorded, AcyclicAccepted
<1> QED  BY <1>1, <1>13, <1>14, <1>15 DEF IInv

(* The compilers that are left were there before.                          *)
LEMMA CompileEndsStep ==
  ASSUME IInv, CompileFails \/ CompileReturns  PROVE IInv'
<1>1. TypeOK /\ TypeOK'
  BY TypeStep DEF IInv, Next
<1>2. /\ phase = "compile" /\ phase' # "check"
      /\ UNCHANGED <<imports, packages, resolved, checkers, erroneous, cyclic>>
  BY DEF CompileFails, CompileReturns
<1>3. erroneous = {}
  BY <1>2 DEF IInv, ErrorsSurface
<1>4. /\ WorkOK' /\ CheckedOnce' /\ ErrorsSurface' /\ ImportsFollowed'
      /\ NoCycleRecorded' /\ AcyclicAccepted'
  BY <1>2, <1>3 DEF IInv, WorkOK, CheckedOnce, Distinct, ErrorsSurface, ImportsFollowed,
              NoCycleRecorded, AcyclicAccepted
<1>5. CASE CompileFails
  <2>1. compilers' = <<>>
    BY <1>5 DEF CompileFails
  <2> QED  BY <1>1, <1>4, <2>1 DEF IInv, CompilersOK, ReentryRepeatsDirectory, RepeatsDirectory
<1>6. CASE CompileReturns
  <2>1. compilers \in Seq(Work) /\ compilers # <<>> /\ compilers' = Front(compilers)
    BY <1>1, <1>2, <1>6 DEF TypeOK, CompileReturns
  <2>2. /\ Len(compilers) \in Nat \ {0} /\ Len(compilers') = Len(compilers) - 1
        /\ \A i \in 1 .. Len(compilers) - 1 : compilers'[i] = compilers[i]
    BY <2>1, TopStack, FrontStack
  <2>3. 1 .. Len(compilers) - 1 \subseteq 1 .. Len(compilers)
    BY <2>2
  <2>4. CompilersOK'
    <3>1. ASSUME NEW S \in SUBSET Files, NEW i \in 1 .. Len(compilers'), NEW j \in 1 .. Len(compilers'),
                 i <= j, \A k \in i .. j : compilers'[k].file \in S
          PROVE  Leads(compilers'[i].file, compilers'[j].file, Within(S, resolved))
      <4>1. \A k \in i .. j : k \in 1 .. Len(compilers) /\ compilers'[k] = compilers[k]
        BY <2>2, <3>1
      <4>2. i \in i .. j /\ j \in i .. j
        BY <2>2, <3>1
      <4>3. Leads(compilers[i].file, compilers[j].file, Within(S, resolved))
        BY <3>1, <4>1, <4>2 DEF IInv, CompilersOK
      <4> QED  BY <4>1, <4>2, <4>3
    <3>2. \A i \in 1 .. Len(compilers') : /\ compilers'[i].file \in packages
                                           /\ compilers'[i].todo \subseteq resolved[compilers'[i].file]
      BY <2>2, <2>3 DEF IInv, CompilersOK
    <3> QED  BY <1>2, <3>1, <3>2 DEF CompilersOK
  <2>5. ReentryRepeatsDirectory'
    <3>1. ASSUME NEW i \in 1 .. Len(compilers'), NEW j \in 1 .. Len(compilers'), i < j,
                 compilers'[i].file = compilers'[j].file
          PROVE  \E k, l \in i .. j : /\ compilers'[k].file # compilers'[l].file
                                       /\ Dir[compilers'[k].file] = Dir[compilers'[l].file]
      <4>1. \A k \in i .. j : k \in 1 .. Len(compilers) /\ compilers'[k] = compilers[k]
        BY <2>2, <3>1
      <4>2. i \in i .. j /\ j \in i .. j
        BY <2>2, <3>1
      <4>3. PICK k \in i .. j, l \in i .. j : /\ compilers[k].file # compilers[l].file
                                             /\ Dir[compilers[k].file] = Dir[compilers[l].file]
        BY <3>1, <4>1, <4>2 DEF IInv, ReentryRepeatsDirectory, RepeatsDirectory
      <4> QED  BY <4>1, <4>3
    <3> QED  BY <3>1 DEF ReentryRepeatsDirectory, RepeatsDirectory
  <2> QED  BY <1>1, <1>4, <2>4, <2>5 DEF IInv
<1> QED  BY <1>5, <1>6

-----------------------------------------------------------------------------
LEMMA InvInit == Init => IInv
<1>1. SUFFICES ASSUME Init  PROVE IInv
  OBVIOUS
<1>2. TypeOK
  BY <1>1, TypeInit
<1>3. /\ packages = {Root} /\ erroneous = {} /\ cyclic = FALSE /\ compilers = <<>>
      /\ phase = "check" /\ checkers = <<Checker(Root)>>
      /\ \A f \in Files : resolved[f] = {}
  BY <1>1 DEF Init
<1>4. /\ Len(checkers) = 1 /\ checkers[1] = Checker(Root)
      /\ checkers[1].file = Root /\ checkers[1].todo = imports[Root]
  BY <1>2, <1>3, ConstantsAssumption, WorkType, OneStack DEF Checker
<1>5. 1 \in 1 .. Len(checkers) /\ \A i \in 1 .. Len(checkers) : i = 1
  BY <1>4
<1>6. WorkOK /\ CheckedOnce
  BY <1>3, <1>4, <1>5 DEF WorkOK, CheckedOnce, Distinct
<1>7. ErrorsSurface /\ AcyclicAccepted
  BY <1>3 DEF ErrorsSurface, AcyclicAccepted
<1>8. ImportsFollowed
  BY <1>3, <1>4, <1>5 DEF ImportsFollowed
<1>9. NoCycleRecorded
  <2>1. \A S \in SUBSET Files : \A f \in Files : Within(S, resolved)[f] = {}
    BY <1>3 DEF Within
  <2> QED  BY <2>1 DEF NoCycleRecorded, Acyclic
<1>10. CompilersOK /\ ReentryRepeatsDirectory
  BY <1>3 DEF CompilersOK, ReentryRepeatsDirectory, RepeatsDirectory
<1> QED  BY <1>2, <1>6, <1>7, <1>8, <1>9, <1>10 DEF IInv

LEMMA InvStep == IInv /\ [Next]_vars => IInv'
<1>1. SUFFICES ASSUME IInv, [Next]_vars  PROVE IInv'
  OBVIOUS
<1>2. CASE Next
  BY <1>1, <1>2, SelfImportStep, CyclicImportStep, BindImportStep, LoadImportStep,
     UnreadableImportStep, CheckReturnsStep, CompileImportStep, CompileEndsStep DEF Next
<1>3. CASE UNCHANGED vars
  <2>1. TypeOK'
    BY <1>1, TypeStep DEF IInv
  <2>2. WorkOK' /\ CheckedOnce' /\ ErrorsSurface'
    BY <1>1, <1>3 DEF vars, IInv, WorkOK, CheckedOnce, Distinct, ErrorsSurface
  <2>3. ImportsFollowed' /\ CompilersOK'
    BY <1>1, <1>3 DEF vars, IInv, ImportsFollowed, CompilersOK
  <2>4. NoCycleRecorded' /\ AcyclicAccepted' /\ ReentryRepeatsDirectory'
    BY <1>1, <1>3 DEF vars, IInv, NoCycleRecorded, AcyclicAccepted, ReentryRepeatsDirectory, RepeatsDirectory
  <2> QED  BY <2>1, <2>2, <2>3, <2>4 DEF IInv
<1> QED  BY <1>1, <1>2, <1>3

(* The invariant of checker and compilers above holds in every state.     *)
THEOREM InvariantHolds == Spec => []IInv
BY InvInit, InvStep, PTL DEF Spec

(* No file is checked inside its own check (CheckedOnce, imports.go:83).   *)
THEOREM CheckedOnceHolds == Spec => []CheckedOnce
<1>1. IInv => CheckedOnce
  BY DEF IInv
<1> QED  BY <1>1, InvariantHolds, PTL

(* Whatever an import is checked for, its error reaches the program: only  *)
(* files that were loaded and checked without an error are compiled.       *)
THEOREM CompilesOnlyCheckedHolds == Spec => []CompilesOnlyChecked
<1>1. IInv => CompilesOnlyChecked
  <2>1. SUFFICES ASSUME IInv, NEW i \in 1 .. Len(compilers)
                 PROVE  compilers[i].file \in packages \ erroneous
    BY DEF CompilesOnlyChecked
  <2>2. compilers[i].file \in packages
    BY <2>1 DEF IInv, CompilersOK
  <2>3. compilers # <<>>
    BY <2>1
  <2>4. erroneous = {}
    BY <2>1, <2>3 DEF IInv, ErrorsSurface, TypeOK
  <2> QED  BY <2>2, <2>4
<1> QED  BY <1>1, InvariantHolds, PTL

(* A cycle is reported only when the program's imports have one: no        *)
(* diamond is rejected (checkCyclicImport).                                *)
THEOREM AcyclicAcceptedHolds == Spec => []AcyclicAccepted
<1>1. IInv => AcyclicAccepted
  BY DEF IInv
<1> QED  BY <1>1, InvariantHolds, PTL

(* Wherever the files are, a file is compiled inside its own compilation   *)
(* only by way of two files of one directory, though the compiler itself   *)
(* has no check (processImport, compiler.go:889).                          *)
THEOREM ReentryRepeatsDirectoryHolds == Spec => []ReentryRepeatsDirectory
<1>1. IInv => ReentryRepeatsDirectory
  BY DEF IInv
<1> QED  BY <1>1, InvariantHolds, PTL

(* And so none is in a program without two such files, a program of one    *)
(* file per directory among them.                                          *)
COROLLARY NoReentryHolds ==
  ASSUME Apart(Files)
  PROVE  Spec => []NoReentry
<1>1. IInv => NoReentry
  <2>1. SUFFICES ASSUME IInv, NEW i \in 1 .. Len(compilers), NEW j \in 1 .. Len(compilers), i < j,
                        compilers[i].file = compilers[j].file
                 PROVE  FALSE
    BY SMT DEF NoReentry, Distinct
  <2>2. PICK k \in i .. j, l \in i .. j : /\ compilers[k].file # compilers[l].file
                                         /\ Dir[compilers[k].file] = Dir[compilers[l].file]
    BY <2>1 DEF IInv, ReentryRepeatsDirectory, RepeatsDirectory
  <2>3. k \in 1 .. Len(compilers) /\ l \in 1 .. Len(compilers)
    OBVIOUS
  <2>4. compilers[k].file \in Files /\ compilers[l].file \in Files
    BY <2>1, <2>3, TopStack DEF IInv, TypeOK
  <2> QED  BY <2>2, <2>4 DEF Apart
<1> QED  BY <1>1, InvariantHolds, PTL
=============================================================================
