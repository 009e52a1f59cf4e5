------------------------------ MODULE Printing ------------------------------
(* The formatter (pkg/formatter): the text it prints for a tree, with white  *)
(* space where it writes some and none where it writes none.  Lines, indents *)
(* and comments are left out; a list is on several lines, and then ends with *)
(* a comma, when it holds a complex expression.  (The formatter also spreads *)
(* lists that were on several lines before or would pass the margin.)        *)
EXTENDS Syntax

CONSTANT Alphabetical   \* the names, as sort.Strings orders them

ASSUME AlphabeticalAssumption == ToSet(Alphabetical) = Names

Levels ==
  [t \in {"||"} |-> 2] @@ [t \in {"&&"} |-> 3] @@ [t \in {"==", "!="} |-> 4]
  @@ [t \in {"<", ">", "<=", ">="} |-> 5] @@ [t \in {"|"} |-> 6] @@ [t \in {"^"} |-> 7]
  @@ [t \in {"&"} |-> 8] @@ [t \in {"<<", ">>"} |-> 9] @@ [t \in {"+", "-"} |-> 10]
  @@ [t \in {"*", "/", "%"} |-> 11]
precLowest == 1
precLessGreater == 5
precPrefix == 12
precCall == 13
precIndex == 14
precDot == 15

\* Literals, ranges and everything in brackets of its own are at the lowest level.
Level(e) ==
  CASE e.kind = "infix" -> Levels[e.word]
    [] e.kind \in {"prefix", "borrow", "deref", "try"} -> precPrefix
    [] e.kind = "call" -> precCall
    [] e.kind \in {"unwrap", "index"} -> precIndex
    [] e.kind \in {"dot", "method"} -> precDot
    [] OTHER -> precLowest

\* A mistake: operators of one level are taken to be associative.
OperandLevelLoose(e, i) ==
  CASE e.kind = "infix" -> Levels[e.word]
    [] e.kind = "range" -> precLessGreater + (i - 1)
    [] e.kind \in {"prefix", "borrow", "deref", "try"} -> precPrefix
    [] e.kind \in {"call", "unwrap"} /\ i = 1 -> precCall
    [] e.kind \in {"dot", "method", "index"} /\ i = 1 -> precIndex
    [] OTHER -> precLowest

\* The level at which a node prints its i-th subtree; brackets start at the lowest.
OperandLevel(e, i) ==
  CASE e.kind = "infix" -> Levels[e.word] + (i - 1)
    [] e.kind = "range" -> precLessGreater + (i - 1)
    [] e.kind \in {"prefix", "borrow", "deref", "try"} -> precPrefix
    [] e.kind \in {"call", "unwrap"} /\ i = 1 -> precCall
    [] e.kind \in {"dot", "method", "index"} /\ i = 1 -> precIndex
    [] OTHER -> precLowest

RECURSIVE Complexity(_), PrintExpression(_, _), PrintStatement(_), PrintStatements(_)

Complexity(e) ==
  IF e.kind = "infix" THEN 1 + Complexity(e.kids[1]) + Complexity(e.kids[2]) ELSE 0

IsComplex(e) ==
  \/ e.kind \in {"struct", "vec", "func"}
  \/ e.kind = "call" /\ Len(e.kids) > 2
  \/ e.kind = "method" /\ Len(e.kids) > 2
  \/ e.kind = "infix" /\ Complexity(e) > 2

Spread(es) == \E i \in DOMAIN es : IsComplex(es[i])

\* Expressions at the lowest level, each followed by a comma.
PrintEach(es) ==
  FlattenSeq([i \in DOMAIN es |-> PrintExpression(es[i], precLowest) \o <<",", " ">>])

\* The statements or members that the program's tree holds.
Kept(nodes) == SelectSeq(nodes, LAMBDA n : n.kind # "skipped")

Joined(es, Item(_)) ==
  FlattenSeq([i \in DOMAIN es |-> (IF i = 1 THEN <<>> ELSE <<",", " ">>) \o Item(es[i])])

\* On several lines every expression has its comma, the last one too.
PrintExpressionList(es, multiline) ==
  IF es = <<>> \/ multiline \/ (Len(es) > 1 /\ Spread(es)) THEN PrintEach(es)
  ELSE SubSeq(PrintEach(es), 1, Len(PrintEach(es)) - 2)

-----------------------------------------------------------------------------
(* Types (pkg/typestr), parameters and results.                              *)

RECURSIVE PrintType(_)
PrintType(t) ==
  CASE t.kind = "type" ->
         (IF t.kids[1] = Nil THEN <<>> ELSE <<t.kids[1].word, ".">>) \o <<t.word>>
         \o (IF Len(t.kids) = 1 THEN <<>> ELSE <<"<">> \o Joined(Tail(t.kids), PrintType) \o <<">">>)
    [] t.kind = "size" -> <<t.word>>
    [] t.kind = "ref" -> <<"&">> \o (IF t.word = "mut" THEN <<"mut", " ">> ELSE <<>>)
                         \o PrintType(t.kids[1])
    [] t.kind = "void" -> <<"void">>
    [] t.kind = "tupleType" -> <<"(">> \o Joined(t.kids, PrintType)
                               \o (IF Len(t.kids) = 1 THEN <<",">> ELSE <<>>) \o <<")">>
    [] t.kind = "funcType" -> <<"func", "(">> \o Joined(t.kids[2].kids, PrintType)
                              \o <<")", " ", "->", " ", "(">> \o PrintType(t.kids[1]) \o <<")">>
    [] t.kind = "named" -> <<t.word, ":", " ">> \o PrintType(t.kids[1])

\* ": T", or nothing where no type was written.
PrintAnnotation(t) == IF t = Nil THEN <<>> ELSE <<":", " ">> \o PrintType(t)

PrintTypeParams(list) ==
  IF list.kids = <<>> THEN <<>>
  ELSE <<"<">> \o Joined(list.kids, LAMBDA name : <<name.word>>) \o <<">">>

PrintParameter(p) ==
  (IF p.word = "mut" THEN <<"mut", " ">> ELSE <<>>) \o <<p.kids[1].word>> \o PrintAnnotation(p.kids[2])

\* More than four parameters are on lines of their own.
PrintParameters(ps) ==
  Joined(ps, PrintParameter) \o (IF Len(ps) > 4 THEN <<",">> ELSE <<>>)

PrintSignature(s) ==
  <<"(">> \o PrintParameters(s.kids[2].kids) \o <<")", " ", "->", " ", "(">>
  \o PrintType(s.kids[1]) \o <<")", " ">>

-----------------------------------------------------------------------------
(* Expressions.                                                              *)

\* A field that is a number, or a number, is kept apart from the dot.
NumericMemberBoundary(object) ==
  IF \/ object.kind = "int"
     \/ object.kind = "dot" /\ object.word \in Digits
  THEN <<" ">> ELSE <<>>

\* Each field of a struct literal once, ordered by name.
SortedFields(fields) ==
  LET names == SelectSeq(Alphabetical, LAMBDA n : \E f \in ToSet(fields) : f.word = n)
  IN  [i \in DOMAIN names |-> CHOOSE f \in ToSet(fields) : f.word = names[i]]

\* On several lines the last field has its comma too.
PrintStructLiteral(e) ==
  LET name == Head(e.kids)
      fields == SortedFields(Tail(e.kids))
      field(f) == <<f.word, ":", " ">> \o PrintExpression(f.kids[1], precLowest)
      multiline == Len(fields) > 2 \/ \E i \in DOMAIN fields : IsComplex(fields[i].kids[1])
  IN  (IF name = Nil THEN <<>> ELSE PrintExpression(name, precLowest))
      \o <<"{">> \o Joined(fields, field) \o (IF multiline THEN <<",", " ">> ELSE <<>>) \o <<"}">>

PrintBlock(b) == <<"{", " ">> \o PrintStatements(b.kids) \o <<"}">>

Arguments(e) ==
  <<"(">> \o PrintExpressionList(Tail(e.kids), Len(e.kids) > 1 /\ IsComplex(e)) \o <<")">>

Bare(e) ==
  LET sub(i) == PrintExpression(e.kids[i], OperandLevel(e, i)) IN
  CASE e.kind \in {"name", "int"} -> <<e.word>>
    [] e.kind = "void" -> <<"void">>
    [] e.kind = "mut" -> <<"mut", " ", e.word>>
    [] e.kind = "prefix" -> <<e.word>> \o sub(1)
    [] e.kind = "try" -> <<"try", " ">> \o sub(1)
    [] e.kind = "unwrap" -> sub(1) \o <<"?">>
    [] e.kind = "deref" -> <<"*">> \o sub(1)
    [] e.kind = "borrow" ->
         <<"&">> \o (CASE e.word = "mut" -> <<"mut", " ">>
                       [] e.word = "" /\ e.kids[1].kind = "borrow" -> <<" ">>
                       [] OTHER -> <<>>) \o sub(1)
    [] e.kind = "infix" -> sub(1) \o <<" ", e.word, " ">> \o sub(2)
    [] e.kind = "range" -> sub(1) \o <<"..">> \o sub(2)
    [] e.kind = "interval" -> <<"[">> \o sub(1) \o <<",", " ">> \o sub(2) \o <<")">>
    [] e.kind = "call" -> sub(1) \o Arguments(e)
    [] e.kind = "method" ->
         sub(1) \o NumericMemberBoundary(e.kids[1]) \o <<".", e.word>> \o Arguments(e)
    [] e.kind = "dot" -> sub(1) \o NumericMemberBoundary(e.kids[1]) \o <<".", e.word>>
    [] e.kind = "index" -> sub(1) \o <<"[">> \o sub(2) \o <<"]">>
    [] e.kind = "struct" -> PrintStructLiteral(e)
    [] e.kind = "vec" ->
         <<"[">> \o PrintExpressionList(e.kids, Len(e.kids) > 3 \/ Spread(e.kids)) \o <<"]">>
    [] e.kind = "variant" ->
         <<e.word>> \o (IF e.kids = <<>> THEN <<>>
                        ELSE <<"(">> \o PrintExpressionList(e.kids, FALSE) \o <<")">>)
    [] e.kind = "func" -> <<"func">> \o PrintSignature(e.kids[1]) \o PrintBlock(e.kids[2])
    [] e.kind = "convert" -> <<e.word, "(">> \o sub(1) \o <<")">>

PrintExpression(e, parentLevel) ==
  IF Level(e) # precLowest /\ Level(e) < parentLevel
  THEN <<"(">> \o Bare(e) \o <<")">> ELSE Bare(e)

-----------------------------------------------------------------------------
(* The boundary between two statements.                                      *)

CanAbsorbContinuation(s) ==
  \/ s.kind \in {"expr", "assign", "panic", "multi", "const"}
  \/ s.kind = "var" /\ s.kids[3] # Nil
  \/ s.kind = "return" /\ s.kids # <<>>

RECURSIVE CanContinuePrevious(_), NeedsGrouping(_)
CanContinuePrevious(e) ==
  \/ e.kind \in {"borrow", "deref", "vec", "tuple", "struct", "range", "interval"}
  \/ e.kind = "prefix" /\ e.word = "-"
  \/ e.kind \in {"infix", "call", "method", "dot", "index", "unwrap"}
     /\ CanContinuePrevious(e.kids[1])

NeedsSeparator(current, next) ==
  /\ CanAbsorbContinuation(current)
  /\ \/ next.kind = "block"
     \/ next.kind \in {"expr", "assign"} /\ CanContinuePrevious(next.kids[1])

\* A statement may not begin with "{", "func" or "mut".
NeedsGrouping(e) ==
  \/ e.kind = "struct" /\ Head(e.kids) = Nil
  \/ e.kind \in {"func", "mut"}
  \/ e.kind \in {"infix", "call", "method", "dot", "index", "unwrap"} /\ NeedsGrouping(e.kids[1])

-----------------------------------------------------------------------------
(* Declarations.                                                             *)

Visible(d) == IF d.word \in {"pub", "pub trace", "pub mut"} THEN <<"pub", " ">> ELSE <<>>

\* Items in parentheses or braces, each on a line of its own.
Lines(items, Item(_)) == <<" ">> \o FlattenSeq([i \in DOMAIN items |-> Item(items[i]) \o <<" ">>])

PrintValue(v) == IF v = Nil THEN <<>> ELSE <<" ", "=", " ">> \o PrintExpression(v, precLowest)

PrintNamed(d) == <<d.kids[1].word>> \o PrintTypeParams(d.kids[2])

PrintVar(v) == <<v.kids[1].word>> \o PrintAnnotation(v.kids[2]) \o PrintValue(v.kids[3])

PrintImport(i) ==
  (IF i.kids[1] = Nil THEN <<>> ELSE <<i.kids[1].word, " ">>) \o <<i.kids[2].word>>

\* A mistake: a method that changes its receiver is printed as one that does not.
PrintFunctionAlike(d) ==
  Visible(d) \o <<"func", " ">> \o PrintNamed(d)
  \o PrintSignature(d.kids[3]) \o PrintBlock(d.kids[4])

\* A function, or a method with its "mut".
PrintFunction(d) ==
  Visible(d) \o (IF d.word \in {"mut", "pub mut"} THEN <<"mut", " ">> ELSE <<>>)
  \o <<"func", " ">> \o PrintNamed(d) \o PrintSignature(d.kids[3]) \o PrintBlock(d.kids[4])

PrintField(f) == Visible(f) \o <<f.kids[1].word>> \o PrintAnnotation(f.kids[2])

PrintVariant(v) ==
  <<v.word>> \o (IF v.kids = <<>> THEN <<>> ELSE <<"(">> \o Joined(v.kids, PrintType) \o <<")">>)

PrintMembers(members, Member(_)) == <<" ", "{">> \o Lines(Kept(members), Member) \o <<"}">>

PrintImpl(d) ==
  <<"impl", " ">> \o PrintNamed(d)
  \o (IF d.kids[3] = Nil THEN <<>> ELSE <<" ", "as", " ", d.kids[3].word>>)
  \o PrintMembers(SubSeq(d.kids, 4, Len(d.kids)), PrintFunction)

PrintDeclaration(d) ==
  LET members == SubSeq(d.kids, 3, Len(d.kids))
      block(word, Item(_)) == <<word, " ", "(">> \o Lines(d.kids, Item) \o <<")">>
  IN  CASE d.kind = "package" -> <<"package", " ", d.word>>
        [] d.kind = "import" -> <<"import", " ">> \o PrintImport(d)
        [] d.kind = "imports" -> block("import", PrintImport)
        [] d.kind = "vars" -> block("var", PrintVar)
        [] d.kind = "consts" -> block("const", PrintVar)
        [] d.kind = "const" -> Visible(d) \o <<"const", " ">> \o PrintVar(d)
        [] d.kind = "function" -> PrintFunction(d)
        [] d.kind = "structDecl" -> Visible(d) \o <<"struct", " ">> \o PrintNamed(d)
                                    \o PrintMembers(members, PrintField)
        [] d.kind = "enumDecl" -> Visible(d) \o <<"enum", " ">> \o PrintNamed(d)
                                  \o PrintMembers(members, PrintVariant)
        [] d.kind = "impl" -> PrintImpl(d)
        [] d.kind \in {"typeDecl", "aliasDecl"} ->
             Visible(d) \o <<IF d.kind = "typeDecl" THEN "type" ELSE "alias", " ", d.kids[1].word>>
             \o <<" ", "=", " ">> \o PrintType(d.kids[2])

-----------------------------------------------------------------------------
(* Statements.                                                               *)

Grouped(e) == <<"(">> \o PrintExpression(e, precLowest) \o <<")">>

\* A name before a block could be taken for the name of a struct literal.
PrintScrutinee(e) == IF e.kind = "name" THEN Grouped(e) ELSE PrintExpression(e, precLowest)

PrintCase(c) ==
  LET values == c.kids[1].kids
      value(i) == (IF i = 1 THEN <<>> ELSE <<",", " ">>) \o PrintScrutinee(values[i])
  IN  (IF c.kind = "default" THEN <<"default">>
       ELSE <<"case", " ">> \o FlattenSeq([i \in DOMAIN values |-> value(i)]))
      \o <<" ">> \o PrintBlock(Last(c.kids)) \o <<" ">>

PrintElse(b) ==
  LET ss == Kept(b.kids)
      elseIf == Len(ss) = 1 /\ ss[1].kind = "if"
  IN  <<" ", "else", " ">> \o (IF elseIf THEN PrintStatement(ss[1]) ELSE PrintBlock(b))

PrintStatement(s) ==
  LET sub(i) == PrintExpression(s.kids[i], precLowest) IN
  CASE s.kind = "var" ->
         (IF s.word = "mut" THEN <<"mut", " ">> ELSE <<>>) \o <<"var", " ">> \o PrintVar(s)
    [] s.kind = "multi" ->
         (IF s.word = "mut" THEN <<"mut", " ">> ELSE <<>>) \o <<"var", " ", "(">>
         \o Joined(s.kids[1].kids, LAMBDA name : <<name.word>>) \o <<")">> \o PrintValue(s.kids[2])
    [] s.kind = "return" ->
         <<"return">>
         \o (CASE s.kids = <<>> -> <<>>
               [] s.kids # <<>> /\ s.kids[1].kind = "tuple" ->
                    <<" ">> \o PrintExpressionList(s.kids[1].kids, FALSE)
               [] OTHER -> <<" ">> \o sub(1))
    [] s.kind = "expr" -> IF NeedsGrouping(s.kids[1]) THEN Grouped(s.kids[1]) ELSE sub(1)
    [] s.kind = "assign" -> sub(1) \o <<" ", "=", " ">> \o sub(2)
    [] s.kind = "block" -> PrintBlock(s)
    [] s.kind = "if" ->
         <<"if", " ">> \o sub(1) \o <<" ">> \o PrintBlock(s.kids[2])
         \o (IF Len(s.kids) = 2 THEN <<>> ELSE PrintElse(s.kids[3]))
    [] s.kind = "while" -> <<"while", " ">> \o sub(1) \o <<" ">> \o PrintBlock(s.kids[2])
    [] s.kind = "for" ->
         <<"for", " ", s.word, " ", "in", " ">> \o sub(1) \o <<" ">> \o PrintBlock(s.kids[2])
    [] s.kind = "switch" ->
         <<"switch", " ">> \o PrintScrutinee(s.kids[1]) \o <<" ", "{", " ">>
         \o FlattenSeq([i \in 1 .. Len(s.kids) - 1 |-> PrintCase(s.kids[i + 1])]) \o <<"}">>
    [] s.kind \in {"defer", "unsafe"} -> <<s.kind, " ">> \o PrintBlock(s.kids[1])
    [] s.kind = "panic" -> <<"panic", " ">> \o sub(1)
    [] s.kind \in {"break", "continue"} -> <<s.kind>>
    [] OTHER -> PrintDeclaration(s)

PrintStatements(statements) ==
  LET ss == Kept(statements)
      separator(i) == IF i < Len(ss) /\ NeedsSeparator(ss[i], ss[i + 1]) THEN <<";">> ELSE <<>>
  IN  FlattenSeq([i \in DOMAIN ss |-> PrintStatement(ss[i]) \o separator(i) \o <<" ">>])
=============================================================================
