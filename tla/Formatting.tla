----------------------------- MODULE Formatting -----------------------------
(* bakfmt, and the formatting of the language server: a text is parsed, the  *)
(* tree is printed, and what was printed is the text that is parsed next.    *)
EXTENDS Printing

CONSTANT Texts      \* the texts considered, as sequences of tokens

VARIABLES stage, tokens, first, output, second

vars == <<stage, tokens, first, output, second>>

Init ==
  /\ stage = "given"
  /\ tokens \in Texts
  /\ first = Error
  /\ output = <<>>
  /\ second = Error

\* Format parses; a text with errors is left as it is.
Read ==
  /\ stage = "given"
  /\ first' = Parse(tokens)
  /\ stage' = IF first'.ok THEN "parsed" ELSE "refused"
  /\ UNCHANGED <<tokens, output, second>>

Write ==
  /\ stage = "parsed"
  /\ output' = PrintStatements(first.node.kids)
  /\ stage' = "written"
  /\ UNCHANGED <<tokens, first, second>>

ReadAgain ==
  /\ stage = "written"
  /\ second' = Parse(Lex(output))
  /\ stage' = "compared"
  /\ UNCHANGED <<tokens, first, output>>

Next == Read \/ Write \/ ReadAgain

Spec == Init /\ [][Next]_vars

-----------------------------------------------------------------------------

(* Shapes of trees whose printed text is not read as the same tree.          *)

\* (a..b).c is printed a..b.c, and -(a..b) is printed -a..b: ranges get no parentheses.
RangeAsOperand(n) ==
  \E i \in DOMAIN n.kids : n.kids[i].kind = "range" /\ OperandLevel(n, i) > precLessGreater

\* (a.f)(b), the call of what the field holds, is printed a.f(b), the call of a method.
CalledField(n) == n.kind = "call" /\ n.kids[1].kind = "dot"

\* [a..b,], a vector of one range, is printed [a..b], the range.
VectorOfRange(n) ==
  n.kind = "vec" /\ Len(n.kids) = 1 /\ n.kids[1].kind \in {"range", "interval"}

\* &(mut a) is printed &mut a.
BorrowOfMut(n) == n.kind = "borrow" /\ n.word = "" /\ n.kids[1].kind = "mut"

\* return [a], b is printed on several lines with a comma after b.
SpreadResults(n) == n.kind = "tuple" /\ Spread(n.kids)

\* if (a.T) {} is printed if a.T {}, and T {} is a struct literal.
TypeNameBeforeEmptyBlock(n) ==
  /\ n.kind \in {"if", "while", "for", "switch", "case"}
  /\ Len(n.kids) = 1 \/ n.kids[2].kids = <<>>
  /\ LET heads == IF n.kind = "case" THEN n.kids[1].kids ELSE <<n.kids[1]>>
         head == Last(heads)
     IN  Last(IF n.kind \in {"switch", "case"} THEN PrintScrutinee(head)
              ELSE PrintExpression(head, precLowest)) \in UpperNames

\* T{b: x, a: y} is printed T{a: y, b: x}, and a field that is given twice once.
ReorderedFields(n) == n.kind = "struct" /\ SortedFields(Tail(n.kids)) # Tail(n.kids)

\* A statement that begins with a word or a brace of its own: ({a: b}).a = c.
UngroupedStart(n) ==
  n.kind \in {"expr", "assign"} /\ Head(PrintStatement(n)) \in {"{", "func", "mut", "type"}

\* Nothing ends a return or a variable without a value but what follows it.
OpenEnd(s) ==
  \/ s.kind = "return" /\ s.kids = <<>>
  \/ s.kind = "var" /\ s.kids[2] = Nil /\ s.kids[3] = Nil

\* A parenthesis that the printer adds itself begins the next statement:
\* a = b; f().g() is printed a = b, new line, (f()).g(), and read a = b(f()).g().
Absorbed(s, next) ==
  CanAbsorbContinuation(s) /\ ~NeedsSeparator(s, next) /\ Head(PrintStatement(next)) = "("

\* &(&T) is printed &&T, of which the lexer makes one token.
DoubleReference(n) == n.kind = "ref" /\ n.word = "" /\ n.kids[1].kind = "ref"

\* A type with a name, a: T, is printed without parentheses; results have their own.
NamedAlone(n) ==
  \E i \in DOMAIN n.kids :
    /\ n.kids[i].kind = "named"
    /\ n.kind # "tupleType"
    /\ ~(n.kind \in {"signature", "funcType"} /\ i = 1)

\* What the printer does not print: words that were skipped, the "trace" of a function
\* and the "pub" of constants in parentheses.
Dropped(n) ==
  \/ n.kind = "skipped"
  \/ n.kind = "function" /\ n.word \in {"trace", "pub trace"}
  \/ n.kind = "consts" /\ \E i \in DOMAIN n.kids : n.kids[i].word = "pub"

Changed(n) ==
  \/ Dropped(n) \/ DoubleReference(n) \/ NamedAlone(n) \/ ReorderedFields(n)
  \/ RangeAsOperand(n) \/ CalledField(n) \/ VectorOfRange(n) \/ BorrowOfMut(n)
  \/ SpreadResults(n) \/ TypeNameBeforeEmptyBlock(n) \/ UngroupedStart(n)
  \/ /\ n.kind = "block"
     /\ \E i \in 1 .. Len(n.kids) - 1 : OpenEnd(n.kids[i]) \/ Absorbed(n.kids[i], n.kids[i + 1])

RECURSIVE Subtrees(_)
Subtrees(n) == {n} \cup UNION {Subtrees(n.kids[i]) : i \in DOMAIN n.kids}

\* The text with every token that may end two type arguments, or one and begin a value,
\* as two.
Divided(ts) ==
  LET apart(token) == CASE token = ">>" -> <<">", ">">>
                        [] token = ">=" -> <<">", "=">>
                        [] OTHER -> <<token>>
  IN  FlattenSeq([i \in DOMAIN ts |-> apart(ts[i])])

\* A token of a text is never seen by the parser, after one was divided.
Lost(parsed, ts) == Divided(parsed.seen) # Divided(ts)

-----------------------------------------------------------------------------
(* What formatting promises.                                                 *)

\* What the formatter prints is accepted by the parser, and is the program that
\* was read: precedences of printer and parser agree, and so do the places where
\* one ends a statement and the other sees its end, and every declaration is
\* printed with all that it says.  The shapes above are the exceptions, and texts of
\* which the parser loses a token.
TreeKept ==
  stage = "compared" /\ ~(\E n \in Subtrees(first.node) : Changed(n)) /\ ~Lost(second, Lex(output))
    => second.ok /\ second.node = first.node

\* Parentheses and lists may be written in other ways, no result may be written
\* "void", and Vec<T> is Vec<T, _>.
Inessential == {"(", ")", "[", "]", "{", "}", ",", ";", ":", "<", ">", "void", "_"}
Significant(ts) == SelectSeq(Divided(ts), LAMBDA t : t \notin Inessential)

\* Formatting neither drops nor adds nor moves a word or an operator of a text that
\* it accepts and sees in full.  The exceptions are what the printer drops (above),
\* references to references, of which it makes another operator, and the fields of
\* a struct literal, which it sorts by name and prints once each.
WordsKept ==
  LET exempt == \E n \in Subtrees(first.node) :
                  Dropped(n) \/ DoubleReference(n) \/ ReorderedFields(n)
  IN  stage = "written" /\ ~exempt /\ ~Lost(first, tokens)
        => Significant(Lex(output)) = Significant(tokens)
=============================================================================
