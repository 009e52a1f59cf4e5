------------------------------- MODULE Tokens -------------------------------
(* The lexer of bak, and the parser where no expressions are involved: types,*)
(* parameters and results (pkg/lexer, pkg/parser/parser_types.go).  A text is*)
(* a sequence of words and punctuation, in which " " stands for white space. *)
(* A tree is a record of its kind, its word and its subtrees.                *)
(* Left out: comments, characters, and what strings contain.                 *)
EXTENDS Naturals, Sequences, SequencesExt, TLC

CONSTANTS
  LowerNames,   \* identifiers that begin with a lower-case letter
  UpperNames,   \* identifiers that begin with an upper-case letter
  Digits,       \* integer literals
  Strings       \* string literals

Names == LowerNames \cup UpperNames
Keywords == {"mut", "var", "return", "if", "else", "while", "for", "in", "switch",
             "case", "default", "defer", "panic", "unsafe", "break", "continue",
             "func", "void", "try", "int", "Ok", "_", "pub", "trace", "struct", "enum",
             "impl", "as", "type", "alias", "const", "import", "package"}
Words == Names \cup Digits \cup Keywords

-----------------------------------------------------------------------------
(* The lexer: the longest token is taken, wherever white space is missing.   *)

TwoCharTokens == {<<"=", "=">>, <<"-", ">">>, <<"!", "=">>, <<"<", "=">>, <<"<", "<">>,
                  <<">", "=">>, <<">", ">">>, <<"&", "&">>, <<"|", "|">>, <<".", ".">>}

Joins(a, b) == <<a, b>> \in TwoCharTokens \/ {a, b} \subseteq Words

\* A dot between two digits belongs to the number.
FloatFirst(text) ==
  Len(text) > 2 /\ text[2] = "." /\ {text[1], text[3]} \subseteq Digits

RECURSIVE Lex(_)
Lex(text) ==
  LET rest(n) == SubSeq(text, n + 1, Len(text)) IN
  CASE text = <<>> -> <<>>
    [] text # <<>> /\ Head(text) = " " -> Lex(rest(1))
    [] FloatFirst(text) -> <<text[1] \o "." \o text[3]>> \o Lex(rest(3))
    [] Len(text) > 1 /\ Joins(text[1], text[2]) -> <<text[1] \o text[2]>> \o Lex(rest(2))
    [] OTHER -> <<Head(text)>> \o Lex(rest(1))

-----------------------------------------------------------------------------
(* Trees, and what parsing returns: a tree and the place of its last token.  *)
(* The parser stops at its first error: what it reports afterwards changes no*)
(* tree that anyone uses.                                                    *)

Node(kind, word, kids) == [kind |-> kind, word |-> word, kids |-> kids]
Nil == Node("nil", "", <<>>)
Name(word) == Node("name", word, <<>>)

Got(node, at) == [ok |-> TRUE, node |-> node, at |-> at]
Error == [ok |-> FALSE, node |-> Nil, at |-> 0]

\* The token at k is two of which the first ends what is being parsed.
SplitAt(k) == [ok |-> FALSE, node |-> Nil, at |-> k]

Then(result, Next(_)) == IF result.ok THEN Next(result) ELSE result

Token(ts, i) == IF i \in DOMAIN ts THEN ts[i] ELSE "EOF"

Expect(ts, result, token) ==
  Then(result, LAMBDA r : IF Token(ts, r.at + 1) = token THEN [r EXCEPT !.at = @ + 1] ELSE Error)

Wrap(kind, word, result) ==
  IF result.ok THEN [result EXCEPT !.node = Node(kind, word, <<@>>)] ELSE result

Of(kind, word, front, list) ==
  IF list.ok THEN [list EXCEPT !.node = Node(kind, word, front \o @.kids)] ELSE list

Before(node, list) == IF list.ok THEN [list EXCEPT !.node.kids = <<node>> \o @] ELSE list

Empty(at) == Got(Node("list", "", <<>>), at)

\* Items from the token at i on, with commas between them, and the token that ends
\* them.  A comma before the end is the word of the list.
Separated(ts, i, Item(_, _), end) ==
  LET from[k \in i .. Len(ts) + 1] ==
        Then(Item(ts, k),
          LAMBDA e :
            LET next == Token(ts, e.at + 1)
                over == Token(ts, e.at + 2) = end
            IN  CASE next = end -> Got(Node("list", "", <<e.node>>), e.at + 1)
                  [] next = "," /\ over -> Got(Node("list", ",", <<e.node>>), e.at + 2)
                  [] next = "," /\ ~over -> Before(e.node, from[e.at + 2])
                  [] OTHER -> Error)
  IN  from[i]

NoComma(result) == IF result.ok /\ result.node.word = "," THEN Error ELSE result

\* Where a comma before the end is taken with the end, which is then expected again.
CommaEnds(ts, result, end) ==
  IF result.ok /\ result.node.word = ","
  THEN Expect(ts, [result EXCEPT !.node.word = ""], end) ELSE result

-----------------------------------------------------------------------------
(* Types.  The token at i is the first one of what is parsed.                *)

TypeNames == Names \cup {"int"}
TypeStarts == TypeNames \cup {"&", "func", "(", "void"}
Void == Node("void", "", <<>>)

RECURSIVE Type(_, _)

TypeArgument(ts, i) ==
  IF Token(ts, i) \in {"_"} \cup Digits THEN Got(Node("size", Token(ts, i), <<>>), i)
                                       ELSE Type(ts, i)

TypeArguments(ts, i) ==
  LET from[k \in i .. Len(ts) + 1] ==
        Then(TypeArgument(ts, k),
          LAMBDA a :
            LET next == Token(ts, a.at + 1) IN
            CASE next = "," -> Before(a.node, from[a.at + 2])
              [] next = ">" -> Got(Node("list", "", <<a.node>>), a.at + 1)
              [] next \in {">>", ">="} -> SplitAt(a.at + 1)
              [] OTHER -> Error)
  IN  from[i]

\* Vec<T> is Vec<T, _>.
NamedType(ts, i, qualifier) ==
  LET name == Token(ts, i)
      sized(as) == IF name = "Vec" /\ qualifier = Nil /\ Len(as) = 1
                   THEN Append(as, Node("size", "_", <<>>)) ELSE as
  IN  IF Token(ts, i + 1) # "<" THEN Got(Node("type", name, <<qualifier>>), i)
      ELSE Then(TypeArguments(ts, i + 2), LAMBDA as :
             Got(Node("type", name, <<qualifier>> \o sized(as.node.kids)), as.at))

\* A result with or without a name.
ReturnType(ts, i) ==
  CASE Token(ts, i) \in Names /\ Token(ts, i + 1) = ":" ->
         Wrap("named", Token(ts, i), Type(ts, i + 2))
    [] Token(ts, i) \in Names /\ Token(ts, i + 1) \in TypeNames ->
         Wrap("named", Token(ts, i), Type(ts, i + 1))
    [] OTHER -> Type(ts, i)

ReturnTypes(ts, i) ==
  IF Token(ts, i + 1) = ")" THEN Got(Void, i + 1)
  ELSE Then(Separated(ts, i + 1, ReturnType, ")"), LAMBDA r :
         Got(IF Len(r.node.kids) = 1 /\ r.node.word = "" THEN r.node.kids[1]
             ELSE Node("tupleType", "", r.node.kids), r.at))

\* The arrow and the results that follow the parameters.
WithResult(ts, kind, params) ==
  Then(Expect(ts, Expect(ts, params, "->"), "("), LAMBDA ps :
    Then(ReturnTypes(ts, ps.at), LAMBDA r : Got(Node(kind, "", <<r.node, ps.node>>), r.at)))

FunctionType(ts, i) ==
  IF Token(ts, i + 1) # "(" THEN Error
  ELSE WithResult(ts, "funcType",
         IF Token(ts, i + 2) = ")" THEN Empty(i + 2)
                                   ELSE NoComma(Separated(ts, i + 2, Type, ")")))

Type(ts, i) ==
  LET token == Token(ts, i)
      next == Token(ts, i + 1)
  IN  CASE token = "&" -> IF next = "mut" THEN Wrap("ref", "mut", Type(ts, i + 2))
                                          ELSE Wrap("ref", "", Type(ts, i + 1))
        [] token = "func" -> FunctionType(ts, i)
        [] token = "void" -> Got(Void, i)
        [] token = "(" -> ReturnTypes(ts, i)
        [] token \in TypeNames /\ next # "." -> NamedType(ts, i, Nil)
        [] token \in TypeNames /\ next = "." ->
             IF Token(ts, i + 2) \in Names THEN NamedType(ts, i + 2, Name(token)) ELSE Error
        [] OTHER -> Error

\* The name of a type parameter or of a parameter may be any token.
TypeParameter(ts, i) ==
  IF Token(ts, i + 1) = ":" THEN Error ELSE Got(Name(Token(ts, i)), i)

\* The type parameters, if any, after the token at i.
TypeParameters(ts, i) ==
  CASE Token(ts, i + 1) # "<" -> Empty(i)
    [] Token(ts, i + 1) = "<" /\ Token(ts, i + 2) = ">" -> Empty(i + 2)
    [] OTHER -> CommaEnds(ts, Separated(ts, i + 2, TypeParameter, ">"), ">")

Parameter(ts, i) ==
  LET mutable == Token(ts, i) = "mut"
      at == IF mutable THEN i + 1 ELSE i
  IN  Then(Type(ts, IF Token(ts, at + 1) = ":" THEN at + 2 ELSE at + 1), LAMBDA t :
        Got(Node("param", IF mutable THEN "mut" ELSE "", <<Name(Token(ts, at)), t.node>>), t.at))

\* The parameters and the results of a function; "(" is at i.
Signature(ts, i) ==
  IF Token(ts, i) # "(" THEN Error
  ELSE WithResult(ts, "signature",
         IF Token(ts, i + 1) = ")" THEN Empty(i + 1)
         ELSE Then(Separated(ts, i + 1, Parameter, ")"), LAMBDA ps :
                Got([ps.node EXCEPT !.word = ""], ps.at)))
=============================================================================
