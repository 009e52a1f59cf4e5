------------------------------- MODULE Syntax -------------------------------
(* The parser of bak (pkg/parser): expressions, statements and declarations. *)
(* Left out: literals of strings, with expressions in them or not, and of    *)
(* characters, and generic types where an expression is expected.  One word  *)
(* stands for its kind: "Ok" for Err too, "int" for every type that converts,*)
(* a digit for numbers, true and false.                                      *)
EXTENDS Tokens

LOWEST == 1
Precedences ==
  [t \in {"||"} |-> 2] @@ [t \in {"&&"} |-> 3] @@ [t \in {"==", "!="} |-> 4]
  @@ [t \in {"<", ">", "<=", ">=", ".."} |-> 5] @@ [t \in {"|"} |-> 6] @@ [t \in {"^"} |-> 7]
  @@ [t \in {"&"} |-> 8] @@ [t \in {"<<", ">>"} |-> 9] @@ [t \in {"+", "-"} |-> 10]
  @@ [t \in {"/", "*", "%"} |-> 11] @@ [t \in {"("} |-> 13] @@ [t \in {"["} |-> 14]
  @@ [t \in {"."} |-> 15] @@ [t \in {"?"} |-> 16]
PREFIX == 12
InfixOperators == DOMAIN Precedences \ {"(", "[", ".", "..", "?"}

Precedence(token) == IF token \in DOMAIN Precedences THEN Precedences[token] ELSE LOWEST

\* The token at i is a name and "{" follows: does a struct literal begin here?
LooksLikeStructLiteral(ts, i) ==
  /\ Token(ts, i + 1) = "{"
  /\ \/ Token(ts, i + 2) \in Names /\ Token(ts, i + 3) = ":"
     \/ Token(ts, i + 2) = "}" /\ Token(ts, i) \in UpperNames

-----------------------------------------------------------------------------
(* Expressions.  The token at i is the first one of what is parsed.          *)

RECURSIVE Expression(_, _, _), Continue(_, _, _), Statement(_, _), Statements(_, _, _, _)

Block(ts, i) == IF Token(ts, i) = "{" THEN Statements(ts, i + 1, "}", <<>>) ELSE Error

Value(ts, i) == Expression(ts, i, LOWEST)

\* The token at i opens a list that end closes; a comma may precede the end.
List(ts, i, end) ==
  IF Token(ts, i + 1) = end THEN Empty(i + 1) ELSE Separated(ts, i + 1, Value, end)

\* [a, b) is a range, and so is [a..b]: it is the range itself, without brackets.
Interval(ts, i) ==
  Then(Expect(ts, Value(ts, i + 1), ","), LAMBDA first :
    Then(Expect(ts, Value(ts, first.at + 1), ")"), LAMBDA second :
      Got(Node("interval", "", <<first.node, second.node>>), second.at)))

Unbracketed(list) ==
  IF /\ list.ok /\ list.node.word = "" /\ Len(list.node.kids) = 1
     /\ list.node.kids[1].kind \in {"range", "interval"}
  THEN Got(list.node.kids[1], list.at)
  ELSE Of("vec", "", <<>>, list)

Vec(ts, i) ==
  LET interval == Interval(ts, i)
  IN  IF interval.ok THEN interval ELSE Unbracketed(List(ts, i, "]"))

Field(ts, i) ==
  IF Token(ts, i) \in Names /\ Token(ts, i + 1) = ":"
  THEN Wrap("field", Token(ts, i), Value(ts, i + 2)) ELSE Error

\* Every name keeps its places in FieldOrder; of the values, Fields has the last one.
FieldsInOrder(fields) ==
  [f \in DOMAIN fields |-> Last(SelectSeq(fields, LAMBDA g : g.word = fields[f].word))]

StructLiteral(ts, i, name) ==
  Then(IF Token(ts, i + 1) = "}" THEN Empty(i + 1) ELSE Separated(ts, i + 1, Field, "}"),
    LAMBDA fs : Got(Node("struct", "", <<name>> \o FieldsInOrder(fs.node.kids)), fs.at))

FunctionLiteral(ts, i) ==
  Then(Signature(ts, i + 1), LAMBDA s :
    Then(Block(ts, s.at + 1), LAMBDA b : Got(Node("func", "", <<s.node, b.node>>), b.at)))

Borrow(ts, i) ==
  IF Token(ts, i + 1) = "mut" THEN Wrap("borrow", "mut", Expression(ts, i + 2, PREFIX))
                              ELSE Wrap("borrow", "", Expression(ts, i + 1, PREFIX))

\* The functions registered with registerPrefix.
Prefix(ts, i) ==
  LET token == Token(ts, i) IN
  CASE token \in Names \cup {"type"} /\ LooksLikeStructLiteral(ts, i) ->
         StructLiteral(ts, i + 1, Name(token))
    [] \/ token \in Names \cup {"type"} /\ ~LooksLikeStructLiteral(ts, i)
       \/ token = "_" -> Got(Name(token), i)
    [] token \in Digits -> Got(Node("int", token, <<>>), i)
    [] token = "void" -> Got(Void, i)
    [] token = "mut" /\ Token(ts, i + 1) \in Names ->
         Got(Node("mut", Token(ts, i + 1), <<>>), i + 1)
    [] token \in {"-", "!", "~"} -> Wrap("prefix", token, Expression(ts, i + 1, PREFIX))
    [] token = "&" -> Borrow(ts, i)
    [] token = "*" -> Wrap("deref", "", Expression(ts, i + 1, PREFIX))
    [] token = "try" -> Wrap("try", "", Expression(ts, i + 1, PREFIX))
    [] token = "(" -> Expect(ts, Value(ts, i + 1), ")")
    [] token = "[" -> Vec(ts, i)
    [] token = "{" -> StructLiteral(ts, i, Nil)
    [] token = "Ok" /\ Token(ts, i + 1) = "(" -> Of("variant", "Ok", <<>>, List(ts, i + 1, ")"))
    [] token = "Ok" /\ Token(ts, i + 1) # "(" -> Got(Node("variant", "Ok", <<>>), i)
    [] token = "int" /\ Token(ts, i + 1) = "(" ->
         Wrap("convert", "int", Expect(ts, Value(ts, i + 2), ")"))
    [] token = "func" -> FunctionLiteral(ts, i)
    [] OTHER -> Error

Dot(ts, i, left) ==
  LET field == Token(ts, i + 1)
      access == Node("dot", field, <<left>>)
  IN  CASE field \notin Names \cup Digits -> Error
        [] field \in Names \cup Digits /\ Token(ts, i + 2) = "(" ->
             Of("method", field, <<left>>, List(ts, i + 2, ")"))
        [] left.kind = "name" /\ LooksLikeStructLiteral(ts, i + 1) ->
             StructLiteral(ts, i + 2, access)
        [] OTHER -> Got(access, i + 1)

\* The functions registered with registerInfix; the operator is at i.
Infix(ts, i, left) ==
  LET token == Token(ts, i)
  IN  CASE token \in InfixOperators \cup {".."} ->
             Of(IF token = ".." THEN "range" ELSE "infix", token, <<left>>,
                Wrap("right", "", Expression(ts, i + 1, Precedence(token))))
        [] token = "(" -> Of("call", "", <<left>>, List(ts, i, ")"))
        [] token = "[" -> Of("index", "", <<left>>,
                             Wrap("in", "", Expect(ts, Value(ts, i + 1), "]")))
        [] token = "." -> Dot(ts, i, left)
        [] token = "?" -> Got(Node("unwrap", "", <<left>>), i)

Continue(ts, left, precedence) ==
  IF left.ok /\ Token(ts, left.at + 1) # "}" /\ precedence < Precedence(Token(ts, left.at + 1))
  THEN Continue(ts, Infix(ts, left.at + 1, left.node), precedence)
  ELSE left

Expression(ts, i, precedence) == Continue(ts, Prefix(ts, i), precedence)

-----------------------------------------------------------------------------
(* Statements.                                                               *)

\* What the parser passes over without a word.  The program's tree holds nothing of
\* it; this one does, so that properties can tell, unless it is punctuation.
Skipped(token, at) ==
  Got(IF token \in {",", ";"} THEN Nil ELSE Node("skipped", token, <<>>), at)

VarName(ts, i) == IF Token(ts, i) \in Names \cup {"_"} THEN Got(Name(Token(ts, i)), i) ELSE Error

\* What has been read, and the value after "=" if there is one.
WithValue(ts, kind, word, head) ==
  Then(head, LAMBDA h :
    IF Token(ts, h.at + 1) # "=" THEN Got(Node(kind, word, h.node.kids \o <<Nil>>), h.at)
    ELSE Of(kind, word, h.node.kids, Wrap("value", "", Value(ts, h.at + 2))))

\* The type, if there is one, of the variable at i.
Annotation(ts, i) ==
  IF Token(ts, i + 1) = ":" \/ Token(ts, i + 1) \in TypeStarts
  THEN Type(ts, IF Token(ts, i + 1) = ":" THEN i + 2 ELSE i + 1)
  ELSE Got(Nil, i)

\* var x, var x T, var x: T, each with or without a value.
Var(ts, i, word) ==
  WithValue(ts, "var", word,
    Then(VarName(ts, i + 1), LAMBDA n :
      Of("head", "", <<n.node>>, Wrap("type", "", Annotation(ts, i + 1)))))

\* var (a, b) = c
MultiVar(ts, i, word) ==
  Then(Expect(ts, NoComma(Separated(ts, i + 2, VarName, ")")), "="), LAMBDA ns :
    Of("multi", word, <<ns.node>>, Wrap("value", "", Value(ts, ns.at + 1))))

\* Declarations in parentheses, each from the token before it on; one ";" may follow it.
InParentheses(ts, kind, i, Item(_, _)) ==
  LET from[k \in i .. Len(ts) + 1] ==
        CASE Token(ts, k + 1) = ")" -> Empty(k + 1)
          [] Token(ts, k + 1) = "EOF" -> Error
          [] OTHER -> Then(Item(ts, k), LAMBDA v :
               Before(v.node, from[IF Token(ts, v.at + 1) = ";" THEN v.at + 1 ELSE v.at]))
  IN  IF Token(ts, i) = "(" THEN Of(kind, "", <<>>, from[i]) ELSE Error

TypedVar(ts, i) ==
  IF Token(ts, i + 1) \in Names /\ Token(ts, i + 2) = ":" THEN Var(ts, i, "") ELSE Error

VarDecl(ts, i) ==
  CASE Token(ts, i + 1) # "(" -> Var(ts, i, "")
    [] Token(ts, i + 1) = "(" /\ Token(ts, i + 2) \in Names \cup {"_"}
         /\ Token(ts, i + 3) \in {",", ")"} -> MultiVar(ts, i, "")
    [] OTHER -> InParentheses(ts, "vars", i + 1, TypedVar)

\* Any other "mut" is skipped.
MutDecl(ts, i) ==
  CASE Token(ts, i + 1) # "var" -> Skipped("mut", i)
    [] Token(ts, i + 1) = "var" /\ Token(ts, i + 2) = "(" -> MultiVar(ts, i + 1, "mut")
    [] OTHER -> Var(ts, i + 1, "mut")

Const(ts, i, word) ==
  IF Token(ts, i + 1) \notin Names THEN Error
  ELSE Then(Expect(ts, Type(ts, IF Token(ts, i + 2) = ":" THEN i + 3 ELSE i + 2), "="), LAMBDA t :
         Of("const", word, <<Name(Token(ts, i + 1)), t.node>>,
            Wrap("value", "", Value(ts, t.at + 1))))

ConstDecl(ts, i, word) ==
  IF Token(ts, i + 1) = "("
  THEN InParentheses(ts, "consts", i + 1, LAMBDA us, k : Const(us, k, word))
  ELSE Const(ts, i, word)

RECURSIVE Results(_, _)
Results(ts, i) ==
  Then(Value(ts, i),
    LAMBDA e :
      IF Token(ts, e.at + 1) = "," THEN Before(e.node, Results(ts, e.at + 2))
      ELSE Got(Node("list", "", <<e.node>>), e.at))

\* Two results or more are a tuple.
Return(ts, i) ==
  IF Token(ts, i + 1) \in {"}", ";", "EOF"} THEN Got(Node("return", "", <<>>), i)
  ELSE Then(Results(ts, i + 1), LAMBDA r :
         Got(Node("return", "", IF Len(r.node.kids) = 1 THEN r.node.kids
                                ELSE <<Node("tuple", "", r.node.kids)>>), r.at))

\* A condition, a value or an iterable, and the block that follows it.
WithBlock(ts, kind, word, head) ==
  Then(head, LAMBDA h :
    Then(Block(ts, h.at + 1), LAMBDA b : Got(Node(kind, word, <<h.node, b.node>>), b.at)))

RECURSIVE If(_, _)
If(ts, i) ==
  Then(WithBlock(ts, "if", "", Value(ts, i + 1)),
    LAMBDA s :
      IF Token(ts, s.at + 1) # "else" THEN s
      ELSE Of("if", "", s.node.kids,
              Wrap("else", "", IF Token(ts, s.at + 2) = "if" THEN Wrap("block", "", If(ts, s.at + 2))
                                                             ELSE Block(ts, s.at + 2))))

RECURSIVE Cases(_, _)
Cases(ts, i) ==
  IF Token(ts, i) = "}" THEN Empty(i)
  ELSE Then(CASE Token(ts, i) = "default" -> Wrap("default", "", Block(ts, i + 1))
              [] Token(ts, i) = "case" -> WithBlock(ts, "case", "", Results(ts, i + 1))
              [] OTHER -> Error,
            LAMBDA c : Before(c.node, Cases(ts, c.at + 1)))

Switch(ts, i) ==
  Then(Expect(ts, Value(ts, i + 1), "{"),
    LAMBDA v : Of("switch", "", <<v.node>>, Cases(ts, v.at + 1)))

ExpressionOrAssignment(ts, i) ==
  Then(Value(ts, i),
    LAMBDA e :
      IF Token(ts, e.at + 1) # "=" THEN Got(Node("expr", "", <<e.node>>), e.at)
      ELSE Then(Value(ts, e.at + 2),
                LAMBDA v : Got(Node("assign", "", <<e.node, v.node>>), v.at)))

-----------------------------------------------------------------------------
(* Declarations.  The word of a declaration is its modifiers.                *)

\* Members up to "}"; what is none is skipped.
Members(ts, kind, word, head, Member(_, _)) ==
  LET from[k \in 1 .. Len(ts) + 2] ==
        CASE Token(ts, k) = "}" -> Empty(k)
          [] Token(ts, k) = "EOF" -> Error
          [] OTHER -> Then(Member(ts, k), LAMBDA m :
               IF m.node = Nil THEN from[m.at + 1] ELSE Before(m.node, from[m.at + 1]))
  IN  Then(Expect(ts, head, "{"), LAMBDA h : Of(kind, word, h.node.kids, from[h.at + 1]))

\* The name at i and the type parameters after it.
Named(ts, i) ==
  IF Token(ts, i) \notin Names THEN Error
  ELSE Then(TypeParameters(ts, i), LAMBDA tps :
         Got(Node("head", "", <<Name(Token(ts, i)), tps.node>>), tps.at))

FunctionDecl(ts, i, word) ==
  Then(Named(ts, i + 1), LAMBDA h :
    Then(FunctionLiteral(ts, h.at), LAMBDA f : Of("function", word, h.node.kids, f)))

Modified(word, modifier) == IF word = "" THEN modifier ELSE word \o " " \o modifier

\* The token at i, or the one after "pub"; the same for "mut".
Past(ts, i, word) == IF Token(ts, i) = word THEN i + 1 ELSE i

FieldDecl(ts, i) ==
  LET at == Past(ts, i, "pub") IN
  CASE Token(ts, at) \notin Names -> Skipped(Token(ts, i), at)
    [] Token(ts, at) \in Names /\ Token(ts, at + 1) # ":" -> Error
    [] OTHER -> Of("fieldDecl", IF at = i THEN "" ELSE "pub", <<Name(Token(ts, at))>>,
                   Wrap("type", "", Type(ts, at + 2)))

Variant(ts, i) ==
  CASE Token(ts, i) \notin Names -> Skipped(Token(ts, i), i)
    [] Token(ts, i) \in Names /\ Token(ts, i + 1) # "(" -> Got(Node("variantDecl", Token(ts, i), <<>>), i)
    [] OTHER -> Of("variantDecl", Token(ts, i), <<>>,
                   IF Token(ts, i + 2) = ")" THEN Empty(i + 2)
                   ELSE CommaEnds(ts, Separated(ts, i + 2, Type, ")"), ")"))

Method(ts, i) ==
  LET public == Past(ts, i, "pub")
      at == Past(ts, public, "mut")
      word == IF public = i THEN "" ELSE "pub"
  IN  IF Token(ts, at) # "func" THEN Skipped(Token(ts, i), at)
      ELSE FunctionDecl(ts, at, IF at = public THEN word ELSE Modified(word, "mut"))

StructDecl(ts, i, word) == Members(ts, "structDecl", word, Named(ts, i + 1), FieldDecl)
EnumDecl(ts, i, word)   == Members(ts, "enumDecl", word, Named(ts, i + 1), Variant)

\* The receiver, if there is one, is the third part of the head.
ImplDecl(ts, i) ==
  LET named == IF Token(ts, i + 1) \notin TypeNames THEN Error ELSE TypeParameters(ts, i + 1)
      head(tps) ==
        CASE Token(ts, tps.at + 1) # "as" -> Got(Nil, tps.at)
          [] Token(ts, tps.at + 1) = "as" /\ Token(ts, tps.at + 2) \in Names ->
               Got(Name(Token(ts, tps.at + 2)), tps.at + 2)
          [] OTHER -> Error
  IN  Then(named, LAMBDA tps :
        Members(ts, "impl", "",
          Of("head", "", <<Name(Token(ts, i + 1)), tps.node>>, Wrap("receiver", "", head(tps))),
          Method))

\* type T = x, alias T = x
TypeDecl(ts, i, word) ==
  IF Token(ts, i + 1) \notin Names \/ Token(ts, i + 2) # "=" THEN Error
  ELSE Of(Token(ts, i) \o "Decl", word, <<Name(Token(ts, i + 1))>>,
          Wrap("type", "", Type(ts, i + 3)))

TraceDecl(ts, i, word) ==
  CASE Token(ts, i + 1) = "func" -> FunctionDecl(ts, i + 1, Modified(word, "trace"))
    [] Token(ts, i + 1) = "pub" /\ Token(ts, i + 2) = "func" -> FunctionDecl(ts, i + 2, "pub trace")
    [] OTHER -> Error

PubDecl(ts, i) ==
  LET token == Token(ts, i + 1) IN
  CASE token = "func" -> FunctionDecl(ts, i + 1, "pub")
    [] token = "trace" -> TraceDecl(ts, i + 1, "pub")
    [] token = "struct" -> StructDecl(ts, i + 1, "pub")
    [] token = "enum" -> EnumDecl(ts, i + 1, "pub")
    [] token = "const" -> ConstDecl(ts, i + 1, "pub")
    [] token \in {"type", "alias"} -> TypeDecl(ts, i + 1, "pub")
    [] OTHER -> Error

\* A path with or without a name for the package, after the token at i.
SingleImport(ts, i) ==
  LET alias == VarName(ts, i + 1).node
      at == IF alias = Nil THEN i + 1 ELSE i + 2
  IN  IF Token(ts, at) \notin Strings \/ (alias = Nil /\ Token(ts, at + 1) = "as") THEN Error
      ELSE Got(Node("import", "", <<alias, Name(Token(ts, at))>>), at)

\* No ";" may follow an import in parentheses.
ImportDecl(ts, i) ==
  IF Token(ts, i + 1) # "(" THEN SingleImport(ts, i)
  ELSE InParentheses(ts, "imports", i + 1, LAMBDA us, k :
         Then(SingleImport(us, k), LAMBDA r : IF Token(us, r.at + 1) = ";" THEN Error ELSE r))

-----------------------------------------------------------------------------

\* A statement, or Nil for what is skipped.
Statement(ts, i) ==
  LET token == Token(ts, i) IN
  CASE token = "var" -> VarDecl(ts, i)
    [] token = "mut" -> MutDecl(ts, i)
    [] token = "const" -> ConstDecl(ts, i, "")
    [] token = "func" -> FunctionDecl(ts, i, "")
    [] token = "pub" -> PubDecl(ts, i)
    [] token = "trace" -> TraceDecl(ts, i, "")
    [] token = "struct" -> StructDecl(ts, i, "")
    [] token = "enum" -> EnumDecl(ts, i, "")
    [] token = "impl" -> ImplDecl(ts, i)
    [] token \in {"type", "alias"} -> TypeDecl(ts, i, "")
    [] token = "import" -> ImportDecl(ts, i)
    [] token = "package" /\ Token(ts, i + 1) \in Names ->
         Got(Node("package", Token(ts, i + 1), <<>>), i + 1)
    [] token = "return" -> Return(ts, i)
    [] token = "if" -> If(ts, i)
    [] token = "while" -> WithBlock(ts, "while", "", Value(ts, i + 1))
    [] token = "for" /\ Token(ts, i + 1) \in Names /\ Token(ts, i + 2) = "in" ->
         WithBlock(ts, "for", Token(ts, i + 1), Value(ts, i + 3))
    [] token = "switch" -> Switch(ts, i)
    [] token \in {"defer", "unsafe"} -> Wrap(token, "", Block(ts, i + 1))
    [] token = "panic" -> Wrap("panic", "", Value(ts, i + 1))
    [] token \in {"break", "continue"} -> Got(Node(token, "", <<>>), i)
    [] token = "{" -> Block(ts, i)
    [] token = ";" -> Skipped(";", i)
    [] OTHER -> ExpressionOrAssignment(ts, i)

Statements(ts, i, end, before) ==
  IF Token(ts, i) = end THEN Got(Node("block", "", before), i)
  ELSE Then(Statement(ts, i), LAMBDA s :
         Statements(ts, s.at + 1, end, IF s.node = Nil THEN before ELSE Append(before, s.node)))

-----------------------------------------------------------------------------
(* Programs.                                                                 *)

Program(ts) == Statements(ts, 1, "EOF", <<>>)

\* The two tokens take the places of the one that was split and of the one after it
\* in the window of four tokens; the token that falls out of the window is lost.
Split(ts, k) ==
  LET second == IF ts[k] = ">>" THEN ">" ELSE "="
      rest == SubSeq(ts, k + 1, Len(ts))
  IN  SubSeq(ts, 1, k - 1) \o <<">", second>>
      \o (IF Len(rest) < 3 THEN rest ELSE RemoveAt(rest, 3))

\* The program, and the tokens that the parser has seen in the end.
RECURSIVE Parse(_)
Parsed(ts, result) ==
  IF {">>", ">="} \cap ToSet(ts) # {} /\ ~result.ok /\ result.at # 0
  THEN Parse(Split(ts, result.at))
  ELSE [ok |-> result.ok, node |-> result.node, seen |-> ts]

Parse(ts) == Parsed(ts, Program(ts))
=============================================================================
