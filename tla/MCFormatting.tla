---------------------------- MODULE MCFormatting ----------------------------
(* The texts of Formatting for TLC: statements and pairs of statements over  *)
(* expressions of one and two operators, written with all parentheses;       *)
(* declarations over types of one and two constructors; and every sequence   *)
(* of tokens of a bounded length, which the parser mostly refuses.           *)
EXTENDS Formatting

CONSTANTS
  Alphabet,               \* the tokens of arbitrary texts
  MaxTokens,              \* bound: the length of arbitrary texts
  DeclarationAlphabet,    \* the tokens of arbitrary texts inside a declaration
  MaxInner                \* bound: the length of those

x == <<"x">>
Group(e) == IF Len(e) = 1 THEN e ELSE <<"(">> \o e \o <<")">>
Nothing == <<"{", "}">>

Procedure == <<"func", "(", ")", "->", "(", "void", ")">>

Operators == {"||", "&&", "==", "<", "|", "^", "&", "<<", "+", "*", ".."}

Unary(es) ==
  UNION {LET g == Group(e) IN
    {<<"-">> \o g, <<"*">> \o g, <<"&">> \o g, <<"&", "mut">> \o g, <<"try">> \o g, g \o <<"?">>,
     g \o <<".", "x">>, g \o <<".", "T">>, g \o <<".", "0">>, g \o <<"(", ")">>,
     g \o <<".", "x", "(", ")">>, <<"[">> \o e \o <<"]">>, <<"[">> \o e \o <<",", "]">>,
     <<"~">> \o g, <<"T", "{", "x", ":">> \o e \o <<"}">>} : e \in es}

Binary(es, fs) ==
  {Group(e) \o <<o>> \o Group(f) : e \in es, f \in fs, o \in Operators}
  \cup UNION {{Group(e) \o <<"(">> \o f \o <<",", "x", ")">>, Group(e) \o <<"[">> \o f \o <<"]">>,
               <<"T", "{", "x", ":">> \o e \o <<",", "y", ":">> \o f \o <<"}">>,
               <<"[">> \o e \o <<",">> \o f \o <<")">>} : e \in es, f \in fs}

\* Parentheses keep what begins with a brace, a "func" or a "mut" from being a statement.
Others ==
  {<<"(", "{", "x", ":", "0", "}", ")">>, <<"(", "mut", "x", ")">>, <<"T", "{", "}">>,
   <<"x", ".", "T", "{", "}">>, <<"Ok">>, <<"Ok", "(", "x", ")">>, <<"int", "(", "x", ")">>,
   <<"(">> \o Procedure \o Nothing \o <<")">>, <<"T", "{", "x", ":", "0", ",", "x", ":", "x", "}">>,
   <<"void">>, <<"(", "type", ")">>, <<"(", "{", "y", ":", "0", ",", "x", ":", "x", ",", "}", ")">>,
   <<"T", "{", "T", ":", "0", ",", "x", ":", "0", ",", "y", ":", "x", "}">>}

\* Names as Go orders strings.
NameOrder == <<"T", "Vec", "x", "y">>

Leaves == {x, <<"T">>, <<"0">>}
Simple == Leaves \cup Unary({x, <<"0">>}) \cup Binary({x}, {x}) \cup Others
Nested == Simple \cup Unary(Simple) \cup Binary(Simple, Simple)

\* Every place a statement has for an expression.
Statements1(e) ==
  {e \o <<"=", "x">>, <<"x", "=">> \o e, <<"var", "x", "=">> \o e,
   <<"mut", "var", "x", ":", "T", "=">> \o e, <<"return">> \o e, <<"return">> \o e \o <<",", "x">>,
   <<"panic">> \o e, <<"{">> \o e \o <<"}">>, <<"defer", "{">> \o e \o <<"}">>,
   <<"unsafe", "{">> \o e \o <<"}">>}
  \cup LET g == <<"(">> \o e \o <<")">> IN
  {<<"if">> \o g \o Nothing, <<"if">> \o g \o <<"{", "x", "}", "else">> \o Nothing,
   <<"if", "x">> \o Nothing \o <<"else", "if">> \o g \o Nothing,
   <<"while">> \o g \o <<"{", "continue", "}">>, <<"for", "x", "in">> \o g \o Nothing,
   <<"switch">> \o g \o Nothing,
   <<"switch", "x", "{", "case">> \o g \o Nothing \o <<"default">> \o Nothing \o <<"}">>,
   <<"switch", "x", "{", "case", "0", ",">> \o g \o Nothing \o <<"}">>}

First == {x, <<"x", "=", "x">>, <<"return">>, <<"return", "x">>, <<"panic", "x">>, <<"var", "x">>,
          <<"var", "x", ":", "T">>, <<"var", "x", "=", "x">>, <<"break">>, <<"if", "x">> \o Nothing}

Second == Simple \cup Unary(Simple) \cup {e \o <<"=", "x">> : e \in Simple} \cup Statements1(x)

Bodies == Nested \cup UNION {Statements1(e) : e \in Simple}
          \cup {s \o <<";">> \o t : s \in First, t \in Second}

-----------------------------------------------------------------------------

BaseTypes == {<<"int">>, <<"T">>, <<"x", ".", "T">>}

TypesOf(ts) ==
  UNION {{<<"&">> \o t, <<"&", "mut">> \o t, <<"(">> \o t \o <<")">>, <<"(">> \o t \o <<",", ")">>,
          <<"(", "x", ":">> \o t \o <<")">>, <<"(", "x">> \o t \o <<")">>,
          <<"T", "<">> \o t \o <<">">>, <<"x", ".", "T", "<">> \o t \o <<",", "int", ">">>,
          <<"Vec", "<">> \o t \o <<">">>, <<"Vec", "<">> \o t \o <<",", "_", ">">>,
          <<"Vec", "<">> \o t \o <<",", "0", ">">>, <<"(", "int", ",">> \o t \o <<")">>,
          <<"(", "int", ",", "x", ":">> \o t \o <<")">>,
          <<"func", "(">> \o t \o <<")", "->", "(", "int", ")">>,
          <<"func", "(", ")", "->", "(">> \o t \o <<")">>} : t \in ts}

Types1 == BaseTypes \cup {<<"void">>, <<"(", ")">>, <<"T", "<", "T", "<", "int", ">>">>} \cup TypesOf(BaseTypes)
Types2 == Types1 \cup TypesOf(TypesOf(BaseTypes))

\* A function with parameters and results of its own.
Function(name, params, result) ==
  <<"func">> \o name \o <<"(">> \o params \o <<")", "->", "(">> \o result \o <<")", "{", "}">>

Typed(t) ==
  {<<"var", "x", ":">> \o t, <<"var", "x">> \o t \o <<"=", "x">>, <<"mut", "var", "x", ":">> \o t,
   <<"var", "x", ":">> \o t \o <<"=", "-", "x", "defer", "{", "}">>,
   <<"const", "x">> \o t \o <<"=", "0">>, <<"pub", "const", "x", ":">> \o t \o <<"=", "0">>,
   <<"var", "(", "x", ":">> \o t \o <<"x", ":">> \o t \o <<"=", "x", ";", ")">>,
   <<"const", "(", "x">> \o t \o <<"=", "x", "x", ":">> \o t \o <<"=", "0", ")">>,
   <<"pub", "const", "(", "x">> \o t \o <<"=", "0", ")">>,
   <<"type", "T", "=">> \o t, <<"pub", "alias", "T", "=">> \o t,
   <<"struct", "T", "{", "pub", "x", ":">> \o t \o <<",", "x", ":">> \o t \o <<"}">>,
   <<"pub", "enum", "T", "{", "T", "(">> \o t \o <<",">> \o t \o <<")", "T", "}">>,
   <<"enum", "T", "{", "T", "(">> \o t \o <<",", ")", "}">>,
   Function(<<"x">>, <<"x", ":">> \o t, <<"int">>), Function(<<"x">>, <<>>, t),
   Function(<<"x", "<", "T", ">">>, <<"mut", "x">> \o t \o <<",">>, t),
   <<"x", "=">> \o Function(<<>>, <<"x", ":">> \o t, <<"x", ":">> \o t),
   <<"impl", "T", "{">> \o Function(<<"x">>, <<"x">> \o t, t) \o <<"}">>}

Five == <<"x", ":", "T", ",", "x", ":", "int", ",", "mut", "x", ":", "T", ",", "x", ":", "T", ",",
          "x", ":", "&", "T">>
NoResult == <<"void">>
Modifiers == {<<>>, <<"pub">>, <<"trace">>, <<"pub", "trace">>, <<"trace", "pub">>}

Declarations ==
  {m \o Function(<<"x">> \o ps, <<>>, NoResult) :
     m \in Modifiers, ps \in {<<>>, <<"<", ">">>, <<"<", "T", ">">>, <<"<", "T", ",", "x", ">">>}}
  \cup {m \o <<k, "T">> \o ps \o b : m \in {<<>>, <<"pub">>}, k \in {"struct", "enum"},
          ps \in {<<>>, <<"<", "T", ">">>},
          b \in {Nothing, <<"{", "T", "}">>, <<"{", "x", ":", "T", "=", "0", "}">>,
                <<"{", "T", ",", "x", "(", ")", "}">>, <<"{", "pub", "}">>}}
  \cup {<<"impl">> \o n \o r \o <<"{">> \o v \o m \o f \o <<"}">> :
          n \in {<<"T">>, <<"int">>, <<"T", "<", "x", ">">>}, r \in {<<>>, <<"as", "x">>},
          v \in {<<>>, <<"pub">>}, m \in {<<>>, <<"mut">>},
          f \in {<<>>, Function(<<"x">>, <<>>, NoResult), Function(<<"x">>, Five, NoResult) \o <<",">>,
                Function(<<"x">>, <<>>, NoResult) \o <<"mut">> \o Function(<<"x", "<", "T", ">">>, <<>>, NoResult)}}
  \cup {Function(<<"x">>, Five \o <<",">>, NoResult), <<"package", "x">>, <<"import", "'a'">>,
       <<"import", "x", "'a'">>, <<"import", "_", "'a'">>, <<"import", "(", "'a'", "x", "'a'", ")">>,
       <<"import", "(", ")">>, <<"import", "(", "'a'", ";", ")">>, <<"var", "(", ")">>, <<"const", "(", ")">>,
       <<"var", "x", "T", "<", "int", ">=", "0">>}
  \cup {m \o <<"var", "(", "x", ",", "_", ")", "=">> \o e : m \in {<<>>, <<"mut">>}, e \in Simple}

\* A declaration between two statements.
Programs ==
  UNION {{d, <<"x", "=", "x">> \o d, d \o <<"*", "x", "=", "x">>, d \o <<";", "(", "x", ")">>} : d \in Declarations}
  \cup UNION {Typed(t) : t \in Types2}

-----------------------------------------------------------------------------

AnyOf(alphabet, n) == UNION {[1 .. k -> alphabet] : k \in 0 .. n}

\* What begins and what ends a declaration.
Frames == {<<<<"struct", "T", "{">>, <<"}">>>>, <<<<"enum", "T", "{">>, <<"}">>>>,
           <<<<"impl", "T", "{">>, <<"}">>>>, <<<<"var", "x">>, <<>>>>,
           <<<<"func", "x", "(">>, <<")", "->", "(", ")", "{", "}">>>>,
           <<<<"func", "x", "(", ")", "->", "(">>, <<")", "{", "}">>>>}

AnyTexts == AnyOf(Alphabet, MaxTokens)
            \cup {f[1] \o inner \o f[2] : f \in Frames, inner \in AnyOf(DeclarationAlphabet, MaxInner)}

BodyTexts == {<<"{">> \o b \o <<"}">> : b \in Bodies}
AllTexts == BodyTexts \cup Programs \cup AnyTexts
=============================================================================
