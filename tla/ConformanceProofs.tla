------------------------- MODULE ConformanceProofs -------------------------
(***************************************************************************)
(* What is proved of Conformance, for bodies of every length and every     *)
(* mix of statements.  First the text that is being written and its        *)
(* blocks, and how control goes through it when it is complete; then what  *)
(* the generators make of it.                                              *)
(***************************************************************************)
EXTENDS ConformanceInvariant, SequenceTheorems, FiniteSetTheorems, WellFoundedInduction, TLAPS

-----------------------------------------------------------------------------
(* Sequences that differ in their last element.                            *)

LEMMA AppendGrows ==
  ASSUME NEW S, NEW s \in Seq(S), NEW x \in S
  PROVE  /\ Append(s, x) \in Seq(S)
         /\ Grows(s, Append(s, x))
         /\ Append(s, x)[Len(s) + 1] = x
BY AppendProperties DEF Grows

LEMMA FrontGrows ==
  ASSUME NEW S, NEW s \in Seq(S), Len(s) >= 1
  PROVE  /\ Front(s) \in Seq(S) /\ Grows(Front(s), s) /\ Len(Front(s)) = Len(s) - 1
         /\ \A i \in 1 .. Len(s) - 1 : Front(s)[i] = s[i]
         /\ Last(s) = s[Len(s)] /\ Last(s) \in S
<1>1. Len(s) \in Nat /\ \A k \in 1 .. Len(s) : s[k] \in S
  BY LenProperties, ElementOfSeq
<1>2. Front(s) = SubSeq(s, 1, Len(s) - 1)
  BY DEF Front
<1>3. \A i \in 1 .. Len(s) - 1 : s[i] \in S
  BY <1>1
<1> DEFINE n == Len(s) - 1
<1>4. /\ Front(s) \in Seq(S) /\ Len(Front(s)) = Len(s) - 1
      /\ \A i \in 1 .. Len(s) - 1 : Front(s)[i] = s[i]
  <2>1. n \in Int /\ \A i \in 1 .. n : s[i] \in S
    BY <1>1
  <2>2. /\ SubSeq(s, 1, n) \in Seq(S) /\ Len(SubSeq(s, 1, n)) = IF 1 <= n THEN n - 1 + 1 ELSE 0
        /\ \A i \in 1 .. n - 1 + 1 : SubSeq(s, 1, n)[i] = s[1 + i - 1]
    BY <2>1, SubSeqProperties
  <2>3. n - 1 + 1 = n /\ \A i \in 1 .. n : 1 + i - 1 = i
    BY <1>1
  <2> QED
    BY <1>1, <1>2, <2>2, <2>3
<1>5. Last(s) = s[Len(s)]
  BY DEF Last
<1> QED
  BY <1>1, <1>4, <1>5 DEF Grows

(* A nonempty set of places has a lowest and a highest one.                *)
LEMMA LowestIs ==
  ASSUME NEW S, S \subseteq Nat, S # {}
  PROVE  Lowest(S) \in S /\ \A m \in S : Lowest(S) <= m
<1>1. PICK x \in S : \A y \in S : ~(<<y, x>> \in OpToRel(<, Nat))
  BY NatLessThanWellFounded, WFMin
<1>2. ASSUME NEW y \in S
      PROVE  x <= y
  <2>1. x \in Nat /\ y \in Nat
    OBVIOUS
  <2>2. ~(y < x)
    BY <1>1, <2>1 DEF OpToRel
  <2> QED
    BY <2>1, <2>2
<1> QED
  BY <1>1, <1>2 DEF Lowest

LEMMA HighestIs ==
  ASSUME NEW n \in Nat, NEW S, S \subseteq 0 .. n, S # {}
  PROVE  Highest(S) \in S /\ \A m \in S : m <= Highest(S)
<1> DEFINE D == {n - m : m \in S}
<1>1. D \subseteq Nat /\ D # {}
  OBVIOUS
<1>2. Lowest(D) \in D /\ \A d \in D : Lowest(D) <= d
  BY <1>1, LowestIs
<1>3. PICK h \in S : Lowest(D) = n - h
  BY <1>2
<1>4. ASSUME NEW m \in S
      PROVE  m <= h
  <2>1. n - h <= n - m
    BY <1>2, <1>3
  <2> QED
    BY <2>1
<1> QED
  BY <1>4 DEF Highest

LEMMA HighestAt ==
  ASSUME NEW n \in Nat, NEW S, S \subseteq 0 .. n, NEW x \in S, \A m \in S : m <= x
  PROVE  Highest(S) = x
<1>1. Highest(S) \in S /\ \A m \in S : m <= Highest(S)
  BY HighestIs
<1>2. S \subseteq Nat
  OBVIOUS
<1>3. Highest(S) \in Nat /\ x \in Nat
  BY <1>1, <1>2
<1>4. Highest(S) <= x /\ x <= Highest(S)
  BY <1>1
<1> QED
  BY <1>3, <1>4

LEMMA LowestAt ==
  ASSUME NEW S, S \subseteq Nat, NEW x \in S, \A m \in S : x <= m
  PROVE  Lowest(S) = x
<1>1. Lowest(S) \in S /\ \A m \in S : Lowest(S) <= m
  BY LowestIs
<1>2. Lowest(S) <= x /\ x <= Lowest(S) /\ Lowest(S) \in Nat /\ x \in Nat
  BY <1>1
<1> QED
  BY <1>2

(* Induction over a set: what holds of 0 and goes on holds of every number.*)
LEMMA InductiveSet ==
  ASSUME NEW X, 0 \in X, \A n \in Nat : n \in X => n + 1 \in X
  PROVE  Nat \subseteq X
<1> DEFINE D == Nat \ X
<1> SUFFICES ASSUME D # {}
             PROVE  FALSE
  OBVIOUS
<1>1. Lowest(D) \in D /\ \A m \in D : Lowest(D) <= m
  BY LowestIs
<1>2. PICK l \in D : \A m \in D : l <= m
  BY <1>1
<1>3. l # 0 /\ l - 1 \in Nat /\ l - 1 \notin D
  BY <1>2
<1>4. (l - 1) + 1 \in X
  BY <1>3
<1> QED
  BY <1>2, <1>4

-----------------------------------------------------------------------------
(* Four kinds of steps: a statement is added, and perhaps a declaration,   *)

(* What is stated of every element of Seq(S), for the types above.         *)
LEMMA TypedParts ==
  ASSUME NEW pr, NEW bs, Typed(pr, bs)
  PROVE  /\ Len(pr) \in Nat /\ Len(bs) \in Nat /\ Len(bs) >= 2
         /\ \A k \in 1 .. Len(pr) :
              /\ pr[k].op \in Ops /\ pr[k].decl \in Nat \cup {None}
              /\ pr[k].path \in SUBSET Nat /\ pr[k].head \in Nat
         /\ \A n \in 1 .. Len(bs) :
              /\ bs[n] \in BlockType
              /\ bs[n].op \in Ops \cup {"function"} /\ bs[n].place \in Nat
              /\ bs[n].head \in Nat /\ bs[n].decl \in Nat \cup {None}
<1>1. /\ pr \in Seq(TokenType) /\ bs \in Seq(BlockType) /\ Len(bs) >= 2
  BY DEF Typed
<1>2. /\ \A k \in 1 .. Len(pr) : pr[k] \in TokenType
      /\ \A n \in 1 .. Len(bs) : bs[n] \in BlockType
  BY <1>1, ElementOfSeq
<1>3. Len(pr) \in Nat /\ Len(bs) \in Nat
  BY <1>1, LenProperties
<1>4. ASSUME NEW k \in 1 .. Len(pr)
      PROVE  /\ pr[k].op \in Ops /\ pr[k].decl \in Nat \cup {None}
             /\ pr[k].path \in SUBSET Nat /\ pr[k].head \in Nat
  BY <1>2 DEF TokenType
<1>5. ASSUME NEW n \in 1 .. Len(bs)
      PROVE  /\ bs[n].op \in Ops \cup {"function"} /\ bs[n].place \in Nat
             /\ bs[n].head \in Nat /\ bs[n].decl \in Nat \cup {None}
  BY <1>2 DEF BlockType
<1> QED
  BY <1>1, <1>2, <1>3, <1>4, <1>5

LEMMA NewTokenParts ==
  ASSUME NEW pr, NEW bs, NEW pr2, NEW op, NEW decl, NEW path, NEW head,
         NewToken(pr, bs, pr2, op, decl, path, head)
  PROVE  /\ pr2 \in Seq(TokenType) /\ Len(pr) \in Nat /\ Len(pr2) = Len(pr) + 1
         /\ Grows(pr, pr2)
         /\ \A k \in 1 .. Len(pr) : k \in 1 .. Len(pr2) /\ pr2[k] = pr[k]
         /\ \A k \in 1 .. Len(pr2) : k \in 1 .. Len(pr) \/ k = Len(pr) + 1
         /\ pr2[Len(pr) + 1].op = op /\ pr2[Len(pr) + 1].decl = decl
         /\ pr2[Len(pr) + 1].path = path /\ pr2[Len(pr) + 1].head = head
         /\ TokenOK(pr2, Len(pr) + 1)
<1>1. pr \in Seq(TokenType) /\ Token(op, decl, path, head) \in TokenType
  BY DEF NewToken, Typed, Token, TokenType
<1>2. pr2 = Append(pr, Token(op, decl, path, head)) /\ TokenOK(pr2, Len(pr) + 1)
  BY DEF NewToken
<1>3. pr2 \in Seq(TokenType) /\ Grows(pr, pr2) /\ pr2[Len(pr) + 1] = Token(op, decl, path, head)
  BY <1>1, <1>2, AppendGrows
<1>4. Len(pr) \in Nat
  BY <1>1, LenProperties
<1> QED
  BY <1>2, <1>3, <1>4 DEF Grows, Token

(* The blocks after each of them.                                          *)
LEMMA SimpleBlocks ==
  ASSUME NEW pr, NEW bs, NEW pr2, NEW bs2, NEW op, NEW decl, SimpleStep(pr, bs, pr2, bs2, op, decl)
  PROVE  /\ bs2 \in Seq(BlockType) /\ Len(bs2) = Len(bs)
         /\ \A n \in 1 .. Len(bs) :
              /\ bs2[n].op = bs[n].op /\ bs2[n].place = bs[n].place /\ bs2[n].head = bs[n].head
              /\ n # Len(bs) \/ op # "var" => bs2[n].decl = bs[n].decl
              /\ n # Len(bs) => bs2[n] = bs[n]
         /\ op = "var" => bs2[Len(bs)].decl = Len(pr) + 1
         /\ PlacesOf(bs2) = PlacesOf(bs)
<1>1. Typed(pr, bs) /\ bs \in Seq(BlockType)
  BY DEF SimpleStep, NewToken, Typed
<1>2. CASE op # "var"
  BY <1>1, <1>2 DEF SimpleStep
<1>3. CASE op = "var"
  <2> DEFINE L == Len(bs)
             b == [bs[L] EXCEPT !.decl = Len(pr) + 1]
  <2>1. Len(pr) \in Nat /\ L \in Nat /\ L >= 2 /\ bs[L] \in BlockType
    BY <1>1, TypedParts
  <2>2. /\ b \in BlockType /\ b.op = bs[L].op /\ b.place = bs[L].place /\ b.head = bs[L].head
        /\ b.decl = Len(pr) + 1
    BY <2>1 DEF BlockType
  <2>3. bs2 = [bs EXCEPT ![L] = b]
    BY <1>3 DEF SimpleStep
  <2> HIDE DEF b
  <2>4. /\ bs2 \in Seq(BlockType) /\ Len(bs2) = L
        /\ \A n \in 1 .. L : bs2[n] = IF n = L THEN b ELSE bs[n]
    BY <1>1, <2>1, <2>2, <2>3, ExceptSeq
  <2>5. \A n \in 1 .. L :
          bs2[n].op = bs[n].op /\ bs2[n].place = bs[n].place /\ bs2[n].head = bs[n].head
    BY <2>2, <2>4
  <2>6. PlacesOf(bs2) = PlacesOf(bs)
    BY <2>4, <2>5 DEF PlacesOf
  <2> QED
    BY <1>3, <2>1, <2>2, <2>4, <2>5, <2>6
<1> QED
  BY <1>2, <1>3

LEMMA OpenBlocks ==
  ASSUME NEW pr, NEW bs, NEW pr2, NEW bs2, NEW op, NEW decl, OpenStep(pr, bs, pr2, bs2, op, decl)
  PROVE  /\ bs2 \in Seq(BlockType) /\ Len(bs2) = Len(bs) + 1 /\ Grows(bs, bs2)
         /\ \A n \in 1 .. Len(bs) : n \in 1 .. Len(bs2) /\ bs2[n] = bs[n]
         /\ \A n \in 1 .. Len(bs2) : n \in 1 .. Len(bs) \/ n = Len(bs) + 1
         /\ bs2[Len(bs2)].op = op /\ bs2[Len(bs2)].place = Len(pr) + 1
         /\ bs2[Len(bs2)].head = Len(pr) + 1
         /\ bs2[Len(bs2)].decl = IF op \in {"for", "forRange"} THEN Len(pr) + 1 ELSE None
         /\ PlacesOf(bs2) = PlacesOf(bs) \cup {Len(pr) + 1}
<1> DEFINE b == Block(op, Len(pr) + 1, Len(pr) + 1,
                      IF op \in {"for", "forRange"} THEN Len(pr) + 1 ELSE None)
<1>1. /\ Typed(pr, bs) /\ bs \in Seq(BlockType) /\ op \in Ops /\ bs2 = Append(bs, b)
      /\ Len(pr) \in Nat /\ Len(bs) \in Nat
  BY TypedParts DEF OpenStep, NewToken, Typed
<1>2. /\ b \in BlockType /\ b.op = op /\ b.place = Len(pr) + 1 /\ b.head = Len(pr) + 1
      /\ b.decl = IF op \in {"for", "forRange"} THEN Len(pr) + 1 ELSE None
  BY <1>1 DEF Block, BlockType
<1> HIDE DEF b
<1>3. bs2 \in Seq(BlockType) /\ Grows(bs, bs2) /\ bs2[Len(bs) + 1] = b
  BY <1>1, <1>2, AppendGrows
<1>4. PlacesOf(bs2) = PlacesOf(bs) \cup {Len(pr) + 1}
  <2>1. /\ \A n \in 1 .. Len(bs) : n \in 1 .. Len(bs2) /\ bs2[n].place = bs[n].place
        /\ \A n \in 1 .. Len(bs2) : n \in 1 .. Len(bs) \/ n = Len(bs) + 1
        /\ Len(bs) + 1 \in 1 .. Len(bs2) /\ bs2[Len(bs) + 1].place = Len(pr) + 1
    BY <1>1, <1>2, <1>3 DEF Grows
  <2> QED
    BY <2>1 DEF PlacesOf
<1> QED
  BY <1>1, <1>2, <1>3, <1>4 DEF Grows

LEMMA EndBlocks ==
  ASSUME NEW pr, NEW bs, Typed(pr, bs), Len(bs) > 2
  PROVE  /\ Front(bs) \in Seq(BlockType) /\ Len(Front(bs)) = Len(bs) - 1 /\ Grows(Front(bs), bs)
         /\ \A n \in 1 .. Len(bs) - 1 : n \in 1 .. Len(bs) /\ Front(bs)[n] = bs[n]
         /\ PlacesOf(bs) = PlacesOf(Front(bs)) \cup {bs[Len(bs)].place}
<1>1. bs \in Seq(BlockType) /\ Len(bs) \in Nat
  BY TypedParts DEF Typed
<1>2. /\ Front(bs) \in Seq(BlockType) /\ Len(Front(bs)) = Len(bs) - 1 /\ Grows(Front(bs), bs)
      /\ \A n \in 1 .. Len(bs) - 1 : Front(bs)[n] = bs[n]
  BY <1>1, FrontGrows
<1>3. /\ \A n \in 1 .. Len(bs) - 1 : n \in 1 .. Len(bs)
      /\ \A n \in 1 .. Len(bs) : n \in 1 .. Len(bs) - 1 \/ n = Len(bs)
      /\ Len(bs) \in 1 .. Len(bs)
  BY <1>1
<1> QED
  BY <1>2, <1>3 DEF PlacesOf

LEMMA NextBlocks ==
  ASSUME NEW pr, NEW bs, NEW pr2, NEW bs2, NEW op, NextStep(pr, bs, pr2, bs2, op)
  PROVE  /\ bs2 \in Seq(BlockType) /\ Len(bs2) = Len(bs)
         /\ \A n \in 1 .. Len(bs) - 1 : n \in 1 .. Len(bs) /\ bs2[n] = bs[n]
         /\ \A n \in 1 .. Len(bs) : n \in 1 .. Len(bs) - 1 \/ n = Len(bs)
         /\ bs2[Len(bs)].op = op /\ bs2[Len(bs)].place = Len(pr) + 1
         /\ bs2[Len(bs)].head = bs[Len(bs)].head /\ bs2[Len(bs)].decl = None
         /\ PlacesOf(bs2) = PlacesOf(Front(bs)) \cup {Len(pr) + 1}
<1> DEFINE b == Block(op, Len(pr) + 1, bs[Len(bs)].head, None)
           fr == Front(bs)
<1>1. /\ Typed(pr, bs) /\ bs \in Seq(BlockType) /\ op \in Ops /\ bs2 = Append(fr, b)
      /\ Len(bs) > 2
  BY DEF NextStep, NewToken, Typed
<1>2. Len(pr) \in Nat /\ Len(bs) \in Nat /\ bs[Len(bs)].head \in Nat
  BY <1>1, TypedParts
<1>3. /\ b \in BlockType /\ b.op = op /\ b.place = Len(pr) + 1 /\ b.head = bs[Len(bs)].head
      /\ b.decl = None
  BY <1>1, <1>2 DEF Block, BlockType
<1>4. /\ fr \in Seq(BlockType) /\ Len(fr) = Len(bs) - 1
      /\ \A n \in 1 .. Len(bs) - 1 : n \in 1 .. Len(bs) /\ fr[n] = bs[n]
  BY <1>1, EndBlocks
<1> HIDE DEF b, fr
<1>5. bs2 \in Seq(BlockType) /\ Grows(fr, bs2) /\ bs2[Len(fr) + 1] = b
  BY <1>1, <1>3, <1>4, AppendGrows
<1>6. PlacesOf(bs2) = PlacesOf(fr) \cup {Len(pr) + 1}
  <2>0. Len(fr) \in Nat /\ Len(bs2) = Len(fr) + 1 /\ \A n \in 1 .. Len(fr) : bs2[n] = fr[n]
    BY <1>2, <1>4, <1>5 DEF Grows
  <2>1. /\ \A n \in 1 .. Len(fr) : n \in 1 .. Len(bs2) /\ bs2[n].place = fr[n].place
        /\ \A n \in 1 .. Len(bs2) : n \in 1 .. Len(fr) \/ n = Len(fr) + 1
        /\ Len(fr) + 1 \in 1 .. Len(bs2) /\ bs2[Len(fr) + 1].place = Len(pr) + 1
    BY <1>3, <1>5, <2>0
  <2>2. PlacesOf(bs2) \subseteq PlacesOf(fr) \cup {Len(pr) + 1}
    BY <2>1 DEF PlacesOf
  <2>3. PlacesOf(fr) \cup {Len(pr) + 1} \subseteq PlacesOf(bs2)
    BY <2>1 DEF PlacesOf
  <2> QED
    BY <2>2, <2>3
<1> QED
  BY <1>1, <1>2, <1>3, <1>4, <1>5, <1>6, SMTT(30) DEF Grows, fr

-----------------------------------------------------------------------------
(* Every step keeps what is true of the text and of its open blocks.       *)

LEMMA LoopsKept ==
  ASSUME NEW pr, NEW pr2, Len(pr) \in Nat, Grows(pr, pr2), NEW k \in 1 .. Len(pr), TokenOK(pr, k)
  PROVE  LoopsAround(pr2, k) = LoopsAround(pr, k) /\ LoopIn(pr2, k) = LoopIn(pr, k)
<1>1. pr2[k] = pr[k] /\ \A i \in 1 .. k : pr2[i] = pr[i]
  BY DEF Grows
<1>2. \A p \in pr[k].path \ {0} : p \in 1 .. k
  BY DEF TokenOK
<1>3. LoopsAround(pr2, k) = LoopsAround(pr, k)
  BY <1>1, <1>2 DEF LoopsAround
<1> QED
  BY <1>3 DEF LoopIn

LEMMA StatementsKept ==
  ASSUME NEW pr, NEW pr2, Len(pr) \in Nat, Grows(pr, pr2), Statements(pr), TokenOK(pr2, Len(pr) + 1)
  PROVE  Statements(pr2)
<1> SUFFICES ASSUME NEW k \in 1 .. Len(pr)
             PROVE  TokenOK(pr2, k)
  BY DEF Statements, Grows
<1>1. TokenOK(pr, k) /\ pr2[k] = pr[k]
  BY DEF Statements, Grows
<1>2. \A i \in 1 .. k - 1 : pr2[i] = pr[i]
  BY DEF Grows
<1>3. pr[k].op \in Enders => pr2[pr[k].head] = pr[pr[k].head]
  BY <1>1, <1>2 DEF TokenOK
<1>4. LoopsAround(pr2, k) = LoopsAround(pr, k)
  BY <1>1, LoopsKept
<1>5. {"else", "case", "end"} \subseteq Enders
  BY DEF Enders
<1>6. \A p \in pr[k].path \ {0} : pr2[p] = pr[p]
  BY <1>1, <1>2 DEF TokenOK
<1>7. LoopsAround(pr, k) \subseteq pr[k].path \ {0}
  BY DEF LoopsAround
<1> HIDE DEF Grows
<1>8. pr[k].op \in {"break", "continue"} =>
        \E p \in LoopsAround(pr2, k) : \A q \in pr2[k].path \ {0} : pr2[q].op = "defer" => q < p
  BY <1>1, <1>4, <1>6, <1>7 DEF TokenOK
<1>9. pr[k].op = "end" =>
       /\ \E p \in pr2[k].path \ {0} : Part(pr2, p, pr2[k].head)
       /\ \A p \in pr2[k].path \ {0} : p < pr2[k].head \/ Part(pr2, p, pr2[k].head)
  BY <1>1, <1>6 DEF TokenOK, Part
<1>10. /\ \A p \in pr2[k].path \ {0} : pr2[p].op \in Openers \cup {"else", "case"}
       /\ pr2[k].op = "defer" => \A p \in pr2[k].path \ {0} : pr2[p].op # "defer"
  BY <1>1, <1>6 DEF TokenOK
<1> QED
  BY <1>1, <1>3, <1>5, <1>8, <1>9, <1>10 DEF TokenOK

LEMMA TextFacts ==
  ASSUME NEW pr, NEW bs, TextOK(pr, bs)
  PROVE  /\ Len(pr) \in Nat /\ Len(bs) \in Nat /\ Len(bs) >= 2
         /\ \A n \in 3 .. Len(bs) :
              /\ n \in 1 .. Len(bs) /\ n - 1 \in 1 .. Len(bs)
              /\ bs[n].place \in 1 .. Len(pr) /\ bs[n].head \in 1 .. Len(pr)
              /\ bs[n].head <= bs[n].place /\ pr[bs[n].head].op \in Openers
         /\ \A n \in 1 .. Len(bs) : n \in 3 .. Len(bs) \/ n \in {1, 2}
         /\ \A n \in 1 .. Len(bs) : bs[n].place \in 0 .. Len(pr)
         /\ \A m, n \in 3 .. Len(bs) : bs[m].head = bs[n].head => m = n
         /\ \A m, n \in 1 .. Len(bs) : m < n /\ n >= 3 => bs[m].place < bs[n].place
         /\ \A k \in 1 .. Len(pr) :
              pr[k].op \in Enders => pr[k].head \in 1 .. Len(pr) /\ pr[k].head < k
         /\ \A k \in 1 .. Len(pr) : pr[k].head \in Nat /\ pr[k].head < k
<1>1. Len(pr) \in Nat /\ Len(bs) \in Nat /\ Len(bs) >= 2
  BY TypedParts DEF TextOK
<1>2. ASSUME NEW n \in 3 .. Len(bs)
      PROVE  /\ n \in 1 .. Len(bs) /\ n - 1 \in 1 .. Len(bs)
             /\ bs[n].place \in 1 .. Len(pr) /\ bs[n].head \in 1 .. Len(pr)
             /\ bs[n].head <= bs[n].place /\ pr[bs[n].head].op \in Openers
  <2>1. BlockOK(pr, bs, n)
    BY DEF TextOK, Nest
  <2>2. bs[n].place \in 1 .. Len(pr) /\ bs[n].head \in 1 .. bs[n].place
    BY <2>1 DEF BlockOK
  <2>3. pr[bs[n].head].op \in Openers
    BY <2>1 DEF BlockOK, SameHead, Openers
  <2> QED
    BY <1>1, <2>2, <2>3
<1>3. ASSUME NEW n \in 1 .. Len(bs)
      PROVE  (n \in 3 .. Len(bs) \/ n \in {1, 2}) /\ bs[n].place \in 0 .. Len(pr)
  <2>1. n \in 3 .. Len(bs) \/ n \in {1, 2}
    BY <1>1
  <2>2. bs[1].place = 0 /\ bs[2].place = 0
    BY DEF TextOK, Nest, Base
  <2> QED
    BY <1>1, <1>2, <2>1, <2>2
<1>4. ASSUME NEW m \in 1 .. Len(bs), NEW n \in 1 .. Len(bs), m < n, n >= 3
      PROVE  bs[m].place < bs[n].place
  <2>1. bs[m].place < bs[n].head
    BY <1>4 DEF TextOK, Nest
  <2>2. n \in 3 .. Len(bs)
    BY <1>1, <1>4
  <2>3. bs[n].head <= bs[n].place /\ bs[n].head \in Nat /\ bs[n].place \in Nat
    BY <1>2, <2>2
  <2> QED
    BY <1>3, <2>1, <2>3
<1>5. ASSUME NEW m \in 3 .. Len(bs), NEW n \in 3 .. Len(bs), bs[m].head = bs[n].head
      PROVE  m = n
  <2>1. m \in 1 .. Len(bs) /\ n \in 1 .. Len(bs) /\ m >= 3 /\ n >= 3
    BY <1>1
  <2>2. /\ m < n => bs[m].place < bs[n].head
        /\ n < m => bs[n].place < bs[m].head
    BY <2>1 DEF TextOK, Nest
  <2>3. /\ bs[m].place \in 1 .. Len(pr) /\ bs[m].head <= bs[m].place /\ bs[m].head \in 1 .. Len(pr)
        /\ bs[n].place \in 1 .. Len(pr) /\ bs[n].head <= bs[n].place /\ bs[n].head \in 1 .. Len(pr)
    BY <1>2
  <2>4. ~(m < n) /\ ~(n < m)
    BY <1>1, <1>5, <2>2, <2>3
  <2> QED
    BY <1>1, <2>1, <2>4
<1>6. ASSUME NEW k \in 1 .. Len(pr), pr[k].op \in Enders
      PROVE  pr[k].head \in 1 .. Len(pr) /\ pr[k].head < k
  <2>1. pr[k].head \in 1 .. k - 1
    BY <1>6 DEF TextOK, Statements, TokenOK
  <2> QED
    BY <1>1, <2>1
<1>7. ASSUME NEW k \in 1 .. Len(pr)
      PROVE  pr[k].head \in Nat /\ pr[k].head < k
  <2>1. CASE pr[k].op \in Enders
    BY <1>1, <1>6, <2>1
  <2>2. CASE pr[k].op \notin Enders
    <3>1. pr[k].head = 0
      BY <2>2 DEF TextOK, Statements, TokenOK
    <3> QED
      BY <1>1, <3>1
  <2> QED
    BY <2>1, <2>2
<1> QED
  BY <1>1, <1>2, <1>3, <1>4, <1>5, <1>6, <1>7

(* A block that is open is not the head of an end.                         *)
LEMMA OpenNotEnded ==
  ASSUME NEW pr, NEW bs, TextOK(pr, bs), NEW y \in 1 .. Len(pr), pr[y].op = "end"
  PROVE  pr[y].head \notin PlacesOf(bs)
<1> SUFFICES ASSUME NEW n \in 1 .. Len(bs), bs[n].place = pr[y].head
             PROVE  FALSE
  BY DEF PlacesOf
<1>1. pr[y].head \in 1 .. Len(pr) /\ pr[pr[y].head].op \in Openers
  <2>1. pr[y].op \in Enders
    BY DEF Enders
  <2>2. pr[pr[y].head].op \in Openers
    BY <2>1 DEF TextOK, Statements, TokenOK
  <2> QED
    BY <2>1, <2>2, TextFacts
<1>2. n \in 3 .. Len(bs)
  <2>1. bs[1].place = 0 /\ bs[2].place = 0
    BY DEF TextOK, Nest, Base
  <2> QED
    BY <1>1, <2>1, TextFacts
<1>3. BlockOK(pr, bs, n) /\ bs[n].head # pr[y].head
  BY <1>2 DEF TextOK, Nest, Parts
<1> QED
  BY <1>1, <1>3 DEF BlockOK

(* What stands inside a statement still does.                              *)
LEMMA WithinKept ==
  ASSUME NEW pr, NEW bs, NEW pr2, TextOK(pr, bs), Grows(pr, pr2),
         NEW j \in 1 .. Len(pr), NEW h, Within(pr, j, h)
  PROVE  Within(pr2, j, h)
<1>1. pr2[j] = pr[j]
  BY DEF Grows
<1>2. Len(pr) \in Nat /\ pr[j].path \subseteq 0 .. j - 1
  BY TextFacts DEF TextOK, Statements, TokenOK
<1>3. \A p \in pr[j].path \ {0} : p \in 1 .. Len(pr)
  BY <1>2
<1>4. \A p \in pr[j].path \ {0} : pr2[p] = pr[p]
  BY <1>3 DEF Grows
<1> QED
  BY <1>1, <1>4 DEF Within, NextOf, Part

(* A new statement is inside those that are open.                          *)
LEMMA OpenWithin ==
  ASSUME NEW pr, NEW bs, NEW pr2, TextOK(pr, bs), Grows(pr, pr2), NEW n \in 3 .. Len(bs),
         bs[n].place \in pr2[Len(pr) + 1].path
  PROVE  Within(pr2, Len(pr) + 1, bs[n].head)
<1>1. BlockOK(pr, bs, n) /\ bs[n].place \in 1 .. Len(pr)
  BY TextFacts DEF TextOK, Nest
<1>2. pr2[bs[n].place] = pr[bs[n].place] /\ bs[n].place # 0
  BY <1>1 DEF Grows
<1>3. Part(pr2, bs[n].place, bs[n].head)
  BY <1>1, <1>2 DEF BlockOK, Part
<1> QED
  BY <1>2, <1>3 DEF Within

LEMMA SimpleText ==
  ASSUME NEW pr, NEW bs, NEW pr2, NEW bs2, NEW op, NEW decl,
         TextOK(pr, bs), SimpleStep(pr, bs, pr2, bs2, op, decl)
  PROVE  TextOK(pr2, bs2)
<1> DEFINE N == Len(pr) + 1
           L == Len(bs)
<1>1. NewToken(pr, bs, pr2, op, decl, PlacesOf(bs), 0) /\ op \in Simple
  BY DEF SimpleStep
<1>2. /\ pr2 \in Seq(TokenType) /\ Len(pr) \in Nat /\ Len(pr2) = N /\ Grows(pr, pr2)
      /\ \A k \in 1 .. Len(pr) : k \in 1 .. Len(pr2) /\ pr2[k] = pr[k]
      /\ \A k \in 1 .. Len(pr2) : k \in 1 .. Len(pr) \/ k = N
      /\ pr2[N].op = op /\ pr2[N].path = PlacesOf(bs) /\ pr2[N].head = 0 /\ TokenOK(pr2, N)
  BY <1>1, NewTokenParts
<1>3. op \notin Enders /\ op \notin Openers /\ op # "end"
  BY <1>1 DEF Simple, Enders, Openers, Loops
<1>4. /\ bs2 \in Seq(BlockType) /\ Len(bs2) = L /\ L \in Nat /\ L >= 2
      /\ \A n \in 1 .. L :
           /\ bs2[n].op = bs[n].op /\ bs2[n].place = bs[n].place /\ bs2[n].head = bs[n].head
           /\ n # L \/ op # "var" => bs2[n].decl = bs[n].decl
      /\ op = "var" => bs2[L].decl = N
  BY SimpleBlocks, TextFacts
<1>5. Typed(pr2, bs2)
  BY <1>2, <1>4 DEF Typed
<1>6. Statements(pr2)
  BY <1>2, StatementsKept DEF TextOK
<1>7. Nest(pr2, bs2)
  <2>1. Base(bs2)
    <3>1. Base(bs)
      BY DEF TextOK, Nest
    <3> QED
      BY <1>4, <3>1 DEF Base
  <2>2. ASSUME NEW n \in 3 .. Len(bs2)
        PROVE  BlockOK(pr2, bs2, n)
    <3>1. n \in 3 .. L /\ n \in 1 .. L /\ BlockOK(pr, bs, n)
      BY <1>4 DEF TextOK, Nest
    <3>2. bs[n].place \in 1 .. Len(pr) /\ bs[n].head \in 1 .. Len(pr)
      BY <3>1, TextFacts
    <3>3. \A x \in 1 .. Len(pr2) : pr2[x].head = bs[n].head => x <= bs[n].place
      BY <1>2, <3>1, <3>2 DEF BlockOK
    <3> QED
      BY <1>2, <1>4, <3>1, <3>2, <3>3 DEF BlockOK
  <2>3. /\ \A m, n \in 1 .. Len(bs2) : m < n /\ n >= 3 => bs2[m].place < bs2[n].head
        /\ \A m, n \in 3 .. Len(bs2) : bs2[m].op = "defer" /\ bs2[n].op = "defer" => m = n
    BY <1>4, TextFacts, SMTT(30) DEF TextOK, Nest
  <2> QED
    BY <2>1, <2>2, <2>3 DEF Nest
<1>8. Parts(pr2, bs2)
  <2>1. ASSUME NEW y \in 1 .. Len(pr2), pr2[y].op = "end"
        PROVE  LastPart(pr2, y) /\ \A n \in 3 .. Len(bs2) : bs2[n].head # pr2[y].head
    <3>1. y \in 1 .. Len(pr) /\ pr2[y] = pr[y]
      BY <1>2, <1>3, <2>1
    <3>2. LastPart(pr, y) /\ \A n \in 3 .. L : bs[n].head # pr[y].head
      BY <2>1, <3>1 DEF TextOK, Parts
    <3>3. pr[y].head # 0
      BY <2>1, <3>1, TextFacts DEF Enders
    <3>4. \A n \in 3 .. L : n \in 1 .. L
      BY <1>4
    <3> QED
      BY <1>2, <1>4, <3>1, <3>2, <3>3, <3>4 DEF LastPart
  <2>2. ASSUME NEW k \in 1 .. Len(pr2), pr2[k].op \in Openers
        PROVE  \/ \E n \in 3 .. Len(bs2) : bs2[n].head = k
               \/ \E y \in 1 .. Len(pr2) : pr2[y].op = "end" /\ pr2[y].head = k
    <3>1. k \in 1 .. Len(pr) /\ pr2[k] = pr[k]
      BY <1>2, <1>3, <2>2
    <3>2. \/ \E n \in 3 .. L : bs[n].head = k
          \/ \E y \in 1 .. Len(pr) : pr[y].op = "end" /\ pr[y].head = k
      BY <2>2, <3>1 DEF TextOK, Parts
    <3>3. \A n \in 3 .. L : n \in 1 .. L
      BY <1>4
    <3> QED
      BY <1>2, <1>4, <3>2, <3>3
  <2> QED
    BY <2>1, <2>2 DEF Parts
<1>9. Inside(pr2, bs2)
  <2>1. ASSUME NEW n \in 3 .. Len(bs2), NEW j \in 1 .. Len(pr2), bs2[n].head < j
        PROVE  Within(pr2, j, bs2[n].head)
    <3>1. n \in 3 .. L /\ n \in 1 .. L /\ bs2[n].head = bs[n].head
      BY <1>4
    <3>2. CASE j \in 1 .. Len(pr)
      BY <1>2, <2>1, <3>1, <3>2, WithinKept DEF TextOK, Inside
    <3>3. CASE j = N
      <4>1. bs[n].place \in pr2[N].path
        BY <1>2, <3>1 DEF PlacesOf
      <4> QED
        BY <1>2, <3>1, <3>3, <4>1, OpenWithin
    <3> QED
      BY <1>2, <3>2, <3>3
  <2>2. ASSUME NEW y \in 1 .. Len(pr2), NEW j \in 1 .. Len(pr2), pr2[y].op = "end"
        PROVE  /\ pr2[y].head < j /\ j <= y => Within(pr2, j, pr2[y].head)
               /\ y < j => pr2[y].head \notin pr2[j].path
    <3>1. y \in 1 .. Len(pr) /\ pr2[y] = pr[y]
      BY <1>2, <1>3, <2>2
    <3>2. CASE j \in 1 .. Len(pr)
      BY <1>2, <2>2, <3>1, <3>2, WithinKept DEF TextOK, Inside
    <3>3. CASE j = N
      <4>1. ~(j <= y)
        BY <1>2, <3>1, <3>3
      <4> QED
        BY <1>2, <2>2, <3>1, <3>3, <4>1, OpenNotEnded
    <3> QED
      BY <1>2, <3>2, <3>3
  <2> QED
    BY <2>1, <2>2 DEF Inside
<1>10. Declared(pr2, bs2)
  <2>0. Declared(pr, bs) /\ \A n \in 1 .. L : bs[n].decl \in Nat \cup {None}
    BY TypedParts DEF TextOK
  <2>1. ASSUME NEW n \in 1 .. L
        PROVE  /\ bs2[n].decl <= N
               /\ n >= 3 /\ bs2[n].decl # None => bs2[n].place <= bs2[n].decl
               /\ n = 2 /\ bs2[n].decl # None => 1 <= bs2[n].decl
    <3>1. bs[n].decl <= Len(pr)
      BY <2>0 DEF Declared
    <3>2. n >= 3 => n \in 3 .. L
      BY <1>4
    <3>3. bs[n].place \in 0 .. Len(pr)
      BY TextFacts
    <3>4. CASE n # L \/ op # "var"
      <4>1. bs2[n].decl = bs[n].decl /\ bs2[n].place = bs[n].place
        BY <1>4, <3>4
      <4>2. bs[n].decl <= N
        BY <1>2, <2>0, <3>1 DEF None
      <4>3. n >= 3 /\ bs[n].decl # None => bs[n].place <= bs[n].decl
        BY <2>0, <3>2 DEF Declared
      <4>4. n = 2 /\ bs[n].decl # None => 1 <= bs[n].decl
        BY <2>0 DEF Declared
      <4> QED
        BY <4>1, <4>2, <4>3, <4>4
    <3>5. CASE n = L /\ op = "var"
      <4>1. bs2[n].decl = N /\ bs2[n].place = bs[n].place
        BY <1>4, <3>5
      <4> QED
        BY <1>2, <3>3, <4>1
    <3> QED
      BY <3>4, <3>5
  <2>2. ASSUME NEW m \in 1 .. L, NEW n \in 1 .. L, m < n, n >= 3
        PROVE  bs2[m].decl < bs2[n].head
    <3>1. bs2[m].decl = bs[m].decl /\ bs2[n].head = bs[n].head
      BY <1>4, <2>2
    <3> QED
      BY <2>0, <2>2, <3>1 DEF Declared
  <2> QED
    BY <1>2, <1>4, <2>1, <2>2 DEF Declared
<1> QED
  BY <1>5, <1>6, <1>7, <1>8, <1>9, <1>10 DEF TextOK

LEMMA OpenText ==
  ASSUME NEW pr, NEW bs, NEW pr2, NEW bs2, NEW op, NEW decl,
         TextOK(pr, bs), OpenStep(pr, bs, pr2, bs2, op, decl)
  PROVE  TextOK(pr2, bs2)
<1> DEFINE N == Len(pr) + 1
           L == Len(bs)
<1>1. NewToken(pr, bs, pr2, op, decl, PlacesOf(bs), 0) /\ op \in Openers
  BY DEF OpenStep
<1>2. /\ pr2 \in Seq(TokenType) /\ Len(pr) \in Nat /\ Len(pr2) = N /\ Grows(pr, pr2)
      /\ \A k \in 1 .. Len(pr) : k \in 1 .. Len(pr2) /\ pr2[k] = pr[k]
      /\ \A k \in 1 .. Len(pr2) : k \in 1 .. Len(pr) \/ k = N
      /\ pr2[N].op = op /\ pr2[N].path = PlacesOf(bs) /\ pr2[N].head = 0 /\ TokenOK(pr2, N)
  BY <1>1, NewTokenParts
<1>3. op \notin Enders /\ op # "end" /\ op # "var" /\ op \notin {"else", "case"}
  BY <1>1 DEF Enders, Openers, Loops
<1>4. /\ bs2 \in Seq(BlockType) /\ Len(bs2) = L + 1 /\ L \in Nat /\ L >= 2
      /\ \A n \in 1 .. L : n \in 1 .. Len(bs2) /\ bs2[n] = bs[n]
      /\ \A n \in 1 .. Len(bs2) : n \in 1 .. L \/ n = L + 1
      /\ bs2[L + 1].op = op /\ bs2[L + 1].place = N /\ bs2[L + 1].head = N
      /\ bs2[L + 1].decl = IF op \in {"for", "forRange"} THEN N ELSE None
  BY OpenBlocks, TextFacts
<1>5. Typed(pr2, bs2)
  BY <1>2, <1>4 DEF Typed
<1>6. Statements(pr2)
  BY <1>2, StatementsKept DEF TextOK
<1>7. Nest(pr2, bs2)
  <2>1. Base(bs2)
    <3>1. Base(bs)
      BY DEF TextOK, Nest
    <3> QED
      BY <1>4, <3>1 DEF Base
  <2>2. ASSUME NEW n \in 3 .. Len(bs2)
        PROVE  BlockOK(pr2, bs2, n)
    <3>1. CASE n = L + 1
      <4>1. SameHead(op, op)
        BY <1>3 DEF SameHead
      <4>2. \A x \in 1 .. Len(pr2) : pr2[x].head = N => x <= N
        BY <1>2
      <4>3. N \in 1 .. Len(pr2) /\ N \in 1 .. N
        BY <1>2
      <4> QED
        BY <1>1, <1>2, <1>4, <3>1, <4>1, <4>2, <4>3 DEF BlockOK
    <3>2. CASE n # L + 1
      <4>1. n \in 3 .. L /\ n \in 1 .. L /\ BlockOK(pr, bs, n)
        BY <1>4, <3>2 DEF TextOK, Nest
      <4>2. bs[n].place \in 1 .. Len(pr) /\ bs[n].head \in 1 .. Len(pr)
        BY <4>1, TextFacts
      <4>3. \A x \in 1 .. Len(pr2) : pr2[x].head = bs[n].head => x <= bs[n].place
        BY <1>2, <4>1, <4>2 DEF BlockOK
      <4> QED
        BY <1>2, <1>4, <4>1, <4>2, <4>3 DEF BlockOK
    <3> QED
      BY <3>1, <3>2
  <2>3. ASSUME NEW m \in 1 .. Len(bs2), NEW n \in 1 .. Len(bs2), m < n, n >= 3
        PROVE  bs2[m].place < bs2[n].head
    <3>1. m \in 1 .. L /\ bs2[m] = bs[m] /\ bs[m].place \in 0 .. Len(pr)
      BY <1>4, <2>3, TextFacts
    <3>2. CASE n = L + 1
      BY <1>2, <1>4, <3>1, <3>2
    <3>3. CASE n # L + 1
      BY <1>4, <2>3, <3>1, <3>3 DEF TextOK, Nest
    <3> QED
      BY <3>2, <3>3
  <2>4. ASSUME NEW m \in 3 .. Len(bs2), NEW n \in 3 .. Len(bs2),
               bs2[m].op = "defer", bs2[n].op = "defer"
        PROVE  m = n
    <3>1. op = "defer" => \A i \in 1 .. L : bs[i].op # "defer"
      BY DEF OpenStep
    <3>2. /\ (m \in 3 .. L /\ m \in 1 .. L /\ bs2[m] = bs[m]) \/ m = L + 1
          /\ (n \in 3 .. L /\ n \in 1 .. L /\ bs2[n] = bs[n]) \/ n = L + 1
      BY <1>4
    <3> QED
      BY <1>4, <2>4, <3>1, <3>2 DEF TextOK, Nest
  <2> QED
    BY <2>1, <2>2, <2>3, <2>4 DEF Nest
<1>8. Parts(pr2, bs2)
  <2>1. ASSUME NEW y \in 1 .. Len(pr2), pr2[y].op = "end"
        PROVE  LastPart(pr2, y) /\ \A n \in 3 .. Len(bs2) : bs2[n].head # pr2[y].head
    <3>1. y \in 1 .. Len(pr) /\ pr2[y] = pr[y]
      BY <1>2, <1>3, <2>1
    <3>2. LastPart(pr, y) /\ \A n \in 3 .. L : bs[n].head # pr[y].head
      BY <2>1, <3>1 DEF TextOK, Parts
    <3>3. pr[y].head # 0 /\ pr[y].head \in 1 .. Len(pr)
      BY <2>1, <3>1, TextFacts DEF Enders
    <3>4. ASSUME NEW n \in 3 .. Len(bs2)
          PROVE  bs2[n].head # pr2[y].head
      <4>1. CASE n = L + 1
        BY <1>2, <1>4, <3>1, <3>3, <4>1
      <4>2. CASE n # L + 1
        <5>1. n \in 3 .. L /\ bs2[n] = bs[n]
          BY <1>4, <4>2
        <5> QED
          BY <3>1, <3>2, <5>1
      <4> QED
        BY <4>1, <4>2
    <3>5. LastPart(pr2, y)
      BY <1>2, <3>1, <3>2, <3>3 DEF LastPart
    <3> QED
      BY <3>4, <3>5
  <2>2. ASSUME NEW k \in 1 .. Len(pr2), pr2[k].op \in Openers
        PROVE  \/ \E n \in 3 .. Len(bs2) : bs2[n].head = k
               \/ \E y \in 1 .. Len(pr2) : pr2[y].op = "end" /\ pr2[y].head = k
    <3>1. CASE k = N
      <4>1. L + 1 \in 3 .. Len(bs2)
        BY <1>4
      <4> QED
        BY <1>4, <3>1, <4>1
    <3>2. CASE k # N
      <4>1. k \in 1 .. Len(pr) /\ pr2[k] = pr[k]
        BY <1>2, <2>2, <3>2
      <4>2. \/ \E n \in 3 .. L : bs[n].head = k
            \/ \E y \in 1 .. Len(pr) : pr[y].op = "end" /\ pr[y].head = k
        BY <2>2, <4>1 DEF TextOK, Parts
      <4>3. \A n \in 3 .. L : n \in 1 .. L /\ n \in 3 .. Len(bs2)
        BY <1>4
      <4> QED
        BY <1>2, <1>4, <4>2, <4>3
    <3> QED
      BY <3>1, <3>2
  <2> QED
    BY <2>1, <2>2 DEF Parts
<1>9. Inside(pr2, bs2)
  <2>1. ASSUME NEW n \in 3 .. Len(bs2), NEW j \in 1 .. Len(pr2), bs2[n].head < j
        PROVE  Within(pr2, j, bs2[n].head)
    <3>1. n # L + 1
      BY <1>2, <1>4, <2>1
    <3>2. n \in 3 .. L /\ n \in 1 .. L /\ bs2[n].head = bs[n].head
      BY <1>4, <3>1
    <3>3. CASE j \in 1 .. Len(pr)
      BY <1>2, <2>1, <3>2, <3>3, WithinKept DEF TextOK, Inside
    <3>4. CASE j = N
      <4>1. bs[n].place \in pr2[N].path
        BY <1>2, <3>2 DEF PlacesOf
      <4> QED
        BY <1>2, <3>2, <3>4, <4>1, OpenWithin
    <3> QED
      BY <1>2, <3>3, <3>4
  <2>2. ASSUME NEW y \in 1 .. Len(pr2), NEW j \in 1 .. Len(pr2), pr2[y].op = "end"
        PROVE  /\ pr2[y].head < j /\ j <= y => Within(pr2, j, pr2[y].head)
               /\ y < j => pr2[y].head \notin pr2[j].path
    <3>1. y \in 1 .. Len(pr) /\ pr2[y] = pr[y]
      BY <1>2, <1>3, <2>2
    <3>2. CASE j \in 1 .. Len(pr)
      BY <1>2, <2>2, <3>1, <3>2, WithinKept DEF TextOK, Inside
    <3>3. CASE j = N
      <4>1. ~(j <= y)
        BY <1>2, <3>1, <3>3
      <4> QED
        BY <1>2, <2>2, <3>1, <3>3, <4>1, OpenNotEnded
    <3> QED
      BY <1>2, <3>2, <3>3
  <2> QED
    BY <2>1, <2>2 DEF Inside
<1>10. Declared(pr2, bs2)
  <2>0. Declared(pr, bs) /\ \A n \in 1 .. L : bs[n].decl \in Nat \cup {None}
    BY TypedParts DEF TextOK
  <2>1. ASSUME NEW n \in 1 .. Len(bs2)
        PROVE  /\ bs2[n].decl <= N
               /\ n >= 3 /\ bs2[n].decl # None => bs2[n].place <= bs2[n].decl
               /\ n = 2 /\ bs2[n].decl # None => 1 <= bs2[n].decl
    <3>1. CASE n = L + 1
      <4>1. bs2[n].decl \in {N, None} /\ bs2[n].place = N
        BY <1>4, <3>1
      <4> QED
        BY <1>2, <1>4, <3>1, <4>1 DEF None
    <3>2. CASE n # L + 1
      <4>1. n \in 1 .. L /\ bs2[n] = bs[n] /\ (n >= 3 => n \in 3 .. L)
        BY <1>4, <3>2
      <4>2. bs[n].decl <= Len(pr) /\ bs[n].decl \in Nat \cup {None}
        BY <2>0, <4>1 DEF Declared
      <4>3. bs[n].decl <= N
        BY <1>2, <4>2 DEF None
      <4>4. n >= 3 /\ bs[n].decl # None => bs[n].place <= bs[n].decl
        BY <2>0, <4>1 DEF Declared
      <4>5. n = 2 /\ bs[n].decl # None => 1 <= bs[n].decl
        BY <2>0 DEF Declared
      <4> QED
        BY <4>1, <4>3, <4>4, <4>5
    <3> QED
      BY <3>1, <3>2
  <2>2. ASSUME NEW m \in 1 .. Len(bs2), NEW n \in 1 .. Len(bs2), m < n, n >= 3
        PROVE  bs2[m].decl < bs2[n].head
    <3>1. m \in 1 .. L /\ bs2[m] = bs[m]
      BY <1>4, <2>2
    <3>2. bs[m].decl <= Len(pr) /\ bs[m].decl \in Nat \cup {None}
      BY <2>0, <3>1 DEF Declared
    <3>3. CASE n = L + 1
      BY <1>2, <1>4, <3>1, <3>2, <3>3 DEF None
    <3>4. CASE n # L + 1
      BY <1>4, <2>0, <2>2, <3>1, <3>4 DEF Declared
    <3> QED
      BY <3>3, <3>4
  <2> QED
    BY <1>2, <1>4, <2>1, <2>2 DEF Declared
<1> QED
  BY <1>5, <1>6, <1>7, <1>8, <1>9, <1>10 DEF TextOK

LEMMA NextText ==
  ASSUME NEW pr, NEW bs, NEW pr2, NEW bs2, NEW op,
         TextOK(pr, bs), NextStep(pr, bs, pr2, bs2, op)
  PROVE  TextOK(pr2, bs2)
<1> DEFINE N == Len(pr) + 1
           L == Len(bs)
           h == bs[L].head
<1>1. /\ NewToken(pr, bs, pr2, op, None, PlacesOf(Front(bs)), h) /\ op \in {"else", "case"}
      /\ L > 2 /\ IF op = "else" THEN bs[L].op = "if" ELSE bs[L].op \in {"switch", "case"}
  BY DEF NextStep
<1>2. /\ pr2 \in Seq(TokenType) /\ Len(pr) \in Nat /\ Len(pr2) = N /\ Grows(pr, pr2)
      /\ \A k \in 1 .. Len(pr) : k \in 1 .. Len(pr2) /\ pr2[k] = pr[k]
      /\ \A k \in 1 .. Len(pr2) : k \in 1 .. Len(pr) \/ k = N
      /\ pr2[N].op = op /\ pr2[N].path = PlacesOf(Front(bs)) /\ pr2[N].head = h /\ TokenOK(pr2, N)
  BY <1>1, NewTokenParts
<1>3. op \in Enders /\ op # "end" /\ op # "defer" /\ op \notin Openers
  BY <1>1 DEF Enders, Openers, Loops
<1>4. /\ bs2 \in Seq(BlockType) /\ Len(bs2) = L /\ L \in Nat
      /\ \A n \in 1 .. L - 1 : n \in 1 .. L /\ bs2[n] = bs[n]
      /\ \A n \in 1 .. L : n \in 1 .. L - 1 \/ n = L
      /\ bs2[L].op = op /\ bs2[L].place = N /\ bs2[L].head = h /\ bs2[L].decl = None
  BY NextBlocks, TextFacts
<1>5. L \in 3 .. L /\ BlockOK(pr, bs, L) /\ h \in 1 .. Len(pr) /\ h \in Nat
  <2>1. L \in 3 .. L
    BY <1>1, <1>4
  <2> QED
    BY <2>1, TextFacts DEF TextOK, Nest
<1>6. \A n \in 1 .. L : bs2[n].head = bs[n].head
  BY <1>4
<1> HIDE DEF h
<1>7. Typed(pr2, bs2)
  BY <1>1, <1>2, <1>4 DEF Typed
<1>8. Statements(pr2)
  BY <1>2, StatementsKept DEF TextOK
<1>9. Nest(pr2, bs2)
  <2>1. Base(bs2)
    <3>1. Base(bs)
      BY DEF TextOK, Nest
    <3>2. 1 \in 1 .. L - 1 /\ 2 \in 1 .. L - 1
      BY <1>1, <1>4
    <3> QED
      BY <1>4, <3>1, <3>2 DEF Base
  <2>2. ASSUME NEW n \in 3 .. Len(bs2)
        PROVE  BlockOK(pr2, bs2, n)
    <3>1. CASE n = L
      <4>1. SameHead(bs[L].op, pr[h].op) /\ pr2[h] = pr[h]
        BY <1>2, <1>5 DEF BlockOK, h
      <4>2. SameHead(op, pr2[h].op)
        BY <1>1, <4>1 DEF SameHead
      <4>3. \A x \in 1 .. Len(pr2) : pr2[x].head = h => x <= N
        BY <1>2
      <4>4. N \in 1 .. Len(pr2) /\ h \in 1 .. N
        BY <1>2, <1>5
      <4> QED
        BY <1>1, <1>2, <1>3, <1>4, <3>1, <4>2, <4>3, <4>4 DEF BlockOK
    <3>2. CASE n # L
      <4>1. n \in 3 .. L /\ n \in 1 .. L - 1 /\ bs2[n] = bs[n] /\ BlockOK(pr, bs, n)
        BY <1>4, <3>2 DEF TextOK, Nest
      <4>2. bs[n].place \in 1 .. Len(pr) /\ bs[n].head \in 1 .. Len(pr) /\ bs[n].head # h
        BY <1>5, <3>2, <4>1, TextFacts DEF h
      <4>3. \A x \in 1 .. Len(pr2) : pr2[x].head = bs[n].head => x <= bs[n].place
        BY <1>2, <4>1, <4>2 DEF BlockOK
      <4> QED
        BY <1>2, <4>1, <4>2, <4>3 DEF BlockOK
    <3> QED
      BY <3>1, <3>2
  <2>3. ASSUME NEW m \in 1 .. Len(bs2), NEW n \in 1 .. Len(bs2), m < n, n >= 3
        PROVE  bs2[m].place < bs2[n].head
    <3>1. m \in 1 .. L - 1 /\ bs2[m] = bs[m] /\ bs2[n].head = bs[n].head
      BY <1>4, <1>6, <2>3
    <3> QED
      BY <1>4, <2>3, <3>1 DEF TextOK, Nest
  <2>4. ASSUME NEW m \in 3 .. Len(bs2), NEW n \in 3 .. Len(bs2),
               bs2[m].op = "defer", bs2[n].op = "defer"
        PROVE  m = n
    <3>1. m # L /\ n # L
      BY <1>3, <1>4, <2>4
    <3>2. m \in 3 .. L /\ m \in 1 .. L - 1 /\ n \in 3 .. L /\ n \in 1 .. L - 1
      BY <1>4, <3>1
    <3> QED
      BY <1>4, <2>4, <3>2 DEF TextOK, Nest
  <2> QED
    BY <2>1, <2>2, <2>3, <2>4 DEF Nest
<1>10. Parts(pr2, bs2)
  <2>1. ASSUME NEW y \in 1 .. Len(pr2), pr2[y].op = "end"
        PROVE  LastPart(pr2, y) /\ \A n \in 3 .. Len(bs2) : bs2[n].head # pr2[y].head
    <3>1. y \in 1 .. Len(pr) /\ pr2[y] = pr[y]
      BY <1>2, <1>3, <2>1
    <3>2. LastPart(pr, y) /\ \A n \in 3 .. L : bs[n].head # pr[y].head
      BY <2>1, <3>1 DEF TextOK, Parts
    <3>3. pr[y].head # h
      BY <1>5, <3>2 DEF h
    <3>4. LastPart(pr2, y)
      BY <1>2, <3>1, <3>2, <3>3 DEF LastPart
    <3>5. \A n \in 3 .. L : n \in 1 .. L
      BY <1>4
    <3> QED
      BY <1>4, <1>6, <3>1, <3>2, <3>4, <3>5
  <2>2. ASSUME NEW k \in 1 .. Len(pr2), pr2[k].op \in Openers
        PROVE  \/ \E n \in 3 .. Len(bs2) : bs2[n].head = k
               \/ \E y \in 1 .. Len(pr2) : pr2[y].op = "end" /\ pr2[y].head = k
    <3>1. k \in 1 .. Len(pr) /\ pr2[k] = pr[k]
      BY <1>2, <1>3, <2>2
    <3>2. \/ \E n \in 3 .. L : bs[n].head = k
          \/ \E y \in 1 .. Len(pr) : pr[y].op = "end" /\ pr[y].head = k
      BY <2>2, <3>1 DEF TextOK, Parts
    <3>3. \A n \in 3 .. L : n \in 1 .. L
      BY <1>4
    <3> QED
      BY <1>2, <1>4, <1>6, <3>2, <3>3
  <2> QED
    BY <2>1, <2>2 DEF Parts
<1>11. Inside(pr2, bs2)
  <2>1. ASSUME NEW n \in 3 .. Len(bs2), NEW j \in 1 .. Len(pr2), bs2[n].head < j
        PROVE  Within(pr2, j, bs2[n].head)
    <3>1. n \in 3 .. L /\ n \in 1 .. L /\ bs2[n].head = bs[n].head
      BY <1>4, <1>6
    <3>2. CASE j \in 1 .. Len(pr)
      BY <1>2, <2>1, <3>1, <3>2, WithinKept DEF TextOK, Inside
    <3>3. CASE j = N /\ n = L
      BY <1>1, <1>2, <1>4, <3>3 DEF Within, NextOf
    <3>4. CASE j = N /\ n # L
      <4>1. n \in 1 .. L - 1
        BY <1>4, <3>1, <3>4
      <4>2. Len(Front(bs)) = L - 1 /\ Front(bs)[n] = bs[n]
        BY <1>1, <4>1, EndBlocks DEF TextOK
      <4>3. bs[n].place \in pr2[N].path
        BY <1>2, <4>1, <4>2 DEF PlacesOf
      <4> QED
        BY <1>2, <3>1, <3>4, <4>3, OpenWithin
    <3> QED
      BY <1>2, <3>2, <3>3, <3>4
  <2>2. ASSUME NEW y \in 1 .. Len(pr2), NEW j \in 1 .. Len(pr2), pr2[y].op = "end"
        PROVE  /\ pr2[y].head < j /\ j <= y => Within(pr2, j, pr2[y].head)
               /\ y < j => pr2[y].head \notin pr2[j].path
    <3>1. y \in 1 .. Len(pr) /\ pr2[y] = pr[y]
      BY <1>2, <1>3, <2>2
    <3>2. CASE j \in 1 .. Len(pr)
      BY <1>2, <2>2, <3>1, <3>2, WithinKept DEF TextOK, Inside
    <3>3. CASE j = N
      <4>1. ~(j <= y)
        BY <1>2, <3>1, <3>3
      <4>2. PlacesOf(Front(bs)) \subseteq PlacesOf(bs)
        BY <1>1, EndBlocks DEF TextOK
      <4> QED
        BY <1>2, <2>2, <3>1, <3>3, <4>1, <4>2, OpenNotEnded
    <3> QED
      BY <1>2, <3>2, <3>3
  <2> QED
    BY <2>1, <2>2 DEF Inside
<1>12. Declared(pr2, bs2)
  <2>0. Declared(pr, bs) /\ \A n \in 1 .. L : bs[n].decl \in Nat \cup {None}
    BY TypedParts DEF TextOK
  <2>1. ASSUME NEW n \in 1 .. Len(bs2)
        PROVE  /\ bs2[n].decl <= N
               /\ n >= 3 /\ bs2[n].decl # None => bs2[n].place <= bs2[n].decl
               /\ n = 2 /\ bs2[n].decl # None => 1 <= bs2[n].decl
    <3>1. CASE n = L
      BY <1>1, <1>2, <1>4, <3>1 DEF None
    <3>2. CASE n # L
      <4>1. n \in 1 .. L - 1 /\ n \in 1 .. L /\ bs2[n] = bs[n] /\ (n >= 3 => n \in 3 .. L)
        BY <1>4, <3>2
      <4>2. bs[n].decl <= Len(pr) /\ bs[n].decl \in Nat \cup {None}
        BY <2>0, <4>1 DEF Declared
      <4>3. bs[n].decl <= N
        BY <1>2, <4>2 DEF None
      <4>4. n >= 3 /\ bs[n].decl # None => bs[n].place <= bs[n].decl
        BY <2>0, <4>1 DEF Declared
      <4>5. n = 2 /\ bs[n].decl # None => 1 <= bs[n].decl
        BY <2>0 DEF Declared
      <4> QED
        BY <4>1, <4>3, <4>4, <4>5
    <3> QED
      BY <3>1, <3>2
  <2>2. ASSUME NEW m \in 1 .. Len(bs2), NEW n \in 1 .. Len(bs2), m < n, n >= 3
        PROVE  bs2[m].decl < bs2[n].head
    <3>1. m \in 1 .. L - 1 /\ bs2[m] = bs[m] /\ m \in 1 .. L /\ n \in 1 .. L
      BY <1>4, <2>2
    <3> QED
      BY <1>6, <2>0, <2>2, <3>1 DEF Declared
  <2> QED
    BY <1>1, <1>2, <1>4, <2>1, <2>2 DEF Declared
<1> QED
  BY <1>7, <1>8, <1>9, <1>10, <1>11, <1>12 DEF TextOK

LEMMA EndText ==
  ASSUME NEW pr, NEW bs, NEW pr2, NEW bs2,
         TextOK(pr, bs), EndStep(pr, bs, pr2, bs2)
  PROVE  TextOK(pr2, bs2)
<1> DEFINE N == Len(pr) + 1
           L == Len(bs)
           h == bs[L].head
<1>1. NewToken(pr, bs, pr2, "end", None, PlacesOf(bs), h) /\ L > 2 /\ bs2 = Front(bs)
  BY DEF EndStep
<1>2. /\ pr2 \in Seq(TokenType) /\ Len(pr) \in Nat /\ Len(pr2) = N /\ Grows(pr, pr2)
      /\ \A k \in 1 .. Len(pr) : k \in 1 .. Len(pr2) /\ pr2[k] = pr[k]
      /\ \A k \in 1 .. Len(pr2) : k \in 1 .. Len(pr) \/ k = N
      /\ pr2[N].op = "end" /\ pr2[N].path = PlacesOf(bs) /\ pr2[N].head = h /\ TokenOK(pr2, N)
  BY <1>1, NewTokenParts
<1>3. /\ bs2 \in Seq(BlockType) /\ Len(bs2) = L - 1 /\ L \in Nat
      /\ \A n \in 1 .. L - 1 : n \in 1 .. L /\ bs2[n] = bs[n]
      /\ \A n \in 1 .. L : n \in 1 .. L - 1 \/ n = L
  BY <1>1, EndBlocks, TextFacts DEF TextOK
<1>4. "end" \notin Openers
  BY DEF Openers, Loops
<1>5. L \in 3 .. L /\ BlockOK(pr, bs, L) /\ h \in 1 .. Len(pr) /\ h \in Nat
  <2>1. L \in 3 .. L
    BY <1>1, <1>3
  <2> QED
    BY <2>1, TextFacts DEF TextOK, Nest
<1> HIDE DEF h
<1>6. \A n \in 3 .. L - 1 : n \in 3 .. L /\ n \in 1 .. L - 1 /\ n \in 1 .. L /\ bs[n].head # h /\ n # L
  <2> SUFFICES ASSUME NEW n \in 3 .. L - 1
               PROVE  n \in 3 .. L /\ n \in 1 .. L - 1 /\ n \in 1 .. L /\ bs[n].head # h /\ n # L
    OBVIOUS
  <2>1. n \in 3 .. L /\ n \in 1 .. L - 1 /\ n \in 1 .. L /\ n # L
    BY <1>3
  <2> QED
    BY <1>5, <2>1, TextFacts DEF h
<1>7. Typed(pr2, bs2)
  BY <1>1, <1>2, <1>3 DEF Typed
<1>8. Statements(pr2)
  BY <1>2, StatementsKept DEF TextOK
<1>9. Nest(pr2, bs2)
  <2>1. Base(bs2)
    <3>1. Base(bs)
      BY DEF TextOK, Nest
    <3>2. 1 \in 1 .. L - 1 /\ 2 \in 1 .. L - 1
      BY <1>1, <1>3
    <3> QED
      BY <1>3, <3>1, <3>2 DEF Base
  <2>2. ASSUME NEW n \in 3 .. Len(bs2)
        PROVE  BlockOK(pr2, bs2, n)
    <3>1. n \in 3 .. L /\ n \in 1 .. L - 1 /\ bs2[n] = bs[n] /\ BlockOK(pr, bs, n)
      BY <1>3, <1>6 DEF TextOK, Nest
    <3>2. bs[n].place \in 1 .. Len(pr) /\ bs[n].head \in 1 .. Len(pr) /\ bs[n].head # h
      BY <1>3, <1>6, <3>1, TextFacts
    <3>3. \A x \in 1 .. Len(pr2) : pr2[x].head = bs[n].head => x <= bs[n].place
      BY <1>2, <3>1, <3>2 DEF BlockOK
    <3> QED
      BY <1>2, <3>1, <3>2, <3>3 DEF BlockOK
  <2>3. ASSUME NEW m \in 1 .. Len(bs2), NEW n \in 1 .. Len(bs2), m < n, n >= 3
        PROVE  bs2[m].place < bs2[n].head
    BY <1>3, <2>3 DEF TextOK, Nest
  <2>4. ASSUME NEW m \in 3 .. Len(bs2), NEW n \in 3 .. Len(bs2),
               bs2[m].op = "defer", bs2[n].op = "defer"
        PROVE  m = n
    <3>1. m \in 3 .. L - 1 /\ n \in 3 .. L - 1
      BY <1>3
    <3> QED
      BY <1>3, <1>6, <2>4, <3>1 DEF TextOK, Nest
  <2> QED
    BY <2>1, <2>2, <2>3, <2>4 DEF Nest
<1>10. Parts(pr2, bs2)
  <2>1. ASSUME NEW y \in 1 .. Len(pr2), pr2[y].op = "end"
        PROVE  LastPart(pr2, y) /\ \A n \in 3 .. Len(bs2) : bs2[n].head # pr2[y].head
    <3>1. CASE y = N
      <4>1. LastPart(pr2, y)
        BY <1>2, <3>1 DEF LastPart
      <4> QED
        BY <1>2, <1>3, <1>6, <3>1, <4>1
    <3>2. CASE y # N
      <4>1. y \in 1 .. Len(pr) /\ pr2[y] = pr[y]
        BY <1>2, <2>1, <3>2
      <4>2. LastPart(pr, y) /\ \A n \in 3 .. L : bs[n].head # pr[y].head
        BY <2>1, <4>1 DEF TextOK, Parts
      <4>3. pr[y].head # h
        BY <1>5, <4>2 DEF h
      <4>4. LastPart(pr2, y)
        BY <1>2, <4>1, <4>2, <4>3 DEF LastPart
      <4> QED
        BY <1>3, <1>6, <4>1, <4>2, <4>4
    <3> QED
      BY <3>1, <3>2
  <2>2. ASSUME NEW k \in 1 .. Len(pr2), pr2[k].op \in Openers
        PROVE  \/ \E n \in 3 .. Len(bs2) : bs2[n].head = k
               \/ \E y \in 1 .. Len(pr2) : pr2[y].op = "end" /\ pr2[y].head = k
    <3>1. k \in 1 .. Len(pr) /\ pr2[k] = pr[k]
      BY <1>2, <1>4, <2>2
    <3>2. \/ \E n \in 3 .. L : bs[n].head = k
          \/ \E y \in 1 .. Len(pr) : pr[y].op = "end" /\ pr[y].head = k
      BY <2>2, <3>1 DEF TextOK, Parts
    <3>3. CASE k = h
      <4>1. N \in 1 .. Len(pr2)
        BY <1>2
      <4> QED
        BY <1>2, <3>3, <4>1
    <3>4. CASE k # h
      <4>1. \A n \in 3 .. L : n \in 3 .. L - 1 \/ bs[n].head = h
        BY <1>3 DEF h
      <4> QED
        BY <1>2, <1>3, <1>6, <3>2, <3>4, <4>1
    <3> QED
      BY <3>3, <3>4
  <2> QED
    BY <2>1, <2>2 DEF Parts
<1>11. Inside(pr2, bs2)
  <2>0. ASSUME NEW n \in 3 .. L, NEW j \in 1 .. Len(pr2), bs[n].head < j
        PROVE  Within(pr2, j, bs[n].head)
    <3>1. CASE j \in 1 .. Len(pr)
      BY <1>2, <2>0, <3>1, WithinKept DEF TextOK, Inside
    <3>2. CASE j = N
      <4>1. n \in 1 .. L
        BY <1>3
      <4>2. bs[n].place \in pr2[N].path
        BY <1>2, <4>1 DEF PlacesOf
      <4> QED
        BY <1>2, <3>2, <4>2, OpenWithin
    <3> QED
      BY <1>2, <3>1, <3>2
  <2>1. ASSUME NEW n \in 3 .. Len(bs2), NEW j \in 1 .. Len(pr2), bs2[n].head < j
        PROVE  Within(pr2, j, bs2[n].head)
    <3>1. n \in 3 .. L /\ bs2[n].head = bs[n].head
      BY <1>3, <1>6
    <3> QED
      BY <2>0, <2>1, <3>1
  <2>2. ASSUME NEW y \in 1 .. Len(pr2), NEW j \in 1 .. Len(pr2), pr2[y].op = "end"
        PROVE  /\ pr2[y].head < j /\ j <= y => Within(pr2, j, pr2[y].head)
               /\ y < j => pr2[y].head \notin pr2[j].path
    <3>1. CASE y = N
      <4>1. ~(y < j)
        BY <1>2, <3>1
      <4>2. h < j => Within(pr2, j, h)
        BY <1>5, <2>0 DEF h
      <4> QED
        BY <1>2, <3>1, <4>1, <4>2
    <3>2. CASE y # N
      <4>1. y \in 1 .. Len(pr) /\ pr2[y] = pr[y]
        BY <1>2, <2>2, <3>2
      <4>2. CASE j \in 1 .. Len(pr)
        BY <1>2, <2>2, <4>1, <4>2, WithinKept DEF TextOK, Inside
      <4>3. CASE j = N
        <5>1. ~(j <= y)
          BY <1>2, <4>1, <4>3
        <5> QED
          BY <1>2, <2>2, <4>1, <4>3, <5>1, OpenNotEnded
      <4> QED
        BY <1>2, <4>2, <4>3
    <3> QED
      BY <3>1, <3>2
  <2> QED
    BY <2>1, <2>2 DEF Inside
<1>12. Declared(pr2, bs2)
  <2>0. Declared(pr, bs) /\ \A n \in 1 .. L : bs[n].decl \in Nat \cup {None}
    BY TypedParts DEF TextOK
  <2>1. ASSUME NEW n \in 1 .. Len(bs2)
        PROVE  /\ bs2[n].decl <= N
               /\ n >= 3 /\ bs2[n].decl # None => bs2[n].place <= bs2[n].decl
               /\ n = 2 /\ bs2[n].decl # None => 1 <= bs2[n].decl
    <3>1. n \in 1 .. L /\ bs2[n] = bs[n] /\ (n >= 3 => n \in 3 .. L)
      BY <1>3
    <3>2. bs[n].decl <= Len(pr) /\ bs[n].decl \in Nat \cup {None}
      BY <2>0, <3>1 DEF Declared
    <3>3. bs[n].decl <= N
      BY <1>2, <3>2 DEF None
    <3>4. n >= 3 /\ bs[n].decl # None => bs[n].place <= bs[n].decl
      BY <2>0, <3>1 DEF Declared
    <3>5. n = 2 /\ bs[n].decl # None => 1 <= bs[n].decl
      BY <2>0 DEF Declared
    <3> QED
      BY <3>1, <3>3, <3>4, <3>5
  <2>2. ASSUME NEW m \in 1 .. Len(bs2), NEW n \in 1 .. Len(bs2), m < n, n >= 3
        PROVE  bs2[m].decl < bs2[n].head
    BY <1>3, <2>0, <2>2 DEF Declared
  <2> QED
    BY <1>1, <1>2, <1>3, <2>1, <2>2 DEF Declared
<1> QED
  BY <1>7, <1>8, <1>9, <1>10, <1>11, <1>12 DEF TextOK

(* The innermost open block of a kind.                                     *)
LEMMA InnermostIs ==
  ASSUME TextOK(prog, blocks), NEW ops, "function" \notin ops
  PROVE  /\ InnermostOf(ops) \in 0 .. Len(blocks)
         /\ InnermostOf(ops) # 0 => blocks[InnermostOf(ops)].op \in ops
         /\ \A n \in 1 .. Len(blocks) : blocks[n].op \in ops => n <= InnermostOf(ops)
         /\ "block" \notin ops => InnermostOf(ops) \in {0} \cup 3 .. Len(blocks)
<1> DEFINE S == {0} \cup {n \in DOMAIN blocks : blocks[n].op \in ops}
<1>1. Len(blocks) \in Nat /\ DOMAIN blocks = 1 .. Len(blocks)
  BY TypedParts, LenProperties DEF TextOK, Typed
<1>2. S \subseteq 0 .. Len(blocks) /\ S # {}
  BY <1>1
<1>3. Highest(S) \in S /\ \A m \in S : m <= Highest(S)
  BY <1>1, <1>2, HighestIs
<1>4. InnermostOf(ops) = Highest(S)
  BY DEF InnermostOf
<1>5. blocks[1].op = "function" /\ blocks[2].op = "block"
  BY DEF TextOK, Nest, Base
<1>6. \A n \in 1 .. Len(blocks) : n \in 3 .. Len(blocks) \/ n \in {1, 2}
  BY TextFacts
<1> HIDE DEF S
<1>7. \A n \in S : n \in 0 .. Len(blocks) /\ (n # 0 => n \in 1 .. Len(blocks) /\ blocks[n].op \in ops)
  BY <1>1 DEF S
<1>8. \A n \in 1 .. Len(blocks) : blocks[n].op \in ops => n \in S
  BY <1>1 DEF S
<1> QED
  BY <1>3, <1>4, <1>5, <1>6, <1>7, <1>8

LEMMA FunctionIs ==
  ASSUME TextOK(prog, blocks)
  PROVE  /\ Function \in 1 .. Len(blocks)
         /\ \/ Function = 1 /\ \A n \in 1 .. Len(blocks) : blocks[n].op # "defer"
            \/ Function \in 3 .. Len(blocks) /\ blocks[Function].op = "defer"
<1> DEFINE d == InnermostOf({"defer"})
<1>1. /\ d \in {0} \cup 3 .. Len(blocks) /\ (d # 0 => blocks[d].op = "defer")
      /\ \A n \in 1 .. Len(blocks) : blocks[n].op = "defer" => n <= d
  BY InnermostIs
<1>2. Len(blocks) \in Nat /\ Len(blocks) >= 2
  BY TextFacts
<1> HIDE DEF d
<1>3. {1, d} \subseteq 0 .. Len(blocks) /\ {1, d} # {}
  BY <1>1, <1>2
<1>4. Highest({1, d}) \in {1, d} /\ \A m \in {1, d} : m <= Highest({1, d})
  BY <1>2, <1>3, HighestIs
<1>5. Function = Highest({1, d})
  BY DEF Function, d
<1>6. CASE d = 0
  <2>1. Function = 1
    BY <1>4, <1>5, <1>6
  <2>2. \A n \in 1 .. Len(blocks) : ~(n <= d)
    BY <1>6
  <2>3. \A n \in 1 .. Len(blocks) : blocks[n].op # "defer"
    BY <1>1, <2>2
  <2> QED
    BY <1>2, <2>1, <2>3
<1>7. CASE d # 0
  <2>1. Function = d
    BY <1>1, <1>4, <1>5, <1>7
  <2> QED
    BY <1>1, <1>2, <1>7, <2>1
<1> QED
  BY <1>6, <1>7

LEMMA MeantIs ==
  ASSUME TextOK(prog, blocks)
  PROVE  Meant \in Nat \cup {None} /\ Meant <= Len(prog)
<1> DEFINE D == {n \in DOMAIN blocks : n >= Function /\ blocks[n].decl # None}
<1>1. /\ Len(blocks) \in Nat /\ DOMAIN blocks = 1 .. Len(blocks) /\ Len(prog) \in Nat
      /\ \A n \in 1 .. Len(blocks) : blocks[n].decl \in Nat \cup {None} /\ blocks[n].decl <= Len(prog)
  BY TypedParts, LenProperties DEF TextOK, Typed, Declared
<1>2. Meant = IF D = {} THEN None ELSE blocks[Highest(D)].decl
  BY DEF Meant
<1>3. CASE D = {}
  BY <1>1, <1>2, <1>3 DEF None
<1>4. CASE D # {}
  <2>1. D \subseteq 0 .. Len(blocks)
    BY <1>1
  <2>2. Highest(D) \in D
    BY <1>1, <1>4, <2>1, HighestIs
  <2> QED
    BY <1>1, <1>2, <1>4, <2>2
<1> QED
  BY <1>3, <1>4

LEMMA PathIs == ASSUME NEW bs \in Seq(BlockType) PROVE Path(bs) = PlacesOf(bs)
<1>1. DOMAIN bs = 1 .. Len(bs)
  BY LenProperties
<1>2. ToSet(bs) = {bs[n] : n \in 1 .. Len(bs)}
  BY <1>1 DEF ToSet
<1> QED
  BY <1>2 DEF Path, PlacesOf

(* The places of the open blocks, seen from the statement that is added.   *)
LEMMA OpenPlaces ==
  ASSUME NEW pr, NEW bs, TextOK(pr, bs), NEW pr2, Grows(pr, pr2)
  PROVE  /\ 0 \in PlacesOf(bs) /\ PlacesOf(bs) \subseteq 0 .. Len(pr)
         /\ \A p \in PlacesOf(bs) \ {0} : p \in 1 .. Len(pr) /\ pr2[p] = pr[p]
         /\ \A p \in PlacesOf(bs) \ {0} :
              \E n \in 3 .. Len(bs) : p = bs[n].place /\ pr2[p].op = bs[n].op
         /\ \A n \in 3 .. Len(bs) : bs[n].place \in PlacesOf(bs) \ {0}
         /\ \A p \in PlacesOf(bs) \ {0} : pr2[p].op \in Openers \cup {"else", "case"}
<1>1. /\ bs[1].place = 0 /\ bs[2].place = 0 /\ Len(bs) \in Nat /\ Len(bs) >= 2 /\ Len(pr) \in Nat
      /\ \A n \in 1 .. Len(bs) : n \in 3 .. Len(bs) \/ n \in {1, 2}
      /\ \A n \in 1 .. Len(bs) : bs[n].place \in 0 .. Len(pr)
      /\ \A n \in 3 .. Len(bs) : n \in 1 .. Len(bs) /\ bs[n].place \in 1 .. Len(pr)
  BY TextFacts DEF TextOK, Nest, Base
<1>2. 0 \in PlacesOf(bs) /\ PlacesOf(bs) \subseteq 0 .. Len(pr)
  BY <1>1 DEF PlacesOf
<1>3. \A p \in PlacesOf(bs) \ {0} : p \in 1 .. Len(pr) /\ pr2[p] = pr[p]
  BY <1>1, <1>2 DEF Grows
<1>4. \A n \in 3 .. Len(bs) : bs[n].place \in PlacesOf(bs) \ {0}
  BY <1>1 DEF PlacesOf
<1>5. ASSUME NEW p \in PlacesOf(bs) \ {0}
      PROVE  /\ \E n \in 3 .. Len(bs) : p = bs[n].place /\ pr2[p].op = bs[n].op
             /\ pr2[p].op \in Openers \cup {"else", "case"}
  <2>1. PICK n \in 1 .. Len(bs) : p = bs[n].place
    BY DEF PlacesOf
  <2>2. n \in 3 .. Len(bs)
    BY <1>1, <2>1
  <2>3. pr[p].op = bs[n].op /\ bs[n].op \in Openers \cup {"else", "case"}
    BY <2>1, <2>2 DEF TextOK, Nest, BlockOK
  <2> QED
    BY <1>3, <2>1, <2>2, <2>3
<1> QED
  BY <1>2, <1>3, <1>4, <1>5

-----------------------------------------------------------------------------
(* What the actions of Bodies do is one of the four kinds of steps.        *)

LEMMA AddedToken ==
  ASSUME TextOK(prog, blocks), NEW op \in Ops, NEW decl \in Nat \cup {None},
         NEW path, path \subseteq Nat, NEW head \in Nat,
         prog' = Append(prog, Token(op, decl, path, head))
  PROVE  /\ Len(prog) \in Nat /\ Grows(prog, prog')
         /\ prog'[Len(prog) + 1].op = op /\ prog'[Len(prog) + 1].decl = decl
         /\ prog'[Len(prog) + 1].path = path /\ prog'[Len(prog) + 1].head = head
<1>1. prog \in Seq(TokenType) /\ Token(op, decl, path, head) \in TokenType
  BY DEF TextOK, Typed, Token, TokenType
<1>2. Grows(prog, prog') /\ prog'[Len(prog) + 1] = Token(op, decl, path, head)
  BY <1>1, AppendGrows
<1> QED
  BY <1>2, TextFacts DEF Token

LEMMA OpKinds ==
  /\ Simple \subseteq Ops /\ Openers \subseteq Ops /\ Enders \subseteq Ops
  /\ Simple \cap Enders = {} /\ Openers \cap Enders = {} /\ Simple \cap Openers = {}
  /\ {"else", "case", "end"} \subseteq Enders /\ Loops \subseteq Openers
  /\ {"set", "var", "break", "continue", "return", "panic", "use", "call"} \subseteq Simple
  /\ {"if", "switch", "block", "defer"} \subseteq Openers
BY DEF Simple, Openers, Enders, Loops, Ops

LEMMA WriteStep ==
  ASSUME TextOK(prog, blocks), NEW op, Write(op)
  PROVE  SimpleStep(prog, blocks, prog', blocks', op, Meant)
<1> DEFINE N == Len(prog) + 1
<1>1. /\ op \in Simple \ {"var"} /\ Allowed(op) /\ blocks' = blocks
      /\ prog' = Append(prog, Token(op, Meant, Path(blocks), 0))
  BY DEF Write
<1>2. Path(blocks) = PlacesOf(blocks)
  BY PathIs DEF TextOK, Typed
<1>3. Meant \in Nat \cup {None} /\ Meant <= Len(prog) /\ Len(prog) \in Nat
  BY MeantIs, TextFacts
<1>4. PlacesOf(blocks) \subseteq Nat
  BY TypedParts DEF TextOK, PlacesOf
<1>5. op \in Ops /\ op \notin Enders /\ op \notin {"else", "case"} /\ op # "end"
  BY <1>1, OpKinds
<1>6. /\ Grows(prog, prog')
      /\ prog'[N].op = op /\ prog'[N].decl = Meant /\ prog'[N].path = PlacesOf(blocks)
      /\ prog'[N].head = 0
  BY <1>1, <1>2, <1>3, <1>4, <1>5, AddedToken
<1>7. /\ 0 \in PlacesOf(blocks) /\ PlacesOf(blocks) \subseteq 0 .. Len(prog)
      /\ \A p \in PlacesOf(blocks) \ {0} : p \in 1 .. Len(prog) /\ prog'[p] = prog[p]
      /\ \A p \in PlacesOf(blocks) \ {0} : prog'[p].op \in Openers \cup {"else", "case"}
  BY <1>6, OpenPlaces
<1>8. ASSUME op \in {"break", "continue"}
      PROVE  \E p \in LoopsAround(prog', N) :
               \A q \in prog'[N].path \ {0} : prog'[q].op = "defer" => q < p
  <2> DEFINE n == InnermostOf(Loops)
             d == InnermostOf({"defer"})
             p == blocks[n].place
  <2>1. n > d
    BY <1>1, <1>8 DEF Allowed
  <2>2. /\ n \in 0 .. Len(blocks) /\ (n # 0 => blocks[n].op \in Loops)
        /\ n \in {0} \cup 3 .. Len(blocks)
    BY InnermostIs DEF Loops
  <2>3. /\ d \in 0 .. Len(blocks)
        /\ \A m \in 1 .. Len(blocks) : blocks[m].op = "defer" => m <= d
    BY InnermostIs
  <2> HIDE DEF n, d
  <2>4. n \in 3 .. Len(blocks) /\ blocks[n].op \in Loops /\ n \in 1 .. Len(blocks) /\ n >= 3
    BY <2>1, <2>2, <2>3, TextFacts
  <2>5. p \in PlacesOf(blocks) \ {0} /\ prog'[p].op = blocks[n].op
    <3>1. BlockOK(prog, blocks, n) /\ p \in 1 .. Len(prog)
      BY <2>4, TextFacts DEF TextOK, Nest
    <3>2. p \in PlacesOf(blocks) /\ p # 0
      BY <2>4, <3>1 DEF PlacesOf
    <3> QED
      BY <1>7, <3>1, <3>2 DEF BlockOK
  <2>6. p \in LoopsAround(prog', N)
    BY <1>6, <2>4, <2>5 DEF LoopsAround
  <2>7. ASSUME NEW q \in PlacesOf(blocks) \ {0}, prog'[q].op = "defer"
        PROVE  q < p
    <3>1. PICK m \in 3 .. Len(blocks) : q = blocks[m].place /\ prog'[q].op = blocks[m].op
      BY <1>6, OpenPlaces
    <3>2. m \in 1 .. Len(blocks) /\ m <= d
      BY <2>3, <2>7, <3>1, TextFacts
    <3>3. m < n
      BY <2>1, <2>3, <2>4, <3>2
    <3> QED
      BY <2>4, <3>1, <3>2, <3>3, TextFacts
  <2> QED
    BY <1>6, <2>6, <2>7
<1>9. TokenOK(prog', N)
  <2>1. PlacesOf(blocks) \subseteq 0 .. N - 1 /\ Meant <= N
    BY <1>3, <1>7 DEF None
  <2>2. op # "var" /\ op # "defer" /\ (op = "set" => Meant # None)
    BY <1>1, OpKinds DEF Allowed
  <2> QED
    BY <1>5, <1>6, <1>7, <1>8, <2>1, <2>2 DEF TokenOK
<1>10. NewToken(prog, blocks, prog', op, Meant, PlacesOf(blocks), 0)
  BY <1>1, <1>2, <1>3, <1>4, <1>5, <1>9 DEF NewToken, TextOK
<1> QED
  BY <1>1, <1>10 DEF SimpleStep

LEMMA WriteVarStep ==
  ASSUME TextOK(prog, blocks), WriteVar
  PROVE  SimpleStep(prog, blocks, prog', blocks', "var", Len(prog) + 1)
<1> DEFINE N == Len(prog) + 1
<1>1. /\ prog' = Append(prog, Token("var", N, PlacesOf(blocks), 0))
      /\ blocks' = [blocks EXCEPT ![Len(blocks)].decl = N]
  BY PathIs DEF WriteVar, Here, TextOK, Typed
<1>2. Len(prog) \in Nat /\ N \in Nat /\ "var" \in Simple /\ "var" \in Ops /\ "var" \notin Enders
  BY TextFacts, OpKinds
<1>4. PlacesOf(blocks) \subseteq Nat
  BY TypedParts DEF TextOK, PlacesOf
<1>6. /\ Grows(prog, prog')
      /\ prog'[N].op = "var" /\ prog'[N].decl = N /\ prog'[N].path = PlacesOf(blocks)
      /\ prog'[N].head = 0
  BY <1>1, <1>2, <1>4, AddedToken
<1>7. /\ 0 \in PlacesOf(blocks) /\ PlacesOf(blocks) \subseteq 0 .. Len(prog)
      /\ \A p \in PlacesOf(blocks) \ {0} : prog'[p].op \in Openers \cup {"else", "case"}
  BY <1>6, OpenPlaces
<1>9. TokenOK(prog', N)
  <2>1. PlacesOf(blocks) \subseteq 0 .. N - 1 /\ N <= N
    BY <1>2, <1>7
  <2> QED
    BY <1>2, <1>6, <1>7, <2>1 DEF TokenOK
<1>10. NewToken(prog, blocks, prog', "var", N, PlacesOf(blocks), 0)
  BY <1>1, <1>2, <1>4, <1>9 DEF NewToken, TextOK
<1> QED
  BY <1>1, <1>2, <1>10 DEF SimpleStep

LEMMA WriteOpenStep ==
  ASSUME TextOK(prog, blocks), NEW op, WriteOpen(op)
  PROVE  OpenStep(prog, blocks, prog', blocks', op, Meant)
<1> DEFINE N == Len(prog) + 1
<1>1. /\ op \in Openers /\ (op = "defer" => ~InDefer)
      /\ prog' = Append(prog, Token(op, Meant, PlacesOf(blocks), 0))
      /\ blocks' = Append(blocks, Block(op, N, N, IF op \in {"for", "forRange"} THEN N ELSE None))
  BY PathIs DEF WriteOpen, Here, TextOK, Typed
<1>3. Meant \in Nat \cup {None} /\ Meant <= Len(prog) /\ Len(prog) \in Nat
  BY MeantIs, TextFacts
<1>4. PlacesOf(blocks) \subseteq Nat
  BY TypedParts DEF TextOK, PlacesOf
<1>5. op \in Ops /\ op \notin Enders /\ op \notin Simple
  BY <1>1, OpKinds
<1>6. /\ Grows(prog, prog')
      /\ prog'[N].op = op /\ prog'[N].decl = Meant /\ prog'[N].path = PlacesOf(blocks)
      /\ prog'[N].head = 0
  BY <1>1, <1>3, <1>4, <1>5, AddedToken
<1>7. /\ 0 \in PlacesOf(blocks) /\ PlacesOf(blocks) \subseteq 0 .. Len(prog)
      /\ \A p \in PlacesOf(blocks) \ {0} : prog'[p].op \in Openers \cup {"else", "case"}
  BY <1>6, OpenPlaces
<1>11. op = "defer" => \A n \in 1 .. Len(blocks) : blocks[n].op # "defer"
  <2>1. ASSUME op = "defer" PROVE Function = 1
    BY <1>1, <2>1 DEF InDefer
  <2> QED
    BY <2>1, FunctionIs
<1>9. TokenOK(prog', N)
  <2>1. PlacesOf(blocks) \subseteq 0 .. N - 1 /\ Meant <= N
    BY <1>3, <1>7 DEF None
  <2>2. op \notin {"var", "set", "break", "continue", "else", "case", "end"}
    BY <1>5, OpKinds
  <2>3. ASSUME op = "defer", NEW p \in PlacesOf(blocks) \ {0}
        PROVE  prog'[p].op # "defer"
    <3>1. PICK n \in 3 .. Len(blocks) : prog'[p].op = blocks[n].op
      BY <1>6, OpenPlaces
    <3> QED
      BY <1>11, <2>3, <3>1, TextFacts
  <2> QED
    BY <1>5, <1>6, <1>7, <2>1, <2>2, <2>3 DEF TokenOK
<1>10. NewToken(prog, blocks, prog', op, Meant, PlacesOf(blocks), 0)
  BY <1>1, <1>3, <1>4, <1>5, <1>9 DEF NewToken, TextOK
<1> QED
  BY <1>1, <1>10, <1>11 DEF OpenStep

LEMMA WriteNextStep ==
  ASSUME TextOK(prog, blocks), NEW op, WriteNext(op)
  PROVE  NextStep(prog, blocks, prog', blocks', op)
<1> DEFINE N == Len(prog) + 1
           L == Len(blocks)
           h == blocks[L].head
<1>1. /\ op \in {"else", "case"} /\ Inner = blocks[L] /\ Outer = Front(blocks)
      /\ IF op = "else" THEN blocks[L].op = "if" ELSE blocks[L].op \in {"switch", "case"}
      /\ prog' = Append(prog, Token(op, None, Path(Front(blocks)), h))
      /\ blocks' = Append(Front(blocks), Block(op, N, h, None))
  BY DEF WriteNext, Here, Inner, Outer, Last
<1>2. /\ Len(prog) \in Nat /\ L \in Nat /\ L >= 2
      /\ blocks[1].op = "function" /\ blocks[2].op = "block"
  BY TextFacts DEF TextOK, Nest, Base
<1>3. L > 2 /\ L \in 3 .. L
  BY <1>1, <1>2
<1>4. /\ Front(blocks) \in Seq(BlockType) /\ Len(Front(blocks)) = L - 1
      /\ \A n \in 1 .. L - 1 : n \in 1 .. L /\ Front(blocks)[n] = blocks[n]
  BY <1>3, EndBlocks DEF TextOK
<1>5. Path(Front(blocks)) = PlacesOf(Front(blocks))
  BY <1>4, PathIs
<1>6. BlockOK(prog, blocks, L) /\ h \in 1 .. Len(prog) /\ h \in Nat
  BY <1>3, TextFacts DEF TextOK, Nest
<1>7. PlacesOf(Front(blocks)) \subseteq PlacesOf(blocks)
  BY <1>4 DEF PlacesOf
<1>8. PlacesOf(blocks) \subseteq Nat
  BY TypedParts DEF TextOK, PlacesOf
<1>9. op \in Ops /\ op \in Enders /\ op \notin {"var", "set", "break", "continue", "end", "defer"}
  BY <1>1, OpKinds
<1>10. /\ Grows(prog, prog')
      /\ prog'[N].op = op /\ prog'[N].decl = None /\ prog'[N].path = PlacesOf(Front(blocks))
      /\ prog'[N].head = h
  <2>1. /\ PlacesOf(Front(blocks)) \subseteq Nat /\ None \in Nat \cup {None}
        /\ prog' = Append(prog, Token(op, None, PlacesOf(Front(blocks)), h))
    BY <1>1, <1>5, <1>7, <1>8
  <2> HIDE DEF h
  <2> QED
    BY <1>6, <1>9, <2>1, AddedToken
<1>11. /\ PlacesOf(blocks) \subseteq 0 .. Len(prog)
       /\ \A p \in PlacesOf(blocks) \ {0} : prog'[p].op \in Openers \cup {"else", "case"}
  BY <1>10, OpenPlaces
<1>12. 0 \in PlacesOf(Front(blocks))
  <2>1. blocks[1].place = 0 /\ 1 \in 1 .. L - 1
    BY <1>2, <1>3 DEF TextOK, Nest, Base
  <2> QED
    BY <1>4, <2>1 DEF PlacesOf
<1>13. prog'[h] = prog[h] /\ SameHead(op, prog[h].op) /\ prog[h].op \in Openers
  BY <1>1, <1>3, <1>6, <1>10, TextFacts DEF Grows, BlockOK, SameHead
<1>14. \A p \in PlacesOf(Front(blocks)) : p < h
  <2> SUFFICES ASSUME NEW n \in 1 .. L - 1
               PROVE  blocks[n].place < h
    BY <1>4 DEF PlacesOf
  <2>1. n \in 1 .. L /\ L \in 1 .. L /\ n < L /\ L >= 3
    BY <1>2, <1>3
  <2> QED
    BY <2>1 DEF TextOK, Nest
<1>15. TokenOK(prog', N)
  <2>1. PlacesOf(Front(blocks)) \subseteq 0 .. N - 1 /\ None <= N /\ h \in 1 .. N - 1
    BY <1>2, <1>6, <1>7, <1>11 DEF None
  <2>2. \A p \in PlacesOf(Front(blocks)) \ {0} : prog'[p].op \in Openers \cup {"else", "case"}
    BY <1>7, <1>11
  <2> QED
    BY <1>9, <1>10, <1>12, <1>13, <1>14, <2>1, <2>2 DEF TokenOK
<1>16. PlacesOf(Front(blocks)) \subseteq Nat /\ None \in Nat \cup {None}
  BY <1>7, <1>8
<1>17. NewToken(prog, blocks, prog', op, None, PlacesOf(Front(blocks)), h)
  BY <1>1, <1>5, <1>6, <1>9, <1>15, <1>16 DEF NewToken, TextOK
<1> QED
  BY <1>1, <1>3, <1>17 DEF NextStep

LEMMA WriteEndStep ==
  ASSUME TextOK(prog, blocks), WriteEnd
  PROVE  EndStep(prog, blocks, prog', blocks')
<1> DEFINE N == Len(prog) + 1
           L == Len(blocks)
           h == blocks[L].head
<1>1. /\ L > 2 /\ blocks' = Front(blocks)
      /\ prog' = Append(prog, Token("end", None, PlacesOf(blocks), h))
  BY PathIs DEF WriteEnd, Here, Inner, Outer, Last, TextOK, Typed
<1>2. Len(prog) \in Nat /\ L \in Nat /\ L \in 3 .. L
  BY <1>1, TextFacts
<1>3. BlockOK(prog, blocks, L) /\ h \in 1 .. Len(prog) /\ h \in Nat /\ prog[h].op \in Openers
  BY <1>2, TextFacts DEF TextOK, Nest
<1>4. PlacesOf(blocks) \subseteq Nat
  BY TypedParts DEF TextOK, PlacesOf
<1>5. "end" \in Ops /\ "end" \in Enders /\ "end" \notin Simple
  BY OpKinds
<1>6. /\ Grows(prog, prog')
      /\ prog'[N].op = "end" /\ prog'[N].decl = None /\ prog'[N].path = PlacesOf(blocks)
      /\ prog'[N].head = h
  BY <1>1, <1>3, <1>4, <1>5, AddedToken
<1>7. /\ 0 \in PlacesOf(blocks) /\ PlacesOf(blocks) \subseteq 0 .. Len(prog)
      /\ \A p \in PlacesOf(blocks) \ {0} : prog'[p].op \in Openers \cup {"else", "case"}
      /\ \A p \in PlacesOf(blocks) \ {0} : prog'[p] = prog[p]
      /\ \A p \in PlacesOf(blocks) \ {0} : \E n \in 3 .. L : p = blocks[n].place
      /\ blocks[L].place \in PlacesOf(blocks) \ {0}
  BY <1>2, <1>6, OpenPlaces
<1>8. prog'[h] = prog[h]
  BY <1>3, <1>6 DEF Grows
<1>9. Part(prog', blocks[L].place, h)
  BY <1>3, <1>7 DEF Part, BlockOK
<1>10. ASSUME NEW p \in PlacesOf(blocks) \ {0}
       PROVE  p < h \/ Part(prog', p, h)
  <2>1. PICK n \in 3 .. L : p = blocks[n].place
    BY <1>7
  <2>2. CASE n = L
    BY <1>9, <2>1, <2>2
  <2>3. CASE n # L
    <3>1. n \in 1 .. L /\ L \in 1 .. L /\ n < L /\ L >= 3
      BY <1>2, <2>3
    <3> QED
      BY <2>1, <3>1 DEF TextOK, Nest
  <2> QED
    BY <2>2, <2>3
<1>11. TokenOK(prog', N)
  <2>1. PlacesOf(blocks) \subseteq 0 .. N - 1 /\ None <= N /\ h \in 1 .. N - 1
    BY <1>2, <1>3, <1>7 DEF None
  <2> QED
    BY <1>3, <1>5, <1>6, <1>7, <1>8, <1>9, <1>10, <2>1 DEF TokenOK
<1>12. NewToken(prog, blocks, prog', "end", None, PlacesOf(blocks), h)
  BY <1>1, <1>3, <1>4, <1>5, <1>11 DEF NewToken, TextOK
<1> QED
  BY <1>1, <1>12 DEF EndStep

-----------------------------------------------------------------------------
(* Where a statement ends.                                                 *)

LEMMA EndOfEnd ==
  ASSUME NEW pr, NEW bs, TextOK(pr, bs), NEW y \in 1 .. Len(pr), pr[y].op = "end"
  PROVE  EndIn(pr, pr[y].head) = y
<1> DEFINE S == {m \in 1 .. Len(pr) : pr[m].head = pr[y].head}
<1>1. Len(pr) \in Nat /\ LastPart(pr, y)
  BY TextFacts DEF TextOK, Parts
<1>2. S \subseteq 0 .. Len(pr) /\ y \in S /\ \A m \in S : m <= y
  BY <1>1 DEF LastPart
<1> HIDE DEF S
<1>3. Highest(S) = y
  BY <1>1, <1>2, HighestAt
<1> QED
  BY <1>3 DEF EndIn, S

LEMMA EndIs ==
  ASSUME NEW pr, NEW bs, TextOK(pr, bs), Len(bs) = 2, NEW h \in 1 .. Len(pr), pr[h].op \in Openers
  PROVE  /\ EndIn(pr, h) \in 1 .. Len(pr) /\ pr[EndIn(pr, h)].op = "end"
         /\ pr[EndIn(pr, h)].head = h /\ h < EndIn(pr, h)
         /\ \A x \in 1 .. Len(pr) : pr[x].head = h => x <= EndIn(pr, h)
         /\ \A j \in 1 .. Len(pr) : h < j /\ j <= EndIn(pr, h) => Within(pr, j, h)
         /\ \A j \in 1 .. Len(pr) : EndIn(pr, h) < j => h \notin pr[j].path
<1>1. PICK y \in 1 .. Len(pr) : pr[y].op = "end" /\ pr[y].head = h
  <2>1. 3 .. Len(bs) = {}
    OBVIOUS
  <2> QED
    BY <2>1 DEF TextOK, Parts
<1>2. EndIn(pr, h) = y
  BY <1>1, EndOfEnd
<1>3. h < y
  BY <1>1, TextFacts
<1>4. LastPart(pr, y)
  BY <1>1 DEF TextOK, Parts
<1> QED
  BY <1>1, <1>2, <1>3, <1>4 DEF LastPart, TextOK, Inside

(* Statements are nested.                                                  *)
LEMMA Nested ==
  ASSUME NEW pr, NEW bs, TextOK(pr, bs), NEW y \in 1 .. Len(pr), NEW z \in 1 .. Len(pr),
         pr[y].op = "end", pr[z].op = "end", pr[y].head < pr[z].head, pr[z].head < y
  PROVE  z < y
<1> DEFINE h == pr[y].head
           g == pr[z].head
<1>1. /\ h \in 1 .. Len(pr) /\ g \in 1 .. Len(pr) /\ Len(pr) \in Nat
      /\ pr[g].op \in Openers /\ TokenOK(pr, y) /\ pr[y].op \in Enders
  BY TextFacts, OpKinds, SMTT(30) DEF TextOK, Statements, TokenOK
<1> HIDE DEF h, g
<1>2. h < g /\ g < y /\ pr[y].head = h /\ pr[z].head = g /\ y # z
  BY <1>1 DEF h, g
<1>3. SUFFICES ASSUME y < z
               PROVE  FALSE
  BY <1>1, <1>2
<1>4. Within(pr, y, g)
  <2>1. y <= z
    BY <1>3
  <2> QED
    BY <1>1, <1>2, <2>1 DEF TextOK, Inside
<1>5. PICK q \in pr[y].path \ {0} : Part(pr, q, g)
  BY <1>4 DEF Within, NextOf
<1>6. q < h \/ Part(pr, q, h)
  BY <1>2 DEF TextOK, Statements, TokenOK
<1>7. q \in 1 .. Len(pr)
  BY <1>1 DEF TokenOK
<1>8. q = g \/ pr[q].head = g
  BY <1>5 DEF Part
<1>9. g <= q
  BY <1>1, <1>7, <1>8, TextFacts
<1>10. q = h \/ pr[q].head = h
  BY <1>1, <1>2, <1>6, <1>7, <1>9 DEF Part
<1>11. pr[g].head = 0
  BY <1>1, OpKinds DEF TextOK, Statements, TokenOK
<1> QED
  BY <1>1, <1>2, <1>7, <1>8, <1>9, <1>10, <1>11

(* A statement inside an open one is between its head and its end.         *)
LEMMA PathRange ==
  ASSUME NEW pr, NEW bs, TextOK(pr, bs), Len(bs) = 2, NEW k \in 1 .. Len(pr), NEW h \in pr[k].path \ {0},
         pr[h].op \in Openers
  PROVE  h \in 1 .. Len(pr) /\ h < k /\ k <= EndIn(pr, h)
<1>1. TokenOK(pr, k) /\ Len(pr) \in Nat
  BY TextFacts DEF TextOK, Statements
<1>2. h \in 1 .. Len(pr) /\ h < k
  BY <1>1 DEF TokenOK
<1>3. EndIn(pr, h) \in 1 .. Len(pr) /\ ~(EndIn(pr, h) < k)
  BY <1>2, EndIs
<1> QED
  BY <1>1, <1>2, <1>3

-----------------------------------------------------------------------------
(* Functions that are defined by going on to larger arguments.             *)

LEMMA RunDown ==
  ASSUME NEW n \in Nat, NEW J, NEW nx, NEW vl, \A k \in 1 .. n : k \in J => nx[k] \in k + 1 .. n
  PROVE  \E F : RunsDown(F, n, J, nx, vl)
<1> DEFINE Good(F, l) == /\ F = [k \in 1 .. n |-> F[k]]
                         /\ \A k \in l .. n : F[k] = IF k \in J THEN F[nx[k]] ELSE vl[k]
           X == {m \in Nat : m <= n => \E F : Good(F, n - m + 1)}
<1>1. 0 \in X
  <2> DEFINE F == [k \in 1 .. n |-> 0]
  <2>1. F = [k \in 1 .. n |-> F[k]]
    OBVIOUS
  <2>2. n - 0 + 1 .. n = {}
    OBVIOUS
  <2>3. Good(F, n - 0 + 1)
    BY <2>1, <2>2
  <2> QED
    BY <2>3
<1>2. ASSUME NEW m \in Nat, m \in X
      PROVE  m + 1 \in X
  <2> SUFFICES ASSUME m + 1 <= n
               PROVE  \E F : Good(F, n - (m + 1) + 1)
    OBVIOUS
  <2> DEFINE l == n - m
  <2>1. l \in 1 .. n /\ n - (m + 1) + 1 = l /\ n - m + 1 = l + 1
    OBVIOUS
  <2>2. PICK F : Good(F, l + 1)
    BY <1>2, <2>1
  <2> DEFINE G == [k \in 1 .. n |-> IF k = l THEN IF l \in J THEN F[nx[l]] ELSE vl[l] ELSE F[k]]
  <2>3. G = [k \in 1 .. n |-> G[k]]
    OBVIOUS
  <2>4. G[l] = IF l \in J THEN F[nx[l]] ELSE vl[l]
    BY <2>1
  <2>5. \A k \in l + 1 .. n : k \in 1 .. n /\ k # l /\ G[k] = F[k]
    BY <2>1
  <2> HIDE DEF l, G
  <2>6. \A k \in l .. n : k \in J => nx[k] \in l + 1 .. n
    BY <2>1
  <2>7. \A k \in l .. n : k = l \/ k \in l + 1 .. n
    BY <2>1
  <2>8. \A k \in l .. n : G[k] = IF k \in J THEN G[nx[k]] ELSE vl[k]
    BY <2>2, <2>4, <2>5, <2>6, <2>7
  <2> QED
    BY <2>1, <2>3, <2>8
<1> HIDE DEF X
<1>3. n \in X
  BY <1>1, <1>2, InductiveSet
<1>4. n - n + 1 = 1
  OBVIOUS
<1> QED
  BY <1>3, <1>4 DEF X, RunsDown

LEMMA LoopIs ==
  ASSUME NEW pr, NEW bs, TextOK(pr, bs), NEW k \in 1 .. Len(pr), pr[k].op \in {"break", "continue"}
  PROVE  /\ LoopIn(pr, k) \in LoopsAround(pr, k) /\ LoopIn(pr, k) \in pr[k].path \ {0}
         /\ LoopIn(pr, k) \in 1 .. Len(pr) /\ LoopIn(pr, k) < k
         /\ pr[LoopIn(pr, k)].op \in Loops /\ pr[LoopIn(pr, k)].op \in Openers
         /\ \A q \in pr[k].path \ {0} : pr[q].op = "defer" => q < LoopIn(pr, k)
         /\ \A q \in LoopsAround(pr, k) : q <= LoopIn(pr, k)
<1> DEFINE S == LoopsAround(pr, k)
<1>1. TokenOK(pr, k) /\ Len(pr) \in Nat
  BY TextFacts DEF TextOK, Statements
<1>2. PICK p \in S : \A q \in pr[k].path \ {0} : pr[q].op = "defer" => q < p
  BY <1>1 DEF TokenOK
<1>3. S \subseteq 0 .. Len(pr) /\ S # {} /\ \A q \in S : q \in 1 .. Len(pr) /\ q < k
  BY <1>1, <1>2 DEF TokenOK, LoopsAround
<1>4. Highest(S) \in S /\ \A q \in S : q <= Highest(S)
  BY <1>1, <1>3, HighestIs
<1>5. LoopIn(pr, k) = Highest(S)
  BY DEF LoopIn
<1>6. p <= LoopIn(pr, k) /\ p \in 1 .. Len(pr) /\ LoopIn(pr, k) \in 1 .. Len(pr) /\ LoopIn(pr, k) < k
  BY <1>3, <1>4, <1>5
<1>7. \A q \in pr[k].path \ {0} : q \in 1 .. Len(pr)
  BY <1>1 DEF TokenOK
<1>8. \A q \in pr[k].path \ {0} : pr[q].op = "defer" => q < LoopIn(pr, k)
  BY <1>2, <1>6, <1>7
<1>9. /\ LoopIn(pr, k) \in pr[k].path \ {0} /\ pr[LoopIn(pr, k)].op \in Loops
      /\ pr[LoopIn(pr, k)].op \in Openers
  BY <1>4, <1>5, OpKinds DEF LoopsAround
<1> QED
  BY <1>4, <1>5, <1>6, <1>8, <1>9

LEMMA SilentForward ==
  ASSUME NEW pr, NEW bs, TextOK(pr, bs), Len(bs) = 2, NEW k \in 1 .. Len(pr), Silent(pr, k)
  PROVE  SilentTo(pr, k) \in k + 1 .. Len(pr) + 1
<1>1. Len(pr) \in Nat /\ TokenOK(pr, k)
  BY TextFacts DEF TextOK, Statements
<1>2. CASE pr[k].op = "break"
  <2>1. /\ LoopIn(pr, k) \in pr[k].path \ {0} /\ pr[LoopIn(pr, k)].op \in Openers
        /\ LoopIn(pr, k) \in 1 .. Len(pr)
    BY <1>2, LoopIs
  <2>2. k <= EndIn(pr, LoopIn(pr, k))
    BY <2>1, PathRange
  <2>3. EndIn(pr, LoopIn(pr, k)) \in 1 .. Len(pr)
    BY <2>1, EndIs
  <2> QED
    BY <1>1, <1>2, <2>2, <2>3 DEF SilentTo
<1>3. CASE pr[k].op \in {"else", "case"}
  <2>1. pr[k].head \in 1 .. Len(pr) /\ pr[pr[k].head].op \in Openers
    BY <1>1, <1>3, TextFacts, OpKinds DEF TokenOK
  <2>2. EndIn(pr, pr[k].head) \in 1 .. Len(pr) /\ k <= EndIn(pr, pr[k].head)
    BY <2>1, EndIs
  <2> QED
    BY <1>1, <1>3, <2>2 DEF SilentTo
<1>4. CASE pr[k].op \notin {"else", "case", "break"}
  BY <1>1, <1>4 DEF SilentTo
<1> QED
  BY <1>2, <1>3, <1>4

LEMMA SettleIs ==
  ASSUME TextOK(prog, blocks), Len(blocks) = 2, MaxLen \in Nat, Len(prog) <= MaxLen
  PROVE  /\ \A k \in 1 .. Len(prog) : Silent(prog, k) => Settle[k] = Settle[SilentTo(prog, k)]
         /\ \A k \in 1 .. Len(prog) : ~Silent(prog, k) => Settle[k] = SettledAt(prog, k)
         /\ \A k \in 1 .. MaxLen + 1 : k > Len(prog) => Settle[k] = k
<1> DEFINE J == {k \in 1 .. Len(prog) : Silent(prog, k)}
           nx == [k \in J |-> SilentTo(prog, k)]
           vl == [k \in 1 .. MaxLen + 1 |-> SettledAt(prog, k)]
           Body(F) ==
             [k \in 1 .. MaxLen + 1 |->
               IF k > Len(prog) THEN k
               ELSE CASE prog[k].op = "block"            -> F[k + 1]
                      [] prog[k].op = "break"            -> F[EndOf(LoopOf(k)) + 1]
                      [] prog[k].op = "continue"         -> LoopOf(k)
                      [] prog[k].op \in {"else", "case"} -> F[EndOf(prog[k].head) + 1]
                      [] prog[k].op = "end" ->
                           IF prog[prog[k].head].op \in Loops THEN prog[k].head
                           ELSE IF prog[prog[k].head].op = "defer" THEN k ELSE F[k + 1]
                      [] OTHER -> k]
<1>1. Len(prog) \in Nat /\ DOMAIN prog = 1 .. Len(prog)
  BY TypedParts, LenProperties DEF TextOK, Typed
<1>2. \A h : EndOf(h) = EndIn(prog, h)
  BY <1>1 DEF EndOf, NextParts, EndIn
<1>3. \A k : LoopOf(k) = LoopIn(prog, k)
  BY DEF LoopOf, LoopIn, LoopsAround
<1>4. ASSUME NEW k \in 1 .. MaxLen + 1
      PROVE  k \in J => nx[k] \in k + 1 .. MaxLen + 1
  <2>1. k \in J => nx[k] \in k + 1 .. Len(prog) + 1
    BY SilentForward
  <2> QED
    BY <1>1, <2>1
<1>5. PICK F : /\ F = [k \in 1 .. MaxLen + 1 |-> F[k]]
               /\ \A k \in 1 .. MaxLen + 1 : F[k] = IF k \in J THEN F[nx[k]] ELSE vl[k]
  <2> DEFINE n == MaxLen + 1
  <2>1. n \in Nat
    OBVIOUS
  <2>2. \A k \in 1 .. n : k \in J => nx[k] \in k + 1 .. n
    BY <1>4
  <2> HIDE DEF J, nx, vl, n
  <2>3. \E F : RunsDown(F, n, J, nx, vl)
    BY <2>1, <2>2, RunDown
  <2> QED
    BY <2>3 DEF n, RunsDown
<1>6. ASSUME NEW G, NEW k \in 1 .. MaxLen + 1
      PROVE  Body(G)[k] = IF k \in J THEN G[nx[k]] ELSE vl[k]
  <2>1. CASE k > Len(prog)
    <3>1. k \notin J /\ vl[k] = k
      BY <1>1, <2>1 DEF SettledAt
    <3> QED
      BY <2>1, <3>1
  <2>2. CASE ~(k > Len(prog))
    <3>1. k \in 1 .. Len(prog)
      BY <1>1, <2>2
    <3>2. vl[k] = SettledAt(prog, k) /\ (Silent(prog, k) => k \in J /\ nx[k] = SilentTo(prog, k))
      BY <3>1
    <3>3. ~Silent(prog, k) => k \notin J
      OBVIOUS
    <3> HIDE DEF J, nx, vl
    <3> DEFINE o == prog[k].op
               v == Body(G)[k]
    <3>4. CASE o = "block"
      <4>1. v = G[k + 1]
        BY <2>2, <3>4
      <4> HIDE DEF v
      <4> QED
        BY <3>2, <3>4, <4>1 DEF Silent, SilentTo, v
    <3>5. CASE o = "break"
      <4>1. v = G[EndOf(LoopOf(k)) + 1]
        BY <2>2, <3>5
      <4> HIDE DEF v
      <4> QED
        BY <1>2, <1>3, <3>2, <3>5, <4>1 DEF Silent, SilentTo, v
    <3>6. CASE o = "continue"
      <4>1. v = LoopOf(k)
        BY <2>2, <3>6
      <4> HIDE DEF v
      <4> QED
        BY <1>3, <2>2, <3>2, <3>3, <3>6, <4>1 DEF Silent, SettledAt, v
    <3>7. CASE o \in {"else", "case"}
      <4>1. v = G[EndOf(prog[k].head) + 1]
        BY <2>2, <3>7
      <4> HIDE DEF v
      <4> QED
        BY <1>2, <3>2, <3>7, <4>1 DEF Silent, SilentTo, v
    <3>8. CASE o = "end"
      <4>1. v = IF prog[prog[k].head].op \in Loops THEN prog[k].head
                ELSE IF prog[prog[k].head].op = "defer" THEN k ELSE G[k + 1]
        BY <2>2, <3>8
      <4> HIDE DEF v
      <4> QED
        BY <2>2, <3>2, <3>3, <3>8, <4>1 DEF Silent, SilentTo, SettledAt, v
    <3>9. CASE o \notin {"block", "break", "continue", "else", "case", "end"}
      <4>1. v = k
        BY <2>2, <3>9
      <4> HIDE DEF v
      <4> QED
        BY <2>2, <3>2, <3>3, <3>9, <4>1 DEF Silent, SettledAt, v
    <3> QED
      BY <3>4, <3>5, <3>6, <3>7, <3>8, <3>9
  <2> QED
    BY <2>1, <2>2
<1>7. F = Body(F)
  <2>1. Body(F) = [k \in 1 .. MaxLen + 1 |-> Body(F)[k]]
    OBVIOUS
  <2> HIDE DEF Body, J, nx, vl
  <2>2. ASSUME NEW k \in 1 .. MaxLen + 1
        PROVE  Body(F)[k] = F[k]
    <3>1. Body(F)[k] = IF k \in J THEN F[nx[k]] ELSE vl[k]
      BY <1>6
    <3>2. F[k] = IF k \in J THEN F[nx[k]] ELSE vl[k]
      BY <1>5
    <3> QED
      BY <3>1, <3>2
  <2>3. F = [k \in 1 .. MaxLen + 1 |-> F[k]]
    BY <1>5
  <2>4. [k \in 1 .. MaxLen + 1 |-> Body(F)[k]] = [k \in 1 .. MaxLen + 1 |-> F[k]]
    BY <2>2, SMTT(30)
  <2> QED
    BY <2>1, <2>3, <2>4
<1>8. Settle = Body(Settle)
  <2>1. \E G : G = Body(G)
    BY <1>7
  <2> QED
    BY <2>1 DEF Settle
<1>9. \A k \in 1 .. MaxLen + 1 : Settle[k] = IF k \in J THEN Settle[nx[k]] ELSE vl[k]
  <2> HIDE DEF Body, J, nx, vl
  <2> QED
    BY <1>6, <1>8
<1>10. ASSUME NEW k \in 1 .. Len(prog)
       PROVE  /\ Silent(prog, k) => Settle[k] = Settle[SilentTo(prog, k)]
              /\ ~Silent(prog, k) => Settle[k] = SettledAt(prog, k)
  <2>1. k \in 1 .. MaxLen + 1
    BY <1>1
  <2>2. Settle[k] = IF k \in J THEN Settle[nx[k]] ELSE vl[k]
    BY <1>9, <2>1
  <2>3. vl[k] = SettledAt(prog, k) /\ (k \in J <=> Silent(prog, k))
    BY <2>1
  <2>4. k \in J => nx[k] = SilentTo(prog, k)
    OBVIOUS
  <2> HIDE DEF J, nx, vl
  <2> QED
    BY <2>2, <2>3, <2>4
<1>11. ASSUME NEW k \in 1 .. MaxLen + 1, k > Len(prog)
       PROVE  Settle[k] = k
  <2>1. k \notin J /\ vl[k] = k
    BY <1>1, <1>11 DEF SettledAt
  <2> HIDE DEF J, nx, vl
  <2> QED
    BY <1>9, <2>1
<1> QED
  BY <1>10, <1>11

-----------------------------------------------------------------------------
(* The body that is written, and then stays as it is.                      *)

LEMMA BodyInitially == ASSUME Init, MaxLen \in Nat PROVE BodyInv
<1>1. /\ prog = <<>> /\ phase = "writing"
      /\ \E param \in {0, None} :
           blocks = <<Block("function", 0, 0, param), Block("block", 0, 0, None)>>
  BY DEF Init
<1>2. PICK param \in {0, None} :
        blocks = <<Block("function", 0, 0, param), Block("block", 0, 0, None)>>
  BY <1>1
<1>3. /\ Len(blocks) = 2 /\ Len(prog) = 0
      /\ blocks[1] = Block("function", 0, 0, param) /\ blocks[2] = Block("block", 0, 0, None)
  BY <1>1, <1>2
<1>4. Block("function", 0, 0, param) \in BlockType /\ Block("block", 0, 0, None) \in BlockType
  BY OpKinds DEF Block, BlockType
<1>5. Typed(prog, blocks)
  <2>1. blocks \in Seq(BlockType)
    BY <1>2, <1>4
  <2>2. prog \in Seq(TokenType)
    BY <1>1
  <2> QED
    BY <1>3, <2>1, <2>2 DEF Typed
<1>6. Base(blocks)
  BY <1>3 DEF Base, Block
<1>7. 3 .. Len(blocks) = {} /\ 1 .. Len(prog) = {}
  BY <1>3
<1>8. Statements(prog) /\ Parts(prog, blocks) /\ Inside(prog, blocks)
  BY <1>7 DEF Statements, Parts, Inside
<1>9. Nest(prog, blocks)
  BY <1>3, <1>6, <1>7 DEF Nest
<1>10. Declared(prog, blocks)
  BY <1>3, <1>7 DEF Declared, Block, None
<1> QED
  BY <1>1, <1>3, <1>5, <1>8, <1>9, <1>10 DEF BodyInv, TextOK

LEMMA NextSizes ==
  ASSUME NEW pr, NEW bs, NEW pr2, NEW bs2, NEW op, NextStep(pr, bs, pr2, bs2, op)
  PROVE  Len(pr2) = Len(pr) + 1 /\ Len(bs2) = Len(bs)
<1>1. NewToken(pr, bs, pr2, op, None, PlacesOf(Front(bs)), bs[Len(bs)].head)
  BY DEF NextStep
<1> QED
  BY <1>1, NewTokenParts, NextBlocks

LEMMA EndSizes ==
  ASSUME NEW pr, NEW bs, NEW pr2, NEW bs2, EndStep(pr, bs, pr2, bs2)
  PROVE  Len(pr2) = Len(pr) + 1 /\ Len(bs2) = Len(bs) - 1 /\ Len(bs) > 2
<1>1. /\ NewToken(pr, bs, pr2, "end", None, PlacesOf(bs), bs[Len(bs)].head)
      /\ bs2 = Front(bs) /\ Len(bs) > 2
  BY DEF EndStep
<1>2. Typed(pr, bs)
  BY <1>1 DEF NewToken
<1> QED
  BY <1>1, <1>2, NewTokenParts, EndBlocks

LEMMA WroteText ==
  ASSUME BodyInv, Wrote, MaxLen \in Nat
  PROVE  /\ TextOK(prog', blocks') /\ Len(prog') + Len(blocks') <= MaxLen + 2
         /\ Len(prog) + 1 <= MaxLen /\ phase = "writing"
<1>1. TextOK(prog, blocks) /\ Len(prog) \in Nat /\ Len(blocks) \in Nat /\ Len(blocks) >= 2
  BY TextFacts DEF BodyInv
<1>2. ASSUME NEW op, Write(op), SimpleStep(prog, blocks, prog', blocks', op, Meant)
      PROVE  /\ TextOK(prog', blocks') /\ Len(prog') + Len(blocks') <= MaxLen + 2
             /\ Len(prog) + 1 <= MaxLen /\ phase = "writing"
  <2>1. Len(prog') = Len(prog) + 1 /\ Len(blocks') = Len(blocks)
    BY <1>2, NewTokenParts, SimpleBlocks DEF SimpleStep
  <2>2. op \in Simple /\ op \notin Openers
    BY <1>2, OpKinds DEF Write
  <2> QED
    BY <1>1, <1>2, <2>1, <2>2, SimpleText DEF Write, Writing
<1>3. ASSUME WriteVar, SimpleStep(prog, blocks, prog', blocks', "var", Len(prog) + 1)
      PROVE  /\ TextOK(prog', blocks') /\ Len(prog') + Len(blocks') <= MaxLen + 2
             /\ Len(prog) + 1 <= MaxLen /\ phase = "writing"
  <2>1. Len(prog') = Len(prog) + 1 /\ Len(blocks') = Len(blocks)
    BY <1>3, NewTokenParts, SimpleBlocks DEF SimpleStep
  <2>2. "var" \notin Openers
    BY OpKinds
  <2> QED
    BY <1>1, <1>3, <2>1, <2>2, SimpleText DEF WriteVar, Writing
<1>4. ASSUME NEW op, WriteOpen(op), OpenStep(prog, blocks, prog', blocks', op, Meant)
      PROVE  /\ TextOK(prog', blocks') /\ Len(prog') + Len(blocks') <= MaxLen + 2
             /\ Len(prog) + 1 <= MaxLen /\ phase = "writing"
  <2>1. Len(prog') = Len(prog) + 1 /\ Len(blocks') = Len(blocks) + 1
    BY <1>4, NewTokenParts, OpenBlocks DEF OpenStep
  <2> QED
    BY <1>1, <1>4, <2>1, OpenText DEF WriteOpen, Writing
<1>5. ASSUME NEW op, WriteNext(op), NextStep(prog, blocks, prog', blocks', op)
      PROVE  /\ TextOK(prog', blocks') /\ Len(prog') + Len(blocks') <= MaxLen + 2
             /\ Len(prog) + 1 <= MaxLen /\ phase = "writing"
  <2>1. Len(prog') = Len(prog) + 1 /\ Len(blocks') = Len(blocks)
    BY <1>5, NextSizes
  <2>2. op \notin Openers
    BY <1>5, OpKinds DEF WriteNext
  <2> QED
    BY <1>1, <1>5, <2>1, <2>2, NextText DEF WriteNext, Writing
<1>6. ASSUME WriteEnd, EndStep(prog, blocks, prog', blocks')
      PROVE  /\ TextOK(prog', blocks') /\ Len(prog') + Len(blocks') <= MaxLen + 2
             /\ Len(prog) + 1 <= MaxLen /\ phase = "writing"
  <2>1. Len(prog') = Len(prog) + 1 /\ Len(blocks') = Len(blocks) - 1 /\ Len(blocks) > 2
    BY <1>6, EndSizes
  <2>2. "end" \notin Openers
    BY OpKinds
  <2> QED
    BY <1>1, <1>6, <2>1, <2>2, EndText DEF WriteEnd, Writing
<1> QED
  BY <1>2, <1>3, <1>4, <1>5, <1>6 DEF Wrote

(* A step writes, starts the body, runs it, or changes nothing of it.      *)
LEMMA BodySteps ==
  ASSUME BodyInv, [Next]_vars
  PROVE  \/ Wrote /\ phase' \in {"writing", "refused"}
         \/ Start
         \/ UNCHANGED <<prog, blocks>> /\ phase = "running" /\ phase' \in {"running", "over"}
         \/ UNCHANGED <<prog, blocks, phase>>
<1>1. TextOK(prog, blocks)
  BY DEF BodyInv
<1>2. ASSUME NEW op \in Simple, Statement(op)
      PROVE  Wrote /\ phase' \in {"writing", "refused"}
  <2>1. Write(op) /\ SimpleStep(prog, blocks, prog', blocks', op, Meant)
    BY <1>1, <1>2, WriteStep DEF Statement
  <2>2. phase = "writing"
    BY <2>1 DEF Write, Writing
  <2>3. phase' \in {"refused", phase}
    BY <1>2 DEF Statement, Compile
  <2> QED
    BY <2>1, <2>2, <2>3 DEF Wrote
<1>3. ASSUME Variable
      PROVE  Wrote /\ phase' = "writing"
  BY <1>1, <1>3, WriteVarStep DEF Variable, WriteVar, Writing, Wrote
<1>4. ASSUME NEW op \in Openers, Opening(op)
      PROVE  Wrote /\ phase' = "writing"
  BY <1>1, <1>4, WriteOpenStep DEF Opening, WriteOpen, Writing, Wrote
<1>5. ASSUME NEW op \in {"else", "case"}, Branch(op)
      PROVE  Wrote /\ phase' = "writing"
  BY <1>1, <1>5, WriteNextStep DEF Branch, WriteNext, Writing, Wrote
<1>6. ASSUME Ending
      PROVE  Wrote /\ phase' = "writing"
  BY <1>1, <1>6, WriteEndStep DEF Ending, WriteEnd, Writing, Wrote
<1>7. ASSUME Complete
      PROVE  Start
  BY <1>7 DEF Complete
<1>8. ASSUME Unseen \/ UNCHANGED vars
      PROVE  UNCHANGED <<prog, blocks, phase>>
  BY <1>8 DEF Unseen, vars, bodyVars
<1>9. ASSUME NEW b \in BOOLEAN, Execute(b)
      PROVE  UNCHANGED <<prog, blocks>> /\ phase = "running" /\ phase' \in {"running", "over"}
  <2>1. Do(b)
    BY <1>9 DEF Execute
  <2>2. UNCHANGED <<prog, blocks>> /\ phase = "running"
    BY <2>1 DEF Do, Text
  <2>3. DoPlain \/ DoDefer \/ DoTest(b) \/ DoLeave
    BY <2>1 DEF Do
  <2>4. phase' = phase \/ phase' = "over"
    BY <2>3 DEF DoPlain, DoDefer, DoTest, DoLeave
  <2> QED
    BY <2>2, <2>4
<1> QED
  BY <1>2, <1>3, <1>4, <1>5, <1>6, <1>7, <1>8, <1>9 DEF Next

LEMMA BodyKept ==
  ASSUME BodyInv, [Next]_vars, MaxLen \in Nat
  PROVE  BodyInv'
<1>1. CASE Wrote /\ phase' \in {"writing", "refused"}
  BY <1>1, WroteText DEF BodyInv
<1>2. CASE Start
  BY <1>2 DEF Start, BodyInv
<1>3. CASE UNCHANGED <<prog, blocks>> /\ phase = "running" /\ phase' \in {"running", "over"}
  BY <1>3 DEF BodyInv
<1>4. CASE UNCHANGED <<prog, blocks, phase>>
  BY <1>4 DEF BodyInv
<1> QED
  BY <1>1, <1>2, <1>3, <1>4, BodySteps

-----------------------------------------------------------------------------
(* What stands in a deferred block, in a text that is complete.            *)

LEMMA DeferEnds ==
  ASSUME NEW pr, NEW bs, Complete2(pr, bs), NEW d, NEW k, DeferredBy(pr, d, k)
  PROVE  /\ d \in 1 .. Len(pr) /\ EndIn(pr, d) \in 1 .. Len(pr) /\ Len(pr) \in Nat
         /\ pr[d].op = "defer" /\ pr[d].op \in Openers /\ pr[d].head = 0
         /\ pr[EndIn(pr, d)].op = "end" /\ pr[EndIn(pr, d)].head = d
<1>1. d \in 1 .. Len(pr) /\ pr[d].op = "defer" /\ pr[d].op \in Openers /\ pr[d].op \notin Enders
  BY OpKinds DEF DeferredBy
<1>2. TextOK(pr, bs) /\ Len(bs) = 2
  BY DEF Complete2
<1>3. pr[d].head = 0
  BY <1>1, <1>2 DEF TextOK, Statements, TokenOK
<1> QED
  BY <1>1, <1>2, <1>3, EndIs, TextFacts

(* The deferred block is around what it holds.                             *)
LEMMA DeferAround ==
  ASSUME NEW pr, NEW bs, Complete2(pr, bs), NEW k \in 1 .. Len(pr), NEW d, DeferredBy(pr, d, k)
  PROVE  d \in pr[k].path \ {0}
<1>1. /\ d \in 1 .. Len(pr) /\ pr[d].op = "defer" /\ pr[d].op \in Openers
      /\ d < k /\ k <= EndIn(pr, d)
  BY DeferEnds DEF DeferredBy
<1>2. TextOK(pr, bs) /\ Len(bs) = 2
  BY DEF Complete2
<1>3. Within(pr, k, d)
  BY <1>1, <1>2, EndIs
<1>4. ASSUME NEW x \in 1 .. Len(pr), pr[x].op \in {"else", "case"}, pr[x].head = d
      PROVE  FALSE
  BY <1>1, <1>2, <1>4 DEF TextOK, Statements, TokenOK, SameHead
<1>5. ~NextOf(pr, k, d)
  BY <1>4 DEF NextOf
<1>6. PICK p \in pr[k].path \ {0} : Part(pr, p, d)
  BY <1>3, <1>5 DEF Within
<1>7. TokenOK(pr, k) /\ Len(pr) \in Nat
  BY <1>2, TextFacts DEF TextOK, Statements
<1>8. p \in 1 .. Len(pr) /\ pr[p].op \in Openers \cup {"else", "case"}
  BY <1>7 DEF TokenOK
<1>9. pr[p].op \in Openers => pr[p].head = 0
  BY <1>2, <1>8, OpKinds DEF TextOK, Statements, TokenOK
<1>10. p = d
  BY <1>1, <1>4, <1>6, <1>8, <1>9 DEF Part
<1> QED
  BY <1>6, <1>10

LEMMA AroundDeferred ==
  ASSUME NEW pr, NEW bs, Complete2(pr, bs), NEW k \in 1 .. Len(pr), NEW d \in pr[k].path \ {0},
         pr[d].op = "defer"
  PROVE  DeferredBy(pr, d, k)
<1>1. pr[d].op \in Openers
  BY OpKinds
<1> QED
  BY <1>1, PathRange DEF Complete2, DeferredBy

(* A statement that begins in a deferred block ends in it.                 *)
LEMMA DeferNests ==
  ASSUME NEW pr, NEW bs, Complete2(pr, bs), NEW d, NEW h \in 1 .. Len(pr), pr[h].op \in Openers,
         DeferredBy(pr, d, h)
  PROVE  /\ EndIn(pr, h) < EndIn(pr, d)
         /\ \A k \in 1 .. Len(pr) + 1 : h <= k /\ k <= EndIn(pr, h) + 1 => DeferredBy(pr, d, k)
<1>1. /\ d \in 1 .. Len(pr) /\ EndIn(pr, d) \in 1 .. Len(pr) /\ Len(pr) \in Nat
      /\ pr[d].op = "defer" /\ pr[EndIn(pr, d)].op = "end" /\ pr[EndIn(pr, d)].head = d
  BY DeferEnds
<1>2. TextOK(pr, bs) /\ Len(bs) = 2 /\ d < h /\ h <= EndIn(pr, d)
  BY DEF Complete2, DeferredBy
<1>3. /\ EndIn(pr, h) \in 1 .. Len(pr) /\ pr[EndIn(pr, h)].op = "end" /\ pr[EndIn(pr, h)].head = h
  BY <1>2, EndIs
<1>4. h # EndIn(pr, d)
  BY <1>1, OpKinds
<1>5. h < EndIn(pr, d)
  BY <1>1, <1>2, <1>4
<1>6. EndIn(pr, h) < EndIn(pr, d)
  BY <1>1, <1>2, <1>3, <1>5, Nested
<1>7. ASSUME NEW k \in 1 .. Len(pr) + 1, h <= k, k <= EndIn(pr, h) + 1
      PROVE  DeferredBy(pr, d, k)
  BY <1>1, <1>2, <1>3, <1>6, <1>7 DEF DeferredBy
<1> QED
  BY <1>6, <1>7

(* Outside of deferred blocks, one is not in them after a statement,       *)
LEMMA PastOutside ==
  ASSUME NEW pr, NEW bs, Complete2(pr, bs), NEW h \in 1 .. Len(pr), pr[h].op \in Openers,
         ~Deferred(pr, h)
  PROVE  ~Deferred(pr, EndIn(pr, h) + 1)
<1>1. SUFFICES ASSUME NEW d, DeferredBy(pr, d, EndIn(pr, h) + 1)
               PROVE  FALSE
  BY DEF Deferred
<1>2. /\ d \in 1 .. Len(pr) /\ EndIn(pr, d) \in 1 .. Len(pr) /\ Len(pr) \in Nat
      /\ pr[d].op = "defer" /\ pr[d].op \in Openers
      /\ pr[EndIn(pr, d)].op = "end" /\ pr[EndIn(pr, d)].head = d
  BY <1>1, DeferEnds
<1>3. TextOK(pr, bs) /\ d < EndIn(pr, h) + 1 /\ EndIn(pr, h) + 1 <= EndIn(pr, d)
  BY <1>1 DEF Complete2, DeferredBy
<1>4. /\ EndIn(pr, h) \in 1 .. Len(pr) /\ pr[EndIn(pr, h)].op = "end" /\ pr[EndIn(pr, h)].head = h
  BY EndIs DEF Complete2
<1>5. d # EndIn(pr, h)
  BY <1>2, <1>4
<1>6. d < EndIn(pr, h) /\ EndIn(pr, h) < EndIn(pr, d)
  BY <1>2, <1>3, <1>4, <1>5
<1>7. ~(h < d)
  <2>1. h < d => EndIn(pr, d) < EndIn(pr, h)
    BY <1>2, <1>3, <1>4, <1>6, Nested
  <2> QED
    BY <1>2, <1>4, <1>6, <2>1
<1>8. h # d
  BY <1>2, <1>4, <1>6
<1>9. d < h
  BY <1>2, <1>7, <1>8
<1>10. h < EndIn(pr, h)
  BY EndIs DEF Complete2
<1>11. DeferredBy(pr, d, h)
  BY <1>2, <1>4, <1>6, <1>9, <1>10 DEF DeferredBy
<1> QED
  BY <1>2, <1>11 DEF Deferred

(* at the head of a statement around one that is not in them,              *)
LEMMA HeadOutside ==
  ASSUME NEW pr, NEW bs, Complete2(pr, bs), NEW h \in 1 .. Len(pr), pr[h].op \in Openers,
         NEW k \in 1 .. Len(pr), h < k, k <= EndIn(pr, h), ~Deferred(pr, k)
  PROVE  ~Deferred(pr, h)
<1>1. SUFFICES ASSUME NEW d, DeferredBy(pr, d, h)
               PROVE  FALSE
  BY DEF Deferred
<1>2. Len(pr) \in Nat /\ d \in 1 .. Len(pr) /\ EndIn(pr, h) \in 1 .. Len(pr)
  BY <1>1, DeferEnds, EndIs DEF Complete2
<1>3. k \in 1 .. Len(pr) + 1 /\ h <= k /\ k <= EndIn(pr, h) + 1
  BY <1>2
<1>4. DeferredBy(pr, d, k)
  BY <1>1, <1>3, DeferNests
<1> QED
  BY <1>2, <1>4 DEF Deferred

(* at a part of the statement, or at the next place.                       *)
LEMMA PartOutside ==
  ASSUME NEW pr, NEW bs, Complete2(pr, bs), NEW h \in 1 .. Len(pr), pr[h].op \in Openers \ {"defer"},
         ~Deferred(pr, h), NEW m \in 1 .. Len(pr), pr[m].head = h, pr[m].op \in Enders
  PROVE  ~Deferred(pr, m)
<1>1. SUFFICES ASSUME NEW d, DeferredBy(pr, d, m)
               PROVE  FALSE
  BY DEF Deferred
<1>2. /\ d \in 1 .. Len(pr) /\ EndIn(pr, d) \in 1 .. Len(pr) /\ Len(pr) \in Nat
      /\ pr[d].op = "defer" /\ pr[d].op \in Openers /\ pr[d].head = 0
      /\ pr[EndIn(pr, d)].op = "end" /\ pr[EndIn(pr, d)].head = d
  BY <1>1, DeferEnds
<1>3. TextOK(pr, bs) /\ d < m /\ m <= EndIn(pr, d) /\ d # h
  BY <1>1, <1>2 DEF Complete2, DeferredBy
<1>4. /\ EndIn(pr, h) \in 1 .. Len(pr) /\ pr[EndIn(pr, h)].op = "end" /\ pr[EndIn(pr, h)].head = h
      /\ m <= EndIn(pr, h) /\ h < m
  BY <1>3, EndIs, TextFacts DEF Complete2
<1>5. d \in pr[m].path \ {0}
  BY <1>1, DeferAround
<1>6. d < h
  <2>1. pr[m].op \in {"else", "case", "end"}
    BY DEF Enders
  <2>2. d < h \/ Part(pr, d, h)
    BY <1>3, <1>5, <2>1 DEF TextOK, Statements, TokenOK
  <2> QED
    BY <1>2, <1>3, <2>2 DEF Part
<1>7. DeferredBy(pr, d, h)
  BY <1>2, <1>3, <1>4, <1>6 DEF DeferredBy
<1> QED
  BY <1>2, <1>7 DEF Deferred

LEMMA NextOutside ==
  ASSUME NEW pr, NEW bs, Complete2(pr, bs), NEW k \in 1 .. Len(pr), pr[k].op # "defer", ~Deferred(pr, k)
  PROVE  ~Deferred(pr, k + 1)
<1>1. SUFFICES ASSUME NEW d, DeferredBy(pr, d, k + 1)
               PROVE  FALSE
  BY DEF Deferred
<1>2. /\ d \in 1 .. Len(pr) /\ EndIn(pr, d) \in 1 .. Len(pr) /\ Len(pr) \in Nat
      /\ pr[d].op = "defer"
  BY <1>1, DeferEnds
<1>3. d # k /\ d < k + 1 /\ k + 1 <= EndIn(pr, d)
  BY <1>1, <1>2 DEF DeferredBy
<1>4. DeferredBy(pr, d, k)
  BY <1>2, <1>3 DEF DeferredBy
<1> QED
  BY <1>2, <1>4 DEF Deferred

LEMMA NextInside ==
  ASSUME NEW pr, NEW bs, Complete2(pr, bs), NEW k \in 1 .. Len(pr), NEW d, DeferredBy(pr, d, k),
         pr[k].op = "end" => pr[k].head # d
  PROVE  DeferredBy(pr, d, k + 1)
<1>1. /\ d \in 1 .. Len(pr) /\ EndIn(pr, d) \in 1 .. Len(pr) /\ Len(pr) \in Nat
      /\ pr[EndIn(pr, d)].op = "end" /\ pr[EndIn(pr, d)].head = d
  BY DeferEnds
<1>2. k # EndIn(pr, d) /\ d < k /\ k <= EndIn(pr, d)
  BY <1>1 DEF DeferredBy
<1> QED
  BY <1>1, <1>2 DEF DeferredBy

(* Inside a deferred block, the heads of the statements around are too.    *)
LEMMA HeadInside ==
  ASSUME NEW pr, NEW bs, Complete2(pr, bs), NEW k \in 1 .. Len(pr), NEW d, DeferredBy(pr, d, k),
         pr[k].op \in Enders, pr[k].head # d
  PROVE  /\ pr[k].head \in 1 .. Len(pr) /\ pr[pr[k].head].op \in Openers
         /\ DeferredBy(pr, d, pr[k].head)
<1>1. /\ d \in 1 .. Len(pr) /\ EndIn(pr, d) \in 1 .. Len(pr) /\ Len(pr) \in Nat
      /\ pr[d].op = "defer" /\ pr[d].head = 0
  BY DeferEnds
<1>2. TokenOK(pr, k) /\ TextOK(pr, bs) /\ d < k /\ k <= EndIn(pr, d)
  BY DEF Complete2, TextOK, Statements, DeferredBy
<1>3. pr[k].head \in 1 .. Len(pr) /\ pr[pr[k].head].op \in Openers /\ pr[k].head < k
  BY <1>2, TextFacts DEF TokenOK
<1>4. d \in pr[k].path \ {0}
  BY DeferAround
<1>5. d < pr[k].head \/ Part(pr, d, pr[k].head)
  <2>1. pr[k].op \in {"else", "case", "end"}
    BY DEF Enders
  <2> QED
    BY <1>2, <1>4, <2>1 DEF TokenOK
<1>6. d < pr[k].head
  BY <1>1, <1>3, <1>5 DEF Part
<1> QED
  BY <1>1, <1>2, <1>3, <1>6 DEF DeferredBy

-----------------------------------------------------------------------------
(* Settling does not leave the deferred block.                             *)

LEMMA SilentInside ==
  ASSUME NEW pr, NEW bs, Complete2(pr, bs), NEW k \in 1 .. Len(pr), NEW d, DeferredBy(pr, d, k)
  PROVE  /\ Silent(pr, k) => DeferredBy(pr, d, SilentTo(pr, k)) /\ SilentTo(pr, k) \in k + 1 .. Len(pr)
         /\ ~Silent(pr, k) => DeferredBy(pr, d, SettledAt(pr, k))
<1>1. /\ d \in 1 .. Len(pr) /\ EndIn(pr, d) \in 1 .. Len(pr) /\ Len(pr) \in Nat
      /\ pr[d].op = "defer" /\ TextOK(pr, bs) /\ Len(bs) = 2 /\ TokenOK(pr, k) /\ d < k
  BY DeferEnds DEF Complete2, TextOK, Statements, DeferredBy
<1>2. Silent(pr, k) => SilentTo(pr, k) \in k + 1 .. Len(pr) + 1
  BY <1>1, SilentForward
<1>3. ASSUME NEW x, DeferredBy(pr, d, x), x \in 1 .. Len(pr) + 1
      PROVE  x \in 1 .. Len(pr)
  BY <1>1, <1>3 DEF DeferredBy
<1>4. ASSUME pr[k].op \in {"break", "continue"}
      PROVE  /\ LoopIn(pr, k) \in 1 .. Len(pr) /\ pr[LoopIn(pr, k)].op \in Openers
             /\ DeferredBy(pr, d, LoopIn(pr, k))
  <2>1. /\ LoopIn(pr, k) \in 1 .. Len(pr) /\ LoopIn(pr, k) < k /\ pr[LoopIn(pr, k)].op \in Openers
        /\ \A q \in pr[k].path \ {0} : pr[q].op = "defer" => q < LoopIn(pr, k)
    BY <1>1, <1>4, LoopIs
  <2>2. d \in pr[k].path \ {0}
    BY DeferAround
  <2>3. d < LoopIn(pr, k)
    BY <1>1, <2>1, <2>2
  <2> QED
    BY <1>1, <2>1, <2>3 DEF DeferredBy
<1>5. ASSUME NEW h \in 1 .. Len(pr), pr[h].op \in Openers, DeferredBy(pr, d, h)
      PROVE  DeferredBy(pr, d, EndIn(pr, h) + 1)
  <2>1. EndIn(pr, h) \in 1 .. Len(pr) /\ h < EndIn(pr, h)
    BY <1>1, <1>5, EndIs
  <2>2. EndIn(pr, h) + 1 \in 1 .. Len(pr) + 1 /\ h <= EndIn(pr, h) + 1
    BY <1>1, <2>1
  <2> QED
    BY <1>1, <1>5, <2>1, <2>2, DeferNests
<1>6. ASSUME Silent(pr, k)
      PROVE  DeferredBy(pr, d, SilentTo(pr, k))
  <2>1. CASE pr[k].op = "break"
    BY <1>4, <1>5, <2>1 DEF SilentTo
  <2>2. CASE pr[k].op \in {"else", "case"}
    <3>1. pr[k].head # d
      BY <1>1, <2>2 DEF TokenOK, SameHead
    <3>2. pr[k].op \in Enders
      BY <2>2, OpKinds
    <3>3. /\ pr[k].head \in 1 .. Len(pr) /\ pr[pr[k].head].op \in Openers
          /\ DeferredBy(pr, d, pr[k].head)
      BY <3>1, <3>2, HeadInside
    <3> QED
      BY <1>5, <2>2, <3>3 DEF SilentTo
  <2>3. CASE pr[k].op \notin {"break", "else", "case"}
    <3>1. pr[k].op = "end" => pr[k].head # d
      BY <1>1, <1>6 DEF Silent
    <3>2. DeferredBy(pr, d, k + 1)
      BY <3>1, NextInside
    <3> QED
      BY <2>3, <3>2 DEF SilentTo
  <2> QED
    BY <2>1, <2>2, <2>3
<1>7. ASSUME ~Silent(pr, k)
      PROVE  DeferredBy(pr, d, SettledAt(pr, k))
  <2>1. CASE pr[k].op = "continue"
    BY <1>1, <1>4, <2>1 DEF SettledAt
  <2>2. CASE pr[k].op = "end" /\ pr[pr[k].head].op \in Loops
    <3>1. pr[k].head # d
      BY <1>1, <2>2 DEF Loops
    <3>2. DeferredBy(pr, d, pr[k].head)
      BY <2>2, <3>1, HeadInside, OpKinds
    <3> QED
      BY <1>1, <2>2, <3>2 DEF SettledAt
  <2>3. CASE /\ pr[k].op # "continue"
             /\ ~(pr[k].op = "end" /\ pr[pr[k].head].op \in Loops)
    BY <1>1, <2>3 DEF SettledAt
  <2> QED
    BY <2>1, <2>2, <2>3
<1>8. Silent(pr, k) => SilentTo(pr, k) \in k + 1 .. Len(pr)
  BY <1>1, <1>2, <1>3, <1>6
<1> QED
  BY <1>6, <1>7, <1>8

LEMMA SettleInside ==
  ASSUME Complete2(prog, blocks), MaxLen \in Nat, Len(prog) <= MaxLen,
         NEW k \in 1 .. Len(prog), NEW d, DeferredBy(prog, d, k)
  PROVE  DeferredBy(prog, d, Settle[k])
<1> DEFINE X == {m \in Nat : \A x \in 1 .. Len(prog) :
                   Len(prog) - m <= x /\ DeferredBy(prog, d, x) => DeferredBy(prog, d, Settle[x])}
<1>1. Len(prog) \in Nat
  BY TextFacts DEF Complete2
<1>2. ASSUME NEW x \in 1 .. Len(prog), DeferredBy(prog, d, x),
             \A z \in x + 1 .. Len(prog) : DeferredBy(prog, d, z) => DeferredBy(prog, d, Settle[z])
      PROVE  DeferredBy(prog, d, Settle[x])
  <2>1. CASE Silent(prog, x)
    <3>1. /\ DeferredBy(prog, d, SilentTo(prog, x)) /\ SilentTo(prog, x) \in x + 1 .. Len(prog)
      BY <1>2, <2>1, SilentInside
    <3>2. Settle[x] = Settle[SilentTo(prog, x)]
      BY <2>1, SettleIs DEF Complete2
    <3> QED
      BY <1>2, <3>1, <3>2
  <2>2. CASE ~Silent(prog, x)
    <3>1. DeferredBy(prog, d, SettledAt(prog, x))
      BY <1>2, <2>2, SilentInside
    <3>2. Settle[x] = SettledAt(prog, x)
      BY <2>2, SettleIs DEF Complete2
    <3> QED
      BY <3>1, <3>2
  <2> QED
    BY <2>1, <2>2
<1>3. 0 \in X
  <2>1. \A x \in 1 .. Len(prog) : Len(prog) - 0 <= x => x + 1 .. Len(prog) = {}
    BY <1>1
  <2> QED
    BY <1>2, <2>1
<1>4. ASSUME NEW m \in Nat, m \in X
      PROVE  m + 1 \in X
  <2> SUFFICES ASSUME NEW x \in 1 .. Len(prog), Len(prog) - (m + 1) <= x, DeferredBy(prog, d, x)
               PROVE  DeferredBy(prog, d, Settle[x])
    OBVIOUS
  <2>1. \A z \in x + 1 .. Len(prog) : z \in 1 .. Len(prog) /\ Len(prog) - m <= z
    BY <1>1
  <2>2. \A z \in x + 1 .. Len(prog) : DeferredBy(prog, d, z) => DeferredBy(prog, d, Settle[z])
    BY <1>4, <2>1
  <2> QED
    BY <1>2, <2>2
<1> HIDE DEF X
<1>5. Len(prog) \in X
  BY <1>1, <1>3, <1>4, InductiveSet
<1>6. Len(prog) - Len(prog) <= k
  BY <1>1
<1> QED
  BY <1>5, <1>6 DEF X

-----------------------------------------------------------------------------
(* What the generator of machine code does not emit, and the deferred      *)
(* blocks that it has emitted when it comes to a statement.                *)

LEMMA LiveGrows ==
  ASSUME NEW pr, NEW bs, NEW pr2, NEW op, NEW decl, NEW path, NEW head, NEW D, NEW D2,
         Adds(pr, bs, pr2, op, decl, path, head, D, D2),
         Len(pr) \in 1 .. Len(pr) /\ Len(pr) \notin D /\ pr[Len(pr)].op \notin Terminators =>
           Len(pr) + 1 \notin D2,
         Len(pr) = 0 => Len(pr) + 1 \notin D2
  PROVE  LiveOK(pr2, D2)
<1> DEFINE N == Len(pr) + 1
<1>1. /\ Len(pr) \in Nat /\ Len(pr2) = N
      /\ \A k \in 1 .. Len(pr) : k \in 1 .. Len(pr2) /\ pr2[k] = pr[k]
      /\ \A k \in 1 .. Len(pr2) : k \in 1 .. Len(pr) \/ k = N
      /\ pr2[N].op = op /\ pr2[N].path = path /\ pr2[N].head = head /\ TokenOK(pr2, N)
  BY NewTokenParts DEF Adds
<1>2. D \subseteq 1 .. Len(pr) /\ N \notin D /\ \A k \in 1 .. Len(pr) : k # N /\ (k \in D2 <=> k \in D)
  BY <1>1 DEF LiveOK, Adds
<1>4. D2 \subseteq 1 .. N /\ N + 1 \notin D2 /\ 1 \notin D2
  <2>1. D2 \subseteq D \cup {N}
    BY DEF Adds
  <2>2. \A k \in D : k \in 1 .. Len(pr)
    BY <1>2
  <2>3. \A k \in D \cup {N} : k \in 1 .. N
    BY <1>1, <2>2
  <2>4. N + 1 \notin 1 .. N
    BY <1>1
  <2>5. 1 \notin D2
    <3>1. CASE N = 1
      BY <1>1, <3>1
    <3>2. CASE N # 1
      BY <2>1, <3>2 DEF Adds, LiveOK
    <3> QED
      BY <3>1, <3>2
  <2> QED
    BY <2>1, <2>3, <2>4, <2>5
<1>5. ASSUME NEW k \in 1 .. Len(pr)
      PROVE  /\ k \notin D2 => pr[k].path \cap D2 = {}
             /\ pr[k].op \in Enders => (k \in D2 <=> pr[k].head \in D2)
             /\ k \notin D2 /\ pr[k].op \notin Terminators => k + 1 \notin D2
  <2>1. pr[k].path \subseteq 0 .. k - 1 /\ (pr[k].op \in Enders => pr[k].head \in 1 .. Len(pr))
    BY TextFacts DEF Adds, TextOK, Statements, TokenOK
  <2>2. 0 \notin D2
    BY <1>4
  <2>3. \A p \in pr[k].path : p = 0 \/ p \in 1 .. Len(pr)
    BY <1>1, <2>1
  <2>4. k \notin D2 => pr[k].path \cap D2 = {}
    BY <1>2, <2>2, <2>3 DEF LiveOK, Adds
  <2>5. pr[k].op \in Enders => (k \in D2 <=> pr[k].head \in D2)
    BY <1>2, <2>1 DEF LiveOK, Adds
  <2>6. k \notin D2 /\ pr[k].op \notin Terminators => k + 1 \notin D2
    <3>1. CASE k = Len(pr)
      BY <1>1, <1>2, <3>1
    <3>2. CASE k # Len(pr)
      <4>1. k + 1 \in 1 .. Len(pr)
        BY <1>1, <3>2
      <4> QED
        BY <1>2, <4>1 DEF LiveOK, Adds
    <3> QED
      BY <3>1, <3>2
  <2> QED
    BY <2>4, <2>5, <2>6
<1>6. /\ N \notin D2 => path \cap D2 = {}
      /\ op \in Enders => (N \in D2 <=> head \in D2)
  <2>1. path \subseteq 0 .. N - 1 /\ (op \in Enders => head \in 1 .. N - 1)
    BY <1>1 DEF TokenOK
  <2>2. op \in Enders => head \in 1 .. Len(pr)
    BY <1>1, <2>1
  <2>3. N \notin path
    BY <1>1, <2>1
  <2>4. N \notin D2 => D2 = D
    BY DEF Adds
  <2> QED
    BY <1>2, <2>2, <2>3, <2>4 DEF Adds
<1> QED
  BY <1>1, <1>4, <1>5, <1>6 DEF LiveOK

LEMMA StackGrows ==
  ASSUME NEW pr, NEW bs, NEW pr2, NEW op, NEW decl, NEW path, NEW head, NEW D, NEW D2,
         Adds(pr, bs, pr2, op, decl, path, head, D, D2), NEW S,
         NEW na, NEW na2, StackOK(pr, na, D, S), Emits(pr, na, na2, op, Len(pr) + 1 \notin D2)
  PROVE  \E S2 : StackOK(pr2, na2, D2, S2)
<1> DEFINE N == Len(pr) + 1
           S2 == [k \in 1 .. N + 1 |-> IF k = N + 1 THEN na2.deferStack ELSE S[k]]
<1>1. /\ Len(pr) \in Nat /\ Len(pr2) = N
      /\ \A k \in 1 .. Len(pr) : k \in 1 .. Len(pr2) /\ pr2[k] = pr[k]
      /\ \A k \in 1 .. Len(pr2) : k \in 1 .. Len(pr) \/ k = N
      /\ pr2[N].op = op
  BY NewTokenParts DEF Adds
<1>2. N \notin D /\ \A k \in 1 .. Len(pr) : k # N /\ (k \in D2 <=> k \in D)
  BY <1>1 DEF Adds, LiveOK
<1>4. /\ S \in [1 .. N -> Seq(Nat)] /\ S[1] = <<>> /\ S[N] = na.deferStack
      /\ \A k \in 1 .. Len(pr) :
           S[k + 1] = IF pr[k].op = "defer" /\ k \notin D THEN Append(S[k], k) ELSE S[k]
      /\ \A k \in 1 .. Len(pr) :
           pr[k].op = "return" /\ k \notin D => na.inlined[k] = Reverse(S[k])
  BY DEF StackOK
<1>5. na.deferStack \in Seq(Nat) /\ na2.deferStack \in Seq(Nat)
  <2>1. na.deferStack \in Seq(Nat)
    BY <1>1, <1>4
  <2> QED
    BY <1>1, <2>1 DEF Emits
<1>6. S2[N + 1] = na2.deferStack /\ \A k \in 1 .. N : S2[k] = S[k]
  BY <1>1
<1>7. S2 \in [1 .. N + 1 -> Seq(Nat)]
  <2>1. \A k \in 1 .. N + 1 : k = N + 1 \/ k \in 1 .. N
    BY <1>1
  <2>2. \A k \in 1 .. N : S[k] \in Seq(Nat)
    BY <1>4
  <2> QED
    BY <1>5, <2>1, <2>2
<1> HIDE DEF S2
<1>8. \A k \in 1 .. Len(pr) : k \in 1 .. N /\ k + 1 \in 1 .. N
  BY <1>1
<1>9. N \in 1 .. N /\ 1 \in 1 .. N
  BY <1>1
<1>10. ASSUME NEW k \in 1 .. Len(pr2)
       PROVE  /\ S2[k + 1] = IF pr2[k].op = "defer" /\ k \notin D2 THEN Append(S2[k], k) ELSE S2[k]
              /\ pr2[k].op = "return" /\ k \notin D2 => na2.inlined[k] = Reverse(S2[k])
  <2>1. CASE k \in 1 .. Len(pr)
    BY <1>1, <1>2, <1>4, <1>6, <1>8, <2>1 DEF Emits
  <2>2. CASE k = N
    BY <1>1, <1>4, <1>6, <1>9, <2>2 DEF Emits
  <2> QED
    BY <1>1, <2>1, <2>2
<1>11. StackOK(pr2, na2, D2, S2)
  BY <1>1, <1>4, <1>6, <1>7, <1>9, <1>10 DEF StackOK
<1> QED
  BY <1>11

-----------------------------------------------------------------------------
(* Each step of the generator.                                             *)

LEMMA DefersAdded ==
  ASSUME NEW pr, NEW bs, NEW pr2, NEW op, NEW decl, NEW path, NEW head, NEW D, NEW D2,
         Adds(pr, bs, pr2, op, decl, path, head, D, D2), NEW S,
         NEW na, NEW na2, DefersOK(pr, bs, na, D, S), Emits(pr, na, na2, op, Len(pr) + 1 \notin D2),
         na.dead = 0 => Len(pr) + 1 \notin D2
  PROVE  LiveOK(pr2, D2) /\ \E S2 : StackOK(pr2, na2, D2, S2)
<1>1. StackOK(pr, na, D, S)
  BY DEF DefersOK
<1>2. Len(pr) \in 1 .. Len(pr) /\ Len(pr) \notin D /\ pr[Len(pr)].op \notin Terminators =>
        Len(pr) + 1 \notin D2
  BY DEF DefersOK, DeadOK
<1>2a. Len(pr) = 0 => Len(pr) + 1 \notin D2
  BY DEF DefersOK, DeadOK
<1>3. LiveOK(pr2, D2)
  BY <1>2, <1>2a, LiveGrows
<1>4. \E S2 : StackOK(pr2, na2, D2, S2)
  BY <1>1, StackGrows
<1> QED
  BY <1>3, <1>4

(* Nothing around what is emitted is left out.                             *)
LEMMA LivePath ==
  ASSUME NEW pr, NEW bs, TextOK(pr, bs), NEW D, LiveOK(pr, D), NEW dead, DeadOK(pr, bs, dead, D)
  PROVE  dead \in {0, Len(bs)} => PlacesOf(bs) \cap D = {}
<1> SUFFICES ASSUME dead \in {0, Len(bs)}, NEW n \in 1 .. Len(bs), bs[n].place \in D
             PROVE  FALSE
  BY DEF PlacesOf
<1>1. 0 \notin D /\ bs[1].place = 0 /\ bs[2].place = 0 /\ Len(bs) \in Nat
  BY TextFacts DEF LiveOK, TextOK, Nest, Base
<1>2. n \in 3 .. Len(bs)
  BY <1>1, TextFacts
<1>3. dead # 0 /\ n > dead
  BY <1>2 DEF DeadOK
<1> QED
  BY <1>1, <1>3

LEMMA SimpleDefers ==
  ASSUME NEW pr, NEW bs, NEW pr2, NEW bs2, NEW op, NEW decl, TextOK(pr, bs),
         SimpleStep(pr, bs, pr2, bs2, op, decl), NEW D, NEW S, NEW na, NEW na2,
         DefersOK(pr, bs, na, D, S), Emits(pr, na, na2, op, na.dead = 0),
         na2.dead = IF na.dead # 0 THEN na.dead ELSE IF op \in Terminators THEN Len(bs) ELSE 0
  PROVE  \E D2, S2 : DefersOK(pr2, bs2, na2, D2, S2)
<1> DEFINE N == Len(pr) + 1
           live == na.dead = 0
           D2 == IF live THEN D ELSE D \cup {N}
<1>1. op \in Simple /\ NewToken(pr, bs, pr2, op, decl, PlacesOf(bs), 0) /\ op \notin Enders
  BY OpKinds DEF SimpleStep
<1>2. LiveOK(pr, D) /\ DeadOK(pr, bs, na.dead, D)
  BY DEF DefersOK
<1>3. live => PlacesOf(bs) \cap D = {}
  BY <1>2, LivePath
<1>4. /\ Len(pr) \in Nat /\ Len(pr2) = N /\ pr2[N].op = op
      /\ \A k \in 1 .. Len(pr2) : k \in 1 .. Len(pr) \/ k = N
      /\ Len(bs2) = Len(bs) /\ Len(bs) \in Nat /\ Len(bs) >= 2
      /\ \A n \in 1 .. Len(bs) : bs2[n].place = bs[n].place /\ bs2[n].head = bs[n].head
  BY <1>1, NewTokenParts, SimpleBlocks, TextFacts
<1>5. LiveOK(pr2, D2) /\ \E S2 : StackOK(pr2, na2, D2, S2)
  <2>1. N \notin D
    BY <1>2, <1>4 DEF LiveOK
  <2>2. D2 \in {D, D \cup {N}} /\ (N \notin D2 <=> live)
    BY <2>1
  <2> HIDE DEF D2
  <2>3. Emits(pr, na, na2, op, N \notin D2) /\ (na.dead = 0 => N \notin D2)
    BY <2>2 DEF Emits
  <2>4. Adds(pr, bs, pr2, op, decl, PlacesOf(bs), 0, D, D2)
    BY <1>1, <1>2, <1>3, <2>2 DEF Adds
  <2> QED
    BY <2>3, <2>4, DefersAdded
<1>6. DeadOK(pr2, bs2, na2.dead, D2)
  <2>1. na2.dead \in {0} \cup 2 .. Len(bs2)
    BY <1>2, <1>4 DEF DeadOK
  <2>2. ASSUME NEW k \in 1 .. Len(pr2), k = Len(pr2), k \notin D2, pr2[k].op \notin Terminators
        PROVE  na2.dead = 0
    BY <1>4, <2>2
  <2>3. ASSUME NEW n \in 3 .. Len(bs2)
        PROVE  /\ bs2[n].head \in D2 <=> na2.dead # 0 /\ n > na2.dead
               /\ bs2[n].place \in D2 <=> na2.dead # 0 /\ n > na2.dead
    <3>1. /\ n \in 3 .. Len(bs) /\ n \in 1 .. Len(bs) /\ bs[n].place \in 1 .. Len(pr)
          /\ bs[n].head \in 1 .. Len(pr)
      BY <1>4, TextFacts
    <3>2. /\ bs2[n].head \in D2 <=> bs[n].head \in D
          /\ bs2[n].place \in D2 <=> bs[n].place \in D
      BY <1>4, <3>1
    <3>3. /\ bs[n].head \in D <=> na.dead # 0 /\ n > na.dead
          /\ bs[n].place \in D <=> na.dead # 0 /\ n > na.dead
      BY <1>2, <3>1 DEF DeadOK
    <3>4. na2.dead # 0 /\ n > na2.dead <=> na.dead # 0 /\ n > na.dead
      BY <1>4, <3>1
    <3> QED
      BY <3>2, <3>3, <3>4
  <2> QED
    BY <1>4, <2>1, <2>2, <2>3 DEF DeadOK
<1> HIDE DEF D2
<1> QED
  BY <1>5, <1>6 DEF DefersOK

LEMMA OpenDefers ==
  ASSUME NEW pr, NEW bs, NEW pr2, NEW bs2, NEW op, NEW decl, TextOK(pr, bs),
         OpenStep(pr, bs, pr2, bs2, op, decl), NEW D, NEW S, NEW na, NEW na2,
         DefersOK(pr, bs, na, D, S), Emits(pr, na, na2, op, na.dead = 0), na2.dead = na.dead
  PROVE  \E D2, S2 : DefersOK(pr2, bs2, na2, D2, S2)
<1> DEFINE N == Len(pr) + 1
           L == Len(bs)
           live == na.dead = 0
           D2 == IF live THEN D ELSE D \cup {N}
<1>1. op \in Openers /\ NewToken(pr, bs, pr2, op, decl, PlacesOf(bs), 0) /\ op \notin Enders
  BY OpKinds DEF OpenStep
<1>2. LiveOK(pr, D) /\ DeadOK(pr, bs, na.dead, D)
  BY DEF DefersOK
<1>3. live => PlacesOf(bs) \cap D = {}
  BY <1>2, LivePath
<1>4. /\ Len(pr) \in Nat /\ Len(pr2) = N /\ pr2[N].op = op
      /\ \A k \in 1 .. Len(pr2) : k \in 1 .. Len(pr) \/ k = N
      /\ Len(bs2) = L + 1 /\ L \in Nat /\ L >= 2
      /\ \A n \in 1 .. L : bs2[n] = bs[n]
      /\ bs2[L + 1].place = N /\ bs2[L + 1].head = N
  BY <1>1, NewTokenParts, OpenBlocks, TextFacts
<1>5. LiveOK(pr2, D2) /\ \E S2 : StackOK(pr2, na2, D2, S2)
  <2>1. N \notin D
    BY <1>2, <1>4 DEF LiveOK
  <2>2. D2 \in {D, D \cup {N}} /\ (N \notin D2 <=> live)
    BY <2>1
  <2> HIDE DEF D2
  <2>3. Emits(pr, na, na2, op, N \notin D2) /\ (na.dead = 0 => N \notin D2)
    BY <2>2 DEF Emits
  <2>4. Adds(pr, bs, pr2, op, decl, PlacesOf(bs), 0, D, D2)
    BY <1>1, <1>2, <1>3, <2>2 DEF Adds
  <2> QED
    BY <2>3, <2>4, DefersAdded
<1>6. DeadOK(pr2, bs2, na2.dead, D2)
  <2>1. na2.dead \in {0} \cup 2 .. Len(bs2)
    BY <1>2, <1>4 DEF DeadOK
  <2>2. ASSUME NEW k \in 1 .. Len(pr2), k = Len(pr2), k \notin D2, pr2[k].op \notin Terminators
        PROVE  na2.dead = 0
    BY <1>4, <2>2
  <2>3. ASSUME NEW n \in 3 .. Len(bs2)
        PROVE  /\ bs2[n].head \in D2 <=> na2.dead # 0 /\ n > na2.dead
               /\ bs2[n].place \in D2 <=> na2.dead # 0 /\ n > na2.dead
    <3>1. CASE n = L + 1
      <4>1. N \in D2 <=> na.dead # 0
        BY <1>2, <1>4 DEF LiveOK
      <4>2. na.dead \in {0} \cup 2 .. L
        BY <1>2 DEF DeadOK
      <4> QED
        BY <1>4, <3>1, <4>1, <4>2
    <3>2. CASE n # L + 1
      <4>1. /\ n \in 3 .. Len(bs) /\ n \in 1 .. Len(bs) /\ bs[n].place \in 1 .. Len(pr)
            /\ bs[n].head \in 1 .. Len(pr)
        BY <1>4, <3>2, TextFacts
      <4>2. /\ bs2[n].head \in D2 <=> bs[n].head \in D
            /\ bs2[n].place \in D2 <=> bs[n].place \in D
        BY <1>4, <4>1
      <4> QED
        BY <1>2, <4>1, <4>2 DEF DeadOK
    <3> QED
      BY <3>1, <3>2
  <2> QED
    BY <1>4, <2>1, <2>2, <2>3 DEF DeadOK
<1> HIDE DEF D2
<1> QED
  BY <1>5, <1>6 DEF DefersOK

LEMMA NextDefers ==
  ASSUME NEW pr, NEW bs, NEW pr2, NEW bs2, NEW op, TextOK(pr, bs),
         NextStep(pr, bs, pr2, bs2, op), NEW D, NEW S, NEW na, NEW na2,
         DefersOK(pr, bs, na, D, S), Emits(pr, na, na2, op, na.dead \in {0, Len(bs)}),
         na2.dead = IF na.dead \in {0, Len(bs)} THEN 0 ELSE na.dead
  PROVE  \E D2, S2 : DefersOK(pr2, bs2, na2, D2, S2)
<1> DEFINE N == Len(pr) + 1
           L == Len(bs)
           h == bs[L].head
           live == na.dead \in {0, L}
           D2 == IF live THEN D ELSE D \cup {N}
<1>1. /\ op \in {"else", "case"} /\ NewToken(pr, bs, pr2, op, None, PlacesOf(Front(bs)), h)
      /\ op \notin Terminators /\ L > 2
  BY DEF NextStep, Terminators
<1>2. LiveOK(pr, D) /\ DeadOK(pr, bs, na.dead, D)
  BY DEF DefersOK
<1>3. live => PlacesOf(Front(bs)) \cap D = {}
  <2>1. PlacesOf(Front(bs)) \subseteq PlacesOf(bs)
    BY <1>1, EndBlocks DEF TextOK
  <2> QED
    BY <1>2, <2>1, LivePath
<1>4. /\ Len(pr) \in Nat /\ Len(pr2) = N /\ pr2[N].op = op
      /\ \A k \in 1 .. Len(pr2) : k \in 1 .. Len(pr) \/ k = N
      /\ Len(bs2) = L /\ L \in Nat
      /\ \A n \in 1 .. L - 1 : bs2[n] = bs[n]
      /\ bs2[L].place = N /\ bs2[L].head = h
  BY <1>1, NewTokenParts, NextBlocks, TextFacts
<1>5. L \in 3 .. L /\ h \in 1 .. Len(pr)
  BY <1>1, <1>4, TextFacts
<1>6. live <=> h \notin D
  BY <1>2, <1>4, <1>5 DEF DeadOK
<1> HIDE DEF h
<1>7. LiveOK(pr2, D2) /\ \E S2 : StackOK(pr2, na2, D2, S2)
  <2>1. N \notin D
    BY <1>2, <1>4 DEF LiveOK
  <2>2. D2 \in {D, D \cup {N}} /\ (N \notin D2 <=> live)
    BY <2>1
  <2> HIDE DEF D2
  <2>3. Emits(pr, na, na2, op, N \notin D2) /\ (na.dead = 0 => N \notin D2)
    BY <2>2 DEF Emits
  <2>4. Adds(pr, bs, pr2, op, None, PlacesOf(Front(bs)), h, D, D2)
    BY <1>1, <1>2, <1>3, <1>6, <2>2 DEF Adds
  <2> QED
    BY <2>3, <2>4, DefersAdded
<1>8. DeadOK(pr2, bs2, na2.dead, D2)
  <2>1. na2.dead \in {0} \cup 2 .. Len(bs2)
    BY <1>2, <1>4 DEF DeadOK
  <2>2. ASSUME NEW k \in 1 .. Len(pr2), k = Len(pr2), k \notin D2, pr2[k].op \notin Terminators
        PROVE  na2.dead = 0
    BY <1>4, <2>2
  <2>3. ASSUME NEW n \in 3 .. Len(bs2)
        PROVE  /\ bs2[n].head \in D2 <=> na2.dead # 0 /\ n > na2.dead
               /\ bs2[n].place \in D2 <=> na2.dead # 0 /\ n > na2.dead
    <3>0. na.dead \in {0} \cup 2 .. L
      BY <1>2 DEF DeadOK
    <3>1. CASE n = L
      <4>1. N \in D2 <=> ~live
        BY <1>2, <1>4 DEF LiveOK
      <4>2. h \in D2 <=> ~live
        BY <1>4, <1>5, <1>6
      <4> QED
        BY <1>4, <3>0, <3>1, <4>1, <4>2
    <3>2. CASE n # L
      <4>1. /\ n \in 3 .. Len(bs) /\ n \in 1 .. Len(bs) - 1 /\ bs[n].place \in 1 .. Len(pr)
            /\ bs[n].head \in 1 .. Len(pr)
        BY <1>4, <3>2, TextFacts
      <4>2. /\ bs2[n].head \in D2 <=> bs[n].head \in D
            /\ bs2[n].place \in D2 <=> bs[n].place \in D
        BY <1>4, <4>1
      <4>3. /\ bs[n].head \in D <=> na.dead # 0 /\ n > na.dead
            /\ bs[n].place \in D <=> na.dead # 0 /\ n > na.dead
        BY <1>2, <4>1 DEF DeadOK
      <4>4. na2.dead # 0 /\ n > na2.dead <=> na.dead # 0 /\ n > na.dead
        BY <1>4, <3>0, <4>1
      <4> QED
        BY <4>2, <4>3, <4>4
    <3> QED
      BY <3>1, <3>2
  <2> QED
    BY <1>4, <2>1, <2>2, <2>3 DEF DeadOK
<1> HIDE DEF D2
<1> QED
  BY <1>7, <1>8 DEF DefersOK

LEMMA EndDefers ==
  ASSUME NEW pr, NEW bs, NEW pr2, NEW bs2, TextOK(pr, bs),
         EndStep(pr, bs, pr2, bs2), NEW D, NEW S, NEW na, NEW na2,
         DefersOK(pr, bs, na, D, S), Emits(pr, na, na2, "end", na.dead \in {0, Len(bs)}),
         na2.dead = IF na.dead \in {0, Len(bs)} THEN 0 ELSE na.dead
  PROVE  \E D2, S2 : DefersOK(pr2, bs2, na2, D2, S2)
<1> DEFINE N == Len(pr) + 1
           L == Len(bs)
           h == bs[L].head
           live == na.dead \in {0, L}
           D2 == IF live THEN D ELSE D \cup {N}
<1>1. /\ NewToken(pr, bs, pr2, "end", None, PlacesOf(bs), h)
      /\ "end" \notin Terminators /\ L > 2 /\ bs2 = Front(bs)
  BY DEF EndStep, Terminators
<1>2. LiveOK(pr, D) /\ DeadOK(pr, bs, na.dead, D)
  BY DEF DefersOK
<1>3. live => PlacesOf(bs) \cap D = {}
  BY <1>2, LivePath
<1>4. /\ Len(pr) \in Nat /\ Len(pr2) = N /\ pr2[N].op = "end"
      /\ \A k \in 1 .. Len(pr2) : k \in 1 .. Len(pr) \/ k = N
  BY <1>1, NewTokenParts
<1>5. /\ Len(bs2) = L - 1 /\ L \in Nat
      /\ \A n \in 1 .. L - 1 : bs2[n] = bs[n]
  BY <1>1, EndBlocks, TextFacts DEF TextOK
<1>6. L \in 3 .. L /\ h \in 1 .. Len(pr)
  BY <1>1, <1>5, TextFacts
<1>7. live <=> h \notin D
  BY <1>2, <1>5, <1>6 DEF DeadOK
<1> HIDE DEF h
<1>8. LiveOK(pr2, D2) /\ \E S2 : StackOK(pr2, na2, D2, S2)
  <2>1. N \notin D
    BY <1>2, <1>4 DEF LiveOK
  <2>2. D2 \in {D, D \cup {N}} /\ (N \notin D2 <=> live)
    BY <2>1
  <2> HIDE DEF D2
  <2>3. Emits(pr, na, na2, "end", N \notin D2) /\ (na.dead = 0 => N \notin D2)
    BY <2>2 DEF Emits
  <2>4. Adds(pr, bs, pr2, "end", None, PlacesOf(bs), h, D, D2)
    BY <1>1, <1>2, <1>3, <1>7, <2>2 DEF Adds
  <2> QED
    BY <2>3, <2>4, DefersAdded
<1>9. DeadOK(pr2, bs2, na2.dead, D2)
  <2>0. na.dead \in {0} \cup 2 .. L
    BY <1>2 DEF DeadOK
  <2>1. na2.dead \in {0} \cup 2 .. Len(bs2)
    BY <1>5, <2>0
  <2>2. ASSUME NEW k \in 1 .. Len(pr2), k = Len(pr2), k \notin D2, pr2[k].op \notin Terminators
        PROVE  na2.dead = 0
    BY <1>4, <2>2
  <2>3. ASSUME NEW n \in 3 .. Len(bs2)
        PROVE  /\ bs2[n].head \in D2 <=> na2.dead # 0 /\ n > na2.dead
               /\ bs2[n].place \in D2 <=> na2.dead # 0 /\ n > na2.dead
    <3>1. /\ n \in 3 .. Len(bs) /\ n \in 1 .. Len(bs) - 1 /\ bs[n].place \in 1 .. Len(pr)
          /\ bs[n].head \in 1 .. Len(pr)
      BY <1>5, TextFacts
    <3>2. /\ bs2[n].head \in D2 <=> bs[n].head \in D
          /\ bs2[n].place \in D2 <=> bs[n].place \in D
      BY <1>4, <1>5, <3>1
    <3>3. /\ bs[n].head \in D <=> na.dead # 0 /\ n > na.dead
          /\ bs[n].place \in D <=> na.dead # 0 /\ n > na.dead
      BY <1>2, <3>1 DEF DeadOK
    <3>4. na2.dead # 0 /\ n > na2.dead <=> na.dead # 0 /\ n > na.dead
      BY <1>5, <2>0, <3>1
    <3> QED
      BY <3>2, <3>3, <3>4
  <2> QED
    BY <1>4, <2>1, <2>2, <2>3 DEF DeadOK
<1> HIDE DEF D2
<1> QED
  BY <1>8, <1>9 DEF DefersOK

-----------------------------------------------------------------------------
(* The deferred blocks that are due, when none stands in a branch or loop. *)

LEMMA Flat ==
  ASSUME NEW pr, NEW bs, Complete2(pr, bs), Plain(pr), NEW h \in 1 .. Len(pr),
         pr[h].op \in Loops \cup {"if", "switch"},
         NEW j \in 1 .. Len(pr), h < j, j <= EndIn(pr, h)
  PROVE  pr[j].op # "defer"
<1> SUFFICES ASSUME pr[j].op = "defer"
             PROVE  FALSE
  OBVIOUS
<1>1. TextOK(pr, bs) /\ Len(bs) = 2 /\ TokenOK(pr, j) /\ pr[h].op \in Openers
  BY OpKinds DEF Complete2, TextOK, Statements
<1>2. Within(pr, j, h)
  BY <1>1, EndIs
<1>3. PICK p \in pr[j].path \ {0} : Part(pr, p, h)
  BY <1>2 DEF Within, NextOf
<1>4. p \in 1 .. Len(pr) /\ pr[p].op \in Openers \cup {"else", "case"}
  <2>1. p \in 1 .. j - 1
    BY <1>1, <1>3 DEF TokenOK
  <2>2. p \in 1 .. Len(pr)
    BY <2>1, TextFacts, <1>1
  <2> QED
    BY <1>1, <1>3, <2>2 DEF TokenOK
<1>5. pr[p].op \in Openers => pr[p].head = 0
  BY <1>1, <1>4, OpKinds DEF TextOK, Statements, TokenOK
<1>6. pr[p].op \in Tests \cup {"else"}
  BY <1>3, <1>4, <1>5 DEF Part, Tests
<1> QED
  BY <1>3, <1>4, <1>6 DEF Plain, Branches

LEMMA StackSame ==
  ASSUME NEW pr, Len(pr) \in Nat, NEW na, NEW D, NEW S, StackOK(pr, na, D, S),
         NEW a \in 1 .. Len(pr) + 1, NEW b \in 1 .. Len(pr) + 1, a <= b,
         \A j \in 1 .. Len(pr) : a <= j /\ j < b => pr[j].op # "defer"
  PROVE  S[a] = S[b]
<1> DEFINE X == {m \in Nat : a + m <= b => S[a + m] = S[a]}
<1>1. 0 \in X
  BY DEF X
<1>2. ASSUME NEW m \in Nat, m \in X
      PROVE  m + 1 \in X
  <2> SUFFICES ASSUME a + (m + 1) <= b
               PROVE  S[a + (m + 1)] = S[a]
    OBVIOUS
  <2> DEFINE j == a + m
  <2>1. j \in 1 .. Len(pr) /\ a <= j /\ j < b /\ a + (m + 1) = j + 1 /\ j <= b
    OBVIOUS
  <2>2. S[j] = S[a]
    BY <1>2, <2>1
  <2> HIDE DEF j
  <2>3. S[j + 1] = S[j]
    BY <2>1 DEF StackOK
  <2> QED
    BY <2>1, <2>2, <2>3
<1> HIDE DEF X
<1>3. b - a \in X
  <2>1. b - a \in Nat
    OBVIOUS
  <2> QED
    BY <1>1, <1>2, <2>1, InductiveSet
<1>4. a + (b - a) = b
  OBVIOUS
<1> QED
  BY <1>3, <1>4 DEF X

(* What holds at the head of a statement holds at its end.                 *)
LEMMA PastMain ==
  ASSUME NEW pr, NEW bs, NEW na, NEW D, NEW S, Emitted2(pr, bs, na, D, S),
         NEW h \in 1 .. Len(pr), pr[h].op \in Openers, Main(pr, D, h)
  PROVE  EndIn(pr, h) \in 1 .. Len(pr) /\ Main(pr, D, EndIn(pr, h) + 1)
<1>1. /\ Complete2(pr, bs) /\ TextOK(pr, bs) /\ Len(bs) = 2 /\ LiveOK(pr, D) /\ Len(pr) \in Nat
  BY TextFacts DEF Emitted2, Complete2
<1>2. /\ EndIn(pr, h) \in 1 .. Len(pr) /\ pr[EndIn(pr, h)].op = "end" /\ pr[EndIn(pr, h)].head = h
  BY <1>1, EndIs
<1>3. EndIn(pr, h) \notin D
  BY <1>1, <1>2, OpKinds DEF LiveOK, Main
<1>4. EndIn(pr, h) + 1 \notin D
  BY <1>1, <1>2, <1>3 DEF LiveOK, Terminators
<1>5. ~Deferred(pr, EndIn(pr, h) + 1)
  BY <1>1, PastOutside DEF Main
<1> QED
  BY <1>1, <1>2, <1>4, <1>5 DEF Main

LEMMA NextMain ==
  ASSUME NEW pr, NEW bs, NEW na, NEW D, NEW S, Emitted2(pr, bs, na, D, S),
         NEW k \in 1 .. Len(pr), pr[k].op \notin Terminators \cup {"defer"}, Main(pr, D, k)
  PROVE  Main(pr, D, k + 1) /\ S[k + 1] = S[k]
<1>1. Complete2(pr, bs) /\ LiveOK(pr, D) /\ Len(pr) \in Nat
  BY TextFacts DEF Emitted2, Complete2
<1>2. k + 1 \notin D
  BY <1>1 DEF LiveOK, Main
<1>3. ~Deferred(pr, k + 1)
  BY <1>1, NextOutside DEF Main
<1>4. S[k + 1] = S[k]
  BY DEF Emitted2, StackOK
<1> QED
  BY <1>1, <1>2, <1>3, <1>4 DEF Main

(* A statement around: its head and what follows it.                       *)
LEMMA AroundMain ==
  ASSUME NEW pr, NEW bs, NEW na, NEW D, NEW S, Emitted2(pr, bs, na, D, S),
         NEW k \in 1 .. Len(pr), Main(pr, D, k),
         NEW h \in 1 .. Len(pr), pr[h].op \in Loops \cup {"if", "switch"}, h \notin D,
         h < k, k <= EndIn(pr, h)
  PROVE  /\ Main(pr, D, h) /\ S[h] = S[k]
         /\ Main(pr, D, EndIn(pr, h) + 1) /\ S[EndIn(pr, h) + 1] = S[k]
<1>1. Complete2(pr, bs) /\ Plain(pr) /\ Len(pr) \in Nat /\ pr[h].op \in Openers
  BY TextFacts, OpKinds DEF Emitted2, Complete2
<1>2. ~Deferred(pr, h)
  BY <1>1, HeadOutside DEF Main
<1>3. Main(pr, D, h)
  BY <1>1, <1>2 DEF Main
<1>4. EndIn(pr, h) \in 1 .. Len(pr) /\ Main(pr, D, EndIn(pr, h) + 1)
  BY <1>1, <1>3, PastMain
<1>5. ASSUME NEW j \in 1 .. Len(pr), h <= j, j <= EndIn(pr, h)
      PROVE  pr[j].op # "defer"
  <2>1. CASE j = h
    BY <2>1 DEF Loops
  <2>2. CASE h < j
    BY <1>1, <1>5, <2>2, Flat
  <2> QED
    BY <1>1, <1>5, <2>1, <2>2
<1>6. StackOK(pr, na, D, S)
  BY DEF Emitted2
<1>7. S[h] = S[k]
  <2>1. \A j \in 1 .. Len(pr) : h <= j /\ j < k => pr[j].op # "defer"
    BY <1>1, <1>4, <1>5
  <2>2. h \in 1 .. Len(pr) + 1 /\ k \in 1 .. Len(pr) + 1 /\ h <= k
    BY <1>1
  <2> QED
    BY <1>1, <1>6, <2>1, <2>2, StackSame
<1>8. S[k] = S[EndIn(pr, h) + 1]
  <2>1. \A j \in 1 .. Len(pr) : k <= j /\ j < EndIn(pr, h) + 1 => pr[j].op # "defer"
    BY <1>1, <1>4, <1>5
  <2>2. k \in 1 .. Len(pr) + 1 /\ EndIn(pr, h) + 1 \in 1 .. Len(pr) + 1 /\ k <= EndIn(pr, h) + 1
    BY <1>1, <1>4
  <2> QED
    BY <1>1, <1>6, <2>1, <2>2, StackSame
<1> QED
  BY <1>3, <1>4, <1>7, <1>8

-----------------------------------------------------------------------------
(* Settling stays in the function.                                         *)

LEMMA SilentMain ==
  ASSUME NEW pr, NEW bs, NEW na, NEW D, NEW S, Emitted2(pr, bs, na, D, S),
         NEW k \in 1 .. Len(pr), Main(pr, D, k)
  PROVE  /\ Silent(pr, k) => Main(pr, D, SilentTo(pr, k)) /\ S[SilentTo(pr, k)] = S[k]
         /\ ~Silent(pr, k) =>
              /\ Main(pr, D, SettledAt(pr, k)) /\ S[SettledAt(pr, k)] = S[k]
              /\ SettledAt(pr, k) \in 1 .. Len(pr) /\ pr[SettledAt(pr, k)].op # "end"
<1>1. /\ Complete2(pr, bs) /\ TextOK(pr, bs) /\ Len(bs) = 2 /\ LiveOK(pr, D)
      /\ Len(pr) \in Nat /\ TokenOK(pr, k) /\ k \notin D /\ ~(k > Len(pr))
  BY TextFacts DEF Emitted2, Complete2, TextOK, Statements, Main
<1>2. ASSUME pr[k].op \in {"break", "continue"}
      PROVE  LET h == LoopIn(pr, k)
             IN  /\ h \in 1 .. Len(pr) /\ pr[h].op # "end"
                 /\ Main(pr, D, h) /\ S[h] = S[k]
                 /\ Main(pr, D, EndIn(pr, h) + 1) /\ S[EndIn(pr, h) + 1] = S[k]
  <2> DEFINE h == LoopIn(pr, k)
  <2>1. h \in 1 .. Len(pr) /\ h < k /\ h \in pr[k].path \ {0} /\ pr[h].op \in Loops /\ pr[h].op \in Openers
    BY <1>1, <1>2, LoopIs
  <2> HIDE DEF h
  <2>2. h \notin D
    BY <1>1, <2>1 DEF LiveOK
  <2>3. k <= EndIn(pr, h)
    BY <1>1, <2>1, PathRange
  <2>4. /\ Main(pr, D, h) /\ S[h] = S[k]
        /\ Main(pr, D, EndIn(pr, h) + 1) /\ S[EndIn(pr, h) + 1] = S[k]
    BY <2>1, <2>2, <2>3, AroundMain
  <2> QED
    BY <2>1, <2>4 DEF h, Loops
<1>3. ASSUME pr[k].op \in Enders, pr[pr[k].head].op \in Loops \cup {"if", "switch"}
      PROVE  LET h == pr[k].head
             IN  /\ h \in 1 .. Len(pr) /\ pr[h].op # "end"
                 /\ Main(pr, D, h) /\ S[h] = S[k]
                 /\ Main(pr, D, EndIn(pr, h) + 1) /\ S[EndIn(pr, h) + 1] = S[k]
  <2> DEFINE h == pr[k].head
  <2>1. h \in 1 .. Len(pr) /\ h < k /\ pr[h].op \in Openers
    BY <1>1, <1>3, TextFacts DEF TokenOK
  <2>2. h \notin D
    BY <1>1, <1>3 DEF LiveOK
  <2>3. pr[k].head = h /\ pr[h].op \in Loops \cup {"if", "switch"}
    BY <1>3
  <2> HIDE DEF h
  <2>4. k <= EndIn(pr, h)
    BY <1>1, <2>1, <2>3, EndIs
  <2>5. /\ Main(pr, D, h) /\ S[h] = S[k]
        /\ Main(pr, D, EndIn(pr, h) + 1) /\ S[EndIn(pr, h) + 1] = S[k]
    BY <2>1, <2>2, <2>3, <2>4, AroundMain
  <2> QED
    BY <2>1, <2>3, <2>5 DEF h, Loops
<1>4. ASSUME Silent(pr, k)
      PROVE  Main(pr, D, SilentTo(pr, k)) /\ S[SilentTo(pr, k)] = S[k]
  <2>1. CASE pr[k].op = "break"
    BY <1>2, <2>1 DEF SilentTo
  <2>2. CASE pr[k].op \in {"else", "case"}
    <3>1. pr[k].op \in Enders /\ pr[pr[k].head].op \in Loops \cup {"if", "switch"}
      BY <1>1, <2>2, OpKinds DEF TokenOK, SameHead
    <3>2. SilentTo(pr, k) = EndIn(pr, pr[k].head) + 1
      BY <2>2 DEF SilentTo
    <3> QED
      BY <1>3, <3>1, <3>2
  <2>3. CASE pr[k].op \notin {"break", "else", "case"}
    <3>1. pr[k].op \in {"block", "end"}
      BY <1>4, <2>3 DEF Silent
    <3>2. Main(pr, D, k + 1) /\ S[k + 1] = S[k]
      BY <3>1, NextMain DEF Terminators
    <3> QED
      BY <2>3, <3>2 DEF SilentTo
  <2> QED
    BY <2>1, <2>2, <2>3
<1>5. ASSUME ~Silent(pr, k)
      PROVE  /\ Main(pr, D, SettledAt(pr, k)) /\ S[SettledAt(pr, k)] = S[k]
             /\ SettledAt(pr, k) \in 1 .. Len(pr) /\ pr[SettledAt(pr, k)].op # "end"
  <2>1. CASE pr[k].op = "continue"
    <3>1. SettledAt(pr, k) = LoopIn(pr, k)
      BY <1>1, <2>1 DEF SettledAt
    <3> QED
      BY <1>2, <2>1, <3>1
  <2>2. CASE pr[k].op = "end"
    <3>1. pr[pr[k].head].op \in Loops \cup {"defer"}
      BY <1>5, <2>2 DEF Silent
    <3>2. pr[pr[k].head].op # "defer"
      <4> SUFFICES ASSUME pr[pr[k].head].op = "defer"
                   PROVE  FALSE
        OBVIOUS
      <4>1. pr[k].head \in 1 .. Len(pr) /\ pr[k].head < k
        BY <1>1, <2>2, TextFacts, OpKinds
      <4>2. EndIn(pr, pr[k].head) = k
        BY <1>1, <2>2, EndOfEnd
      <4>3. DeferredBy(pr, pr[k].head, k)
        BY <1>1, <4>1, <4>2 DEF DeferredBy
      <4> QED
        BY <4>1, <4>3 DEF Main, Deferred
    <3>3. SettledAt(pr, k) = pr[k].head
      BY <1>1, <2>2, <3>1, <3>2 DEF SettledAt
    <3> QED
      BY <1>3, <2>2, <3>1, <3>2, <3>3, OpKinds
  <2>3. CASE pr[k].op \notin {"continue", "end"}
    <3>1. SettledAt(pr, k) = k
      BY <1>1, <2>3 DEF SettledAt
    <3> QED
      BY <2>3, <3>1
  <2> QED
    BY <2>1, <2>2, <2>3
<1> QED
  BY <1>4, <1>5

LEMMA SettleMain ==
  ASSUME NEW D, NEW S, Emitted2(prog, blocks, nat, D, S), MaxLen \in Nat, Len(prog) <= MaxLen,
         NEW k \in 1 .. Len(prog) + 1, Main(prog, D, k)
  PROVE  Reached(prog, D, S, Settle[k], S[k])
<1> DEFINE X == {m \in Nat : \A x \in 1 .. Len(prog) + 1 :
                   Len(prog) + 1 - m <= x /\ Main(prog, D, x) => Reached(prog, D, S, Settle[x], S[x])}
<1>1. Len(prog) \in Nat /\ TextOK(prog, blocks) /\ Len(blocks) = 2
  BY TextFacts DEF Emitted2, Complete2
<1>2. ASSUME NEW x \in 1 .. Len(prog) + 1, Main(prog, D, x),
             \A z \in x + 1 .. Len(prog) + 1 : Main(prog, D, z) => Reached(prog, D, S, Settle[z], S[z])
      PROVE  Reached(prog, D, S, Settle[x], S[x])
  <2>0. CASE x = Len(prog) + 1
    <3>1. x \in 1 .. MaxLen + 1 /\ x > Len(prog) /\ x \notin 1 .. Len(prog)
      BY <1>1, <2>0
    <3>2. Settle[x] = x
      BY <1>1, <3>1, SettleIs
    <3> QED
      BY <1>2, <3>1, <3>2 DEF Reached
  <2>1. CASE x \in 1 .. Len(prog) /\ Silent(prog, x)
    <3>1. Main(prog, D, SilentTo(prog, x)) /\ S[SilentTo(prog, x)] = S[x]
      BY <1>2, <2>1, SilentMain
    <3>2. SilentTo(prog, x) \in x + 1 .. Len(prog) + 1
      BY <1>1, <2>1, SilentForward
    <3>3. Settle[x] = Settle[SilentTo(prog, x)]
      BY <1>1, <2>1, SettleIs
    <3> QED
      BY <1>2, <3>1, <3>2, <3>3
  <2>2. CASE x \in 1 .. Len(prog) /\ ~Silent(prog, x)
    <3>1. /\ Main(prog, D, SettledAt(prog, x)) /\ S[SettledAt(prog, x)] = S[x]
          /\ prog[SettledAt(prog, x)].op # "end"
      BY <1>2, <2>2, SilentMain
    <3>2. Settle[x] = SettledAt(prog, x)
      BY <1>1, <2>2, SettleIs
    <3> QED
      BY <3>1, <3>2 DEF Reached
  <2> QED
    BY <1>1, <2>0, <2>1, <2>2
<1>3. 0 \in X
  <2>1. \A x \in 1 .. Len(prog) + 1 : Len(prog) + 1 - 0 <= x => x + 1 .. Len(prog) + 1 = {}
    BY <1>1
  <2> QED
    BY <1>2, <2>1
<1>4. ASSUME NEW m \in Nat, m \in X
      PROVE  m + 1 \in X
  <2> SUFFICES ASSUME NEW x \in 1 .. Len(prog) + 1, Len(prog) + 1 - (m + 1) <= x, Main(prog, D, x)
               PROVE  Reached(prog, D, S, Settle[x], S[x])
    OBVIOUS
  <2>1. \A z \in x + 1 .. Len(prog) + 1 : z \in 1 .. Len(prog) + 1 /\ Len(prog) + 1 - m <= z
    BY <1>1
  <2>2. \A z \in x + 1 .. Len(prog) + 1 : Main(prog, D, z) => Reached(prog, D, S, Settle[z], S[z])
    BY <1>4, <2>1
  <2> QED
    BY <1>2, <2>2
<1> HIDE DEF X
<1>5. Len(prog) \in X
  BY <1>1, <1>3, <1>4, InductiveSet
<1>6. Len(prog) + 1 - Len(prog) <= k
  BY <1>1
<1> QED
  BY <1>5, <1>6 DEF X

-----------------------------------------------------------------------------
(* Stacks of deferred blocks.                                              *)

LEMMA ReverseFacts ==
  ASSUME NEW T, NEW s \in Seq(T)
  PROVE  /\ Reverse(s) \in Seq(T) /\ Len(Reverse(s)) = Len(s)
         /\ \A i \in 1 .. Len(s) : Reverse(s)[i] = s[Len(s) - i + 1]
BY DEF Reverse

LEMMA ReverseAppend ==
  ASSUME NEW T, NEW s \in Seq(T), NEW x \in T
  PROVE  Reverse(Append(s, x)) = <<x>> \o Reverse(s)
<1> DEFINE n == Len(s)
           a == Append(s, x)
           l == Reverse(a)
           r == <<x>> \o Reverse(s)
<1>1. /\ a \in Seq(T) /\ Len(a) = n + 1 /\ n \in Nat
      /\ a[n + 1] = x /\ \A i \in 1 .. n : a[i] = s[i]
  OBVIOUS
<1> HIDE DEF a
<1>2. /\ l \in Seq(T) /\ Len(l) = n + 1
      /\ \A i \in 1 .. n + 1 : l[i] = a[n + 1 - i + 1]
  BY <1>1, ReverseFacts
<1>3. Reverse(s) \in Seq(T) /\ Len(Reverse(s)) = n /\ \A i \in 1 .. n : Reverse(s)[i] = s[n - i + 1]
  BY ReverseFacts
<1>4. /\ r \in Seq(T) /\ Len(r) = n + 1 /\ r[1] = x
      /\ \A i \in 2 .. n + 1 : r[i] = Reverse(s)[i - 1]
  BY <1>1, <1>3
<1>5. ASSUME NEW i \in 1 .. n + 1
      PROVE  l[i] = r[i]
  <2>1. CASE i = 1
    BY <1>1, <1>2, <1>4, <2>1
  <2>2. CASE i # 1
    <3>1. i - 1 \in 1 .. n /\ n - (i - 1) + 1 = n + 1 - i + 1 /\ n + 1 - i + 1 \in 1 .. n
      BY <1>1, <2>2
    <3>2. r[i] = s[n - (i - 1) + 1]
      BY <1>1, <1>3, <1>4, <2>2, <3>1, SMTT(30)
    <3>3. l[i] = s[n + 1 - i + 1]
      BY <1>1, <1>2, <3>1
    <3> QED
      BY <3>1, <3>2, <3>3
  <2> QED
    BY <2>1, <2>2
<1> HIDE DEF l, r
<1>6. l = r
  BY <1>1, <1>2, <1>4, <1>5, SeqEqual
<1> QED
  BY <1>6 DEF l, r, a

-----------------------------------------------------------------------------
(* What each statement adds to what is emitted.                            *)

LEMMA InlinedKept ==
  ASSUME NEW f, NEW g, NEW n \in Nat, f \in [1 .. n + 1 -> Seq(Nat)], NEW k \in 1 .. n + 1, NEW v \in Seq(Nat),
         g = [f EXCEPT ![k] = v]
  PROVE  g \in [1 .. n + 1 -> Seq(Nat)] /\ g[k] = v /\ \A j \in 1 .. n + 1 : j # k => g[j] = f[j]
OBVIOUS

LEMMA EmitSimpleIs ==
  ASSUME NatShape, MaxLen \in Nat, Len(prog) \in Nat, Len(prog) + 1 <= MaxLen,
         NEW op \in Simple, EmitSimple(op)
  PROVE  /\ NatShape' /\ Emits(prog, nat, nat', op, nat.dead = 0)
         /\ nat'.dead = IF nat.dead # 0 THEN nat.dead
                        ELSE IF op \in Terminators THEN Len(blocks) ELSE 0
<1>1. op # "defer"
  BY DEF Simple
<1>2. CASE nat.dead # 0
  <2>1. nat' = nat
    BY <1>2 DEF EmitSimple, Dead
  <2> QED
    BY <1>1, <1>2, <2>1 DEF NatShape, Emits
<1>3. CASE nat.dead = 0
  <2> DEFINE v == IF op = "return" THEN DeferredBodies ELSE nat.inlined[Here]
             sl == [nat.slot EXCEPT ![Here] = IF op \in {"use", "set"} THEN ResolveLocal ELSE @]
             bu == nat.built /\ ~(op = "return" /\ InDefer)
             de == IF op \in Terminators THEN Len(blocks) ELSE nat.dead
  <2>1. nat' = [nat EXCEPT !.slot = sl, !.inlined = [nat.inlined EXCEPT ![Here] = v],
                           !.built = bu, !.dead = de]
    BY <1>3 DEF EmitSimple, Dead
  <2>2. Here = Len(prog) + 1 /\ Here \in 1 .. MaxLen + 1
    BY DEF Here
  <2>3. v \in Seq(Nat) /\ (op = "return" => v = Reverse(nat.deferStack))
    BY <2>2, ReverseFacts DEF NatShape, DeferredBodies
  <2> HIDE DEF v, sl, bu, de
  <2>4. nat' = [scopes |-> nat.scopes, deferStack |-> nat.deferStack, dead |-> de,
                built |-> bu, slot |-> sl, inlined |-> [nat.inlined EXCEPT ![Here] = v]]
    BY <2>1 DEF NatShape
  <2>5. /\ nat'.inlined \in [1 .. MaxLen + 1 -> Seq(Nat)] /\ nat'.inlined[Here] = v
        /\ \A j \in 1 .. MaxLen + 1 : j # Here => nat'.inlined[j] = nat.inlined[j]
    BY <2>2, <2>3, <2>4, InlinedKept DEF NatShape
  <2>6. NatShape'
    BY <2>4, <2>5 DEF NatShape
  <2>7. \A k \in 1 .. Len(prog) : k \in 1 .. MaxLen + 1 /\ k # Here
    BY <2>2
  <2>8. Emits(prog, nat, nat', op, nat.dead = 0)
    BY <1>1, <2>2, <2>3, <2>4, <2>5, <2>7 DEF Emits
  <2> QED
    BY <1>3, <2>4, <2>6, <2>8 DEF de
<1> QED
  BY <1>2, <1>3

LEMMA EmitVarIs ==
  ASSUME NatShape, EmitVar
  PROVE  /\ NatShape' /\ Emits(prog, nat, nat', "var", nat.dead = 0)
         /\ nat'.dead = nat.dead
<1>1. CASE nat.dead # 0
  BY <1>1 DEF EmitVar, Dead, NatShape, Emits
<1>2. CASE nat.dead = 0
  <2> DEFINE sc == DeclareLocal(nat.scopes)
  <2>1. nat' = [nat EXCEPT !.scopes = sc]
    BY <1>2 DEF EmitVar, Dead
  <2> HIDE DEF sc
  <2>2. nat' = [scopes |-> sc, deferStack |-> nat.deferStack, dead |-> nat.dead,
                built |-> nat.built, slot |-> nat.slot, inlined |-> nat.inlined]
    BY <2>1 DEF NatShape
  <2> QED
    BY <2>2 DEF NatShape, Emits
<1> QED
  BY <1>1, <1>2

LEMMA EmitOpenIs ==
  ASSUME NatShape, Len(prog) \in Nat, NEW op \in Openers, EmitOpen(op)
  PROVE  /\ NatShape' /\ Emits(prog, nat, nat', op, nat.dead = 0)
         /\ nat'.dead = nat.dead
<1>0. op # "return"
  BY DEF Openers, Loops
<1>1. CASE nat.dead # 0
  BY <1>0, <1>1 DEF EmitOpen, Dead, NatShape, Emits
<1>2. CASE nat.dead = 0
  <2> DEFINE sc == CASE op = "for"      -> DeclareLocal(nat.scopes)
                     [] op = "forRange" -> EnterScope(DeclareLocal(nat.scopes))
                     [] OTHER           -> EnterScope(nat.scopes)
             st == IF op = "defer" THEN Append(nat.deferStack, Here) ELSE nat.deferStack
  <2>1. nat' = [nat EXCEPT !.scopes = sc, !.deferStack = st]
    BY <1>2 DEF EmitOpen, Dead
  <2>2. st \in Seq(Nat) /\ st = IF op = "defer" THEN Append(nat.deferStack, Len(prog) + 1) ELSE nat.deferStack
    BY DEF NatShape, Here
  <2> HIDE DEF sc, st
  <2>3. nat' = [scopes |-> sc, deferStack |-> st, dead |-> nat.dead,
                built |-> nat.built, slot |-> nat.slot, inlined |-> nat.inlined]
    BY <2>1 DEF NatShape
  <2> QED
    BY <1>0, <1>2, <2>2, <2>3 DEF NatShape, Emits
<1> QED
  BY <1>1, <1>2

LEMMA EmitNextIs ==
  ASSUME NatShape, NEW op \in {"else", "case"}, EmitNext
  PROVE  /\ NatShape' /\ Emits(prog, nat, nat', op, nat.dead \in {0, Len(blocks)})
         /\ nat'.dead = IF nat.dead \in {0, Len(blocks)} THEN 0 ELSE nat.dead
<1>1. CASE ~Emitted
  BY <1>1 DEF EmitNext, Emitted, NatShape, Emits
<1>2. CASE Emitted
  <2> DEFINE sc == EnterScope(LeaveScope(nat.scopes))
  <2>1. nat' = [nat EXCEPT !.scopes = sc, !.dead = 0]
    BY <1>2 DEF EmitNext
  <2> HIDE DEF sc
  <2>2. nat' = [scopes |-> sc, deferStack |-> nat.deferStack, dead |-> 0,
                built |-> nat.built, slot |-> nat.slot, inlined |-> nat.inlined]
    BY <2>1 DEF NatShape
  <2> QED
    BY <1>2, <2>2 DEF NatShape, Emits, Emitted
<1> QED
  BY <1>1, <1>2

LEMMA EmitEndIs ==
  ASSUME NatShape, EmitEnd
  PROVE  /\ NatShape' /\ Emits(prog, nat, nat', "end", nat.dead \in {0, Len(blocks)})
         /\ nat'.dead = IF nat.dead \in {0, Len(blocks)} THEN 0 ELSE nat.dead
<1>1. CASE ~Emitted
  BY <1>1 DEF EmitEnd, Emitted, NatShape, Emits
<1>2. CASE Emitted
  <2> DEFINE sc == IF Inner.op = "for" THEN RemoveLoopVariable(nat.scopes) ELSE LeaveScope(nat.scopes)
  <2>1. nat' = [nat EXCEPT !.dead = 0, !.scopes = sc]
    BY <1>2 DEF EmitEnd
  <2> HIDE DEF sc
  <2>2. nat' = [scopes |-> sc, deferStack |-> nat.deferStack, dead |-> 0,
                built |-> nat.built, slot |-> nat.slot, inlined |-> nat.inlined]
    BY <2>1 DEF NatShape
  <2> QED
    BY <1>2, <2>2 DEF NatShape, Emits, Emitted
<1> QED
  BY <1>1, <1>2

-----------------------------------------------------------------------------
(* The stack of deferred blocks while the body is written.                 *)

LEMMA DefersInitially == ASSUME ConformanceInit, MaxLen \in Nat PROVE NatShape /\ WrittenDefers
<1>1. /\ prog = <<>> /\ defers = <<>> /\ Len(prog) = 0
      /\ TextOK(prog, blocks) /\ Len(blocks) \in Nat
  BY BodyInitially, TextFacts DEF ConformanceInit, Init, BodyInv
<1>2. \E param \in {0, None} :
        blocks = <<Block("function", 0, 0, param), Block("block", 0, 0, None)>>
  BY DEF ConformanceInit, Init
<1>3. Len(blocks) = 2
  BY <1>2
<1>4. /\ nat.deferStack = <<>> /\ nat.dead = 0
      /\ nat = [scopes |-> nat.scopes, deferStack |-> nat.deferStack, dead |-> nat.dead,
                built |-> nat.built, slot |-> nat.slot, inlined |-> nat.inlined]
      /\ nat.inlined = [k \in 1 .. MaxLen + 1 |-> <<>>]
  BY DEF ConformanceInit, NativeInit
<1>5. NatShape
  BY <1>4 DEF NatShape
<1> DEFINE S == [k \in 1 .. 1 |-> <<>>]
<1>6. 1 .. Len(prog) = {} /\ 3 .. Len(blocks) = {} /\ 1 .. Len(prog) + 1 = 1 .. 1
  BY <1>1, <1>3
<1>7. LiveOK(prog, {})
  BY <1>6 DEF LiveOK
<1>8. DeadOK(prog, blocks, nat.dead, {})
  BY <1>4, <1>6 DEF DeadOK
<1>9. S \in [1 .. 1 -> Seq(Nat)] /\ S[1] = <<>>
  OBVIOUS
<1> HIDE DEF S
<1>10. StackOK(prog, nat, {}, S)
  BY <1>1, <1>4, <1>6, <1>9 DEF StackOK
<1>11. DefersOK(prog, blocks, nat, {}, S)
  BY <1>7, <1>8, <1>10 DEF DefersOK
<1> QED
  BY <1>1, <1>5, <1>11 DEF WrittenDefers

LEMMA DefersWritten ==
  ASSUME BodyInv, MaxLen \in Nat, NatShape, WrittenDefers, Writes
  PROVE  NatShape' /\ WrittenDefers' /\ phase = "writing" /\ phase' # "running"
<1>1. PICK D, S : DefersOK(prog, blocks, nat, D, S)
  BY DEF WrittenDefers
<1>2. TextOK(prog, blocks) /\ Len(prog) \in Nat /\ defers = <<>>
  BY TextFacts DEF BodyInv, WrittenDefers
<1>3. ASSUME NEW op \in Simple, Statement(op)
      PROVE  NatShape' /\ WrittenDefers' /\ phase = "writing" /\ phase' # "running"
  <2>1. Write(op) /\ EmitSimple(op) /\ SimpleStep(prog, blocks, prog', blocks', op, Meant)
    BY <1>2, <1>3, WriteStep DEF Statement
  <2>2. Len(prog) + 1 <= MaxLen /\ phase = "writing"
    BY <2>1, WroteText DEF Wrote
  <2>3. /\ NatShape' /\ Emits(prog, nat, nat', op, nat.dead = 0)
        /\ nat'.dead = IF nat.dead # 0 THEN nat.dead
                       ELSE IF op \in Terminators THEN Len(blocks) ELSE 0
    BY <1>2, <2>1, <2>2, EmitSimpleIs
  <2>4. \E D2, S2 : DefersOK(prog', blocks', nat', D2, S2)
    BY <1>1, <1>2, <2>1, <2>3, SimpleDefers
  <2>5. defers' = <<>>
    BY <1>2, <2>1 DEF Write, Unrun
  <2>9. phase' # "running"
    BY <1>3, <2>1, <2>2 DEF Statement, Compile
  <2> QED
    BY <2>2, <2>3, <2>4, <2>5, <2>9 DEF WrittenDefers
<1>4. ASSUME Variable
      PROVE  NatShape' /\ WrittenDefers' /\ phase = "writing" /\ phase' # "running"
  <2>1. WriteVar /\ EmitVar /\ SimpleStep(prog, blocks, prog', blocks', "var", Len(prog) + 1)
    BY <1>2, <1>4, WriteVarStep DEF Variable
  <2>2. phase = "writing"
    BY <2>1 DEF WriteVar, Writing
  <2>3. /\ NatShape' /\ Emits(prog, nat, nat', "var", nat.dead = 0)
        /\ nat'.dead = nat.dead
    BY <2>1, EmitVarIs
  <2>4. "var" \notin Terminators
    BY DEF Terminators
  <2>5. \E D2, S2 : DefersOK(prog', blocks', nat', D2, S2)
    BY <1>1, <1>2, <2>1, <2>3, <2>4, SimpleDefers
  <2>6. defers' = <<>>
    BY <1>2, <2>1 DEF WriteVar, Unrun
  <2>9. phase' # "running"
    BY <1>4, <2>1, <2>2 DEF Variable, WriteVar
  <2> QED
    BY <2>2, <2>3, <2>5, <2>6, <2>9 DEF WrittenDefers
<1>5. ASSUME NEW op \in Openers, Opening(op)
      PROVE  NatShape' /\ WrittenDefers' /\ phase = "writing" /\ phase' # "running"
  <2>1. WriteOpen(op) /\ EmitOpen(op) /\ OpenStep(prog, blocks, prog', blocks', op, Meant)
    BY <1>2, <1>5, WriteOpenStep DEF Opening
  <2>2. phase = "writing"
    BY <2>1 DEF WriteOpen, Writing
  <2>3. /\ NatShape' /\ Emits(prog, nat, nat', op, nat.dead = 0)
        /\ nat'.dead = nat.dead
    BY <1>2, <2>1, EmitOpenIs
  <2>4. \E D2, S2 : DefersOK(prog', blocks', nat', D2, S2)
    BY <1>1, <1>2, <2>1, <2>3, OpenDefers
  <2>5. defers' = <<>>
    BY <1>2, <2>1 DEF WriteOpen, Unrun
  <2>9. phase' # "running"
    BY <1>5, <2>1, <2>2 DEF Opening, WriteOpen
  <2> QED
    BY <2>2, <2>3, <2>4, <2>5, <2>9 DEF WrittenDefers
<1>6. ASSUME NEW op \in {"else", "case"}, Branch(op)
      PROVE  NatShape' /\ WrittenDefers' /\ phase = "writing" /\ phase' # "running"
  <2>1. WriteNext(op) /\ EmitNext /\ NextStep(prog, blocks, prog', blocks', op)
    BY <1>2, <1>6, WriteNextStep DEF Branch
  <2>2. phase = "writing"
    BY <2>1 DEF WriteNext, Writing
  <2>3. /\ NatShape' /\ Emits(prog, nat, nat', op, nat.dead \in {0, Len(blocks)})
        /\ nat'.dead = IF nat.dead \in {0, Len(blocks)} THEN 0 ELSE nat.dead
    BY <2>1, EmitNextIs
  <2>4. \E D2, S2 : DefersOK(prog', blocks', nat', D2, S2)
    BY <1>1, <1>2, <2>1, <2>3, NextDefers
  <2>5. defers' = <<>>
    BY <1>2, <2>1 DEF WriteNext, Unrun
  <2>9. phase' # "running"
    BY <1>6, <2>1, <2>2 DEF Branch, WriteNext
  <2> QED
    BY <2>2, <2>3, <2>4, <2>5, <2>9 DEF WrittenDefers
<1>7. ASSUME Ending
      PROVE  NatShape' /\ WrittenDefers' /\ phase = "writing" /\ phase' # "running"
  <2>1. WriteEnd /\ EmitEnd /\ EndStep(prog, blocks, prog', blocks')
    BY <1>2, <1>7, WriteEndStep DEF Ending
  <2>2. phase = "writing"
    BY <2>1 DEF WriteEnd, Writing
  <2>3. /\ NatShape' /\ Emits(prog, nat, nat', "end", nat.dead \in {0, Len(blocks)})
        /\ nat'.dead = IF nat.dead \in {0, Len(blocks)} THEN 0 ELSE nat.dead
    BY <2>1, EmitEndIs
  <2>4. \E D2, S2 : DefersOK(prog', blocks', nat', D2, S2)
    BY <1>1, <1>2, <2>1, <2>3, EndDefers
  <2>5. defers' = <<>>
    BY <1>2, <2>1 DEF WriteEnd, Unrun
  <2>9. phase' # "running"
    BY <1>7, <2>1, <2>2 DEF Ending, WriteEnd
  <2> QED
    BY <2>2, <2>3, <2>4, <2>5, <2>9 DEF WrittenDefers
<1> QED
  BY <1>3, <1>4, <1>5, <1>6, <1>7 DEF Writes

-----------------------------------------------------------------------------
(* The deferred blocks that are due when the body runs.                    *)

LEMMA RunningFacts ==
  ASSUME BodyInv, MaxLen \in Nat, phase = "running"
  PROVE  /\ Complete2(prog, blocks) /\ Len(prog) \in Nat /\ Len(prog) <= MaxLen
         /\ DOMAIN prog = 1 .. Len(prog)
<1>1. TextOK(prog, blocks) /\ Len(blocks) = 2 /\ Len(prog) \in Nat
  BY TextFacts DEF BodyInv
<1>2. DOMAIN prog = 1 .. Len(prog)
  BY <1>1, TypedParts, LenProperties DEF TextOK, Typed
<1> QED
  BY <1>1, <1>2 DEF BodyInv, Complete2

LEMMA RunStarts ==
  ASSUME BodyInv, MaxLen \in Nat, NatShape, WrittenDefers, Complete
  PROVE  NatShape' /\ \E D, S : NatRun(D, S)'
<1> DEFINE N == Len(prog) + 1
<1>1. PICK D, S : DefersOK(prog, blocks, nat, D, S)
  BY DEF WrittenDefers
<1>2. /\ EmitFunction /\ Len(blocks) = 2 /\ at' = Settle[1]
      /\ prog' = prog /\ blocks' = blocks /\ defers' = <<>>
  BY DEF Complete, Start, WrittenDefers
<1>3. /\ Complete2(prog, blocks) /\ Len(prog) \in Nat /\ Len(prog) <= MaxLen
      /\ LiveOK(prog, D) /\ StackOK(prog, nat, D, S)
  BY <1>1, <1>2, TextFacts DEF BodyInv, Complete2, DefersOK
<1>4. N \in 1 .. MaxLen + 1 /\ Here = N /\ 1 \in 1 .. N
  BY <1>3 DEF Here
<1>5. DeferredBodies \in Seq(Nat) /\ DeferredBodies = Reverse(nat.deferStack)
  BY ReverseFacts DEF NatShape, DeferredBodies
<1>6. nat' = [nat EXCEPT !.inlined = [nat.inlined EXCEPT ![N] = DeferredBodies]]
  BY <1>2, <1>4 DEF EmitFunction
<1> HIDE DEF N
<1>7. nat' = [scopes |-> nat.scopes, deferStack |-> nat.deferStack, dead |-> nat.dead,
              built |-> nat.built, slot |-> nat.slot,
              inlined |-> [nat.inlined EXCEPT ![N] = DeferredBodies]]
  BY <1>6 DEF NatShape
<1>8. /\ nat'.inlined \in [1 .. MaxLen + 1 -> Seq(Nat)] /\ nat'.inlined[N] = DeferredBodies
      /\ \A j \in 1 .. MaxLen + 1 : j # N => nat'.inlined[j] = nat.inlined[j]
  BY <1>4, <1>5, <1>7, InlinedKept DEF NatShape
<1>9. NatShape'
  BY <1>7, <1>8 DEF NatShape
<1>10. ASSUME NEW k \in 1 .. Len(prog)
       PROVE  nat'.inlined[k] = nat.inlined[k]
  <2>1. k \in 1 .. MaxLen + 1 /\ k # N
    BY <1>3 DEF N
  <2> QED
    BY <1>8, <2>1
<1>11. StackOK(prog, nat', D, S)
  BY <1>3, <1>7, <1>10 DEF StackOK
<1>12. nat'.inlined[N] = Reverse(S[N])
  BY <1>3, <1>5, <1>8 DEF StackOK, N
<1>13. ASSUME Plain(prog)
       PROVE  Reached(prog, D, S, at', S[at']) /\ defers' = Reverse(S[at'])
  <2>1. Emitted2(prog, blocks, nat, D, S)
    BY <1>3, <1>13 DEF Emitted2
  <2>2. Main(prog, D, 1)
    <3>1. ~Deferred(prog, 1)
      BY DEF Deferred, DeferredBy
    <3> QED
      BY <1>3, <1>4, <3>1 DEF Main, LiveOK, N
  <2>3. Reached(prog, D, S, Settle[1], S[1])
    BY <1>3, <1>4, <2>1, <2>2, SettleMain DEF N
  <2>4. S[at'] = <<>>
    BY <1>2, <1>3, <2>3 DEF Reached, StackOK
  <2>5. Reverse(<<>>) = <<>>
    BY DEF Reverse
  <2> QED
    BY <1>2, <2>3, <2>4, <2>5 DEF Reached
<1>14. defers' \in Seq({d \in 1 .. Len(prog) : prog[d].op = "defer"})
  BY <1>2
<1>15. NatRun(D, S)'
  BY <1>2, <1>3, <1>11, <1>12, <1>13, <1>14 DEF NatRun, Placed, InMain, N
<1> QED
  BY <1>9, <1>15

LEMMA LeftOK ==
  ASSUME BodyInv, MaxLen \in Nat, phase = "running", Placed, defers # <<>>
  PROVE  /\ Tail(defers) \in Seq({d \in 1 .. Len(prog) : prog[d].op = "defer"})
         /\ Deferred(prog, Settle[Head(defers) + 1])
<1> DEFINE d == Head(defers)
<1>1. Complete2(prog, blocks) /\ Len(prog) \in Nat /\ Len(prog) <= MaxLen
  BY RunningFacts
<1>2. /\ Tail(defers) \in Seq({e \in 1 .. Len(prog) : prog[e].op = "defer"})
      /\ d \in 1 .. Len(prog) /\ prog[d].op = "defer"
  BY DEF Placed
<1> HIDE DEF d
<1>3. EndIn(prog, d) \in 1 .. Len(prog) /\ d < EndIn(prog, d)
  BY <1>1, <1>2, OpKinds, EndIs DEF Complete2
<1>4. DeferredBy(prog, d, d + 1) /\ d + 1 \in 1 .. Len(prog)
  BY <1>1, <1>2, <1>3 DEF DeferredBy
<1>5. DeferredBy(prog, d, Settle[d + 1])
  BY <1>1, <1>4, SettleInside
<1> QED
  BY <1>2, <1>5 DEF Deferred, d

LEMMA SkippedIs ==
  ASSUME BodyInv, MaxLen \in Nat, phase = "running", at \in 1 .. Len(prog), prog[at].op \in Tests
  PROVE  \E h, m \in 1 .. Len(prog) : SkipsTo(h, m)
<1> DEFINE h == IF prog[at].op = "case" THEN prog[at].head ELSE at
           P == {m \in NextParts(h) : m > at}
           m == IF prog[at].op \in Loops THEN EndOf(at) ELSE Lowest(P)
<1>1. /\ TextOK(prog, blocks) /\ Len(blocks) = 2 /\ Len(prog) \in Nat
      /\ DOMAIN prog = 1 .. Len(prog) /\ TokenOK(prog, at) /\ at \in Nat /\ ~(at > Len(prog))
  BY RunningFacts DEF Complete2, TextOK, Statements
<1>2. Op = prog[at].op
  BY <1>1 DEF Op
<1>3. /\ h \in 1 .. Len(prog) /\ prog[h].op \in Loops \cup {"if", "switch"} /\ prog[h].op \in Openers
      /\ h <= at /\ (h = at \/ (prog[at].op = "case" /\ prog[at].head = h /\ h < at))
  <2>1. CASE prog[at].op = "case"
    BY <1>1, <2>1, TextFacts, OpKinds DEF TokenOK, SameHead
  <2>2. CASE prog[at].op # "case"
    <3>1. h = at
      BY <2>2
    <3>2. prog[at].op \in Loops \cup {"if", "switch"}
      BY <2>2 DEF Tests
    <3>3. prog[at].op \in Openers
      BY <3>2 DEF Openers
    <3> HIDE DEF h
    <3> QED
      BY <1>1, <3>1, <3>2, <3>3
  <2> QED
    BY <2>1, <2>2
<1>4. Skipped = IF prog[m].op = "case" THEN m ELSE Settle[m + 1]
  BY <1>2 DEF Skipped
<1>5. prog[at].op \in Loops => h = at
  BY <1>3 DEF Loops
<1> HIDE DEF h
<1>6. /\ EndIn(prog, h) \in 1 .. Len(prog) /\ prog[EndIn(prog, h)].op = "end"
      /\ prog[EndIn(prog, h)].head = h /\ h < EndIn(prog, h)
      /\ \A x \in 1 .. Len(prog) : prog[x].head = h => x <= EndIn(prog, h)
  BY <1>1, <1>3, EndIs
<1>7. EndOf(h) = EndIn(prog, h)
  BY <1>1 DEF EndOf, EndIn, NextParts
<1>8. at < EndIn(prog, h)
  <2>1. prog[at].op # "end"
    BY DEF Tests, Loops
  <2> QED
    BY <1>1, <1>3, <1>6, <2>1
<1>9. /\ m \in 1 .. Len(prog) /\ prog[m].head = h /\ at < m
      /\ \A x \in 1 .. Len(prog) : at < x /\ x < m => prog[x].head # h
  <2>1. CASE prog[at].op \in Loops
    <3>1. m = EndIn(prog, h) /\ h = at
      BY <1>5, <1>7, <2>1
    <3>2. ASSUME NEW x \in 1 .. Len(prog), prog[x].head = h, x < m
          PROVE  FALSE
      <4>1. TokenOK(prog, x) /\ h # 0 /\ prog[h].op \in Loops
        BY <1>1, <1>3, <2>1, <3>1 DEF TextOK, Statements
      <4>2. prog[x].op \in Enders /\ prog[x].op \notin {"else", "case"}
        BY <3>2, <4>1 DEF TokenOK, SameHead, Loops
      <4>3. prog[x].op = "end"
        BY <4>2 DEF Enders
      <4> QED
        BY <1>1, <3>1, <3>2, <4>3, EndOfEnd
    <3> QED
      BY <1>6, <1>8, <3>1, <3>2
  <2>2. CASE prog[at].op \notin Loops
    <3>1. EndIn(prog, h) \in P
      BY <1>1, <1>6, <1>8 DEF NextParts
    <3>2. P \subseteq Nat /\ P # {}
      BY <1>1, <3>1 DEF NextParts
    <3> HIDE DEF P
    <3>3. Lowest(P) \in P /\ \A x \in P : Lowest(P) <= x
      BY <3>2, LowestIs
    <3>4. m = Lowest(P)
      BY <2>2
    <3>5. \A x \in 1 .. Len(prog) : at < x /\ x < m => prog[x].head # h
      <4>1. ASSUME NEW x \in 1 .. Len(prog), at < x, x < m, prog[x].head = h
            PROVE  FALSE
        <5>1. x \in P
          BY <1>1, <4>1 DEF P, NextParts
        <5>2. m <= x /\ m \in Nat /\ x \in Nat
          BY <3>2, <3>3, <3>4, <5>1
        <5> QED
          BY <4>1, <5>2
      <4> QED
        BY <4>1
    <3> QED
      BY <1>1, <3>3, <3>4, <3>5 DEF P, NextParts
  <2> QED
    BY <2>1, <2>2
<1> HIDE DEF m, P
<1>10. prog[m].op \in Enders
  BY <1>1, <1>3, <1>9 DEF TextOK, Statements, TokenOK
<1>11. SkipsTo(h, m)
  BY <1>1, <1>3, <1>4, <1>6, <1>8, <1>9, <1>10 DEF SkipsTo
<1> QED
  BY <1>3, <1>9, <1>11

(* A step inside a deferred block.                                         *)
LEMMA RunInside ==
  ASSUME BodyInv, MaxLen \in Nat, phase = "running", Placed, Deferred(prog, at), NEW b, Do(b),
         phase' = "running"
  PROVE  Placed' /\ Deferred(prog, at')
<1>1. /\ Complete2(prog, blocks) /\ Len(prog) \in Nat /\ Len(prog) <= MaxLen
      /\ TextOK(prog, blocks) /\ Len(blocks) = 2
  BY RunningFacts DEF Complete2
<1>2. PICK d \in 1 .. Len(prog) : DeferredBy(prog, d, at)
  BY DEF Deferred
<1>3. /\ EndIn(prog, d) \in 1 .. Len(prog) /\ at \in 1 .. Len(prog) /\ ~(at > Len(prog))
      /\ Op = prog[at].op /\ prog[d].op = "defer" /\ TokenOK(prog, at)
  <2>1. EndIn(prog, d) \in 1 .. Len(prog) /\ prog[d].op = "defer"
    BY <1>1, <1>2, DeferEnds
  <2>2. at \in 1 .. Len(prog) /\ ~(at > Len(prog))
    BY <1>1, <1>2, <2>1 DEF DeferredBy
  <2> QED
    BY <1>1, <2>1, <2>2 DEF Op, TextOK, Statements
<1>4. prog' = prog
  BY DEF Do, Text
<1>5. ASSUME NEW k \in 1 .. Len(prog), DeferredBy(prog, d, k), at' = Settle[k], defers' = defers
      PROVE  Placed' /\ Deferred(prog, at')
  <2>1. DeferredBy(prog, d, at')
    BY <1>1, <1>5, SettleInside
  <2> QED
    BY <1>2, <1>4, <1>5, <2>1 DEF Placed, Deferred
<1>6. ASSUME Op # "end"
      PROVE  DeferredBy(prog, d, at + 1) /\ at + 1 \in 1 .. Len(prog)
  <2>1. DeferredBy(prog, d, at + 1)
    BY <1>1, <1>2, <1>3, <1>6, NextInside
  <2> QED
    BY <1>1, <1>3, <2>1 DEF DeferredBy
<1>7. CASE DoPlain
  <2>1. Op # "end" /\ at' = Settle[at + 1] /\ defers' = defers
    BY <1>7 DEF DoPlain
  <2> QED
    BY <1>5, <1>6, <2>1
<1>8. CASE DoDefer
  <2>1. d \in prog[at].path \ {0}
    BY <1>1, <1>2, <1>3, DeferAround
  <2> QED
    BY <1>3, <1>8, <2>1 DEF DoDefer, TokenOK
<1>9. CASE DoTest(b)
  <2>1. prog[at].op \in Tests /\ Op # "end" /\ defers' = defers
        /\ at' = IF b THEN Settle[at + 1] ELSE Skipped
    BY <1>3, <1>9 DEF DoTest, Tests, Loops
  <2>2. CASE at' = Settle[at + 1]
    BY <1>5, <1>6, <2>1, <2>2
  <2>3. CASE at' = Skipped
    <3>1. PICK h \in 1 .. Len(prog), m \in 1 .. Len(prog) : SkipsTo(h, m)
      BY <1>3, <2>1, SkippedIs
    <3>2. prog[h].op \in Openers /\ DeferredBy(prog, d, h)
      <4>1. prog[h].op \in Openers /\ prog[h].op # "defer"
        BY <3>1, OpKinds DEF SkipsTo, Loops
      <4>2. CASE h = at
        BY <1>2, <4>1, <4>2
      <4>3. CASE h # at
        <5>1. prog[at].op \in Enders /\ prog[at].head = h /\ h # d
          BY <1>3, <3>1, <4>1, <4>3, OpKinds DEF SkipsTo
        <5> QED
          BY <1>1, <1>2, <1>3, <5>1, HeadInside
      <4> QED
        BY <4>2, <4>3
    <3>3. DeferredBy(prog, d, m) /\ DeferredBy(prog, d, m + 1)
      <4>1. /\ EndIn(prog, h) < EndIn(prog, d)
            /\ \A k \in 1 .. Len(prog) + 1 : h <= k /\ k <= EndIn(prog, h) + 1 => DeferredBy(prog, d, k)
        BY <1>1, <3>2, DeferNests
      <4>2. EndIn(prog, h) \in 1 .. Len(prog)
        BY <1>1, <3>2, EndIs
      <4>3. h <= m /\ m <= EndIn(prog, h)
        BY <1>3, <3>1 DEF SkipsTo
      <4> QED
        BY <1>1, <4>1, <4>2, <4>3
    <3>4. m + 1 \in 1 .. Len(prog)
      BY <1>1, <1>3, <3>3 DEF DeferredBy
    <3>5. CASE at' = m
      BY <1>2, <1>4, <2>1, <3>3, <3>5 DEF Placed, Deferred
    <3>6. CASE at' = Settle[m + 1]
      BY <1>5, <2>1, <3>3, <3>4, <3>6
    <3> QED
      BY <2>3, <3>1, <3>5, <3>6 DEF SkipsTo
  <2> QED
    BY <2>1, <2>2, <2>3
<1>10. CASE DoLeave
  <2>1. defers # <<>> /\ at' = Settle[Head(defers) + 1] /\ defers' = Tail(defers)
    BY <1>10 DEF DoLeave
  <2> QED
    BY <1>4, <2>1, LeftOK DEF Placed
<1> QED
  BY <1>7, <1>8, <1>9, <1>10 DEF Do

(* A step outside of them.                                                 *)
LEMMA RunMain ==
  ASSUME BodyInv, MaxLen \in Nat, phase = "running", Placed, NEW D, NEW S,
         Emitted2(prog, blocks, nat, D, S), InMain(D, S), NEW b, Do(b), phase' = "running"
  PROVE  /\ Placed'
         /\ \/ Deferred(prog, at')
            \/ Reached(prog, D, S, at', S[at']) /\ defers' = Reverse(S[at'])
<1>1. /\ Complete2(prog, blocks) /\ Len(prog) \in Nat /\ Len(prog) <= MaxLen
      /\ TextOK(prog, blocks) /\ Len(blocks) = 2 /\ DOMAIN prog = 1 .. Len(prog)
  BY RunningFacts DEF Complete2
<1>2. /\ Main(prog, D, at) /\ at \in 1 .. Len(prog) + 1 /\ at \notin D /\ ~Deferred(prog, at)
      /\ defers = Reverse(S[at]) /\ (at \in 1 .. Len(prog) => prog[at].op # "end")
  BY DEF InMain, Reached, Main
<1>3. Op # "end" => at \in 1 .. Len(prog) /\ Op = prog[at].op
  BY <1>1, <1>2 DEF Op
<1>4. prog' = prog
  BY DEF Do, Text
<1>5. LiveOK(prog, D) /\ Plain(prog) /\ StackOK(prog, nat, D, S)
  BY DEF Emitted2
<1>6. ASSUME NEW k \in 1 .. Len(prog) + 1, Main(prog, D, k), at' = Settle[k]
      PROVE  Reached(prog, D, S, at', S[at']) /\ S[at'] = S[k]
  <2>1. Reached(prog, D, S, at', S[k])
    BY <1>1, <1>6, SettleMain
  <2> QED
    BY <2>1 DEF Reached
<1>7. ASSUME at \in 1 .. Len(prog), prog[at].op \notin Terminators \cup {"defer"},
             at' = Settle[at + 1], defers' = defers
      PROVE  Placed' /\ Reached(prog, D, S, at', S[at']) /\ defers' = Reverse(S[at'])
  <2>1. Main(prog, D, at + 1) /\ S[at + 1] = S[at]
    BY <1>2, <1>7, NextMain
  <2>2. at + 1 \in 1 .. Len(prog) + 1
    BY <1>7, <1>1
  <2>3. Reached(prog, D, S, at', S[at']) /\ S[at'] = S[at + 1]
    BY <1>6, <1>7, <2>1, <2>2
  <2> QED
    BY <1>2, <1>4, <1>7, <2>1, <2>3 DEF Placed
<1>8. CASE DoPlain
  <2>1. Op # "end" /\ Op \notin Terminators \cup {"defer"} /\ at' = Settle[at + 1] /\ defers' = defers
    BY <1>8 DEF DoPlain, Terminators
  <2> QED
    BY <1>3, <1>7, <2>1
<1>9. CASE DoDefer
  <2> DEFINE e == EndIn(prog, at)
  <2>1. /\ at \in 1 .. Len(prog) /\ prog[at].op = "defer" /\ at' = Settle[e + 1]
        /\ defers' = <<at>> \o defers
    BY <1>1, <1>3, <1>9 DEF DoDefer, EndOf, NextParts, EndIn
  <2>2. e \in 1 .. Len(prog) /\ Main(prog, D, e + 1) /\ at < e
    BY <1>1, <1>2, <2>1, PastMain, EndIs, OpKinds
  <2>3. ASSUME NEW j \in 1 .. Len(prog), at + 1 <= j, j < e + 1
        PROVE  prog[j].op # "defer"
    <3>1. DeferredBy(prog, at, j)
      BY <1>1, <2>1, <2>2, <2>3 DEF DeferredBy
    <3>2. at \in prog[j].path \ {0}
      BY <1>1, <3>1, DeferAround
    <3> QED
      BY <1>1, <2>1, <3>2 DEF TextOK, Statements, TokenOK
  <2> HIDE DEF e
  <2>4. S[at + 1] = S[e + 1]
    <3>1. at + 1 \in 1 .. Len(prog) + 1 /\ e + 1 \in 1 .. Len(prog) + 1 /\ at + 1 <= e + 1
      BY <1>1, <2>1, <2>2
    <3> QED
      BY <1>1, <1>5, <2>3, <3>1, StackSame, SMTT(30)
  <2>5. S[at + 1] = Append(S[at], at) /\ S[at] \in Seq(Nat) /\ at \in Nat
    <3>1. S[at + 1] = Append(S[at], at)
      BY <1>2, <1>5, <2>1 DEF StackOK
    <3>2. S \in [1 .. Len(prog) + 1 -> Seq(Nat)]
      BY <1>5 DEF StackOK
    <3>3. at \in Nat
      BY <2>1
    <3> QED
      BY <1>2, <3>1, <3>2, <3>3
  <2>6. Reached(prog, D, S, at', S[at']) /\ S[at'] = S[e + 1]
    <3>1. e + 1 \in 1 .. Len(prog) + 1
      BY <1>1, <2>2
    <3> QED
      BY <1>6, <2>1, <2>2, <3>1
  <2>7. defers' = Reverse(S[at'])
    BY <1>2, <2>1, <2>4, <2>5, <2>6, ReverseAppend
  <2>8. Placed'
    <3> DEFINE T == {x \in 1 .. Len(prog) : prog[x].op = "defer"}
    <3>1. at \in T /\ defers \in Seq(T)
      BY <2>1 DEF Placed
    <3> HIDE DEF T
    <3>2. <<at>> \o defers \in Seq(T)
      BY <3>1
    <3> QED
      BY <1>4, <2>1, <3>2 DEF Placed, T
  <2> QED
    BY <2>6, <2>7, <2>8
<1>10. CASE DoTest(b)
  <2>1. /\ at \in 1 .. Len(prog) /\ prog[at].op \in Tests /\ defers' = defers
        /\ prog[at].op \notin Terminators \cup {"defer"}
        /\ at' = IF b THEN Settle[at + 1] ELSE Skipped
    BY <1>3, <1>10 DEF DoTest, Tests, Loops, Terminators
  <2>2. CASE at' = Settle[at + 1]
    BY <1>7, <2>1, <2>2
  <2>3. CASE at' = Skipped
    <3>1. PICK h \in 1 .. Len(prog), m \in 1 .. Len(prog) : SkipsTo(h, m)
      BY <2>1, SkippedIs
    <3>2. prog[h].op \in Openers \ {"defer"} /\ h <= at /\ at <= EndIn(prog, h)
      BY <3>1, OpKinds DEF SkipsTo, Loops
    <3>3. ~Deferred(prog, h) /\ h \notin D
      <4>1. CASE h = at
        BY <1>2, <4>1
      <4>2. CASE h # at
        <5>1. prog[at].op = "case" /\ prog[at].head = h /\ h < at
          BY <3>1, <4>2 DEF SkipsTo
        <5> QED
          BY <1>1, <1>2, <1>5, <2>1, <3>2, <5>1, HeadOutside, OpKinds DEF LiveOK
      <4> QED
        BY <4>1, <4>2
    <3>4. /\ m \in 1 .. Len(prog) /\ at < m /\ m <= EndIn(prog, h)
          /\ prog[m].head = h /\ prog[m].op \in Enders
      BY <3>1 DEF SkipsTo
    <3>5. Main(prog, D, m)
      <4>1. ~Deferred(prog, m)
        BY <1>1, <3>2, <3>3, <3>4, PartOutside
      <4>2. m \notin D
        BY <1>5, <3>3, <3>4 DEF LiveOK
      <4> QED
        BY <1>1, <3>4, <4>1, <4>2 DEF Main
    <3>6. S[at] = S[m]
      <4>1. ASSUME NEW j \in 1 .. Len(prog), at <= j, j < m
            PROVE  prog[j].op # "defer"
        <5>1. CASE j = at
          BY <2>1, <5>1
        <5>2. CASE j # at
          <6>1. h < j /\ j <= EndIn(prog, h)
            <7>1. EndIn(prog, h) \in 1 .. Len(prog)
              BY <1>1, <3>2, EndIs
            <7> QED
              BY <2>1, <3>2, <3>4, <4>1, <5>2, <7>1
          <6>2. prog[h].op \in Loops \cup {"if", "switch"}
            BY <3>1 DEF SkipsTo
          <6> QED
            BY <1>1, <1>5, <6>1, <6>2, Flat
        <5> QED
          BY <5>1, <5>2
      <4>2. at \in 1 .. Len(prog) + 1 /\ m \in 1 .. Len(prog) + 1 /\ at <= m
        BY <1>1, <2>1, <3>4
      <4> QED
        BY <1>1, <1>5, <4>1, <4>2, StackSame
    <3>7. CASE at' = m /\ prog[m].op = "case"
      <4>1. Reached(prog, D, S, at', S[at'])
        BY <3>5, <3>7 DEF Reached
      <4> QED
        BY <1>2, <1>4, <2>1, <3>6, <3>7, <4>1 DEF Placed
    <3>8. CASE at' = Settle[m + 1]
      <4>1. prog[m].op \notin Terminators \cup {"defer"}
        BY <3>4 DEF Enders, Terminators
      <4>2. Main(prog, D, m + 1) /\ S[m + 1] = S[m]
        BY <3>4, <3>5, <4>1, NextMain
      <4>3. m + 1 \in 1 .. Len(prog) + 1
        BY <1>1, <3>4
      <4>4. Reached(prog, D, S, at', S[at']) /\ S[at'] = S[m + 1]
        BY <1>6, <3>8, <4>2, <4>3
      <4> QED
        BY <1>2, <1>4, <2>1, <3>6, <4>2, <4>4 DEF Placed
    <3> QED
      BY <2>3, <3>1, <3>7, <3>8 DEF SkipsTo
  <2> QED
    BY <2>1, <2>2, <2>3
<1>11. CASE DoLeave
  <2>1. defers # <<>> /\ at' = Settle[Head(defers) + 1] /\ defers' = Tail(defers)
    BY <1>11 DEF DoLeave
  <2> QED
    BY <1>4, <2>1, LeftOK DEF Placed
<1> QED
  BY <1>8, <1>9, <1>10, <1>11 DEF Do

-----------------------------------------------------------------------------
LEMMA NatKept ==
  ASSUME BodyInv, MaxLen \in Nat, NatInv, [Next]_vars
  PROVE  NatInv'
<1>1. CASE Writes
  <2>1. phase = "writing"
    BY <1>1 DEF Writes, Statement, Variable, Opening, Branch, Ending,
                Write, WriteVar, WriteOpen, WriteNext, WriteEnd, Writing
  <2> QED
    BY <1>1, <2>1, DefersWritten DEF NatInv
<1>2. CASE Complete
  <2>1. phase = "writing" /\ phase' = "running"
    BY <1>2 DEF Complete, Start
  <2>2. NatShape' /\ \E D, S : NatRun(D, S)'
    BY <1>2, <2>1, RunStarts DEF NatInv
  <2> QED
    BY <2>1, <2>2 DEF NatInv
<1>3. CASE Unseen \/ UNCHANGED vars
  <2>1. UNCHANGED <<phase, prog, blocks, at, defers, nat>>
    BY <1>3 DEF Unseen, vars, bodyVars, nativeVars
  <2> QED
    BY <2>1 DEF NatInv, NatShape, WrittenDefers, NatRun, Placed, InMain
<1>4. ASSUME NEW b \in BOOLEAN, Execute(b)
      PROVE  NatInv'
  <2>1. Do(b) /\ phase = "running" /\ prog' = prog /\ nat' = nat
    BY <1>4 DEF Execute, Do, Text, NativeStep
  <2>2. PICK D, S : NatRun(D, S)
    BY <2>1 DEF NatInv
  <2>3. phase' # "writing"
    BY <2>1 DEF Do, DoPlain, DoDefer, DoTest, DoLeave
  <2>4. ASSUME phase' = "running", Plain(prog)
        PROVE  /\ Placed'
               /\ \/ Deferred(prog, at')
                  \/ Reached(prog, D, S, at', S[at']) /\ defers' = Reverse(S[at'])
    <3>1. Placed /\ (Deferred(prog, at) \/ InMain(D, S))
      BY <2>2, <2>4 DEF NatRun
    <3>2. Emitted2(prog, blocks, nat, D, S)
      BY <2>1, <2>2, <2>4, RunningFacts DEF NatRun, Emitted2
    <3> QED
      BY <2>1, <2>4, <3>1, <3>2, RunInside, RunMain
  <2>5. phase' = "running" => NatRun(D, S)'
    BY <2>1, <2>2, <2>4 DEF NatRun, InMain
  <2>6. NatShape'
    BY <2>1 DEF NatInv, NatShape
  <2> QED
    BY <2>3, <2>5, <2>6 DEF NatInv
<1> QED
  BY <1>1, <1>2, <1>3, <1>4 DEF Next, Writes

LEMMA NatDefers ==
  ASSUME BodyInv, MaxLen \in Nat, NatInv
  PROVE  NativeDefers
<1> SUFFICES ASSUME Running, Op \in {"return", "end"}, InFunction
             PROVE  \/ \E n \in DOMAIN prog : prog[n].op = "defer" /\ prog[n].path \cap Conditional # {}
                    \/ nat.inlined[at] = defers
  BY DEF NativeDefers
<1>1. phase = "running"
  BY DEF Running
<1>2. PICK D, S : NatRun(D, S)
  BY <1>1 DEF NatInv
<1>3. /\ Complete2(prog, blocks) /\ Len(prog) \in Nat /\ DOMAIN prog = 1 .. Len(prog)
  BY <1>1, RunningFacts
<1>4. Conditional = Branches(prog)
  BY <1>3 DEF Conditional, Branches
<1>5. CASE ~Plain(prog)
  BY <1>3, <1>4, <1>5 DEF Plain
<1>6. CASE Plain(prog) /\ Deferred(prog, at)
  <2>1. PICK d \in 1 .. Len(prog) : DeferredBy(prog, d, at)
    BY <1>6 DEF Deferred
  <2>2. EndIn(prog, d) \in 1 .. Len(prog) /\ prog[d].op = "defer"
    BY <1>3, <2>1, DeferEnds
  <2>3. at \in 1 .. Len(prog) /\ ~(at > Len(prog))
    BY <1>3, <2>1, <2>2 DEF DeferredBy
  <2>4. d \in prog[at].path \ {0}
    BY <1>3, <2>1, <2>3, DeferAround
  <2> QED
    BY <2>2, <2>3, <2>4 DEF InFunction
<1>7. CASE Plain(prog) /\ InMain(D, S)
  <2>1. /\ at \in 1 .. Len(prog) + 1 /\ at \notin D /\ defers = Reverse(S[at])
        /\ (at \in 1 .. Len(prog) => prog[at].op # "end")
    BY <1>7 DEF InMain, Reached, Main
  <2>2. CASE at = Len(prog) + 1
    BY <1>2, <2>1, <2>2 DEF NatRun
  <2>3. CASE at # Len(prog) + 1
    <3>1. at \in 1 .. Len(prog) /\ ~(at > Len(prog))
      BY <1>3, <2>1, <2>3
    <3>2. prog[at].op = "return"
      BY <2>1, <3>1 DEF Op
    <3> QED
      BY <1>2, <2>1, <3>1, <3>2 DEF NatRun, StackOK
  <2> QED
    BY <2>2, <2>3
<1> QED
  BY <1>2, <1>5, <1>6, <1>7 DEF NatRun

(* Machine code that leaves a function runs the deferred blocks that are   *)
(* due, the last first (emitDeferredBodies), whatever the body, if none of *)
(* them stands in a branch or a loop.                                      *)
THEOREM DueDefersRun == Spec => []NativeDefers
<1> DEFINE I == BodyInv /\ NatInv
<1>1. MaxLen \in Nat
  BY BodiesAssumption
<1>2. ConformanceInit => I
  <2> SUFFICES ASSUME ConformanceInit
               PROVE  I
    OBVIOUS
  <2>1. phase = "writing" /\ Init
    BY DEF ConformanceInit, Init
  <2> QED
    BY <1>1, <2>1, BodyInitially, DefersInitially DEF NatInv
<1>3. I /\ [Next]_vars => I'
  BY <1>1, BodyKept, NatKept
<1>4. I => NativeDefers
  BY <1>1, NatDefers
<1> QED
  BY <1>2, <1>3, <1>4, PTL DEF Spec

-----------------------------------------------------------------------------
(* Sequences of any elements, and code.                                    *)

LEMMA SeqFacts ==
  ASSUME NEW s, IsSeq(s)
  PROVE  /\ Len(s) \in Nat /\ DOMAIN s = 1 .. Len(s)
         /\ s = <<>> <=> Len(s) = 0
<1>1. PICK S : s \in Seq(S)
  BY DEF IsSeq
<1> QED
  BY <1>1, LenProperties, EmptySeq

LEMMA SeqAppend ==
  ASSUME NEW s, IsSeq(s), NEW x
  PROVE  /\ IsSeq(Append(s, x)) /\ Len(Append(s, x)) = Len(s) + 1
         /\ \A n \in 1 .. Len(s) : Append(s, x)[n] = s[n]
         /\ Append(s, x)[Len(s) + 1] = x
<1>1. PICK S : s \in Seq(S)
  BY DEF IsSeq
<1>2. s \in Seq(S \cup {x}) /\ x \in S \cup {x}
  BY <1>1, SeqMonotonic
<1> HIDE <1>1
<1>3. IsSeq(Append(s, x))
  BY <1>2, AppendProperties DEF IsSeq
<1> QED
  BY <1>2, <1>3, AppendProperties

LEMMA SeqFront ==
  ASSUME NEW s, IsSeq(s), NEW m \in Nat, m <= Len(s)
  PROVE  /\ IsSeq(SubSeq(s, 1, m)) /\ Len(SubSeq(s, 1, m)) = m
         /\ \A n \in 1 .. m : SubSeq(s, 1, m)[n] = s[n]
<1>1. PICK S : s \in Seq(S)
  BY DEF IsSeq
<1>2. Len(s) \in Nat /\ \A i \in 1 .. m : s[i] \in S
  BY <1>1, LenProperties, ElementOfSeq
<1>3. /\ SubSeq(s, 1, m) \in Seq(S) /\ Len(SubSeq(s, 1, m)) = IF 1 <= m THEN m - 1 + 1 ELSE 0
      /\ \A i \in 1 .. m - 1 + 1 : SubSeq(s, 1, m)[i] = s[1 + i - 1]
  BY <1>2, SubSeqProperties
<1>4. m - 1 + 1 = m /\ \A i \in 1 .. m : 1 + i - 1 = i
  OBVIOUS
<1>5. IsSeq(SubSeq(s, 1, m))
  BY <1>3 DEF IsSeq
<1> QED
  BY <1>3, <1>4, <1>5

LEMMA SeqFill ==
  ASSUME NEW s, IsSeq(s), NEW x, NEW m \in Nat
  PROVE  /\ IsSeq(Filled(s, x, m)) /\ Len(Filled(s, x, m)) = Len(s) + m
         /\ \A n \in 1 .. Len(s) : Filled(s, x, m)[n] = s[n]
         /\ \A n \in Len(s) + 1 .. Len(s) + m : Filled(s, x, m)[n] = x
<1> DEFINE t == [i \in 1 .. m |-> x]
<1>1. PICK S : s \in Seq(S)
  BY DEF IsSeq
<1>2. s \in Seq(S \cup {x})
  BY <1>1, SeqMonotonic
<1>3. t \in Seq(S \cup {x}) /\ Len(t) = m /\ \A i \in 1 .. m : t[i] = x
  OBVIOUS
<1> HIDE DEF t
<1>4. /\ s \o t \in Seq(S \cup {x}) /\ Len(s \o t) = Len(s) + Len(t)
      /\ \A i \in 1 .. Len(s) + Len(t) : (s \o t)[i] = IF i <= Len(s) THEN s[i] ELSE t[i - Len(s)]
  BY <1>2, <1>3, ConcatProperties
<1>5. Len(s) \in Nat
  BY <1>2, LenProperties
<1>6. IsSeq(s \o t)
  BY <1>4 DEF IsSeq
<1>7. /\ \A n \in 1 .. Len(s) : (s \o t)[n] = s[n]
      /\ \A n \in Len(s) + 1 .. Len(s) + m : (s \o t)[n] = x
  <2>1. ASSUME NEW n \in 1 .. Len(s)
        PROVE  (s \o t)[n] = s[n]
    BY <1>3, <1>4, <1>5
  <2>2. ASSUME NEW n \in Len(s) + 1 .. Len(s) + m
        PROVE  (s \o t)[n] = x
    <3>1. n \in 1 .. Len(s) + Len(t) /\ ~(n <= Len(s)) /\ n - Len(s) \in 1 .. m
      BY <1>3, <1>5
    <3> QED
      BY <1>3, <1>4, <3>1
  <2> QED
    BY <2>1, <2>2
<1> QED
  BY <1>3, <1>4, <1>6, <1>7 DEF t, Filled

LEMMA CodeAppend ==
  ASSUME NEW c, IsCode(c), NEW i, i = Instr(i.op, i.arg, i.of), i.of \in Nat
  PROVE  IsCode(Append(c, i))
<1>1. /\ IsSeq(Append(c, i)) /\ Len(Append(c, i)) = Len(c) + 1
      /\ \A n \in 1 .. Len(c) : Append(c, i)[n] = c[n]
      /\ Append(c, i)[Len(c) + 1] = i /\ Len(c) \in Nat
  BY SeqAppend, SeqFacts DEF IsCode
<1>2. \A n \in 1 .. Len(c) + 1 : n \in 1 .. Len(c) \/ n = Len(c) + 1
  BY <1>1
<1> QED
  BY <1>1, <1>2 DEF IsCode

LEMMA CodePopped ==
  ASSUME NEW c, IsCode(c), NEW m \in Nat
  PROVE  /\ IsCode(Popped(c, m)) /\ Len(Popped(c, m)) = Len(c) + m
         /\ \A n \in 1 .. Len(c) : Popped(c, m)[n] = c[n]
         /\ \A n \in Len(c) + 1 .. Len(c) + m : Popped(c, m)[n] = Instr("POP", 0, 0)
<1>1. Len(c) \in Nat /\ IsSeq(c)
  BY SeqFacts DEF IsCode
<1>2. /\ IsSeq(Popped(c, m)) /\ Len(Popped(c, m)) = Len(c) + m
      /\ \A n \in 1 .. Len(c) : Popped(c, m)[n] = c[n]
      /\ \A n \in Len(c) + 1 .. Len(c) + m : Popped(c, m)[n] = Instr("POP", 0, 0)
  BY <1>1, SeqFill DEF Popped
<1>3. \A n \in 1 .. Len(c) + m : n \in 1 .. Len(c) \/ n \in Len(c) + 1 .. Len(c) + m
  BY <1>1
<1>4. LET i == Instr("POP", 0, 0) IN i = Instr(i.op, i.arg, i.of) /\ i.of \in Nat
  BY DEF Instr
<1> QED
  BY <1>2, <1>3, <1>4 DEF IsCode

LEMMA CodePatched ==
  ASSUME NEW c, IsCode(c), NEW jumps
  PROVE  /\ IsCode(Patched(c, jumps)) /\ Len(Patched(c, jumps)) = Len(c)
         /\ \A n \in 1 .. Len(c) :
              /\ Patched(c, jumps)[n].op = c[n].op /\ Patched(c, jumps)[n].of = c[n].of
              /\ Patched(c, jumps)[n].arg = IF n \in jumps THEN Len(c) + 1 ELSE c[n].arg
<1> DEFINE d == Patched(c, jumps)
           i(n) == IF n \in jumps THEN Instr(c[n].op, Len(c) + 1, c[n].of) ELSE c[n]
<1>1. Len(c) \in Nat /\ DOMAIN c = 1 .. Len(c)
  BY SeqFacts DEF IsCode
<1>2. \A n \in 1 .. Len(c) : c[n] = Instr(c[n].op, c[n].arg, c[n].of) /\ c[n].of \in Nat
  BY DEF IsCode
<1>3. \A n \in 1 .. Len(c) : d[n] = i(n)
  <2> SUFFICES ASSUME NEW n \in 1 .. Len(c)
               PROVE  d[n] = i(n)
    OBVIOUS
  <2>1. d[n] = IF n \in jumps THEN [c[n] EXCEPT !.arg = Len(c) + 1] ELSE c[n]
    BY <1>1 DEF Patched
  <2>2. c[n] = [op |-> c[n].op, arg |-> c[n].arg, of |-> c[n].of]
    BY <1>2 DEF Instr
  <2>3. [c[n] EXCEPT !.arg = Len(c) + 1] = [op |-> c[n].op, arg |-> Len(c) + 1, of |-> c[n].of]
    BY <2>2
  <2> QED
    BY <2>1, <2>3 DEF Instr
<1>4. d \in Seq({d[n] : n \in 1 .. Len(c)}) /\ Len(d) = Len(c)
  <2>1. DOMAIN d = 1 .. Len(c) /\ d = [n \in 1 .. Len(c) |-> d[n]]
    BY <1>1 DEF Patched
  <2> HIDE DEF d
  <2> DEFINE T == {d[n] : n \in 1 .. Len(c)}
             e == [n \in 1 .. Len(c) |-> d[n]]
  <2>2. \A n \in 1 .. Len(c) : d[n] \in T
    OBVIOUS
  <2> HIDE DEF T
  <2>3. e \in Seq(T) /\ Len(e) = Len(c)
    BY <1>1, <2>2
  <2> QED
    BY <2>1, <2>3 DEF T
<1>5. IsSeq(d)
  BY <1>4 DEF IsSeq
<1> HIDE DEF d
<1>6. ASSUME NEW n \in 1 .. Len(c)
      PROVE  /\ d[n].op = c[n].op /\ d[n].of = c[n].of
             /\ d[n].arg = IF n \in jumps THEN Len(c) + 1 ELSE c[n].arg
             /\ d[n] = Instr(d[n].op, d[n].arg, d[n].of)
  <2>1. d[n] = i(n) /\ c[n] = Instr(c[n].op, c[n].arg, c[n].of)
    BY <1>2, <1>3
  <2>2. CASE n \in jumps
    BY <2>1, <2>2 DEF Instr
  <2>3. CASE n \notin jumps
    BY <2>1, <2>3
  <2> QED
    BY <2>2, <2>3
<1>7. IsCode(d)
  BY <1>2, <1>4, <1>5, <1>6 DEF IsCode
<1> QED
  BY <1>4, <1>6, <1>7 DEF d

-----------------------------------------------------------------------------
(* The state of the compiler.                                              *)

LEMMA Recode ==
  ASSUME NEW g, GenOK(g), NEW c, IsCode(c)
  PROVE  /\ Recoded(g, [g EXCEPT !.code[g.fn] = c], c)
         /\ SameScope(g, [g EXCEPT !.code[g.fn] = c])
<1> DEFINE g2 == [g EXCEPT !.code[g.fn] = c]
           C == [g.code EXCEPT ![g.fn] = c]
<1>1. g2 = [fn |-> g.fn, code |-> C, depth |-> g.depth, locals |-> g.locals,
            loopStart |-> g.loopStart, continueDest |-> g.continueDest,
            continues |-> g.continues, breaks |-> g.breaks, depths |-> g.depths]
  BY DEF GenOK
<1>2. /\ g.fn \in Places /\ DOMAIN g.code = Places
      /\ \A f \in Places : IsCode(g.code[f])
      /\ IsSeq(g.locals)
  BY DEF GenOK
<1>3. /\ C = [f \in Places |-> C[f]] /\ C[g.fn] = c
      /\ \A f \in Places : f # g.fn => C[f] = g.code[f]
  BY <1>2
<1> HIDE DEF g2, C
<1>4. /\ g2.fn = g.fn /\ g2.code = C /\ g2.depth = g.depth /\ g2.locals = g.locals
      /\ SameLoop(g, g2)
      /\ g2 = [fn |-> g2.fn, code |-> g2.code, depth |-> g2.depth, locals |-> g2.locals,
               loopStart |-> g2.loopStart, continueDest |-> g2.continueDest,
               continues |-> g2.continues, breaks |-> g2.breaks, depths |-> g2.depths]
  BY <1>1 DEF SameLoop
<1>5. \A f \in Places : IsCode(C[f])
  BY <1>2, <1>3
<1>6. GenOK(g2)
  BY <1>2, <1>3, <1>4, <1>5 DEF GenOK
<1> QED
  BY <1>3, <1>4, <1>6 DEF Recoded, SameScope, g2

-----------------------------------------------------------------------------
(* Where control goes.  R says of each place of the text which statement   *)
(* does something next when control is there (to), when it has left the    *)
(* statement whose head is there (past), and when the test that is there   *)
(* fails (skip).  Each instruction is annotated with the statement that    *)
(* does something next when the machine is there.                          *)

LEMMA GenFacts ==
  ASSUME NEW g, GenOK(g)
  PROVE  /\ g.fn \in Places /\ IsCode(g.code[g.fn]) /\ Size(g) \in Nat
         /\ IsSeq(g.locals) /\ Len(g.locals) \in Nat
<1>1. g.fn \in Places /\ IsCode(g.code[g.fn]) /\ IsSeq(g.locals)
  BY DEF GenOK
<1>2. IsSeq(g.code[g.fn])
  BY <1>1 DEF IsCode
<1> QED
  BY <1>1, <1>2, SeqFacts DEF Size

LEMMA FitsFacts ==
  ASSUME NEW R, NEW pr, NEW c, NEW A, Fits(R, pr, c, A)
  PROVE  /\ Len(c) \in Nat /\ Len(A) = Len(c) + 1 /\ IsSeq(A)
         /\ \A n \in 1 .. Len(c) + 1 : A[n] \in Int
         /\ \A n \in 1 .. Len(c) : n \in 1 .. Len(c) + 1 /\ n + 1 \in 1 .. Len(c) + 1
<1>1. IsSeq(c) /\ A \in Seq(Int) /\ Len(A) = Len(c) + 1
  BY DEF Fits, IsCode
<1>2. Len(c) \in Nat
  BY <1>1, SeqFacts
<1>3. \A n \in 1 .. Len(A) : A[n] \in Int
  BY <1>1, ElementOfSeq
<1>4. IsSeq(A)
  BY <1>1 DEF IsSeq
<1> QED
  BY <1>1, <1>2, <1>3, <1>4

LEMMA GrownSame ==
  ASSUME NEW c, NEW A, Len(c) \in Nat
  PROVE  Grown(c, A, c, A)
BY DEF Grown

LEMMA GrownTrans ==
  ASSUME NEW c, NEW A, NEW c2, NEW A2, NEW c3, NEW A3, Len(c) \in Nat, Len(c2) \in Nat, Len(c3) \in Nat,
         Grown(c, A, c2, A2), Grown(c2, A2, c3, A3)
  PROVE  Grown(c, A, c3, A3)
<1>1. /\ \A n \in 1 .. Len(c) : n \in 1 .. Len(c2)
      /\ \A n \in 1 .. Len(c) + 1 : n \in 1 .. Len(c2) + 1
  BY DEF Grown
<1> QED
  BY <1>1 DEF Grown

LEMMA LinkTrans ==
  ASSUME NEW g, NEW A, NEW g2, NEW A2, NEW g3, NEW A3, GenOK(g), GenOK(g2), GenOK(g3),
         Link(g, A, g2, A2), Link(g2, A2, g3, A3)
  PROVE  Link(g, A, g3, A3)
<1>1. Size(g) \in Nat /\ Size(g2) \in Nat /\ Size(g3) \in Nat
  BY GenFacts
<1>2. g2.fn = g.fn /\ g3.fn = g.fn
  BY DEF Link
<1>3. /\ Grown(g.code[g.fn], A, g2.code[g.fn], A2) /\ Grown(g2.code[g.fn], A2, g3.code[g.fn], A3)
      /\ Len(g.code[g.fn]) \in Nat /\ Len(g2.code[g.fn]) \in Nat /\ Len(g3.code[g.fn]) \in Nat
  BY <1>1, <1>2 DEF Link, Size
<1>4. Grown(g.code[g.fn], A, g3.code[g.fn], A3)
  BY <1>3, GrownTrans
<1> QED
  BY <1>2, <1>4 DEF Link

LEMMA LinkSame ==
  ASSUME NEW g, NEW A, GenOK(g), NEW g2, g2.fn = g.fn, g2.code = g.code
  PROVE  Link(g, A, g2, A)
BY GenFacts, GrownSame DEF Link, Size

-----------------------------------------------------------------------------
(* The helpers of the compiler keep the annotations.                       *)

LEMMA FitsEmit ==
  ASSUME NEW R, NEW pr, NEW c, NEW A, Fits(R, pr, c, A), NEW i, NEW w \in Int,
         i = Instr(i.op, i.arg, i.of), i.of \in Nat,
         FlowOK(R, pr, i, A[Len(c) + 1], w), JumpOK(R, i, A[Len(c) + 1], A)
  PROVE  /\ Fits(R, pr, Append(c, i), Append(A, w))
         /\ Grown(c, A, Append(c, i), Append(A, w))
         /\ Append(A, w)[Len(c) + 2] = w
<1> DEFINE d == Append(c, i)
           B == Append(A, w)
           n == Len(c)
<1>1. /\ n \in Nat /\ Len(A) = n + 1 /\ IsCode(c) /\ IsSeq(c) /\ A \in Seq(Int)
      /\ \A k \in 1 .. n : k \in 1 .. n + 1 /\ k + 1 \in 1 .. n + 1
  BY FitsFacts DEF Fits, IsCode
<1>2. IsCode(d)
  BY <1>1, CodeAppend
<1>3. Len(d) = n + 1 /\ (\A k \in 1 .. n : d[k] = c[k]) /\ d[n + 1] = i
  BY <1>1, SeqAppend
<1>4. /\ B \in Seq(Int) /\ Len(B) = n + 2 /\ (\A k \in 1 .. n + 1 : B[k] = A[k]) /\ B[n + 2] = w
  BY <1>1, AppendProperties
<1> HIDE DEF d, B
<1>5. ASSUME NEW k \in 1 .. n + 1
      PROVE  FlowOK(R, pr, d[k], B[k], B[k + 1]) /\ JumpOK(R, d[k], B[k], B)
  <2>1. CASE k \in 1 .. n
    <3>1. d[k] = c[k] /\ B[k] = A[k] /\ B[k + 1] = A[k + 1]
      BY <1>1, <1>3, <1>4, <2>1
    <3>2. FlowOK(R, pr, c[k], A[k], A[k + 1]) /\ JumpOK(R, c[k], A[k], A)
      BY <2>1 DEF Fits
    <3>3. JumpOK(R, c[k], A[k], B)
      <4>1. ASSUME NEW t \in 1 .. Len(A)
            PROVE  t \in 1 .. Len(B) /\ B[t] = A[t]
        BY <1>1, <1>4
      <4> QED
        BY <3>2, <4>1 DEF JumpOK
    <3> QED
      BY <3>1, <3>2, <3>3
  <2>2. CASE k = n + 1
    <3>1. d[k] = i /\ B[k] = A[n + 1] /\ B[k + 1] = w
      BY <1>1, <1>3, <1>4, <2>2
    <3>2. JumpOK(R, i, A[n + 1], B)
      <4>1. ASSUME NEW t \in 1 .. Len(A)
            PROVE  t \in 1 .. Len(B) /\ B[t] = A[t]
        BY <1>1, <1>4
      <4> QED
        BY <4>1 DEF JumpOK
    <3> QED
      BY <3>1, <3>2
  <2> QED
    BY <1>1, <2>1, <2>2
<1>6. Fits(R, pr, d, B)
  BY <1>2, <1>3, <1>4, <1>5 DEF Fits
<1>7. Grown(c, A, d, B)
  BY <1>1, <1>3, <1>4 DEF Grown
<1> QED
  BY <1>4, <1>6, <1>7 DEF d, B

LEMMA EmitCoded ==
  ASSUME NEW R, NEW pr, NEW g, NEW A, NEW v, NEW U, Coded(R, pr, g, A, v, U),
         NEW op, NEW arg, NEW of \in Nat, NEW w \in Int,
         FlowOK(R, pr, Instr(op, arg, of), v, w), TargetOK(g, A, v, op, arg)
  PROVE  EmittedAs(R, pr, g, A, v, U, op, arg, of, w, Emit(g, op, arg, of), Append(A, w))
<1> DEFINE c == g.code[g.fn]
           i == Instr(op, arg, of)
           d == Append(c, i)
           B == Append(A, w)
           g2 == Emit(g, op, arg, of)
<1>1. /\ GenOK(g) /\ Fits(R, pr, c, A) /\ Len(c) \in Nat /\ A[Len(c) + 1] = v /\ Unpatched(c) \subseteq U
      /\ g.fn \in Places /\ IsCode(c) /\ IsSeq(c) /\ Size(g) = Len(c) /\ Len(A) = Len(c) + 1
  BY GenFacts, FitsFacts, SMTT(30) DEF Coded, Size, IsCode
<1>2. i.op = op /\ i.arg = arg /\ i.of = of /\ i = Instr(i.op, i.arg, i.of)
  BY DEF Instr
<1>3. JumpOK(R, i, A[Len(c) + 1], A)
  BY <1>1, <1>2 DEF JumpOK, TargetOK
<1>4. Fits(R, pr, d, B) /\ Grown(c, A, d, B) /\ B[Len(c) + 2] = w
  <2>1. FlowOK(R, pr, i, A[Len(c) + 1], w) /\ i.of \in Nat
    BY <1>1, <1>2
  <2> HIDE DEF c, i
  <2> QED
    BY <1>1, <1>2, <1>3, <2>1, FitsEmit
<1>5. IsCode(d) /\ Len(d) = Len(c) + 1 /\ d[Len(c) + 1] = i /\ \A k \in 1 .. Len(c) : d[k] = c[k]
  BY <1>1, <1>2, CodeAppend, SeqAppend, SMTT(30)
<1>6. g2 = [g EXCEPT !.code[g.fn] = d]
  BY ZenonT(60) DEF Emit
<1>7. Recoded(g, g2, d) /\ SameScope(g, g2)
  <2> HIDE DEF d, g2
  <2> QED
    BY <1>1, <1>5, <1>6, Recode
<1>8. GenOK(g2) /\ g2.fn = g.fn /\ g2.code[g.fn] = d /\ SameLoop(g, g2)
  BY <1>7 DEF Recoded
<1>9. Unpatched(d) \subseteq IF op \in {"JMP", "TEST"} /\ arg = 0 THEN U \cup {Size(g) + 1} ELSE U
  <2>1. \A k \in Unpatched(d) : k \in 1 .. Len(c) \/ k = Len(c) + 1
    BY <1>1, <1>5 DEF Unpatched
  <2>2. \A k \in Unpatched(d) : k \in 1 .. Len(c) => k \in Unpatched(c)
    BY <1>1, <1>5 DEF Unpatched
  <2>3. Len(c) + 1 \in Unpatched(d) => op \in {"JMP", "TEST"} /\ arg = 0
    BY <1>2, <1>5 DEF Unpatched
  <2> QED
    BY <1>1, <2>1, <2>2, <2>3
<1>10. Size(g2) = Size(g) + 1 /\ B[Len(c) + 1] = v
  <2>1. Len(c) + 1 \in 1 .. Len(c) + 1
    BY <1>1
  <2>2. B[Len(c) + 1] = A[Len(c) + 1]
    BY <1>4, <2>1 DEF Grown
  <2> QED
    BY <1>1, <1>5, <1>8, <2>2 DEF Size
<1>11. Coded(R, pr, g2, B, w,
             IF op \in {"JMP", "TEST"} /\ arg = 0 THEN U \cup {Size(g) + 1} ELSE U)
  <2>1. Size(g2) + 1 = Len(c) + 2
    BY <1>1, <1>10
  <2> HIDE DEF g2, B, d
  <2> QED
    BY <1>4, <1>8, <1>9, <2>1 DEF Coded
<1>12. Link(g, A, g2, B)
  BY <1>4, <1>7, <1>8 DEF Link, Recoded
<1> QED
  BY <1>1, <1>5, <1>7, <1>8, <1>10, <1>11, <1>12 DEF EmittedAs

LEMMA FitsPop ==
  ASSUME NEW R, NEW pr, NEW c, NEW A, Fits(R, pr, c, A), NEW m \in Nat
  PROVE  FitsAfter(R, pr, c, A, Popped(c, m))
<1> DEFINE n == Len(c)
           v == A[n + 1]
           d == Popped(c, m)
           B == Filled(A, v, m)
<1>1. /\ n \in Nat /\ IsCode(c) /\ IsSeq(c) /\ Len(A) = n + 1 /\ IsSeq(A) /\ A \in Seq(Int)
      /\ v \in Int
      /\ \A k \in 1 .. n : k \in 1 .. n + 1 /\ k + 1 \in 1 .. n + 1
  <2>1. Len(c) \in Nat /\ Len(A) = Len(c) + 1 /\ IsSeq(A) /\ (\A k \in 1 .. Len(c) + 1 : A[k] \in Int)
    BY FitsFacts
  <2>2. Len(c) + 1 \in 1 .. Len(c) + 1
    BY <2>1
  <2> QED
    BY <2>1, <2>2 DEF Fits, IsCode
<1> HIDE DEF v
<1>2. /\ IsCode(d) /\ Len(d) = n + m /\ (\A k \in 1 .. n : d[k] = c[k])
      /\ \A k \in n + 1 .. n + m : d[k] = Instr("POP", 0, 0)
  BY <1>1, CodePopped
<1>3. /\ Len(B) = Len(A) + m /\ (\A k \in 1 .. Len(A) : B[k] = A[k])
      /\ \A k \in Len(A) + 1 .. Len(A) + m : B[k] = v
  BY <1>1, SeqFill
<1>4. B \in Seq(Int)
  <2>1. [i \in 1 .. m |-> v] \in Seq(Int)
    BY <1>1
  <2> QED
    BY <1>1, <2>1, ConcatProperties DEF Filled
<1> HIDE DEF d, B
<1>5. A[n + 1] = v /\ n + 1 \in 1 .. n + 1 /\ B[n + 1] = v
  BY <1>1, <1>3 DEF v
<1>6. ASSUME NEW k \in n + 1 .. n + 1 + m
      PROVE  B[k] = v
  <2>1. k = n + 1 \/ k \in Len(A) + 1 .. Len(A) + m
    BY <1>1
  <2> QED
    BY <1>3, <1>5, <2>1
<1>7. ASSUME NEW k \in 1 .. n + m
      PROVE  FlowOK(R, pr, d[k], B[k], B[k + 1]) /\ JumpOK(R, d[k], B[k], B)
  <2>1. CASE k \in 1 .. n
    <3>1. d[k] = c[k] /\ B[k] = A[k] /\ B[k + 1] = A[k + 1]
      BY <1>1, <1>2, <1>3, <2>1
    <3>2. FlowOK(R, pr, c[k], A[k], A[k + 1]) /\ JumpOK(R, c[k], A[k], A)
      BY <2>1 DEF Fits
    <3>3. JumpOK(R, c[k], A[k], B)
      <4>1. ASSUME NEW t \in 1 .. Len(A)
            PROVE  t \in 1 .. Len(B) /\ B[t] = A[t]
        BY <1>1, <1>3
      <4> QED
        BY <3>2, <4>1 DEF JumpOK
    <3> QED
      BY <3>1, <3>2, <3>3
  <2>2. CASE k \in n + 1 .. n + m
    <3>1. d[k] = Instr("POP", 0, 0)
      BY <1>2, <2>2
    <3>2. k \in n + 1 .. n + 1 + m /\ k + 1 \in n + 1 .. n + 1 + m
      BY <1>1, <2>2
    <3>3. B[k] = v /\ B[k + 1] = v
      BY <1>6, <3>2
    <3> QED
      BY <3>1, <3>3 DEF FlowOK, JumpOK, Instr
  <2> QED
    BY <1>1, <2>1, <2>2
<1>8. Len(B) = Len(d) + 1
  BY <1>1, <1>2, <1>3
<1>9. Fits(R, pr, d, B)
  BY <1>2, <1>4, <1>7, <1>8 DEF Fits
<1>10. Grown(c, A, d, B)
  BY <1>1, <1>2, <1>3 DEF Grown
<1>11. B[Len(d) + 1] = A[n + 1]
  <2>1. Len(d) + 1 \in n + 1 .. n + 1 + m
    BY <1>1, <1>2
  <2> QED
    BY <1>5, <1>6, <2>1
<1>12. FitsAfter(R, pr, c, A, d)
  BY <1>9, <1>10, <1>11 DEF FitsAfter
<1> QED
  BY <1>12 DEF d

LEMMA PopsCoded ==
  ASSUME NEW R, NEW pr, NEW g, NEW A, NEW v, NEW U, Coded(R, pr, g, A, v, U), NEW m \in Nat
  PROVE  /\ \E B : Comes(R, pr, g, A, Pops(g, m), B, v, U)
         /\ SameScope(g, Pops(g, m)) /\ Size(Pops(g, m)) = Size(g) + m
<1>1. PICK c : c = g.code[g.fn]
  OBVIOUS
<1>2. PICK d : d = Popped(c, m)
  OBVIOUS
<1>3. PICK g2 : g2 = Pops(g, m)
  OBVIOUS
<1>4. /\ GenOK(g) /\ Fits(R, pr, c, A) /\ A[Len(c) + 1] = v /\ Unpatched(c) \subseteq U
      /\ Size(g) = Len(c) /\ IsCode(c) /\ Len(c) \in Nat
  BY <1>1, GenFacts DEF Coded, Size
<1>5. PICK B : Fits(R, pr, d, B) /\ Grown(c, A, d, B) /\ B[Len(c) + m + 1] = v
  <2>1. FitsAfter(R, pr, c, A, d)
    BY <1>2, <1>4, FitsPop
  <2>2. Len(d) = Len(c) + m
    BY <1>2, <1>4, CodePopped
  <2> QED
    BY <1>4, <2>1, <2>2 DEF FitsAfter
<1>6. /\ IsCode(d) /\ Len(d) = Len(c) + m /\ (\A k \in 1 .. Len(c) : d[k] = c[k])
      /\ \A k \in Len(c) + 1 .. Len(c) + m : d[k] = Instr("POP", 0, 0)
  BY <1>2, <1>4, CodePopped
<1>7. g2 = [g EXCEPT !.code[g.fn] = d]
  BY <1>1, <1>2, <1>3 DEF Pops, Popped, Filled
<1>8. Recoded(g, g2, d) /\ SameScope(g, g2)
  BY <1>4, <1>6, <1>7, Recode
<1>9. GenOK(g2) /\ g2.fn = g.fn /\ g2.code[g.fn] = d /\ SameLoop(g, g2) /\ Size(g2) = Len(c) + m
  BY <1>6, <1>8 DEF Recoded, Size
<1>10. Unpatched(d) \subseteq U
  <2>1. \A k \in Unpatched(d) : k \in 1 .. Len(c) + m
    BY <1>6 DEF Unpatched
  <2>2. \A k \in Len(c) + 1 .. Len(c) + m : k \notin Unpatched(d)
    BY <1>6 DEF Unpatched, Instr
  <2>3. \A k \in Unpatched(d) : k \in 1 .. Len(c)
    BY <1>4, <2>1, <2>2
  <2>4. \A k \in 1 .. Len(c) : k \in Unpatched(d) => k \in Unpatched(c)
    BY <1>6 DEF Unpatched
  <2> QED
    BY <1>4, <2>3, <2>4
<1>11. Coded(R, pr, g2, B, v, U)
  BY <1>5, <1>9, <1>10 DEF Coded
<1>12. Link(g, A, g2, B)
  BY <1>1, <1>5, <1>8, <1>9 DEF Link, Recoded
<1> QED
  BY <1>3, <1>4, <1>8, <1>9, <1>11, <1>12 DEF Comes

LEMMA PatchCoded ==
  ASSUME NEW R, NEW pr, NEW g, NEW A, NEW v, NEW U, Coded(R, pr, g, A, v, U), NEW jumps,
         Landing(R, g.code[g.fn], A, jumps, v)
  PROVE  Comes(R, pr, g, A, Patch(g, jumps), A, v, U \ jumps)
         /\ SameScope(g, Patch(g, jumps)) /\ Size(Patch(g, jumps)) = Size(g)
<1>1. PICK c : c = g.code[g.fn]
  OBVIOUS
<1>2. PICK d : d = Patched(c, jumps)
  OBVIOUS
<1>3. PICK g2 : g2 = Patch(g, jumps)
  OBVIOUS
<1>4. PICK n : n = Len(c)
  OBVIOUS
<1>5. /\ GenOK(g) /\ Fits(R, pr, c, A) /\ n \in Nat /\ A[n + 1] = v /\ Unpatched(c) \subseteq U
      /\ IsCode(c) /\ Size(g) = n /\ Len(A) = n + 1 /\ Landing(R, c, A, jumps, v)
  BY <1>1, <1>4, GenFacts, FitsFacts DEF Coded, Size
<1>6. /\ IsCode(d) /\ Len(d) = n
      /\ \A k \in 1 .. n : /\ d[k].op = c[k].op /\ d[k].of = c[k].of
                           /\ d[k].arg = IF k \in jumps THEN n + 1 ELSE c[k].arg
  BY <1>2, <1>4, <1>5, CodePatched
<1>7. g2 = [g EXCEPT !.code[g.fn] = d]
  BY <1>1, <1>2, <1>3 DEF Patch, Patched
<1>8. Recoded(g, g2, d) /\ SameScope(g, g2)
  BY <1>5, <1>6, <1>7, Recode
<1>9. GenOK(g2) /\ g2.fn = g.fn /\ g2.code[g.fn] = d /\ SameLoop(g, g2) /\ Size(g2) = n
  BY <1>6, <1>8 DEF Recoded, Size
<1>10. ASSUME NEW k \in 1 .. n
      PROVE  FlowOK(R, pr, d[k], A[k], A[k + 1]) /\ JumpOK(R, d[k], A[k], A)
  <2>1. FlowOK(R, pr, c[k], A[k], A[k + 1]) /\ JumpOK(R, c[k], A[k], A)
    BY <1>4, <1>5 DEF Fits
  <2>2. CASE k \notin jumps
    <3>1. d[k].arg = c[k].arg /\ d[k].op = c[k].op /\ d[k].of = c[k].of
      BY <1>6, <2>2
    <3> QED
      BY <2>1, <3>1 DEF FlowOK, JumpOK, Does
  <2>3. CASE k \in jumps
    <3>1. d[k].arg = n + 1 /\ d[k].op = c[k].op /\ d[k].of = c[k].of
      BY <1>6, <2>3
    <3>2. /\ c[k].op \in {"JMP", "TEST"}
          /\ c[k].op = "JMP" => A[k] = v
          /\ c[k].op = "TEST" => R.skip[c[k].of] = v
      BY <1>4, <1>5, <2>3 DEF Landing
    <3>3. FlowOK(R, pr, d[k], A[k], A[k + 1])
      BY <2>1, <3>1, <3>2 DEF FlowOK, Does
    <3>4. n + 1 \in 1 .. Len(A)
      BY <1>5
    <3>5. JumpOK(R, d[k], A[k], A)
      BY <1>5, <3>1, <3>2, <3>4 DEF JumpOK
    <3> QED
      BY <3>3, <3>5
  <2> QED
    BY <2>2, <2>3
<1>11. Fits(R, pr, d, A)
  BY <1>5, <1>6, <1>10 DEF Fits
<1>12. Grown(c, A, d, A)
  BY <1>4, <1>5, <1>6 DEF Grown
<1>13. Unpatched(d) \subseteq U \ jumps
  <2>1. ASSUME NEW k \in Unpatched(d)
        PROVE  k \in Unpatched(c) /\ k \notin jumps
    <3>1. k \in 1 .. n /\ d[k].op \in {"JMP", "TEST"} /\ d[k].arg = 0
      BY <1>6, <2>1 DEF Unpatched
    <3>2. n + 1 # 0
      BY <1>5
    <3>3. k \notin jumps /\ c[k].op \in {"JMP", "TEST"} /\ c[k].arg = 0
      BY <1>6, <3>1, <3>2
    <3> QED
      BY <1>4, <3>1, <3>3 DEF Unpatched
  <2> QED
    BY <1>5, <2>1
<1>14. Coded(R, pr, g2, A, v, U \ jumps)
  BY <1>5, <1>9, <1>11, <1>13 DEF Coded
<1>15. Link(g, A, g2, A)
  BY <1>1, <1>8, <1>9, <1>12 DEF Link, Recoded
<1> QED
  BY <1>3, <1>5, <1>8, <1>9, <1>14, <1>15 DEF Comes

(* What changes other fields keeps the code.                               *)
LEMMA SameCoded ==
  ASSUME NEW R, NEW pr, NEW g, NEW A, NEW v, NEW U, Coded(R, pr, g, A, v, U), NEW g2,
         GenOK(g2), g2.fn = g.fn, g2.code = g.code
  PROVE  Coded(R, pr, g2, A, v, U) /\ Link(g, A, g2, A) /\ Size(g2) = Size(g)
BY LinkSame DEF Coded, Size

LEMMA BeginScopeIs ==
  ASSUME NEW g, GenOK(g)
  PROVE  /\ GenOK(BeginScope(g)) /\ SameLoop(g, BeginScope(g))
         /\ BeginScope(g).fn = g.fn /\ BeginScope(g).code = g.code
         /\ BeginScope(g).locals = g.locals /\ BeginScope(g).depth = g.depth + 1
<1> DEFINE g2 == BeginScope(g)
<1>1. g2 = [fn |-> g.fn, code |-> g.code, depth |-> g.depth + 1, locals |-> g.locals,
            loopStart |-> g.loopStart, continueDest |-> g.continueDest,
            continues |-> g.continues, breaks |-> g.breaks, depths |-> g.depths]
  BY DEF BeginScope, GenOK
<1> HIDE DEF g2
<1> QED
  BY <1>1 DEF GenOK, SameLoop, g2

LEMMA AddLocalIs ==
  ASSUME NEW g, GenOK(g), NEW decl
  PROVE  /\ GenOK(AddLocal(g, decl)) /\ SameLoop(g, AddLocal(g, decl))
         /\ AddLocal(g, decl).fn = g.fn /\ AddLocal(g, decl).code = g.code
         /\ AddLocal(g, decl).locals = Append(g.locals, [depth |-> g.depth, decl |-> decl])
         /\ AddLocal(g, decl).depth = g.depth
<1>0. PICK l : l = Append(g.locals, [depth |-> g.depth, decl |-> decl])
  OBVIOUS
<1> DEFINE g2 == AddLocal(g, decl)
<1>1. g2 = [fn |-> g.fn, code |-> g.code, depth |-> g.depth, locals |-> l,
            loopStart |-> g.loopStart, continueDest |-> g.continueDest,
            continues |-> g.continues, breaks |-> g.breaks, depths |-> g.depths]
  <2>1. g2 = [g EXCEPT !.locals = l]
    BY <1>0 DEF AddLocal
  <2> HIDE DEF g2
  <2> QED
    BY <2>1 DEF GenOK
<1>2. IsSeq(l)
  BY <1>0, SeqAppend DEF GenOK
<1> HIDE DEF g2
<1> QED
  BY <1>0, <1>1, <1>2 DEF GenOK, SameLoop, g2

LEMMA BelowIs ==
  ASSUME NEW g, GenOK(g), NEW d
  PROVE  Below(g, d) \in Nat /\ Below(g, d) <= Len(g.locals)
<1>1. IsSeq(g.locals) /\ Len(g.locals) \in Nat /\ DOMAIN g.locals = 1 .. Len(g.locals)
  BY SeqFacts DEF GenOK
<1> DEFINE S == {i \in DOMAIN g.locals : g.locals[i].depth > d}
<1>2. S \subseteq 1 .. Len(g.locals) /\ IsFiniteSet(1 .. Len(g.locals))
      /\ Cardinality(1 .. Len(g.locals)) = Len(g.locals)
  BY <1>1, FS_Interval, SMTT(30)
<1>3. IsFiniteSet(S) /\ Cardinality(S) <= Cardinality(1 .. Len(g.locals))
  BY <1>2, FS_Subset
<1>4. Cardinality(S) \in Nat
  BY <1>3, FS_CardinalityType
<1> QED
  BY <1>2, <1>3, <1>4 DEF Below

LEMMA EndScopeCoded ==
  ASSUME NEW R, NEW pr, NEW g, NEW A, NEW v, NEW U, Coded(R, pr, g, A, v, U)
  PROVE  \E B : Comes(R, pr, g, A, EndScope(g), B, v, U)
<1> DEFINE m == Below(g, g.depth - 1)
           p == Pops(g, m)
           l == SubSeq(p.locals, 1, Len(p.locals) - m)
           g2 == EndScope(g)
<1>1. GenOK(g) /\ m \in Nat /\ m <= Len(g.locals) /\ Len(g.locals) \in Nat
  BY BelowIs, GenFacts DEF Coded
<1>2. PICK B : Comes(R, pr, g, A, p, B, v, U)
  BY <1>1, PopsCoded
<1>3. p.locals = g.locals
  BY <1>1, PopsCoded DEF SameScope
<1>4. GenOK(p)
  BY <1>2 DEF Comes, Coded
<1> HIDE DEF m
<1>5. g2 = [p EXCEPT !.depth = @ - 1, !.locals = SubSeq(@, 1, Len(@) - m)]
  BY DEF EndScope, m
<1> HIDE DEF p
<1>6. g2 = [fn |-> p.fn, code |-> p.code, depth |-> p.depth - 1, locals |-> l,
            loopStart |-> p.loopStart, continueDest |-> p.continueDest,
            continues |-> p.continues, breaks |-> p.breaks, depths |-> p.depths]
  BY <1>4, <1>5 DEF GenOK
<1>7. IsSeq(l)
  <2>1. Len(g.locals) - m \in Nat /\ Len(g.locals) - m <= Len(g.locals) /\ IsSeq(g.locals)
    BY <1>1 DEF GenOK
  <2> QED
    BY <1>3, <2>1, SeqFront
<1> HIDE DEF l, g2
<1>8. GenOK(g2) /\ SameLoop(p, g2) /\ g2.fn = p.fn /\ g2.code = p.code
  BY <1>4, <1>6, <1>7 DEF GenOK, SameLoop
<1>9. Coded(R, pr, g2, B, v, U) /\ Link(p, B, g2, B)
  BY <1>2, <1>8, SameCoded DEF Comes
<1>10. Link(g, A, g2, B)
  BY <1>1, <1>2, <1>4, <1>8, <1>9, LinkTrans DEF Comes
<1>11. SameLoop(g, g2)
  BY <1>2, <1>8 DEF Comes, SameLoop
<1> QED
  BY <1>9, <1>10, <1>11 DEF Comes, g2

LEMMA CleanupCoded ==
  ASSUME NEW R, NEW pr, NEW g, NEW A, NEW v, NEW U, Coded(R, pr, g, A, v, U)
  PROVE  \E B : Comes(R, pr, g, A, Cleanup(g), B, v, U)
<1>1. GenOK(g)
  BY DEF Coded
<1>2. CASE g.depths = <<>>
  <2>1. Link(g, A, g, A) /\ SameLoop(g, g)
    BY <1>1, LinkSame DEF SameLoop
  <2> QED
    BY <1>2, <2>1 DEF Cleanup, Comes
<1>3. CASE g.depths # <<>>
  BY <1>1, <1>3, BelowIs, PopsCoded DEF Cleanup
<1> QED
  BY <1>2, <1>3

LEMMA ComesTrans ==
  ASSUME NEW R, NEW pr, NEW g, NEW A, NEW g2, NEW B, NEW v, NEW U, NEW g3, NEW D, NEW w, NEW V,
         GenOK(g), Comes(R, pr, g, A, g2, B, v, U), Comes(R, pr, g2, B, g3, D, w, V)
  PROVE  Comes(R, pr, g, A, g3, D, w, V)
<1>1. GenOK(g2) /\ GenOK(g3)
  BY DEF Comes, Coded
<1>2. Link(g, A, g3, D)
  BY <1>1, LinkTrans DEF Comes
<1>3. SameLoop(g, g3)
  BY DEF Comes, SameLoop
<1> QED
  BY <1>2, <1>3 DEF Comes

-----------------------------------------------------------------------------
(* What R has to say of the text.                                          *)

LEMMA RespectsEarlier ==
  ASSUME NEW pr, NEW bs, TextOK(pr, bs), NEW pr2, Grows(pr, pr2), NEW R, Respects(R, pr2)
  PROVE  Respects(R, pr)
<1>1. /\ Len(pr) \in Nat /\ Len(pr2) = Len(pr) + 1
      /\ \A k \in 1 .. Len(pr) : k \in 1 .. Len(pr2) /\ pr2[k] = pr[k]
      /\ \A k \in 1 .. Len(pr) :
           pr[k].op \in Enders => pr[k].head \in 1 .. Len(pr) /\ pr[k].head < k
  BY TextFacts DEF Grows
<1>2. ASSUME NEW k \in 1 .. Len(pr)
      PROVE  Goes(R, pr, k)
  <2>1. Goes(R, pr2, k) /\ pr2[k] = pr[k] /\ TokenOK(pr, k)
    BY <1>1 DEF Respects, TextOK, Statements
  <2>2. LoopIn(pr2, k) = LoopIn(pr, k)
    BY <1>1, <2>1, LoopsKept
  <2>3. pr[k].op = "end" => pr2[pr[k].head] = pr[pr[k].head]
    BY <1>1 DEF Enders
  <2> QED
    BY <2>1, <2>2, <2>3 DEF Goes
<1>3. ASSUME NEW p \in 1 .. Len(pr), NEW m \in 1 .. Len(pr), Follows(pr, p, m)
      PROVE  R.skip[p] = IF pr[m].op = "case" THEN m ELSE R.to[m + 1]
  <2>1. pr2[m] = pr[m] /\ pr2[p] = pr[p] /\ m \in 1 .. Len(pr2) /\ p \in 1 .. Len(pr2)
    BY <1>1
  <2>2. ASSUME NEW x \in 1 .. Len(pr2), p < x, x < m
        PROVE  pr2[x].head # pr2[m].head
    <3>1. x \in 1 .. Len(pr)
      BY <1>1, <2>2
    <3> QED
      BY <1>1, <1>3, <2>1, <2>2, <3>1 DEF Follows
  <2>3. Follows(pr2, p, m)
    BY <1>3, <2>1, <2>2 DEF Follows
  <2> QED
    BY <2>1, <2>3 DEF Respects
<1> QED
  BY <1>2, <1>3 DEF Respects

LEMMA LeftLoop ==
  ASSUME NEW pr, NEW bs, TextOK(pr, bs), NEW pr2, Grows(pr, pr2), NEW l, LoopAt(bs, Len(bs), l),
         pr2[Len(pr) + 1].path = PlacesOf(bs)
  PROVE  LoopIn(pr2, Len(pr) + 1) = bs[l].place
<1> DEFINE k == Len(pr) + 1
           X == LoopsAround(pr2, k)
<1>1. /\ Len(pr) \in Nat /\ Len(bs) \in Nat
      /\ \A n \in 3 .. Len(bs) : n \in 1 .. Len(bs)
      /\ \A m, n \in 1 .. Len(bs) : m < n /\ n >= 3 => bs[m].place < bs[n].place
      /\ \A n \in 3 .. Len(bs) : bs[n].place \in 1 .. Len(pr)
  BY TextFacts
<1>2. /\ PlacesOf(bs) \subseteq 0 .. Len(pr)
      /\ \A p \in PlacesOf(bs) \ {0} :
           \E n \in 3 .. Len(bs) : p = bs[n].place /\ pr2[p].op = bs[n].op
      /\ \A n \in 3 .. Len(bs) : bs[n].place \in PlacesOf(bs) \ {0}
  BY OpenPlaces
<1>3. l \in 3 .. Len(bs) /\ bs[l].op \in Loops /\ \A m \in l + 1 .. Len(bs) : bs[m].op \notin Loops
  BY DEF LoopAt
<1>4. X = {p \in PlacesOf(bs) \ {0} : pr2[p].op \in Loops} /\ X \subseteq 0 .. Len(pr)
  BY <1>2 DEF LoopsAround
<1>5. bs[l].place \in X
  <2>1. pr2[bs[l].place].op = bs[l].op
    <3>1. PICK n \in 3 .. Len(bs) : bs[l].place = bs[n].place /\ pr2[bs[l].place].op = bs[n].op
      BY <1>2, <1>3
    <3>2. n = l
      <4>1. n \in 1 .. Len(bs) /\ l \in 1 .. Len(bs) /\ n >= 3 /\ l >= 3
        BY <1>1, <1>3
      <4>2. ~(n < l) /\ ~(l < n)
        BY <1>1, <1>3, <3>1, <4>1
      <4> QED
        BY <4>1, <4>2
    <3> QED
      BY <3>1, <3>2
  <2> QED
    BY <1>2, <1>3, <1>4, <2>1
<1>6. ASSUME NEW p \in X
      PROVE  p <= bs[l].place
  <2>1. PICK n \in 3 .. Len(bs) : p = bs[n].place /\ pr2[p].op = bs[n].op
    BY <1>2, <1>4
  <2>2. bs[n].op \in Loops
    BY <1>4, <2>1
  <2>3. n <= l
    BY <1>1, <1>3, <2>2
  <2>4. n \in 1 .. Len(bs) /\ l \in 1 .. Len(bs) /\ n >= 3 /\ l >= 3
    BY <1>1, <1>3
  <2>5. n = l \/ n < l
    BY <2>3, <2>4
  <2>6. bs[n].place \in Nat /\ bs[l].place \in Nat
    BY <1>1, <1>3
  <2> QED
    BY <1>1, <2>1, <2>4, <2>5, <2>6
<1> HIDE DEF X
<1>7. Highest(X) = bs[l].place
  BY <1>1, <1>4, <1>5, <1>6, HighestAt
<1> QED
  BY <1>7 DEF LoopIn, X

-----------------------------------------------------------------------------
(* What is kept when the code grows and blocks are added.                  *)

LEMMA FnSame ==
  ASSUME NEW bs, NEW bs2, NEW n \in Nat, SameBlocks(bs, bs2, n), NEW f
  PROVE  /\ FnIs(bs2, n, f) <=> FnIs(bs, n, f)
         /\ \A l : LoopAt(bs2, n, l) <=> LoopAt(bs, n, l)
<1>1. \A m \in 3 .. n : bs2[m].op = bs[m].op /\ bs2[m].place = bs[m].place
  BY DEF SameBlocks
<1>2. FnIs(bs2, n, f) <=> FnIs(bs, n, f)
  BY <1>1 DEF FnIs
<1>3. ASSUME NEW l
      PROVE  LoopAt(bs2, n, l) <=> LoopAt(bs, n, l)
  <2>1. l \in 3 .. n => \A m \in l + 1 .. n : m \in 3 .. n
    OBVIOUS
  <2> QED
    BY <1>1, <2>1 DEF LoopAt
<1> QED
  BY <1>2, <1>3

LEMMA FnOne ==
  ASSUME NEW pr, NEW bs, TextOK(pr, bs), NEW n \in 2 .. Len(bs), NEW f, NEW f2,
         FnIs(bs, n, f), FnIs(bs, n, f2)
  PROVE  f = f2 /\ f \in 0 .. Len(pr) /\ (f # 0 => pr[f].op = "defer")
<1>1. /\ Len(bs) \in Nat /\ Len(pr) \in Nat
      /\ \A m \in 3 .. n : m \in 3 .. Len(bs)
  BY TextFacts
<1>2. /\ \A m, k \in 3 .. Len(bs) : bs[m].op = "defer" /\ bs[k].op = "defer" => m = k
      /\ \A m \in 3 .. Len(bs) : bs[m].place \in 1 .. Len(pr) /\ pr[bs[m].place].op = bs[m].op
  BY DEF TextOK, Nest, BlockOK
<1>3. CASE \A m \in 3 .. n : bs[m].op # "defer"
  BY <1>1, <1>3 DEF FnIs
<1>4. CASE \E m \in 3 .. n : bs[m].op = "defer"
  <2>1. PICK m \in 3 .. n : bs[m].op = "defer"
    BY <1>4
  <2>2. \A k \in 3 .. n : bs[k].op = "defer" => k = m
    BY <1>1, <1>2, <2>1
  <2>3. f = bs[m].place /\ f2 = bs[m].place
    BY <2>1, <2>2 DEF FnIs
  <2> QED
    BY <1>1, <1>2, <2>1, <2>3
<1> QED
  BY <1>3, <1>4

LEMMA FnExists == ASSUME NEW bs, NEW n PROVE \E f : FnIs(bs, n, f)
<1>1. CASE \A m \in 3 .. n : bs[m].op # "defer"
  BY <1>1 DEF FnIs
<1>2. CASE \E m \in 3 .. n : bs[m].op = "defer"
  BY <1>2 DEF FnIs
<1> QED
  BY <1>1, <1>2

LEMMA JumpsKept ==
  ASSUME NEW c, NEW a, NEW c2, NEW a2, Len(c) \in Nat, Len(c2) \in Nat, Grown(c, a, c2, a2),
         NEW S, NEW v, Jumps(c, a, S, v)
  PROVE  Jumps(c2, a2, S, v)
<1> SUFFICES ASSUME NEW j \in S
             PROVE  j \in 1 .. Len(c2) /\ c2[j].op = "JMP" /\ a2[j] = v
  BY DEF Jumps
<1>1. j \in 1 .. Len(c) /\ c[j].op = "JMP" /\ a[j] = v
  BY DEF Jumps
<1>2. j \in 1 .. Len(c) + 1 /\ j \in 1 .. Len(c2)
  BY <1>1 DEF Grown
<1> QED
  BY <1>1, <1>2 DEF Grown

LEMMA SameOldsSelf == \A ct, n : SameOlds(ct, ct, n)
BY DEF SameOlds

LEMMA LoopsOKKept ==
  ASSUME NEW R, NEW bs, NEW ct, NEW C, NEW A, NEW bs2, NEW ct2, NEW C2, NEW A2, NEW s, NEW n \in Nat,
         LoopsOK(R, bs, ct, C, A, s, n), SameBlocks(bs, bs2, n), AllGrown(C, A, C2, A2),
         SameOlds(ct, ct2, n), NEW s2, SameLoop(s, s2)
  PROVE  LoopsOK(R, bs2, ct2, C2, A2, s2, n)
<1>0. /\ \A m \in 3 .. n : bs2[m].op = bs[m].op /\ bs2[m].place = bs[m].place
      /\ s2.loopStart = s.loopStart /\ s2.continueDest = s.continueDest
      /\ s2.continues = s.continues /\ s2.breaks = s.breaks
  BY DEF SameBlocks, SameLoop
<1>1. ASSUME NEW f \in Places, NEW l \in 3 .. n, FnIs(bs2, n, f), LoopAt(bs2, n, l)
      PROVE  LoopOK(R, bs2, C2, A2, s2, n, f, l)
  <2>1. LoopOK(R, bs, C, A, s, n, f, l)
    BY <1>1, FnSame DEF LoopsOK
  <2>2. Len(C[f]) \in Nat /\ Len(C2[f]) \in Nat /\ Grown(C[f], A[f], C2[f], A2[f])
    BY DEF AllGrown
  <2>3. /\ s.loopStart \in 0 .. Len(C2[f]) /\ s.loopStart + 1 \in 1 .. Len(C[f]) + 1
        /\ A2[f][s.loopStart + 1] = A[f][s.loopStart + 1]
    BY <2>1, <2>2, SMTT(30) DEF LoopOK, Grown
  <2>4. Jumps(C2[f], A2[f], s.breaks, R.past[bs[l].place])
    BY <2>1, <2>2, JumpsKept DEF LoopOK
  <2>5. bs[l].op # "while" => Jumps(C2[f], A2[f], s.continues, bs[l].place)
    BY <2>1, <2>2, JumpsKept DEF LoopOK
  <2> QED
    BY <1>0, <2>1, <2>3, <2>4, <2>5 DEF LoopOK
<1>2. ASSUME \A l \in 3 .. n : ~LoopAt(bs2, n, l), NEW d \in 3 .. n, bs2[d].op = "defer"
      PROVE  s2.continueDest = ct2[d - 2].old.continueDest /\ s2.continues = ct2[d - 2].old.continues
  <2>1. \A l \in 3 .. n : ~LoopAt(bs, n, l)
    BY <1>2, FnSame
  <2> QED
    BY <1>0, <1>2, <2>1 DEF LoopsOK, SameOlds
<1> QED
  BY <1>1, <1>2 DEF LoopsOK

LEMMA HeldKept ==
  ASSUME NEW R, NEW bs, NEW ct, NEW C, NEW A, NEW bs2, NEW ct2, NEW C2, NEW A2, NEW n \in Nat, n >= 3,
         Held(R, bs, ct, C, A, n), SameBlocks(bs, bs2, n), AllGrown(C, A, C2, A2),
         ct2[n - 2] = ct[n - 2]
  PROVE  Held(R, bs2, ct2, C2, A2, n)
<1>0. n \in 3 .. n /\ bs2[n].op = bs[n].op /\ bs2[n].place = bs[n].place /\ bs2[n].head = bs[n].head
  BY DEF SameBlocks
<1>1. ASSUME NEW f \in Places, FnIs(bs2, n, f)
      PROVE  /\ bs[n].op \in Tests =>
                  /\ ct[n - 2].exit \in 1 .. Len(C2[f]) /\ C2[f][ct[n - 2].exit].op = "TEST"
                  /\ C2[f][ct[n - 2].exit].of = bs[n].place
             /\ Jumps(C2[f], A2[f], ct[n - 2].ends, R.past[bs[n].head])
  <2>1. FnIs(bs, n, f)
    BY <1>1, FnSame
  <2>2. Len(C[f]) \in Nat /\ Len(C2[f]) \in Nat /\ Grown(C[f], A[f], C2[f], A2[f])
    BY DEF AllGrown
  <2>3. /\ bs[n].op \in Tests =>
             /\ ct[n - 2].exit \in 1 .. Len(C[f]) /\ C[f][ct[n - 2].exit].op = "TEST"
             /\ C[f][ct[n - 2].exit].of = bs[n].place
        /\ Jumps(C[f], A[f], ct[n - 2].ends, R.past[bs[n].head])
    BY <2>1 DEF Held
  <2>4. Jumps(C2[f], A2[f], ct[n - 2].ends, R.past[bs[n].head])
    BY <2>2, <2>3, JumpsKept
  <2>5. ASSUME bs[n].op \in Tests
        PROVE  /\ ct[n - 2].exit \in 1 .. Len(C2[f]) /\ C2[f][ct[n - 2].exit].op = "TEST"
               /\ C2[f][ct[n - 2].exit].of = bs[n].place
    <3>1. PICK e : e = ct[n - 2].exit
      OBVIOUS
    <3>2. e \in 1 .. Len(C[f]) /\ C[f][e].op = "TEST" /\ C[f][e].of = bs[n].place
      BY <2>3, <2>5, <3>1
    <3>3. e \in 1 .. Len(C2[f]) /\ C2[f][e].op = C[f][e].op /\ C2[f][e].of = C[f][e].of
      BY <2>2, <3>2 DEF Grown
    <3> QED
      BY <3>1, <3>2, <3>3
  <2> QED
    BY <2>4, <2>5
<1> QED
  BY <1>0, <1>1 DEF Held

LEMMA UnderKept ==
  ASSUME NEW R, NEW bs, NEW ct, NEW C, NEW A, NEW bs2, NEW ct2, NEW C2, NEW A2, NEW n \in Nat,
         Under(R, bs, ct, C, A, n), SameBlocks(bs, bs2, n), SameCtl(ct, ct2, n), AllGrown(C, A, C2, A2)
  PROVE  Under(R, bs2, ct2, C2, A2, n)
<1> SUFFICES ASSUME NEW m \in 3 .. n
             PROVE  /\ IsControl(ct2[m - 2])
                    /\ Held(R, bs2, ct2, C2, A2, m)
                    /\ LoopsOK(R, bs2, ct2, C2, A2, ct2[m - 2].old, m - 1)
                    /\ ct2[m - 2].old.fn \in Places /\ FnIs(bs2, m - 1, ct2[m - 2].old.fn)
                    /\ IsSeq(ct2[m - 2].old.locals)
  BY DEF Under
<1>1. /\ m \in Nat /\ m >= 3 /\ m - 1 \in Nat /\ ct2[m - 2] = ct[m - 2]
      /\ SameBlocks(bs, bs2, m) /\ SameBlocks(bs, bs2, m - 1)
      /\ SameOlds(ct, ct2, m - 1)
  BY DEF SameBlocks, SameCtl, SameOlds
<1>2. /\ IsControl(ct[m - 2])
      /\ Held(R, bs, ct, C, A, m)
      /\ LoopsOK(R, bs, ct, C, A, ct[m - 2].old, m - 1)
      /\ ct[m - 2].old.fn \in Places /\ FnIs(bs, m - 1, ct[m - 2].old.fn)
      /\ IsSeq(ct[m - 2].old.locals)
  BY DEF Under
<1>3. Held(R, bs2, ct2, C2, A2, m)
  BY <1>1, <1>2, HeldKept
<1>4. LoopsOK(R, bs2, ct2, C2, A2, ct[m - 2].old, m - 1)
  <2>1. SameLoop(ct[m - 2].old, ct[m - 2].old)
    BY DEF SameLoop
  <2> QED
    BY <1>1, <1>2, <2>1, LoopsOKKept
<1>5. FnIs(bs2, m - 1, ct[m - 2].old.fn)
  BY <1>1, <1>2, FnSame
<1> QED
  BY <1>1, <1>2, <1>3, <1>4, <1>5

LEMMA LoopHoleKept ==
  ASSUME NEW bs, NEW bs2, NEW n \in Nat, SameBlocks(bs, bs2, n), NEW s, NEW s2, NEW f, NEW j,
         LoopHole(bs, s, n, f, j), s.breaks \subseteq s2.breaks, s.continues \subseteq s2.continues
  PROVE  LoopHole(bs2, s2, n, f, j)
<1>1. \A m \in 3 .. n : bs2[m].op = bs[m].op
  BY DEF SameBlocks
<1>2. FnIs(bs2, n, f) /\ \A l : LoopAt(bs2, n, l) <=> LoopAt(bs, n, l)
  BY FnSame DEF LoopHole
<1> QED
  BY <1>1, <1>2 DEF LoopHole

LEMMA BlockHoleKept ==
  ASSUME NEW bs, NEW bs2, NEW ct, NEW ct2, NEW m \in Nat, m >= 3, SameBlocks(bs, bs2, m),
         ct2[m - 2] = ct[m - 2], NEW f, NEW j, BlockHole(bs, ct, m, f, j)
  PROVE  BlockHole(bs2, ct2, m, f, j)
<1>1. m - 1 \in Nat /\ SameBlocks(bs, bs2, m - 1) /\ m \in 3 .. m /\ bs2[m].op = bs[m].op
  BY DEF SameBlocks
<1>2. FnIs(bs2, m, f) <=> FnIs(bs, m, f)
  BY FnSame
<1>3. LoopHole(bs, ct[m - 2].old, m - 1, f, j) => LoopHole(bs2, ct[m - 2].old, m - 1, f, j)
  BY <1>1, LoopHoleKept
<1> QED
  BY <1>1, <1>2, <1>3 DEF BlockHole

LEMMA FitsText ==
  ASSUME NEW R, NEW pr, NEW pr2, Len(pr) \in Nat, Grows(pr, pr2), NEW c, NEW A, Fits(R, pr, c, A)
  PROVE  Fits(R, pr2, c, A)
<1> SUFFICES ASSUME NEW n \in 1 .. Len(c), FlowOK(R, pr, c[n], A[n], A[n + 1])
             PROVE  FlowOK(R, pr2, c[n], A[n], A[n + 1])
  BY DEF Fits
<1>1. \A k \in 1 .. Len(pr) : k \in 1 .. Len(pr2) /\ pr2[k] = pr[k]
  BY DEF Grows
<1>2. ASSUME NEW i, NEW b, Does(R, pr, i, b)
      PROVE  Does(R, pr2, i, b)
  BY <1>1, <1>2 DEF Does
<1> QED
  BY <1>2 DEF FlowOK

LEMMA CodedText ==
  ASSUME NEW R, NEW pr, NEW pr2, Len(pr) \in Nat, Grows(pr, pr2), NEW g, NEW A, Codes(R, pr, g, A), NEW v,
         EndAt(g.code, A, g.fn) = v
  PROVE  Coded(R, pr2, g, A[g.fn], v, Unpatched(g.code[g.fn])) /\ GenOK(g) /\ Size(g) \in Nat
<1>1. GenOK(g) /\ g.fn \in Places /\ Size(g) \in Nat /\ Fits(R, pr, g.code[g.fn], A[g.fn])
  BY GenFacts DEF Codes
<1>2. Fits(R, pr2, g.code[g.fn], A[g.fn])
  BY <1>1, FitsText
<1> QED
  BY <1>1, <1>2 DEF Coded, EndAt, Size

LEMMA CodesGrow ==
  ASSUME NEW R, NEW pr, NEW pr2, Len(pr) \in Nat, Grows(pr, pr2), NEW g, NEW A, Codes(R, pr, g, A),
         IsMap(A), g.fn <= Len(pr),
         NEW g2, NEW B, NEW v, NEW U, Coded(R, pr2, g2, B, v, U), Link(g, A[g.fn], g2, B)
  PROVE  Further(R, pr2, g, A, g2, Onward(A, g, B), v)
<1> DEFINE A2 == Onward(A, g, B)
<1>1. /\ GenOK(g) /\ g.fn \in Places /\ GenOK(g2) /\ g2.fn = g.fn /\ g.fn \in Nat
      /\ \A f \in Places : f # g.fn => g2.code[f] = g.code[f]
      /\ Grown(g.code[g.fn], A[g.fn], g2.code[g.fn], B)
      /\ Fits(R, pr2, g2.code[g.fn], B) /\ B[Len(g2.code[g.fn]) + 1] = v
  BY GenFacts DEF Coded, Link, Codes, Size, Places
<1>2. /\ IsMap(A2) /\ A2[g.fn] = B
      /\ \A f \in Places : f # g.fn => A2[f] = A[f]
  BY <1>1 DEF Onward, IsMap
<1> HIDE DEF A2
<1>3. ASSUME NEW f \in Places
      PROVE  /\ Len(g.code[f]) \in Nat /\ Len(g2.code[f]) \in Nat
             /\ Grown(g.code[f], A[f], g2.code[f], A2[f])
  <2>1. Fits(R, pr, g.code[f], A[f])
    BY DEF Codes
  <2>2. Len(g.code[f]) \in Nat
    BY <2>1, FitsFacts
  <2>3. CASE f = g.fn
    BY <1>1, <1>2, <2>2, <2>3, FitsFacts
  <2>4. CASE f # g.fn
    BY <1>1, <1>2, <2>2, <2>4, GrownSame
  <2> QED
    BY <2>3, <2>4
<1>4. ASSUME NEW f \in Places
      PROVE  /\ Fits(R, pr2, g2.code[f], A2[f]) /\ A2[f][1] = R.to[f + 1]
             /\ f > Len(pr2) => g2.code[f] = <<>>
  <2>1. /\ Fits(R, pr, g.code[f], A[f]) /\ A[f][1] = R.to[f + 1]
        /\ f > Len(pr) => g.code[f] = <<>>
    BY DEF Codes
  <2>2. Fits(R, pr2, g.code[f], A[f])
    BY <2>1, FitsText
  <2>3. A2[f][1] = A[f][1]
    <3>1. 1 \in 1 .. Len(g.code[f]) + 1
      BY <1>3
    <3> QED
      BY <1>3, <3>1 DEF Grown
  <2>4. f \in Nat /\ Len(pr2) = Len(pr) + 1
    BY DEF Grows, Places
  <2>5. CASE f = g.fn
    BY <1>1, <1>2, <2>1, <2>3, <2>4, <2>5
  <2>6. CASE f # g.fn
    BY <1>1, <1>2, <2>1, <2>2, <2>3, <2>4, <2>6
  <2> QED
    BY <2>5, <2>6
<1>5. Codes(R, pr2, g2, A2)
  BY <1>1, <1>4 DEF Codes
<1>6. EndAt(g2.code, A2, g.fn) = v
  BY <1>1, <1>2 DEF EndAt
<1> QED
  BY <1>1, <1>2, <1>3, <1>5, <1>6 DEF A2, AllGrown, Further

-----------------------------------------------------------------------------
(* A step that goes on with the function that is emitted.                  *)

LEMMA CarriedFacts ==
  ASSUME NEW R, NEW pr, NEW bs, NEW ct, NEW g, NEW A, NEW pr2, Carried(R, pr, bs, ct, g, A, pr2)
  PROVE  /\ Len(pr) \in Nat /\ Len(pr2) = Len(pr) + 1 /\ Len(bs) \in Nat /\ Len(bs) >= 2
         /\ g.fn \in Places /\ g.fn \in 0 .. Len(pr) /\ FnIs(bs, Len(bs), g.fn)
         /\ \A f : FnIs(bs, Len(bs), f) => f = g.fn
         /\ g.fn # 0 => pr[g.fn].op = "defer"
         /\ Coded(R, pr2, g, A[g.fn], R.to[Len(pr) + 1], Unpatched(g.code[g.fn]))
         /\ GenOK(g) /\ Size(g) \in Nat /\ Len(g.code[g.fn]) \in Nat
         /\ IsSeq(ct) /\ Len(ct) = Len(bs) - 2
         /\ \A n \in Int : R.to[n] \in Int /\ R.past[n] \in Int /\ R.skip[n] \in Int
<1>1. /\ Len(pr) \in Nat /\ Len(pr2) = Len(pr) + 1 /\ Len(bs) \in Nat /\ Len(bs) >= 2
  BY TextFacts DEF Carried, Grows
<1>2. FnIs(bs, Len(bs), g.fn) /\ EndAt(g.code, A, g.fn) = R.to[Len(pr) + 1] /\ Codes(R, pr, g, A)
  BY DEF Carried, Written, Endings
<1>3. /\ g.fn \in 0 .. Len(pr) /\ (g.fn # 0 => pr[g.fn].op = "defer")
      /\ \A f : FnIs(bs, Len(bs), f) => f = g.fn
  <2>1. Len(bs) \in 2 .. Len(bs) /\ TextOK(pr, bs)
    BY <1>1 DEF Carried
  <2>2. ASSUME NEW f, FnIs(bs, Len(bs), f)
        PROVE  f = g.fn /\ g.fn \in 0 .. Len(pr) /\ (g.fn # 0 => pr[g.fn].op = "defer")
    <3>1. PICK n \in 2 .. Len(bs) : n = Len(bs)
      BY <2>1
    <3>2. FnIs(bs, n, f) /\ FnIs(bs, n, g.fn)
      BY <1>2, <2>2, <3>1
    <3> HIDE <3>1
    <3> QED
      BY <2>1, <3>2, FnOne
  <2> QED
    BY <1>2, <2>2
<1>4. /\ Coded(R, pr2, g, A[g.fn], R.to[Len(pr) + 1], Unpatched(g.code[g.fn]))
      /\ GenOK(g) /\ Size(g) \in Nat
  <2>1. Grows(pr, pr2)
    BY DEF Carried
  <2> QED
    BY <1>1, <1>2, <2>1, CodedText
<1>5. g.fn \in Places /\ Len(g.code[g.fn]) \in Nat
  BY <1>4, GenFacts DEF Size
<1>6. IsSeq(ct) /\ Len(ct) = Len(bs) - 2
  BY DEF Carried, Written
<1>7. \A n \in Int : R.to[n] \in Int /\ R.past[n] \in Int /\ R.skip[n] \in Int
  BY DEF Carried, Respects
<1> QED
  BY <1>1, <1>2, <1>3, <1>4, <1>5, <1>6, <1>7

LEMMA StepGrown ==
  ASSUME NEW R, NEW pr, NEW bs, NEW ct, NEW g, NEW A, NEW pr2, Carried(R, pr, bs, ct, g, A, pr2),
         NEW g2, NEW B, NEW U, Coded(R, pr2, g2, B, R.to[Len(pr2) + 1], U), Link(g, A[g.fn], g2, B)
  PROVE  Further(R, pr2, g, A, g2, Onward(A, g, B), R.to[Len(pr2) + 1])
<1>1. Len(pr) \in Nat /\ g.fn <= Len(pr)
  BY CarriedFacts
<1>2. Grows(pr, pr2) /\ IsMap(A) /\ Codes(R, pr, g, A) /\ g2.fn = g.fn
  BY DEF Carried, Written, Link
<1> QED
  BY <1>1, <1>2, CodesGrow

LEMMA StepWritten ==
  ASSUME NEW R, NEW pr, NEW bs, NEW ct, NEW g, NEW A, NEW pr2, Carried(R, pr, bs, ct, g, A, pr2),
         NEW g2, NEW B, NEW U, Coded(R, pr2, g2, B, R.to[Len(pr2) + 1], U), Link(g, A[g.fn], g2, B),
         NEW bs2, NEW ct2, FnIs(bs2, Len(bs2), g.fn), SameDefers(bs, bs2), ~EndsDefer(pr2, Len(pr2)),
         IsSeq(ct2), Len(ct2) = Len(bs2) - 2,
         Under(R, bs2, ct2, g2.code, Onward(A, g, B), Len(bs2)),
         LoopsOK(R, bs2, ct2, g2.code, Onward(A, g, B), g2, Len(bs2)),
         \A j \in U : Hole(bs2, ct2, g2, g.fn, j),
         \A f \in Places : \A j : f # g.fn /\ Hole(bs, ct, g, f, j) => Hole(bs2, ct2, g2, f, j)
  PROVE  Written(R, pr2, bs2, ct2, g2, Onward(A, g, B))
<1> DEFINE A2 == Onward(A, g, B)
<1>1. /\ Codes(R, pr2, g2, A2) /\ g2.fn = g.fn
      /\ EndAt(g2.code, A2, g.fn) = R.to[Len(pr2) + 1]
      /\ \A f \in Places : f # g.fn => A2[f] = A[f] /\ g2.code[f] = g.code[f]
  <2>1. Further(R, pr2, g, A, g2, A2, R.to[Len(pr2) + 1])
    BY StepGrown
  <2> HIDE DEF A2
  <2> QED
    BY <2>1 DEF Further
<1>2. /\ Len(pr) \in Nat /\ Len(pr2) = Len(pr) + 1 /\ Len(bs) \in Nat /\ Len(bs) >= 2
      /\ g.fn \in Places /\ g.fn \in 0 .. Len(pr) /\ FnIs(bs, Len(bs), g.fn)
      /\ \A f : FnIs(bs, Len(bs), f) => f = g.fn
  BY CarriedFacts
<1>3. /\ TextOK(pr, bs) /\ Endings(R, pr, bs, g, A) /\ Pending(bs, ct, g) /\ Len(pr2) <= MaxLen
      /\ Grows(pr, pr2)
  BY DEF Carried, Written
<1> HIDE DEF A2
<1>4. ASSUME NEW m \in 3 .. Len(bs2), bs2[m].op = "defer"
      PROVE  EndAt(g2.code, A2, 0) = bs2[m].place
  <2>1. m \in 3 .. Len(bs) /\ bs[m].op = "defer" /\ bs2[m].place = bs[m].place
    BY <1>4 DEF SameDefers
  <2>2. EndAt(g.code, A, 0) = bs[m].place
    BY <1>3, <2>1 DEF Endings
  <2>3. bs[m].place = g.fn
    BY <1>2, <2>1 DEF FnIs
  <2>4. 0 \in Places /\ g.fn # 0
    BY <1>3, <2>1, <2>3, BodiesAssumption, TextFacts DEF Places
  <2> QED
    BY <1>1, <2>1, <2>2, <2>4 DEF EndAt
<1>5. ASSUME NEW y \in 1 .. Len(pr2), pr2[y].op = "end", pr2[pr2[y].head].op = "defer"
      PROVE  EndAt(g2.code, A2, pr2[y].head) = y
  <2>1. y \in 1 .. Len(pr)
    BY <1>2, <1>5 DEF EndsDefer
  <2>2. pr2[y] = pr[y] /\ pr[y].head \in 1 .. Len(pr) /\ pr2[pr[y].head] = pr[pr[y].head]
    <3>1. pr2[y] = pr[y]
      BY <1>3, <2>1 DEF Grows
    <3>2. pr[y].head \in 1 .. Len(pr)
      BY <1>3, <1>5, <2>1, <3>1, TextFacts, OpKinds
    <3> QED
      BY <1>3, <3>1, <3>2 DEF Grows
  <2>3. EndAt(g.code, A, pr[y].head) = y
    BY <1>3, <1>5, <2>1, <2>2 DEF Endings
  <2>4. pr[y].head # g.fn
    <3>1. pr[y].head \notin PlacesOf(bs)
      BY <1>3, <1>5, <2>1, <2>2, OpenNotEnded
    <3>2. g.fn = 0 \/ \E m \in 3 .. Len(bs) : bs[m].place = g.fn
      BY <1>2 DEF FnIs
    <3>3. \A m \in 3 .. Len(bs) : bs[m].place \in PlacesOf(bs)
      BY <1>2 DEF PlacesOf
    <3> QED
      BY <2>2, <3>1, <3>2, <3>3
  <2>5. pr[y].head \in Places
    BY <1>2, <1>3, <2>2, BodiesAssumption DEF Places
  <2> QED
    BY <1>1, <2>2, <2>3, <2>4, <2>5 DEF EndAt
<1>6. Endings(R, pr2, bs2, g2, A2)
  BY <1>1, <1>4, <1>5 DEF Endings
<1>7. ASSUME NEW f \in Places, NEW j \in Unpatched(g2.code[f])
      PROVE  Hole(bs2, ct2, g2, f, j)
  <2>1. CASE f = g.fn
    BY <1>1, <1>7, <2>1 DEF Coded
  <2>2. CASE f # g.fn
    <3>1. j \in Unpatched(g.code[f])
      BY <1>1, <1>7, <2>2
    <3> QED
      BY <1>3, <2>2, <3>1 DEF Pending
  <2> QED
    BY <2>1, <2>2
<1>8. Pending(bs2, ct2, g2)
  BY <1>7 DEF Pending
<1> QED
  BY <1>1, <1>6, <1>8 DEF Written, A2

(* The holes of the other functions stay.                                  *)
LEMMA OtherHoles ==
  ASSUME NEW R, NEW pr, NEW bs, NEW ct, NEW g, NEW A, NEW pr2, Carried(R, pr, bs, ct, g, A, pr2),
         NEW bs2, NEW ct2, NEW k \in Nat, k = Len(bs) \/ (k = Len(bs) - 1 /\ bs[Len(bs)].op # "defer"),
         SameBlocks(bs, bs2, k), SameCtl(ct, ct2, k), k <= Len(bs2), Len(bs2) \in Nat,
         NEW g2, NEW f \in Places, NEW j, f # g.fn, Hole(bs, ct, g, f, j)
  PROVE  Hole(bs2, ct2, g2, f, j)
<1>1. /\ Len(bs) \in Nat /\ Len(bs) >= 2 /\ \A h : FnIs(bs, Len(bs), h) => h = g.fn
  BY CarriedFacts
<1>2. PICK m \in 3 .. Len(bs) : BlockHole(bs, ct, m, f, j)
  BY <1>1 DEF Hole, LoopHole
<1>3. m <= k
  <2>1. SUFFICES ASSUME m = Len(bs), bs[Len(bs)].op # "defer"
                 PROVE  FALSE
    BY <1>1
  <2>2. CASE FnIs(bs, m, f)
    BY <1>1, <2>1, <2>2
  <2>3. CASE FnIs(bs, m - 1, f)
    <3>1. FnIs(bs, m, f)
      <4>1. CASE f = 0 /\ \A d \in 3 .. m - 1 : bs[d].op # "defer"
        <5>1. \A d \in 3 .. m : d \in 3 .. m - 1 \/ d = m
          BY <1>1
        <5> QED
          BY <2>1, <4>1, <5>1 DEF FnIs
      <4>2. CASE \E d \in 3 .. m - 1 : bs[d].op = "defer" /\ bs[d].place = f
        BY <4>2 DEF FnIs
      <4> QED
        BY <2>3, <4>1, <4>2 DEF FnIs
    <3> QED
      BY <1>1, <2>1, <3>1
  <2> QED
    BY <1>2, <2>2, <2>3 DEF BlockHole, LoopHole
<1>4. BlockHole(bs2, ct2, m, f, j)
  <2>1. SameBlocks(bs, bs2, m) /\ ct2[m - 2] = ct[m - 2]
    BY <1>3 DEF SameBlocks, SameCtl
  <2> QED
    BY <1>2, <2>1, BlockHoleKept
<1>5. m \in 3 .. Len(bs2)
  BY <1>3
<1> QED
  BY <1>4, <1>5 DEF Hole

-----------------------------------------------------------------------------
(* A statement that is no block.                                           *)

LEMMA SimpleWritten ==
  ASSUME NEW R, NEW pr, NEW bs, NEW ct, NEW g, NEW A, NEW pr2, Carried(R, pr, bs, ct, g, A, pr2),
         NEW op, NEW decl, NEW bs2, SimpleStep(pr, bs, pr2, bs2, op, decl),
         NEW g2, NEW B, NEW U, Coded(R, pr2, g2, B, R.to[Len(pr2) + 1], U), Link(g, A[g.fn], g2, B),
         LoopsOK(R, bs2, ct, g2.code, Onward(A, g, B), g2, Len(bs2)),
         \A j \in U : Hole(bs2, ct, g2, g.fn, j)
  PROVE  Annotated(R, pr2, bs2, ct, g2)
<1>1. /\ Len(pr) \in Nat /\ Len(pr2) = Len(pr) + 1 /\ Len(bs) \in Nat /\ Len(bs) >= 2
      /\ FnIs(bs, Len(bs), g.fn) /\ IsSeq(ct) /\ Len(ct) = Len(bs) - 2
  BY CarriedFacts
<1>2. /\ Len(bs2) = Len(bs) /\ SameBlocks(bs, bs2, Len(bs)) /\ SameCtl(ct, ct, Len(bs))
  BY SimpleBlocks, <1>1 DEF SameBlocks, SameCtl
<1>3. FnIs(bs2, Len(bs2), g.fn)
  BY <1>1, <1>2, FnSame
<1>4. SameDefers(bs, bs2)
  BY <1>2 DEF SameDefers, SameBlocks
<1>5. ~EndsDefer(pr2, Len(pr2))
  BY <1>1, NewTokenParts, OpKinds DEF EndsDefer, SimpleStep
<1>6. Further(R, pr2, g, A, g2, Onward(A, g, B), R.to[Len(pr2) + 1])
  BY StepGrown
<1>7. Under(R, bs2, ct, g2.code, Onward(A, g, B), Len(bs2))
  <2>1. Under(R, bs, ct, g.code, A, Len(bs))
    BY DEF Carried, Written
  <2>2. AllGrown(g.code, A, g2.code, Onward(A, g, B))
    BY <1>6 DEF Further
  <2> QED
    BY <1>1, <1>2, <2>1, <2>2, UnderKept
<1>8. ASSUME NEW f \in Places, NEW j, f # g.fn, Hole(bs, ct, g, f, j)
      PROVE  Hole(bs2, ct, g2, f, j)
  BY <1>1, <1>2, <1>8, OtherHoles
<1>9. Written(R, pr2, bs2, ct, g2, Onward(A, g, B))
  BY <1>1, <1>2, <1>3, <1>4, <1>5, <1>7, <1>8, StepWritten
<1>10. IsMap(Onward(A, g, B))
  BY <1>6 DEF Further
<1> QED
  BY <1>9, <1>10 DEF Annotated

(* What is still to be patched stays to be patched.                        *)
LEMMA HolesKept ==
  ASSUME NEW bs, NEW bs2, NEW ct, NEW g, NEW g2, Len(bs) \in Nat, Len(bs2) = Len(bs),
         SameBlocks(bs, bs2, Len(bs)), NEW f, NEW j, Hole(bs, ct, g, f, j),
         g.breaks \subseteq g2.breaks, g.continues \subseteq g2.continues
  PROVE  Hole(bs2, ct, g2, f, j)
<1>1. CASE LoopHole(bs, g, Len(bs), f, j)
  BY <1>1, LoopHoleKept DEF Hole
<1>2. CASE \E m \in 3 .. Len(bs) : BlockHole(bs, ct, m, f, j)
  <2>1. PICK m \in 3 .. Len(bs) : BlockHole(bs, ct, m, f, j)
    BY <1>2
  <2>2. SameBlocks(bs, bs2, m)
    BY <2>1 DEF SameBlocks
  <2>3. BlockHole(bs2, ct, m, f, j)
    BY <2>1, <2>2, BlockHoleKept
  <2> QED
    BY <2>3 DEF Hole
<1> QED
  BY <1>1, <1>2 DEF Hole

LEMMA SimpleSame ==
  ASSUME NEW R, NEW pr, NEW bs, NEW ct, NEW g, NEW A, NEW pr2, Carried(R, pr, bs, ct, g, A, pr2),
         NEW op, NEW decl, NEW bs2, SimpleStep(pr, bs, pr2, bs2, op, decl),
         NEW g2, NEW B,
         Comes(R, pr2, g, A[g.fn], g2, B, R.to[Len(pr2) + 1], Unpatched(g.code[g.fn]))
  PROVE  Annotated(R, pr2, bs2, ct, g2)
<1>1. /\ Len(pr) \in Nat /\ Len(bs) \in Nat /\ g.fn \in Places
  BY CarriedFacts
<1>2. /\ Len(bs2) = Len(bs) /\ SameBlocks(bs, bs2, Len(bs))
  BY SimpleBlocks, <1>1 DEF SameBlocks
<1>3. /\ Coded(R, pr2, g2, B, R.to[Len(pr2) + 1], Unpatched(g.code[g.fn]))
      /\ Link(g, A[g.fn], g2, B) /\ SameLoop(g, g2)
  BY DEF Comes
<1>4. Further(R, pr2, g, A, g2, Onward(A, g, B), R.to[Len(pr2) + 1])
  BY <1>3, StepGrown
<1>5. LoopsOK(R, bs2, ct, g2.code, Onward(A, g, B), g2, Len(bs2))
  <2>1. LoopsOK(R, bs, ct, g.code, A, g, Len(bs))
    BY DEF Carried, Written
  <2>2. AllGrown(g.code, A, g2.code, Onward(A, g, B))
    BY <1>4 DEF Further
  <2> QED
    BY <1>1, <1>2, <1>3, <2>1, <2>2, LoopsOKKept, SameOldsSelf
<1>6. ASSUME NEW j \in Unpatched(g.code[g.fn])
      PROVE  Hole(bs2, ct, g2, g.fn, j)
  <2>1. Hole(bs, ct, g, g.fn, j)
    BY <1>1 DEF Carried, Written, Pending
  <2>2. g.breaks \subseteq g2.breaks /\ g.continues \subseteq g2.continues
    BY <1>3 DEF SameLoop
  <2> QED
    BY <1>1, <1>2, <2>1, <2>2, HolesKept
<1> QED
  BY <1>3, <1>5, <1>6, SimpleWritten

(* A jump out of the loop, or to its next round.                           *)
LEMMA LoopOne ==
  ASSUME NEW bs, NEW n \in Nat, NEW l, NEW k, LoopAt(bs, n, l), LoopAt(bs, n, k)
  PROVE  l = k
<1>1. l \in 3 .. n /\ k \in 3 .. n /\ bs[l].op \in Loops /\ bs[k].op \in Loops
  BY DEF LoopAt
<1>2. ~(l < k)
  <2> SUFFICES ASSUME l < k PROVE FALSE
    OBVIOUS
  <2>1. k \in l + 1 .. n
    BY <1>1
  <2> QED
    BY <1>1, <2>1 DEF LoopAt
<1>3. ~(k < l)
  <2> SUFFICES ASSUME k < l PROVE FALSE
    OBVIOUS
  <2>1. l \in k + 1 .. n
    BY <1>1
  <2> QED
    BY <1>1, <2>1 DEF LoopAt
<1> QED
  BY <1>1, <1>2, <1>3

LEMMA LoopsGrow ==
  ASSUME NEW R, NEW bs, NEW ct, NEW C, NEW A, NEW s, NEW n \in Nat, LoopsOK(R, bs, ct, C, A, s, n),
         NEW l, LoopAt(bs, n, l), NEW h, \A f : FnIs(bs, n, f) => f = h,
         NEW s2, s2.loopStart = s.loopStart, s2.continueDest = s.continueDest, NEW j,
         s2.breaks \subseteq s.breaks \cup {j}, s2.continues \subseteq s.continues \cup {j},
         j \in 1 .. Len(C[h]), C[h][j].op = "JMP",
         s2.breaks # s.breaks => A[h][j] = R.past[bs[l].place],
         bs[l].op # "while" /\ s2.continues # s.continues => A[h][j] = bs[l].place
  PROVE  LoopsOK(R, bs, ct, C, A, s2, n)
<1>1. ASSUME NEW f \in Places, NEW k \in 3 .. n, FnIs(bs, n, f), LoopAt(bs, n, k)
      PROVE  LoopOK(R, bs, C, A, s2, n, f, k)
  <2>1. f = h /\ k = l
    BY <1>1, LoopOne
  <2>2. LoopOK(R, bs, C, A, s, n, f, k)
    BY <1>1 DEF LoopsOK
  <2>3. Jumps(C[f], A[f], s2.breaks, R.past[bs[k].place])
    <3>1. CASE s2.breaks = s.breaks
      BY <2>2, <3>1 DEF LoopOK
    <3>2. CASE s2.breaks # s.breaks
      BY <2>1, <2>2, <3>2 DEF LoopOK, Jumps
    <3> QED
      BY <3>1, <3>2
  <2>4. bs[k].op # "while" => Jumps(C[f], A[f], s2.continues, bs[k].place)
    <3>1. CASE s2.continues = s.continues
      BY <2>2, <3>1 DEF LoopOK
    <3>2. CASE s2.continues # s.continues
      BY <2>1, <2>2, <3>2 DEF LoopOK, Jumps
    <3> QED
      BY <3>1, <3>2
  <2> QED
    BY <2>2, <2>3, <2>4 DEF LoopOK
<1>2. l \in 3 .. n
  BY DEF LoopAt
<1> QED
  BY <1>1, <1>2 DEF LoopsOK

LEMMA SimpleJump ==
  ASSUME NEW R, NEW pr, NEW bs, NEW ct, NEW g, NEW A, NEW pr2, Carried(R, pr, bs, ct, g, A, pr2),
         NEW op, NEW decl, NEW bs2, SimpleStep(pr, bs, pr2, bs2, op, decl), NEW g2, NEW B, NEW j,
         Coded(R, pr2, g2, B, R.to[Len(pr2) + 1], Unpatched(g.code[g.fn]) \cup {j}),
         Link(g, A[g.fn], g2, B), NEW l, JumpsLoop(R, bs, g, g2, B, l, j)
  PROVE  Annotated(R, pr2, bs2, ct, g2)
<1>0. /\ LoopAt(bs, Len(bs), l) /\ g2.loopStart = g.loopStart /\ g2.continueDest = g.continueDest
      /\ g.breaks \subseteq g2.breaks /\ g.continues \subseteq g2.continues
      /\ g2.breaks \subseteq g.breaks \cup {j} /\ g2.continues \subseteq g.continues \cup {j}
      /\ j \in g2.breaks \/ (j \in g2.continues /\ bs[l].op # "while")
      /\ j \in 1 .. Size(g2) /\ g2.code[g.fn][j].op = "JMP"
      /\ g2.breaks # g.breaks => B[j] = R.past[bs[l].place]
      /\ bs[l].op # "while" /\ g2.continues # g.continues => B[j] = bs[l].place
  BY DEF JumpsLoop
<1>1. /\ Len(pr) \in Nat /\ Len(bs) \in Nat /\ g.fn \in Places /\ FnIs(bs, Len(bs), g.fn)
      /\ \A f : FnIs(bs, Len(bs), f) => f = g.fn
  BY CarriedFacts
<1>2. /\ Len(bs2) = Len(bs) /\ SameBlocks(bs, bs2, Len(bs))
      /\ \A m \in 3 .. Len(bs) : bs2[m].op = bs[m].op /\ bs2[m].place = bs[m].place
  BY SimpleBlocks, <1>1 DEF SameBlocks
<1>3. l \in 3 .. Len(bs) /\ LoopAt(bs2, Len(bs), l) /\ bs2[l].place = bs[l].place /\ bs2[l].op = bs[l].op
  <2>1. LoopAt(bs2, Len(bs), l)
    BY <1>0, <1>1, <1>2, FnSame
  <2>2. l \in 3 .. Len(bs)
    BY <1>0 DEF LoopAt
  <2> QED
    BY <1>2, <2>1, <2>2
<1>4. Further(R, pr2, g, A, g2, Onward(A, g, B), R.to[Len(pr2) + 1])
  BY StepGrown
<1>5. LoopsOK(R, bs2, ct, g2.code, Onward(A, g, B), g, Len(bs2))
  <2>1. LoopsOK(R, bs, ct, g.code, A, g, Len(bs))
    BY DEF Carried, Written
  <2>2. AllGrown(g.code, A, g2.code, Onward(A, g, B))
    BY <1>4 DEF Further
  <2>3. SameLoop(g, g)
    BY DEF SameLoop
  <2> QED
    BY <1>1, <1>2, <2>1, <2>2, <2>3, LoopsOKKept, SameOldsSelf
<1>6. Onward(A, g, B)[g.fn] = B
  BY <1>1 DEF Onward, Carried, IsMap
<1>7. LoopsOK(R, bs2, ct, g2.code, Onward(A, g, B), g2, Len(bs2))
  <2>1. \A f : FnIs(bs2, Len(bs2), f) => f = g.fn
    BY <1>1, <1>2, FnSame
  <2>2. j \in 1 .. Len(g2.code[g.fn])
    BY <1>0 DEF Size, Link
  <2>3. PICK A2 : A2 = Onward(A, g, B)
    OBVIOUS
  <2>4. LoopsOK(R, bs2, ct, g2.code, A2, g, Len(bs2)) /\ A2[g.fn] = B
    BY <1>5, <1>6, <2>3
  <2>5. /\ Len(bs2) \in Nat /\ LoopAt(bs2, Len(bs2), l)
        /\ g2.breaks # g.breaks => A2[g.fn][j] = R.past[bs2[l].place]
        /\ bs2[l].op # "while" /\ g2.continues # g.continues => A2[g.fn][j] = bs2[l].place
    BY <1>0, <1>1, <1>2, <1>3, <2>4
  <2>6. LoopsOK(R, bs2, ct, g2.code, A2, g2, Len(bs2))
    BY <1>0, <2>1, <2>2, <2>4, <2>5, LoopsGrow
  <2> QED
    BY <2>3, <2>6
<1>8. ASSUME NEW i \in Unpatched(g.code[g.fn]) \cup {j}
      PROVE  Hole(bs2, ct, g2, g.fn, i)
  <2>1. CASE i = j
    <3>1. FnIs(bs2, Len(bs2), g.fn)
      BY <1>1, <1>2, FnSame
    <3> QED
      BY <1>0, <1>2, <1>3, <2>1, <3>1 DEF Hole, LoopHole
  <2>2. CASE i \in Unpatched(g.code[g.fn])
    <3>1. Hole(bs, ct, g, g.fn, i)
      BY <1>1, <2>2 DEF Carried, Written, Pending
    <3> QED
      BY <1>0, <1>1, <1>2, <3>1, HolesKept
  <2> QED
    BY <1>8, <2>1, <2>2
<1> QED
  BY <1>7, <1>8, SimpleWritten

-----------------------------------------------------------------------------
(* The instructions that the compiler emits.                               *)

LEMMA EmitComes ==
  ASSUME NEW R, NEW pr, NEW g, NEW A, NEW v, NEW U, Coded(R, pr, g, A, v, U),
         NEW op, NEW arg, NEW of \in Nat, NEW w \in Int,
         FlowOK(R, pr, Instr(op, arg, of), v, w), op \notin {"JMP", "TEST"}
  PROVE  \E B : Comes(R, pr, g, A, Emit(g, op, arg, of), B, w, U)
<1>1. TargetOK(g, A, v, op, arg)
  BY DEF TargetOK
<1>2. EmittedAs(R, pr, g, A, v, U, op, arg, of, w, Emit(g, op, arg, of), Append(A, w))
  BY <1>1, EmitCoded
<1> QED
  BY <1>2 DEF EmittedAs, Comes

LEMMA HoleComes ==
  ASSUME NEW R, NEW pr, NEW g, NEW A, NEW v, NEW U, Coded(R, pr, g, A, v, U),
         NEW op \in {"JMP", "TEST"}, NEW of \in Nat, NEW w \in Int, FlowOK(R, pr, Instr(op, 0, of), v, w)
  PROVE  Holed(R, pr, g, A, U, op, of, v, w, Emit(g, op, 0, of), Size(g) + 1)
<1>1. TargetOK(g, A, v, op, 0)
  BY DEF TargetOK
<1>2. EmittedAs(R, pr, g, A, v, U, op, 0, of, w, Emit(g, op, 0, of), Append(A, w))
  BY <1>1, EmitCoded
<1> QED
  BY <1>2 DEF EmittedAs, Comes, Holed

LEMMA BackComes ==
  ASSUME NEW R, NEW pr, NEW g, NEW A, NEW v, NEW U, Coded(R, pr, g, A, v, U),
         NEW t \in 1 .. Size(g) + 1, A[t] = v, NEW w \in Int
  PROVE  \E B : Comes(R, pr, g, A, Jump(g, t), B, w, U)
<1>1. FlowOK(R, pr, Instr("JMP", t, 0), v, w)
  BY DEF FlowOK, Instr
<1>2. TargetOK(g, A, v, "JMP", t) /\ 0 \in Nat /\ t # 0
  BY DEF TargetOK
<1>3. EmittedAs(R, pr, g, A, v, U, "JMP", t, 0, w, Emit(g, "JMP", t, 0), Append(A, w))
  BY <1>1, <1>2, EmitCoded
<1> QED
  BY <1>2, <1>3 DEF EmittedAs, Comes, Jump

LEMMA ComesSame ==
  ASSUME NEW R, NEW pr, NEW g, NEW A, NEW v, NEW U, Coded(R, pr, g, A, v, U)
  PROVE  Comes(R, pr, g, A, g, A, v, U)
<1>1. GenOK(g) /\ SameLoop(g, g)
  BY DEF Coded, SameLoop
<1> QED
  BY <1>1, LinkSame DEF Comes

LEMMA AddLocalComes ==
  ASSUME NEW R, NEW pr, NEW g, NEW A, NEW g1, NEW B, NEW v, NEW U, Comes(R, pr, g, A, g1, B, v, U), NEW decl
  PROVE  Comes(R, pr, g, A, AddLocal(g1, decl), B, v, U) /\ Size(AddLocal(g1, decl)) = Size(g1)
<1>1. GenOK(g1) /\ Coded(R, pr, g1, B, v, U) /\ Link(g, A, g1, B) /\ SameLoop(g, g1)
  BY DEF Comes, Coded
<1>2. /\ GenOK(AddLocal(g1, decl)) /\ SameLoop(g1, AddLocal(g1, decl))
      /\ AddLocal(g1, decl).fn = g1.fn /\ AddLocal(g1, decl).code = g1.code
  BY <1>1, AddLocalIs
<1>3. Coded(R, pr, AddLocal(g1, decl), B, v, U)
  BY <1>1, <1>2, SameCoded
<1> QED
  BY <1>1, <1>2, <1>3 DEF Comes, Link, SameLoop, Size

LEMMA BeginScopeComes ==
  ASSUME NEW R, NEW pr, NEW g, NEW A, NEW g1, NEW B, NEW v, NEW U, Comes(R, pr, g, A, g1, B, v, U)
  PROVE  Comes(R, pr, g, A, BeginScope(g1), B, v, U) /\ Size(BeginScope(g1)) = Size(g1)
<1>1. GenOK(g1) /\ Coded(R, pr, g1, B, v, U) /\ Link(g, A, g1, B) /\ SameLoop(g, g1)
  BY DEF Comes, Coded
<1>2. /\ GenOK(BeginScope(g1)) /\ SameLoop(g1, BeginScope(g1))
      /\ BeginScope(g1).fn = g1.fn /\ BeginScope(g1).code = g1.code
  BY <1>1, BeginScopeIs
<1>3. Coded(R, pr, BeginScope(g1), B, v, U)
  BY <1>1, <1>2, SameCoded
<1> QED
  BY <1>1, <1>2, <1>3 DEF Comes, Link, SameLoop, Size

-----------------------------------------------------------------------------
(* Statements that are no blocks.                                          *)

LEMMA NewPlace ==
  ASSUME NEW R, NEW A, Carried(R, prog, blocks, ctl, gen, A, prog'), NEW op, NEW decl, NEW path, NEW head,
         NewToken(prog, blocks, prog', op, decl, path, head)
  PROVE  /\ Here \in Nat /\ Here # 0 /\ Here \in 1 .. Len(prog') /\ Len(prog') = Here /\ Here = Len(prog) + 1
         /\ prog'[Here].op = op /\ prog'[Here].path = path /\ prog'[Here].head = head
         /\ Goes(R, prog', Here)
         /\ R.to[Here] \in Int /\ R.to[Here + 1] \in Int /\ R.to[Len(prog') + 1] \in Int
         /\ Coded(R, prog', gen, A[gen.fn], R.to[Here], Unpatched(gen.code[gen.fn]))
         /\ GenOK(gen) /\ gen.fn \in Places
<1>1. /\ Len(prog) \in Nat /\ Len(prog') = Len(prog) + 1 /\ gen.fn \in Places
      /\ Coded(R, prog', gen, A[gen.fn], R.to[Len(prog) + 1], Unpatched(gen.code[gen.fn]))
      /\ GenOK(gen)
      /\ \A n \in Int : R.to[n] \in Int /\ R.past[n] \in Int /\ R.skip[n] \in Int
  BY CarriedFacts
<1>2. Here = Len(prog) + 1 /\ Here \in Nat /\ Here \in 1 .. Len(prog') /\ Here # 0 /\ Here + 1 \in Int /\ Here \in Int
  BY <1>1 DEF Here
<1>3. Goes(R, prog', Here)
  BY <1>2 DEF Carried, Respects
<1>4. /\ prog'[Here].op = op /\ prog'[Here].path = path /\ prog'[Here].head = head
  BY <1>2, NewTokenParts
<1> QED
  BY <1>1, <1>2, <1>3, <1>4

LEMMA PlainGen ==
  ASSUME NEW R, NEW A, Carried(R, prog, blocks, ctl, gen, A, prog'), NEW op, NEW decl,
         SimpleStep(prog, blocks, prog', blocks', op, decl),
         op \in {"call", "use", "var", "set", "return", "panic"}, ctl' = ctl,
         gen' = CASE op = "call"   -> GenCall
                  [] op = "use"    -> GenUse
                  [] op = "var"    -> GenVar
                  [] op = "set"    -> GenSet
                  [] op = "return" -> GenReturn
                  [] op = "panic"  -> GenPanic
  PROVE  Annotated(R, prog', blocks', ctl', gen')
<1> DEFINE U == Unpatched(gen.code[gen.fn])
           to == R.to[Len(prog') + 1]
<1>1. /\ Here \in Nat /\ Here # 0 /\ Here \in 1 .. Len(prog') /\ Len(prog') = Here
      /\ prog'[Here].op = op /\ Goes(R, prog', Here) /\ to \in Int /\ R.to[Here + 1] = to
      /\ Coded(R, prog', gen, A[gen.fn], R.to[Here], U) /\ GenOK(gen)
  BY NewPlace DEF SimpleStep
<1>2. R.to[Here] = Here
  BY <1>1 DEF Goes, Stops
<1>3. Coded(R, prog', gen, A[gen.fn], Here, U)
  BY <1>1, <1>2
<1>4. \A k \in {"CALL", "GET", "CONST"} : \A arg :
        op \in {"call", "use", "var", "set"} => FlowOK(R, prog', Instr(k, arg, Here), Here, to)
  BY <1>1 DEF FlowOK, Does, Instr
<1>5. \A k \in {"RETURN", "PANIC"} : \A arg :
        op \in {"return", "panic"} => FlowOK(R, prog', Instr(k, arg, Here), Here, to)
  BY <1>1 DEF FlowOK, Does, Instr
<1> HIDE DEF U, to
<1>6. ASSUME NEW k \in {"CALL", "GET", "CONST"}, NEW arg, op \in {"call", "use", "var", "set"}
      PROVE  \E B : Comes(R, prog', gen, A[gen.fn], Emit(gen, k, arg, Here), B, to, U)
  <2>1. k \notin {"JMP", "TEST"}
    OBVIOUS
  <2> QED
    BY <1>1, <1>3, <1>4, <1>6, <2>1, EmitComes
<1>7. ASSUME NEW k \in {"RETURN", "PANIC"}, NEW arg, op \in {"return", "panic"}
      PROVE  \E B : Comes(R, prog', gen, A[gen.fn], Emit(gen, k, arg, Here), B, to, U)
  <2>1. k \notin {"JMP", "TEST"}
    OBVIOUS
  <2> QED
    BY <1>1, <1>3, <1>5, <1>7, <2>1, EmitComes
<1>8. ASSUME NEW g, NEW B, Comes(R, prog', gen, A[gen.fn], g, B, to, U)
      PROVE  \E D : Comes(R, prog', gen, A[gen.fn], Pops(g, 1), D, to, U)
  <2>1. Coded(R, prog', g, B, to, U)
    BY <1>8 DEF Comes
  <2>2. PICK D : Comes(R, prog', g, B, Pops(g, 1), D, to, U)
    BY <2>1, PopsCoded
  <2> QED
    BY <1>1, <1>8, <2>2, ComesTrans
<1>9. \E B : Comes(R, prog', gen, A[gen.fn], gen', B, to, U)
  <2>1. CASE op = "call"
    <3>1. gen' = Pops(Emit(gen, "CALL", 0, Here), 1)
      BY <2>1 DEF GenCall
    <3> QED
      BY <1>6, <1>8, <2>1, <3>1
  <2>2. CASE op = "use"
    <3>1. gen' = Pops(Emit(gen, "GET", Slot(gen), Here), 1)
      BY <2>2 DEF GenUse
    <3> QED
      BY <1>6, <1>8, <2>2, <3>1
  <2>3. CASE op = "var"
    <3>1. gen' = AddLocal(Emit(gen, "CONST", Here, Here), Here)
      BY <2>3 DEF GenVar
    <3>2. PICK B : Comes(R, prog', gen, A[gen.fn], Emit(gen, "CONST", Here, Here), B, to, U)
      BY <1>6, <2>3
    <3> QED
      BY <3>1, <3>2, AddLocalComes
  <2>4. CASE op = "set"
    <3>1. gen' = Emit(Emit(gen, "CONST", Here, Here), "SET", Slot(gen), 0)
      BY <2>4 DEF GenSet
    <3>2. PICK g : g = Emit(gen, "CONST", Here, Here)
      OBVIOUS
    <3>3. PICK B : Comes(R, prog', gen, A[gen.fn], g, B, to, U)
      BY <1>6, <2>4, <3>2
    <3>4. FlowOK(R, prog', Instr("SET", Slot(gen), 0), to, to) /\ "SET" \notin {"JMP", "TEST"} /\ 0 \in Nat
      BY DEF FlowOK, Instr
    <3>5. PICK D : Comes(R, prog', g, B, Emit(g, "SET", Slot(gen), 0), D, to, U)
      BY <1>1, <3>3, <3>4, EmitComes DEF Comes
    <3> QED
      BY <1>1, <3>1, <3>2, <3>3, <3>5, ComesTrans
  <2>5. CASE op = "return"
    BY <1>7, <2>5 DEF GenReturn
  <2>6. CASE op = "panic"
    BY <1>7, <2>6 DEF GenPanic
  <2> QED
    BY <2>1, <2>2, <2>3, <2>4, <2>5, <2>6
<1>10. PICK B : Comes(R, prog', gen, A[gen.fn], gen', B, R.to[Len(prog') + 1], Unpatched(gen.code[gen.fn]))
  BY <1>9 DEF to, U
<1> QED
  BY <1>10, SimpleSame

-----------------------------------------------------------------------------
(* Break and continue.                                                     *)

LEMMA AddBreak ==
  ASSUME NEW g, GenOK(g), NEW j, NEW g2, g2 = WithBreak(g, j)
  PROVE  /\ GenOK(g2) /\ g2.fn = g.fn /\ g2.code = g.code /\ g2.breaks = g.breaks \cup {j}
         /\ g2.loopStart = g.loopStart /\ g2.continueDest = g.continueDest /\ g2.continues = g.continues
BY DEF GenOK, WithBreak

LEMMA AddContinue ==
  ASSUME NEW g, GenOK(g), NEW j, NEW g2, g2 = WithContinue(g, j)
  PROVE  /\ GenOK(g2) /\ g2.fn = g.fn /\ g2.code = g.code /\ g2.continues = g.continues \cup {j}
         /\ g2.loopStart = g.loopStart /\ g2.continueDest = g.continueDest /\ g2.breaks = g.breaks
BY DEF GenOK, WithContinue

LEMMA OutComes ==
  ASSUME NEW R, NEW pr, NEW g, NEW a, NEW v, Coded(R, pr, g, a, v, Unpatched(g.code[g.fn])), NEW w \in Int
  PROVE  \E B : JumpsOut(R, pr, g, a, Jump(Cleanup(g), 0), B, JumpAt(Cleanup(g)), v, w)
<1> DEFINE U == Unpatched(g.code[g.fn])
<1>1. PICK h : h = Cleanup(g)
  OBVIOUS
<1>2. PICK B : Comes(R, pr, g, a, h, B, v, U)
  BY <1>1, CleanupCoded
<1> HIDE DEF U
<1>3. Coded(R, pr, h, B, v, U) /\ h.fn = g.fn /\ GenOK(g) /\ GenOK(h)
  BY <1>2 DEF Comes, Coded, Link
<1>4. FlowOK(R, pr, Instr("JMP", 0, 0), v, w)
  BY DEF FlowOK, Instr
<1>5. Holed(R, pr, h, B, U, "JMP", 0, v, w, Jump(h, 0), JumpAt(h))
  BY <1>3, <1>4, HoleComes DEF Jump, JumpAt
<1>6. PICK D : Comes(R, pr, h, B, Jump(h, 0), D, w, U \cup {JumpAt(h)}) /\ D[JumpAt(h)] = v
  BY <1>5 DEF Holed
<1>7. Comes(R, pr, g, a, Jump(h, 0), D, w, U \cup {JumpAt(h)})
  BY <1>2, <1>3, <1>6, ComesTrans
<1>8. JumpAt(h) \in 1 .. Size(Jump(h, 0)) /\ Jump(h, 0).code[g.fn][JumpAt(h)].op = "JMP"
  <2>1. Size(h) \in Nat
    BY <1>3, GenFacts
  <2> QED
    BY <1>3, <1>5, <2>1 DEF JumpAt, Instr, Holed
<1> QED
  BY <1>1, <1>6, <1>7, <1>8 DEF JumpsOut, U

LEMMA BreakGen ==
  ASSUME NEW R, NEW A, Carried(R, prog, blocks, ctl, gen, A, prog'), NEW decl,
         SimpleStep(prog, blocks, prog', blocks', "break", decl),
         NEW l, LoopAt(blocks, Len(blocks), l), ctl' = ctl, gen' = GenBreak
  PROVE  Annotated(R, prog', blocks', ctl', gen')
<1>1. /\ prog'[Here].op = "break" /\ Goes(R, prog', Here) /\ R.to[Len(prog') + 1] \in Int
      /\ Coded(R, prog', gen, A[gen.fn], R.to[Here], Unpatched(gen.code[gen.fn]))
      /\ prog'[Here].path = PlacesOf(blocks) /\ Here = Len(prog) + 1
  BY NewPlace DEF SimpleStep
<1>2. R.to[Here] = R.past[blocks[l].place]
  <2>1. LoopIn(prog', Here) = blocks[l].place
    BY <1>1, LeftLoop DEF Carried
  <2> QED
    BY <1>1, <2>1 DEF Goes
<1>3. PICK h, j : h = Jump(Cleanup(gen), 0) /\ j = JumpAt(Cleanup(gen))
  OBVIOUS
<1>4. PICK B : JumpsOut(R, prog', gen, A[gen.fn], h, B, j, R.past[blocks[l].place], R.to[Len(prog') + 1])
  BY <1>1, <1>2, <1>3, OutComes
<1>5. /\ GenOK(h) /\ Coded(R, prog', h, B, R.to[Len(prog') + 1], Unpatched(gen.code[gen.fn]) \cup {j})
      /\ Link(gen, A[gen.fn], h, B) /\ SameLoop(gen, h) /\ h.fn = gen.fn
      /\ B[j] = R.past[blocks[l].place] /\ j \in 1 .. Size(h) /\ h.code[gen.fn][j].op = "JMP"
  BY <1>4 DEF JumpsOut, Comes, Coded, Link
<1>6. gen' = WithBreak(h, j)
  BY <1>3 DEF GenBreak, WithBreak
<1>7. /\ GenOK(gen') /\ gen'.fn = h.fn /\ gen'.code = h.code /\ gen'.breaks = gen.breaks \cup {j}
      /\ gen'.loopStart = gen.loopStart /\ gen'.continueDest = gen.continueDest
      /\ gen'.continues = gen.continues
  BY <1>5, <1>6, AddBreak DEF SameLoop
<1>8. /\ Coded(R, prog', gen', B, R.to[Len(prog') + 1], Unpatched(gen.code[gen.fn]) \cup {j})
      /\ Link(gen, A[gen.fn], gen', B)
  BY <1>5, <1>7, SameCoded DEF Link
<1>9. /\ j \in 1 .. Size(gen') /\ gen'.code[gen.fn][j].op = "JMP"
  BY <1>5, <1>7 DEF Size
<1>10. JumpsLoop(R, blocks, gen, gen', B, l, j)
  BY <1>5, <1>7, <1>9 DEF JumpsLoop
<1> QED
  BY <1>8, <1>10, SimpleJump

LEMMA ContinueGen ==
  ASSUME NEW R, NEW A, Carried(R, prog, blocks, ctl, gen, A, prog'), NEW decl,
         SimpleStep(prog, blocks, prog', blocks', "continue", decl),
         NEW l, LoopAt(blocks, Len(blocks), l), ctl' = ctl, gen' = GenContinue
  PROVE  Annotated(R, prog', blocks', ctl', gen')
<1>1. /\ prog'[Here].op = "continue" /\ Goes(R, prog', Here) /\ R.to[Len(prog') + 1] \in Int
      /\ Coded(R, prog', gen, A[gen.fn], R.to[Here], Unpatched(gen.code[gen.fn]))
      /\ prog'[Here].path = PlacesOf(blocks) /\ Here = Len(prog) + 1
  BY NewPlace DEF SimpleStep
<1>2. R.to[Here] = blocks[l].place
  <2>1. LoopIn(prog', Here) = blocks[l].place
    BY <1>1, LeftLoop DEF Carried
  <2> QED
    BY <1>1, <2>1 DEF Goes
<1>3. PICK c : c = Cleanup(gen)
  OBVIOUS
<1>4. PICK B : Comes(R, prog', gen, A[gen.fn], c, B, R.to[Here], Unpatched(gen.code[gen.fn]))
  BY <1>1, <1>3, CleanupCoded
<1>5. c.continueDest = gen.continueDest /\ GenOK(gen) /\ GenOK(c) /\ c.fn = gen.fn /\ gen.fn \in Places
  BY <1>1, <1>4, GenFacts DEF Comes, SameLoop, Coded, Link
<1>6. l \in 3 .. Len(blocks) /\ FnIs(blocks, Len(blocks), gen.fn)
  BY CarriedFacts DEF LoopAt
<1>7. LoopOK(R, blocks, gen.code, A, gen, Len(blocks), gen.fn, l)
  BY <1>5, <1>6 DEF Carried, Written, LoopsOK
<1>8. CASE blocks[l].op = "while"
  <2>1. /\ gen.continueDest = gen.loopStart /\ gen.loopStart \in 0 .. Size(gen)
        /\ A[gen.fn][gen.loopStart + 1] = blocks[l].place /\ Size(gen) \in Nat
    BY <1>5, <1>7, <1>8, GenFacts DEF LoopOK, Size
  <2>2. gen' = Jump(c, gen.loopStart + 1)
    BY <1>3, <1>5, <2>1 DEF GenContinue
  <2>3. /\ gen.loopStart + 1 \in 1 .. Size(c) + 1 /\ Size(c) \in Nat
        /\ B[gen.loopStart + 1] = blocks[l].place
    <3>1. Grown(gen.code[gen.fn], A[gen.fn], c.code[gen.fn], B) /\ Size(c) \in Nat
      BY <1>4, <1>5, GenFacts DEF Comes, Link
    <3>2. Len(gen.code[gen.fn]) <= Len(c.code[gen.fn]) /\ Size(c) = Len(c.code[gen.fn])
      BY <1>5, <3>1 DEF Grown, Size
    <3>3. gen.loopStart + 1 \in 1 .. Len(gen.code[gen.fn]) + 1 /\ Len(gen.code[gen.fn]) \in Nat
      BY <2>1 DEF Size
    <3>4. B[gen.loopStart + 1] = blocks[l].place
      BY <2>1, <3>1, <3>3 DEF Grown
    <3>5. PICK s, m, n : s = gen.loopStart + 1 /\ m = Len(gen.code[gen.fn]) /\ n = Size(c)
      OBVIOUS
    <3>6. s \in 1 .. m + 1 /\ m \in Nat /\ n \in Nat /\ m <= n
      BY <3>1, <3>2, <3>3, <3>5
    <3>7. s \in 1 .. n + 1
      BY <3>6
    <3> QED
      BY <3>1, <3>4, <3>5, <3>7
  <2>4. Coded(R, prog', c, B, R.to[Here], Unpatched(gen.code[gen.fn]))
    BY <1>4 DEF Comes
  <2>5. PICK D : Comes(R, prog', c, B, gen', D, R.to[Len(prog') + 1], Unpatched(gen.code[gen.fn]))
    BY <1>1, <1>2, <2>2, <2>3, <2>4, BackComes
  <2>6. Comes(R, prog', gen, A[gen.fn], gen', D, R.to[Len(prog') + 1], Unpatched(gen.code[gen.fn]))
    BY <1>4, <1>5, <2>5, ComesTrans
  <2> QED
    BY <2>6, SimpleSame
<1>9. CASE blocks[l].op # "while"
  <2>1. c.continueDest = -1
    BY <1>5, <1>7, <1>9 DEF LoopOK
  <2>2. PICK h, j : h = Jump(Cleanup(gen), 0) /\ j = JumpAt(Cleanup(gen))
    OBVIOUS
  <2>3. PICK D : JumpsOut(R, prog', gen, A[gen.fn], h, D, j, blocks[l].place, R.to[Len(prog') + 1])
    BY <1>1, <1>2, <2>2, OutComes
  <2>4. /\ GenOK(h) /\ Coded(R, prog', h, D, R.to[Len(prog') + 1], Unpatched(gen.code[gen.fn]) \cup {j})
        /\ Link(gen, A[gen.fn], h, D) /\ SameLoop(gen, h) /\ h.fn = gen.fn
        /\ D[j] = blocks[l].place /\ j \in 1 .. Size(h) /\ h.code[gen.fn][j].op = "JMP"
    BY <2>3 DEF JumpsOut, Comes, Coded, Link
  <2>5. gen' = WithContinue(h, j)
    BY <1>3, <2>1, <2>2 DEF GenContinue, WithContinue
  <2>6. /\ GenOK(gen') /\ gen'.fn = h.fn /\ gen'.code = h.code /\ gen'.continues = gen.continues \cup {j}
        /\ gen'.loopStart = gen.loopStart /\ gen'.continueDest = gen.continueDest
        /\ gen'.breaks = gen.breaks
    BY <2>4, <2>5, AddContinue DEF SameLoop
  <2>7. /\ Coded(R, prog', gen', D, R.to[Len(prog') + 1], Unpatched(gen.code[gen.fn]) \cup {j})
        /\ Link(gen, A[gen.fn], gen', D)
    BY <2>4, <2>6, SameCoded DEF Link
  <2>8. /\ j \in 1 .. Size(gen') /\ gen'.code[gen.fn][j].op = "JMP"
    BY <2>4, <2>6 DEF Size
  <2>9. JumpsLoop(R, blocks, gen, gen', D, l, j)
    BY <1>9, <2>4, <2>6, <2>8 DEF JumpsLoop
  <2> QED
    BY <2>7, <2>9, SimpleJump
<1> QED
  BY <1>8, <1>9

-----------------------------------------------------------------------------
(* A block is opened, in the same function.                                *)

LEMMA MoreLoops ==
  ASSUME NEW bs2, NEW n \in Nat, n >= 2, bs2[n + 1].op # "defer", NEW f
  PROVE  /\ FnIs(bs2, n + 1, f) <=> FnIs(bs2, n, f)
         /\ bs2[n + 1].op \notin Loops => \A l : LoopAt(bs2, n + 1, l) <=> LoopAt(bs2, n, l)
         /\ bs2[n + 1].op \in Loops => \A l : LoopAt(bs2, n + 1, l) <=> l = n + 1
<1>1. \A m : m \in 3 .. n + 1 <=> m \in 3 .. n \/ m = n + 1
  OBVIOUS
<1>2. FnIs(bs2, n + 1, f) <=> FnIs(bs2, n, f)
  BY <1>1 DEF FnIs
<1>3. ASSUME bs2[n + 1].op \notin Loops, NEW l
      PROVE  LoopAt(bs2, n + 1, l) <=> LoopAt(bs2, n, l)
  <2>1. \A m : l \in 3 .. n => (m \in l + 1 .. n + 1 <=> m \in l + 1 .. n \/ m = n + 1)
    OBVIOUS
  <2> QED
    BY <1>1, <1>3, <2>1 DEF LoopAt
<1>4. ASSUME bs2[n + 1].op \in Loops, NEW l
      PROVE  LoopAt(bs2, n + 1, l) <=> l = n + 1
  <2>1. CASE l = n + 1
    <3>1. ~\E m : m \in l + 1 .. n + 1
      BY <2>1
    <3> QED
      BY <1>1, <1>4, <2>1, <3>1 DEF LoopAt
  <2>2. CASE l \in 3 .. n
    <3>1. n + 1 \in l + 1 .. n + 1
      BY <2>2
    <3> QED
      BY <1>4, <2>2, <3>1 DEF LoopAt
  <2> QED
    BY <1>1, <2>1, <2>2 DEF LoopAt
<1> QED
  BY <1>2, <1>3, <1>4

LEMMA ControlIs ==
  ASSUME NEW exit, NEW ends, NEW old
  PROVE  /\ Control(exit, ends, old).exit = exit /\ Control(exit, ends, old).ends = ends
         /\ Control(exit, ends, old).old = old
BY DEF Control

LEMMA OpenWritten ==
  ASSUME NEW R, NEW pr, NEW bs, NEW ct, NEW g, NEW A, NEW pr2, Carried(R, pr, bs, ct, g, A, pr2),
         NEW op, NEW decl, NEW bs2, OpenStep(pr, bs, pr2, bs2, op, decl), op # "defer",
         NEW g2, NEW B, NEW x, OpensTo(R, pr2, Len(pr) + 1, op, g, A[g.fn], g2, B, x),
         NEW ct2, ct2 = Append(ct, Control(x, {}, g))
  PROVE  Annotated(R, pr2, bs2, ct2, g2)
<1> DEFINE N == Len(bs)
           U == Unpatched(g.code[g.fn]) \cup (IF op \in Tests THEN {x} ELSE {})
<1>1. /\ Len(pr) \in Nat /\ Len(pr2) = Len(pr) + 1 /\ N \in Nat /\ N >= 2
      /\ g.fn \in Places /\ FnIs(bs, N, g.fn) /\ IsSeq(ct) /\ Len(ct) = N - 2
      /\ \A f : FnIs(bs, N, f) => f = g.fn
      /\ GenOK(g) /\ IsSeq(g.locals)
  BY CarriedFacts, GenFacts
<1>0. PICK K \in Nat : K = N + 1
  BY <1>1
<1>2. /\ Len(bs2) = K /\ \A m \in 1 .. N : bs2[m] = bs[m]
      /\ bs2[K].op = op /\ bs2[K].place = Len(pr) + 1 /\ bs2[K].head = Len(pr) + 1
      /\ op \in Openers
  <2>1. OpenStep(pr, bs, pr2, bs2, op, decl)
    OBVIOUS
  <2>2. op \in Openers
    BY DEF OpenStep
  <2> QED
    BY <1>0, <1>1, <2>1, <2>2, OpenBlocks
<1>3. SameBlocks(bs, bs2, N)
  BY <1>1, <1>2 DEF SameBlocks
<1>4. /\ IsSeq(ct2) /\ Len(ct2) = K - 2 /\ SameCtl(ct, ct2, N)
      /\ ct2[K - 2] = Control(x, {}, g)
  <2>0. Len(ct) + 1 = K - 2
    BY <1>0, <1>1
  <2>1. /\ IsSeq(ct2) /\ Len(ct2) = K - 2 /\ ct2[K - 2] = Control(x, {}, g)
        /\ \A m \in 1 .. Len(ct) : ct2[m] = ct[m]
    BY <1>1, <2>0, SeqAppend
  <2>2. \A m \in 3 .. N : m - 2 \in 1 .. Len(ct)
    BY <1>1
  <2> QED
    BY <2>1, <2>2 DEF SameCtl
<1>5. /\ FnIs(bs2, N, g.fn) /\ \A f : FnIs(bs2, N, f) => f = g.fn
      /\ \A l : LoopAt(bs2, N, l) <=> LoopAt(bs, N, l)
  BY <1>1, <1>3, FnSame
<1>6. /\ \A f : FnIs(bs2, K, f) <=> f = g.fn
      /\ op \notin Loops => \A l : LoopAt(bs2, K, l) <=> LoopAt(bs, N, l)
      /\ op \in Loops => \A l : LoopAt(bs2, K, l) <=> l = K
  <2>1. /\ N >= 2 /\ N \in Nat /\ bs2[N + 1].op # "defer" /\ bs2[N + 1].op = op
    BY <1>0, <1>1, <1>2
  <2>2. ASSUME NEW f PROVE FnIs(bs2, N + 1, f) <=> f = g.fn
    <3>1. FnIs(bs2, N + 1, f) <=> FnIs(bs2, N, f)
      BY <2>1, MoreLoops
    <3> QED
      BY <1>5, <3>1
  <2>3. /\ op \notin Loops => \A l : LoopAt(bs2, N + 1, l) <=> LoopAt(bs2, N, l)
        /\ op \in Loops => \A l : LoopAt(bs2, N + 1, l) <=> l = N + 1
    BY <2>1, MoreLoops
  <2> QED
    BY <1>0, <1>5, <2>2, <2>3
<1>7. /\ Coded(R, pr2, g2, B, R.to[Len(pr2) + 1], U) /\ Link(g, A[g.fn], g2, B)
      /\ LoopBegun(op, Len(pr) + 1, g, g2, B) /\ TestAt(op, Len(pr) + 1, g2, x)
  BY <1>1 DEF OpensTo
<1>8. PICK A2 : A2 = Onward(A, g, B)
  OBVIOUS
<1>9. Further(R, pr2, g, A, g2, A2, R.to[Len(pr2) + 1])
  BY <1>7, <1>8, StepGrown
<1>10. AllGrown(g.code, A, g2.code, A2) /\ IsMap(A2) /\ g2.fn = g.fn
  BY <1>9 DEF Further
<1>11. A2[g.fn] = B
  BY <1>1, <1>8 DEF Onward, Carried, IsMap
<1>12. Under(R, bs2, ct2, g2.code, A2, N)
  <2>1. Under(R, bs, ct, g.code, A, N)
    BY DEF Carried, Written
  <2> QED
    BY <1>1, <1>3, <1>4, <1>10, <2>1, UnderKept
<1>13. LoopsOK(R, bs2, ct2, g2.code, A2, g, N)
  <2>1. LoopsOK(R, bs, ct, g.code, A, g, N)
    BY DEF Carried, Written
  <2>2. SameLoop(g, g) /\ SameOlds(ct, ct2, N)
    BY <1>4 DEF SameLoop, SameCtl, SameOlds
  <2> QED
    BY <1>1, <1>3, <1>10, <2>1, <2>2, LoopsOKKept
<1>14. Held(R, bs2, ct2, g2.code, A2, K)
  <2>1. ct2[K - 2] = Control(x, {}, g)
    BY <1>1, <1>4
  <2>2. ct2[K - 2].exit = x /\ ct2[K - 2].ends = {}
    <3>1. Control(x, {}, g).exit = x /\ Control(x, {}, g).ends = {}
      BY ControlIs
    <3> QED
      BY <2>1, <3>1
  <2>3. op \in Tests => /\ x \in 1 .. Len(g2.code[g.fn]) /\ g2.code[g.fn][x].op = "TEST"
                        /\ g2.code[g.fn][x].of = bs2[K].place
    BY <1>2, <1>7, <1>10 DEF TestAt, Size
  <2>4. ASSUME NEW f \in Places, FnIs(bs2, K, f) PROVE f = g.fn
    BY <1>6, <2>4
  <2> QED
    BY <1>2, <2>2, <2>3, <2>4 DEF Held, Jumps
<1>15. Under(R, bs2, ct2, g2.code, A2, K)
  <2>1. /\ ct2[K - 2] = Control(x, {}, g) /\ ct2[K - 2].old = g
        /\ IsControl(ct2[K - 2])
    <3>1. Control(x, {}, g).old = g /\ IsControl(Control(x, {}, g))
      BY DEF Control, IsControl
    <3> QED
      BY <1>4, <3>1
  <2>2. K - 1 = N
    BY <1>0, <1>1
  <2>3. \A m \in 3 .. K : m \in 3 .. N \/ m = K
    BY <1>0, <1>1
  <2> QED
    BY <1>1, <1>5, <1>12, <1>13, <1>14, <2>1, <2>2, <2>3 DEF Under
<1>16. LoopsOK(R, bs2, ct2, g2.code, A2, g2, K)
  <2>1. CASE op \in Loops
    <3>1. /\ g2.loopStart \in 0 .. Len(g2.code[g.fn]) /\ A2[g.fn][g2.loopStart + 1] = bs2[K].place
          /\ g2.breaks = {}
          /\ IF op = "while" THEN g2.continueDest = g2.loopStart
             ELSE g2.continueDest = -1 /\ g2.continues = {}
      BY <1>2, <1>7, <1>10, <1>11, <2>1 DEF LoopBegun, Size
    <3>2. LoopOK(R, bs2, g2.code, A2, g2, K, g.fn, K)
      BY <1>2, <3>1 DEF LoopOK, Jumps
    <3>3. K \in 3 .. K
      BY <1>0, <1>1
    <3> QED
      BY <1>6, <2>1, <3>2, <3>3 DEF LoopsOK
  <2>2. CASE op \notin Loops
    <3>1. SameLoop(g, g2)
      BY <1>7, <2>2 DEF LoopBegun
    <3>2. \A m \in 3 .. K : m \in 3 .. N \/ (m = K /\ bs2[m].op # "defer")
      BY <1>0, <1>1, <1>2
    <3>3. \A l : LoopAt(bs2, K, l) <=> LoopAt(bs2, N, l)
      BY <1>5, <1>6, <2>2
    <3>4. \A m \in 3 .. N : m \in 3 .. K
      BY <1>0, <1>1
    <3>5. ASSUME NEW l, LoopAt(bs2, K, l)
          PROVE  l \in 3 .. N /\ LoopAt(bs2, N, l)
      BY <3>3, <3>5 DEF LoopAt
    <3>6. ASSUME NEW f \in Places, NEW l \in 3 .. K, FnIs(bs2, K, f), LoopAt(bs2, K, l)
          PROVE  LoopOK(R, bs2, g2.code, A2, g2, K, f, l)
      <4>1. l \in 3 .. N /\ LoopAt(bs2, N, l) /\ FnIs(bs2, N, f)
        BY <1>5, <1>6, <3>5, <3>6
      <4>2. LoopOK(R, bs2, g2.code, A2, g, N, f, l)
        BY <1>13, <4>1 DEF LoopsOK
      <4> QED
        BY <3>1, <4>2 DEF LoopOK, SameLoop
    <3>7. ASSUME \A l \in 3 .. K : ~LoopAt(bs2, K, l), NEW d \in 3 .. K, bs2[d].op = "defer"
          PROVE  g2.continueDest = ct2[d - 2].old.continueDest /\ g2.continues = ct2[d - 2].old.continues
      <4>1. d \in 3 .. N
        BY <3>2, <3>7
      <4>2. \A l \in 3 .. N : ~LoopAt(bs2, N, l)
        BY <3>3, <3>4, <3>7
      <4>3. g.continueDest = ct2[d - 2].old.continueDest /\ g.continues = ct2[d - 2].old.continues
        BY <1>13, <3>7, <4>1, <4>2 DEF LoopsOK
      <4> QED
        BY <3>1, <4>3 DEF SameLoop
    <3> QED
      BY <3>6, <3>7 DEF LoopsOK
  <2> QED
    BY <2>1, <2>2
<1>17. ASSUME NEW j \in U
       PROVE  Hole(bs2, ct2, g2, g.fn, j)
  <2>1. K \in 3 .. K /\ ct2[K - 2] = Control(x, {}, g) /\ FnIs(bs2, K, g.fn)
        /\ ct2[K - 2].exit = x /\ ct2[K - 2].old = g /\ K - 1 = N
    BY <1>0, <1>1, <1>4, <1>6, ControlIs
  <2>2. CASE op \in Tests /\ j = x
    <3>1. BlockHole(bs2, ct2, K, g.fn, j)
      BY <1>2, <2>1, <2>2 DEF BlockHole
    <3> QED
      BY <1>2, <2>1, <3>1 DEF Hole
  <2>3. CASE j \in Unpatched(g.code[g.fn])
    <3>1. Hole(bs, ct, g, g.fn, j)
      BY <1>1, <2>3 DEF Carried, Written, Pending
    <3>2. CASE LoopHole(bs, g, N, g.fn, j)
      <4>1. LoopHole(bs2, g, N, g.fn, j)
        BY <1>1, <1>3, <3>2, LoopHoleKept
      <4>2. CASE op \in Loops
        <5>1. BlockHole(bs2, ct2, K, g.fn, j)
          BY <1>2, <2>1, <4>1, <4>2 DEF BlockHole
        <5> QED
          BY <1>2, <2>1, <5>1 DEF Hole
      <4>3. CASE op \notin Loops
        <5>1. SameLoop(g, g2)
          BY <1>7, <4>3 DEF LoopBegun
        <5>2. PICK l \in 3 .. N : LoopAt(bs2, N, l) /\ (j \in g.breaks \/ (bs2[l].op # "while" /\ j \in g.continues))
          BY <4>1 DEF LoopHole
        <5>3. l \in 3 .. K /\ LoopAt(bs2, K, l)
          BY <1>0, <1>1, <1>5, <1>6, <4>3, <5>2
        <5>4. LoopHole(bs2, g2, K, g.fn, j)
          BY <2>1, <5>1, <5>2, <5>3 DEF LoopHole, SameLoop
        <5> QED
          BY <1>2, <5>4 DEF Hole
      <4> QED
        BY <4>2, <4>3
    <3>3. CASE \E m \in 3 .. N : BlockHole(bs, ct, m, g.fn, j)
      <4>1. PICK m \in 3 .. N : BlockHole(bs, ct, m, g.fn, j)
        BY <3>3
      <4>2. SameBlocks(bs, bs2, m) /\ ct2[m - 2] = ct[m - 2] /\ m \in Nat /\ m >= 3
        BY <1>1, <1>3, <1>4, <4>1 DEF SameBlocks, SameCtl
      <4>3. BlockHole(bs2, ct2, m, g.fn, j)
        BY <4>1, <4>2, BlockHoleKept
      <4>4. m \in 3 .. K
        BY <1>0, <1>1, <4>1
      <4> QED
        BY <1>2, <4>3, <4>4 DEF Hole
    <3> QED
      BY <3>1, <3>2, <3>3 DEF Hole
  <2> QED
    BY <1>17, <2>2, <2>3
<1>18. ASSUME NEW f \in Places, NEW j, f # g.fn, Hole(bs, ct, g, f, j)
       PROVE  Hole(bs2, ct2, g2, f, j)
  <2>1. N <= Len(bs2) /\ Len(bs2) \in Nat
    BY <1>0, <1>1, <1>2
  <2> QED
    BY <1>1, <1>3, <1>4, <1>18, <2>1, OtherHoles
<1>19. SameDefers(bs, bs2)
  <2>1. \A m \in 3 .. K : m \in 3 .. N \/ (m = K /\ bs2[m].op # "defer")
    BY <1>0, <1>1, <1>2
  <2>2. \A m \in 3 .. N : bs2[m] = bs[m]
    BY <1>2
  <2> QED
    BY <1>2, <2>1, <2>2 DEF SameDefers
<1>20. ~EndsDefer(pr2, Len(pr2))
  BY <1>1, NewTokenParts, OpKinds DEF EndsDefer, OpenStep
<1>21. Written(R, pr2, bs2, ct2, g2, A2)
  <2>1. /\ FnIs(bs2, Len(bs2), g.fn) /\ Len(ct2) = Len(bs2) - 2
        /\ Under(R, bs2, ct2, g2.code, Onward(A, g, B), Len(bs2))
        /\ LoopsOK(R, bs2, ct2, g2.code, Onward(A, g, B), g2, Len(bs2))
    BY <1>1, <1>2, <1>4, <1>6, <1>8, <1>15, <1>16
  <2> HIDE DEF U
  <2> QED
    BY <1>4, <1>7, <1>8, <1>17, <1>18, <1>19, <1>20, <2>1, StepWritten
<1> QED
  BY <1>10, <1>21 DEF Annotated

-----------------------------------------------------------------------------
(* The code at the head of a block.                                        *)

LEMMA GuardComes ==
  ASSUME NEW R, NEW pr, NEW g, NEW A, NEW U, NEW n \in 1 .. Len(pr), n = Here, R.to[n + 1] \in Int,
         Coded(R, pr, g, A, n, U), pr[n].op \in Tests
  PROVE  Guards(R, pr, n, g, A, Guarded(g), U)
<1>1. FlowOK(R, pr, Instr("TEST", 0, n), n, R.to[n + 1]) /\ n \in Nat /\ "TEST" \in {"JMP", "TEST"}
  BY DEF FlowOK, Does, Instr
<1>2. PICK t : t = Emit(g, "TEST", 0, n)
  OBVIOUS
<1>3. Holed(R, pr, g, A, U, "TEST", n, n, R.to[n + 1], t, Size(g) + 1)
  BY <1>1, <1>2, HoleComes
<1>4. PICK B : Comes(R, pr, g, A, t, B, R.to[n + 1], U \cup {Size(g) + 1})
  BY <1>3 DEF Holed
<1>5. /\ Size(t) = Size(g) + 1 /\ t.code[g.fn][Size(g) + 1] = Instr("TEST", 0, n)
      /\ GenOK(t) /\ t.fn = g.fn
  BY <1>3, <1>4 DEF Holed, Comes, Coded, Link
<1>6. Guarded(g) = BeginScope(t)
  BY <1>2 DEF Guarded
<1>7. /\ Comes(R, pr, g, A, Guarded(g), B, R.to[n + 1], U \cup {Size(g) + 1})
      /\ Size(Guarded(g)) = Size(t)
  BY <1>4, <1>6, BeginScopeComes
<1>8. Guarded(g).fn = g.fn /\ Guarded(g).code = t.code
  BY <1>5, <1>6, BeginScopeIs
<1> QED
  BY <1>5, <1>7, <1>8 DEF Guards, Instr

LEMMA TestKept ==
  ASSUME NEW op, NEW n, NEW g, NEW A, NEW g2, NEW B, NEW x, TestAt(op, n, g, x), Link(g, A, g2, B),
         GenOK(g), GenOK(g2)
  PROVE  TestAt(op, n, g2, x)
<1> SUFFICES ASSUME op \in Tests
             PROVE  x \in 1 .. Size(g2) /\ g2.code[g2.fn][x].op = "TEST" /\ g2.code[g2.fn][x].of = n
  BY DEF TestAt
<1>1. x \in 1 .. Size(g) /\ g.code[g.fn][x].op = "TEST" /\ g.code[g.fn][x].of = n
  BY DEF TestAt
<1>2. g2.fn = g.fn /\ Grown(g.code[g.fn], A, g2.code[g.fn], B) /\ Size(g) \in Nat /\ Size(g2) \in Nat
  BY GenFacts DEF Link
<1>3. Size(g) <= Size(g2) /\ \A k \in 1 .. Size(g) :
        g2.code[g.fn][k].op = g.code[g.fn][k].op /\ g2.code[g.fn][k].of = g.code[g.fn][k].of
  BY <1>2 DEF Grown, Size
<1> QED
  BY <1>1, <1>2, <1>3

LEMMA WhileLoopIs ==
  ASSUME NEW g, GenOK(g), NEW g2, g2 = WhileLoop(g)
  PROVE  /\ GenOK(g2) /\ g2.fn = g.fn /\ g2.code = g.code /\ Size(g2) = Size(g)
         /\ g2.loopStart = Size(g) /\ g2.breaks = {} /\ g2.continueDest = Size(g)
<1>1. PICK n, d : n = Size(g) /\ d = Append(g.depths, g.depth)
  OBVIOUS
<1>2. g2 = [g EXCEPT !.loopStart = n, !.continueDest = n, !.breaks = {}, !.depths = d]
  BY <1>1 DEF WhileLoop
<1>3. /\ GenOK(g2) /\ g2.fn = g.fn /\ g2.code = g.code
      /\ g2.loopStart = n /\ g2.breaks = {} /\ g2.continueDest = n
  BY <1>2 DEF GenOK
<1> QED
  BY <1>1, <1>3 DEF Size

LEMMA ForLoopIs ==
  ASSUME NEW g, GenOK(g), NEW g2, g2 = ForLoop(g)
  PROVE  /\ GenOK(g2) /\ g2.fn = g.fn /\ g2.code = g.code /\ Size(g2) = Size(g)
         /\ g2.loopStart = Size(g) /\ g2.breaks = {} /\ g2.continueDest = -1 /\ g2.continues = {}
<1>1. PICK n, d : n = Size(g) /\ d = Append(g.depths, g.depth)
  OBVIOUS
<1>2. g2 = [g EXCEPT !.loopStart = n, !.continueDest = -1, !.continues = {}, !.breaks = {}, !.depths = d]
  BY <1>1 DEF ForLoop
<1>3. /\ GenOK(g2) /\ g2.fn = g.fn /\ g2.code = g.code
      /\ g2.loopStart = n /\ g2.breaks = {} /\ g2.continueDest = -1 /\ g2.continues = {}
  BY <1>2 DEF GenOK
<1> QED
  BY <1>1, <1>3 DEF Size

-----------------------------------------------------------------------------
LEMMA NoCtlIs ==
  ASSUME NEW x, NEW old
  PROVE  [NoCtl EXCEPT !.exit = x, !.old = old] = Control(x, {}, old)
<1>1. IsControl(NoCtl) /\ NoCtl.ends = {}
  BY DEF NoCtl, IsControl
<1>2. PICK c : c = NoCtl
  OBVIOUS
<1>3. IsControl(c) /\ c.ends = {}
  BY <1>1, <1>2
<1>4. PICK d : d = [c EXCEPT !.exit = x, !.old = old]
  OBVIOUS
<1>5. d = [exit |-> d.exit, ends |-> d.ends, old |-> d.old] /\ d.exit = x /\ d.ends = {} /\ d.old = old
  BY <1>3, <1>4 DEF IsControl
<1> QED
  BY <1>2, <1>4, <1>5 DEF Control

LEMMA OpenedIs ==
  ASSUME NEW g, NEW old, Opened(g, old)
  PROVE  gen' = g /\ ctl' = Append(ctl, Control(Size(g), {}, old))
<1>1. [NoCtl EXCEPT !.exit = Size(g), !.old = old] = Control(Size(g), {}, old)
  BY NoCtlIs
<1> QED
  BY <1>1 DEF Opened

LEMMA OpenPlace ==
  ASSUME NEW R, NEW A, Carried(R, prog, blocks, ctl, gen, A, prog'), NEW op, NEW decl,
         OpenStep(prog, blocks, prog', blocks', op, decl), op # "defer"
  PROVE  /\ Here \in Nat /\ Here \in 1 .. Len(prog') /\ Here = Len(prog) + 1 /\ prog'[Here].op = op
         /\ R.to[Here] \in Int /\ R.to[Here + 1] \in Int
         /\ op \in Tests => R.to[Here] = Here /\ prog'[Here].op \in Tests
         /\ op \notin Tests => op = "block" /\ R.to[Here] = R.to[Here + 1]
         /\ Coded(R, prog', gen, A[gen.fn], R.to[Here], Unpatched(gen.code[gen.fn]))
         /\ GenOK(gen) /\ gen.fn \in Places /\ Size(gen) \in Nat
<1>1. /\ Here \in Nat /\ Here \in 1 .. Len(prog') /\ Here = Len(prog) + 1 /\ prog'[Here].op = op
      /\ R.to[Here] \in Int /\ R.to[Here + 1] \in Int /\ Goes(R, prog', Here)
      /\ Coded(R, prog', gen, A[gen.fn], R.to[Here], Unpatched(gen.code[gen.fn]))
      /\ GenOK(gen) /\ gen.fn \in Places
  BY NewPlace DEF OpenStep
<1>2. op \in Openers
  BY DEF OpenStep
<1>3. op \in Tests => op \in Stops
  BY <1>2 DEF Openers, Tests, Stops, Loops
<1>4. op \notin Tests => op = "block"
  BY <1>2 DEF Openers, Tests
<1>5. Size(gen) \in Nat
  BY <1>1, GenFacts
<1> QED
  BY <1>1, <1>3, <1>4, <1>5 DEF Goes

LEMMA BlockGen ==
  ASSUME NEW R, NEW A, Carried(R, prog, blocks, ctl, gen, A, prog'), NEW decl,
         OpenStep(prog, blocks, prog', blocks', "block", decl), OpenBlock
  PROVE  Annotated(R, prog', blocks', ctl', gen')
<1> DEFINE U == Unpatched(gen.code[gen.fn])
<1>0. "block" \notin Tests /\ "block" \notin Loops /\ "block" # "defer"
  BY DEF Tests, Loops
<1>1. /\ Here = Len(prog) + 1 /\ R.to[Here] = R.to[Here + 1]
      /\ Coded(R, prog', gen, A[gen.fn], R.to[Here], U)
  BY <1>0, OpenPlace
<1> HIDE DEF U
<1>2. gen' = BeginScope(gen) /\ ctl' = Append(ctl, Control(Size(gen'), {}, gen))
  BY OpenedIs DEF OpenBlock
<1>3. Comes(R, prog', gen, A[gen.fn], gen', A[gen.fn], R.to[Here + 1], U)
  BY <1>1, <1>2, ComesSame, BeginScopeComes
<1>4. OpensTo(R, prog', Len(prog) + 1, "block", gen, A[gen.fn], gen', A[gen.fn], Size(gen'))
  <2>1. U = Unpatched(gen.code[gen.fn]) \cup (IF "block" \in Tests THEN {Size(gen')} ELSE {})
    BY <1>0 DEF U
  <2> QED
    BY <1>0, <1>1, <1>3, <2>1 DEF OpensTo, Comes, LoopBegun, TestAt
<1> QED
  BY <1>0, <1>2, <1>4, OpenWritten

LEMMA TestOpens ==
  ASSUME NEW R, NEW A, Carried(R, prog, blocks, ctl, gen, A, prog'), NEW op, NEW decl,
         OpenStep(prog, blocks, prog', blocks', op, decl), op # "defer", op \in Tests,
         NEW g, NEW B, NEW x,
         Coded(R, prog', g, B, R.to[Here + 1], Unpatched(gen.code[gen.fn]) \cup {x}),
         Link(gen, A[gen.fn], g, B), LoopBegun(op, Here, gen, g, B), TestAt(op, Here, g, x),
         gen' = g, ctl' = Append(ctl, Control(x, {}, gen))
  PROVE  Annotated(R, prog', blocks', ctl', gen')
<1>1. Here = Len(prog) + 1
  BY OpenPlace
<1>2. OpensTo(R, prog', Len(prog) + 1, op, gen, A[gen.fn], gen', B, x)
  BY <1>1 DEF OpensTo
<1> QED
  BY <1>2, OpenWritten

LEMMA IfGen ==
  ASSUME NEW R, NEW A, Carried(R, prog, blocks, ctl, gen, A, prog'), NEW decl,
         OpenStep(prog, blocks, prog', blocks', "if", decl), OpenIf
  PROVE  Annotated(R, prog', blocks', ctl', gen')
<1> DEFINE U == Unpatched(gen.code[gen.fn])
<1>0. "if" \in Tests /\ "if" \notin Loops /\ "if" # "defer"
  BY DEF Tests, Loops
<1>1. /\ Here = Len(prog) + 1 /\ R.to[Here] = Here /\ R.to[Here + 1] \in Int /\ Here \in 1 .. Len(prog')
      /\ prog'[Here].op \in Tests /\ Coded(R, prog', gen, A[gen.fn], Here, U) /\ Size(gen) \in Nat
  BY <1>0, OpenPlace
<1> HIDE DEF U
<1>2. gen' = Guarded(gen) /\ ctl' = Append(ctl, Control(Size(gen'), {}, gen))
  BY OpenedIs DEF OpenIf
<1>3. Guards(R, prog', Here, gen, A[gen.fn], gen', U)
  BY <1>1, <1>2, GuardComes
<1>4. PICK B : Comes(R, prog', gen, A[gen.fn], gen', B, R.to[Here + 1], U \cup {Size(gen) + 1})
  BY <1>3 DEF Guards
<1>5. Size(gen') = Size(gen) + 1
  BY <1>3 DEF Guards
<1>6. TestAt("if", Here, gen', Size(gen'))
  BY <1>1, <1>3, <1>5 DEF Guards, TestAt
<1>7. /\ Coded(R, prog', gen', B, R.to[Here + 1], U \cup {Size(gen')})
      /\ Link(gen, A[gen.fn], gen', B) /\ LoopBegun("if", Here, gen, gen', B)
  BY <1>0, <1>4, <1>5 DEF Comes, LoopBegun
<1> QED
  BY <1>0, <1>2, <1>6, <1>7, TestOpens DEF U

LEMMA SwitchGen ==
  ASSUME NEW R, NEW A, Carried(R, prog, blocks, ctl, gen, A, prog'), NEW decl,
         OpenStep(prog, blocks, prog', blocks', "switch", decl), OpenSwitch
  PROVE  Annotated(R, prog', blocks', ctl', gen')
<1> DEFINE U == Unpatched(gen.code[gen.fn])
<1>0. "switch" \in Tests /\ "switch" \notin Loops /\ "switch" # "defer"
  BY DEF Tests, Loops
<1>1. /\ Here = Len(prog) + 1 /\ R.to[Here] = Here /\ R.to[Here + 1] \in Int /\ Here \in 1 .. Len(prog')
      /\ prog'[Here].op \in Tests /\ Coded(R, prog', gen, A[gen.fn], Here, U) /\ Here \in Int
      /\ GenOK(gen)
  BY <1>0, OpenPlace
<1> HIDE DEF U
<1>2. PICK c, g : c = Emit(gen, "CONST", 0, 0) /\ g = AddLocal(BeginScope(c), None)
  OBVIOUS
<1>3. gen' = Guarded(g) /\ ctl' = Append(ctl, Control(Size(gen'), {}, gen))
  BY <1>2, OpenedIs DEF OpenSwitch
<1>4. PICK D : Comes(R, prog', gen, A[gen.fn], c, D, Here, U)
  <2>1. FlowOK(R, prog', Instr("CONST", 0, 0), Here, Here) /\ "CONST" \notin {"JMP", "TEST"} /\ 0 \in Nat
    BY DEF FlowOK, Instr
  <2> QED
    BY <1>1, <1>2, <2>1, EmitComes
<1>5. Comes(R, prog', gen, A[gen.fn], g, D, Here, U)
  BY <1>2, <1>4, BeginScopeComes, AddLocalComes
<1>6. Coded(R, prog', g, D, Here, U) /\ GenOK(g) /\ Size(g) \in Nat
  BY <1>5, GenFacts DEF Comes, Coded
<1>7. Guards(R, prog', Here, g, D, gen', U)
  BY <1>1, <1>3, <1>6, GuardComes
<1>8. PICK B : Comes(R, prog', g, D, gen', B, R.to[Here + 1], U \cup {Size(g) + 1})
  BY <1>7 DEF Guards
<1>9. Comes(R, prog', gen, A[gen.fn], gen', B, R.to[Here + 1], U \cup {Size(g) + 1})
  BY <1>1, <1>5, <1>8, ComesTrans
<1>10. Size(gen') = Size(g) + 1
  BY <1>7 DEF Guards
<1>11. TestAt("switch", Here, gen', Size(gen'))
  BY <1>6, <1>7, <1>10 DEF Guards, TestAt
<1>12. /\ Coded(R, prog', gen', B, R.to[Here + 1], U \cup {Size(gen')})
       /\ Link(gen, A[gen.fn], gen', B) /\ LoopBegun("switch", Here, gen, gen', B)
  BY <1>0, <1>9, <1>10 DEF Comes, LoopBegun
<1> QED
  BY <1>0, <1>3, <1>11, <1>12, TestOpens DEF U

(* What is done from one state of the compiler to the next adds up.        *)
LEMMA LinkComes ==
  ASSUME NEW R, NEW pr, NEW g, NEW a, GenOK(g), NEW g2, NEW b, GenOK(g2), Link(g, a, g2, b),
         NEW g3, NEW c, NEW v, NEW U, Comes(R, pr, g2, b, g3, c, v, U)
  PROVE  Link(g, a, g3, c) /\ Coded(R, pr, g3, c, v, U) /\ GenOK(g3) /\ SameLoop(g2, g3)
<1>1. GenOK(g3) /\ Link(g2, b, g3, c) /\ Coded(R, pr, g3, c, v, U) /\ SameLoop(g2, g3)
  BY DEF Comes, Coded
<1> QED
  BY <1>1, LinkTrans

LEMMA WhileGen ==
  ASSUME NEW R, NEW A, Carried(R, prog, blocks, ctl, gen, A, prog'), NEW decl,
         OpenStep(prog, blocks, prog', blocks', "while", decl), OpenWhile
  PROVE  Annotated(R, prog', blocks', ctl', gen')
<1> DEFINE U == Unpatched(gen.code[gen.fn])
<1>0. "while" \in Tests /\ "while" \in Loops /\ "while" # "defer"
  BY DEF Tests, Loops
<1>1. /\ Here = Len(prog) + 1 /\ R.to[Here] = Here /\ R.to[Here + 1] \in Int /\ Here \in 1 .. Len(prog')
      /\ prog'[Here].op \in Tests /\ Coded(R, prog', gen, A[gen.fn], Here, U) /\ Here \in Int
      /\ GenOK(gen) /\ Size(gen) \in Nat
  BY <1>0, OpenPlace
<1> HIDE DEF U
<1>2. PICK g : g = WhileLoop(gen)
  OBVIOUS
<1>3. gen' = Guarded(g) /\ ctl' = Append(ctl, Control(Size(gen'), {}, gen))
  BY <1>2, OpenedIs DEF OpenWhile, WhileLoop
<1>4. /\ GenOK(g) /\ g.fn = gen.fn /\ g.code = gen.code /\ Size(g) = Size(gen)
      /\ g.loopStart = Size(gen) /\ g.breaks = {} /\ g.continueDest = Size(gen)
  BY <1>1, <1>2, WhileLoopIs
<1>5. Coded(R, prog', g, A[gen.fn], Here, U) /\ Link(gen, A[gen.fn], g, A[gen.fn])
  BY <1>1, <1>4, SameCoded
<1>6. Guards(R, prog', Here, g, A[gen.fn], gen', U)
  BY <1>1, <1>3, <1>5, GuardComes
<1>7. PICK B : Comes(R, prog', g, A[gen.fn], gen', B, R.to[Here + 1], U \cup {Size(g) + 1})
  BY <1>6 DEF Guards
<1>8. Size(gen') = Size(gen) + 1
  BY <1>4, <1>6 DEF Guards
<1>9. /\ Coded(R, prog', gen', B, R.to[Here + 1], U \cup {Size(gen')}) /\ Link(gen, A[gen.fn], gen', B)
      /\ SameLoop(g, gen')
  BY <1>1, <1>4, <1>5, <1>7, <1>8, LinkComes
<1>10. TestAt("while", Here, gen', Size(gen'))
  BY <1>1, <1>4, <1>6, <1>8 DEF Guards, TestAt
<1>11. B[Size(gen) + 1] = Here
  <2>1. A[gen.fn][Size(gen) + 1] = Here /\ Size(gen) = Len(gen.code[gen.fn])
    BY <1>1 DEF Coded, Size
  <2>2. Grown(gen.code[gen.fn], A[gen.fn], gen'.code[gen.fn], B)
    BY <1>9 DEF Link
  <2>3. Size(gen) + 1 \in 1 .. Len(gen.code[gen.fn]) + 1
    BY <1>1, <2>1
  <2> QED
    BY <2>1, <2>2, <2>3 DEF Grown
<1>12. LoopBegun("while", Here, gen, gen', B)
  BY <1>0, <1>1, <1>4, <1>8, <1>9, <1>11 DEF LoopBegun, SameLoop
<1> QED
  BY <1>0, <1>3, <1>9, <1>10, <1>12, TestOpens DEF U

LEMMA ForGen ==
  ASSUME NEW R, NEW A, Carried(R, prog, blocks, ctl, gen, A, prog'), NEW op \in {"for", "forRange"}, NEW decl,
         OpenStep(prog, blocks, prog', blocks', op, decl), OpenFor
  PROVE  Annotated(R, prog', blocks', ctl', gen')
<1> DEFINE U == Unpatched(gen.code[gen.fn])
<1>0. op \in Tests /\ op \in Loops /\ op # "defer" /\ op # "while"
  BY DEF Tests, Loops
<1>1. /\ Here = Len(prog) + 1 /\ R.to[Here] = Here /\ R.to[Here + 1] \in Int /\ Here \in 1 .. Len(prog')
      /\ prog'[Here].op \in Tests /\ Coded(R, prog', gen, A[gen.fn], Here, U) /\ Here \in Int
      /\ GenOK(gen) /\ Size(gen) \in Nat /\ Here \in Nat
  BY <1>0, OpenPlace
<1> HIDE DEF U
<1>2. PICK l, c1, c2, i, g, t, y, x :
        /\ l = AddLocal(AddLocal(AddLocal(BeginScope(gen), Here), None), None)
        /\ c1 = Emit(l, "CONST", 0, 0) /\ c2 = Emit(c1, "CONST", 0, 0) /\ i = Emit(c2, "CONST", 0, 0)
        /\ g = ForLoop(i) /\ t = Emit(g, "TEST", 0, Here)
        /\ y = Emit(t, "CONST", Here, 0) /\ x = Emit(y, "SET", Slot(t), 0)
  OBVIOUS
<1>3. gen' = BeginScope(x) /\ ctl' = Append(ctl, Control(Size(t), {}, gen))
  <2>1. [NoCtl EXCEPT !.exit = Size(t), !.old = gen] = Control(Size(t), {}, gen)
    BY NoCtlIs
  <2>2. gen' = BeginScope(x) /\ ctl' = Append(ctl, [NoCtl EXCEPT !.exit = Size(t), !.old = gen])
    BY <1>2 DEF OpenFor, ForLoop
  <2> QED
    BY <2>1, <2>2
<1>4. Comes(R, prog', gen, A[gen.fn], l, A[gen.fn], Here, U)
  <2>1. Comes(R, prog', gen, A[gen.fn], BeginScope(gen), A[gen.fn], Here, U)
    BY <1>1, ComesSame, BeginScopeComes
  <2> QED
    BY <1>2, <2>1, AddLocalComes
<1>5. ASSUME NEW v \in Int, NEW h, NEW D, NEW V, Coded(R, prog', h, D, v, V), NEW k \in {"CONST", "SET"}, NEW arg
      PROVE  \E E : Comes(R, prog', h, D, Emit(h, k, arg, 0), E, v, V)
  <2>1. FlowOK(R, prog', Instr(k, arg, 0), v, v) /\ k \notin {"JMP", "TEST"} /\ 0 \in Nat
    BY DEF FlowOK, Instr
  <2> QED
    BY <1>5, <2>1, EmitComes
<1>6. ASSUME NEW h, NEW D, Comes(R, prog', gen, A[gen.fn], h, D, Here, U)
      PROVE  \E E : Comes(R, prog', gen, A[gen.fn], Emit(h, "CONST", 0, 0), E, Here, U)
  <2>1. Coded(R, prog', h, D, Here, U)
    BY <1>6 DEF Comes
  <2>2. Here \in Int /\ "CONST" \in {"CONST", "SET"}
    BY <1>1
  <2>3. PICK E : Comes(R, prog', h, D, Emit(h, "CONST", 0, 0), E, Here, U)
    BY <1>5, <2>1, <2>2
  <2> QED
    BY <1>1, <1>6, <2>3, ComesTrans, SMTT(30)
<1>7. PICK D : Comes(R, prog', gen, A[gen.fn], i, D, Here, U)
  <2>1. PICK D1 : Comes(R, prog', gen, A[gen.fn], c1, D1, Here, U)
    BY <1>2, <1>4, <1>6
  <2>2. PICK D2 : Comes(R, prog', gen, A[gen.fn], c2, D2, Here, U)
    BY <1>2, <1>6, <2>1
  <2> QED
    BY <1>2, <1>6, <2>2
<1>8. /\ GenOK(i) /\ Coded(R, prog', i, D, Here, U) /\ Link(gen, A[gen.fn], i, D) /\ Size(i) \in Nat
      /\ i.fn = gen.fn
  BY <1>7, GenFacts DEF Comes, Coded, Link
<1>9. /\ GenOK(g) /\ g.fn = i.fn /\ g.code = i.code /\ Size(g) = Size(i)
      /\ g.loopStart = Size(i) /\ g.breaks = {} /\ g.continueDest = -1 /\ g.continues = {}
  BY <1>2, <1>8, ForLoopIs
<1>10. Coded(R, prog', g, D, Here, U) /\ Link(i, D, g, D)
  BY <1>8, <1>9, SameCoded
<1>11. Link(gen, A[gen.fn], g, D)
  BY <1>1, <1>8, <1>9, <1>10, LinkTrans
<1>12. Holed(R, prog', g, D, U, "TEST", Here, Here, R.to[Here + 1], t, Size(g) + 1)
  <2>1. FlowOK(R, prog', Instr("TEST", 0, Here), Here, R.to[Here + 1]) /\ "TEST" \in {"JMP", "TEST"}
    BY <1>1 DEF FlowOK, Does, Instr
  <2> QED
    BY <1>1, <1>2, <1>10, <2>1, HoleComes
<1>13. PICK T : Comes(R, prog', g, D, t, T, R.to[Here + 1], U \cup {Size(g) + 1})
  BY <1>12 DEF Holed
<1>14. /\ Size(t) = Size(g) + 1 /\ t.code[g.fn][Size(g) + 1] = Instr("TEST", 0, Here)
       /\ GenOK(t) /\ t.fn = g.fn /\ Coded(R, prog', t, T, R.to[Here + 1], U \cup {Size(t)})
  BY <1>12, <1>13 DEF Holed, Comes, Coded, Link
<1>15. PICK Y : Comes(R, prog', t, T, y, Y, R.to[Here + 1], U \cup {Size(t)})
  BY <1>1, <1>2, <1>5, <1>14
<1>16. PICK X : Comes(R, prog', y, Y, x, X, R.to[Here + 1], U \cup {Size(t)})
  BY <1>1, <1>2, <1>5, <1>15 DEF Comes
<1>17. Comes(R, prog', t, T, gen', X, R.to[Here + 1], U \cup {Size(t)})
  BY <1>3, <1>14, <1>15, <1>16, ComesTrans, BeginScopeComes
<1>18. Link(gen, A[gen.fn], t, T) /\ SameLoop(g, t)
  BY <1>1, <1>9, <1>11, <1>13, LinkComes
<1>19. /\ Link(gen, A[gen.fn], gen', X) /\ Coded(R, prog', gen', X, R.to[Here + 1], U \cup {Size(t)})
       /\ GenOK(gen') /\ SameLoop(t, gen') /\ Link(t, T, gen', X)
  BY <1>1, <1>14, <1>17, <1>18, LinkComes DEF Comes
<1>20. TestAt(op, Here, gen', Size(t))
  <2>1. TestAt(op, Here, t, Size(t))
    BY <1>8, <1>9, <1>14 DEF TestAt, Instr
  <2> QED
    BY <1>14, <1>19, <2>1, TestKept
<1>21. Size(gen') \in Nat /\ Size(i) <= Size(gen') /\ X[Size(i) + 1] = Here
  <2>1. D[Size(i) + 1] = Here /\ Size(i) = Len(g.code[g.fn])
    BY <1>8, <1>9 DEF Coded, Size
  <2>2. /\ Grown(g.code[g.fn], D, t.code[g.fn], T) /\ Grown(t.code[t.fn], T, gen'.code[t.fn], X)
        /\ gen'.fn = t.fn
    BY <1>13, <1>19 DEF Comes, Link
  <2>3. /\ Size(i) + 1 \in 1 .. Len(g.code[g.fn]) + 1 /\ Len(g.code[g.fn]) <= Len(t.code[t.fn])
        /\ Len(t.code[t.fn]) <= Len(gen'.code[gen'.fn]) /\ Size(t) = Len(t.code[t.fn])
    BY <1>8, <1>14, <2>1, <2>2 DEF Grown, Size
  <2>4. Size(i) + 1 \in 1 .. Len(t.code[t.fn]) + 1
    BY <1>8, <1>9, <1>14, <2>3
  <2>5. Size(gen') \in Nat /\ Size(t) \in Nat
    BY <1>14, <1>19, GenFacts
  <2>6. X[Size(i) + 1] = T[Size(i) + 1]
    BY <2>2, <2>4 DEF Grown
  <2>7. T[Size(i) + 1] = D[Size(i) + 1]
    BY <2>2, <2>3 DEF Grown
  <2>8. Size(t) <= Size(gen') /\ Size(t) = Size(i) + 1
    BY <1>9, <1>14, <2>3 DEF Size
  <2> QED
    BY <1>8, <2>1, <2>5, <2>6, <2>7, <2>8
<1>22. LoopBegun(op, Here, gen, gen', X)
  BY <1>0, <1>8, <1>9, <1>18, <1>19, <1>21 DEF LoopBegun, SameLoop
<1> QED
  BY <1>0, <1>3, <1>19, <1>20, <1>22, TestOpens DEF U

-----------------------------------------------------------------------------
(* A deferred block is opened.                                             *)

LEMMA InDeferredIs ==
  ASSUME NEW g, GenOK(g), NEW f \in Places, NEW g2, g2 = InDeferred(g, f)
  PROVE  /\ GenOK(g2) /\ g2.fn = f /\ g2.code = g.code
         /\ g2.continueDest = g.continueDest /\ g2.continues = g.continues
<1>1. IsSeq(<<>>)
  BY DEF IsSeq
<1> QED
  BY <1>1 DEF GenOK, InDeferred

LEMMA GrownAll ==
  ASSUME NEW R, NEW pr, NEW g, NEW A, Codes(R, pr, g, A)
  PROVE  AllGrown(g.code, A, g.code, A)
<1> SUFFICES ASSUME NEW f \in Places
             PROVE  Len(g.code[f]) \in Nat /\ Grown(g.code[f], A[f], g.code[f], A[f])
  BY DEF AllGrown
<1>1. Fits(R, pr, g.code[f], A[f])
  BY DEF Codes
<1> QED
  BY <1>1, FitsFacts, GrownSame

LEMMA DeferOpened ==
  ASSUME NEW R, NEW pr, NEW bs, NEW ct, NEW g, NEW A, NEW pr2, Carried(R, pr, bs, ct, g, A, pr2),
         NEW decl, NEW bs2, OpenStep(pr, bs, pr2, bs2, "defer", decl), NEW x,
         NEW g2, GenOK(g2), g2.fn = Len(pr2), g2.code = g.code,
         g2.continueDest = g.continueDest, g2.continues = g.continues,
         NEW ct2, ct2 = Append(ct, Control(x, {}, g))
  PROVE  Annotated(R, pr2, bs2, ct2, g2)
<1> DEFINE N == Len(bs)
           n == Len(pr2)
<1>1. /\ Len(pr) \in Nat /\ Len(pr2) = Len(pr) + 1 /\ N \in Nat /\ N >= 2
      /\ g.fn \in Places /\ FnIs(bs, N, g.fn) /\ IsSeq(ct) /\ Len(ct) = N - 2
      /\ \A f : FnIs(bs, N, f) => f = g.fn
      /\ GenOK(g) /\ IsSeq(g.locals)
  BY CarriedFacts, GenFacts
<1>0. PICK K \in Nat : K = N + 1
  BY <1>1
<1>2. /\ Len(bs2) = K /\ \A m \in 1 .. N : bs2[m] = bs[m]
      /\ bs2[K].op = "defer" /\ bs2[K].place = n /\ bs2[K].head = n
      /\ \A m \in 1 .. N : bs[m].op # "defer"
  <2>1. OpenStep(pr, bs, pr2, bs2, "defer", decl)
    OBVIOUS
  <2>2. \A m \in 1 .. N : bs[m].op # "defer"
    BY DEF OpenStep
  <2> QED
    BY <1>0, <1>1, <2>1, <2>2, OpenBlocks
<1>3. /\ Codes(R, pr, g, A) /\ Endings(R, pr, bs, g, A) /\ Under(R, bs, ct, g.code, A, N)
      /\ LoopsOK(R, bs, ct, g.code, A, g, N) /\ Pending(bs, ct, g) /\ IsMap(A)
      /\ Grows(pr, pr2) /\ Len(pr2) <= MaxLen /\ Respects(R, pr2) /\ TextOK(pr, bs)
  BY DEF Carried, Written
<1>4. SameBlocks(bs, bs2, N)
  BY <1>1, <1>2 DEF SameBlocks
<1>5. /\ IsSeq(ct2) /\ Len(ct2) = K - 2 /\ SameCtl(ct, ct2, N) /\ SameOlds(ct, ct2, N)
      /\ ct2[K - 2] = Control(x, {}, g)
  <2>0. Len(ct) + 1 = K - 2
    BY <1>0, <1>1
  <2>1. /\ IsSeq(ct2) /\ Len(ct2) = K - 2 /\ ct2[K - 2] = Control(x, {}, g)
        /\ \A m \in 1 .. Len(ct) : ct2[m] = ct[m]
    BY <1>1, <2>0, SeqAppend
  <2>2. \A m \in 3 .. N : m - 2 \in 1 .. Len(ct)
    BY <1>1
  <2> QED
    BY <2>1, <2>2 DEF SameCtl, SameOlds
<1>6. ct2[K - 2].exit = x /\ ct2[K - 2].ends = {} /\ ct2[K - 2].old = g /\ IsControl(ct2[K - 2])
  <2>1. /\ Control(x, {}, g).exit = x /\ Control(x, {}, g).ends = {} /\ Control(x, {}, g).old = g
        /\ IsControl(Control(x, {}, g))
    BY DEF Control, IsControl
  <2> QED
    BY <1>5, <2>1
<1>7. g.fn = 0
  <2>1. \A m \in 3 .. N : bs[m].op # "defer"
    BY <1>1, <1>2
  <2> QED
    BY <1>1, <2>1 DEF FnIs
<1>8. n \in Places /\ n \in 1 .. n /\ 0 \in Places /\ n \in Int
  BY <1>1, <1>3, BodiesAssumption DEF Places
<1>9. AllGrown(g.code, A, g2.code, A)
  BY <1>3, GrownAll
<1>10. pr2[n].op = "defer" /\ R.to[n] = n
  <2>1. pr2[n].op = "defer"
    <3>1. NewToken(pr, bs, pr2, "defer", decl, PlacesOf(bs), 0)
      BY DEF OpenStep
    <3> QED
      BY <1>1, <3>1, NewTokenParts
  <2>2. Goes(R, pr2, n)
    BY <1>3, <1>8 DEF Respects
  <2> QED
    BY <2>1, <2>2 DEF Goes, Stops
<1>11. Codes(R, pr2, g2, A)
  <2> SUFFICES ASSUME NEW f \in Places
               PROVE  /\ Fits(R, pr2, g2.code[f], A[f]) /\ A[f][1] = R.to[f + 1]
                      /\ f > Len(pr2) => g2.code[f] = <<>>
    BY DEF Codes
  <2>1. /\ Fits(R, pr, g.code[f], A[f]) /\ A[f][1] = R.to[f + 1]
        /\ f > Len(pr) => g.code[f] = <<>>
    BY <1>3 DEF Codes
  <2>2. Fits(R, pr2, g.code[f], A[f])
    BY <1>1, <1>3, <2>1, FitsText
  <2>3. f > Len(pr2) => f > Len(pr)
    BY <1>1 DEF Places
  <2> QED
    BY <2>1, <2>2, <2>3
<1>12. FnIs(bs2, K, n) /\ \A f : FnIs(bs2, K, f) => f = n
  <2>1. K \in 3 .. K /\ \A m \in 3 .. K : m \in 1 .. N \/ m = K
    BY <1>0, <1>1
  <2>2. \A m \in 3 .. K : bs2[m].op = "defer" => m = K
    BY <1>2, <2>1
  <2> QED
    BY <1>2, <2>1, <2>2 DEF FnIs
<1>13. Endings(R, pr2, bs2, g2, A)
  <2>1. EndAt(g2.code, A, n) = R.to[n + 1]
    <3>1. g.code[n] = <<>> /\ A[n][1] = R.to[n + 1]
      BY <1>1, <1>3, <1>8 DEF Codes
    <3>2. Len(g.code[n]) = 0
      BY <3>1
    <3> QED
      BY <3>1, <3>2 DEF EndAt
  <2>2. EndAt(g2.code, A, 0) = n
    BY <1>1, <1>3, <1>7, <1>10 DEF Endings
  <2>3. ASSUME NEW m \in 3 .. Len(bs2), bs2[m].op = "defer"
        PROVE  EndAt(g2.code, A, 0) = bs2[m].place
    <3>1. m \in 1 .. N \/ m = K
      BY <1>0, <1>1, <1>2
    <3> QED
      BY <1>2, <2>2, <2>3, <3>1
  <2>4. ASSUME NEW y \in 1 .. Len(pr2), pr2[y].op = "end", pr2[pr2[y].head].op = "defer"
        PROVE  EndAt(g2.code, A, pr2[y].head) = y
    <3>1. y \in 1 .. Len(pr)
      BY <1>1, <1>10, <2>4
    <3>2. pr2[y] = pr[y]
      BY <1>3, <3>1 DEF Grows
    <3>3. pr[y].head \in 1 .. Len(pr)
      BY <1>3, <2>4, <3>1, <3>2, TextFacts, OpKinds
    <3>4. pr2[pr[y].head] = pr[pr[y].head]
      BY <1>3, <3>3 DEF Grows
    <3> QED
      BY <1>3, <2>4, <3>1, <3>2, <3>4 DEF Endings
  <2> QED
    BY <1>2, <1>12, <2>1, <2>3, <2>4 DEF Endings
<1>14. LoopsOK(R, bs2, ct2, g2.code, A, g, N) /\ FnIs(bs2, N, g.fn)
  <2>1. SameLoop(g, g)
    BY DEF SameLoop
  <2> QED
    BY <1>1, <1>3, <1>4, <1>5, <1>9, <2>1, LoopsOKKept, FnSame
<1>15. Held(R, bs2, ct2, g2.code, A, K)
  <2>1. "defer" \notin Tests
    BY DEF Tests, Loops
  <2> QED
    BY <1>2, <1>6, <2>1 DEF Held, Jumps
<1>16. Under(R, bs2, ct2, g2.code, A, K)
  <2>1. Under(R, bs2, ct2, g2.code, A, N)
    BY <1>1, <1>3, <1>4, <1>5, <1>9, UnderKept
  <2>2. \A m \in 3 .. K : m \in 3 .. N \/ m = K
    BY <1>0, <1>1
  <2>3. K - 1 = N
    BY <1>0, <1>1
  <2> QED
    BY <1>1, <1>6, <1>14, <1>15, <2>1, <2>2, <2>3 DEF Under
<1>17. ASSUME NEW l \in 3 .. K PROVE ~LoopAt(bs2, K, l)
  <2>1. l = K \/ K \in l + 1 .. K
    OBVIOUS
  <2>2. "defer" \notin Loops
    BY DEF Loops
  <2> QED
    BY <1>2, <2>1, <2>2 DEF LoopAt
<1>18. LoopsOK(R, bs2, ct2, g2.code, A, g2, K)
  <2>1. \A d \in 3 .. K : bs2[d].op = "defer" => d = K
    <3>1. \A d \in 3 .. K : d \in 1 .. N \/ d = K
      BY <1>0, <1>1
    <3> QED
      BY <1>2, <3>1
  <2> QED
    BY <1>6, <1>17, <2>1 DEF LoopsOK
<1>19. ASSUME NEW f \in Places, NEW j \in Unpatched(g2.code[f])
       PROVE  Hole(bs2, ct2, g2, f, j)
  <2>0. K \in 3 .. Len(bs2) /\ K - 1 = N
    BY <1>0, <1>1, <1>2
  <2>1. Hole(bs, ct, g, f, j)
    BY <1>3, <1>19 DEF Pending
  <2>2. CASE LoopHole(bs, g, N, f, j)
    <3>1. LoopHole(bs2, g, N, f, j)
      BY <1>1, <1>4, <2>2, LoopHoleKept
    <3>2. BlockHole(bs2, ct2, K, f, j)
      BY <1>2, <1>6, <2>0, <3>1 DEF BlockHole
    <3> QED
      BY <2>0, <3>2 DEF Hole
  <2>3. CASE \E m \in 3 .. N : BlockHole(bs, ct, m, f, j)
    <3>1. PICK m \in 3 .. N : BlockHole(bs, ct, m, f, j)
      BY <2>3
    <3>2. SameBlocks(bs, bs2, m) /\ ct2[m - 2] = ct[m - 2] /\ m \in Nat /\ m >= 3 /\ m \in 3 .. Len(bs2)
      BY <1>0, <1>1, <1>2, <1>4, <1>5, <3>1 DEF SameBlocks, SameCtl
    <3>3. BlockHole(bs2, ct2, m, f, j)
      BY <3>1, <3>2, BlockHoleKept
    <3> QED
      BY <3>2, <3>3 DEF Hole
  <2> QED
    BY <2>1, <2>2, <2>3 DEF Hole
<1>20. Written(R, pr2, bs2, ct2, g2, A)
  BY <1>2, <1>5, <1>11, <1>13, <1>16, <1>18, <1>19 DEF Written, Pending
<1> QED
  BY <1>3, <1>20 DEF Annotated

LEMMA DeferGen ==
  ASSUME NEW R, NEW A, Carried(R, prog, blocks, ctl, gen, A, prog'), NEW decl,
         OpenStep(prog, blocks, prog', blocks', "defer", decl), OpenDefer
  PROVE  Annotated(R, prog', blocks', ctl', gen')
<1>1. PICK g : g = InDeferred(gen, Here)
  OBVIOUS
<1>2. gen' = BeginScope(g) /\ ctl' = Append(ctl, Control(Size(gen'), {}, gen))
  BY <1>1, OpenedIs DEF OpenDefer, InDeferred
<1>3. Here \in Places /\ Len(prog') = Here /\ GenOK(gen)
  <2>1. Len(prog) \in Nat /\ Len(prog') = Len(prog) + 1 /\ GenOK(gen)
    BY CarriedFacts
  <2> QED
    BY <2>1, BodiesAssumption DEF Carried, Here, Places
<1>4. /\ GenOK(g) /\ g.fn = Here /\ g.code = gen.code
      /\ g.continueDest = gen.continueDest /\ g.continues = gen.continues
  BY <1>1, <1>3, InDeferredIs
<1>5. /\ GenOK(gen') /\ gen'.fn = Here /\ gen'.code = gen.code
      /\ gen'.continueDest = gen.continueDest /\ gen'.continues = gen.continues
  BY <1>2, <1>4, BeginScopeIs DEF SameLoop
<1> HIDE <1>1
<1> QED
  BY <1>2, <1>3, <1>5, DeferOpened

-----------------------------------------------------------------------------
(* What is still to be patched in the blocks that stay.                    *)
LEMMA BlocksHoleKept ==
  ASSUME NEW bs, NEW bs2, NEW ct, NEW ct2, NEW k \in Nat, SameBlocks(bs, bs2, k), SameCtl(ct, ct2, k),
         NEW m \in 3 .. k, NEW f, NEW j, BlockHole(bs, ct, m, f, j)
  PROVE  BlockHole(bs2, ct2, m, f, j)
<1>1. m \in Nat /\ m >= 3 /\ \A x \in 3 .. m : x \in 3 .. k
  OBVIOUS
<1>2. SameBlocks(bs, bs2, m) /\ ct2[m - 2] = ct[m - 2]
  BY <1>1 DEF SameBlocks, SameCtl
<1> QED
  BY <1>1, <1>2, BlockHoleKept

(* A block that is no loop is of no matter to the loops.                   *)
LEMMA LoopsMore ==
  ASSUME NEW R, NEW bs, NEW ct, NEW C, NEW A, NEW s, NEW n \in Nat, n >= 2,
         bs[n + 1].op \notin Loops \cup {"defer"}
  PROVE  LoopsOK(R, bs, ct, C, A, s, n + 1) <=> LoopsOK(R, bs, ct, C, A, s, n)
<1>0. PICK k \in Nat : k = n + 1
  OBVIOUS
<1>1. /\ \A f : FnIs(bs, k, f) <=> FnIs(bs, n, f)
      /\ \A l : LoopAt(bs, k, l) <=> LoopAt(bs, n, l)
  BY <1>0, MoreLoops
<1>2. /\ \A m \in 3 .. n : m \in 3 .. k
      /\ \A m \in 3 .. k : m \in 3 .. n \/ m = k
      /\ bs[k].op # "defer"
  BY <1>0
<1>3. \A l \in 3 .. k : LoopAt(bs, k, l) => l \in 3 .. n
  BY <1>1 DEF LoopAt
<1>4. \A f, l : LoopOK(R, bs, C, A, s, k, f, l) <=> LoopOK(R, bs, C, A, s, n, f, l)
  BY DEF LoopOK
<1>5. (\A l \in 3 .. k : ~LoopAt(bs, k, l)) <=> (\A l \in 3 .. n : ~LoopAt(bs, n, l))
  BY <1>1, <1>2, <1>3
<1>6. LoopsOK(R, bs, ct, C, A, s, k) => LoopsOK(R, bs, ct, C, A, s, n)
  BY <1>1, <1>2, <1>4, <1>5 DEF LoopsOK
<1>7. LoopsOK(R, bs, ct, C, A, s, n) => LoopsOK(R, bs, ct, C, A, s, k)
  BY <1>1, <1>2, <1>3, <1>4, <1>5 DEF LoopsOK
<1> QED
  BY <1>0, <1>6, <1>7

LEMMA TopFacts ==
  ASSUME NEW R, NEW pr, NEW bs, NEW ct, NEW g, NEW A, NEW pr2, Carried(R, pr, bs, ct, g, A, pr2), Len(bs) > 2
  PROVE  /\ TopOK(R, bs[Len(bs)].op, bs[Len(bs)].head, g, A[g.fn], ct[Len(bs) - 2])
         /\ TestAt(bs[Len(bs)].op, bs[Len(bs)].place, g, ct[Len(bs) - 2].exit)
         /\ Last(ct) = ct[Len(bs) - 2]
         /\ IsSeq(Front(ct)) /\ Len(Front(ct)) = Len(bs) - 3
         /\ \A m \in 1 .. Len(bs) - 3 : Front(ct)[m] = ct[m]
<1> DEFINE N == Len(bs)
<1>1. /\ N \in Nat /\ N >= 3 /\ g.fn \in Places /\ FnIs(bs, N, g.fn) /\ IsSeq(ct) /\ Len(ct) = N - 2
  BY CarriedFacts
<1>2. N \in 3 .. N /\ Under(R, bs, ct, g.code, A, N)
  BY <1>1 DEF Carried, Written
<1>3. Held(R, bs, ct, g.code, A, N) /\ IsControl(ct[N - 2]) /\ IsSeq(ct[N - 2].old.locals)
  BY <1>2 DEF Under
<1>4. TopOK(R, bs[N].op, bs[N].head, g, A[g.fn], ct[N - 2])
  BY <1>1, <1>3 DEF TopOK, Held
<1>5. TestAt(bs[N].op, bs[N].place, g, ct[N - 2].exit)
  BY <1>1, <1>3 DEF TestAt, Held, Size
<1>6. Last(ct) = ct[N - 2] /\ Front(ct) = SubSeq(ct, 1, N - 3)
  <2>1. Len(ct) - 1 = N - 3
    BY <1>1
  <2> QED
    BY <1>1, <2>1 DEF Last, Front
<1>7. /\ IsSeq(SubSeq(ct, 1, N - 3)) /\ Len(SubSeq(ct, 1, N - 3)) = N - 3
      /\ \A m \in 1 .. N - 3 : SubSeq(ct, 1, N - 3)[m] = ct[m]
  <2>1. N - 3 \in Nat /\ N - 3 <= Len(ct)
    BY <1>1
  <2> QED
    BY <1>1, <2>1, SeqFront
<1> QED
  BY <1>4, <1>5, <1>6, <1>7

-----------------------------------------------------------------------------
(* The next part of a statement.                                           *)

LEMMA NextWritten ==
  ASSUME NEW R, NEW pr, NEW bs, NEW ct, NEW g, NEW A, NEW pr2, Carried(R, pr, bs, ct, g, A, pr2),
         NEW op, NEW bs2, NextStep(pr, bs, pr2, bs2, op), NEW t, t = ct[Len(bs) - 2],
         NEW g2, NEW B, NEW x, NEW j,
         NextsTo(R, pr2, Len(pr) + 1, op, g, A[g.fn], t.exit, g2, B, x, j, R.past[bs[Len(bs)].head]),
         NEW ct2, ct2 = Append(Front(ct), Control(x, t.ends \cup {j}, t.old))
  PROVE  Annotated(R, pr2, bs2, ct2, g2)
<1> DEFINE N == Len(bs)
<1>1. /\ Len(pr) \in Nat /\ Len(pr2) = Len(pr) + 1 /\ N \in Nat /\ N >= 3
      /\ g.fn \in Places /\ FnIs(bs, N, g.fn) /\ IsSeq(ct) /\ Len(ct) = N - 2
      /\ \A f : FnIs(bs, N, f) => f = g.fn
      /\ bs[N].op \in {"if", "switch", "case"} /\ op \in {"else", "case"}
      /\ bs[N].op \in Tests /\ bs[N].op \notin Loops \cup {"defer"} /\ op \notin Loops \cup {"defer"}
      /\ op \notin Openers /\ (op \in Tests <=> op = "case")
  <2>1. /\ Len(pr) \in Nat /\ Len(pr2) = Len(pr) + 1 /\ N \in Nat
        /\ g.fn \in Places /\ FnIs(bs, N, g.fn) /\ IsSeq(ct) /\ Len(ct) = N - 2
        /\ \A f : FnIs(bs, N, f) => f = g.fn
    BY CarriedFacts
  <2>2. N > 2 /\ bs[N].op \in {"if", "switch", "case"} /\ op \in {"else", "case"}
    BY DEF NextStep
  <2> QED
    BY <2>1, <2>2 DEF Tests, Loops, Openers
<1>0. PICK M \in Nat : N = M + 1
  BY <1>1, SMTT(30)
<1>2. /\ Len(bs2) = N /\ \A m \in 1 .. M : bs2[m] = bs[m]
      /\ bs2[N].op = op /\ bs2[N].place = Len(pr) + 1 /\ bs2[N].head = bs[N].head
  BY <1>0, <1>1, NextBlocks
<1>3. SameBlocks(bs, bs2, M)
  BY <1>0, <1>1, <1>2 DEF SameBlocks
<1>4. /\ Codes(R, pr, g, A) /\ Endings(R, pr, bs, g, A) /\ Under(R, bs, ct, g.code, A, N)
      /\ LoopsOK(R, bs, ct, g.code, A, g, N) /\ Pending(bs, ct, g) /\ IsMap(A)
  BY DEF Carried, Written
<1>5. /\ IsSeq(ct2) /\ Len(ct2) = N - 2 /\ SameCtl(ct, ct2, M) /\ SameOlds(ct, ct2, M)
      /\ ct2[N - 2] = Control(x, t.ends \cup {j}, t.old)
  <2>1. /\ IsSeq(Front(ct)) /\ Len(Front(ct)) = N - 3
        /\ \A m \in 1 .. N - 3 : Front(ct)[m] = ct[m]
    BY <1>1, TopFacts
  <2>2. Len(Front(ct)) + 1 = N - 2
    BY <1>1, <2>1
  <2>3. /\ IsSeq(ct2) /\ Len(ct2) = N - 2 /\ ct2[N - 2] = Control(x, t.ends \cup {j}, t.old)
        /\ \A m \in 1 .. N - 3 : ct2[m] = Front(ct)[m]
    BY <2>1, <2>2, SeqAppend
  <2>4. \A m \in 3 .. M : m - 2 \in 1 .. N - 3
    BY <1>0, <1>1
  <2> QED
    BY <2>1, <2>3, <2>4 DEF SameCtl, SameOlds
<1>6. /\ ct2[N - 2].exit = x /\ ct2[N - 2].ends = t.ends \cup {j} /\ ct2[N - 2].old = t.old
      /\ IsControl(ct2[N - 2])
  <2>1. ASSUME NEW e PROVE /\ Control(x, e, t.old).exit = x /\ Control(x, e, t.old).ends = e
                           /\ Control(x, e, t.old).old = t.old /\ IsControl(Control(x, e, t.old))
    BY DEF Control, IsControl
  <2> QED
    BY <1>5, <2>1
<1>7. /\ Coded(R, pr2, g2, B, R.to[Len(pr2) + 1],
               ((Unpatched(g.code[g.fn]) \ {t.exit}) \cup {j}) \cup (IF op = "case" THEN {x} ELSE {}))
      /\ Link(g, A[g.fn], g2, B) /\ SameLoop(g, g2) /\ TestAt(op, Len(pr) + 1, g2, x)
      /\ j \in 1 .. Size(g2) /\ g2.code[g2.fn][j].op = "JMP" /\ B[j] = R.past[bs[N].head]
  BY <1>1 DEF NextsTo
<1>8. PICK A2 : A2 = Onward(A, g, B)
  OBVIOUS
<1>9. Further(R, pr2, g, A, g2, A2, R.to[Len(pr2) + 1])
  BY <1>7, <1>8, StepGrown
<1>10. AllGrown(g.code, A, g2.code, A2) /\ IsMap(A2) /\ g2.fn = g.fn
  BY <1>9 DEF Further
<1>11. A2[g.fn] = B
  BY <1>1, <1>4, <1>8 DEF Onward, IsMap
<1>12. /\ \A f : FnIs(bs, N, f) <=> FnIs(bs, M, f)
       /\ \A f : FnIs(bs2, N, f) <=> FnIs(bs2, M, f)
       /\ \A l : LoopAt(bs, N, l) <=> LoopAt(bs, M, l)
       /\ \A l : LoopAt(bs2, N, l) <=> LoopAt(bs2, M, l)
       /\ \A f : FnIs(bs2, M, f) <=> FnIs(bs, M, f)
       /\ \A l : LoopAt(bs2, M, l) <=> LoopAt(bs, M, l)
  <2>1. M >= 2 /\ bs[M + 1].op \notin Loops \cup {"defer"} /\ bs2[M + 1].op \notin Loops \cup {"defer"}
    BY <1>0, <1>1, <1>2
  <2>2. /\ \A f : FnIs(bs, M + 1, f) <=> FnIs(bs, M, f)
        /\ \A l : LoopAt(bs, M + 1, l) <=> LoopAt(bs, M, l)
    BY <2>1, MoreLoops
  <2>3. /\ \A f : FnIs(bs2, M + 1, f) <=> FnIs(bs2, M, f)
        /\ \A l : LoopAt(bs2, M + 1, l) <=> LoopAt(bs2, M, l)
    BY <2>1, MoreLoops
  <2>4. /\ \A f : FnIs(bs2, M, f) <=> FnIs(bs, M, f)
        /\ \A l : LoopAt(bs2, M, l) <=> LoopAt(bs, M, l)
    BY <1>3, FnSame
  <2> HIDE DEF N
  <2>5. /\ \A f : FnIs(bs, N, f) <=> FnIs(bs, M, f)
        /\ \A l : LoopAt(bs, N, l) <=> LoopAt(bs, M, l)
    BY <1>0, <2>2
  <2>6. /\ \A f : FnIs(bs2, N, f) <=> FnIs(bs2, M, f)
        /\ \A l : LoopAt(bs2, N, l) <=> LoopAt(bs2, M, l)
    BY <1>0, <2>3, SMTT(30)
  <2> QED
    BY <2>4, <2>5, <2>6
<1>13. Held(R, bs2, ct2, g2.code, A2, N)
  <2>1. Jumps(g2.code[g.fn], A2[g.fn], t.ends, R.past[bs[N].head])
    <3>1. TopOK(R, bs[N].op, bs[N].head, g, A[g.fn], t)
      BY <1>1, TopFacts
    <3>2. Jumps(g.code[g.fn], A[g.fn], t.ends, R.past[bs[N].head])
      BY <3>1 DEF TopOK
    <3> QED
      BY <1>1, <1>10, <3>2, JumpsKept, SMTT(30) DEF AllGrown
  <2>2. Jumps(g2.code[g.fn], A2[g.fn], t.ends \cup {j}, R.past[bs[N].head])
    BY <1>7, <1>10, <1>11, <2>1 DEF Jumps, Size
  <2>3. op \in Tests => /\ x \in 1 .. Len(g2.code[g.fn]) /\ g2.code[g.fn][x].op = "TEST"
                        /\ g2.code[g.fn][x].of = bs2[N].place
    BY <1>2, <1>7, <1>10 DEF TestAt, Size
  <2>4. ASSUME NEW f \in Places, FnIs(bs2, N, f) PROVE f = g.fn
    BY <1>1, <1>12, <2>4
  <2> QED
    BY <1>1, <1>2, <1>6, <2>2, <2>3, <2>4 DEF Held
<1>14. Under(R, bs2, ct2, g2.code, A2, N)
  <2>0. N \in 3 .. N /\ M = N - 1 /\ \A m \in 3 .. N : m \in 3 .. M \/ m = N
    BY <1>0, <1>1
  <2>1. Under(R, bs2, ct2, g2.code, A2, M)
    <3>1. Under(R, bs, ct, g.code, A, M)
      <4>1. \A m \in 3 .. M : m \in 3 .. N
        BY <1>0
      <4> QED
        BY <1>4, <4>1 DEF Under
    <3> QED
      BY <1>3, <1>5, <1>10, <3>1, UnderKept
  <2>2. /\ LoopsOK(R, bs, ct, g.code, A, t.old, M) /\ t.old.fn \in Places /\ FnIs(bs, M, t.old.fn)
        /\ IsSeq(t.old.locals)
    BY <1>4, <2>0 DEF Under
  <2>3. LoopsOK(R, bs2, ct2, g2.code, A2, t.old, M)
    <3>1. SameLoop(t.old, t.old)
      BY DEF SameLoop
    <3> QED
      BY <1>3, <1>5, <1>10, <2>2, <3>1, LoopsOKKept
  <2>4. FnIs(bs2, M, t.old.fn)
    BY <1>12, <2>2
  <2> QED
    BY <1>6, <1>13, <2>0, <2>1, <2>2, <2>3, <2>4 DEF Under
<1>15. LoopsOK(R, bs2, ct2, g2.code, A2, g2, N)
  <2>1. M >= 2 /\ bs[M + 1].op \notin Loops \cup {"defer"} /\ bs2[M + 1].op \notin Loops \cup {"defer"}
    BY <1>0, <1>1, <1>2
  <2>2. LoopsOK(R, bs, ct, g.code, A, g, M)
    BY <1>0, <1>4, <2>1, LoopsMore
  <2>3. LoopsOK(R, bs2, ct2, g2.code, A2, g2, M)
    BY <1>3, <1>5, <1>7, <1>10, <2>2, LoopsOKKept
  <2> QED
    BY <1>0, <2>1, <2>3, LoopsMore
<1>21. ASSUME NEW i \in Unpatched(g.code[g.fn]), i # t.exit, i \notin t.ends
       PROVE  Hole(bs2, ct2, g2, g.fn, i)
  <2>0. N \in 3 .. Len(bs2) /\ FnIs(bs2, N, g.fn) /\ N \in 3 .. N
    BY <1>1, <1>2, <1>12
  <2>1. Hole(bs, ct, g, g.fn, i)
    BY <1>1, <1>4, <1>21 DEF Pending
  <2>2. CASE LoopHole(bs, g, N, g.fn, i)
    <3>1. PICK l \in 3 .. N : LoopAt(bs, N, l) /\ (i \in g.breaks \/ (bs[l].op # "while" /\ i \in g.continues))
      BY <2>2 DEF LoopHole
    <3>2. LoopAt(bs2, N, l) /\ l \in 3 .. M /\ bs2[l].op = bs[l].op
      <4>1. LoopAt(bs, M, l) /\ LoopAt(bs2, N, l)
        BY <1>12, <3>1
      <4>2. l \in 3 .. M
        BY <4>1 DEF LoopAt
      <4> QED
        BY <1>3, <4>1, <4>2 DEF SameBlocks
    <3>3. LoopHole(bs2, g2, N, g.fn, i)
      BY <1>7, <2>0, <3>1, <3>2 DEF LoopHole, SameLoop
    <3> QED
      BY <1>2, <3>3 DEF Hole
  <2>3. CASE \E m \in 3 .. N : BlockHole(bs, ct, m, g.fn, i)
    <3>1. PICK m \in 3 .. N : BlockHole(bs, ct, m, g.fn, i)
      BY <2>3
    <3>2. m # N
      BY <1>1, <1>21, <3>1 DEF BlockHole
    <3>3. m \in 3 .. M /\ m \in 3 .. N
      BY <1>0, <3>1, <3>2
    <3>4. SameBlocks(bs, bs2, M) /\ SameCtl(ct, ct2, M) /\ m \in 3 .. M
      BY <1>3, <1>5, <3>3
    <3>7. BlockHole(bs2, ct2, m, g.fn, i)
      BY <3>1, <3>4, BlocksHoleKept
    <3> QED
      BY <1>2, <3>3, <3>7 DEF Hole
  <2> QED
    BY <2>1, <2>2, <2>3, <1>2 DEF Hole
<1> DEFINE V == ((Unpatched(g.code[g.fn]) \ {t.exit}) \cup {j}) \cup (IF op = "case" THEN {x} ELSE {})
<1>16. ASSUME NEW i \in V
       PROVE  Hole(bs2, ct2, g2, g.fn, i)
  <2>0. N \in 3 .. Len(bs2) /\ FnIs(bs2, N, g.fn) /\ N \in 3 .. N
    BY <1>1, <1>2, <1>12
  <2>1. CASE i = j \/ (op = "case" /\ i = x) \/ i \in t.ends
    <3>1. BlockHole(bs2, ct2, N, g.fn, i)
      BY <1>1, <1>2, <1>6, <2>0, <2>1 DEF BlockHole
    <3> QED
      BY <2>0, <3>1 DEF Hole
  <2>2. CASE i \in Unpatched(g.code[g.fn]) /\ i # t.exit /\ i \notin t.ends
    BY <1>21, <2>2
  <2> QED
    BY <1>16, <2>1, <2>2
<1>17. ASSUME NEW f \in Places, NEW i, f # g.fn, Hole(bs, ct, g, f, i)
       PROVE  Hole(bs2, ct2, g2, f, i)
  <2>1. M <= Len(bs2) /\ Len(bs2) \in Nat /\ M = Len(bs) - 1 /\ bs[Len(bs)].op # "defer"
    BY <1>0, <1>1, <1>2
  <2> QED
    BY <1>3, <1>5, <1>17, <2>1, OtherHoles
<1>18. SameDefers(bs, bs2)
  <2>1. \A m \in 3 .. N : m \in 3 .. M \/ m = N
    BY <1>0, <1>1
  <2>2. \A m \in 3 .. M : bs2[m].op = bs[m].op /\ bs2[m].place = bs[m].place
    BY <1>3 DEF SameBlocks
  <2> QED
    BY <1>1, <1>2, <2>1, <2>2 DEF SameDefers
<1>19. ~EndsDefer(pr2, Len(pr2))
  <2>1. NewToken(pr, bs, pr2, op, None, PlacesOf(Front(bs)), bs[Len(bs)].head)
    BY DEF NextStep
  <2> QED
    BY <1>1, <2>1, NewTokenParts DEF EndsDefer
<1>20. Written(R, pr2, bs2, ct2, g2, A2)
  <2>1. /\ FnIs(bs2, Len(bs2), g.fn) /\ Len(ct2) = Len(bs2) - 2
        /\ Under(R, bs2, ct2, g2.code, Onward(A, g, B), Len(bs2))
        /\ LoopsOK(R, bs2, ct2, g2.code, Onward(A, g, B), g2, Len(bs2))
    BY <1>1, <1>2, <1>5, <1>8, <1>12, <1>14, <1>15
  <2>2. Coded(R, pr2, g2, B, R.to[Len(pr2) + 1], V)
    BY <1>7
  <2> HIDE DEF V
  <2> QED
    BY <1>5, <1>7, <1>8, <1>16, <1>17, <1>18, <1>19, <2>1, <2>2, StepWritten
<1> QED
  BY <1>10, <1>20 DEF Annotated

-----------------------------------------------------------------------------
(* The end of a block that is not deferred.                                *)

LEMMA EndWritten ==
  ASSUME NEW R, NEW pr, NEW bs, NEW ct, NEW g, NEW A, NEW pr2, Carried(R, pr, bs, ct, g, A, pr2),
         NEW bs2, EndStep(pr, bs, pr2, bs2), bs[Len(bs)].op # "defer", NEW t, t = ct[Len(bs) - 2],
         NEW g2, NEW B, EndsTo(R, pr2, Len(pr) + 1, bs[Len(bs)].op, g, A[g.fn], t, g2, B),
         NEW ct2, ct2 = Front(ct)
  PROVE  Annotated(R, pr2, bs2, ct2, g2)
<1> DEFINE N == Len(bs)
           b == bs[Len(bs)].op
<1>1. /\ Len(pr) \in Nat /\ Len(pr2) = Len(pr) + 1 /\ N \in Nat /\ N >= 3
      /\ g.fn \in Places /\ FnIs(bs, N, g.fn) /\ IsSeq(ct) /\ Len(ct) = N - 2
      /\ \A f : FnIs(bs, N, f) => f = g.fn
  <2>1. N > 2
    BY DEF EndStep
  <2> QED
    BY <2>1, CarriedFacts
<1>0. PICK M \in Nat : N = M + 1
  BY <1>1
<1>2. /\ Len(bs2) = M /\ \A m \in 1 .. M : bs2[m] = bs[m]
  <2>1. Typed(pr, bs) /\ bs2 = Front(bs) /\ N > 2
    BY DEF EndStep, NewToken
  <2>2. Len(bs2) = N - 1 /\ \A m \in 1 .. N - 1 : bs2[m] = bs[m]
    BY <2>1, EndBlocks
  <2> QED
    BY <1>0, <2>2
<1>3. SameBlocks(bs, bs2, M)
  BY <1>0, <1>1, <1>2 DEF SameBlocks
<1>4. /\ Codes(R, pr, g, A) /\ Endings(R, pr, bs, g, A) /\ Under(R, bs, ct, g.code, A, N)
      /\ LoopsOK(R, bs, ct, g.code, A, g, N) /\ Pending(bs, ct, g) /\ IsMap(A)
  BY DEF Carried, Written
<1>5. /\ IsSeq(ct2) /\ Len(ct2) = M - 2 /\ SameCtl(ct, ct2, M) /\ SameOlds(ct, ct2, M)
  <2>1. /\ IsSeq(Front(ct)) /\ Len(Front(ct)) = N - 3
        /\ \A m \in 1 .. N - 3 : Front(ct)[m] = ct[m]
    BY <1>1, TopFacts
  <2>2. N - 3 = M - 2
    BY <1>0, <1>1
  <2>4. \A m \in 3 .. M : m - 2 \in 1 .. N - 3
    BY <1>0, <1>1
  <2> QED
    BY <1>1, <2>1, <2>2, <2>4 DEF SameCtl, SameOlds
<1>7. /\ Coded(R, pr2, g2, B, R.to[Len(pr2) + 1], Left(b, g, t))
      /\ Link(g, A[g.fn], g2, B) /\ IF b \in Loops THEN SameLoop(t.old, g2) ELSE SameLoop(g, g2)
  BY <1>1 DEF EndsTo
<1>8. PICK A2 : A2 = Onward(A, g, B)
  OBVIOUS
<1>9. Further(R, pr2, g, A, g2, A2, R.to[Len(pr2) + 1])
  BY <1>7, <1>8, StepGrown
<1>10. AllGrown(g.code, A, g2.code, A2) /\ IsMap(A2) /\ g2.fn = g.fn
  BY <1>9 DEF Further
<1>11. M >= 2 /\ bs[M + 1].op # "defer"
  BY <1>0, <1>1
<1>12. /\ \A f : FnIs(bs, N, f) <=> FnIs(bs, M, f)
       /\ b \notin Loops => \A l : LoopAt(bs, N, l) <=> LoopAt(bs, M, l)
       /\ b \in Loops => \A l : LoopAt(bs, N, l) <=> l = N
  <2>2. /\ \A f : FnIs(bs, M + 1, f) <=> FnIs(bs, M, f)
        /\ bs[M + 1].op \notin Loops => \A l : LoopAt(bs, M + 1, l) <=> LoopAt(bs, M, l)
        /\ bs[M + 1].op \in Loops => \A l : LoopAt(bs, M + 1, l) <=> l = M + 1
    BY <1>11, MoreLoops
  <2> QED
    BY <1>0, <2>2
<1>13. /\ \A f : FnIs(bs2, M, f) <=> FnIs(bs, M, f)
       /\ \A l : LoopAt(bs2, M, l) <=> LoopAt(bs, M, l)
  BY <1>3, FnSame
<1>14. Under(R, bs2, ct2, g2.code, A2, M)
  <2>1. Under(R, bs, ct, g.code, A, M)
    <3>1. \A m \in 3 .. M : m \in 3 .. N
      BY <1>0
    <3> QED
      BY <1>4, <3>1 DEF Under
  <2> QED
    BY <1>3, <1>5, <1>10, <2>1, UnderKept
<1>15. LoopsOK(R, bs2, ct2, g2.code, A2, g2, M)
  <2>1. CASE b \in Loops
    <3>1. N \in 3 .. N /\ N - 1 = M
      BY <1>0, <1>1
    <3>2. LoopsOK(R, bs, ct, g.code, A, t.old, M)
      BY <1>4, <3>1 DEF Under
    <3>3. SameLoop(t.old, g2)
      BY <1>7, <2>1
    <3> QED
      BY <1>3, <1>5, <1>10, <3>2, <3>3, LoopsOKKept
  <2>2. CASE b \notin Loops
    <3>1. bs[M + 1].op \notin Loops \cup {"defer"}
      BY <1>0, <1>11, <2>2
    <3>2. LoopsOK(R, bs, ct, g.code, A, g, M)
      BY <1>0, <1>4, <1>11, <3>1, LoopsMore
    <3>3. SameLoop(g, g2)
      BY <1>7, <2>2
    <3> QED
      BY <1>3, <1>5, <1>10, <3>2, <3>3, LoopsOKKept
  <2> QED
    BY <2>1, <2>2
<1>16. ASSUME NEW i \in Left(b, g, t)
       PROVE  Hole(bs2, ct2, g2, g.fn, i)
  <2>1. /\ i \in Unpatched(g.code[g.fn]) /\ (b \in Tests => i # t.exit) /\ i \notin t.ends
        /\ b \in Loops => i \notin g.breaks /\ (b # "while" => i \notin g.continues)
    BY <1>16 DEF Left
  <2>2. Hole(bs, ct, g, g.fn, i)
    BY <1>1, <1>4, <2>1 DEF Pending
  <2>3. ASSUME NEW s, LoopHole(bs, s, M, g.fn, i), SameLoop(s, g2)
        PROVE  Hole(bs2, ct2, g2, g.fn, i)
    <3>1. s.breaks \subseteq g2.breaks /\ s.continues \subseteq g2.continues
      BY <2>3 DEF SameLoop
    <3>2. LoopHole(bs2, g2, M, g.fn, i)
      BY <1>3, <2>3, <3>1, LoopHoleKept
    <3> QED
      BY <1>2, <3>2 DEF Hole
  <2>4. CASE LoopHole(bs, g, N, g.fn, i)
    <3>1. PICK l \in 3 .. N : LoopAt(bs, N, l) /\ (i \in g.breaks \/ (bs[l].op # "while" /\ i \in g.continues))
      BY <2>4 DEF LoopHole
    <3>2. b \notin Loops
      BY <1>12, <2>1, <3>1
    <3>3. LoopAt(bs, M, l) /\ l \in 3 .. M
      <4>1. LoopAt(bs, M, l)
        BY <1>12, <3>1, <3>2
      <4> QED
        BY <4>1 DEF LoopAt
    <3>4. LoopHole(bs, g, M, g.fn, i)
      BY <1>1, <1>12, <3>1, <3>3 DEF LoopHole
    <3> QED
      BY <1>7, <2>3, <3>2, <3>4
  <2>5. CASE \E m \in 3 .. N : BlockHole(bs, ct, m, g.fn, i)
    <3>1. PICK m \in 3 .. N : BlockHole(bs, ct, m, g.fn, i)
      BY <2>5
    <3>2. CASE m = N
      <4>1. N - 1 = M
        BY <1>0, <1>1
      <4>2. b \in Loops /\ LoopHole(bs, t.old, M, g.fn, i)
        BY <2>1, <3>1, <3>2, <4>1 DEF BlockHole
      <4> QED
        BY <1>7, <2>3, <4>2
    <3>3. CASE m # N
      <4>1. m \in 3 .. M
        BY <1>0, <3>1, <3>3
      <4>2. BlockHole(bs2, ct2, m, g.fn, i)
        BY <1>3, <1>5, <3>1, <4>1, BlocksHoleKept
      <4> QED
        BY <1>2, <4>1, <4>2 DEF Hole
    <3> QED
      BY <3>2, <3>3
  <2> QED
    BY <2>2, <2>4, <2>5 DEF Hole
<1>17. ASSUME NEW f \in Places, NEW i, f # g.fn, Hole(bs, ct, g, f, i)
       PROVE  Hole(bs2, ct2, g2, f, i)
  <2>1. M <= Len(bs2) /\ Len(bs2) \in Nat /\ M = Len(bs) - 1
    BY <1>0, <1>1, <1>2
  <2> QED
    BY <1>3, <1>5, <1>17, <2>1, OtherHoles
<1>18. SameDefers(bs, bs2)
  <2>1. \A m \in 3 .. M : m \in 3 .. N
    BY <1>0
  <2> QED
    BY <1>2, <1>3, <2>1 DEF SameDefers, SameBlocks
<1>19. ~EndsDefer(pr2, Len(pr2))
  <2>1. NewToken(pr, bs, pr2, "end", None, PlacesOf(bs), bs[N].head)
    BY DEF EndStep
  <2>2. TextOK(pr, bs)
    BY DEF Carried
  <2>3. N \in 3 .. N
    BY <1>1
  <2>4. bs[N].head \in 1 .. Len(pr)
    BY <2>2, <2>3, TextFacts
  <2>5. SameHead(b, pr[bs[N].head].op)
    BY <2>2, <2>3 DEF TextOK, Nest, BlockOK
  <2>6. pr[bs[N].head].op # "defer"
    BY <2>5 DEF SameHead
  <2> QED
    BY <1>1, <2>1, <2>4, <2>6, NewTokenParts, SMTT(30) DEF EndsDefer
<1>20. Written(R, pr2, bs2, ct2, g2, A2)
  <2>1. /\ FnIs(bs2, Len(bs2), g.fn) /\ Len(ct2) = Len(bs2) - 2
        /\ Under(R, bs2, ct2, g2.code, Onward(A, g, B), Len(bs2))
        /\ LoopsOK(R, bs2, ct2, g2.code, Onward(A, g, B), g2, Len(bs2))
    BY <1>1, <1>2, <1>5, <1>8, <1>12, <1>13, <1>14, <1>15
  <2> QED
    BY <1>5, <1>7, <1>8, <1>16, <1>17, <1>18, <1>19, <2>1, StepWritten
<1> QED
  BY <1>10, <1>20 DEF Annotated

-----------------------------------------------------------------------------
(* The next part of a statement, and the branch before it that is over.    *)

LEMMA ComesMore ==
  ASSUME NEW R, NEW pr, NEW g, NEW A, NEW g2, NEW B, NEW v, NEW U, Comes(R, pr, g, A, g2, B, v, U),
         NEW V, U \subseteq V
  PROVE  Comes(R, pr, g, A, g2, B, v, V)
  BY DEF Comes, Coded

(* The part that is open is followed by the new one.                       *)
LEMMA TopFollows ==
  ASSUME NEW R, NEW pr, NEW bs, NEW ct, NEW g, NEW A, NEW pr2, Carried(R, pr, bs, ct, g, A, pr2),
         Len(bs) > 2, NEW op \in Enders, pr2[Len(pr) + 1].op = op, pr2[Len(pr) + 1].head = bs[Len(bs)].head
  PROVE  /\ R.skip[bs[Len(bs)].place] = IF op = "case" THEN Len(pr) + 1 ELSE R.to[Len(pr) + 2]
         /\ bs[Len(bs)].place \in 1 .. Len(pr) /\ bs[Len(bs)].head \in 1 .. Len(pr)
<1> DEFINE N == Len(bs)
           p == bs[N].place
<1>1. /\ Len(pr) \in Nat /\ Len(pr2) = Len(pr) + 1 /\ N \in 3 .. N
      /\ \A k \in 1 .. Len(pr) : pr2[k] = pr[k]
  BY CarriedFacts DEF Carried, Grows
<1>2. TextOK(pr, bs) /\ Respects(R, pr2)
  BY DEF Carried
<1>3. p \in 1 .. Len(pr) /\ bs[N].head \in 1 .. Len(pr)
  BY <1>1, <1>2, TextFacts
<1>4. BlockOK(pr, bs, N)
  BY <1>1, <1>2 DEF TextOK, Nest
<1>5. PICK n \in Nat : n = Len(pr) + 1
  BY <1>1
<1>6. p < n /\ p \in 1 .. Len(pr2) /\ n \in 1 .. Len(pr2)
  BY <1>1, <1>3, <1>5
<1>7. p = pr2[n].head \/ (pr2[p].op \in Enders /\ pr2[p].head = pr2[n].head)
  <2>1. CASE bs[N].op \in Openers
    BY <1>4, <1>5, <2>1 DEF BlockOK
  <2>2. CASE bs[N].op \notin Openers
    <3>1. pr2[p].op \in {"else", "case"} /\ pr2[p].head = bs[N].head
      BY <1>1, <1>3, <1>4, <2>2 DEF BlockOK
    <3> QED
      BY <1>5, <3>1, OpKinds
  <2> QED
    BY <2>1, <2>2
<1>8. ASSUME NEW x \in 1 .. Len(pr2), p < x, x < n
      PROVE  pr2[x].head # pr2[n].head
  <2>1. x \in 1 .. Len(pr) /\ ~(x <= p)
    BY <1>1, <1>3, <1>5, <1>8
  <2> QED
    BY <1>1, <1>4, <1>5, <2>1 DEF BlockOK
<1>9. Follows(pr2, p, n)
  BY <1>5, <1>6, <1>7, <1>8 DEF Follows
<1>10. n + 1 = Len(pr) + 2
  BY <1>1, <1>5
<1>11. R.skip[p] = IF pr2[n].op = "case" THEN n ELSE R.to[n + 1]
  BY <1>2, <1>6, <1>9 DEF Respects
<1>12. pr2[n].op = op /\ R.to[n + 1] = R.to[Len(pr) + 2]
  BY <1>5, <1>10
<1> QED
  BY <1>3, <1>5, <1>11, <1>12

LEMMA BranchComes ==
  ASSUME NEW R, NEW pr, NEW a, NEW v, Coded(R, pr, gen, a, v, Unpatched(gen.code[gen.fn])),
         NEW op \in Tests, NEW p, TestAt(op, p, gen, Top.exit), R.skip[p] \in Int
  PROVE  \E B : BranchTo(R, pr, gen, a, Top, BranchOver, B, BranchJump, v, R.skip[p])
<1> DEFINE U == Unpatched(gen.code[gen.fn])
           g == EndScope(gen)
           h == Jump(g, 0)
           w == R.skip[p]
           j == BranchJump
<1>1. GenOK(gen)
  BY DEF Coded
<1>2. PICK B1 : Comes(R, pr, gen, a, g, B1, v, U)
  BY EndScopeCoded
<1>3. Coded(R, pr, g, B1, v, U) /\ GenOK(g)
  BY <1>2 DEF Comes, Coded
<1>4. FlowOK(R, pr, Instr("JMP", 0, 0), v, w)
  BY DEF FlowOK, Instr
<1>5. Holed(R, pr, g, B1, U, "JMP", 0, v, w, Emit(g, "JMP", 0, 0), Size(g) + 1)
  <2>1. "JMP" \in {"JMP", "TEST"} /\ 0 \in Nat /\ w \in Int
    OBVIOUS
  <2> QED
    BY <1>3, <1>4, <2>1, HoleComes
<1>6. Holed(R, pr, g, B1, U, "JMP", 0, v, w, h, j)
  BY <1>5 DEF Jump, BranchJump, JumpAt
<1>7. PICK B : Comes(R, pr, g, B1, h, B, w, U \cup {j}) /\ B[j] = v
  BY <1>6 DEF Holed
<1>8. /\ j \in 1 .. Size(h) /\ h.code[h.fn][j].op = "JMP"
      /\ GenOK(h) /\ Coded(R, pr, h, B, w, U \cup {j}) /\ Size(h) \in Nat /\ h.fn = g.fn
  <2>1. Size(g) \in Nat
    BY <1>3, GenFacts
  <2>2. j \in 1 .. Size(h)
    BY <1>6, <2>1 DEF Holed
  <2>3. h.fn = g.fn /\ Coded(R, pr, h, B, w, U \cup {j}) /\ GenOK(h)
    BY <1>7 DEF Comes, Link, Coded
  <2>4. h.code[g.fn][j] = Instr("JMP", 0, 0)
    BY <1>6 DEF Holed
  <2> QED
    BY <2>2, <2>3, <2>4, GenFacts DEF Instr
<1>9. TestAt(op, p, h, Top.exit)
  <2>1. TestAt(op, p, g, Top.exit)
    BY <1>1, <1>2, <1>3, TestKept DEF Comes
  <2> QED
    BY <1>3, <1>7, <1>8, <2>1, TestKept DEF Comes
<1>10. Landing(R, h.code[h.fn], B, {Top.exit}, w)
  BY <1>9 DEF TestAt, Landing
<1>11. Comes(R, pr, h, B, BranchOver, B, w, (U \cup {j}) \ {Top.exit})
  <2>1. Comes(R, pr, h, B, Patch(h, {Top.exit}), B, w, (U \cup {j}) \ {Top.exit})
    BY <1>8, <1>10, PatchCoded
  <2> QED
    BY <2>1 DEF BranchOver
<1>12. Comes(R, pr, gen, a, BranchOver, B, w, (U \ {Top.exit}) \cup {j})
  <2>1. Comes(R, pr, gen, a, h, B, w, U \cup {j})
    BY <1>1, <1>2, <1>7, ComesTrans
  <2>2. Comes(R, pr, gen, a, BranchOver, B, w, (U \cup {j}) \ {Top.exit})
    BY <1>1, <1>11, <2>1, ComesTrans
  <2>3. (U \cup {j}) \ {Top.exit} \subseteq (U \ {Top.exit}) \cup {j}
    OBVIOUS
  <2> QED
    BY <2>2, <2>3, ComesMore
<1>13. j \in 1 .. Size(BranchOver) /\ BranchOver.code[BranchOver.fn][j].op = "JMP"
  <2>1. Link(h, B, BranchOver, B) /\ GenOK(BranchOver)
    BY <1>11 DEF Comes, Coded
  <2>2. Size(BranchOver) \in Nat /\ BranchOver.fn = h.fn
    BY <2>1, GenFacts DEF Link
  <2> QED
    BY <1>8, <2>1, <2>2 DEF Link, Grown, Size
<1> QED
  BY <1>7, <1>12, <1>13 DEF BranchTo

-----------------------------------------------------------------------------
LEMMA TopIs ==
  ASSUME NEW R, NEW A, Carried(R, prog, blocks, ctl, gen, A, prog'), Len(blocks) > 2
  PROVE  /\ Top = ctl[Len(blocks) - 2]
         /\ TopOK(R, Inner.op, Inner.head, gen, A[gen.fn], Top)
         /\ TestAt(Inner.op, Inner.place, gen, Top.exit)
         /\ Inner = blocks[Len(blocks)]
<1>1. Typed(prog, blocks)
  BY DEF Carried, TextOK
<1>2. Inner = blocks[Len(blocks)]
  <2>1. blocks \in Seq(BlockType) /\ Len(blocks) >= 1
    BY <1>1, TypedParts DEF Typed
  <2> QED
    BY <2>1, FrontGrows DEF Inner
<1> QED
  BY <1>2, TopFacts DEF Top

LEMMA ControlNext ==
  ASSUME NEW c, IsControl(c), NEW x, NEW j
  PROVE  [c EXCEPT !.exit = x, !.ends = @ \cup {j}] = Control(x, c.ends \cup {j}, c.old)
<1>1. PICK d : d = [c EXCEPT !.exit = x, !.ends = @ \cup {j}]
  OBVIOUS
<1>2. /\ d = [exit |-> d.exit, ends |-> d.ends, old |-> d.old]
      /\ d.exit = x /\ d.ends = c.ends \cup {j} /\ d.old = c.old
  BY <1>1 DEF IsControl
<1> QED
  BY <1>1, <1>2 DEF Control

LEMMA NextGen ==
  ASSUME NEW R, NEW A, Carried(R, prog, blocks, ctl, gen, A, prog'), NEW op,
         NextStep(prog, blocks, prog', blocks', op), CompileNext(op)
  PROVE  Annotated(R, prog', blocks', ctl', gen')
<1> DEFINE N == Len(blocks)
           U == Unpatched(gen.code[gen.fn])
           j == BranchJump
           v == R.past[Inner.head]
           w == R.skip[Inner.place]
<1>1. /\ N > 2 /\ op \in {"else", "case"} /\ op \in Enders
      /\ NewToken(prog, blocks, prog', op, None, PlacesOf(Front(blocks)), blocks[N].head)
      /\ blocks[N].op \in {"if", "switch", "case"}
  BY OpKinds DEF NextStep
<1>2. /\ Top = ctl[N - 2] /\ TopOK(R, Inner.op, Inner.head, gen, A[gen.fn], Top)
      /\ TestAt(Inner.op, Inner.place, gen, Top.exit) /\ Inner = blocks[N]
  BY <1>1, TopIs
<1>3. /\ Here \in Nat /\ Here \in 1 .. Len(prog') /\ Len(prog') = Here /\ Here = Len(prog) + 1
      /\ prog'[Here].op = op /\ prog'[Here].head = Inner.head
      /\ Goes(R, prog', Here)
      /\ R.to[Here] \in Int /\ R.to[Here + 1] \in Int
      /\ Coded(R, prog', gen, A[gen.fn], R.to[Here], U)
      /\ GenOK(gen)
  BY <1>1, <1>2, NewPlace
<1>4. R.to[Here] = v
  BY <1>1, <1>3 DEF Goes
<1>5. w = (IF op = "case" THEN Here ELSE R.to[Here + 1]) /\ w \in Int
  <2>1. R.skip[blocks[N].place] = IF op = "case" THEN Len(prog) + 1 ELSE R.to[Len(prog) + 2]
    BY <1>1, <1>2, <1>3, TopFollows
  <2>2. Len(prog) + 2 = Here + 1
    <3>1. Len(prog) \in Nat
      BY CarriedFacts
    <3> QED
      BY <1>3, <3>1
  <2> QED
    BY <1>2, <1>3, <2>1, <2>2
<1>6. PICK B : BranchTo(R, prog', gen, A[gen.fn], Top, BranchOver, B, j, v, w)
  <2>1. blocks[N].op \in Tests
    BY <1>1 DEF Tests
  <2> QED
    BY <1>2, <1>3, <1>4, <1>5, <2>1, BranchComes
<1> DEFINE b == BranchOver
           V == (U \ {Top.exit}) \cup {j}
<1>7. /\ Comes(R, prog', gen, A[gen.fn], b, B, w, V) /\ B[j] = v /\ j \in 1 .. Size(b)
      /\ b.code[b.fn][j].op = "JMP" /\ Coded(R, prog', b, B, w, V) /\ GenOK(b) /\ Size(b) \in Nat
  <2>1. /\ Comes(R, prog', gen, A[gen.fn], b, B, w, V) /\ B[j] = v /\ j \in 1 .. Size(b)
        /\ b.code[b.fn][j].op = "JMP"
    BY <1>6 DEF BranchTo
  <2> QED
    BY <2>1, GenFacts DEF Comes, Coded
<1>8. ASSUME NEW g2, NEW B2, NEW x,
             Coded(R, prog', g2, B2, R.to[Here + 1], V \cup (IF op = "case" THEN {x} ELSE {})),
             Link(b, B, g2, B2), SameLoop(b, g2), TestAt(op, Here, g2, x),
             gen' = g2, ctl' = Append(Front(ctl), [Top EXCEPT !.exit = x, !.ends = @ \cup {j}])
      PROVE  Annotated(R, prog', blocks', ctl', gen')
  <2>1. Link(gen, A[gen.fn], g2, B2) /\ SameLoop(gen, g2)
    <3>1. Comes(R, prog', b, B, g2, B2, R.to[Here + 1], V \cup (IF op = "case" THEN {x} ELSE {}))
      BY <1>8 DEF Comes
    <3> QED
      BY <1>3, <1>7, <3>1, ComesTrans DEF Comes
  <2>2. j \in 1 .. Size(g2) /\ g2.code[g2.fn][j].op = "JMP" /\ B2[j] = v
    <3>1. Size(g2) \in Nat /\ g2.fn = b.fn
      BY <1>8, GenFacts DEF Link, Coded
    <3>2. j \in 1 .. Size(b) + 1
      BY <1>7
    <3>3. Grown(b.code[b.fn], B, g2.code[b.fn], B2)
      BY <1>8 DEF Link
    <3>4. /\ Size(b) <= Size(g2)
          /\ \A n \in 1 .. Size(b) : g2.code[b.fn][n].op = b.code[b.fn][n].op
          /\ \A n \in 1 .. Size(b) + 1 : B2[n] = B[n]
      BY <3>1, <3>3 DEF Grown, Size
    <3> HIDE DEF b, V, v
    <3> QED
      BY <1>7, <3>1, <3>2, <3>4
  <2>3. [Top EXCEPT !.exit = x, !.ends = @ \cup {j}] = Control(x, Top.ends \cup {j}, Top.old)
    <3>1. IsControl(Top)
      BY <1>2 DEF TopOK
    <3> QED
      BY <3>1, ControlNext
  <2>4. NextsTo(R, prog', Len(prog) + 1, op, gen, A[gen.fn], Top.exit, g2, B2, x, j, R.past[blocks[N].head])
    BY <1>2, <1>3, <1>8, <2>1, <2>2 DEF NextsTo
  <2>5. PICK c2 : c2 = ctl'
    OBVIOUS
  <2>6. c2 = Append(Front(ctl), Control(x, Top.ends \cup {j}, Top.old))
    BY <1>8, <2>3, <2>5
  <2>7. Annotated(R, prog', blocks', c2, g2)
    BY <1>2, <2>4, <2>6, NextWritten
  <2> QED
    BY <1>8, <2>5, <2>7
<1>9. CASE op = "else"
  <2>1. /\ gen' = BeginScope(b)
        /\ ctl' = Append(Front(ctl), [Top EXCEPT !.exit = Size(BeginScope(b)), !.ends = @ \cup {j}])
    BY <1>9 DEF CompileNext
  <2>2. Comes(R, prog', b, B, BeginScope(b), B, w, V)
    BY <1>7, ComesSame, BeginScopeComes
  <2>3. w = R.to[Here + 1] /\ V \cup (IF op = "case" THEN {Size(BeginScope(b))} ELSE {}) = V
    BY <1>5, <1>9
  <2>4. TestAt(op, Here, BeginScope(b), Size(BeginScope(b)))
    BY <1>9 DEF TestAt, Tests, Loops
  <2> HIDE DEF b, V, w
  <2> QED
    BY <1>8, <2>1, <2>2, <2>3, <2>4 DEF Comes
<1>10. CASE op = "case"
  <2>1. /\ gen' = Guarded(b)
        /\ ctl' = Append(Front(ctl), [Top EXCEPT !.exit = Size(Guarded(b)), !.ends = @ \cup {j}])
    BY <1>10 DEF CompileNext
  <2>2. Guards(R, prog', Here, b, B, Guarded(b), V)
    <3>1. prog'[Here].op \in Tests
      BY <1>3, <1>10 DEF Tests
    <3>2. Coded(R, prog', b, B, Here, V)
      BY <1>5, <1>7, <1>10
    <3> QED
      BY <1>3, <3>1, <3>2, GuardComes
  <2>3. PICK B2 : Comes(R, prog', b, B, Guarded(b), B2, R.to[Here + 1], V \cup {Size(b) + 1})
    BY <2>2 DEF Guards
  <2>4. Size(Guarded(b)) = Size(b) + 1
    BY <2>2 DEF Guards
  <2>5. TestAt(op, Here, Guarded(b), Size(Guarded(b)))
    BY <1>7, <2>2, <2>4 DEF Guards, TestAt
  <2>6. V \cup (IF op = "case" THEN {Size(Guarded(b))} ELSE {}) = V \cup {Size(b) + 1}
    BY <1>10, <2>4
  <2> HIDE DEF b, V, w
  <2> QED
    BY <1>8, <2>1, <2>3, <2>5, <2>6 DEF Comes
<1> QED
  BY <1>1, <1>9, <1>10

-----------------------------------------------------------------------------
(* The code at the end of a block.                                         *)

LEMMA EndingIs ==
  ASSUME NEW R, NEW A, Carried(R, prog, blocks, ctl, gen, A, prog'), EndStep(prog, blocks, prog', blocks')
  PROVE  EndingAt(R, A[gen.fn])
<1> DEFINE N == Len(blocks)
<1>1. N > 2 /\ NewToken(prog, blocks, prog', "end", None, PlacesOf(blocks), blocks[N].head)
  BY DEF EndStep
<1>2. /\ TopOK(R, Inner.op, Inner.head, gen, A[gen.fn], Top)
      /\ TestAt(Inner.op, Inner.place, gen, Top.exit) /\ Inner = blocks[N]
  BY <1>1, TopIs
<1>3. /\ Here \in Nat /\ Here \in 1 .. Len(prog') /\ Len(prog') = Here /\ Here = Len(prog) + 1
      /\ prog'[Here].op = "end" /\ prog'[Here].head = Inner.head
      /\ Goes(R, prog', Here)
      /\ R.to[Here] \in Int /\ R.to[Here + 1] \in Int
      /\ Coded(R, prog', gen, A[gen.fn], R.to[Here], Unpatched(gen.code[gen.fn]))
      /\ GenOK(gen)
  BY <1>1, <1>2, NewPlace
<1>4. /\ Len(prog) \in Nat /\ N \in 3 .. N /\ TextOK(prog, blocks)
      /\ \A k \in 1 .. Len(prog) : prog'[k] = prog[k]
  BY <1>1, CarriedFacts DEF Carried, Grows
<1>5. /\ R.skip[Inner.place] = R.to[Here + 1] /\ Inner.head \in 1 .. Len(prog)
  <2>1. "end" \in Enders
    BY OpKinds
  <2>2. /\ R.skip[blocks[N].place] = R.to[Len(prog) + 2] /\ blocks[N].head \in 1 .. Len(prog)
    BY <1>1, <1>2, <1>3, <2>1, TopFollows
  <2>3. Len(prog) + 2 = Here + 1
    BY <1>3, <1>4
  <2> QED
    BY <1>2, <2>2, <2>3
<1>6. SameHead(Inner.op, prog[Inner.head].op) /\ (Inner.op \in Openers => Inner.head = Inner.place)
  BY <1>2, <1>4 DEF TextOK, Nest, BlockOK
<1>7. /\ prog'[Inner.head].op \in Loops <=> Inner.op \in Loops
      /\ prog'[Inner.head].op = "defer" <=> Inner.op = "defer"
  BY <1>4, <1>5, <1>6 DEF SameHead, Loops
<1>8. /\ R.past[Inner.head] = R.to[Here + 1]
      /\ R.to[Here] = IF Inner.op \in Loops THEN Inner.head
                      ELSE IF Inner.op = "defer" THEN Here ELSE R.to[Here + 1]
  BY <1>3, <1>7 DEF Goes
<1> QED
  BY <1>2, <1>3, <1>5, <1>6, <1>8 DEF EndingAt

LEMMA EndsUp ==
  ASSUME NEW R, NEW A, Carried(R, prog, blocks, ctl, gen, A, prog'), EndStep(prog, blocks, prog', blocks'),
         Inner.op # "defer", ctl' = Front(ctl),
         NEW g2, NEW B, NEW V, Coded(R, prog', g2, B, R.to[Here + 1], V), V \subseteq Left(Inner.op, gen, Top),
         Link(gen, A[gen.fn], g2, B), IF Inner.op \in Loops THEN SameLoop(Top.old, g2) ELSE SameLoop(gen, g2),
         gen' = g2
  PROVE  Annotated(R, prog', blocks', ctl', gen')
<1>1. Top = ctl[Len(blocks) - 2] /\ Inner = blocks[Len(blocks)]
  BY TopIs DEF EndStep
<1>2. Coded(R, prog', g2, B, R.to[Here + 1], Left(Inner.op, gen, Top))
  BY DEF Coded
<1>3. EndsTo(R, prog', Len(prog) + 1, blocks[Len(blocks)].op, gen, A[gen.fn], Top, g2, B)
  BY <1>1, <1>2 DEF EndsTo, Here
<1>4. PICK c2 : c2 = ctl'
  OBVIOUS
<1>5. c2 = Front(ctl)
  BY <1>4
<1>6. Annotated(R, prog', blocks', c2, g2)
  BY <1>1, <1>3, <1>5, EndWritten
<1> QED
  BY <1>4, <1>6

LEMMA BlockEnds ==
  ASSUME NEW R, NEW A, Carried(R, prog, blocks, ctl, gen, A, prog'), EndStep(prog, blocks, prog', blocks'),
         Inner.op = "block", gen' = EndScope(gen), ctl' = Front(ctl)
  PROVE  Annotated(R, prog', blocks', ctl', gen')
<1>1. EndingAt(R, A[gen.fn])
  BY EndingIs
<1>2. Inner.op \notin Loops \cup Tests \cup {"defer"} /\ Inner.op \in Openers
  BY DEF Loops, Tests, Openers
<1>3. Coded(R, prog', gen, A[gen.fn], R.to[Here + 1], Unpatched(gen.code[gen.fn])) /\ Top.ends = {}
  BY <1>1, <1>2 DEF EndingAt, TopOK
<1>4. PICK B : Comes(R, prog', gen, A[gen.fn], EndScope(gen), B, R.to[Here + 1], Unpatched(gen.code[gen.fn]))
  BY <1>3, EndScopeCoded
<1>5. Unpatched(gen.code[gen.fn]) \subseteq Left(Inner.op, gen, Top)
  BY <1>2, <1>3 DEF Left
<1> QED
  BY <1>2, <1>4, <1>5, EndsUp DEF Comes

(* The last branch of a statement.                                         *)
LEMMA IfComes ==
  ASSUME NEW R, NEW a, EndingAt(R, a), Inner.op \in {"if", "switch", "case"}
  PROVE  \E B : Comes(R, prog', gen, a, EndIf, B, R.to[Here + 1], Left(Inner.op, gen, Top))
<1> DEFINE U == Unpatched(gen.code[gen.fn])
           w == R.to[Here + 1]
           b == BranchOver
           j == BranchJump
<1>1. Inner.op \notin Loops \cup {"defer"} /\ Inner.op \in Tests
  BY DEF Loops, Tests
<1>2. /\ Coded(R, prog', gen, a, w, U) /\ GenOK(gen) /\ w \in Int
      /\ R.past[Inner.head] = w /\ R.skip[Inner.place] = w
      /\ TestAt(Inner.op, Inner.place, gen, Top.exit) /\ TopOK(R, Inner.op, Inner.head, gen, a, Top)
  BY <1>1 DEF EndingAt
<1>3. PICK B : BranchTo(R, prog', gen, a, Top, b, B, j, w, w)
  BY <1>1, <1>2, BranchComes
<1>4. /\ Comes(R, prog', gen, a, b, B, w, (U \ {Top.exit}) \cup {j}) /\ B[j] = w
      /\ b.code[b.fn][j].op = "JMP" /\ GenOK(b)
      /\ Coded(R, prog', b, B, w, (U \ {Top.exit}) \cup {j})
  BY <1>3 DEF BranchTo, Comes, Coded
<1>5. Jumps(b.code[b.fn], B, Top.ends, w)
  <2>1. Jumps(gen.code[gen.fn], a, Top.ends, w)
    BY <1>2 DEF TopOK
  <2>2. Grown(gen.code[gen.fn], a, b.code[b.fn], B)
    BY <1>4 DEF Comes, Link
  <2>3. Len(gen.code[gen.fn]) \in Nat /\ Len(b.code[b.fn]) \in Nat
    BY <1>2, <1>4, GenFacts DEF Size
  <2> HIDE DEF b, w
  <2> QED
    BY <2>1, <2>2, <2>3, JumpsKept
<1>6. Landing(R, b.code[b.fn], B, Top.ends \cup {j}, w)
  BY <1>4, <1>5 DEF Landing, Jumps
<1>7. Comes(R, prog', b, B, EndIf, B, w, ((U \ {Top.exit}) \cup {j}) \ (Top.ends \cup {j}))
  <2>1. Comes(R, prog', b, B, Patch(b, Top.ends \cup {j}), B, w, ((U \ {Top.exit}) \cup {j}) \ (Top.ends \cup {j}))
    BY <1>4, <1>6, PatchCoded
  <2> QED
    BY <2>1 DEF EndIf
<1>8. ((U \ {Top.exit}) \cup {j}) \ (Top.ends \cup {j}) \subseteq Left(Inner.op, gen, Top)
  BY <1>1 DEF Left
<1>9. Comes(R, prog', gen, a, EndIf, B, w, ((U \ {Top.exit}) \cup {j}) \ (Top.ends \cup {j}))
  BY <1>2, <1>4, <1>7, ComesTrans
<1> QED
  BY <1>8, <1>9, ComesMore

LEMMA BranchEnds ==
  ASSUME NEW R, NEW A, Carried(R, prog, blocks, ctl, gen, A, prog'), EndStep(prog, blocks, prog', blocks'),
         Inner.op \in {"if", "switch", "case"}, ctl' = Front(ctl),
         gen' = IF Inner.op = "if" THEN EndIf ELSE EndSwitch
  PROVE  Annotated(R, prog', blocks', ctl', gen')
<1>1. EndingAt(R, A[gen.fn]) /\ GenOK(gen)
  BY EndingIs DEF EndingAt
<1>2. Inner.op \notin Loops \cup {"defer"}
  BY DEF Loops
<1> DEFINE V == Left(Inner.op, gen, Top)
           w == R.to[Here + 1]
<1>3. PICK B : Comes(R, prog', gen, A[gen.fn], EndIf, B, w, V)
  BY <1>1, IfComes
<1>4. ASSUME NEW g2, NEW B2, Comes(R, prog', gen, A[gen.fn], g2, B2, w, V), gen' = g2
      PROVE  Annotated(R, prog', blocks', ctl', gen')
  BY <1>2, <1>4, EndsUp DEF Comes
<1>5. CASE Inner.op = "if"
  BY <1>3, <1>4, <1>5
<1>6. CASE Inner.op # "if"
  <2>1. Coded(R, prog', EndIf, B, w, V)
    BY <1>3 DEF Comes
  <2>2. PICK B2 : Comes(R, prog', EndIf, B, EndScope(EndIf), B2, w, V)
    BY <2>1, EndScopeCoded
  <2>3. Comes(R, prog', gen, A[gen.fn], EndScope(EndIf), B2, w, V)
    BY <1>1, <1>3, <2>2, ComesTrans
  <2> QED
    BY <1>4, <1>6, <2>3 DEF EndSwitch
<1> QED
  BY <1>5, <1>6

LEMMA ElseEnds ==
  ASSUME NEW R, NEW A, Carried(R, prog, blocks, ctl, gen, A, prog'), EndStep(prog, blocks, prog', blocks'),
         Inner.op = "else", ctl' = Front(ctl), gen' = EndElse
  PROVE  Annotated(R, prog', blocks', ctl', gen')
<1> DEFINE U == Unpatched(gen.code[gen.fn])
           w == R.to[Here + 1]
           g == EndScope(gen)
           a == A[gen.fn]
<1>1. EndingAt(R, a)
  BY EndingIs
<1>2. Inner.op \notin Loops \cup Tests \cup {"defer"}
  BY DEF Loops, Tests
<1>3. /\ Coded(R, prog', gen, a, w, U) /\ GenOK(gen) /\ R.past[Inner.head] = w
      /\ Jumps(gen.code[gen.fn], a, Top.ends, w)
  BY <1>1, <1>2 DEF EndingAt, TopOK
<1>4. PICK B : Comes(R, prog', gen, a, g, B, w, U)
  BY <1>3, EndScopeCoded
<1>5. Jumps(g.code[g.fn], B, Top.ends, w)
  <2>2. Grown(gen.code[gen.fn], a, g.code[g.fn], B) /\ GenOK(g)
    BY <1>4 DEF Comes, Link, Coded
  <2>3. Len(gen.code[gen.fn]) \in Nat /\ Len(g.code[g.fn]) \in Nat
    BY <1>3, <2>2, GenFacts DEF Size
  <2> HIDE DEF g, w
  <2> QED
    BY <1>3, <2>2, <2>3, JumpsKept
<1>6. Landing(R, g.code[g.fn], B, Top.ends, w) /\ Coded(R, prog', g, B, w, U)
  BY <1>4, <1>5 DEF Landing, Jumps, Comes
<1>7. Comes(R, prog', gen, a, EndElse, B, w, U \ Top.ends)
  <2>1. Comes(R, prog', g, B, Patch(g, Top.ends), B, w, U \ Top.ends)
    BY <1>6, PatchCoded
  <2>2. Comes(R, prog', gen, a, Patch(g, Top.ends), B, w, U \ Top.ends)
    BY <1>3, <1>4, <2>1, ComesTrans
  <2> QED
    BY <2>2 DEF EndElse
<1>8. U \ Top.ends \subseteq Left(Inner.op, gen, Top)
  BY <1>2 DEF Left
<1> QED
  BY <1>2, <1>7, <1>8, EndsUp DEF Comes

-----------------------------------------------------------------------------
(* The end of a loop.                                                      *)

LEMMA LoopTopIs ==
  ASSUME NEW R, NEW A, Carried(R, prog, blocks, ctl, gen, A, prog'), Len(blocks) > 2, Inner.op \in Loops
  PROVE  LoopTopOK(R, A[gen.fn])
<1> DEFINE N == Len(blocks)
<1>1. Inner = blocks[N]
  BY TopIs
<1>2. N \in Nat /\ N \in 3 .. N /\ gen.fn \in Places /\ FnIs(blocks, N, gen.fn)
  BY CarriedFacts
<1>3. LoopAt(blocks, N, N)
  BY <1>1, <1>2 DEF LoopAt
<1>4. LoopsOK(R, blocks, ctl, gen.code, A, gen, N)
  BY DEF Carried, Written
<1>5. LoopOK(R, blocks, gen.code, A, gen, N, gen.fn, N)
  BY <1>2, <1>3, <1>4 DEF LoopsOK
<1> QED
  BY <1>1, <1>5 DEF LoopOK, LoopTopOK, Size

LEMMA RestoredIs ==
  ASSUME NEW g, GenOK(g), NEW old, NEW g2, g2 = Restored(g, old)
  PROVE  /\ GenOK(g2) /\ g2.fn = g.fn /\ g2.code = g.code /\ Size(g2) = Size(g)
         /\ SameLoop(old, g2)
<1>1. g2 = [g EXCEPT !.loopStart = old.loopStart, !.continueDest = old.continueDest,
                     !.continues = old.continues, !.breaks = old.breaks, !.depths = old.depths]
  BY DEF Restored
<1>2. /\ g2 = [fn |-> g2.fn, code |-> g2.code, depth |-> g2.depth, locals |-> g2.locals,
               loopStart |-> g2.loopStart, continueDest |-> g2.continueDest,
               continues |-> g2.continues, breaks |-> g2.breaks, depths |-> g2.depths]
      /\ g2.fn = g.fn /\ g2.code = g.code /\ g2.locals = g.locals
      /\ g2.loopStart = old.loopStart /\ g2.continueDest = old.continueDest
      /\ g2.continues = old.continues /\ g2.breaks = old.breaks /\ g2.depths = old.depths
  BY <1>1 DEF GenOK
<1> QED
  BY <1>2 DEF GenOK, SameLoop, Size

LEMMA LoopOverComes ==
  ASSUME NEW R, NEW a, EndingAt(R, a), LoopTopOK(R, a), Inner.op \in Loops,
         NEW g, NEW B, NEW U, Comes(R, prog', gen, a, g, B, R.to[Here], U)
  PROVE  \E B2 : LoopDone(R, a, LoopOver(g), B2, U)
<1> DEFINE w == R.to[Here + 1]
           v == R.to[Here]
           s == gen.loopStart + 1
           h == Jump(g, s)
           J == {Top.exit} \cup gen.breaks
<1>1. Inner.op \in Tests /\ Inner.op \in Openers
  BY DEF Tests, Openers
<1>2. /\ GenOK(gen) /\ w \in Int /\ R.past[Inner.place] = w /\ R.skip[Inner.place] = w /\ v = Inner.place
      /\ TestAt(Inner.op, Inner.place, gen, Top.exit)
  BY <1>1 DEF EndingAt
<1>3. Coded(R, prog', g, B, v, U) /\ GenOK(g) /\ Link(gen, a, g, B)
  BY DEF Comes, Coded
<1>4. s \in 1 .. Size(g) + 1 /\ B[s] = v
  <2>1. Size(gen) \in Nat /\ Size(g) \in Nat /\ g.fn = gen.fn
    BY <1>2, <1>3, GenFacts DEF Link
  <2>2. Size(gen) <= Size(g) /\ \A n \in 1 .. Size(gen) + 1 : B[n] = a[n]
    BY <1>3, <2>1 DEF Link, Grown, Size
  <2>3. gen.loopStart \in 0 .. Size(gen) /\ a[s] = v
    BY <1>2 DEF LoopTopOK
  <2>4. s \in 1 .. Size(gen) + 1 /\ s \in 1 .. Size(g) + 1
    BY <2>1, <2>2, <2>3
  <2> HIDE DEF s, v
  <2> QED
    BY <2>2, <2>3, <2>4
<1>5. PICK B2 : Comes(R, prog', g, B, h, B2, w, U)
  BY <1>2, <1>3, <1>4, BackComes
<1>6. Comes(R, prog', gen, a, h, B2, w, U) /\ Coded(R, prog', h, B2, w, U) /\ GenOK(h)
      /\ Link(gen, a, h, B2)
  <2>1. Comes(R, prog', gen, a, h, B2, w, U)
    BY <1>2, <1>5, ComesTrans
  <2> QED
    BY <2>1 DEF Comes, Coded
<1>7. TestAt(Inner.op, Inner.place, h, Top.exit)
  BY <1>2, <1>6, TestKept
<1>8. Jumps(h.code[h.fn], B2, gen.breaks, w)
  <2>1. Jumps(gen.code[gen.fn], a, gen.breaks, w)
    BY <1>2 DEF LoopTopOK
  <2>2. Grown(gen.code[gen.fn], a, h.code[h.fn], B2)
    BY <1>6 DEF Link
  <2>3. Len(gen.code[gen.fn]) \in Nat /\ Len(h.code[h.fn]) \in Nat
    BY <1>2, <1>6, GenFacts DEF Size
  <2> HIDE DEF h, w
  <2> QED
    BY <2>1, <2>2, <2>3, JumpsKept
<1>9. Landing(R, h.code[h.fn], B2, J, w)
  <2> HIDE DEF h, w
  <2>1. h.code[h.fn][Top.exit].op = "TEST" /\ h.code[h.fn][Top.exit].of = Inner.place
    BY <1>1, <1>7 DEF TestAt
  <2> QED
    BY <1>2, <1>8, <2>1 DEF Landing, Jumps
<1>10. Comes(R, prog', h, B2, Patch(h, J), B2, w, U \ J)
  BY <1>6, <1>9, PatchCoded
<1>11. Comes(R, prog', gen, a, Patch(h, J), B2, w, U \ J)
  BY <1>2, <1>6, <1>10, ComesTrans
<1>12. PICK p : p = Patch(h, J)
  OBVIOUS
<1>13. Coded(R, prog', p, B2, w, U \ J) /\ Link(gen, a, p, B2) /\ GenOK(p)
  BY <1>11, <1>12 DEF Comes, Coded
<1>14. PICK q : q = Restored(p, Top.old)
  OBVIOUS
<1>15. GenOK(q) /\ q.fn = p.fn /\ q.code = p.code /\ SameLoop(Top.old, q)
  BY <1>13, <1>14, RestoredIs
<1>16. Coded(R, prog', q, B2, w, U \ J) /\ Link(p, B2, q, B2)
  BY <1>13, <1>15, SameCoded
<1>17. Link(gen, a, q, B2)
  BY <1>2, <1>13, <1>15, <1>16, LinkTrans
<1>18. q = LoopOver(g)
  BY <1>12, <1>14 DEF LoopOver
<1> QED
  BY <1>15, <1>16, <1>17, <1>18 DEF LoopDone

LEMMA WhileEnds ==
  ASSUME NEW R, NEW A, Carried(R, prog, blocks, ctl, gen, A, prog'), EndStep(prog, blocks, prog', blocks'),
         Inner.op = "while", ctl' = Front(ctl), gen' = EndWhile
  PROVE  Annotated(R, prog', blocks', ctl', gen')
<1> DEFINE U == Unpatched(gen.code[gen.fn])
           a == A[gen.fn]
<1>1. EndingAt(R, a) /\ LoopTopOK(R, a)
  BY EndingIs, LoopTopIs DEF EndStep, Loops
<1>2. Inner.op \in Loops \cap Tests \cap Openers /\ Inner.op # "defer"
  BY DEF Loops, Tests, Openers
<1>3. Coded(R, prog', gen, a, R.to[Here], U) /\ Top.ends = {}
  BY <1>1, <1>2 DEF EndingAt, TopOK
<1>4. PICK B : Comes(R, prog', gen, a, EndScope(gen), B, R.to[Here], U)
  BY <1>3, EndScopeCoded
<1>5. PICK B2 : LoopDone(R, a, EndWhile, B2, U)
  BY <1>1, <1>2, <1>4, LoopOverComes DEF EndWhile
<1>6. U \ ({Top.exit} \cup gen.breaks) \subseteq Left(Inner.op, gen, Top)
  BY <1>3 DEF Left
<1> HIDE DEF U, a
<1>7. /\ Coded(R, prog', EndWhile, B2, R.to[Here + 1], U \ ({Top.exit} \cup gen.breaks))
      /\ Link(gen, a, EndWhile, B2) /\ SameLoop(Top.old, EndWhile)
  BY <1>5 DEF LoopDone
<1> QED
  BY <1>2, <1>6, <1>7, EndsUp DEF a

LEMMA ForEnds ==
  ASSUME NEW R, NEW A, Carried(R, prog, blocks, ctl, gen, A, prog'), EndStep(prog, blocks, prog', blocks'),
         Inner.op \in {"for", "forRange"}, ctl' = Front(ctl), gen' = EndFor
  PROVE  Annotated(R, prog', blocks', ctl', gen')
<1> DEFINE U == Unpatched(gen.code[gen.fn])
           a == A[gen.fn]
           g == EndScope(gen)
           v == R.to[Here]
           w == R.to[Here + 1]
           J == {Top.exit} \cup gen.breaks
<1>1. EndingAt(R, a) /\ LoopTopOK(R, a)
  BY EndingIs, LoopTopIs DEF EndStep, Loops
<1>2. Inner.op \in Loops \cap Tests \cap Openers /\ Inner.op # "defer" /\ Inner.op # "while"
  BY DEF Loops, Tests, Openers
<1>3. Coded(R, prog', gen, a, v, U) /\ Top.ends = {} /\ GenOK(gen) /\ v = Inner.place
  BY <1>1, <1>2 DEF EndingAt, TopOK
<1>4. PICK B : Comes(R, prog', gen, a, g, B, v, U)
  BY <1>3, EndScopeCoded
<1>5. Coded(R, prog', g, B, v, U) /\ GenOK(g) /\ Link(gen, a, g, B)
  BY <1>4 DEF Comes, Coded
<1>6. Jumps(g.code[g.fn], B, gen.continues, v)
  <2>1. Jumps(gen.code[gen.fn], a, gen.continues, v)
    BY <1>1, <1>2, <1>3 DEF LoopTopOK
  <2>2. Grown(gen.code[gen.fn], a, g.code[g.fn], B)
    BY <1>5 DEF Link
  <2>3. Len(gen.code[gen.fn]) \in Nat /\ Len(g.code[g.fn]) \in Nat
    BY <1>3, <1>5, GenFacts DEF Size
  <2> HIDE DEF g, v, a
  <2> QED
    BY <2>1, <2>2, <2>3, JumpsKept
<1>7. Landing(R, g.code[g.fn], B, gen.continues, v)
  BY <1>6 DEF Landing, Jumps
<1>8. Comes(R, prog', gen, a, Patch(g, gen.continues), B, v, U \ gen.continues)
  <2>1. Comes(R, prog', g, B, Patch(g, gen.continues), B, v, U \ gen.continues)
    BY <1>5, <1>7, PatchCoded
  <2> QED
    BY <1>3, <1>4, <2>1, ComesTrans
<1>9. PICK p : p = LoopOver(Patch(g, gen.continues))
  OBVIOUS
<1>10. PICK B2 : LoopDone(R, a, p, B2, U \ gen.continues)
  BY <1>1, <1>2, <1>8, <1>9, LoopOverComes
<1>11. /\ Coded(R, prog', p, B2, w, (U \ gen.continues) \ J) /\ Link(gen, a, p, B2)
       /\ SameLoop(Top.old, p) /\ GenOK(p)
  BY <1>10 DEF LoopDone
<1>12. PICK B3 : Comes(R, prog', p, B2, EndScope(p), B3, w, (U \ gen.continues) \ J)
  BY <1>11, EndScopeCoded
<1>13. PICK q : q = EndScope(p)
  OBVIOUS
<1>14. /\ Coded(R, prog', q, B3, w, (U \ gen.continues) \ J) /\ Link(p, B2, q, B3) /\ SameLoop(p, q)
       /\ GenOK(q)
  BY <1>12, <1>13 DEF Comes, Coded
<1>15. Link(gen, a, q, B3)
  BY <1>3, <1>11, <1>14, LinkTrans
<1>16. SameLoop(Top.old, q)
  BY <1>11, <1>14 DEF SameLoop
<1>17. (U \ gen.continues) \ J \subseteq Left(Inner.op, gen, Top)
  BY <1>3 DEF Left
<1>18. gen' = q
  BY <1>9, <1>13 DEF EndFor
<1> HIDE DEF U, a, J, w
<1> QED
  BY <1>2, <1>14, <1>15, <1>16, <1>17, <1>18, EndsUp DEF a, w

-----------------------------------------------------------------------------
(* The end of a deferred block: the function around it goes on.            *)

LEMMA CodesMore ==
  ASSUME NEW R, NEW pr, Len(pr) \in Nat, NEW g, NEW A, Codes(R, pr, g, A), IsMap(A), g.fn <= Len(pr),
         NEW g2, NEW B, NEW v, NEW U, Coded(R, pr, g2, B, v, U), Link(g, A[g.fn], g2, B)
  PROVE  Further(R, pr, g, A, g2, Onward(A, g, B), v)
<1> DEFINE A2 == Onward(A, g, B)
<1>1. /\ GenOK(g) /\ g.fn \in Places /\ GenOK(g2) /\ g2.fn = g.fn
      /\ \A f \in Places : f # g.fn => g2.code[f] = g.code[f]
      /\ Grown(g.code[g.fn], A[g.fn], g2.code[g.fn], B)
      /\ Fits(R, pr, g2.code[g.fn], B) /\ B[Len(g2.code[g.fn]) + 1] = v
  BY GenFacts DEF Coded, Link, Codes, Size
<1>2. /\ IsMap(A2) /\ A2[g.fn] = B
      /\ \A f \in Places : f # g.fn => A2[f] = A[f]
  BY <1>1 DEF Onward, IsMap
<1> HIDE DEF A2
<1>3. ASSUME NEW f \in Places
      PROVE  /\ Len(g.code[f]) \in Nat /\ Len(g2.code[f]) \in Nat
             /\ Grown(g.code[f], A[f], g2.code[f], A2[f])
  <2>1. Fits(R, pr, g.code[f], A[f])
    BY DEF Codes
  <2>2. Len(g.code[f]) \in Nat
    BY <2>1, FitsFacts
  <2>3. CASE f = g.fn
    BY <1>1, <1>2, <2>2, <2>3, FitsFacts
  <2>4. CASE f # g.fn
    BY <1>1, <1>2, <2>2, <2>4, GrownSame
  <2> QED
    BY <2>3, <2>4
<1>4. ASSUME NEW f \in Places
      PROVE  /\ Fits(R, pr, g2.code[f], A2[f]) /\ A2[f][1] = R.to[f + 1]
             /\ f > Len(pr) => g2.code[f] = <<>>
  <2>1. /\ Fits(R, pr, g.code[f], A[f]) /\ A[f][1] = R.to[f + 1]
        /\ f > Len(pr) => g.code[f] = <<>>
    BY DEF Codes
  <2>2. f \in Int
    BY DEF Places
  <2>3. A2[f][1] = A[f][1]
    <3>1. 1 \in 1 .. Len(g.code[f]) + 1
      BY <1>3
    <3> QED
      BY <1>3, <3>1 DEF Grown
  <2>5. CASE f = g.fn
    <3>1. ~(f > Len(pr))
      BY <2>2, <2>5
    <3> QED
      BY <1>1, <1>2, <2>1, <2>3, <2>5, <3>1
  <2>6. CASE f # g.fn
    BY <1>1, <1>2, <2>1, <2>3, <2>6
  <2> QED
    BY <2>5, <2>6
<1> QED
  BY <1>1, <1>2, <1>3, <1>4 DEF Further, Codes, AllGrown, EndAt, A2

LEMMA AllGrownTrans ==
  ASSUME NEW C, NEW A, NEW C2, NEW A2, NEW C3, NEW A3, AllGrown(C, A, C2, A2), AllGrown(C2, A2, C3, A3)
  PROVE  AllGrown(C, A, C3, A3)
<1> SUFFICES ASSUME NEW f \in Places
             PROVE  Len(C[f]) \in Nat /\ Len(C3[f]) \in Nat /\ Grown(C[f], A[f], C3[f], A3[f])
  BY DEF AllGrown
<1>1. /\ Len(C[f]) \in Nat /\ Len(C2[f]) \in Nat /\ Len(C3[f]) \in Nat
      /\ Grown(C[f], A[f], C2[f], A2[f]) /\ Grown(C2[f], A2[f], C3[f], A3[f])
  BY DEF AllGrown
<1> QED
  BY <1>1, GrownTrans

(* A function ends with a return.                                          *)
LEMMA EndedComes ==
  ASSUME NEW R, NEW pr, NEW g, NEW A, NEW v \in 1 .. Len(pr), NEW U, Coded(R, pr, g, A, v, U), pr[v].op = "end"
  PROVE  \E B : Comes(R, pr, g, A, Ended(g, v), B, v, U)
<1>0. v \in Nat /\ v \in Int
  <2>1. v \in Int /\ v >= 1
    OBVIOUS
  <2> QED
    BY <2>1
<1>1. CASE g.code[g.fn] # <<>> /\ Last(g.code[g.fn]).op = "RETURN"
  BY <1>1, ComesSame DEF Ended
<1>2. CASE ~(g.code[g.fn] # <<>> /\ Last(g.code[g.fn]).op = "RETURN")
  <2>1. FlowOK(R, pr, Instr("RETURN", 0, v), v, v)
    BY <1>0 DEF FlowOK, Does, Instr
  <2>2. \E B : Comes(R, pr, g, A, Emit(g, "RETURN", 0, v), B, v, U)
    BY <1>0, <2>1, EmitComes
  <2> QED
    BY <1>2, <2>2 DEF Ended
<1> QED
  BY <1>1, <1>2

(* Blocks around a deferred one are not deferred.                          *)
LEMMA AroundDefer ==
  ASSUME NEW pr, NEW bs, TextOK(pr, bs), Len(bs) > 2, bs[Len(bs)].op = "defer", NEW k, NEW f,
         k <= Len(bs) - 1, k \in Nat
  PROVE  FnIs(bs, k, f) => f = 0
<1>1. Len(bs) \in Nat
  BY TextFacts
<1>2. ASSUME NEW m \in 3 .. k PROVE bs[m].op # "defer"
  <2>1. m \in 3 .. Len(bs) /\ Len(bs) \in 3 .. Len(bs) /\ m # Len(bs)
    BY <1>1
  <2> QED
    BY <2>1 DEF TextOK, Nest
<1> QED
  BY <1>2 DEF FnIs

LEMMA DeferWritten ==
  ASSUME NEW R, NEW pr, NEW bs, NEW ct, NEW g, NEW A, NEW pr2, Carried(R, pr, bs, ct, g, A, pr2),
         NEW bs2, EndStep(pr, bs, pr2, bs2), bs[Len(bs)].op = "defer", NEW t, t = ct[Len(bs) - 2],
         NEW h, NEW B, DeferClosed(R, pr2, g, A[g.fn], h, B), NEW g3, Resumes(h, t.old, g3),
         R.past[bs[Len(bs)].place] = R.to[Len(pr2) + 1],
         NEW g4, g4 = Emit(g3, "DEFER", bs[Len(bs)].place, bs[Len(bs)].place),
         NEW ct2, ct2 = Front(ct)
  PROVE  Annotated(R, pr2, bs2, ct2, g4)
<1> DEFINE N == Len(bs)
           d == bs[N].place
<1>1. /\ Len(pr) \in Nat /\ Len(pr2) = Len(pr) + 1 /\ N \in Nat /\ N >= 3
      /\ g.fn \in Places /\ FnIs(bs, N, g.fn) /\ IsSeq(ct) /\ Len(ct) = N - 2
      /\ \A f : FnIs(bs, N, f) => f = g.fn
      /\ \A n \in Int : R.to[n] \in Int
      /\ TextOK(pr, bs) /\ N > 2 /\ Grows(pr, pr2) /\ Len(pr2) <= MaxLen
  <2>1. N > 2
    BY DEF EndStep
  <2>2. TextOK(pr, bs) /\ Grows(pr, pr2) /\ Len(pr2) <= MaxLen
    BY DEF Carried
  <2>3. /\ Len(pr) \in Nat /\ Len(pr2) = Len(pr) + 1 /\ N \in Nat
        /\ g.fn \in Places /\ FnIs(bs, N, g.fn) /\ IsSeq(ct) /\ Len(ct) = N - 2
        /\ \A f : FnIs(bs, N, f) => f = g.fn
        /\ \A n \in Int : R.to[n] \in Int
    BY CarriedFacts, SMTT(30)
  <2> HIDE DEF N
  <2> QED
    BY <2>1, <2>2, <2>3
<1>0. PICK M \in Nat : N = M + 1
  <2>1. N \in Nat /\ N >= 3
    BY <1>1
  <2>2. N - 1 \in Nat /\ N = (N - 1) + 1
    BY <2>1
  <2> QED
    BY <2>2
<1>2. /\ Len(bs2) = M /\ \A m \in 1 .. M : bs2[m] = bs[m]
  <2>1. Typed(pr, bs) /\ bs2 = Front(bs) /\ N > 2
    BY DEF EndStep, NewToken
  <2>2. Len(bs2) = N - 1 /\ \A m \in 1 .. N - 1 : bs2[m] = bs[m]
    BY <2>1, EndBlocks
  <2> QED
    BY <1>0, <2>2
<1>3. SameBlocks(bs, bs2, M)
  BY <1>0, <1>1, <1>2 DEF SameBlocks
<1>4. /\ Codes(R, pr, g, A) /\ Endings(R, pr, bs, g, A) /\ Under(R, bs, ct, g.code, A, N)
      /\ LoopsOK(R, bs, ct, g.code, A, g, N) /\ Pending(bs, ct, g) /\ IsMap(A)
  BY DEF Carried, Written
<1>5. /\ IsSeq(ct2) /\ Len(ct2) = M - 2 /\ SameCtl(ct, ct2, M) /\ SameOlds(ct, ct2, M)
  <2>1. /\ IsSeq(Front(ct)) /\ Len(Front(ct)) = N - 3
        /\ \A m \in 1 .. N - 3 : Front(ct)[m] = ct[m]
    BY <1>1, TopFacts
  <2>2. N - 3 = M - 2
    BY <1>0, <1>1
  <2>4. \A m \in 3 .. M : m - 2 \in 1 .. N - 3
    BY <1>0, <1>1
  <2> QED
    BY <1>1, <2>1, <2>2, <2>4 DEF SameCtl, SameOlds
<1>6. N \in 3 .. N /\ N - 1 = M /\ M >= 2 /\ M <= N - 1 /\ \A m \in 3 .. N : m \in 3 .. M \/ m = N
  BY <1>0, <1>1
<1>7. /\ d \in 1 .. Len(pr) /\ d # 0 /\ d \in Places /\ d \in Nat /\ pr[d].op = "defer" /\ bs[N].head = d
      /\ FnIs(bs, N, d) /\ g.fn = d
  <2>1. d \in 1 .. Len(pr)
    BY <1>1, <1>6, TextFacts
  <2>2. BlockOK(pr, bs, N)
    BY <1>1, <1>6 DEF TextOK, Nest
  <2>3. FnIs(bs, N, d)
    BY <1>6 DEF FnIs
  <2>4. d # 0 /\ d \in Places /\ d \in Nat
    BY <1>1, <2>1, BodiesAssumption, SMTT(30) DEF Places
  <2>5. "defer" \in Openers
    BY OpKinds
  <2> QED
    BY <1>1, <2>1, <2>2, <2>3, <2>4, <2>5 DEF BlockOK
<1>8. \A k \in Nat : \A f : k <= M /\ FnIs(bs, k, f) => f = 0
  BY <1>1, <1>6, AroundDefer
<1>9. /\ t.old.fn = 0 /\ FnIs(bs, M, 0) /\ LoopsOK(R, bs, ct, g.code, A, t.old, M)
      /\ t.ends = {}
  <2>1. /\ LoopsOK(R, bs, ct, g.code, A, t.old, M) /\ FnIs(bs, M, t.old.fn)
    BY <1>4, <1>6 DEF Under
  <2>2. Held(R, bs, ct, g.code, A, N)
    BY <1>4, <1>6 DEF Under
  <2>3. "defer" \in Openers
    BY OpKinds
  <2> QED
    BY <1>6, <1>8, <2>1, <2>2, <2>3 DEF Held
<1>10. /\ Coded(R, pr2, h, B, Len(pr2), Unpatched(g.code[d])) /\ Link(g, A[d], h, B) /\ SameLoop(g, h)
       /\ h.fn = d /\ GenOK(h) /\ h.code[d] = h.code[h.fn]
  BY <1>7 DEF DeferClosed, Coded, Link
<1>11. PICK A2 : A2 = Onward(A, g, B)
  OBVIOUS
<1>12. Further(R, pr2, g, A, h, A2, Len(pr2))
  BY <1>1, <1>4, <1>7, <1>10, <1>11, CodesGrow
<1>13. /\ Codes(R, pr2, h, A2) /\ AllGrown(g.code, A, h.code, A2) /\ IsMap(A2)
       /\ EndAt(h.code, A2, d) = Len(pr2)
       /\ \A f \in Places : f # d => A2[f] = A[f] /\ h.code[f] = g.code[f]
  BY <1>7, <1>12 DEF Further
<1>14. /\ GenOK(g3) /\ g3.fn = 0 /\ g3.code = h.code /\ Codes(R, pr2, g3, A2) /\ 0 \in Places
  BY <1>9, <1>13, GenFacts DEF Resumes, Codes
<1>15. EndAt(g3.code, A2, 0) = d
  <2>1. EndAt(g.code, A, 0) = d
    BY <1>4, <1>6 DEF Endings
  <2> QED
    BY <1>7, <1>13, <1>14, <2>1 DEF EndAt
<1>16. Coded(R, pr2, g3, A2[0], d, Unpatched(g3.code[0]))
  <2>1. Fits(R, pr2, g3.code[0], A2[0])
    BY <1>14 DEF Codes
  <2> QED
    BY <1>14, <1>15, <2>1 DEF Coded, EndAt, Size
<1>17. PICK D : Comes(R, pr2, g3, A2[0], g4, D, R.to[Len(pr2) + 1], Unpatched(g3.code[0]))
  <2>1. d \in 1 .. Len(pr2) /\ pr2[d].op = "defer" /\ R.to[Len(pr2) + 1] \in Int
    BY <1>1, <1>7 DEF Grows
  <2>2. FlowOK(R, pr2, Instr("DEFER", d, d), d, R.to[Len(pr2) + 1])
    BY <1>7, <2>1 DEF FlowOK, Does, Instr
  <2> QED
    BY <1>7, <1>16, <2>1, <2>2, EmitComes
<1>18. PICK A4 : A4 = Onward(A2, g3, D)
  OBVIOUS
<1>19. Further(R, pr2, g3, A2, g4, A4, R.to[Len(pr2) + 1])
  BY <1>1, <1>13, <1>14, <1>17, <1>18, CodesMore DEF Comes
<1>20. /\ Codes(R, pr2, g4, A4) /\ AllGrown(h.code, A2, g4.code, A4) /\ IsMap(A4) /\ g4.fn = 0
       /\ EndAt(g4.code, A4, 0) = R.to[Len(pr2) + 1]
       /\ \A f \in Places : f # 0 => A4[f] = A2[f] /\ g4.code[f] = h.code[f]
  BY <1>14, <1>19 DEF Further
<1>21. AllGrown(g.code, A, g4.code, A4)
  BY <1>13, <1>20, AllGrownTrans
<1>22. Endings(R, pr2, bs2, g4, A4)
  <2>1. FnIs(bs2, M, 0)
    BY <1>3, <1>9, FnSame
  <2>2. ASSUME NEW m \in 3 .. M PROVE bs2[m].op # "defer"
    <3>1. m \in 3 .. N /\ N \in 3 .. N /\ m # N
      BY <1>0
    <3>2. bs[m].op # "defer"
      BY <1>1, <3>1 DEF TextOK, Nest
    <3> QED
      BY <1>3, <3>2 DEF SameBlocks
  <2>3. ASSUME NEW y \in 1 .. Len(pr2), pr2[y].op = "end", pr2[pr2[y].head].op = "defer"
        PROVE  EndAt(g4.code, A4, pr2[y].head) = y
    <3>1. CASE y = Len(pr2)
      <4>1. pr2[y].head = d
        BY <1>1, <1>7, <3>1, NewTokenParts DEF EndStep
      <4>2. EndAt(g4.code, A4, d) = EndAt(h.code, A2, d)
        BY <1>7, <1>20 DEF EndAt
      <4> QED
        BY <1>13, <3>1, <4>1, <4>2
    <3>2. CASE y # Len(pr2)
      <4>1. y \in 1 .. Len(pr)
        BY <1>1, <3>2
      <4>2. pr2[y] = pr[y] /\ pr[y].op = "end"
        BY <1>1, <2>3, <4>1 DEF Grows
      <4>3. pr[y].head \in 1 .. Len(pr) /\ pr[y].head \notin PlacesOf(bs)
        BY <1>1, <4>1, <4>2, OpenNotEnded, TextFacts, OpKinds
      <4>4. pr2[pr[y].head] = pr[pr[y].head]
        BY <1>1, <4>3 DEF Grows
      <4>5. EndAt(g.code, A, pr[y].head) = y
        <5>1. pr[y].op = "end" /\ pr[pr[y].head].op = "defer"
          BY <2>3, <4>2, <4>4
        <5>2. Endings(R, pr, bs, g, A)
          BY <1>4
        <5> QED
          BY <4>1, <5>1, <5>2 DEF Endings
      <4>6. pr[y].head # d
        <5>1. N \in 1 .. Len(bs)
          BY <1>1
        <5>2. d \in PlacesOf(bs)
          BY <5>1 DEF PlacesOf
        <5> HIDE DEF d
        <5> QED
          BY <4>3, <5>2
      <4>7. PICK f \in 1 .. Len(pr) : f = pr[y].head
        BY <4>3
      <4>8. EndAt(g4.code, A4, f) = EndAt(g.code, A, f)
        <5>1. f \in Places /\ f # 0
          BY <1>1, BodiesAssumption DEF Places
        <5>2. A4[f] = A2[f] /\ g4.code[f] = h.code[f]
          BY <1>20, <5>1
        <5>3. A2[f] = A[f] /\ h.code[f] = g.code[f]
          BY <1>13, <4>6, <4>7, <5>1
        <5> QED
          BY <5>2, <5>3 DEF EndAt
      <4> QED
        BY <4>2, <4>5, <4>7, <4>8
    <3> QED
      BY <3>1, <3>2
  <2> QED
    BY <1>2, <1>20, <2>1, <2>2, <2>3 DEF Endings
<1>23. Under(R, bs2, ct2, g4.code, A4, M)
  <2>1. Under(R, bs, ct, g.code, A, M)
    <3>1. \A m \in 3 .. M : m \in 3 .. N
      BY <1>0
    <3> QED
      BY <1>4, <3>1 DEF Under
  <2> QED
    BY <1>3, <1>5, <1>21, <2>1, UnderKept
<1>24. SameLoop(t.old, g4)
  <2>1. \A l \in 3 .. N : ~LoopAt(bs, N, l)
    <3> SUFFICES ASSUME NEW l \in 3 .. N, LoopAt(bs, N, l)
                 PROVE  FALSE
      OBVIOUS
    <3>1. CASE l = N
      BY <3>1 DEF LoopAt, Loops
    <3>2. CASE l # N
      <4>1. N \in l + 1 .. N
        BY <1>1, <3>2
      <4> QED
        BY <4>1 DEF LoopAt
    <3> QED
      BY <3>1, <3>2
  <2>2. g.continueDest = t.old.continueDest /\ g.continues = t.old.continues
    BY <1>4, <1>6, <2>1 DEF LoopsOK
  <2>3. SameLoop(g3, g4)
    BY <1>17 DEF Comes
  <2> QED
    BY <1>10, <2>2, <2>3 DEF SameLoop, Resumes
<1>25. LoopsOK(R, bs2, ct2, g4.code, A4, g4, M)
  BY <1>3, <1>5, <1>9, <1>21, <1>24, LoopsOKKept
<1>26. ASSUME NEW f \in Places, NEW i, Hole(bs, ct, g, f, i)
       PROVE  Hole(bs2, ct2, g4, f, i)
  <2>1. ~LoopHole(bs, g, N, f, i)
    <3> SUFFICES ASSUME NEW l \in 3 .. N, LoopAt(bs, N, l)
                 PROVE  FALSE
      BY DEF LoopHole
    <3>1. CASE l = N
      BY <3>1 DEF LoopAt, Loops
    <3>2. CASE l # N
      <4>1. N \in l + 1 .. N
        BY <1>1, <3>2
      <4> QED
        BY <4>1 DEF LoopAt
    <3> QED
      BY <3>1, <3>2
  <2>2. PICK m \in 3 .. N : BlockHole(bs, ct, m, f, i)
    BY <1>26, <2>1 DEF Hole
  <2>3. CASE m = N
    <3>1. LoopHole(bs, t.old, M, f, i)
      BY <1>6, <1>9, <2>2, <2>3 DEF BlockHole, Tests, Loops
    <3>2. t.old.breaks \subseteq g4.breaks /\ t.old.continues \subseteq g4.continues
      BY <1>24 DEF SameLoop
    <3>3. LoopHole(bs2, g4, M, f, i)
      BY <1>3, <3>1, <3>2, LoopHoleKept
    <3> QED
      BY <1>2, <3>3 DEF Hole
  <2>4. CASE m # N
    <3>1. m \in 3 .. M
      BY <1>0, <2>2, <2>4
    <3>2. BlockHole(bs2, ct2, m, f, i)
      BY <1>3, <1>5, <2>2, <3>1, BlocksHoleKept
    <3> QED
      BY <1>2, <3>1, <3>2 DEF Hole
  <2> QED
    BY <2>3, <2>4
<1>27. Pending(bs2, ct2, g4)
  <2> SUFFICES ASSUME NEW f \in Places, NEW i \in Unpatched(g4.code[f])
               PROVE  i \in Unpatched(g.code[f])
    BY <1>4, <1>26 DEF Pending
  <2>1. CASE f = 0
    <3>1. Unpatched(g4.code[0]) \subseteq Unpatched(g3.code[0])
      BY <1>17, <1>20 DEF Comes, Coded
    <3> QED
      BY <1>7, <1>13, <1>14, <2>1, <3>1
  <2>2. CASE f = d
    BY <1>7, <1>10, <1>20, <2>2 DEF Coded
  <2>3. CASE f # 0 /\ f # d
    BY <1>13, <1>20, <2>3
  <2> QED
    BY <2>1, <2>2, <2>3
<1>28. Written(R, pr2, bs2, ct2, g4, A4)
  BY <1>2, <1>5, <1>20, <1>22, <1>23, <1>25, <1>27 DEF Written
<1> QED
  BY <1>20, <1>28 DEF Annotated

LEMMA ResumesIs ==
  ASSUME NEW g, GenOK(g), NEW old, old.fn \in Places, IsSeq(old.locals), NEW g2,
         g2 = [g EXCEPT !.fn = old.fn, !.locals = old.locals, !.depth = old.depth,
                        !.loopStart = old.loopStart, !.breaks = old.breaks, !.depths = old.depths]
  PROVE  Resumes(g, old, g2)
<1>1. /\ g2 = [fn |-> g2.fn, code |-> g2.code, depth |-> g2.depth, locals |-> g2.locals,
               loopStart |-> g2.loopStart, continueDest |-> g2.continueDest,
               continues |-> g2.continues, breaks |-> g2.breaks, depths |-> g2.depths]
      /\ g2.fn = old.fn /\ g2.code = g.code /\ g2.locals = old.locals
      /\ g2.loopStart = old.loopStart /\ g2.continueDest = g.continueDest
      /\ g2.continues = g.continues /\ g2.breaks = old.breaks /\ g2.depths = old.depths
  BY DEF GenOK
<1> QED
  BY <1>1 DEF GenOK, Resumes

LEMMA DeferEndGen ==
  ASSUME NEW R, NEW A, Carried(R, prog, blocks, ctl, gen, A, prog'), EndStep(prog, blocks, prog', blocks'),
         Inner.op = "defer", ctl' = Front(ctl), gen' = EndDefer
  PROVE  Annotated(R, prog', blocks', ctl', gen')
<1> DEFINE N == Len(blocks)
           U == Unpatched(gen.code[gen.fn])
           a == A[gen.fn]
           g == EndScope(gen)
<1>1. EndingAt(R, a)
  BY EndingIs
<1>2. Inner.op \in Openers /\ Inner.op \notin Loops
  BY DEF Openers, Loops
<1>3. /\ Coded(R, prog', gen, a, Here, U) /\ GenOK(gen) /\ Inner.head = Inner.place
      /\ R.past[Inner.place] = R.to[Here + 1]
  BY <1>1, <1>2 DEF EndingAt
<1>4. /\ N > 2 /\ Top = ctl[N - 2] /\ Inner = blocks[N]
      /\ NewToken(prog, blocks, prog', "end", None, PlacesOf(blocks), blocks[N].head)
  BY TopIs DEF EndStep
<1>5. /\ Here \in 1 .. Len(prog') /\ Len(prog') = Here /\ prog'[Here].op = "end"
  BY <1>4, NewPlace
<1>6. PICK B1 : Comes(R, prog', gen, a, g, B1, Here, U)
  BY <1>3, EndScopeCoded
<1>7. PICK B : Comes(R, prog', g, B1, Ended(g, Here), B, Here, U)
  BY <1>5, <1>6, EndedComes DEF Comes
<1>8. PICK h : h = Ended(g, Here)
  OBVIOUS
<1>9. Comes(R, prog', gen, a, h, B, Here, U)
  BY <1>3, <1>6, <1>7, <1>8, ComesTrans
<1>10. DeferClosed(R, prog', gen, a, h, B) /\ GenOK(h)
  BY <1>5, <1>9 DEF Comes, DeferClosed, Coded
<1>11. Top.old.fn \in Places /\ IsSeq(Top.old.locals)
  <2>1. N \in 3 .. N /\ Under(R, blocks, ctl, gen.code, A, N)
    BY <1>4, CarriedFacts DEF Carried, Written
  <2> QED
    BY <1>4, <2>1 DEF Under
<1>12. PICK g3 : g3 = [h EXCEPT !.fn = Top.old.fn, !.locals = Top.old.locals, !.depth = Top.old.depth,
                     !.loopStart = Top.old.loopStart, !.breaks = Top.old.breaks,
                     !.depths = Top.old.depths]
  OBVIOUS
<1>13. Resumes(h, Top.old, g3)
  BY <1>10, <1>11, <1>12, ResumesIs
<1>14. PICK g4, c2 : g4 = Emit(g3, "DEFER", Inner.place, Inner.place) /\ c2 = Front(ctl)
  OBVIOUS
<1>15. gen' = g4 /\ ctl' = c2
  BY <1>8, <1>12, <1>14 DEF EndDefer
<1>16. Annotated(R, prog', blocks', c2, g4)
  <2>1. R.past[blocks[N].place] = R.to[Len(prog') + 1]
    BY <1>3, <1>4, <1>5
  <2> QED
    BY <1>4, <1>10, <1>13, <1>14, <2>1, DeferWritten
<1> QED
  BY <1>15, <1>16

-----------------------------------------------------------------------------
(* Each statement that is written keeps the annotations.                   *)

(* The innermost loop is in this function.                                 *)
LEMMA LoopOpen ==
  ASSUME TextOK(prog, blocks), InnermostOf(Loops) > InnermostOf({"defer"})
  PROVE  LoopAt(blocks, Len(blocks), InnermostOf(Loops))
<1> DEFINE l == InnermostOf(Loops)
           d == InnermostOf({"defer"})
           N == Len(blocks)
<1>1. "function" \notin Loops /\ "block" \notin Loops /\ "function" \notin {"defer"} /\ "defer" \in {"defer"}
  BY DEF Loops
<1>2. /\ l \in {0} \cup 3 .. N /\ (l # 0 => blocks[l].op \in Loops)
      /\ \A n \in 1 .. N : blocks[n].op \in Loops => n <= l
  BY <1>1, InnermostIs
<1>3. d \in 0 .. N /\ \A n \in 1 .. N : blocks[n].op = "defer" => n <= d
  BY <1>1, InnermostIs
<1>4. N \in Nat
  BY TextFacts
<1> HIDE DEF l, d, N
<1>5. l \in 3 .. N /\ blocks[l].op \in Loops /\ l > d
  <2>1. l > d
    BY DEF l, d
  <2>2. l # 0
    BY <1>3, <1>4, <2>1
  <2> QED
    BY <1>2, <2>1, <2>2
<1>6. ASSUME NEW m \in l + 1 .. N PROVE blocks[m].op \notin Loops \cup {"defer"}
  <2>1. m \in 1 .. N /\ ~(m <= l) /\ ~(m <= d)
    BY <1>3, <1>4, <1>5
  <2> QED
    BY <1>2, <1>3, <2>1
<1> QED
  BY <1>5, <1>6 DEF LoopAt, l, N

LEMMA StatementGen ==
  ASSUME NEW R, NEW A, Carried(R, prog, blocks, ctl, gen, A, prog'), NEW op \in Simple, Statement(op),
         phase = "writing", phase' = "writing"
  PROVE  Annotated(R, prog', blocks', ctl', gen')
<1>1. TextOK(prog, blocks)
  BY DEF Carried
<1>2. Write(op) /\ Compile(op) /\ op # "var" /\ Allowed(op)
  BY DEF Statement, Write
<1>3. SimpleStep(prog, blocks, prog', blocks', op, Meant)
  BY <1>1, <1>2, WriteStep
<1>4. /\ ctl' = ctl
      /\ gen' = CASE op = "call"     -> GenCall
                  [] op = "use"      -> GenUse
                  [] op = "set"      -> GenSet
                  [] op = "return"   -> GenReturn
                  [] op = "panic"    -> GenPanic
                  [] op = "break"    -> GenBreak
                  [] op = "continue" -> GenContinue
  BY <1>2 DEF Compile
<1>5. op \in {"call", "use", "set", "return", "panic", "break", "continue"}
  BY <1>2 DEF Simple
<1>6. CASE op \in {"break", "continue"}
  <2>1. LoopAt(blocks, Len(blocks), InnermostOf(Loops))
    BY <1>1, <1>2, <1>6, LoopOpen DEF Allowed
  <2>2. CASE op = "break"
    <3>1. gen' = GenBreak
      BY <1>4, <2>2
    <3> QED
      BY <1>3, <1>4, <2>1, <2>2, <3>1, BreakGen
  <2>3. CASE op = "continue"
    <3>1. gen' = GenContinue
      BY <1>4, <2>3
    <3> QED
      BY <1>3, <1>4, <2>1, <2>3, <3>1, ContinueGen
  <2> QED
    BY <1>6, <2>2, <2>3
<1>7. CASE op \in {"call", "use", "set", "return", "panic"}
  <2>1. gen' = CASE op = "call"   -> GenCall
                 [] op = "use"    -> GenUse
                 [] op = "var"    -> GenVar
                 [] op = "set"    -> GenSet
                 [] op = "return" -> GenReturn
                 [] op = "panic"  -> GenPanic
    BY <1>4, <1>7
  <2> QED
    BY <1>3, <1>4, <1>7, <2>1, PlainGen
<1> QED
  BY <1>5, <1>6, <1>7

LEMMA VariableGen ==
  ASSUME NEW R, NEW A, Carried(R, prog, blocks, ctl, gen, A, prog'), Variable
  PROVE  Annotated(R, prog', blocks', ctl', gen')
<1>1. TextOK(prog, blocks) /\ WriteVar /\ CompileVar
  BY DEF Carried, Variable
<1>2. SimpleStep(prog, blocks, prog', blocks', "var", Len(prog) + 1)
  BY <1>1, WriteVarStep
<1>3. ctl' = ctl /\ gen' = GenVar
  BY <1>1 DEF CompileVar
<1> QED
  BY <1>2, <1>3, PlainGen

LEMMA OpeningGen ==
  ASSUME NEW R, NEW A, Carried(R, prog, blocks, ctl, gen, A, prog'), NEW op \in Openers, Opening(op)
  PROVE  Annotated(R, prog', blocks', ctl', gen')
<1>1. TextOK(prog, blocks) /\ WriteOpen(op) /\ CompileOpen(op)
  BY DEF Carried, Opening
<1>2. OpenStep(prog, blocks, prog', blocks', op, Meant)
  BY <1>1, WriteOpenStep
<1>3. CASE op = "if"
  BY <1>1, <1>2, <1>3, IfGen DEF CompileOpen
<1>4. CASE op = "block"
  BY <1>1, <1>2, <1>4, BlockGen DEF CompileOpen
<1>5. CASE op = "while"
  BY <1>1, <1>2, <1>5, WhileGen DEF CompileOpen
<1>6. CASE op \in {"for", "forRange"}
  BY <1>1, <1>2, <1>6, ForGen DEF CompileOpen
<1>7. CASE op = "switch"
  BY <1>1, <1>2, <1>7, SwitchGen DEF CompileOpen
<1>8. CASE op = "defer"
  BY <1>1, <1>2, <1>8, DeferGen DEF CompileOpen
<1> QED
  BY <1>3, <1>4, <1>5, <1>6, <1>7, <1>8 DEF Openers, Loops

LEMMA EndingGen ==
  ASSUME NEW R, NEW A, Carried(R, prog, blocks, ctl, gen, A, prog'), Ending
  PROVE  Annotated(R, prog', blocks', ctl', gen')
<1>1. TextOK(prog, blocks) /\ WriteEnd /\ CompileEnd
  BY DEF Carried, Ending
<1>2. EndStep(prog, blocks, prog', blocks')
  BY <1>1, WriteEndStep
<1>3. ctl' = Front(ctl)
  BY <1>1 DEF CompileEnd
<1>4. Inner.op \in Openers \cup {"else", "case"}
  <2>1. Len(blocks) > 2
    BY <1>2 DEF EndStep
  <2>2. Inner = blocks[Len(blocks)] /\ Len(blocks) \in 3 .. Len(blocks)
    BY <2>1, TopIs, CarriedFacts
  <2> QED
    BY <1>1, <2>2 DEF TextOK, Nest, BlockOK
<1>5. CASE Inner.op = "while"
  BY <1>1, <1>2, <1>3, <1>5, WhileEnds DEF CompileEnd
<1>6. CASE Inner.op \in {"for", "forRange"}
  BY <1>1, <1>2, <1>3, <1>6, ForEnds DEF CompileEnd
<1>7. CASE Inner.op \in {"if", "switch", "case"}
  <2>1. gen' = IF Inner.op = "if" THEN EndIf ELSE EndSwitch
    BY <1>1, <1>7 DEF CompileEnd
  <2> QED
    BY <1>2, <1>3, <1>7, <2>1, BranchEnds
<1>8. CASE Inner.op = "else"
  BY <1>1, <1>2, <1>3, <1>8, ElseEnds DEF CompileEnd
<1>9. CASE Inner.op = "defer"
  BY <1>1, <1>2, <1>3, <1>9, DeferEndGen DEF CompileEnd
<1>10. CASE Inner.op = "block"
  BY <1>1, <1>2, <1>3, <1>10, BlockEnds DEF CompileEnd
<1> QED
  BY <1>4, <1>5, <1>6, <1>7, <1>8, <1>9, <1>10 DEF Openers, Loops

LEMMA CodeKept ==
  ASSUME BodyInv, MaxLen \in Nat, CodeWritten, Writes, phase = "writing", phase' = "writing"
  PROVE  CodeWritten'
<1>1. mach' = mach
  BY DEF Writes, Statement, Variable, Opening, Branch, Ending, Compile, CompileVar, CompileOpen,
         CompileNext, CompileEnd
<1>2. TextOK(prog, blocks)
  BY DEF BodyInv
<1>3. Wrote
  BY <1>2, WriteStep, WriteVarStep, WriteOpenStep, WriteNextStep, WriteEndStep
     DEF Wrote, Writes, Statement, Variable, Opening, Branch, Ending
<1>4. Grows(prog, prog') /\ Len(prog') <= MaxLen
  <2>1. Len(prog) + 1 <= MaxLen
    BY <1>3, WroteText
  <2>2. \E op, decl, path, head : NewToken(prog, blocks, prog', op, decl, path, head)
    BY <1>3 DEF Wrote, SimpleStep, OpenStep, NextStep, EndStep
  <2>3. Grows(prog, prog') /\ Len(prog') = Len(prog) + 1
    BY <2>2, NewTokenParts
  <2> QED
    BY <2>1, <2>3
<1>5. ASSUME NEW R, Respects(R, prog')
      PROVE  Annotated(R, prog', blocks', ctl', gen')
  <2>1. Respects(R, prog)
    BY <1>2, <1>4, <1>5, RespectsEarlier
  <2>2. PICK A : IsMap(A) /\ Written(R, prog, blocks, ctl, gen, A)
    BY <2>1 DEF CodeWritten, Annotated
  <2>3. Carried(R, prog, blocks, ctl, gen, A, prog')
    BY <1>2, <1>4, <1>5, <2>2 DEF Carried
  <2>4. ASSUME NEW op \in {"else", "case"}, Branch(op)
        PROVE  Annotated(R, prog', blocks', ctl', gen')
    <3>1. WriteNext(op) /\ CompileNext(op)
      BY <2>4 DEF Branch
    <3>2. NextStep(prog, blocks, prog', blocks', op)
      BY <1>2, <3>1, WriteNextStep
    <3> QED
      BY <2>3, <3>1, <3>2, NextGen
  <2> QED
    BY <2>3, <2>4, StatementGen, VariableGen, OpeningGen, EndingGen DEF Writes
<1> QED
  BY <1>1, <1>5 DEF CodeWritten

LEMMA CodeInitially ==
  ASSUME ConformanceInit, MaxLen \in Nat
  PROVE  CodeWritten
<1>1. /\ prog = <<>> /\ Len(blocks) = 2 /\ gen = GenInit(blocks[1].decl) /\ ctl = <<>>
      /\ mach = [fn |-> 0, pc |-> 1, stack |-> <<>>, defers |-> <<>>]
  BY DEF ConformanceInit, Init, CodeInit
<1>2. PICK L : L = IF blocks[1].decl = None THEN <<>> ELSE <<[depth |-> 0, decl |-> blocks[1].decl]>>
  OBVIOUS
<1>3. IsSeq(L) /\ IsSeq(<<>>)
  <2>1. \A x : <<>> \in Seq({x}) /\ <<x>> \in Seq({x})
    OBVIOUS
  <2> QED
    BY <1>2, <2>1 DEF IsSeq
<1>4. PICK E : E = [f \in Places |-> <<>>]
  OBVIOUS
<1>5. /\ gen = [fn |-> 0, code |-> E, depth |-> 1, locals |-> L, loopStart |-> 0, continueDest |-> 0,
                continues |-> {}, breaks |-> {}, depths |-> <<>>]
      /\ \A f \in Places : E[f] = <<>>
  BY <1>1, <1>2, <1>4 DEF GenInit
<1>6. /\ gen.fn = 0 /\ gen.code = E /\ gen.locals = L /\ 0 \in Places
      /\ gen = [fn |-> gen.fn, code |-> gen.code, depth |-> gen.depth, locals |-> gen.locals,
                loopStart |-> gen.loopStart, continueDest |-> gen.continueDest,
                continues |-> gen.continues, breaks |-> gen.breaks, depths |-> gen.depths]
  BY <1>5 DEF Places
<1>7. IsCode(<<>>) /\ Len(<<>>) = 0
  BY <1>3 DEF IsCode
<1>8. GenOK(gen)
  BY <1>3, <1>4, <1>5, <1>6, <1>7 DEF GenOK
<1>9. ASSUME NEW R, Respects(R, prog)
      PROVE  Annotated(R, prog, blocks, ctl, gen)
  <2>1. PICK A : A = [f \in Places |-> <<R.to[f + 1]>>]
    OBVIOUS
  <2>11. \A f \in Places : R.to[f + 1] \in Int
    <3>1. \A f \in Places : f + 1 \in Int
      BY DEF Places
    <3> QED
      BY <1>9, <3>1 DEF Respects
  <2>2. IsMap(A) /\ \A f \in Places : A[f] = <<R.to[f + 1]>>
    BY <2>1 DEF IsMap
  <2>3. ASSUME NEW f \in Places PROVE Fits(R, prog, E[f], A[f]) /\ A[f][1] = R.to[f + 1]
    <3>3. PICK x \in Int : x = R.to[f + 1]
      BY <2>11
    <3>4. A[f] = <<x>>
      BY <2>2, <3>3
    <3>1. /\ A[f] \in Seq(Int) /\ Len(A[f]) = 1 /\ A[f][1] = R.to[f + 1]
      BY <3>3, <3>4
    <3>2. E[f] = <<>>
      BY <1>5
    <3> QED
      BY <1>7, <3>1, <3>2 DEF Fits
  <2>4. Codes(R, prog, gen, A)
    BY <1>5, <1>6, <1>8, <2>3 DEF Codes
  <2>5. Len(prog) = 0 /\ Len(ctl) = 0 /\ IsSeq(ctl)
    BY <1>1, <1>3
  <2>6. /\ \A m \in 3 .. Len(blocks) : FALSE
        /\ \A y \in 1 .. Len(prog) : FALSE
    BY <1>1, <2>5
  <2>7. Endings(R, prog, blocks, gen, A)
    <3>1. EndAt(gen.code, A, gen.fn) = R.to[Len(prog) + 1]
      <4>1. Len(E[0]) + 1 = 1 /\ A[0][1] = R.to[0 + 1] /\ Len(prog) + 1 = 0 + 1
        BY <1>5, <1>6, <1>7, <2>3, <2>5
      <4> QED
        BY <1>6, <4>1 DEF EndAt
    <3> QED
      BY <1>6, <2>6, <3>1 DEF Endings, FnIs
  <2>8. Under(R, blocks, ctl, gen.code, A, Len(blocks)) /\ LoopsOK(R, blocks, ctl, gen.code, A, gen, Len(blocks))
    BY <2>6 DEF Under, LoopsOK
  <2>9. Pending(blocks, ctl, gen)
    <3>1. \A f \in Places : Unpatched(gen.code[f]) = {}
      BY <1>5, <1>6, <1>7 DEF Unpatched
    <3> QED
      BY <3>1 DEF Pending
  <2>10. Len(ctl) = Len(blocks) - 2
    BY <1>1, <2>5
  <2> QED
    BY <2>2, <2>4, <2>5, <2>7, <2>8, <2>9, <2>10 DEF Written, Annotated
<1> QED
  BY <1>1, <1>9 DEF CodeWritten

-----------------------------------------------------------------------------
(* Where control goes in a body that is complete.                          *)

LEMMA SettleSame ==
  ASSUME prog' = prog
  PROVE  Settle' = Settle
<1>1. \A k : EndOf(k)' = EndOf(k)
  BY DEF EndOf, NextParts
<1>2. \A k : LoopOf(k)' = LoopOf(k)
  BY DEF LoopOf
<1> QED
  BY <1>1, <1>2 DEF Settle, EndOf, LoopOf, NextParts

LEMMA SettleRange ==
  ASSUME Complete2(prog, blocks), MaxLen \in Nat, Len(prog) <= MaxLen, NEW k \in 1 .. Len(prog) + 1
  PROVE  Settle[k] \in 1 .. Len(prog) + 1
<1> DEFINE X == {m \in Nat : \A x \in 1 .. Len(prog) + 1 :
                   Len(prog) + 1 - m <= x => Settle[x] \in 1 .. Len(prog) + 1}
<1>1. Len(prog) \in Nat /\ TextOK(prog, blocks) /\ Len(blocks) = 2
  BY TextFacts DEF Complete2
<1>2. ASSUME NEW x \in 1 .. Len(prog) + 1,
             \A z \in x + 1 .. Len(prog) + 1 : Settle[z] \in 1 .. Len(prog) + 1
      PROVE  Settle[x] \in 1 .. Len(prog) + 1
  <2>0. CASE x = Len(prog) + 1
    <3>1. x \in 1 .. MaxLen + 1 /\ x > Len(prog)
      BY <1>1, <2>0
    <3>2. Settle[x] = x
      BY <1>1, <3>1, SettleIs
    <3> QED
      BY <3>2
  <2>1. CASE x \in 1 .. Len(prog) /\ Silent(prog, x)
    <3>1. SilentTo(prog, x) \in x + 1 .. Len(prog) + 1
      BY <1>1, <2>1, SilentForward
    <3>2. Settle[x] = Settle[SilentTo(prog, x)]
      BY <1>1, <2>1, SettleIs
    <3> QED
      BY <1>2, <3>1, <3>2
  <2>2. CASE x \in 1 .. Len(prog) /\ ~Silent(prog, x)
    <3>1. Settle[x] = SettledAt(prog, x)
      BY <1>1, <2>2, SettleIs
    <3>2. prog[x].op = "continue" => LoopIn(prog, x) \in 1 .. Len(prog)
      BY <1>1, <2>2, LoopIs
    <3>3. prog[x].op = "end" => prog[x].head \in 1 .. Len(prog)
      BY <1>1, <2>2, TextFacts, OpKinds
    <3>4. SettledAt(prog, x) \in 1 .. Len(prog)
      BY <1>1, <2>2, <3>2, <3>3 DEF SettledAt
    <3> QED
      BY <1>1, <3>1, <3>4
  <2> QED
    BY <1>1, <2>0, <2>1, <2>2
<1>3. 0 \in X
  <2>1. \A x \in 1 .. Len(prog) + 1 : Len(prog) + 1 - 0 <= x => x + 1 .. Len(prog) + 1 = {}
    BY <1>1
  <2> QED
    BY <1>2, <2>1
<1>4. ASSUME NEW m \in Nat, m \in X
      PROVE  m + 1 \in X
  <2> SUFFICES ASSUME NEW x \in 1 .. Len(prog) + 1, Len(prog) + 1 - (m + 1) <= x
               PROVE  Settle[x] \in 1 .. Len(prog) + 1
    OBVIOUS
  <2>1. \A z \in x + 1 .. Len(prog) + 1 : z \in 1 .. Len(prog) + 1 /\ Len(prog) + 1 - m <= z
    BY <1>1
  <2>2. \A z \in x + 1 .. Len(prog) + 1 : Settle[z] \in 1 .. Len(prog) + 1
    BY <1>4, <2>1
  <2> QED
    BY <1>2, <2>2
<1> HIDE DEF X
<1>5. Len(prog) \in X
  BY <1>1, <1>3, <1>4, InductiveSet
<1>6. Len(prog) + 1 - Len(prog) <= k
  BY <1>1
<1> QED
  BY <1>5, <1>6 DEF X

(* One part of a statement follows another.                                *)
LEMMA FollowsOne ==
  ASSUME NEW pr, NEW bs, TextOK(pr, bs), NEW p \in 1 .. Len(pr), NEW m \in 1 .. Len(pr), NEW n \in 1 .. Len(pr),
         Follows(pr, p, m), Follows(pr, p, n)
  PROVE  m = n
<1>1. TokenOK(pr, m) /\ TokenOK(pr, n) /\ Len(pr) \in Nat
  BY TextFacts DEF TextOK, Statements
<1>2. pr[m].op \in Enders /\ pr[n].op \in Enders
  BY DEF Follows
<1>3. pr[pr[m].head].op \in Openers /\ pr[pr[n].head].op \in Openers
  BY <1>1, <1>2 DEF TokenOK
<1>4. pr[m].head = pr[n].head
  BY <1>3, OpKinds DEF Follows
<1>5. ~(m < n) /\ ~(n < m)
  BY <1>4 DEF Follows
<1> QED
  BY <1>1, <1>5

LEMMA GoingsExist ==
  ASSUME Complete2(prog, blocks), MaxLen \in Nat, Len(prog) <= MaxLen
  PROVE  \E R : GoesOn(R)
<1> DEFINE L == Len(prog)
           Next1(p) == CHOOSE m \in 1 .. L : Follows(prog, p, m)
<1>1. TextOK(prog, blocks) /\ Len(blocks) = 2 /\ L \in Nat /\ Statements(prog)
  BY TextFacts DEF Complete2, TextOK
<1>2. \A k \in 1 .. L + 1 : Settle[k] \in 1 .. L + 1
  BY SettleRange
<1>3. \A n \in 1 .. L + 1 : Settle[n] \in Int
  BY <1>1, <1>2
<1>4. PICK T : T = [k \in Int |-> IF k \in 1 .. L + 1 THEN Settle[k] ELSE 0]
  OBVIOUS
<1>5. PICK P : P = [h \in Int |-> IF h \in 1 .. L /\ prog[h].op \in Openers
                                  THEN Settle[EndIn(prog, h) + 1] ELSE 0]
  OBVIOUS
<1>6. PICK S : S = [p \in Int |->
          IF p \in 1 .. L /\ \E m \in 1 .. L : Follows(prog, p, m)
          THEN IF prog[Next1(p)].op = "case" THEN Next1(p) ELSE Settle[Next1(p) + 1]
          ELSE 0]
  OBVIOUS
<1>7. /\ T \in [Int -> Int] /\ \A k \in 1 .. L + 1 : T[k] = Settle[k]
  BY <1>1, <1>3, <1>4
<1>8. \A h \in 1 .. L : prog[h].op \in Openers =>
        EndIn(prog, h) \in 1 .. L /\ EndIn(prog, h) + 1 \in 1 .. L + 1
  <2>1. \A h \in 1 .. L : prog[h].op \in Openers => EndIn(prog, h) \in 1 .. L
    BY <1>1, EndIs
  <2> QED
    BY <1>1, <2>1
<1>9. /\ P \in [Int -> Int]
      /\ \A h \in 1 .. L : prog[h].op \in Openers => P[h] = Settle[EndIn(prog, h) + 1]
  <2>1. \A h \in 1 .. L : h \in Int
    BY <1>1
  <2>2. P \in [Int -> Int]
    BY <1>3, <1>5, <1>8
  <2> QED
    BY <1>5, <2>1, <2>2
<1>10. ASSUME NEW p \in 1 .. L, NEW m \in 1 .. L, Follows(prog, p, m)
       PROVE  Next1(p) = m /\ m + 1 \in 1 .. L + 1 /\ m \in Int /\ p \in Int
  <2>1. Next1(p) \in 1 .. L /\ Follows(prog, p, Next1(p))
    BY <1>10
  <2> HIDE DEF Next1
  <2>2. Next1(p) = m
    BY <1>1, <1>10, <2>1, FollowsOne
  <2> QED
    BY <1>1, <2>2
<1>11. /\ S \in [Int -> Int]
       /\ \A p, m \in 1 .. L : Follows(prog, p, m) => S[p] = IF prog[m].op = "case" THEN m ELSE Settle[m + 1]
  <2> DEFINE V(p) == IF p \in 1 .. L /\ \E m \in 1 .. L : Follows(prog, p, m)
                     THEN IF prog[Next1(p)].op = "case" THEN Next1(p) ELSE Settle[Next1(p) + 1]
                     ELSE 0
  <2>1. ASSUME NEW p \in 1 .. L, NEW m \in 1 .. L, Follows(prog, p, m)
        PROVE  V(p) = (IF prog[m].op = "case" THEN m ELSE Settle[m + 1]) /\ V(p) \in Int /\ p \in Int
    <3> HIDE DEF Next1
    <3>1. Next1(p) = m /\ m + 1 \in 1 .. L + 1 /\ m \in Int /\ p \in Int
      BY <1>10, <2>1
    <3>2. Settle[m + 1] \in Int
      BY <1>3, <3>1
    <3> QED
      BY <2>1, <3>1, <3>2
  <2>2. \A p \in Int : V(p) \in Int
    <3>1. SUFFICES ASSUME NEW p \in Int PROVE V(p) \in Int
      OBVIOUS
    <3>2. CASE p \in 1 .. L /\ \E m \in 1 .. L : Follows(prog, p, m)
      <4>1. PICK m \in 1 .. L : Follows(prog, p, m)
        BY <3>2
      <4> QED
        BY <2>1, <3>2, <4>1
    <3>3. CASE ~(p \in 1 .. L /\ \E m \in 1 .. L : Follows(prog, p, m))
      BY <3>3
    <3> QED
      BY <3>2, <3>3
  <2>3. S = [p \in Int |-> V(p)]
    BY <1>6
  <2> HIDE DEF V
  <2>4. S \in [Int -> Int] /\ \A p \in Int : S[p] = V(p)
    BY <2>2, <2>3
  <2> QED
    BY <2>1, <2>4
<1>12. PICK R : R = [to |-> T, past |-> P, skip |-> S]
  OBVIOUS
<1>13. R.to = T /\ R.past = P /\ R.skip = S
  BY <1>12
<1>14. ASSUME NEW k \in 1 .. L PROVE Goes(R, prog, k)
  <2> DEFINE h == prog[k].head
  <2>1. TokenOK(prog, k) /\ k \in 1 .. L + 1 /\ k + 1 \in 1 .. L + 1 /\ ~(k > L)
    BY <1>1 DEF Statements
  <2>2. T[k] = Settle[k] /\ T[k + 1] = Settle[k + 1]
    BY <1>7, <2>1
  <2>3. /\ Silent(prog, k) => Settle[k] = Settle[SilentTo(prog, k)]
        /\ ~Silent(prog, k) => Settle[k] = SettledAt(prog, k)
    BY <1>1, SettleIs
  <2>4. prog[k].op \in Enders => h \in 1 .. L /\ prog[h].op \in Openers
    BY <1>1, <2>1, TextFacts DEF TokenOK
  <2>5. prog[k].op \in Stops => R.to[k] = k
    <3>1. prog[k].op \in Stops => ~Silent(prog, k) /\ SettledAt(prog, k) = k
      BY <2>1 DEF Stops, Tests, Loops, Silent, SettledAt
    <3> QED
      BY <1>13, <2>2, <2>3, <3>1
  <2>6. prog[k].op = "block" => R.to[k] = R.to[k + 1]
    BY <1>13, <2>2, <2>3 DEF Silent, SilentTo
  <2>7. prog[k].op = "break" => R.to[k] = R.past[LoopIn(prog, k)]
    <3>1. SUFFICES ASSUME prog[k].op = "break" PROVE R.to[k] = R.past[LoopIn(prog, k)]
      OBVIOUS
    <3>2. LoopIn(prog, k) \in 1 .. L /\ prog[LoopIn(prog, k)].op \in Openers
      BY <1>1, <3>1, LoopIs
    <3>3. Settle[k] = Settle[EndIn(prog, LoopIn(prog, k)) + 1]
      BY <2>3, <3>1 DEF Silent, SilentTo
    <3> QED
      BY <1>9, <1>13, <2>2, <3>2, <3>3
  <2>8. prog[k].op = "continue" => R.to[k] = LoopIn(prog, k)
    BY <1>13, <2>1, <2>2, <2>3 DEF Silent, SettledAt
  <2>9. prog[k].op \in {"else", "case"} => R.to[k] = R.past[h]
    <3>1. SUFFICES ASSUME prog[k].op \in {"else", "case"} PROVE R.to[k] = R.past[h]
      OBVIOUS
    <3>2. Settle[k] = Settle[EndIn(prog, h) + 1]
      BY <2>3, <3>1 DEF Silent, SilentTo
    <3> QED
      BY <1>9, <1>13, <2>2, <2>4, <3>1, <3>2, OpKinds
  <2>10. prog[k].op = "end" =>
           /\ R.past[h] = R.to[k + 1]
           /\ R.to[k] = IF prog[h].op \in Loops THEN h ELSE IF prog[h].op = "defer" THEN k ELSE R.to[k + 1]
    <3>1. SUFFICES ASSUME prog[k].op = "end"
                   PROVE  /\ R.past[h] = R.to[k + 1]
                          /\ R.to[k] = IF prog[h].op \in Loops THEN h
                                       ELSE IF prog[h].op = "defer" THEN k ELSE R.to[k + 1]
      OBVIOUS
    <3>2. EndIn(prog, h) = k /\ h \in 1 .. L /\ prog[h].op \in Openers
      BY <1>1, <2>4, <3>1, EndOfEnd, OpKinds
    <3>3. R.past[h] = R.to[k + 1]
      BY <1>9, <1>13, <2>2, <3>2
    <3>4. Settle[k] = IF prog[h].op \in Loops THEN h ELSE IF prog[h].op = "defer" THEN k ELSE Settle[k + 1]
      BY <2>1, <2>3, <3>1 DEF Silent, SilentTo, SettledAt
    <3> QED
      BY <1>13, <2>2, <3>3, <3>4
  <2> QED
    BY <2>5, <2>6, <2>7, <2>8, <2>9, <2>10 DEF Goes
<1>15. ASSUME NEW p \in 1 .. L, NEW m \in 1 .. L, Follows(prog, p, m)
       PROVE  R.skip[p] = IF prog[m].op = "case" THEN m ELSE R.to[m + 1]
  <2>1. m + 1 \in 1 .. L + 1
    BY <1>1
  <2> QED
    BY <1>7, <1>11, <1>13, <1>15, <2>1
<1>16. Respects(R, prog)
  BY <1>7, <1>9, <1>11, <1>13, <1>14, <1>15 DEF Respects
<1> QED
  BY <1>2, <1>7, <1>13, <1>16 DEF GoesOn

-----------------------------------------------------------------------------
(* The code of a body that is complete, with its annotations: no jump is   *)
(* left to be patched, and each function ends where its text does.         *)

LEMMA FinishedIs ==
  ASSUME NEW pr, NEW bs, TextOK(pr, bs)
  PROVE  /\ Grows(pr, Finished(pr)) /\ Len(pr) \in Nat /\ Len(pr) + 1 \in 1 .. Len(Finished(pr))
         /\ Len(Finished(pr)) = Len(pr) + 1 /\ Finished(pr)[Len(pr) + 1].op = "end"
         /\ \A k \in 1 .. Len(pr) : k \in 1 .. Len(Finished(pr)) /\ Finished(pr)[k] = pr[k]
<1>1. PICK t : t = Token("end", None, {0}, 0)
  OBVIOUS
<1>2. t.op = "end" /\ Finished(pr) = Append(pr, t)
  BY <1>1 DEF Token, Finished
<1>3. pr \in Seq(TokenType)
  BY DEF TextOK, Typed
<1>4. IsSeq(pr)
  BY <1>3 DEF IsSeq
<1>5. Len(pr) \in Nat
  BY <1>3
<1> QED
  BY <1>2, <1>4, <1>5, SeqAppend DEF Grows

(* The code of the function that the deferred blocks are in.               *)
LEMMA RunsFrom ==
  ASSUME NEW R, NEW pr, NEW bs, NEW ct, NEW g, NEW A, Complete2(pr, bs), Len(pr) <= MaxLen, MaxLen \in Nat,
         IsMap(A), Written(R, pr, bs, ct, g, A), R.to[Len(pr) + 1] = Len(pr) + 1
  PROVE  \E A2 : Runs(R, pr, Ended(EndScope(g), Len(pr) + 1), A2)
<1> DEFINE L == Len(pr)
           F == Finished(pr)
           g2 == Ended(EndScope(g), L + 1)
<1>1. /\ TextOK(pr, bs) /\ Len(bs) = 2 /\ L \in Nat
      /\ Codes(R, pr, g, A) /\ Endings(R, pr, bs, g, A) /\ Pending(bs, ct, g)
  BY TextFacts DEF Complete2, Written
<1>2. /\ Grows(pr, F) /\ L + 1 \in 1 .. Len(F) /\ F[L + 1].op = "end"
  BY <1>1, FinishedIs
<1> HIDE DEF F
<1>3. \A m \in 3 .. Len(bs) : FALSE
  BY <1>1
<1>4. \A f \in Places : Unpatched(g.code[f]) = {}
  <2>1. \A f, j : ~Hole(bs, ct, g, f, j)
    BY <1>3 DEF Hole, LoopHole
  <2>2. \A f \in Places : \A j \in Unpatched(g.code[f]) : FALSE
    BY <1>1, <2>1 DEF Pending
  <2> QED
    BY <2>2
<1>5. g.fn = 0 /\ 0 \in Places /\ GenOK(g)
  BY <1>1, <1>3 DEF Endings, FnIs, Places, Codes
<1>6. EndAt(g.code, A, g.fn) = L + 1
  BY <1>1 DEF Endings
<1>7. Coded(R, F, g, A[g.fn], L + 1, {})
  <2>1. Coded(R, F, g, A[g.fn], L + 1, Unpatched(g.code[g.fn]))
    BY <1>1, <1>2, <1>6, CodedText
  <2> QED
    BY <1>4, <1>5, <2>1
<1>8. PICK B : Comes(R, F, g, A[g.fn], EndScope(g), B, L + 1, {})
  BY <1>7, EndScopeCoded
<1>9. PICK D : Comes(R, F, EndScope(g), B, g2, D, L + 1, {})
  <2>1. Coded(R, F, EndScope(g), B, L + 1, {})
    BY <1>8 DEF Comes
  <2> HIDE DEF g2
  <2> QED
    BY <1>2, <2>1, EndedComes DEF g2
<1> HIDE DEF g2
<1>10. Comes(R, F, g, A[g.fn], g2, D, L + 1, {})
  BY <1>5, <1>8, <1>9, ComesTrans
<1>11. /\ GenOK(g2) /\ g2.fn = 0 /\ Fits(R, F, g2.code[0], D)
       /\ D[Len(g2.code[0]) + 1] = L + 1 /\ Unpatched(g2.code[0]) = {}
       /\ \A f \in Places : f # 0 => g2.code[f] = g.code[f]
       /\ Grown(g.code[0], A[0], g2.code[0], D)
  BY <1>5, <1>10 DEF Comes, Coded, Link, Size
<1>12. PICK A2 : A2 = Onward(A, g, D)
  OBVIOUS
<1>13. A2[0] = D /\ \A f \in Places : f # 0 => A2[f] = A[f]
  BY <1>5, <1>12 DEF Onward, IsMap
<1>14. ASSUME NEW f \in FunctionsOf(pr)
       PROVE  /\ Fits(R, F, g2.code[f], A2[f]) /\ Unpatched(g2.code[f]) = {}
              /\ A2[f][1] = R.to[f + 1]
              /\ EndAt(g2.code, A2, f) = IF f = 0 THEN L + 1 ELSE EndIn(pr, f)
  <2>1. CASE f = 0
    <3>1. Fits(R, pr, g.code[0], A[0]) /\ A[0][1] = R.to[0 + 1]
      BY <1>1, <1>5 DEF Codes
    <3>2. Len(g.code[0]) \in Nat
      BY <3>1, FitsFacts
    <3>3. 1 \in 1 .. Len(g.code[0]) + 1
      BY <3>2
    <3>4. D[1] = R.to[0 + 1]
      BY <1>11, <3>1, <3>3 DEF Grown
    <3> QED
      BY <1>11, <1>13, <2>1, <3>4 DEF EndAt
  <2>2. CASE f # 0
    <3>1. f \in 1 .. L /\ pr[f].op = "defer"
      BY <2>2 DEF FunctionsOf
    <3>2. f \in Places
      BY <1>1, <3>1 DEF Places
    <3>3. g2.code[f] = g.code[f] /\ A2[f] = A[f]
      BY <1>11, <1>13, <2>2, <3>2
    <3>4. Fits(R, pr, g.code[f], A[f]) /\ A[f][1] = R.to[f + 1]
      BY <1>1, <3>2 DEF Codes
    <3>5. Fits(R, F, g.code[f], A[f])
      BY <1>1, <1>2, <3>4, FitsText
    <3>6. EndIn(pr, f) \in 1 .. L /\ pr[EndIn(pr, f)].op = "end" /\ pr[EndIn(pr, f)].head = f
      BY <1>1, <3>1, EndIs, OpKinds
    <3>7. EndAt(g.code, A, f) = EndIn(pr, f)
      BY <1>1, <3>1, <3>6 DEF Endings
    <3>8. EndAt(g2.code, A2, f) = EndIn(pr, f)
      BY <3>3, <3>7 DEF EndAt
    <3> QED
      BY <1>4, <2>2, <3>2, <3>3, <3>4, <3>5, <3>8
  <2> QED
    BY <2>1, <2>2
<1>15. Runs(R, pr, g2, A2)
  BY <1>11, <1>14 DEF Runs, F
<1> QED
  BY <1>15 DEF g2

(* The body is complete, and the machine starts with it.                   *)
LEMMA CodeStarts ==
  ASSUME BodyInv, MaxLen \in Nat, CodeWritten, defers = <<>>, Complete
  PROVE  \E R, A : CodeRun(R, A)' /\ InCode(A)'
<1>1. /\ phase = "writing" /\ Len(blocks) = 2 /\ at' = Settle[1] /\ prog' = prog /\ defers' = <<>>
      /\ gen' = Ended(EndScope(gen), Len(prog) + 1)
  BY DEF Complete, Start, CompileFunction, Here
<1>2. /\ Complete2(prog, blocks) /\ Len(prog) \in Nat /\ Len(prog) <= MaxLen
  BY <1>1, TextFacts DEF BodyInv, Complete2
<1>3. PICK R : GoesOn(R)
  BY <1>2, GoingsExist
<1>4. PICK A : IsMap(A) /\ Written(R, prog, blocks, ctl, gen, A)
  BY <1>3 DEF CodeWritten, Annotated, GoesOn
<1>5. Len(prog) + 1 \in 1 .. Len(prog) + 1 /\ 1 \in 1 .. Len(prog) + 1
  BY <1>2
<1>6. R.to[Len(prog) + 1] = Len(prog) + 1
  <2>1. Len(prog) + 1 \in 1 .. MaxLen + 1 /\ Len(prog) + 1 > Len(prog)
    BY <1>2
  <2>2. Settle[Len(prog) + 1] = Len(prog) + 1
    BY <1>2, <2>1, SettleIs DEF Complete2
  <2> QED
    BY <1>3, <1>5, <2>2 DEF GoesOn
<1>7. PICK A2 : Runs(R, prog, gen', A2)
  BY <1>1, <1>2, <1>4, <1>6, RunsFrom
<1>8. CodeRun(R, A2)'
  BY <1>1, <1>3, <1>7, SettleSame DEF CodeRun, GoesOn
<1>9. InCode(A2)'
  <2>1. /\ mach = [fn |-> 0, pc |-> 1, stack |-> <<>>, defers |-> <<>>]
        /\ mach' = [mach EXCEPT !.stack = IF blocks[1].decl = None THEN <<>> ELSE <<0>>]
    BY DEF CodeWritten, Complete, CompileFunction
  <2>2. PICK s : s = IF blocks[1].decl = None THEN <<>> ELSE <<0>>
    OBVIOUS
  <2>3. mach' = [fn |-> 0, pc |-> 1, stack |-> s, defers |-> <<>>]
    BY <2>1, <2>2
  <2>4. /\ mach'.fn = 0 /\ mach'.pc = 1 /\ mach'.defers = <<>>
        /\ mach' = [fn |-> mach'.fn, pc |-> mach'.pc, stack |-> mach'.stack, defers |-> mach'.defers]
    BY <2>3
  <2>5. 0 \in FunctionsOf(prog)
    BY DEF FunctionsOf
  <2>6. Fits(R, Finished(prog), gen'.code[0], A2[0]) /\ A2[0][1] = R.to[0 + 1]
    BY <1>7, <2>5 DEF Runs
  <2>7. 1 \in 1 .. Len(gen'.code[0]) + 1
    <3>1. Len(gen'.code[0]) \in Nat
      BY <2>6, FitsFacts
    <3> QED
      BY <3>1
  <2>8. A2[0][1] = at' /\ at' \in 1 .. Len(prog) + 1
    BY <1>1, <1>3, <1>5, <2>6 DEF GoesOn
  <2>9. Placed'
    BY <1>1 DEF Placed
  <2> QED
    BY <1>1, <2>4, <2>5, <2>7, <2>8, <2>9 DEF InCode
<1> QED
  BY <1>8, <1>9

-----------------------------------------------------------------------------
(* The machine runs the code in step with the body.                        *)

LEMMA InCodeFacts ==
  ASSUME BodyInv, MaxLen \in Nat, phase = "running", NEW R, NEW A, CodeRun(R, A), InCode(A)
  PROVE  /\ Complete2(prog, blocks) /\ Len(prog) \in Nat
         /\ at \in 1 .. Len(prog) + 1 /\ at # 0 /\ Len(gen.code[mach.fn]) \in Nat
         /\ CodeEnded => Observed = at /\ Op = "end"
         /\ ~CodeEnded => Fetched(R, A) /\ Observed = Fetch.of
<1> DEFINE c == gen.code[mach.fn]
           a == A[mach.fn]
<1>1. /\ Complete2(prog, blocks) /\ Len(prog) \in Nat /\ DOMAIN prog = 1 .. Len(prog)
      /\ TextOK(prog, blocks) /\ Len(blocks) = 2
  BY RunningFacts DEF Complete2
<1>2. /\ mach.fn \in FunctionsOf(prog) /\ mach.pc \in 1 .. Len(c) + 1
      /\ a[mach.pc] = at /\ at \in 1 .. Len(prog) + 1
  BY DEF InCode
<1>3. at # 0
  BY <1>1, <1>2
<1>4. /\ Fits(R, Finished(prog), c, a) /\ Unpatched(c) = {}
      /\ a[Len(c) + 1] = IF mach.fn = 0 THEN Len(prog) + 1 ELSE EndIn(prog, mach.fn)
  BY <1>2 DEF CodeRun, Runs, EndAt
<1>5. Len(c) \in Nat /\ DOMAIN c = 1 .. Len(c) /\ Len(a) = Len(c) + 1
  BY <1>4, FitsFacts, SeqFacts DEF Fits, IsCode
<1>6. Code = c /\ Fetch = c[mach.pc]
  BY DEF Code, Fetch
<1>7. ASSUME CodeEnded
      PROVE  Observed = at /\ Op = "end"
  <2>1. mach.pc = Len(c) + 1
    BY <1>2, <1>5, <1>6, <1>7 DEF CodeEnded
  <2>2. at = IF mach.fn = 0 THEN Len(prog) + 1 ELSE EndIn(prog, mach.fn)
    BY <1>2, <1>4, <2>1
  <2>3. CASE mach.fn = 0
    <3>1. at = Len(prog) + 1 /\ at > Len(prog)
      BY <1>1, <2>2, <2>3
    <3> QED
      BY <1>7, <2>3, <3>1 DEF Observed, Op
  <2>4. CASE mach.fn # 0
    <3>1. mach.fn \in 1 .. Len(prog) /\ prog[mach.fn].op = "defer"
      BY <1>2, <2>4 DEF FunctionsOf
    <3>2. at \in 1 .. Len(prog) /\ prog[at].op = "end"
      BY <1>1, <2>2, <2>4, <3>1, EndIs, OpKinds
    <3>3. EndOf(mach.fn) = EndIn(prog, mach.fn)
      BY <1>1 DEF EndOf, EndIn, NextParts
    <3>4. ~(at > Len(prog))
      BY <1>1, <3>2
    <3> QED
      BY <1>7, <2>2, <2>4, <3>2, <3>3, <3>4 DEF Observed, Op
  <2> QED
    BY <2>3, <2>4
<1>8. ASSUME ~CodeEnded
      PROVE  Fetched(R, A) /\ Observed = Fetch.of
  <2>1. mach.pc \in 1 .. Len(c)
    BY <1>5, <1>6, <1>8 DEF CodeEnded
  <2>2. mach.pc + 1 \in 1 .. Len(c) + 1
    BY <1>5, <2>1
  <2>3. FlowOK(R, Finished(prog), c[mach.pc], a[mach.pc], a[mach.pc + 1]) /\ JumpOK(R, c[mach.pc], a[mach.pc], a)
    BY <1>4, <2>1 DEF Fits
  <2>4. c[mach.pc].op \in {"JMP", "TEST"} => c[mach.pc].arg # 0
    BY <1>4, <2>1 DEF Unpatched
  <2>5. Observed = Fetch.of
    BY <1>6, <1>8 DEF Observed, Fetch
  <2> QED
    BY <1>2, <1>5, <1>6, <2>1, <2>2, <2>3, <2>4, <2>5 DEF Fetched
<1> QED
  BY <1>1, <1>2, <1>3, <1>5, <1>7, <1>8

LEMMA InCodeInStep ==
  ASSUME BodyInv, MaxLen \in Nat, phase = "running", NEW R, NEW A, CodeRun(R, A), InCode(A)
  PROVE  InStep
<1>1. CASE CodeEnded
  BY <1>1, InCodeFacts DEF InStep
<1>2. CASE ~CodeEnded
  <2>1. Fetched(R, A) /\ Observed = Fetch.of
    BY <1>2, InCodeFacts
  <2>2. Fetch.of # 0 => at = Fetch.of
    BY <2>1 DEF Fetched, FlowOK
  <2> QED
    BY <2>1, <2>2 DEF InStep
<1> QED
  BY <1>1, <1>2

LEMMA MachMoves ==
  ASSUME NEW m, NEW fn, NEW pc, NEW ds, IsMach(m, fn, pc, ds), NEW p, NEW s, NEW q
  PROVE  /\ IsMach([m EXCEPT !.stack = s, !.pc = p], fn, p, ds)
         /\ IsMach([m EXCEPT !.pc = p], fn, p, ds)
         /\ IsMach([m EXCEPT !.defers = q, !.pc = p], fn, p, q)
<1>1. m = [fn |-> m.fn, pc |-> m.pc, stack |-> m.stack, defers |-> m.defers]
  BY DEF IsMach
<1>2. PICK d : d = [m EXCEPT !.stack = s, !.pc = p]
  OBVIOUS
<1>3. d = [fn |-> m.fn, pc |-> p, stack |-> s, defers |-> m.defers]
  BY <1>1, <1>2
<1>4. PICK e : e = [m EXCEPT !.pc = p]
  OBVIOUS
<1>5. e = [fn |-> m.fn, pc |-> p, stack |-> m.stack, defers |-> m.defers]
  BY <1>1, <1>4
<1>6. PICK h : h = [m EXCEPT !.defers = q, !.pc = p]
  OBVIOUS
<1>7. h = [fn |-> m.fn, pc |-> p, stack |-> m.stack, defers |-> q]
  BY <1>1, <1>6
<1>8. IsMach(d, fn, p, ds) /\ IsMach(e, fn, p, ds) /\ IsMach(h, fn, p, q)
  BY <1>3, <1>5, <1>7 DEF IsMach
<1> QED
  BY <1>2, <1>4, <1>6, <1>8

LEMMA MovesOn ==
  ASSUME NEW A, InCode(A), prog' = prog, gen' = gen, NEW p \in 1 .. Len(gen.code[mach.fn]) + 1,
         IsMach(mach', mach.fn, p, defers'), A[mach.fn][p] = at', at' \in 1 .. Len(prog) + 1, Placed'
  PROVE  InCode(A)'
BY DEF InCode, IsMach

(* An instruction that does nothing one can see.                           *)
LEMMA UnseenMoves ==
  ASSUME BodyInv, MaxLen \in Nat, phase = "running", NEW R, NEW A, CodeRun(R, A), InCode(A), Unseen
  PROVE  InCode(A)'
<1>1. /\ Observed = 0 /\ UNCHANGED <<prog, at, defers, gen>>
      /\ mach' = CASE Fetch.op = "CONST" -> Push(Fetch.arg)
                   [] Fetch.op = "POP"   -> [mach EXCEPT !.stack = Front(@), !.pc = @ + 1]
                   [] Fetch.op = "JMP"   -> [mach EXCEPT !.pc = Fetch.arg]
                   [] Fetch.op = "SET"   ->
                        [mach EXCEPT !.stack = Front([mach.stack EXCEPT ![Fetch.arg] = Last(mach.stack)]),
                                     !.pc = @ + 1]
  BY DEF Unseen, Internal, bodyVars
<1>2. at \in 1 .. Len(prog) + 1 /\ at # 0 /\ Len(prog) \in Nat
  BY InCodeFacts
<1>3. ~CodeEnded
  BY <1>1, <1>2, InCodeFacts
<1>4. Fetched(R, A) /\ Fetch.of = 0
  BY <1>1, <1>3, InCodeFacts
<1>5. IsMach(mach, mach.fn, mach.pc, defers)
  BY DEF InCode, IsMach
<1>6. Fetch.op \in {"CONST", "POP", "SET", "JMP"}
  BY <1>4 DEF Fetched, FlowOK
<1>7. CASE Fetch.op = "JMP"
  <2>1. mach' = [mach EXCEPT !.pc = Fetch.arg]
    BY <1>1, <1>7
  <2>2. IsMach(mach', mach.fn, Fetch.arg, defers')
    <3>1. IsMach([mach EXCEPT !.pc = Fetch.arg], mach.fn, Fetch.arg, defers)
      BY <1>5, MachMoves
    <3> QED
      BY <1>1, <2>1, <3>1
  <2>3. Fetch.arg \in 1 .. Len(gen.code[mach.fn]) + 1 /\ A[mach.fn][Fetch.arg] = at
    BY <1>4, <1>7 DEF Fetched, JumpOK
  <2>4. Placed'
    BY <1>1 DEF InCode, Placed
  <2> QED
    BY <1>1, <1>2, <2>2, <2>3, <2>4, MovesOn
<1>8. CASE Fetch.op # "JMP"
  <2>1. \E s : mach' = [mach EXCEPT !.stack = s, !.pc = mach.pc + 1]
    <3>1. CASE Fetch.op = "CONST"
      <4>1. mach' = [mach EXCEPT !.stack = Append(mach.stack, Fetch.arg), !.pc = mach.pc + 1]
        BY <1>1, <3>1 DEF Push
      <4> QED
        BY <4>1
    <3>2. CASE Fetch.op = "POP"
      <4>1. mach' = [mach EXCEPT !.stack = Front(mach.stack), !.pc = mach.pc + 1]
        BY <1>1, <3>2
      <4> QED
        BY <4>1
    <3>3. CASE Fetch.op = "SET"
      <4>1. mach' = [mach EXCEPT !.stack = Front([mach.stack EXCEPT ![Fetch.arg] = Last(mach.stack)]),
                                 !.pc = mach.pc + 1]
        BY <1>1, <3>3
      <4> QED
        BY <4>1
    <3> QED
      BY <1>6, <1>8, <3>1, <3>2, <3>3
  <2>2. IsMach(mach', mach.fn, mach.pc + 1, defers')
    <3>1. PICK s : mach' = [mach EXCEPT !.stack = s, !.pc = mach.pc + 1]
      BY <2>1
    <3>2. IsMach([mach EXCEPT !.stack = s, !.pc = mach.pc + 1], mach.fn, mach.pc + 1, defers)
      BY <1>5, MachMoves
    <3> QED
      BY <1>1, <3>1, <3>2
  <2>3. /\ mach.pc + 1 \in 1 .. Len(gen.code[mach.fn]) + 1
        /\ A[mach.fn][mach.pc + 1] = A[mach.fn][mach.pc] /\ A[mach.fn][mach.pc] = at
    BY <1>4, <1>8 DEF Fetched, FlowOK, InCode
  <2>4. Placed'
    BY <1>1 DEF InCode, Placed
  <2> QED
    BY <1>1, <1>2, <2>2, <2>3, <2>4, MovesOn
<1> QED
  BY <1>7, <1>8

(* The function is left for the deferred block that is due.                *)
LEMMA LeaveMoves ==
  ASSUME BodyInv, MaxLen \in Nat, phase = "running", NEW R, NEW A, CodeRun(R, A), InCode(A),
         DoLeave, phase' = "running", prog' = prog, gen' = gen, mach' = Leave
  PROVE  InCode(A)'
<1> DEFINE DS == {d \in 1 .. Len(prog) : prog[d].op = "defer"}
<1>1. /\ defers # <<>> /\ at' = Settle[Head(defers) + 1] /\ defers' = Tail(defers)
  BY DEF DoLeave
<1>2. mach.defers = defers /\ Placed /\ Len(prog) \in Nat
  BY InCodeFacts DEF InCode
<1>3. Tail(defers) \in Seq(DS)
  BY <1>1, <1>2, LeftOK
<1>4. Head(defers) \in DS
  <2>1. defers \in Seq(DS)
    BY <1>2 DEF Placed
  <2> HIDE DEF DS
  <2> QED
    BY <1>1, <2>1
<1>5. PICK d : d = Head(defers)
  OBVIOUS
<1>6. d \in FunctionsOf(prog) /\ d + 1 \in 1 .. Len(prog) + 1
  BY <1>2, <1>4, <1>5 DEF FunctionsOf
<1>7. mach' = [fn |-> d, pc |-> 1, stack |-> <<>>, defers |-> Tail(defers)]
  BY <1>1, <1>2, <1>5 DEF Leave
<1>8. /\ mach'.fn = d /\ mach'.pc = 1 /\ mach'.defers = defers'
      /\ mach' = [fn |-> mach'.fn, pc |-> mach'.pc, stack |-> mach'.stack, defers |-> mach'.defers]
  BY <1>1, <1>7
<1>9. Fits(R, Finished(prog), gen.code[d], A[d]) /\ A[d][1] = R.to[d + 1]
  BY <1>6 DEF CodeRun, Runs
<1>10. 1 \in 1 .. Len(gen.code[d]) + 1
  <2>1. Len(gen.code[d]) \in Nat
    BY <1>9, FitsFacts
  <2> QED
    BY <2>1
<1>11. A[d][1] = at' /\ at' \in 1 .. Len(prog) + 1
  BY <1>1, <1>5, <1>6, <1>9 DEF CodeRun, GoesOn
<1>12. Placed'
  BY <1>1, <1>3 DEF Placed
<1> QED
  BY <1>6, <1>8, <1>10, <1>11, <1>12 DEF InCode

(* A test that fails.                                                      *)
LEMMA SkippedTo ==
  ASSUME BodyInv, MaxLen \in Nat, phase = "running", NEW R, GoesOn(R), at \in 1 .. Len(prog),
         prog[at].op \in Tests
  PROVE  Skipped = R.skip[at] /\ Skipped \in 1 .. Len(prog) + 1
<1>1. PICK h \in 1 .. Len(prog), m \in 1 .. Len(prog) : SkipsTo(h, m)
  BY SkippedIs
<1>2. Len(prog) \in Nat
  BY RunningFacts
<1>3. m + 1 \in 1 .. Len(prog) + 1 /\ m \in 1 .. Len(prog) + 1
  BY <1>2
<1>4. Follows(prog, at, m)
  BY <1>1, OpKinds DEF SkipsTo, Follows
<1>5. R.skip[at] = IF prog[m].op = "case" THEN m ELSE R.to[m + 1]
  BY <1>4 DEF GoesOn, Respects
<1>6. Skipped = IF prog[m].op = "case" THEN m ELSE Settle[m + 1]
  BY <1>1 DEF SkipsTo
<1> QED
  BY <1>3, <1>5, <1>6 DEF GoesOn

(* An instruction that does what the body does next.                       *)
LEMMA SeenMoves ==
  ASSUME BodyInv, MaxLen \in Nat, phase = "running", NEW R, NEW A, CodeRun(R, A), InCode(A),
         NEW b \in BOOLEAN, Do(b), Step(b), ~CodeEnded, phase' = "running"
  PROVE  InCode(A)'
<1> DEFINE L == Len(prog)
           F == Finished(prog)
           next == A[mach.fn][mach.pc + 1]
<1>1. /\ Observed = at /\ mach' = Seen(b) /\ gen' = gen /\ prog' = prog
      /\ (DoPlain \/ DoDefer \/ DoTest(b) \/ DoLeave)
  BY DEF Step, Do, Text
<1>2. /\ Complete2(prog, blocks) /\ TextOK(prog, blocks) /\ L \in Nat /\ at \in 1 .. L + 1 /\ at # 0
      /\ Fetched(R, A) /\ Fetch.of = at /\ Len(blocks) = 2
  BY <1>1, InCodeFacts DEF Complete2
<1>3. /\ mach.pc + 1 \in 1 .. Len(gen.code[mach.fn]) + 1 /\ Does(R, F, Fetch, next)
      /\ JumpOK(R, Fetch, at, A[mach.fn]) /\ Len(A[mach.fn]) = Len(gen.code[mach.fn]) + 1
      /\ Fetch.op \in {"JMP", "TEST"} => Fetch.arg # 0
  BY <1>2 DEF Fetched, FlowOK
<1>4. IsMach(mach, mach.fn, mach.pc, defers) /\ mach.defers = defers /\ Placed
  BY DEF InCode, IsMach
<1>5. /\ Len(F) = L + 1 /\ F[L + 1].op = "end"
      /\ \A k \in 1 .. L : F[k] = prog[k]
  BY <1>2, FinishedIs
<1> HIDE DEF F
<1>6. Op = F[at].op /\ (Op # "end" => at \in 1 .. L /\ prog[at].op = Op)
  <2>1. CASE at = L + 1
    <3>1. at > L
      BY <1>2, <2>1
    <3> QED
      BY <1>5, <2>1, <3>1 DEF Op
  <2>2. CASE at # L + 1
    <3>1. at \in 1 .. L /\ ~(at > L)
      BY <1>2, <2>2
    <3> QED
      BY <1>5, <3>1 DEF Op
  <2> QED
    BY <2>1, <2>2
<1>7. at \in 1 .. L => at + 1 \in 1 .. L + 1 /\ R.to[at + 1] = Settle[at + 1] /\ R.to[at + 1] \in 1 .. L + 1
  <2>1. at \in 1 .. L => at + 1 \in 1 .. L + 1
    BY <1>2
  <2> QED
    BY <2>1 DEF CodeRun, GoesOn
<1>8. mach' = CASE Fetch.op = "GET"              -> Push(mach.stack[Fetch.arg])
                [] Fetch.op \in {"CALL", "CONST"} -> Push(Fetch.arg)
                [] Fetch.op = "TEST"             -> [mach EXCEPT !.pc = IF b THEN @ + 1 ELSE Fetch.arg]
                [] Fetch.op = "DEFER"            -> [mach EXCEPT !.defers = <<Fetch.arg>> \o @, !.pc = @ + 1]
                [] Fetch.op \in {"RETURN", "PANIC"} -> Leave
  BY <1>1 DEF Seen
<1>9. CASE Fetch.op \in {"CALL", "GET", "CONST"}
  <2>1. Op \in {"call", "use", "var", "set"} /\ next = R.to[at + 1]
    BY <1>2, <1>3, <1>6, <1>9 DEF Does
  <2>2. DoPlain
    BY <1>1, <2>1 DEF DoDefer, DoTest, DoLeave, Tests, Loops
  <2>3. at' = Settle[at + 1] /\ defers' = defers
    BY <2>2 DEF DoPlain
  <2>4. PICK v : mach' = Push(v)
    BY <1>8, <1>9
  <2>5. PICK s : s = Append(mach.stack, v)
    OBVIOUS
  <2>6. mach' = [mach EXCEPT !.stack = s, !.pc = mach.pc + 1]
    BY <2>4, <2>5 DEF Push
  <2>7. IsMach([mach EXCEPT !.stack = s, !.pc = mach.pc + 1], mach.fn, mach.pc + 1, defers)
    BY <1>4, MachMoves
  <2>8. IsMach(mach', mach.fn, mach.pc + 1, defers')
    BY <2>3, <2>6, <2>7
  <2>9. next = at' /\ at' \in 1 .. L + 1
    BY <1>6, <1>7, <2>1, <2>3
  <2>10. Placed'
    BY <1>1, <1>4, <2>3 DEF Placed
  <2> QED
    BY <1>1, <1>3, <2>8, <2>9, <2>10, MovesOn
<1>10. CASE Fetch.op = "TEST"
  <2>1. Op \in Tests /\ next = R.to[at + 1]
    BY <1>2, <1>3, <1>6, <1>10 DEF Does
  <2>2. DoTest(b) /\ Op # "end"
    BY <1>1, <2>1 DEF DoPlain, DoDefer, DoLeave, Tests, Loops
  <2>3. at' = (IF b THEN Settle[at + 1] ELSE Skipped) /\ defers' = defers
    BY <2>2 DEF DoTest
  <2>4. PICK p : p = IF b THEN mach.pc + 1 ELSE Fetch.arg
    OBVIOUS
  <2>5. mach' = [mach EXCEPT !.pc = p]
    BY <1>8, <1>10, <2>4
  <2>6. IsMach([mach EXCEPT !.pc = p], mach.fn, p, defers)
    BY <1>4, MachMoves
  <2>7. IsMach(mach', mach.fn, p, defers')
    BY <2>3, <2>5, <2>6
  <2>8. /\ p \in 1 .. Len(gen.code[mach.fn]) + 1
        /\ A[mach.fn][p] = at' /\ at' \in 1 .. L + 1
    <3>1. CASE b
      BY <1>3, <1>6, <1>7, <2>1, <2>2, <2>3, <2>4, <3>1
    <3>2. CASE ~b
      <4>1. /\ Fetch.arg \in 1 .. Len(gen.code[mach.fn]) + 1
            /\ A[mach.fn][Fetch.arg] = R.skip[at]
        BY <1>2, <1>3, <1>10 DEF JumpOK
      <4>2. Skipped = R.skip[at] /\ Skipped \in 1 .. L + 1
        BY <1>6, <2>1, <2>2, SkippedTo DEF CodeRun
      <4> QED
        BY <2>3, <2>4, <3>2, <4>1, <4>2
    <3> QED
      BY <3>1, <3>2
  <2>9. Placed'
    BY <1>1, <1>4, <2>3 DEF Placed
  <2> QED
    BY <1>1, <2>7, <2>8, <2>9, MovesOn
<1>11. CASE Fetch.op = "DEFER"
  <2>1. Op = "defer" /\ next = R.past[at] /\ Fetch.arg = at
    BY <1>2, <1>3, <1>6, <1>11 DEF Does
  <2>2. DoDefer /\ at \in 1 .. L /\ prog[at].op = "defer"
    BY <1>1, <1>6, <2>1 DEF DoPlain, DoTest, DoLeave, Tests, Loops
  <2>3. at' = Settle[EndOf(at) + 1] /\ defers' = <<at>> \o defers
    BY <2>2 DEF DoDefer
  <2>4. PICK q : q = <<Fetch.arg>> \o mach.defers
    OBVIOUS
  <2>5. mach' = [mach EXCEPT !.defers = q, !.pc = mach.pc + 1] /\ q = defers'
    BY <1>4, <1>8, <1>11, <2>1, <2>3, <2>4
  <2>6. IsMach([mach EXCEPT !.defers = q, !.pc = mach.pc + 1], mach.fn, mach.pc + 1, q)
    BY <1>4, MachMoves
  <2>7. IsMach(mach', mach.fn, mach.pc + 1, defers')
    BY <2>5, <2>6
  <2>8. PICK y : y = EndIn(prog, at)
    OBVIOUS
  <2>9. y \in 1 .. L /\ prog[y].op = "end" /\ prog[y].head = at
    BY <1>2, <2>2, <2>8, EndIs, OpKinds
  <2>10. EndOf(at) = y
    <3>1. DOMAIN prog = 1 .. Len(prog)
      BY RunningFacts
    <3> QED
      BY <2>8, <3>1 DEF EndOf, EndIn, NextParts
  <2>11. R.past[at] = R.to[y + 1]
    BY <2>9 DEF CodeRun, GoesOn, Respects, Goes
  <2>12. y + 1 \in 1 .. L + 1
    BY <1>2, <2>9
  <2>13. next = at' /\ at' \in 1 .. L + 1
    BY <2>1, <2>3, <2>10, <2>11, <2>12 DEF CodeRun, GoesOn
  <2>14. Placed'
    <3> DEFINE DS == {d \in 1 .. Len(prog) : prog[d].op = "defer"}
    <3>1. at \in DS /\ defers \in Seq(DS)
      BY <1>4, <2>2 DEF Placed
    <3> HIDE DEF DS
    <3>2. <<at>> \o defers \in Seq(DS)
      BY <3>1
    <3> QED
      BY <1>1, <2>3, <3>2 DEF Placed, DS
  <2> QED
    BY <1>1, <1>3, <2>7, <2>13, <2>14, MovesOn
<1>12. CASE Fetch.op \in {"RETURN", "PANIC"}
  <2>1. Op \in {"return", "panic", "end"}
    BY <1>2, <1>3, <1>6, <1>12 DEF Does
  <2>2. DoLeave
    BY <1>1, <2>1 DEF DoPlain, DoDefer, DoTest, Tests, Loops
  <2>3. mach' = Leave
    BY <1>8, <1>12
  <2> QED
    BY <1>1, <2>2, <2>3, LeaveMoves
<1> QED
  BY <1>3, <1>9, <1>10, <1>11, <1>12 DEF Does

LEMMA ExecuteMoves ==
  ASSUME BodyInv, MaxLen \in Nat, phase = "running", NEW R, NEW A, CodeRun(R, A), InCode(A),
         NEW b \in BOOLEAN, Do(b), Step(b), phase' = "running"
  PROVE  InCode(A)'
<1>1. CASE ~CodeEnded
  BY <1>1, SeenMoves
<1>2. CASE CodeEnded
  <2>1. Op = "end"
    BY <1>2, InCodeFacts
  <2>2. /\ DoLeave /\ mach' = Seen(b) /\ gen' = gen /\ prog' = prog
    BY <2>1 DEF Do, Step, Text, DoPlain, DoDefer, DoTest, Tests, Loops
  <2>3. mach' = Leave
    BY <1>2, <2>2 DEF Seen
  <2> QED
    BY <2>2, <2>3, LeaveMoves
<1> QED
  BY <1>1, <1>2

-----------------------------------------------------------------------------
LEMMA CodeInvKept ==
  ASSUME BodyInv, MaxLen \in Nat, NatInv, CodeInv, [Next]_vars
  PROVE  CodeInv'
<1>1. CASE Writes
  <2>1. phase = "writing"
    BY <1>1 DEF Writes, Statement, Variable, Opening, Branch, Ending,
                Write, WriteVar, WriteOpen, WriteNext, WriteEnd, Writing
  <2>2. phase' # "running"
    BY <1>1, <2>1, DefersWritten DEF NatInv
  <2>3. phase' = "writing" => CodeWritten'
    BY <1>1, <2>1, CodeKept DEF CodeInv
  <2> QED
    BY <2>2, <2>3 DEF CodeInv
<1>2. CASE Complete
  <2>1. phase = "writing" /\ phase' = "running"
    BY <1>2 DEF Complete, Start
  <2>2. CodeWritten /\ defers = <<>>
    BY <2>1 DEF CodeInv, NatInv, WrittenDefers
  <2>3. \E R, A : CodeRun(R, A)' /\ InCode(A)'
    BY <1>2, <2>2, CodeStarts
  <2> QED
    BY <2>1, <2>3 DEF CodeInv
<1>3. CASE UNCHANGED vars
  <2>1. UNCHANGED <<phase, prog, blocks, at, defers, gen, ctl, mach>>
    BY <1>3 DEF vars, bodyVars, codeVars
  <2>2. Settle' = Settle
    BY <2>1, SettleSame
  <2> QED
    BY <2>1, <2>2 DEF CodeInv, CodeWritten, CodeRun, InCode, GoesOn, Placed
<1>4. CASE phase = "running" /\ (Unseen \/ \E b \in BOOLEAN : Execute(b))
  <2>1. prog' = prog /\ gen' = gen
    BY <1>4 DEF Unseen, Internal, bodyVars, Execute, Do, Text, Step
  <2>2. Settle' = Settle
    BY <2>1, SettleSame
  <2>3. PICK R, A : CodeRun(R, A) /\ InCode(A)
    BY <1>4 DEF CodeInv
  <2>4. CodeRun(R, A)'
    BY <2>1, <2>2, <2>3 DEF CodeRun, GoesOn
  <2>5. phase' # "writing"
    BY <1>4 DEF Unseen, bodyVars, Execute, Do, DoPlain, DoDefer, DoTest, DoLeave
  <2>6. phase' = "running" => InCode(A)'
    <3>1. CASE Unseen
      BY <1>4, <2>3, <3>1, UnseenMoves
    <3>2. CASE \E b \in BOOLEAN : Execute(b)
      BY <1>4, <2>3, <3>2, ExecuteMoves DEF Execute
    <3> QED
      BY <1>4, <3>1, <3>2
  <2> QED
    BY <2>4, <2>5, <2>6 DEF CodeInv
<1>5. Unseen \/ (\E b \in BOOLEAN : Execute(b)) => phase = "running"
  BY DEF Unseen, Internal, Execute, Do
<1> QED
  BY <1>1, <1>2, <1>3, <1>4, <1>5 DEF Next, Writes

(* Whatever the bytecode does that one can see is what the body does next, *)
(* whatever the body: every jump that the compiler leaves open is patched  *)
(* once, to where control goes on, and each function ends in a return that *)
(* goes to the deferred block that is due.                                 *)
THEOREM CodeInStep == Spec => []InStep
<1> DEFINE I == BodyInv /\ NatInv /\ CodeInv
<1>1. MaxLen \in Nat
  BY BodiesAssumption
<1>2. ConformanceInit => I
  <2> SUFFICES ASSUME ConformanceInit
               PROVE  I
    OBVIOUS
  <2>1. phase = "writing" /\ Init
    BY DEF ConformanceInit, Init
  <2> QED
    BY <1>1, <2>1, BodyInitially, DefersInitially, CodeInitially DEF NatInv, CodeInv
<1>3. I /\ [Next]_vars => I'
  BY <1>1, BodyKept, NatKept, CodeInvKept
<1>4. I => InStep
  <2> SUFFICES ASSUME I, phase = "running"
               PROVE  InStep
    BY DEF InStep
  <2>1. PICK R, A : CodeRun(R, A) /\ InCode(A)
    BY DEF CodeInv
  <2> QED
    BY <1>1, <2>1, InCodeInStep
<1> QED
  BY <1>2, <1>3, <1>4, PTL DEF Spec
=============================================================================
