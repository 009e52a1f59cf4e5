-------------------------- MODULE OwnershipProofs --------------------------
(***************************************************************************)
(* Proof of what the checker of moves and borrows promises, for texts of   *)
(* every length and every mix of statements.                               *)
(*                                                                         *)
(* The inductive invariant relates the text read so far to the open blocks *)
(* and to the environments.  It is stated of any text pr, blocks bs and    *)
(* environments es, and every step of the checker is made of three changes *)
(* of these: a statement is added, a block is opened, a block is closed.   *)
(***************************************************************************)
EXTENDS Ownership, SequenceTheorems, WellFoundedInduction, TLAPS

Ops == Simple \cup Openers \cup Enders
Moving == {"move", "returnX"}
Returning == {"return", "returnX"}

TokenType == [op : Ops, inst : Nat, path : SUBSET Nat, head : Nat, iso : BOOLEAN]
BlockType ==
  [op : Ops, place : Nat, head : Nat, own : BOOLEAN, decl : Nat \cup {None},
   ends : BOOLEAN, term : BOOLEAN, first : BOOLEAN]
EnvType ==
  [isolated : BOOLEAN, inst : Nat \cup {None}, moved : Nat, mut : BOOLEAN, shared : BOOLEAN]

Typed(pr, bs, es) ==
  /\ pr \in Seq(TokenType)
  /\ bs \in Seq(BlockType) /\ Len(bs) >= 1
  /\ es \in Seq(EnvType) /\ Len(es) >= 2

PlacesOf(bs) == {bs[n].place : n \in 1 .. Len(bs)}
Isolated(pr, k) == \E p \in pr[k].path \ {0} : pr[p].iso

(* What is true of each statement of the text,                             *)
TokenOK(pr, k) ==
  /\ pr[k].path \subseteq 0 .. k - 1
  /\ pr[k].inst <= k
  /\ pr[k].op \in Simple => ~pr[k].iso
  /\ pr[k].op \in {"while", "switch", "case"} => pr[k].iso
  /\ pr[k].op \in Enders => pr[k].head \in 1 .. k - 1 /\ pr[pr[k].head].op \in Openers
  /\ pr[k].op = "break" => \E p \in pr[k].path \ {0} : pr[p].op \in Loops

Text(pr) == \A k \in 1 .. Len(pr) : TokenOK(pr, k)

(* of the environment f[n] that the block n uses,                          *)
Align(pr, bs, es, f) ==
  /\ f \in [1 .. Len(bs) -> 2 .. Len(es)]
  /\ f[1] = 2 /\ f[Len(bs)] = Len(es)
  /\ \A m, n \in 1 .. Len(bs) :
       m < n => f[m] <= f[n] /\ (bs[n].own => f[m] < f[n])
  /\ \A n \in 2 .. Len(bs) : f[n] = f[n - 1] + IF bs[n].own THEN 1 ELSE 0
  /\ \A n \in 1 .. Len(bs) : ~bs[n].own => n > 1 /\ es[f[n]].isolated
  /\ \A n \in 2 .. Len(bs) : pr[bs[n].place].iso => bs[n].own /\ es[f[n]].isolated
  /\ \A e \in 1 .. Len(es) :
       es[e].isolated =>
         \E m \in 2 .. Len(bs) : f[m] = e /\ bs[m].own /\ pr[bs[m].place].iso

(* of the order of the blocks,                                             *)
Nest(pr, bs) ==
  /\ bs[1].place = 0
  /\ \A n \in 1 .. Len(bs) : bs[n].place <= Len(pr)
  /\ \A m, n \in 1 .. Len(bs) : m < n => bs[m].place < bs[n].place
  /\ \A n \in 2 .. Len(bs) :
       /\ pr[bs[n].place].op = bs[n].op
       /\ bs[n].op \in {"if", "else"} => pr[bs[n].place].iso = bs[n].term
       /\ bs[n].head \in 1 .. Len(pr) /\ pr[bs[n].head].op \in Openers
  /\ \A n \in 1 .. Len(bs), k \in 1 .. Len(pr) :
       bs[n].place < k => bs[n].place \in pr[k].path

Shape(pr, bs, es, f) ==
  Typed(pr, bs, es) /\ Text(pr) /\ Align(pr, bs, es, f) /\ Nest(pr, bs)

-----------------------------------------------------------------------------
(* Sequences that differ in their last element.                            *)

Grows(s, t) == Len(t) = Len(s) + 1 /\ \A k \in 1 .. Len(s) : t[k] = s[k]

LEMMA AppendGrows ==
  ASSUME NEW S, NEW s \in Seq(S), NEW x \in S
  PROVE  /\ Append(s, x) \in Seq(S)
         /\ Grows(s, Append(s, x))
         /\ Append(s, x)[Len(s) + 1] = x
BY AppendProperties DEF Grows

LEMMA FrontGrows ==
  ASSUME NEW S, NEW s \in Seq(S), Len(s) > 1
  PROVE  Front(s) \in Seq(S) /\ Grows(Front(s), s)
<1>1. Len(s) \in Nat /\ \A k \in 1 .. Len(s) : s[k] \in S
  BY LenProperties, ElementOfSeq
<1>2. Front(s) = SubSeq(s, 1, Len(s) - 1)
  BY DEF Front
<1>3. \A i \in 1 .. Len(s) - 1 : s[i] \in S
  BY <1>1
<1>4. /\ Front(s) \in Seq(S) /\ Len(Front(s)) = Len(s) - 1
      /\ \A i \in 1 .. Len(s) - 1 : Front(s)[i] = s[i]
  BY <1>1, <1>2, <1>3, SubSeqProperties
<1> QED
  BY <1>1, <1>4 DEF Grows

(* What is stated of every element of Seq(S), for the types above.         *)
LEMMA TypedParts ==
  ASSUME NEW pr, NEW bs, NEW es, Typed(pr, bs, es)
  PROVE  /\ Len(pr) \in Nat /\ Len(bs) \in Nat /\ Len(es) \in Nat
         /\ Len(bs) >= 1 /\ Len(es) >= 2
         /\ \A k \in 1 .. Len(pr) :
              /\ pr[k].op \in Ops /\ pr[k].inst \in Nat /\ pr[k].path \in SUBSET Nat
              /\ pr[k].head \in Nat /\ pr[k].iso \in BOOLEAN
         /\ \A n \in 1 .. Len(bs) :
              /\ bs[n] \in BlockType
              /\ bs[n].op \in Ops /\ bs[n].place \in Nat /\ bs[n].head \in Nat
              /\ bs[n].own \in BOOLEAN /\ bs[n].decl \in Nat \cup {None}
              /\ bs[n].ends \in BOOLEAN /\ bs[n].term \in BOOLEAN /\ bs[n].first \in BOOLEAN
         /\ \A e \in 1 .. Len(es) :
              /\ es[e] \in EnvType
              /\ es[e].isolated \in BOOLEAN /\ es[e].inst \in Nat \cup {None}
              /\ es[e].moved \in Nat /\ es[e].mut \in BOOLEAN /\ es[e].shared \in BOOLEAN
<1>1. /\ pr \in Seq(TokenType) /\ bs \in Seq(BlockType) /\ es \in Seq(EnvType)
      /\ Len(bs) >= 1 /\ Len(es) >= 2
  BY DEF Typed
<1>2. /\ \A k \in 1 .. Len(pr) : pr[k] \in TokenType
      /\ \A n \in 1 .. Len(bs) : bs[n] \in BlockType
      /\ \A e \in 1 .. Len(es) : es[e] \in EnvType
  BY <1>1, ElementOfSeq
<1>3. Len(pr) \in Nat /\ Len(bs) \in Nat /\ Len(es) \in Nat
  BY <1>1, LenProperties
<1>4. ASSUME NEW k \in 1 .. Len(pr)
      PROVE  /\ pr[k].op \in Ops /\ pr[k].inst \in Nat /\ pr[k].path \in SUBSET Nat
             /\ pr[k].head \in Nat /\ pr[k].iso \in BOOLEAN
  BY <1>2 DEF TokenType
<1>5. ASSUME NEW n \in 1 .. Len(bs)
      PROVE  /\ bs[n].op \in Ops /\ bs[n].place \in Nat /\ bs[n].head \in Nat
             /\ bs[n].own \in BOOLEAN /\ bs[n].decl \in Nat \cup {None}
             /\ bs[n].ends \in BOOLEAN /\ bs[n].term \in BOOLEAN /\ bs[n].first \in BOOLEAN
  BY <1>2 DEF BlockType
<1>6. ASSUME NEW e \in 1 .. Len(es)
      PROVE  /\ es[e].isolated \in BOOLEAN /\ es[e].inst \in Nat \cup {None}
             /\ es[e].moved \in Nat /\ es[e].mut \in BOOLEAN /\ es[e].shared \in BOOLEAN
  BY <1>2 DEF EnvType
<1> QED
  BY <1>1, <1>2, <1>3, <1>4, <1>5, <1>6

(* A nonempty set of places has a lowest and a highest one.                *)
LEMMA LowestIs ==
  ASSUME NEW S, S \subseteq Nat, S # {}
  PROVE  Lowest(S) \in S /\ \A m \in S : Lowest(S) <= m
<1>1. PICK x \in S : \A y \in S : ~(<<y, x>> \in OpToRel(<, Nat))
  BY NatLessThanWellFounded, WFMin
<1>2. ASSUME NEW y \in S
      PROVE  x <= y
  <2>1. x \in Nat /\ y \in Nat
    OBVIOUS
  <2>2. ~(y < x)
    BY <1>1, <2>1 DEF OpToRel
  <2> QED
    BY <2>1, <2>2
<1> QED
  BY <1>1, <1>2 DEF Lowest

LEMMA HighestIs ==
  ASSUME NEW n \in Nat, NEW S, S \subseteq 0 .. n, S # {}
  PROVE  Highest(S) \in S /\ \A m \in S : m <= Highest(S)
<1> DEFINE D == {n - m : m \in S}
<1>1. D \subseteq Nat /\ D # {}
  OBVIOUS
<1>2. Lowest(D) \in D /\ \A d \in D : Lowest(D) <= d
  BY <1>1, LowestIs
<1>3. PICK h \in S : Lowest(D) = n - h
  BY <1>2
<1>4. ASSUME NEW m \in S
      PROVE  m <= h
  <2>1. n - h <= n - m
    BY <1>2, <1>3
  <2> QED
    BY <2>1
<1> QED
  BY <1>4 DEF Highest

-----------------------------------------------------------------------------
(* The three changes.  A statement is added,                               *)

BlockKept(b, c) ==
  /\ c.op = b.op /\ c.place = b.place /\ c.head = b.head
  /\ c.own = b.own /\ c.term = b.term /\ c.first = b.first
  /\ b.ends => c.ends

Stmt(pr, bs, es, pr2, bs2, es2) ==
  /\ Typed(pr, bs, es) /\ Typed(pr2, bs2, es2)
  /\ Grows(pr, pr2) /\ TokenOK(pr2, Len(pr) + 1)
  /\ pr2[Len(pr) + 1].op \in Simple \cup {"end"}
  /\ PlacesOf(bs) \subseteq pr2[Len(pr) + 1].path
  /\ pr2[Len(pr) + 1].op \in Simple => pr2[Len(pr) + 1].path = PlacesOf(bs)
  /\ Len(bs2) = Len(bs)
  /\ \A n \in 1 .. Len(bs) : BlockKept(bs[n], bs2[n]) /\ (n # Len(bs) => bs2[n] = bs[n])
  /\ Len(es2) = Len(es)
  /\ \A e \in 1 .. Len(es) : es2[e].isolated = es[e].isolated

(* a block is opened,                                                      *)
Push(pr, bs, es, pr2, bs2, es2) ==
  /\ Typed(pr, bs, es) /\ Typed(pr2, bs2, es2)
  /\ Grows(pr, pr2) /\ TokenOK(pr2, Len(pr) + 1)
  /\ pr2[Len(pr) + 1].op \in Openers \cup {"else", "case"}
  /\ pr2[Len(pr) + 1].path = PlacesOf(bs)
  /\ Grows(bs, bs2)
  /\ LET t == pr2[Len(pr) + 1]
         b == bs2[Len(bs2)]
     IN  /\ b.op = t.op /\ b.place = Len(pr) + 1 /\ b.decl = None /\ b.ends = FALSE
         /\ b.head \in 1 .. Len(pr) + 1 /\ pr2[b.head].op \in Openers
         /\ t.op \in {"if", "else"} => t.iso = b.term
         /\ b.own = (t.iso \/ t.op = "for" \/ ~es[Len(es)].isolated)
         /\ b.own => Grows(es, es2) /\ es2[Len(es2)] = TypeEnv(t.iso, None)
         /\ ~b.own => es2 = es

(* and a block is closed.                                                  *)
Pop(bs, es, bs2, es2) ==
  /\ Grows(bs2, bs) /\ Len(bs2) >= 1
  /\ bs[Len(bs)].own => Grows(es2, es)
  /\ ~bs[Len(bs)].own => es2 = es

Opened(bs, es, f) == [n \in 1 .. Len(bs) |-> IF n = Len(bs) THEN Len(es) ELSE f[n]]
Closed(bs, f)     == [n \in 1 .. Len(bs) |-> f[n]]

LEMMA TextGrows ==
  ASSUME NEW pr, Len(pr) \in Nat, NEW pr2, Grows(pr, pr2), Text(pr), TokenOK(pr2, Len(pr) + 1)
  PROVE  Text(pr2)
<1> SUFFICES ASSUME NEW k \in 1 .. Len(pr)
             PROVE  TokenOK(pr2, k)
  BY DEF Text, Grows
<1>1. TokenOK(pr, k) /\ pr2[k] = pr[k]
  BY DEF Text, Grows
<1>2. \A i \in 1 .. k - 1 : pr2[i] = pr[i]
  BY DEF Grows
<1>3. \A p \in pr[k].path \ {0} : pr2[p] = pr[p]
  BY <1>1, <1>2 DEF TokenOK
<1>4. pr[k].op \in Enders => pr2[pr[k].head] = pr[pr[k].head]
  BY <1>1, <1>2 DEF TokenOK
<1> QED
  BY <1>1, <1>3, <1>4 DEF TokenOK

LEMMA IsolatedKept ==
  ASSUME NEW pr, Len(pr) \in Nat, NEW pr2, Grows(pr, pr2), Text(pr), NEW k \in 1 .. Len(pr)
  PROVE  Isolated(pr2, k) <=> Isolated(pr, k)
<1>1. TokenOK(pr, k) /\ pr2[k] = pr[k]
  BY DEF Text, Grows
<1>2. \A i \in 1 .. k - 1 : pr2[i] = pr[i]
  BY DEF Grows
<1>3. \A p \in pr[k].path \ {0} : pr2[p] = pr[p]
  BY <1>1, <1>2 DEF TokenOK
<1> QED
  BY <1>1, <1>3 DEF Isolated

(* The blocks that are open have places of the text, in order.             *)
LEMMA PlacesInText ==
  ASSUME NEW pr, NEW bs, NEW es, Typed(pr, bs, es), Nest(pr, bs)
  PROVE  /\ PlacesOf(bs) \subseteq 0 .. Len(pr)
         /\ \A n \in 2 .. Len(bs) : bs[n].place \in 1 .. Len(pr)
         /\ \A m, n \in 1 .. Len(bs) : bs[m].place = bs[n].place => m = n
<1>1. Len(pr) \in Nat /\ Len(bs) \in Nat /\ Len(bs) >= 1
      /\ \A n \in 1 .. Len(bs) : bs[n].place \in Nat
  BY TypedParts
<1>2. \A n \in 2 .. Len(bs) : bs[n].place \in 1 .. Len(pr)
  <2> SUFFICES ASSUME NEW n \in 2 .. Len(bs)
               PROVE  bs[n].place \in 1 .. Len(pr)
    OBVIOUS
  <2>1. bs[1].place < bs[n].place
    BY <1>1 DEF Nest
  <2> QED
    BY <1>1, <2>1 DEF Nest
<1>3. ASSUME NEW m \in 1 .. Len(bs), NEW n \in 1 .. Len(bs), bs[m].place = bs[n].place
      PROVE  m = n
  <2>1. ~(m < n) /\ ~(n < m)
    BY <1>1, <1>3 DEF Nest
  <2> QED
    BY <2>1, <1>1
<1>4. PlacesOf(bs) \subseteq 0 .. Len(pr)
  BY <1>1 DEF PlacesOf, Nest
<1> QED
  BY <1>2, <1>3, <1>4

-----------------------------------------------------------------------------
(* Each change keeps the shape.                                            *)

LEMMA StmtShape ==
  ASSUME NEW pr, NEW bs, NEW es, NEW pr2, NEW bs2, NEW es2, NEW f,
         Shape(pr, bs, es, f), Stmt(pr, bs, es, pr2, bs2, es2)
  PROVE  Shape(pr2, bs2, es2, f)
<1> DEFINE N == Len(pr) + 1
<1>1. Typed(pr, bs, es) /\ Typed(pr2, bs2, es2) /\ Text(pr) /\ Align(pr, bs, es, f) /\ Nest(pr, bs)
  BY DEF Shape, Stmt
<1>2. /\ Len(pr) \in Nat /\ Len(bs) \in Nat /\ Len(es) \in Nat /\ Len(bs) >= 1
      /\ \A n \in 1 .. Len(bs) : bs[n].place \in Nat /\ bs[n].own \in BOOLEAN
  BY <1>1, TypedParts
<1>3. /\ Len(pr2) = N /\ Len(bs2) = Len(bs) /\ Len(es2) = Len(es)
      /\ \A k \in 1 .. Len(pr) : pr2[k] = pr[k]
      /\ \A n \in 1 .. Len(bs) : BlockKept(bs[n], bs2[n])
      /\ \A e \in 1 .. Len(es) : es2[e].isolated = es[e].isolated
      /\ PlacesOf(bs) \subseteq pr2[N].path
  BY DEF Stmt, Grows
<1>4. \A n \in 2 .. Len(bs) : bs[n].place \in 1 .. Len(pr) /\ pr2[bs[n].place] = pr[bs[n].place]
  BY <1>1, <1>3, PlacesInText
<1>5. Text(pr2)
  BY <1>1, <1>2, TextGrows DEF Stmt
<1>6. Align(pr2, bs2, es2, f)
  <2>1. f \in [1 .. Len(bs2) -> 2 .. Len(es2)] /\ f[1] = 2 /\ f[Len(bs2)] = Len(es2)
    BY <1>1, <1>3 DEF Align
  <2>2. \A m, n \in 1 .. Len(bs2) : m < n => f[m] <= f[n] /\ (bs2[n].own => f[m] < f[n])
    BY <1>1, <1>3 DEF Align, BlockKept
  <2>3. \A n \in 2 .. Len(bs2) : f[n] = f[n - 1] + IF bs2[n].own THEN 1 ELSE 0
    BY <1>1, <1>2, <1>3 DEF Align, BlockKept
  <2>4. \A n \in 1 .. Len(bs2) : ~bs2[n].own => n > 1 /\ es2[f[n]].isolated
    <3> SUFFICES ASSUME NEW n \in 1 .. Len(bs2), ~bs2[n].own
                 PROVE  n > 1 /\ es2[f[n]].isolated
      OBVIOUS
    <3>1. n > 1 /\ es[f[n]].isolated /\ f[n] \in 2 .. Len(es)
      BY <1>1, <1>3 DEF Align, BlockKept
    <3> QED
      BY <3>1, <1>2, <1>3
  <2>5. ASSUME NEW n \in 2 .. Len(bs2), pr2[bs2[n].place].iso
        PROVE  bs2[n].own /\ es2[f[n]].isolated
    <3>1. n \in 1 .. Len(bs) /\ BlockKept(bs[n], bs2[n]) /\ pr[bs[n].place].iso
      BY <2>5, <1>2, <1>3, <1>4 DEF BlockKept
    <3>2. bs[n].own /\ es[f[n]].isolated /\ f[n] \in 2 .. Len(es)
      BY <3>1, <1>1, <1>2, <1>3 DEF Align
    <3> QED
      BY <3>1, <3>2, <1>2, <1>3 DEF BlockKept
  <2>6. ASSUME NEW e \in 1 .. Len(es2), es2[e].isolated
        PROVE  \E m \in 2 .. Len(bs2) : f[m] = e /\ bs2[m].own /\ pr2[bs2[m].place].iso
    <3>1. PICK m \in 2 .. Len(bs) : f[m] = e /\ bs[m].own /\ pr[bs[m].place].iso
      BY <2>6, <1>1, <1>3 DEF Align
    <3>2. m \in 1 .. Len(bs) /\ BlockKept(bs[m], bs2[m])
      BY <1>2, <1>3
    <3>3. bs2[m].own /\ pr2[bs2[m].place].iso
      BY <3>1, <3>2, <1>4 DEF BlockKept
    <3> QED
      BY <3>1, <3>3, <1>3
  <2> QED
    BY <2>1, <2>2, <2>3, <2>4, <2>5, <2>6 DEF Align
<1>7. Nest(pr2, bs2)
  <2>1. \A n \in 1 .. Len(bs2) : bs2[n].place = bs[n].place /\ bs2[n].op = bs[n].op /\ bs2[n].term = bs[n].term /\ bs2[n].head = bs[n].head
    BY <1>3 DEF BlockKept
  <2>2. bs2[1].place = 0
    BY <2>1, <1>1, <1>2, <1>3 DEF Nest
  <2>3. \A n \in 1 .. Len(bs2) : bs2[n].place <= Len(pr2)
    BY <2>1, <1>1, <1>2, <1>3 DEF Nest
  <2>4. \A m, n \in 1 .. Len(bs2) : m < n => bs2[m].place < bs2[n].place
    BY <2>1, <1>1, <1>3 DEF Nest
  <2>5. ASSUME NEW n \in 2 .. Len(bs2)
        PROVE  /\ pr2[bs2[n].place].op = bs2[n].op
               /\ bs2[n].op \in {"if", "else"} => pr2[bs2[n].place].iso = bs2[n].term
               /\ bs2[n].head \in 1 .. Len(pr2) /\ pr2[bs2[n].head].op \in Openers
    <3>1. n \in 1 .. Len(bs) /\ n \in 1 .. Len(bs2)
      BY <1>2, <1>3
    <3>2. /\ pr[bs[n].place].op = bs[n].op
          /\ bs[n].op \in {"if", "else"} => pr[bs[n].place].iso = bs[n].term
          /\ bs[n].head \in 1 .. Len(pr) /\ pr[bs[n].head].op \in Openers
      BY <1>1, <1>3 DEF Nest
    <3>3. pr2[bs[n].place] = pr[bs[n].place] /\ pr2[bs[n].head] = pr[bs[n].head]
      BY <3>2, <1>3, <1>4
    <3> QED
      BY <3>1, <3>2, <3>3, <2>1, <1>2, <1>3, SMTT(30)
  <2>6. ASSUME NEW n \in 1 .. Len(bs2), NEW k \in 1 .. Len(pr2), bs2[n].place < k
        PROVE  bs2[n].place \in pr2[k].path
    <3>1. CASE k \in 1 .. Len(pr)
      BY <3>1, <2>6, <2>1, <1>1, <1>3 DEF Nest
    <3>2. CASE k = N
      BY <3>2, <2>1, <1>3 DEF PlacesOf
    <3> QED
      BY <3>1, <3>2, <1>2, <1>3
  <2> QED
    BY <2>2, <2>3, <2>4, <2>5, <2>6 DEF Nest
<1> QED
  BY <1>1, <1>5, <1>6, <1>7 DEF Shape

LEMMA PopShape ==
  ASSUME NEW pr, NEW bs, NEW es, NEW bs2, NEW es2, NEW f,
         Shape(pr, bs, es, f), Pop(bs, es, bs2, es2),
         bs2 \in Seq(BlockType), es2 \in Seq(EnvType)
  PROVE  Shape(pr, bs2, es2, Closed(bs2, f))
<1> DEFINE g == Closed(bs2, f)
<1>1. Typed(pr, bs, es) /\ Text(pr) /\ Align(pr, bs, es, f) /\ Nest(pr, bs)
  BY DEF Shape
<1>2. /\ Len(pr) \in Nat /\ Len(bs) \in Nat /\ Len(es) \in Nat /\ Len(es2) \in Nat /\ Len(bs2) \in Nat
      /\ \A n \in 1 .. Len(bs) : bs[n].place \in Nat /\ bs[n].own \in BOOLEAN
  BY <1>1, TypedParts, LenProperties
<1>3. /\ Len(bs) = Len(bs2) + 1 /\ Len(bs2) >= 1
      /\ \A n \in 1 .. Len(bs2) : bs2[n] = bs[n]
  BY DEF Pop, Grows
<1>4. \A n \in 1 .. Len(bs2) : g[n] = f[n] /\ f[n] \in 2 .. Len(es)
  BY <1>1, <1>2, <1>3 DEF Align, Closed
<1>5. f[Len(bs)] = f[Len(bs2)] + IF bs[Len(bs)].own THEN 1 ELSE 0
  BY <1>1, <1>2, <1>3 DEF Align
<1>6. f[Len(bs)] = Len(es) /\ f[1] = 2
  BY <1>1 DEF Align
<1>7. /\ f[Len(bs2)] = Len(es2) /\ Len(es2) <= Len(es)
      /\ \A e \in 1 .. Len(es2) : es2[e] = es[e]
      /\ ~bs[Len(bs)].own => Len(es2) = Len(es)
      /\ bs[Len(bs)].own => Len(es2) = Len(es) - 1
  <2>1. f[Len(bs2)] \in 2 .. Len(es) /\ bs[Len(bs)].own \in BOOLEAN
    BY <1>2, <1>3, <1>4
  <2>2. CASE bs[Len(bs)].own
    BY <2>1, <2>2, <1>2, <1>5, <1>6 DEF Pop, Grows
  <2>3. CASE ~bs[Len(bs)].own
    BY <2>1, <2>3, <1>2, <1>5, <1>6 DEF Pop, Grows
  <2> QED
    BY <2>1, <2>2, <2>3
<1>8. \A n \in 1 .. Len(bs2) : f[n] \in 2 .. Len(es2)
  <2> SUFFICES ASSUME NEW n \in 1 .. Len(bs2)
               PROVE  f[n] \in 2 .. Len(es2)
    OBVIOUS
  <2>1. CASE n = Len(bs2)
    BY <2>1, <1>4, <1>7
  <2>2. CASE n # Len(bs2)
    <3>1. f[n] <= f[Len(bs2)]
      BY <2>2, <1>1, <1>2, <1>3 DEF Align
    <3> QED
      BY <3>1, <1>2, <1>4, <1>7
  <2> QED
    BY <2>1, <2>2
<1>9. Typed(pr, bs2, es2)
  BY <1>1, <1>2, <1>3, <1>4, <1>7 DEF Typed
<1>10. Align(pr, bs2, es2, g)
  <2>1. g \in [1 .. Len(bs2) -> 2 .. Len(es2)] /\ g[1] = 2 /\ g[Len(bs2)] = Len(es2)
    BY <1>2, <1>3, <1>4, <1>6, <1>7, <1>8 DEF Closed
  <2>2. \A m, n \in 1 .. Len(bs2) : m < n => g[m] <= g[n] /\ (bs2[n].own => g[m] < g[n])
    BY <1>1, <1>2, <1>3, <1>4 DEF Align
  <2>3. ASSUME NEW n \in 2 .. Len(bs2)
        PROVE  g[n] = g[n - 1] + IF bs2[n].own THEN 1 ELSE 0
    <3>1. n \in 1 .. Len(bs2) /\ n - 1 \in 1 .. Len(bs2) /\ n \in 2 .. Len(bs)
      BY <1>2, <1>3
    <3>2. f[n] = f[n - 1] + IF bs[n].own THEN 1 ELSE 0
      BY <3>1, <1>1 DEF Align
    <3> QED
      BY <3>1, <3>2, <1>3, <1>4
  <2>4. \A n \in 1 .. Len(bs2) : ~bs2[n].own => n > 1 /\ es2[g[n]].isolated
    BY <1>1, <1>2, <1>3, <1>4, <1>7, <1>8 DEF Align
  <2>5. ASSUME NEW n \in 2 .. Len(bs2), pr[bs2[n].place].iso
        PROVE  bs2[n].own /\ es2[g[n]].isolated
    <3>1. n \in 1 .. Len(bs2) /\ n \in 2 .. Len(bs)
      BY <1>2, <1>3
    <3>2. bs[n].own /\ es[f[n]].isolated
      BY <3>1, <2>5, <1>1, <1>3 DEF Align
    <3>3. f[n] \in 1 .. Len(es2)
      BY <3>1, <1>2, <1>8
    <3> QED
      BY <3>1, <3>2, <3>3, <1>3, <1>4, <1>7
  <2>6. ASSUME NEW e \in 1 .. Len(es2), es2[e].isolated
        PROVE  \E m \in 2 .. Len(bs2) : g[m] = e /\ bs2[m].own /\ pr[bs2[m].place].iso
    <3>1. PICK m \in 2 .. Len(bs) : f[m] = e /\ bs[m].own /\ pr[bs[m].place].iso
      BY <2>6, <1>1, <1>2, <1>7 DEF Align
    <3>2. m # Len(bs)
      BY <3>1, <1>2, <1>6, <1>7
    <3>3. m \in 2 .. Len(bs2) /\ m \in 1 .. Len(bs2)
      BY <3>2, <1>2, <1>3
    <3>4. g[m] = e /\ bs2[m].own /\ pr[bs2[m].place].iso
      BY <3>1, <3>3, <1>3, <1>4
    <3> QED
      BY <3>3, <3>4
  <2> QED
    BY <2>1, <2>2, <2>3, <2>4, <2>5, <2>6 DEF Align
<1>11. Nest(pr, bs2)
  <2>1. \A n \in 1 .. Len(bs2) : n \in 1 .. Len(bs) /\ bs2[n] = bs[n]
    BY <1>2, <1>3
  <2>2. \A n \in 2 .. Len(bs2) : n \in 2 .. Len(bs) /\ bs2[n] = bs[n]
    BY <1>2, <1>3
  <2>3. bs2[1] = bs[1]
    BY <2>1, <1>2, <1>3
  <2> QED
    BY <2>1, <2>2, <2>3, <1>1 DEF Nest
<1> QED
  BY <1>1, <1>9, <1>10, <1>11 DEF Shape

LEMMA PushShape ==
  ASSUME NEW pr, NEW bs, NEW es, NEW pr2, NEW bs2, NEW es2, NEW f,
         Shape(pr, bs, es, f), Push(pr, bs, es, pr2, bs2, es2)
  PROVE  Shape(pr2, bs2, es2, Opened(bs2, es2, f))
<1> DEFINE N == Len(pr) + 1
           M == Len(bs) + 1
           g == Opened(bs2, es2, f)
           t == pr2[N]
           b == bs2[M]
<1>1. Typed(pr, bs, es) /\ Typed(pr2, bs2, es2) /\ Text(pr) /\ Align(pr, bs, es, f) /\ Nest(pr, bs)
  BY DEF Shape, Push
<1>2. /\ Len(pr) \in Nat /\ Len(bs) \in Nat /\ Len(es) \in Nat /\ Len(bs) >= 1
      /\ Len(es) >= 2 /\ Len(es2) \in Nat
      /\ \A n \in 1 .. Len(bs) : bs[n].place \in Nat /\ bs[n].own \in BOOLEAN
      /\ \A e \in 1 .. Len(es) : es[e].isolated \in BOOLEAN
  BY <1>1, TypedParts
<1>3. /\ Len(pr2) = N /\ Len(bs2) = M
      /\ \A k \in 1 .. Len(pr) : pr2[k] = pr[k]
      /\ \A n \in 1 .. Len(bs) : bs2[n] = bs[n]
      /\ t.path = PlacesOf(bs) /\ TokenOK(pr2, N)
  BY DEF Push, Grows
<1>4. /\ b.op = t.op /\ b.place = N /\ b.decl = None /\ b.ends = FALSE
      /\ b.head \in 1 .. N /\ pr2[b.head].op \in Openers
      /\ t.op \in {"if", "else"} => t.iso = b.term
      /\ b.own = (t.iso \/ t.op = "for" \/ ~es[Len(es)].isolated)
      /\ b.own => Grows(es, es2) /\ es2[Len(es2)] = TypeEnv(t.iso, None)
      /\ ~b.own => es2 = es
  BY <1>3 DEF Push
<1>5. t.iso \in BOOLEAN /\ b.own \in BOOLEAN
  <2>1. N \in 1 .. Len(pr2) /\ M \in 1 .. Len(bs2)
    BY <1>2, <1>3
  <2>2. /\ \A k \in 1 .. Len(pr2) : pr2[k].iso \in BOOLEAN
        /\ \A n \in 1 .. Len(bs2) : bs2[n].own \in BOOLEAN
    BY <1>1, TypedParts
  <2> QED
    BY <2>1, <2>2
<1>6. /\ b.own => Len(es2) = Len(es) + 1 /\ es2[Len(es2)].isolated = t.iso
      /\ ~b.own => Len(es2) = Len(es) /\ es2[Len(es2)].isolated /\ ~t.iso
      /\ \A e \in 1 .. Len(es) : es2[e] = es[e]
  <2>1. CASE b.own
    <3>1. Grows(es, es2) /\ es2[Len(es2)] = TypeEnv(t.iso, None)
      BY <2>1, <1>4
    <3>2. es2[Len(es2)].isolated = t.iso
      BY <3>1 DEF TypeEnv
    <3> QED
      BY <2>1, <3>1, <3>2 DEF Grows
  <2>2. CASE ~b.own
    <3>1. es2 = es /\ ~t.iso /\ es[Len(es)].isolated
      BY <2>2, <1>2, <1>4, <1>5
    <3> QED
      BY <2>2, <3>1
  <2> QED
    BY <2>1, <2>2
<1>7. \A n \in 1 .. Len(bs) : g[n] = f[n] /\ f[n] \in 2 .. Len(es)
  <2>1. \A n \in 1 .. Len(bs) : n \in 1 .. Len(bs2) /\ n # Len(bs2)
    BY <1>2, <1>3
  <2>2. f \in [1 .. Len(bs) -> 2 .. Len(es)]
    BY <1>1 DEF Align
  <2> QED
    BY <2>1, <2>2 DEF Opened
<1>8. g[M] = Len(es2) /\ Len(es2) >= Len(es) /\ (b.own => Len(es2) > Len(es))
  BY <1>2, <1>3, <1>5, <1>6 DEF Opened
<1>9. \A n \in 2 .. Len(bs) : bs[n].place \in 1 .. Len(pr) /\ pr2[bs[n].place] = pr[bs[n].place]
  BY <1>1, <1>3, PlacesInText
<1>10. Text(pr2)
  BY <1>1, <1>2, TextGrows DEF Push
<1>11. \A n \in 1 .. M : n \in 1 .. Len(bs) \/ n = M
  BY <1>2
<1> HIDE DEF g, b
<1>12. Align(pr2, bs2, es2, g)
  <2>1. g \in [1 .. Len(bs2) -> 2 .. Len(es2)] /\ g[1] = 2 /\ g[Len(bs2)] = Len(es2)
    <3>1. g[1] = 2 /\ g[Len(bs2)] = Len(es2)
      BY <1>1, <1>2, <1>3, <1>7, <1>8 DEF Align
    <3>2. \A n \in 1 .. M : g[n] \in 2 .. Len(es2)
      BY <1>2, <1>7, <1>8, <1>11
    <3> QED
      BY <3>1, <3>2, <1>3 DEF g, Opened
  <2>2. ASSUME NEW m \in 1 .. Len(bs2), NEW n \in 1 .. Len(bs2), m < n
        PROVE  g[m] <= g[n] /\ (bs2[n].own => g[m] < g[n])
    <3>1. m \in 1 .. Len(bs)
      BY <2>2, <1>2, <1>3
    <3>2. CASE n \in 1 .. Len(bs)
      BY <2>2, <3>1, <3>2, <1>1, <1>3, <1>7 DEF Align
    <3>3. CASE n = M
      <4>1. g[m] = f[m] /\ f[m] \in 2 .. Len(es) /\ g[n] = Len(es2)
        BY <3>1, <3>3, <1>7, <1>8
      <4>2. bs2[n].own => b.own
        BY <3>3 DEF b
      <4>3. g[m] \in Nat /\ g[m] <= Len(es) /\ Len(es2) \in Nat /\ Len(es) \in Nat
        BY <4>1, <1>2
      <4> QED
        BY <4>1, <4>2, <4>3, <1>8
    <3> QED
      BY <3>2, <3>3, <1>3, <1>11
  <2>3. ASSUME NEW n \in 2 .. Len(bs2)
        PROVE  g[n] = g[n - 1] + IF bs2[n].own THEN 1 ELSE 0
    <3>1. n \in 1 .. Len(bs2) /\ n - 1 \in 1 .. Len(bs)
      BY <1>2, <1>3
    <3>2. CASE n \in 1 .. Len(bs)
      <4>1. f[n] = f[n - 1] + IF bs[n].own THEN 1 ELSE 0
        BY <3>2, <1>1 DEF Align
      <4> QED
        BY <3>1, <3>2, <4>1, <1>3, <1>7
    <3>3. CASE n = M
      <4>1. g[n - 1] = Len(es)
        BY <3>1, <3>3, <1>1, <1>2, <1>7 DEF Align
      <4>2. g[n] = Len(es) + IF b.own THEN 1 ELSE 0
        BY <3>3, <1>5, <1>6, <1>8
      <4> QED
        BY <3>3, <4>1, <4>2 DEF b
    <3> QED
      BY <3>1, <3>2, <3>3, <1>3, <1>11
  <2>4. ASSUME NEW n \in 1 .. Len(bs2), ~bs2[n].own
        PROVE  n > 1 /\ es2[g[n]].isolated
    <3>1. CASE n \in 1 .. Len(bs)
      <4>1. n > 1 /\ es[f[n]].isolated
        BY <2>4, <3>1, <1>1, <1>3 DEF Align
      <4>2. f[n] \in 1 .. Len(es)
        BY <3>1, <1>2, <1>7
      <4> QED
        BY <3>1, <4>1, <4>2, <1>6, <1>7
    <3>2. CASE n = M
      BY <2>4, <3>2, <1>2, <1>6, <1>8 DEF b
    <3> QED
      BY <3>1, <3>2, <1>3, <1>11
  <2>5. ASSUME NEW n \in 2 .. Len(bs2), pr2[bs2[n].place].iso
        PROVE  bs2[n].own /\ es2[g[n]].isolated
    <3>1. CASE n \in 1 .. Len(bs)
      <4>1. n \in 2 .. Len(bs) /\ pr[bs[n].place].iso
        BY <2>5, <3>1, <1>2, <1>3, <1>9
      <4>2. bs[n].own /\ es[f[n]].isolated
        BY <4>1, <1>1 DEF Align
      <4>3. f[n] \in 1 .. Len(es)
        BY <3>1, <1>2, <1>7
      <4> QED
        BY <3>1, <4>2, <4>3, <1>3, <1>6, <1>7, SMTT(30)
    <3>2. CASE n = M
      BY <2>5, <3>2, <1>4, <1>6, <1>8 DEF b
    <3> QED
      BY <3>1, <3>2, <1>2, <1>3, <1>11
  <2>6. ASSUME NEW e \in 1 .. Len(es2), es2[e].isolated
        PROVE  \E m \in 2 .. Len(bs2) : g[m] = e /\ bs2[m].own /\ pr2[bs2[m].place].iso
    <3>1. CASE e \in 1 .. Len(es)
      <4>1. es[e].isolated
        BY <2>6, <3>1, <1>6
      <4>2. PICK m \in 2 .. Len(bs) : f[m] = e /\ bs[m].own /\ pr[bs[m].place].iso
        BY <3>1, <4>1, <1>1 DEF Align
      <4>3. m \in 1 .. Len(bs) /\ m \in 2 .. Len(bs2)
        BY <1>2, <1>3
      <4> QED
        BY <4>2, <4>3, <1>3, <1>7, <1>9
    <3>2. CASE e \notin 1 .. Len(es)
      <4>1. b.own /\ e = Len(es2)
        BY <3>2, <1>2, <1>5, <1>6
      <4>2. t.iso /\ pr2[b.place].iso
        BY <2>6, <4>1, <1>4, <1>6
      <4>3. M \in 2 .. Len(bs2)
        BY <1>2, <1>3
      <4> QED
        BY <4>1, <4>2, <4>3, <1>8 DEF b
    <3> QED
      BY <3>1, <3>2
  <2> QED
    BY <2>1, <2>2, <2>3, <2>4, <2>5, <2>6 DEF Align
<1>13. Nest(pr2, bs2)
  <2>1. bs2[1].place = 0
    BY <1>1, <1>2, <1>3 DEF Nest
  <2>2. ASSUME NEW n \in 1 .. Len(bs2)
        PROVE  bs2[n].place <= Len(pr2)
    <3>1. CASE n \in 1 .. Len(bs)
      BY <3>1, <1>1, <1>2, <1>3 DEF Nest
    <3>2. CASE n = M
      BY <3>2, <1>2, <1>3, <1>4 DEF b
    <3> QED
      BY <3>1, <3>2, <1>3, <1>11
  <2>3. ASSUME NEW m \in 1 .. Len(bs2), NEW n \in 1 .. Len(bs2), m < n
        PROVE  bs2[m].place < bs2[n].place
    <3>1. m \in 1 .. Len(bs)
      BY <2>3, <1>2, <1>3
    <3>2. CASE n \in 1 .. Len(bs)
      BY <2>3, <3>1, <3>2, <1>1, <1>3 DEF Nest
    <3>3. CASE n = M
      <4>1. bs[m].place <= Len(pr) /\ bs[m].place \in Nat
        BY <3>1, <1>1, <1>2 DEF Nest
      <4> QED
        BY <3>1, <3>3, <4>1, <1>2, <1>3, <1>4 DEF b
    <3> QED
      BY <3>2, <3>3, <1>3, <1>11
  <2>4. ASSUME NEW n \in 2 .. Len(bs2)
        PROVE  /\ pr2[bs2[n].place].op = bs2[n].op
               /\ bs2[n].op \in {"if", "else"} => pr2[bs2[n].place].iso = bs2[n].term
               /\ bs2[n].head \in 1 .. Len(pr2) /\ pr2[bs2[n].head].op \in Openers
    <3>1. CASE n \in 1 .. Len(bs)
      <4>1. /\ pr[bs[n].place].op = bs[n].op
            /\ bs[n].op \in {"if", "else"} => pr[bs[n].place].iso = bs[n].term
            /\ bs[n].head \in 1 .. Len(pr) /\ pr[bs[n].head].op \in Openers
        BY <3>1, <1>1, <1>3, SMTT(30) DEF Nest
      <4>2. pr2[bs[n].place] = pr[bs[n].place] /\ pr2[bs[n].head] = pr[bs[n].head]
        BY <3>1, <4>1, <1>3, <1>9
      <4> QED
        <5>1. bs2[n] = bs[n]
          BY <3>1, <1>3
        <5>2. bs[n].head \in 1 .. Len(pr2)
          BY <4>1, <1>2, <1>3
        <5> QED
          BY <4>1, <4>2, <5>1, <5>2
    <3>2. CASE n = M
      BY <3>2, <1>3, <1>4 DEF b
    <3> QED
      BY <3>1, <3>2, <1>2, <1>3, <1>11
  <2>5. ASSUME NEW n \in 1 .. Len(bs2), NEW k \in 1 .. Len(pr2), bs2[n].place < k
        PROVE  bs2[n].place \in pr2[k].path
    <3>1. n \in 1 .. Len(bs)
      BY <2>5, <1>2, <1>3, <1>4, <1>11 DEF b
    <3>2. CASE k \in 1 .. Len(pr)
      BY <3>1, <3>2, <2>5, <1>1, <1>3 DEF Nest
    <3>3. CASE k = N
      BY <3>1, <3>3, <1>3 DEF PlacesOf
    <3> QED
      BY <3>2, <3>3, <1>2, <1>3
  <2> QED
    BY <2>1, <2>2, <2>3, <2>4, <2>5 DEF Nest
<1> QED
  BY <1>1, <1>10, <1>12, <1>13 DEF Shape, g

-----------------------------------------------------------------------------
(* Borrows: one kind at a time, and each is found in the environments as   *)
(* long as the block of the variable that holds it is open.                *)

Lent(pr, j) == \E l \in j + 1 .. Len(pr) : pr[l].op = "lend"

OneKind(es) == ~((\E e \in 1 .. Len(es) : es[e].mut) /\ (\E e \in 1 .. Len(es) : es[e].shared))

ShareKnown(pr, bs, es, f, j) ==
  pr[j].op = "share" => \E m \in 1 .. Len(bs) : bs[m].place \in pr[j].path /\ es[f[m]].shared

HoldKnown(pr, bs, es, f, j) ==
  pr[j].op = "hold" /\ ~Lent(pr, j) =>
    \E m \in 1 .. Len(bs) : bs[m].place \in pr[j].path /\ \E e \in 1 .. f[m] : es[e].mut

BorrowsKnown(pr, bs, es, f) ==
  /\ OneKind(es)
  /\ \A j \in 1 .. Len(pr) :
       pr[j].path \subseteq PlacesOf(bs) =>
         ShareKnown(pr, bs, es, f, j) /\ HoldKnown(pr, bs, es, f, j)

LEMMA LentKept ==
  ASSUME NEW pr, Len(pr) \in Nat, NEW pr2, Grows(pr, pr2), NEW j \in 1 .. Len(pr)
  PROVE  Lent(pr2, j) <=> Lent(pr, j) \/ pr2[Len(pr) + 1].op = "lend"
<1>1. \A l \in j + 1 .. Len(pr) : l \in 1 .. Len(pr) /\ pr2[l] = pr[l] /\ l \in j + 1 .. Len(pr2)
  BY DEF Grows
<1>2. Len(pr) + 1 \in j + 1 .. Len(pr2)
  BY DEF Grows
<1>3. \A l \in j + 1 .. Len(pr2) : l = Len(pr) + 1 \/ l \in j + 1 .. Len(pr)
  BY DEF Grows
<1> QED
  BY <1>1, <1>2, <1>3 DEF Lent

LEMMA StmtBorrows ==
  ASSUME NEW pr, NEW bs, NEW es, NEW pr2, NEW bs2, NEW es2, NEW f,
         Shape(pr, bs, es, f), Stmt(pr, bs, es, pr2, bs2, es2), BorrowsKnown(pr, bs, es, f),
         OneKind(es2),
         \A e \in 1 .. Len(es) : es[e].shared => es2[e].shared,
         pr2[Len(pr) + 1].op # "lend" => \A e \in 1 .. Len(es) : es[e].mut => es2[e].mut,
         pr2[Len(pr) + 1].op = "share" => es2[Len(es)].shared,
         pr2[Len(pr) + 1].op = "hold" => \E e \in 1 .. Len(es) : es2[e].mut
  PROVE  BorrowsKnown(pr2, bs2, es2, f)
<1> DEFINE N == Len(pr) + 1
<1>1. /\ Len(pr) \in Nat /\ Len(bs) \in Nat /\ Len(es) \in Nat /\ Len(bs) >= 1
  BY TypedParts DEF Shape
<1>2. /\ Grows(pr, pr2) /\ Len(pr2) = N /\ Len(bs2) = Len(bs) /\ Len(es2) = Len(es)
      /\ \A k \in 1 .. Len(pr) : pr2[k] = pr[k]
      /\ \A n \in 1 .. Len(bs) : bs2[n].place = bs[n].place
      /\ PlacesOf(bs) \subseteq pr2[N].path
  BY DEF Stmt, Grows, BlockKept
<1>3. PlacesOf(bs2) = PlacesOf(bs)
  BY <1>2 DEF PlacesOf
<1>4. /\ \A n \in 1 .. Len(bs) : f[n] \in 2 .. Len(es)
      /\ f[Len(bs)] = Len(es)
  BY DEF Shape, Align
<1>5. ASSUME NEW j \in 1 .. Len(pr2), pr2[j].path \subseteq PlacesOf(bs2)
      PROVE  ShareKnown(pr2, bs2, es2, f, j) /\ HoldKnown(pr2, bs2, es2, f, j)
  <2>1. CASE j = N
    <3>1. Len(bs) \in 1 .. Len(bs2) /\ bs2[Len(bs)].place \in pr2[N].path
      BY <1>1, <1>2 DEF PlacesOf
    <3>2. ShareKnown(pr2, bs2, es2, f, N)
      BY <3>1, <1>4 DEF ShareKnown
    <3>3. HoldKnown(pr2, bs2, es2, f, N)
      BY <3>1, <1>4 DEF HoldKnown
    <3> QED
      BY <2>1, <3>2, <3>3
  <2>2. CASE j \in 1 .. Len(pr)
    <3>1. pr2[j] = pr[j] /\ ShareKnown(pr, bs, es, f, j) /\ HoldKnown(pr, bs, es, f, j)
      BY <2>2, <1>2, <1>3, <1>5 DEF BorrowsKnown
    <3>2. ShareKnown(pr2, bs2, es2, f, j)
      <4> SUFFICES ASSUME pr[j].op = "share"
                   PROVE  \E m \in 1 .. Len(bs) : bs[m].place \in pr[j].path /\ es2[f[m]].shared
        BY <3>1, <1>2 DEF ShareKnown
      <4>1. PICK m \in 1 .. Len(bs) : bs[m].place \in pr[j].path /\ es[f[m]].shared
        BY <3>1 DEF ShareKnown
      <4>2. f[m] \in 1 .. Len(es)
        BY <1>4
      <4> QED
        BY <4>1, <4>2
    <3>3. HoldKnown(pr2, bs2, es2, f, j)
      <4> SUFFICES ASSUME pr[j].op = "hold", ~Lent(pr2, j)
                   PROVE  \E m \in 1 .. Len(bs) : bs[m].place \in pr[j].path /\ \E e \in 1 .. f[m] : es2[e].mut
        BY <3>1, <1>2 DEF HoldKnown
      <4>1. ~Lent(pr, j) /\ pr2[N].op # "lend"
        BY <2>2, <1>1, <1>2, LentKept
      <4>2. PICK m \in 1 .. Len(bs) : bs[m].place \in pr[j].path /\ \E e \in 1 .. f[m] : es[e].mut
        BY <3>1, <4>1 DEF HoldKnown
      <4>3. \A e \in 1 .. f[m] : e \in 1 .. Len(es)
        BY <1>1, <1>4
      <4> QED
        BY <4>1, <4>2, <4>3
    <3> QED
      BY <3>2, <3>3
  <2> QED
    BY <2>1, <2>2, <1>1, <1>2
<1> QED
  BY <1>5 DEF BorrowsKnown

LEMMA PushBorrows ==
  ASSUME NEW pr, NEW bs, NEW es, NEW pr2, NEW bs2, NEW es2, NEW f,
         Shape(pr, bs, es, f), Push(pr, bs, es, pr2, bs2, es2), BorrowsKnown(pr, bs, es, f)
  PROVE  BorrowsKnown(pr2, bs2, es2, Opened(bs2, es2, f))
<1> DEFINE N == Len(pr) + 1
           g == Opened(bs2, es2, f)
<1>1. /\ Len(pr) \in Nat /\ Len(bs) \in Nat /\ Len(es) \in Nat /\ Len(bs) >= 1
  BY TypedParts DEF Shape
<1>2. /\ Grows(pr, pr2) /\ Len(pr2) = N /\ Len(bs2) = Len(bs) + 1
      /\ \A k \in 1 .. Len(pr) : pr2[k] = pr[k]
      /\ \A n \in 1 .. Len(bs) : bs2[n] = bs[n]
      /\ bs2[Len(bs2)].place = N
      /\ pr2[N].op \in Openers \cup {"else", "case"}
  BY DEF Push, Grows
<1>3. \/ es2 = es
      \/ Grows(es, es2) /\ ~es2[Len(es2)].mut /\ ~es2[Len(es2)].shared
  BY DEF Push, TypeEnv
<1>4. /\ \A e \in 1 .. Len(es) : e \in 1 .. Len(es2) /\ es2[e] = es[e]
      /\ \A e \in 1 .. Len(es2) : e \in 1 .. Len(es) \/ (~es2[e].mut /\ ~es2[e].shared)
  BY <1>1, <1>3 DEF Grows
<1>5. \A n \in 1 .. Len(bs) : n \in 1 .. Len(bs2) /\ g[n] = f[n] /\ f[n] \in 2 .. Len(es)
  <2>1. \A n \in 1 .. Len(bs) : n \in 1 .. Len(bs2) /\ n # Len(bs2)
    BY <1>1, <1>2
  <2>2. f \in [1 .. Len(bs) -> 2 .. Len(es)]
    BY DEF Shape, Align
  <2> QED
    BY <2>1, <2>2 DEF Opened
<1>6. OneKind(es2)
  BY <1>4 DEF BorrowsKnown, OneKind
<1>7. ASSUME NEW j \in 1 .. Len(pr2), pr2[j].path \subseteq PlacesOf(bs2)
      PROVE  ShareKnown(pr2, bs2, es2, g, j) /\ HoldKnown(pr2, bs2, es2, g, j)
  <2>1. CASE j = N
    BY <2>1, <1>2 DEF ShareKnown, HoldKnown, Openers
  <2>2. CASE j \in 1 .. Len(pr)
    <3>1. pr[j].path \subseteq 0 .. Len(pr)
      BY <2>2, <1>1 DEF Shape, Text, TokenOK
    <3>2. pr[j].path \subseteq PlacesOf(bs)
      <4>1. ASSUME NEW p \in pr[j].path
            PROVE  p \in PlacesOf(bs)
        <5>1. PICK n \in 1 .. Len(bs2) : p = bs2[n].place
          BY <2>2, <1>2, <1>7 DEF PlacesOf
        <5>2. n # Len(bs2)
          BY <5>1, <3>1, <1>1, <1>2
        <5>3. n \in 1 .. Len(bs)
          BY <5>2, <1>1, <1>2
        <5> QED
          BY <5>1, <5>3, <1>2 DEF PlacesOf
      <4> QED
        BY <4>1
    <3>3. pr2[j] = pr[j] /\ ShareKnown(pr, bs, es, f, j) /\ HoldKnown(pr, bs, es, f, j)
      BY <2>2, <3>2, <1>2 DEF BorrowsKnown
    <3>4. ShareKnown(pr2, bs2, es2, g, j)
      <4> SUFFICES ASSUME pr[j].op = "share"
                   PROVE  \E m \in 1 .. Len(bs2) : bs2[m].place \in pr[j].path /\ es2[g[m]].shared
        BY <3>3 DEF ShareKnown
      <4>1. PICK m \in 1 .. Len(bs) : bs[m].place \in pr[j].path /\ es[f[m]].shared
        BY <3>3 DEF ShareKnown
      <4>2. f[m] \in 1 .. Len(es)
        BY <1>5
      <4> QED
        <5>1. /\ m \in 1 .. Len(bs2) /\ bs2[m] = bs[m] /\ g[m] = f[m]
              /\ es2[f[m]] = es[f[m]]
          BY <4>2, <1>2, <1>4, <1>5
        <5> QED
          BY <4>1, <5>1
    <3>5. HoldKnown(pr2, bs2, es2, g, j)
      <4> SUFFICES ASSUME pr[j].op = "hold", ~Lent(pr2, j)
                   PROVE  \E m \in 1 .. Len(bs2) : bs2[m].place \in pr[j].path /\ \E e \in 1 .. g[m] : es2[e].mut
        BY <3>3 DEF HoldKnown
      <4>1. ~Lent(pr, j)
        BY <2>2, <1>1, <1>2, LentKept
      <4>2. PICK m \in 1 .. Len(bs) : bs[m].place \in pr[j].path /\ \E e \in 1 .. f[m] : es[e].mut
        BY <3>3, <4>1 DEF HoldKnown
      <4>3. \A e \in 1 .. f[m] : e \in 1 .. Len(es)
        BY <1>1, <1>5
      <4> QED
        BY <4>2, <4>3, <1>2, <1>4, <1>5
    <3> QED
      BY <3>4, <3>5
  <2> QED
    BY <2>1, <2>2, <1>1, <1>2
<1> QED
  BY <1>6, <1>7 DEF BorrowsKnown

LEMMA PopBorrows ==
  ASSUME NEW pr, NEW bs, NEW es, NEW bs2, NEW es2, NEW f,
         Shape(pr, bs, es, f), Pop(bs, es, bs2, es2), Shape(pr, bs2, es2, Closed(bs2, f)),
         BorrowsKnown(pr, bs, es, f)
  PROVE  BorrowsKnown(pr, bs2, es2, Closed(bs2, f))
<1> DEFINE g == Closed(bs2, f)
<1>1. /\ Len(pr) \in Nat /\ Len(bs) \in Nat /\ Len(es) \in Nat /\ Len(bs2) \in Nat /\ Len(es2) \in Nat
  BY TypedParts DEF Shape
<1>2. /\ Len(bs) = Len(bs2) + 1 /\ \A n \in 1 .. Len(bs2) : bs2[n] = bs[n]
      /\ \A e \in 1 .. Len(es2) : e \in 1 .. Len(es) /\ es2[e] = es[e]
  <2>1. es2 = es \/ Grows(es2, es)
    BY <1>1, TypedParts DEF Pop, Shape
  <2> QED
    BY <2>1, <1>1 DEF Pop, Grows
<1>3. \A n \in 1 .. Len(bs2) : n \in 1 .. Len(bs) /\ g[n] = f[n] /\ g[n] \in 2 .. Len(es2)
  <2>1. g \in [1 .. Len(bs2) -> 2 .. Len(es2)]
    BY DEF Shape, Align
  <2> QED
    BY <2>1, <1>1, <1>2 DEF Closed
<1>4. \A m, n \in 1 .. Len(bs) : bs[m].place = bs[n].place => m = n
  BY PlacesInText DEF Shape
<1>5. OneKind(es2)
  BY <1>2 DEF BorrowsKnown, OneKind
<1>6. ASSUME NEW j \in 1 .. Len(pr), pr[j].path \subseteq PlacesOf(bs2)
      PROVE  ShareKnown(pr, bs2, es2, g, j) /\ HoldKnown(pr, bs2, es2, g, j)
  <2>1. PlacesOf(bs2) \subseteq PlacesOf(bs)
    BY <1>1, <1>2 DEF PlacesOf
  <2>2. ShareKnown(pr, bs, es, f, j) /\ HoldKnown(pr, bs, es, f, j)
    BY <2>1, <1>6 DEF BorrowsKnown
  <2>3. ASSUME NEW m \in 1 .. Len(bs), bs[m].place \in pr[j].path
        PROVE  m \in 1 .. Len(bs2)
    <3>1. PICK n \in 1 .. Len(bs2) : bs[m].place = bs2[n].place
      BY <1>6, <2>3 DEF PlacesOf
    <3> QED
      BY <3>1, <1>2, <1>3, <1>4
  <2>4. ShareKnown(pr, bs2, es2, g, j)
    <3> SUFFICES ASSUME pr[j].op = "share"
                 PROVE  \E m \in 1 .. Len(bs2) : bs2[m].place \in pr[j].path /\ es2[g[m]].shared
      BY DEF ShareKnown
    <3>1. PICK m \in 1 .. Len(bs) : bs[m].place \in pr[j].path /\ es[f[m]].shared
      BY <2>2 DEF ShareKnown
    <3>2. m \in 1 .. Len(bs2)
      BY <2>3, <3>1
    <3>3. f[m] \in 1 .. Len(es2)
      BY <3>2, <1>3
    <3> QED
      BY <3>1, <3>2, <3>3, <1>2, <1>3
  <2>5. HoldKnown(pr, bs2, es2, g, j)
    <3> SUFFICES ASSUME pr[j].op = "hold", ~Lent(pr, j)
                 PROVE  \E m \in 1 .. Len(bs2) : bs2[m].place \in pr[j].path /\ \E e \in 1 .. g[m] : es2[e].mut
      BY DEF HoldKnown
    <3>1. PICK m \in 1 .. Len(bs) : bs[m].place \in pr[j].path /\ \E e \in 1 .. f[m] : es[e].mut
      BY <2>2 DEF HoldKnown
    <3>2. m \in 1 .. Len(bs2)
      BY <2>3, <3>1
    <3>3. \A e \in 1 .. f[m] : e \in 1 .. Len(es2)
      BY <3>2, <1>1, <1>3
    <3> QED
      BY <3>1, <3>2, <3>3, <1>2, <1>3
  <2> QED
    BY <2>4, <2>5
<1> QED
  BY <1>5, <1>6 DEF BorrowsKnown

-----------------------------------------------------------------------------
(* What the proofs below need to know of each change.                      *)

LEMMA ShapeFacts ==
  ASSUME NEW pr, NEW bs, NEW es, NEW f, Shape(pr, bs, es, f)
  PROVE  /\ Len(pr) \in Nat /\ Len(bs) \in Nat /\ Len(es) \in Nat /\ Len(bs) >= 1 /\ Len(es) >= 2
         /\ \A n \in 1 .. Len(bs) :
              /\ f[n] \in 2 .. Len(es) /\ f[n] \in 1 .. Len(es)
              /\ bs[n].place \in Nat /\ bs[n].own \in BOOLEAN /\ bs[n].decl \in Nat \cup {None}
              /\ bs[n].ends \in BOOLEAN
         /\ f[Len(bs)] = Len(es)
         /\ \A e \in 1 .. Len(es) :
              /\ es[e].isolated \in BOOLEAN /\ es[e].inst \in Nat \cup {None} /\ es[e].moved \in Nat
         /\ \A k \in 1 .. Len(pr) : pr[k].inst \in Nat
         /\ \A k \in 1 .. Len(pr) : \A p \in pr[k].path : p \in 0 .. k - 1 /\ (p # 0 => p \in 1 .. Len(pr))
<1>1. Typed(pr, bs, es) /\ Text(pr) /\ Align(pr, bs, es, f)
  BY DEF Shape
<1>2. \A n \in 1 .. Len(bs) : f[n] \in 2 .. Len(es)
  BY <1>1 DEF Align
<1>3. Len(pr) \in Nat /\ Len(bs) \in Nat /\ Len(es) \in Nat /\ Len(bs) >= 1 /\ Len(es) >= 2
  BY <1>1, TypedParts
<1>4. \A k \in 1 .. Len(pr) : \A p \in pr[k].path : p \in 0 .. k - 1
  BY <1>1 DEF Text, TokenOK
<1>5. \A k \in 1 .. Len(pr) : \A p \in pr[k].path : p # 0 => p \in 1 .. Len(pr)
  BY <1>3, <1>4
<1>6. \A n \in 1 .. Len(bs) : f[n] \in 1 .. Len(es)
  BY <1>2, <1>3
<1>7. f[Len(bs)] = Len(es)
  BY <1>1 DEF Align
<1> QED
  BY <1>1, <1>2, <1>3, <1>4, <1>5, <1>6, <1>7, TypedParts

LEMMA StmtFacts ==
  ASSUME NEW pr, NEW bs, NEW es, NEW pr2, NEW bs2, NEW es2, NEW f,
         Shape(pr, bs, es, f), Stmt(pr, bs, es, pr2, bs2, es2)
  PROVE  /\ Len(pr2) = Len(pr) + 1 /\ Len(bs2) = Len(bs) /\ Len(es2) = Len(es)
         /\ \A k \in 1 .. Len(pr2) : k \in 1 .. Len(pr) \/ k = Len(pr) + 1
         /\ \A k \in 1 .. Len(pr) : k \in 1 .. Len(pr2) /\ pr2[k] = pr[k]
         /\ \A k \in 1 .. Len(pr) : \A p \in pr[k].path \ {0} : pr2[p] = pr[p]
         /\ \A k \in 1 .. Len(pr) : Isolated(pr2, k) <=> Isolated(pr, k)
         /\ \A n \in 1 .. Len(bs) : bs2[n].place = bs[n].place /\ bs2[n].own = bs[n].own
         /\ \A n \in 2 .. Len(bs) : bs[n].place \in 1 .. Len(pr) /\ pr2[bs[n].place] = pr[bs[n].place]
         /\ \A e \in 1 .. Len(es) : es2[e].isolated = es[e].isolated
<1>1. /\ Len(pr) \in Nat /\ Grows(pr, pr2) /\ Text(pr) /\ Typed(pr, bs, es) /\ Nest(pr, bs)
  BY ShapeFacts DEF Stmt, Shape
<1>2. /\ Len(pr2) = Len(pr) + 1 /\ Len(bs2) = Len(bs) /\ Len(es2) = Len(es)
      /\ \A k \in 1 .. Len(pr) : pr2[k] = pr[k]
      /\ \A n \in 1 .. Len(bs) : bs2[n].place = bs[n].place /\ bs2[n].own = bs[n].own
      /\ \A e \in 1 .. Len(es) : es2[e].isolated = es[e].isolated
  BY DEF Stmt, Grows, BlockKept
<1>3. \A k \in 1 .. Len(pr) : \A p \in pr[k].path \ {0} : pr2[p] = pr[p]
  BY <1>2, ShapeFacts
<1>4. \A k \in 1 .. Len(pr) : Isolated(pr2, k) <=> Isolated(pr, k)
  BY <1>1, IsolatedKept
<1>5. \A n \in 2 .. Len(bs) : bs[n].place \in 1 .. Len(pr) /\ pr2[bs[n].place] = pr[bs[n].place]
  BY <1>1, <1>2, PlacesInText
<1> QED
  BY <1>1, <1>2, <1>3, <1>4, <1>5

LEMMA PushFacts ==
  ASSUME NEW pr, NEW bs, NEW es, NEW pr2, NEW bs2, NEW es2, NEW f,
         Shape(pr, bs, es, f), Push(pr, bs, es, pr2, bs2, es2)
  PROVE  /\ Len(pr2) = Len(pr) + 1 /\ Len(bs2) = Len(bs) + 1 /\ Len(es2) \in Nat
         /\ \A k \in 1 .. Len(pr2) : k \in 1 .. Len(pr) \/ k = Len(pr) + 1
         /\ \A k \in 1 .. Len(pr) : k \in 1 .. Len(pr2) /\ pr2[k] = pr[k]
         /\ \A k \in 1 .. Len(pr) : \A p \in pr[k].path \ {0} : pr2[p] = pr[p]
         /\ \A k \in 1 .. Len(pr) : Isolated(pr2, k) <=> Isolated(pr, k)
         /\ \A n \in 1 .. Len(bs2) : n \in 1 .. Len(bs) \/ n = Len(bs2)
         /\ \A n \in 1 .. Len(bs) :
              /\ n \in 1 .. Len(bs2) /\ bs2[n] = bs[n] /\ Opened(bs2, es2, f)[n] = f[n]
         /\ bs2[Len(bs2)].place = Len(pr) + 1 /\ bs2[Len(bs2)].decl = None
         /\ \A e \in 1 .. Len(es) : e \in 1 .. Len(es2) /\ es2[e] = es[e]
         /\ \A e \in 1 .. Len(es2) :
              e \in 1 .. Len(es) \/ (es2[e].inst = None /\ es2[e].moved = 0)
         /\ pr2[Len(pr) + 1].op \in Openers \cup {"else", "case"}
<1>1. /\ Len(pr) \in Nat /\ Grows(pr, pr2) /\ Text(pr) /\ Len(bs) \in Nat /\ Grows(bs, bs2)
      /\ Len(es) \in Nat /\ Typed(pr2, bs2, es2)
  BY ShapeFacts DEF Push, Shape
<1>2. /\ Len(pr2) = Len(pr) + 1 /\ Len(bs2) = Len(bs) + 1
      /\ \A k \in 1 .. Len(pr) : pr2[k] = pr[k]
      /\ \A n \in 1 .. Len(bs) : n \in 1 .. Len(bs2) /\ n # Len(bs2) /\ bs2[n] = bs[n]
  BY <1>1 DEF Grows
<1>3. \A k \in 1 .. Len(pr) : \A p \in pr[k].path \ {0} : pr2[p] = pr[p]
  BY <1>2, ShapeFacts
<1>4. \A k \in 1 .. Len(pr) : Isolated(pr2, k) <=> Isolated(pr, k)
  BY <1>1, IsolatedKept
<1>5. \/ es2 = es
      \/ Grows(es, es2) /\ es2[Len(es2)].inst = None /\ es2[Len(es2)].moved = 0
  BY DEF Push, TypeEnv
<1>6. /\ \A e \in 1 .. Len(es) : e \in 1 .. Len(es2) /\ es2[e] = es[e]
      /\ \A e \in 1 .. Len(es2) : e \in 1 .. Len(es) \/ (es2[e].inst = None /\ es2[e].moved = 0)
  BY <1>1, <1>5 DEF Grows
<1>7. \A n \in 1 .. Len(bs) : Opened(bs2, es2, f)[n] = f[n]
  BY <1>2 DEF Opened
<1>8. /\ bs2[Len(bs2)].place = Len(pr) + 1 /\ bs2[Len(bs2)].decl = None
      /\ pr2[Len(pr) + 1].op \in Openers \cup {"else", "case"}
  BY DEF Push
<1>9. Len(es2) \in Nat
  BY <1>1, TypedParts
<1> QED
  BY <1>1, <1>2, <1>3, <1>4, <1>6, <1>7, <1>8, <1>9

LEMMA PopFacts ==
  ASSUME NEW pr, NEW bs, NEW es, NEW bs2, NEW es2, NEW f,
         Shape(pr, bs, es, f), Pop(bs, es, bs2, es2), Shape(pr, bs2, es2, Closed(bs2, f))
  PROVE  /\ Len(bs) = Len(bs2) + 1 /\ Len(bs2) \in Nat /\ Len(bs2) >= 1 /\ Len(es2) \in Nat
         /\ \A n \in 1 .. Len(bs) : n \in 1 .. Len(bs2) \/ n = Len(bs)
         /\ \A n \in 1 .. Len(bs2) :
              n \in 1 .. Len(bs) /\ n # Len(bs) /\ bs2[n] = bs[n] /\ Closed(bs2, f)[n] = f[n]
         /\ \A e \in 1 .. Len(es2) : e \in 1 .. Len(es) /\ es2[e] = es[e]
         /\ bs[Len(bs)].own => Len(es) = Len(es2) + 1
         /\ ~bs[Len(bs)].own => es2 = es
<1>1. /\ Len(bs) \in Nat /\ Len(bs2) \in Nat /\ Len(bs2) >= 1 /\ Len(es) \in Nat /\ Len(es2) \in Nat
      /\ bs[Len(bs)].own \in BOOLEAN
  BY ShapeFacts
<1>2. /\ Len(bs) = Len(bs2) + 1
      /\ \A n \in 1 .. Len(bs2) : bs2[n] = bs[n]
      /\ bs[Len(bs)].own => Grows(es2, es)
      /\ ~bs[Len(bs)].own => es2 = es
  BY DEF Pop, Grows
<1>3. /\ \A e \in 1 .. Len(es2) : e \in 1 .. Len(es) /\ es2[e] = es[e]
      /\ bs[Len(bs)].own => Len(es) = Len(es2) + 1
  BY <1>1, <1>2 DEF Grows
<1>4. \A n \in 1 .. Len(bs2) : Closed(bs2, f)[n] = f[n]
  BY DEF Closed
<1> QED
  BY <1>1, <1>2, <1>3, <1>4

-----------------------------------------------------------------------------
(* Declarations: an environment that is not isolated knows x when a block  *)
(* that uses it declares it; an isolated one may know it from a block that *)
(* is over, but that declaration lies in the isolated block.               *)

DeclBlock(pr, bs, es, f, n) ==
  bs[n].decl # None =>
    /\ bs[n].decl \in 1 .. Len(pr)
    /\ es[f[n]].inst # None
    /\ es[f[n]].isolated => Isolated(pr, bs[n].decl)

DeclEnv(pr, bs, es, f, e) ==
  es[e].inst # None =>
    /\ es[e].isolated =>
         LET d == es[e].inst
         IN  /\ d \in 1 .. Len(pr) /\ pr[d].op = "decl" /\ Isolated(pr, d)
             /\ \E m \in 2 .. Len(bs) :
                  f[m] = e /\ bs[m].own /\ pr[bs[m].place].iso /\ bs[m].place < d
    /\ ~es[e].isolated => \E m \in 1 .. Len(bs) : f[m] = e /\ bs[m].decl # None

Decls(pr, bs, es, f) ==
  /\ es[1].inst = 0
  /\ \A n \in 1 .. Len(bs) : DeclBlock(pr, bs, es, f, n)
  /\ \A m, n \in 1 .. Len(bs) : m # n /\ bs[n].decl # None => bs[m].decl # bs[n].decl
  /\ \A e \in 2 .. Len(es) : DeclEnv(pr, bs, es, f, e)

(* Either nothing is declared, or x is, in the innermost block.            *)
SameDecls(bs, es, bs2, es2) ==
  /\ \A n \in 1 .. Len(bs) : bs2[n].decl = bs[n].decl
  /\ \A e \in 1 .. Len(es) : es2[e].inst = es[e].inst

Declares(pr, bs, es, pr2, bs2, es2) ==
  /\ pr2[Len(pr) + 1].op = "decl"
  /\ bs2[Len(bs)].decl = Len(pr) + 1
  /\ \A n \in 1 .. Len(bs) : n # Len(bs) => bs2[n].decl = bs[n].decl
  /\ es2[Len(es)].inst = Len(pr) + 1 /\ es2[Len(es)].moved = 0
  /\ \A e \in 1 .. Len(es) : e # Len(es) => es2[e].inst = es[e].inst /\ es2[e].moved = es[e].moved

LEMMA SameDeclsKept ==
  ASSUME NEW pr, NEW bs, NEW es, NEW pr2, NEW bs2, NEW es2, NEW f,
         Shape(pr, bs, es, f), Stmt(pr, bs, es, pr2, bs2, es2), Decls(pr, bs, es, f),
         SameDecls(bs, es, bs2, es2)
  PROVE  Decls(pr2, bs2, es2, f)
<1>1. es2[1].inst = 0
  BY ShapeFacts DEF Decls, SameDecls
<1>2. ASSUME NEW n \in 1 .. Len(bs2)
      PROVE  DeclBlock(pr2, bs2, es2, f, n)
  <2>1. n \in 1 .. Len(bs) /\ DeclBlock(pr, bs, es, f, n) /\ bs2[n].decl = bs[n].decl
    BY <1>2, StmtFacts DEF Decls, SameDecls
  <2>2. es2[f[n]].inst = es[f[n]].inst /\ es2[f[n]].isolated = es[f[n]].isolated
    BY <2>1, ShapeFacts, StmtFacts DEF SameDecls
  <2> QED
    BY <2>1, <2>2, ShapeFacts, StmtFacts DEF DeclBlock
<1>3. \A m, n \in 1 .. Len(bs2) : m # n /\ bs2[n].decl # None => bs2[m].decl # bs2[n].decl
  BY StmtFacts DEF Decls, SameDecls
<1>4. ASSUME NEW e \in 2 .. Len(es2)
      PROVE  DeclEnv(pr2, bs2, es2, f, e)
  <2>1. /\ e \in 2 .. Len(es) /\ e \in 1 .. Len(es) /\ DeclEnv(pr, bs, es, f, e)
        /\ es2[e].inst = es[e].inst /\ es2[e].isolated = es[e].isolated
    BY <1>4, ShapeFacts, StmtFacts DEF Decls, SameDecls
  <2>2. ASSUME es2[e].inst # None, es2[e].isolated
        PROVE  LET d == es2[e].inst
               IN  /\ d \in 1 .. Len(pr2) /\ pr2[d].op = "decl" /\ Isolated(pr2, d)
                   /\ \E m \in 2 .. Len(bs2) :
                        f[m] = e /\ bs2[m].own /\ pr2[bs2[m].place].iso /\ bs2[m].place < d
    <3> DEFINE d == es[e].inst
    <3>1. d \in 1 .. Len(pr) /\ pr[d].op = "decl" /\ Isolated(pr, d)
      BY <2>1, <2>2 DEF DeclEnv
    <3>2. PICK m \in 2 .. Len(bs) : f[m] = e /\ bs[m].own /\ pr[bs[m].place].iso /\ bs[m].place < d
      BY <2>1, <2>2 DEF DeclEnv
    <3>3. m \in 1 .. Len(bs) /\ m \in 2 .. Len(bs2)
      BY ShapeFacts, StmtFacts
    <3>4. f[m] = e /\ bs2[m].own /\ pr2[bs2[m].place].iso /\ bs2[m].place < d
      BY <3>2, <3>3, StmtFacts
    <3>5. d \in 1 .. Len(pr2) /\ pr2[d].op = "decl" /\ Isolated(pr2, d)
      BY <3>1, StmtFacts
    <3> QED
      BY <2>1, <3>3, <3>4, <3>5
  <2>3. ASSUME es2[e].inst # None, ~es2[e].isolated
        PROVE  \E m \in 1 .. Len(bs2) : f[m] = e /\ bs2[m].decl # None
    <3>1. es[e].inst # None /\ ~es[e].isolated
      BY <2>1, <2>3
    <3>2. PICK m \in 1 .. Len(bs) : f[m] = e /\ bs[m].decl # None
      BY <2>1, <3>1 DEF DeclEnv
    <3>3. Len(bs2) = Len(bs)
      BY StmtFacts
    <3>4. bs2[m].decl = bs[m].decl
      BY <3>2 DEF SameDecls
    <3> QED
      BY <3>2, <3>3, <3>4
  <2> QED
    BY <2>2, <2>3 DEF DeclEnv
<1> QED
  BY <1>1, <1>2, <1>3, <1>4 DEF Decls

LEMMA DeclaresKept ==
  ASSUME NEW pr, NEW bs, NEW es, NEW pr2, NEW bs2, NEW es2, NEW f,
         Shape(pr, bs, es, f), Stmt(pr, bs, es, pr2, bs2, es2), Decls(pr, bs, es, f),
         Declares(pr, bs, es, pr2, bs2, es2)
  PROVE  Decls(pr2, bs2, es2, f)
<1> DEFINE N == Len(pr) + 1
<1>1. es2[1].inst = 0
  BY ShapeFacts DEF Decls, Declares
<1>2. N \in 1 .. Len(pr2) /\ N # None /\ N \in Nat
  BY ShapeFacts, StmtFacts DEF None
<1>3. ASSUME es[Len(es)].isolated
      PROVE  \E m \in 2 .. Len(bs) :
               f[m] = Len(es) /\ bs[m].own /\ pr[bs[m].place].iso /\ bs[m].place < N
  <2>1. Len(es) \in 1 .. Len(es)
    BY ShapeFacts
  <2>2. PICK m \in 2 .. Len(bs) : f[m] = Len(es) /\ bs[m].own /\ pr[bs[m].place].iso
    BY <1>3, <2>1 DEF Shape, Align
  <2>3. bs[m].place < N
    BY ShapeFacts, StmtFacts
  <2> QED
    BY <2>2, <2>3
<1>4. ASSUME es[Len(es)].isolated
      PROVE  Isolated(pr2, N)
  <2>1. PICK m \in 2 .. Len(bs) : pr[bs[m].place].iso
    BY <1>3, <1>4
  <2>2. m \in 1 .. Len(bs) /\ bs[m].place \in 1 .. Len(pr) /\ pr2[bs[m].place].iso
    BY <2>1, ShapeFacts, StmtFacts
  <2>3. bs[m].place \in pr2[N].path \ {0}
    BY <2>2 DEF Stmt, PlacesOf
  <2> QED
    BY <2>2, <2>3 DEF Isolated
<1>5. ASSUME NEW n \in 1 .. Len(bs2)
      PROVE  DeclBlock(pr2, bs2, es2, f, n)
  <2>1. n \in 1 .. Len(bs) /\ DeclBlock(pr, bs, es, f, n)
    BY <1>5, StmtFacts DEF Decls
  <2>2. CASE n = Len(bs)
    <3>1. bs2[n].decl = N /\ f[n] = Len(es) /\ es2[f[n]].inst = N
      BY <2>2, ShapeFacts DEF Declares
    <3>2. es2[f[n]].isolated = es[Len(es)].isolated
      BY <3>1, ShapeFacts, StmtFacts
    <3> QED
      BY <3>1, <3>2, <1>2, <1>4 DEF DeclBlock
  <2>3. CASE n # Len(bs)
    <3>1. bs2[n].decl = bs[n].decl
      BY <2>1, <2>3 DEF Declares
    <3>2. es2[f[n]].inst = es[f[n]].inst \/ es2[f[n]].inst = N
      BY <2>1, ShapeFacts DEF Declares
    <3>3. es2[f[n]].isolated = es[f[n]].isolated
      BY <2>1, ShapeFacts, StmtFacts
    <3> QED
      BY <2>1, <3>1, <3>2, <3>3, <1>2, ShapeFacts, StmtFacts DEF DeclBlock
  <2> QED
    BY <2>2, <2>3
<1>6. ASSUME NEW m \in 1 .. Len(bs2), NEW n \in 1 .. Len(bs2), m # n, bs2[n].decl # None
      PROVE  bs2[m].decl # bs2[n].decl
  <2>1. \A i \in 1 .. Len(bs) : bs[i].decl # N
    BY <1>2, ShapeFacts DEF Decls, DeclBlock
  <2>2. m \in 1 .. Len(bs) /\ n \in 1 .. Len(bs)
    BY StmtFacts
  <2>3. CASE m # Len(bs) /\ n # Len(bs)
    BY <1>6, <2>2, <2>3 DEF Decls, Declares
  <2>4. CASE m = Len(bs) \/ n = Len(bs)
    BY <1>6, <2>1, <2>2, <2>4 DEF Declares
  <2> QED
    BY <2>3, <2>4
<1>7. ASSUME NEW e \in 2 .. Len(es2)
      PROVE  DeclEnv(pr2, bs2, es2, f, e)
  <2>1. /\ e \in 2 .. Len(es) /\ e \in 1 .. Len(es) /\ DeclEnv(pr, bs, es, f, e)
        /\ es2[e].isolated = es[e].isolated
    BY <1>7, ShapeFacts, StmtFacts DEF Decls
  <2>2. ASSUME es2[e].inst # None, es2[e].isolated
        PROVE  LET d == es2[e].inst
               IN  /\ d \in 1 .. Len(pr2) /\ pr2[d].op = "decl" /\ Isolated(pr2, d)
                   /\ \E m \in 2 .. Len(bs2) :
                        f[m] = e /\ bs2[m].own /\ pr2[bs2[m].place].iso /\ bs2[m].place < d
    <3> DEFINE d == es2[e].inst
    <3>1. /\ d \in 1 .. Len(pr2) /\ pr2[d].op = "decl" /\ Isolated(pr2, d)
          /\ \E m \in 2 .. Len(bs) : f[m] = e /\ bs[m].own /\ pr[bs[m].place].iso /\ bs[m].place < d
      <4>1. CASE e = Len(es)
        BY <4>1, <2>1, <2>2, <1>2, <1>3, <1>4 DEF Declares
      <4>2. CASE e # Len(es)
        <5>1. d = es[e].inst
          BY <4>2, <2>1 DEF Declares
        <5>2. d \in 1 .. Len(pr) /\ pr[d].op = "decl" /\ Isolated(pr, d)
          BY <5>1, <2>1, <2>2 DEF DeclEnv
        <5>3. d \in 1 .. Len(pr2) /\ pr2[d].op = "decl" /\ Isolated(pr2, d)
          BY <5>2, StmtFacts
        <5> QED
          BY <5>1, <5>3, <2>1, <2>2 DEF DeclEnv
      <4> QED
        BY <4>1, <4>2
    <3>2. PICK m \in 2 .. Len(bs) : f[m] = e /\ bs[m].own /\ pr[bs[m].place].iso /\ bs[m].place < d
      BY <3>1
    <3>3. m \in 1 .. Len(bs) /\ m \in 2 .. Len(bs2)
      BY ShapeFacts, StmtFacts
    <3>4. f[m] = e /\ bs2[m].own /\ pr2[bs2[m].place].iso /\ bs2[m].place < d
      BY <3>2, <3>3, StmtFacts
    <3> QED
      BY <3>1, <3>3, <3>4
  <2>3. ASSUME es2[e].inst # None, ~es2[e].isolated
        PROVE  \E m \in 1 .. Len(bs2) : f[m] = e /\ bs2[m].decl # None
    <3>1. CASE e = Len(es)
      <4>1. Len(bs) \in 1 .. Len(bs2) /\ f[Len(bs)] = e /\ bs2[Len(bs)].decl # None
        BY <3>1, <1>2, ShapeFacts, StmtFacts DEF Declares
      <4> QED
        BY <4>1
    <3>2. CASE e # Len(es)
      <4>1. PICK m \in 1 .. Len(bs) : f[m] = e /\ bs[m].decl # None
        BY <2>1, <2>3, <3>2 DEF DeclEnv, Declares
      <4>2. m \in 1 .. Len(bs2) /\ bs2[m].decl # None
        BY <4>1, <1>2, StmtFacts DEF Declares
      <4> QED
        BY <4>1, <4>2
    <3> QED
      BY <3>1, <3>2
  <2> QED
    BY <2>2, <2>3 DEF DeclEnv
<1> QED
  BY <1>1, <1>5, <1>6, <1>7 DEF Decls

LEMMA PushDecls ==
  ASSUME NEW pr, NEW bs, NEW es, NEW pr2, NEW bs2, NEW es2, NEW f,
         Shape(pr, bs, es, f), Push(pr, bs, es, pr2, bs2, es2), Decls(pr, bs, es, f)
  PROVE  Decls(pr2, bs2, es2, Opened(bs2, es2, f))
<1> DEFINE g == Opened(bs2, es2, f)
<1>1. es2[1].inst = 0
  BY ShapeFacts, PushFacts DEF Decls
<1>2. ASSUME NEW n \in 1 .. Len(bs2)
      PROVE  DeclBlock(pr2, bs2, es2, g, n)
  <2>1. CASE n = Len(bs2)
    BY <2>1, PushFacts DEF DeclBlock
  <2>2. CASE n \in 1 .. Len(bs)
    <3>1. DeclBlock(pr, bs, es, f, n) /\ bs2[n] = bs[n] /\ g[n] = f[n] /\ es2[f[n]] = es[f[n]]
      <4>1. bs2[n] = bs[n] /\ g[n] = f[n]
        BY <2>2, PushFacts
      <4>2. f[n] \in 1 .. Len(es)
        BY <2>2, ShapeFacts
      <4>3. es2[f[n]] = es[f[n]]
        BY <4>2, PushFacts
      <4> QED
        BY <2>2, <4>1, <4>3 DEF Decls
    <3> QED
      <4> DEFINE d == bs[n].decl
      <4>1. ASSUME d # None
            PROVE  d \in 1 .. Len(pr2) /\ pr2[d] = pr[d] /\ (Isolated(pr2, d) <=> Isolated(pr, d))
        <5>1. d \in 1 .. Len(pr)
          BY <3>1, <4>1 DEF DeclBlock
        <5> QED
          BY <5>1, PushFacts
      <4> QED
        BY <3>1, <4>1 DEF DeclBlock
  <2> QED
    BY <2>1, <2>2, PushFacts
<1>3. \A m, n \in 1 .. Len(bs2) : m # n /\ bs2[n].decl # None => bs2[m].decl # bs2[n].decl
  BY PushFacts DEF Decls
<1>4. ASSUME NEW e \in 2 .. Len(es2)
      PROVE  DeclEnv(pr2, bs2, es2, g, e)
  <2>1. CASE e \notin 1 .. Len(es)
    BY <2>1, <1>4, PushFacts DEF DeclEnv
  <2>2. CASE e \in 1 .. Len(es)
    <3>1. e \in 2 .. Len(es) /\ DeclEnv(pr, bs, es, f, e) /\ es2[e] = es[e]
      BY <2>2, ShapeFacts, PushFacts DEF Decls
    <3>2. ASSUME es[e].inst # None, es[e].isolated
          PROVE  LET d == es[e].inst
                 IN  /\ d \in 1 .. Len(pr2) /\ pr2[d].op = "decl" /\ Isolated(pr2, d)
                     /\ \E m \in 2 .. Len(bs2) :
                          g[m] = e /\ bs2[m].own /\ pr2[bs2[m].place].iso /\ bs2[m].place < d
      <4> DEFINE d == es[e].inst
      <4>1. d \in 1 .. Len(pr) /\ pr[d].op = "decl" /\ Isolated(pr, d)
        BY <3>1, <3>2 DEF DeclEnv
      <4>2. PICK m \in 2 .. Len(bs) : f[m] = e /\ bs[m].own /\ pr[bs[m].place].iso /\ bs[m].place < d
        BY <3>1, <3>2 DEF DeclEnv
      <4>3. m \in 1 .. Len(bs) /\ m \in 2 .. Len(bs2)
        BY ShapeFacts, PushFacts
      <4>4. bs[m].place \in 1 .. Len(pr)
        BY PlacesInText DEF Shape
      <4>5. g[m] = e /\ bs2[m].own /\ pr2[bs2[m].place].iso /\ bs2[m].place < d
        BY <4>2, <4>3, <4>4, PushFacts, SMTT(30)
      <4>6. d \in 1 .. Len(pr2) /\ pr2[d].op = "decl" /\ Isolated(pr2, d)
        BY <4>1, PushFacts, SMTT(30)
      <4> QED
        BY <4>3, <4>5, <4>6
    <3>3. ASSUME es[e].inst # None, ~es[e].isolated
          PROVE  \E m \in 1 .. Len(bs2) : g[m] = e /\ bs2[m].decl # None
      <4>1. PICK m \in 1 .. Len(bs) : f[m] = e /\ bs[m].decl # None
        BY <3>1, <3>3 DEF DeclEnv
      <4>2. m \in 1 .. Len(bs2) /\ g[m] = f[m] /\ bs2[m] = bs[m]
        BY PushFacts
      <4> QED
        BY <4>1, <4>2
    <3> QED
      BY <3>1, <3>2, <3>3 DEF DeclEnv
  <2> QED
    BY <2>1, <2>2
<1> QED
  BY <1>1, <1>2, <1>3, <1>4 DEF Decls

LEMMA PopDecls ==
  ASSUME NEW pr, NEW bs, NEW es, NEW bs2, NEW es2, NEW f,
         Shape(pr, bs, es, f), Pop(bs, es, bs2, es2), Shape(pr, bs2, es2, Closed(bs2, f)),
         Decls(pr, bs, es, f)
  PROVE  Decls(pr, bs2, es2, Closed(bs2, f))
<1> DEFINE g == Closed(bs2, f)
<1>1. es2[1].inst = 0
  BY ShapeFacts, PopFacts DEF Decls
<1>2. ASSUME NEW n \in 1 .. Len(bs2)
      PROVE  DeclBlock(pr, bs2, es2, g, n)
  <2>1. DeclBlock(pr, bs, es, f, n) /\ bs2[n] = bs[n] /\ g[n] = f[n] /\ g[n] \in 1 .. Len(es2)
    BY ShapeFacts, PopFacts DEF Decls
  <2>2. es2[f[n]] = es[f[n]]
    BY <2>1, PopFacts
  <2> QED
    BY <2>1, <2>2 DEF DeclBlock
<1>3. \A m, n \in 1 .. Len(bs2) : m # n /\ bs2[n].decl # None => bs2[m].decl # bs2[n].decl
  BY PopFacts DEF Decls
<1>4. ASSUME NEW e \in 2 .. Len(es2)
      PROVE  DeclEnv(pr, bs2, es2, g, e)
  <2>1. e \in 1 .. Len(es2) /\ e \in 2 .. Len(es) /\ DeclEnv(pr, bs, es, f, e) /\ es2[e] = es[e]
    BY ShapeFacts, PopFacts DEF Decls
  <2>2. ASSUME NEW m \in 1 .. Len(bs), f[m] = e, bs[m].own \/ ~es[e].isolated
        PROVE  m \in 1 .. Len(bs2)
    <3> SUFFICES ASSUME m = Len(bs)
                 PROVE  FALSE
      BY PopFacts
    <3>1. e = Len(es)
      BY <2>2, ShapeFacts
    <3>2. ~bs[Len(bs)].own
      BY <3>1, <2>1, ShapeFacts, PopFacts
    <3>3. es[f[m]].isolated
      BY <3>2 DEF Shape, Align
    <3> QED
      BY <2>2, <3>2, <3>3
  <2>3. ASSUME es[e].inst # None, es[e].isolated
        PROVE  \E m \in 2 .. Len(bs2) :
                 g[m] = e /\ bs2[m].own /\ pr[bs2[m].place].iso /\ bs2[m].place < es[e].inst
    <3>1. PICK m \in 2 .. Len(bs) :
            f[m] = e /\ bs[m].own /\ pr[bs[m].place].iso /\ bs[m].place < es[e].inst
      BY <2>1, <2>3 DEF DeclEnv
    <3>2. m \in 1 .. Len(bs2) /\ m \in 2 .. Len(bs2)
      BY <2>2, <3>1, ShapeFacts, PopFacts
    <3> QED
      <4>1. g[m] = f[m] /\ bs2[m] = bs[m]
        BY <3>2, PopFacts
      <4> QED
        BY <3>1, <3>2, <4>1
  <2>4. ASSUME es[e].inst # None, ~es[e].isolated
        PROVE  \E m \in 1 .. Len(bs2) : g[m] = e /\ bs2[m].decl # None
    <3>1. PICK m \in 1 .. Len(bs) : f[m] = e /\ bs[m].decl # None
      BY <2>1, <2>4 DEF DeclEnv
    <3>2. m \in 1 .. Len(bs2)
      BY <2>2, <2>4, <3>1
    <3> QED
      BY <3>1, <3>2, PopFacts
  <2>5. es[e].inst # None /\ es[e].isolated =>
          es[e].inst \in 1 .. Len(pr) /\ pr[es[e].inst].op = "decl" /\ Isolated(pr, es[e].inst)
    BY <2>1 DEF DeclEnv
  <2> QED
    BY <2>1, <2>3, <2>4, <2>5 DEF DeclEnv
<1> QED
  BY <1>1, <1>2, <1>3, <1>4 DEF Decls

-----------------------------------------------------------------------------
(* What x means, seen from the environment e.                              *)

Declaring(bs, f, e) == {n \in 1 .. Len(bs) : bs[n].decl # None /\ f[n] <= e}
MeantAt(bs, f, e) ==
  IF Declaring(bs, f, e) = {} THEN 0 ELSE bs[Highest(Declaring(bs, f, e))].decl

LEMMA DeclaringHighest ==
  ASSUME NEW bs, Len(bs) \in Nat, NEW f, NEW e, Declaring(bs, f, e) # {}
  PROVE  /\ Highest(Declaring(bs, f, e)) \in Declaring(bs, f, e)
         /\ \A m \in Declaring(bs, f, e) : m <= Highest(Declaring(bs, f, e))
<1>1. Declaring(bs, f, e) \subseteq 0 .. Len(bs)
  BY DEF Declaring
<1> QED
  BY <1>1, HighestIs

LEMMA MeantSame ==
  ASSUME NEW bs, Len(bs) \in Nat, NEW f, NEW e, NEW bs2, NEW f2, NEW e2,
         Declaring(bs2, f2, e2) = Declaring(bs, f, e),
         \A n \in Declaring(bs, f, e) : bs2[n].decl = bs[n].decl
  PROVE  MeantAt(bs2, f2, e2) = MeantAt(bs, f, e)
BY DeclaringHighest DEF MeantAt

(* The environments that are asked for x: the innermost that has it.       *)
Knowing(es) == {e \in 1 .. Len(es) : es[e].inst # None}
Top(es) == Highest(Knowing(es))

LEMMA TopEnv ==
  ASSUME NEW pr, NEW bs, NEW es, NEW f, Shape(pr, bs, es, f), Decls(pr, bs, es, f)
  PROVE  /\ Top(es) \in 1 .. Len(es) /\ es[Top(es)].inst # None
         /\ \A e \in 1 .. Len(es) : es[e].inst # None => e <= Top(es)
         /\ Declaring(bs, f, Top(es)) = Declaring(bs, f, Len(es))
         /\ MeantAt(bs, f, Top(es)) = MeantAt(bs, f, Len(es))
         /\ \/ es[Top(es)].isolated
            \/ ~es[Top(es)].isolated /\ Top(es) = 1 /\ MeantAt(bs, f, Len(es)) = 0
            \/ /\ ~es[Top(es)].isolated
               /\ \E n \in 1 .. Len(bs) :
                    f[n] = Top(es) /\ bs[n].decl # None /\ MeantAt(bs, f, Len(es)) = bs[n].decl
<1> DEFINE H == Top(es)
           D == Declaring(bs, f, Len(es))
<1>1. /\ Len(pr) \in Nat /\ Len(bs) \in Nat /\ Len(es) \in Nat /\ Len(es) >= 2
      /\ \A n \in 1 .. Len(bs) : f[n] \in 2 .. Len(es) /\ f[n] \in 1 .. Len(es)
  BY ShapeFacts
<1>2. H \in Knowing(es) /\ \A e \in Knowing(es) : e <= H
  <2>1. 1 \in Knowing(es)
    BY <1>1 DEF Knowing, Decls, None
  <2>2. Knowing(es) \subseteq 0 .. Len(es)
    BY DEF Knowing
  <2> QED
    BY <2>1, <2>2, <1>1, HighestIs DEF Top
<1>3. H \in 1 .. Len(es) /\ es[H].inst # None
      /\ \A e \in 1 .. Len(es) : es[e].inst # None => e <= H
  BY <1>2 DEF Knowing
<1>4. \A n \in 1 .. Len(bs) : bs[n].decl # None => f[n] <= H
  BY <1>1, <1>3 DEF Decls, DeclBlock
<1>5. Declaring(bs, f, H) = D
  BY <1>1, <1>4 DEF Declaring
<1>6. MeantAt(bs, f, H) = MeantAt(bs, f, Len(es))
  BY <1>5 DEF MeantAt
<1>7. ASSUME ~es[H].isolated
      PROVE  \/ H = 1 /\ MeantAt(bs, f, Len(es)) = 0
             \/ \E n \in 1 .. Len(bs) :
                  f[n] = H /\ bs[n].decl # None /\ MeantAt(bs, f, Len(es)) = bs[n].decl
  <2>1. CASE H = 1
    <3>1. D = {}
      <4> SUFFICES ASSUME NEW n \in D
                   PROVE  FALSE
        OBVIOUS
      <4>1. n \in 1 .. Len(bs) /\ f[n] <= 1 /\ f[n] \in 2 .. Len(es)
        BY <2>1, <1>1, <1>4 DEF Declaring
      <4> QED
        BY <4>1, <1>1
    <3> QED
      BY <2>1, <3>1 DEF MeantAt
  <2>2. CASE H # 1
    <3>1. H \in 2 .. Len(es)
      BY <2>2, <1>1, <1>3
    <3>2. PICK m \in 1 .. Len(bs) : f[m] = H /\ bs[m].decl # None
      BY <3>1, <1>3, <1>7 DEF Decls, DeclEnv
    <3>3. m \in D
      BY <3>2, <1>1 DEF Declaring
    <3>4. PICK n \in D : (\A i \in D : i <= n) /\ MeantAt(bs, f, Len(es)) = bs[n].decl
      BY <3>3, <1>1, DeclaringHighest DEF MeantAt
    <3>5. n \in 1 .. Len(bs) /\ bs[n].decl # None /\ m <= n /\ f[n] <= H
      BY <3>3, <3>4, <1>4 DEF Declaring
    <3>6. f[m] <= f[n]
      <4>1. CASE m = n
        BY <4>1, <1>1
      <4>2. CASE m # n
        BY <4>2, <3>5, <1>1 DEF Shape, Align
      <4> QED
        BY <4>1, <4>2
    <3>7. f[n] = H
      BY <3>2, <3>5, <3>6, <1>1, <1>3
    <3> QED
      BY <3>4, <3>5, <3>7
  <2> QED
    BY <2>1, <2>2
<1> QED
  BY <1>3, <1>5, <1>6, <1>7

-----------------------------------------------------------------------------
(* Moves: one that is not in an isolated block is marked in the owner.     *)

MoveKnown(pr, bs, es, f, j) ==
  pr[j].op \in Moving /\ ~Isolated(pr, j) =>
    /\ pr[j].inst = 0 => es[1].moved # 0
    /\ \A n \in 1 .. Len(bs) :
         bs[n].decl = pr[j].inst => es[f[n]].moved # 0 /\ ~es[f[n]].isolated

MovesKnown(pr, bs, es, f) == \A j \in 1 .. Len(pr) : MoveKnown(pr, bs, es, f, j)

(* A read of x that the checker takes is not of a moved value, unless x is *)
(* hidden by a declaration in an isolated block.                           *)
LEMMA ReadSeen ==
  ASSUME NEW pr, NEW bs, NEW es, NEW f, Shape(pr, bs, es, f), Decls(pr, bs, es, f),
         MovesKnown(pr, bs, es, f), es[Top(es)].moved = 0,
         NEW j \in 1 .. Len(pr), pr[j].op \in Moving, ~Isolated(pr, j),
         pr[j].inst = MeantAt(bs, f, Len(es))
  PROVE  \E d \in j + 1 .. Len(pr) : pr[d].op = "decl" /\ Isolated(pr, d)
<1> DEFINE H == Top(es)
<1>1. H \in 1 .. Len(es) /\ es[H].inst # None
  BY TopEnv
<1>2. MoveKnown(pr, bs, es, f, j)
  BY DEF MovesKnown
<1>3. es[H].isolated
  <2>1. ASSUME ~es[H].isolated, H = 1, MeantAt(bs, f, Len(es)) = 0
        PROVE  FALSE
    BY <2>1, <1>2 DEF MoveKnown
  <2>2. ASSUME NEW n \in 1 .. Len(bs), f[n] = H, bs[n].decl = MeantAt(bs, f, Len(es))
        PROVE  FALSE
    BY <2>2, <1>2 DEF MoveKnown
  <2> QED
    BY <2>1, <2>2, TopEnv
<1>4. \E m \in 2 .. Len(bs) : f[m] = H
  BY <1>1, <1>3 DEF Shape, Align
<1>5. H \in 2 .. Len(es)
  BY <1>4, ShapeFacts
<1> DEFINE d == es[H].inst
<1>6. /\ d \in 1 .. Len(pr) /\ pr[d].op = "decl" /\ Isolated(pr, d)
      /\ \E m \in 2 .. Len(bs) : pr[bs[m].place].iso /\ bs[m].place < d
  BY <1>1, <1>3, <1>5 DEF Decls, DeclEnv
<1>7. PICK m \in 2 .. Len(bs) : pr[bs[m].place].iso /\ bs[m].place < d
  BY <1>6
<1>8. m \in 1 .. Len(bs) /\ bs[m].place \in 1 .. Len(pr)
  BY ShapeFacts, PlacesInText DEF Shape
<1>9. ~(bs[m].place < j)
  <2> SUFFICES ASSUME bs[m].place < j
               PROVE  FALSE
    OBVIOUS
  <2>1. bs[m].place \in pr[j].path \ {0}
    BY <1>8 DEF Shape, Nest
  <2> QED
    BY <2>1, <1>7 DEF Isolated
<1>10. d \in j + 1 .. Len(pr)
  BY <1>6, <1>7, <1>8, <1>9, ShapeFacts, SMTT(30)
<1> QED
  BY <1>6, <1>10

(* What a statement does to the marks: it moves x, or it does not.         *)
Target(es) == Highest({e \in 1 .. Len(es) : es[e].inst # None \/ es[e].isolated})

Moves(pr, bs, es, pr2, bs2, es2, f) ==
  /\ SameDecls(bs, es, bs2, es2)
  /\ pr2[Len(pr) + 1].op \in Moving
  /\ pr2[Len(pr) + 1].inst = MeantAt(bs, f, Len(es))
  /\ es2[Target(es)].moved = Len(pr) + 1
  /\ \A e \in 1 .. Len(es) : e # Target(es) => es2[e].moved = es[e].moved

MovesNot(pr, bs, es, pr2, bs2, es2) ==
  /\ SameDecls(bs, es, bs2, es2)
  /\ pr2[Len(pr) + 1].op \notin Moving
  /\ \A e \in 1 .. Len(es) : es2[e].moved = es[e].moved

LEMMA TargetEnv ==
  ASSUME NEW pr, NEW bs, NEW es, NEW f, Shape(pr, bs, es, f), Decls(pr, bs, es, f)
  PROVE  /\ Target(es) \in 1 .. Len(es)
         /\ \A e \in 1 .. Len(es) : es[e].isolated => e <= Target(es)
         /\ es[Target(es)].inst # None => Target(es) = Top(es)
         /\ (\A e \in 1 .. Len(es) : ~es[e].isolated) => Target(es) = Top(es)
<1> DEFINE A == {e \in 1 .. Len(es) : es[e].inst # None \/ es[e].isolated}
           Q == Target(es)
<1>1. Len(es) \in Nat /\ Len(es) >= 2
  BY ShapeFacts
<1>2. Q \in A /\ \A e \in A : e <= Q
  <2>1. 1 \in A
    BY <1>1 DEF Decls, None
  <2>2. A \subseteq 0 .. Len(es)
    OBVIOUS
  <2> QED
    BY <2>1, <2>2, <1>1, HighestIs DEF Target
<1>3. Top(es) \in 1 .. Len(es) /\ es[Top(es)].inst # None
      /\ \A e \in 1 .. Len(es) : es[e].inst # None => e <= Top(es)
  BY TopEnv
<1>4. Top(es) <= Q
  BY <1>2, <1>3
<1>5. ASSUME es[Q].inst # None
      PROVE  Q = Top(es)
  BY <1>1, <1>2, <1>3, <1>4, <1>5
<1> QED
  BY <1>2, <1>5

LEMMA StmtMoves ==
  ASSUME NEW pr, NEW bs, NEW es, NEW pr2, NEW bs2, NEW es2, NEW f,
         Shape(pr, bs, es, f), Stmt(pr, bs, es, pr2, bs2, es2), Decls(pr, bs, es, f),
         \/ Moves(pr, bs, es, pr2, bs2, es2, f)
         \/ MovesNot(pr, bs, es, pr2, bs2, es2)
         \/ Declares(pr, bs, es, pr2, bs2, es2),
         MovesKnown(pr, bs, es, f)
  PROVE  MovesKnown(pr2, bs2, es2, f)
<1> DEFINE N == Len(pr) + 1
<1>1. ASSUME NEW j \in 1 .. Len(pr), SameDecls(bs, es, bs2, es2),
             \A e \in 1 .. Len(es) : es[e].moved # 0 => es2[e].moved # 0
      PROVE  MoveKnown(pr2, bs2, es2, f, j)
  <2>1. MoveKnown(pr, bs, es, f, j)
    BY DEF MovesKnown
  <2>2. pr2[j] = pr[j] /\ (Isolated(pr2, j) <=> Isolated(pr, j))
    BY StmtFacts
  <2>3. \A n \in 1 .. Len(bs2) :
          /\ n \in 1 .. Len(bs) /\ bs2[n].decl = bs[n].decl
          /\ es2[f[n]].isolated = es[f[n]].isolated
          /\ es[f[n]].moved # 0 => es2[f[n]].moved # 0
    BY <1>1, ShapeFacts, StmtFacts DEF SameDecls
  <2>4. es[1].moved # 0 => es2[1].moved # 0
    BY <1>1, ShapeFacts
  <2> QED
    BY <2>1, <2>2, <2>3, <2>4 DEF MoveKnown
<1>2. CASE Moves(pr, bs, es, pr2, bs2, es2, f)
  <2>1. SameDecls(bs, es, bs2, es2)
    BY <1>2 DEF Moves
  <2>2. \A e \in 1 .. Len(es) : es[e].moved # 0 => es2[e].moved # 0
    BY <1>2, ShapeFacts DEF Moves
  <2>3. MoveKnown(pr2, bs2, es2, f, N)
    <3> SUFFICES ASSUME ~Isolated(pr2, N)
                 PROVE  /\ pr2[N].inst = 0 => es2[1].moved # 0
                        /\ \A n \in 1 .. Len(bs2) :
                             bs2[n].decl = pr2[N].inst => es2[f[n]].moved # 0 /\ ~es2[f[n]].isolated
      BY DEF MoveKnown
    <3>1. ASSUME NEW e \in 1 .. Len(es), es[e].isolated
          PROVE  FALSE
      <4>1. PICK m \in 2 .. Len(bs) : pr[bs[m].place].iso
        BY <3>1 DEF Shape, Align
      <4>2. m \in 1 .. Len(bs) /\ bs[m].place \in 1 .. Len(pr) /\ pr2[bs[m].place].iso
        BY <4>1, ShapeFacts, StmtFacts
      <4>3. bs[m].place \in pr2[N].path \ {0}
        BY <4>2 DEF Stmt, PlacesOf
      <4> QED
        BY <4>2, <4>3 DEF Isolated
    <3>2. Target(es) = Top(es) /\ Top(es) \in 1 .. Len(es) /\ ~es[Top(es)].isolated
      BY <3>1, TargetEnv, TopEnv
    <3>3. es2[Top(es)].moved # 0 /\ ~es2[Top(es)].isolated
          /\ pr2[N].inst = MeantAt(bs, f, Len(es))
      BY <1>2, <3>2, ShapeFacts, StmtFacts DEF Moves
    <3>4. CASE Top(es) = 1 /\ MeantAt(bs, f, Len(es)) = 0
      <4>1. \A n \in 1 .. Len(bs2) : bs2[n].decl # 0
        <5>1. Len(bs2) = Len(bs)
          BY StmtFacts
        <5>2. \A n \in 1 .. Len(bs) : bs2[n].decl = bs[n].decl
          BY <2>1 DEF SameDecls
        <5>3. \A n \in 1 .. Len(bs) : bs[n].decl # None => bs[n].decl \in 1 .. Len(pr)
          BY DEF Decls, DeclBlock
        <5> QED
          BY <5>1, <5>2, <5>3 DEF None
      <4> QED
        BY <3>3, <3>4, <4>1
    <3>5. CASE \E n \in 1 .. Len(bs) :
                 f[n] = Top(es) /\ bs[n].decl # None /\ MeantAt(bs, f, Len(es)) = bs[n].decl
      <4>1. PICK n \in 1 .. Len(bs) :
              f[n] = Top(es) /\ bs[n].decl # None /\ MeantAt(bs, f, Len(es)) = bs[n].decl
        BY <3>5
      <4>2. pr2[N].inst # 0
        BY <3>3, <4>1 DEF Decls, DeclBlock
      <4>3. ASSUME NEW i \in 1 .. Len(bs2), bs2[i].decl = pr2[N].inst
            PROVE  i = n
        <5>1. i \in 1 .. Len(bs) /\ bs[i].decl = bs[n].decl
          BY <2>1, <3>3, <4>1, <4>3, StmtFacts DEF SameDecls
        <5> QED
          BY <4>1, <5>1 DEF Decls
      <4> QED
        BY <3>3, <4>1, <4>2, <4>3
    <3> QED
      BY <3>2, <3>4, <3>5, TopEnv
  <2> QED
    BY <1>1, <2>1, <2>2, <2>3, StmtFacts DEF MovesKnown
<1>3. CASE MovesNot(pr, bs, es, pr2, bs2, es2)
  <2>1. SameDecls(bs, es, bs2, es2) /\ \A e \in 1 .. Len(es) : es[e].moved # 0 => es2[e].moved # 0
    BY <1>3 DEF MovesNot
  <2>2. MoveKnown(pr2, bs2, es2, f, N)
    BY <1>3 DEF MovesNot, MoveKnown
  <2> QED
    BY <1>1, <2>1, <2>2, StmtFacts DEF MovesKnown
<1>4. CASE Declares(pr, bs, es, pr2, bs2, es2)
  <2>1. MoveKnown(pr2, bs2, es2, f, N)
    BY <1>4 DEF Declares, MoveKnown, Moving
  <2>2. ASSUME NEW j \in 1 .. Len(pr)
        PROVE  MoveKnown(pr2, bs2, es2, f, j)
    <3> SUFFICES ASSUME pr[j].op \in Moving, ~Isolated(pr, j)
                 PROVE  /\ pr[j].inst = 0 => es2[1].moved # 0
                        /\ \A n \in 1 .. Len(bs2) :
                             bs2[n].decl = pr[j].inst => es2[f[n]].moved # 0 /\ ~es2[f[n]].isolated
      BY StmtFacts DEF MoveKnown
    <3>1. /\ pr[j].inst = 0 => es[1].moved # 0
          /\ \A n \in 1 .. Len(bs) :
               bs[n].decl = pr[j].inst => es[f[n]].moved # 0 /\ ~es[f[n]].isolated
      BY DEF MovesKnown, MoveKnown
    <3>2. pr[j].inst = 0 => es2[1].moved # 0
      BY <1>4, <3>1, ShapeFacts DEF Declares
    <3>3. ASSUME NEW n \in 1 .. Len(bs2), bs2[n].decl = pr[j].inst
          PROVE  es2[f[n]].moved # 0 /\ ~es2[f[n]].isolated
      <4>1. pr[j].inst <= j /\ pr[j].inst \in Nat
        BY ShapeFacts DEF Shape, Text, TokenOK
      <4>2. n # Len(bs)
        BY <1>4, <3>3, <4>1, ShapeFacts DEF Declares
      <4>3. n \in 1 .. Len(bs) /\ bs[n].decl = pr[j].inst
        BY <1>4, <3>3, <4>2, StmtFacts DEF Declares
      <4>4. es[f[n]].moved # 0 /\ ~es[f[n]].isolated
        BY <3>1, <4>3
      <4>5. f[n] # Len(es)
        <5> SUFFICES ASSUME f[n] = Len(es)
                     PROVE  FALSE
          OBVIOUS
        <5>1. Len(bs) \in 1 .. Len(bs) /\ n < Len(bs) /\ f[Len(bs)] = Len(es)
          BY <4>2, <4>3, ShapeFacts
        <5>2. ~(f[n] < f[Len(bs)])
          BY <5>1, ShapeFacts
        <5>3. ~bs[Len(bs)].own
          BY <4>3, <5>1, <5>2 DEF Shape, Align
        <5>4. es[f[Len(bs)]].isolated
          BY <5>1, <5>3 DEF Shape, Align
        <5> QED
          BY <4>4, <5>1, <5>4
      <4> QED
        <5>1. f[n] \in 1 .. Len(es)
          BY <4>3, ShapeFacts
        <5>2. es2[f[n]].moved = es[f[n]].moved
          BY <1>4, <4>5, <5>1 DEF Declares
        <5>3. es2[f[n]].isolated = es[f[n]].isolated
          BY <5>1, StmtFacts
        <5> QED
          BY <4>4, <5>2, <5>3
    <3> QED
      BY <3>2, <3>3
  <2> QED
    BY <2>1, <2>2, StmtFacts DEF MovesKnown
<1> QED
  BY <1>2, <1>3, <1>4

LEMMA PushMoves ==
  ASSUME NEW pr, NEW bs, NEW es, NEW pr2, NEW bs2, NEW es2, NEW f,
         Shape(pr, bs, es, f), Push(pr, bs, es, pr2, bs2, es2), Decls(pr, bs, es, f),
         MovesKnown(pr, bs, es, f), pr2[Len(pr) + 1].inst \in Nat
  PROVE  MovesKnown(pr2, bs2, es2, Opened(bs2, es2, f))
<1> DEFINE g == Opened(bs2, es2, f)
<1>1. MoveKnown(pr2, bs2, es2, g, Len(pr) + 1)
  <2>1. pr2[Len(pr) + 1].op \in Openers \cup {"else", "case"}
    BY PushFacts
  <2>2. pr2[Len(pr) + 1].op \notin Moving
    BY <2>1 DEF Moving, Openers
  <2> QED
    BY <2>2 DEF MoveKnown
<1>2. ASSUME NEW j \in 1 .. Len(pr)
      PROVE  MoveKnown(pr2, bs2, es2, g, j)
  <2>1. MoveKnown(pr, bs, es, f, j)
    BY DEF MovesKnown
  <2>2. pr2[j] = pr[j] /\ (Isolated(pr2, j) <=> Isolated(pr, j)) /\ pr[j].inst # None
    BY ShapeFacts, PushFacts DEF None
  <2>3. es2[1] = es[1]
    BY ShapeFacts, PushFacts
  <2>4. ASSUME NEW n \in 1 .. Len(bs2), bs2[n].decl = pr[j].inst
        PROVE  n \in 1 .. Len(bs) /\ bs[n].decl = pr[j].inst /\ es2[g[n]] = es[f[n]]
    <3>1. n \in 1 .. Len(bs)
      BY <2>2, <2>4, PushFacts
    <3> QED
      <4>1. bs2[n] = bs[n] /\ g[n] = f[n]
        BY <3>1, PushFacts
      <4>2. f[n] \in 1 .. Len(es)
        BY <3>1, ShapeFacts
      <4>3. es2[f[n]] = es[f[n]]
        BY <4>2, PushFacts
      <4> QED
        BY <2>4, <3>1, <4>1, <4>3
  <2> QED
    BY <2>1, <2>2, <2>3, <2>4 DEF MoveKnown
<1> QED
  BY <1>1, <1>2, PushFacts DEF MovesKnown

LEMMA PopMoves ==
  ASSUME NEW pr, NEW bs, NEW es, NEW bs2, NEW es2, NEW f,
         Shape(pr, bs, es, f), Pop(bs, es, bs2, es2), Shape(pr, bs2, es2, Closed(bs2, f)),
         MovesKnown(pr, bs, es, f)
  PROVE  MovesKnown(pr, bs2, es2, Closed(bs2, f))
<1> DEFINE g == Closed(bs2, f)
<1>1. ASSUME NEW j \in 1 .. Len(pr)
      PROVE  MoveKnown(pr, bs2, es2, g, j)
  <2>1. MoveKnown(pr, bs, es, f, j)
    BY DEF MovesKnown
  <2>2. es2[1] = es[1]
    BY ShapeFacts, PopFacts
  <2>3. ASSUME NEW n \in 1 .. Len(bs2)
        PROVE  n \in 1 .. Len(bs) /\ bs2[n] = bs[n] /\ es2[g[n]] = es[f[n]]
    <3>1. g[n] \in 1 .. Len(es2)
      BY ShapeFacts
    <3> QED
      BY <3>1, PopFacts
  <2> QED
    BY <2>1, <2>2, <2>3 DEF MoveKnown
<1> QED
  BY <1>1 DEF MovesKnown

-----------------------------------------------------------------------------
(* Marks: an environment that knows x and marks it moved holds a move of   *)
(* what x means there, or of a declaration that an isolated block hid, and *)
(* no isolated block around that move is over.                             *)

Mark(pr, bs, f, e, j) ==
  /\ j \in 1 .. Len(pr)
  /\ \/ pr[j].inst = MeantAt(bs, f, e)
     \/ pr[j].inst \in 1 .. Len(pr) /\ Isolated(pr, pr[j].inst)
  /\ \A p \in pr[j].path \ {0} :
       pr[p].iso => \E n \in 1 .. Len(bs) : bs[n].place = p /\ f[n] <= e

MarksKnown(pr, bs, es, f) ==
  \A e \in 1 .. Len(es) :
    es[e].moved # 0 /\ es[e].inst # None => Mark(pr, bs, f, e, es[e].moved)

LEMMA StmtMarks ==
  ASSUME NEW pr, NEW bs, NEW es, NEW pr2, NEW bs2, NEW es2, NEW f,
         Shape(pr, bs, es, f), Stmt(pr, bs, es, pr2, bs2, es2), Decls(pr, bs, es, f),
         \/ Moves(pr, bs, es, pr2, bs2, es2, f)
         \/ MovesNot(pr, bs, es, pr2, bs2, es2)
         \/ Declares(pr, bs, es, pr2, bs2, es2),
         MarksKnown(pr, bs, es, f)
  PROVE  MarksKnown(pr2, bs2, es2, f)
<1> DEFINE N == Len(pr) + 1
<1>1. ASSUME NEW e \in 1 .. Len(es), NEW j, Mark(pr, bs, f, e, j),
             \A n \in 1 .. Len(bs) : f[n] <= e => bs2[n].decl = bs[n].decl
      PROVE  Mark(pr2, bs2, f, e, j)
  <2>1. j \in 1 .. Len(pr) /\ pr2[j] = pr[j]
    BY <1>1, StmtFacts DEF Mark
  <2>2. MeantAt(bs2, f, e) = MeantAt(bs, f, e)
    <3>1. Declaring(bs2, f, e) = Declaring(bs, f, e)
      BY <1>1, StmtFacts DEF Declaring
    <3>2. \A n \in Declaring(bs, f, e) : bs2[n].decl = bs[n].decl
      BY <1>1 DEF Declaring
    <3> QED
      BY <3>1, <3>2, MeantSame, ShapeFacts
  <2>3. \/ pr2[j].inst = MeantAt(bs2, f, e)
        \/ pr2[j].inst \in 1 .. Len(pr2) /\ Isolated(pr2, pr2[j].inst)
    BY <1>1, <2>1, <2>2, StmtFacts DEF Mark
  <2>4. ASSUME NEW p \in pr2[j].path \ {0}, pr2[p].iso
        PROVE  \E n \in 1 .. Len(bs2) : bs2[n].place = p /\ f[n] <= e
    <3>1. p \in pr[j].path \ {0} /\ pr[p].iso
      BY <2>1, <2>4, StmtFacts
    <3>2. PICK n \in 1 .. Len(bs) : bs[n].place = p /\ f[n] <= e
      BY <1>1, <3>1 DEF Mark
    <3> QED
      BY <3>2, StmtFacts, SMTT(30)
  <2> QED
    BY <2>1, <2>3, <2>4, StmtFacts DEF Mark
<1>2. ASSUME NEW e \in 1 .. Len(es2), es2[e].moved # 0, es2[e].inst # None,
             SameDecls(bs, es, bs2, es2), es2[e].moved = es[e].moved
      PROVE  Mark(pr2, bs2, f, e, es2[e].moved)
  <2>1. e \in 1 .. Len(es) /\ es[e].moved # 0 /\ es[e].inst # None
    BY <1>2, StmtFacts DEF SameDecls
  <2>2. Mark(pr, bs, f, e, es[e].moved)
    BY <2>1 DEF MarksKnown
  <2>3. \A n \in 1 .. Len(bs) : bs2[n].decl = bs[n].decl
    BY <1>2 DEF SameDecls
  <2> QED
    BY <1>1, <1>2, <2>1, <2>2, <2>3
<1>3. CASE Moves(pr, bs, es, pr2, bs2, es2, f)
  <2> DEFINE Q == Target(es)
  <2>1. SameDecls(bs, es, bs2, es2)
    BY <1>3 DEF Moves
  <2>2. ASSUME es2[Q].inst # None
        PROVE  Mark(pr2, bs2, f, Q, N)
    <3>1. Q \in 1 .. Len(es) /\ \A e \in 1 .. Len(es) : es[e].isolated => e <= Q
      BY TargetEnv
    <3>2. Q = Top(es)
      BY <2>1, <2>2, <3>1, TargetEnv DEF SameDecls
    <3>3. MeantAt(bs2, f, Q) = MeantAt(bs, f, Q)
      <4>1. Declaring(bs2, f, Q) = Declaring(bs, f, Q)
        BY <2>1, StmtFacts DEF Declaring, SameDecls
      <4>2. \A n \in Declaring(bs, f, Q) : bs2[n].decl = bs[n].decl
        BY <2>1 DEF Declaring, SameDecls
      <4> QED
        BY <4>1, <4>2, MeantSame, ShapeFacts
    <3>4. pr2[N].inst = MeantAt(bs2, f, Q)
      BY <1>3, <3>2, <3>3, TopEnv DEF Moves
    <3>5. ASSUME NEW p \in pr2[N].path \ {0}, pr2[p].iso
          PROVE  \E n \in 1 .. Len(bs2) : bs2[n].place = p /\ f[n] <= Q
      <4>1. pr2[N].path = PlacesOf(bs)
        BY <1>3 DEF Moves, Moving, Stmt, Simple
      <4>2. PICK n \in 1 .. Len(bs) : bs[n].place = p
        BY <3>5, <4>1 DEF PlacesOf
      <4>3. n \in 2 .. Len(bs)
        BY <3>5, <4>2, ShapeFacts DEF Shape, Nest
      <4>4. pr[bs[n].place].iso
        BY <3>5, <4>2, <4>3, StmtFacts
      <4>5. es[f[n]].isolated
        BY <4>3, <4>4 DEF Shape, Align
      <4>6. f[n] <= Q
        BY <3>1, <4>5, ShapeFacts
      <4> QED
        BY <4>2, <4>6, StmtFacts
    <3>6. N \in 1 .. Len(pr2)
      BY ShapeFacts, StmtFacts
    <3> QED
      BY <3>4, <3>5, <3>6 DEF Mark
  <2>3. ASSUME NEW e \in 1 .. Len(es2), es2[e].moved # 0, es2[e].inst # None
        PROVE  Mark(pr2, bs2, f, e, es2[e].moved)
    <3>1. CASE e = Q
      BY <1>3, <2>2, <2>3, <3>1 DEF Moves
    <3>2. CASE e # Q
      <4>1. es2[e].moved = es[e].moved
        BY <1>3, <3>2, StmtFacts DEF Moves
      <4> QED
        BY <1>2, <2>1, <2>3, <4>1
    <3> QED
      BY <3>1, <3>2
  <2> QED
    BY <2>3 DEF MarksKnown
<1>4. CASE MovesNot(pr, bs, es, pr2, bs2, es2)
  <2>1. \A e \in 1 .. Len(es2) : es2[e].moved = es[e].moved
    BY <1>4, StmtFacts DEF MovesNot
  <2> QED
    BY <1>2, <1>4, <2>1 DEF MarksKnown, MovesNot
<1>5. CASE Declares(pr, bs, es, pr2, bs2, es2)
  <2> SUFFICES ASSUME NEW e \in 1 .. Len(es2), es2[e].moved # 0, es2[e].inst # None
               PROVE  Mark(pr2, bs2, f, e, es2[e].moved)
    BY DEF MarksKnown
  <2>1. e \in 1 .. Len(es) /\ e # Len(es)
    BY <1>5, StmtFacts DEF Declares
  <2>2. es2[e].moved = es[e].moved /\ es2[e].inst = es[e].inst
    BY <1>5, <2>1 DEF Declares
  <2>3. Mark(pr, bs, f, e, es[e].moved)
    BY <2>1, <2>2 DEF MarksKnown
  <2>4. ASSUME NEW n \in 1 .. Len(bs), f[n] <= e
        PROVE  bs2[n].decl = bs[n].decl
    <3>1. n # Len(bs)
      BY <2>1, <2>4, ShapeFacts
    <3> QED
      BY <1>5, <3>1 DEF Declares
  <2> QED
    BY <1>1, <2>1, <2>2, <2>3, <2>4
<1> QED
  BY <1>3, <1>4, <1>5

LEMMA PushMarks ==
  ASSUME NEW pr, NEW bs, NEW es, NEW pr2, NEW bs2, NEW es2, NEW f,
         Shape(pr, bs, es, f), Push(pr, bs, es, pr2, bs2, es2), MarksKnown(pr, bs, es, f)
  PROVE  MarksKnown(pr2, bs2, es2, Opened(bs2, es2, f))
<1> DEFINE g == Opened(bs2, es2, f)
<1> SUFFICES ASSUME NEW e \in 1 .. Len(es2), es2[e].moved # 0, es2[e].inst # None
             PROVE  Mark(pr2, bs2, g, e, es2[e].moved)
  BY DEF MarksKnown
<1> DEFINE j == es2[e].moved
<1>1. e \in 1 .. Len(es) /\ es2[e] = es[e]
  BY PushFacts
<1>2. Mark(pr, bs, f, e, j)
  BY <1>1 DEF MarksKnown
<1>3. j \in 1 .. Len(pr) /\ pr2[j] = pr[j]
  BY <1>2, PushFacts DEF Mark
<1>4. MeantAt(bs2, g, e) = MeantAt(bs, f, e)
  <2>1. \A n \in 1 .. Len(bs2) : bs2[n].decl # None => n \in 1 .. Len(bs)
    BY PushFacts
  <2>2. Declaring(bs2, g, e) = Declaring(bs, f, e)
    BY <2>1, PushFacts DEF Declaring
  <2>3. \A n \in Declaring(bs, f, e) : bs2[n].decl = bs[n].decl
    BY PushFacts DEF Declaring
  <2> QED
    BY <2>2, <2>3, MeantSame, ShapeFacts
<1>5. \/ pr2[j].inst = MeantAt(bs2, g, e)
      \/ pr2[j].inst \in 1 .. Len(pr2) /\ Isolated(pr2, pr2[j].inst)
  BY <1>2, <1>3, <1>4, PushFacts DEF Mark
<1>6. ASSUME NEW p \in pr2[j].path \ {0}, pr2[p].iso
      PROVE  \E n \in 1 .. Len(bs2) : bs2[n].place = p /\ g[n] <= e
  <2>1. p \in pr[j].path \ {0} /\ pr[p].iso
    BY <1>3, <1>6, PushFacts
  <2>2. PICK n \in 1 .. Len(bs) : bs[n].place = p /\ f[n] <= e
    BY <1>2, <2>1 DEF Mark
  <2>3. n \in 1 .. Len(bs2) /\ bs2[n] = bs[n] /\ g[n] = f[n]
    BY PushFacts
  <2> QED
    BY <2>2, <2>3
<1> QED
  BY <1>3, <1>5, <1>6, PushFacts DEF Mark

LEMMA PopMarks ==
  ASSUME NEW pr, NEW bs, NEW es, NEW bs2, NEW es2, NEW f,
         Shape(pr, bs, es, f), Pop(bs, es, bs2, es2), Shape(pr, bs2, es2, Closed(bs2, f)),
         Decls(pr, bs, es, f), MarksKnown(pr, bs, es, f)
  PROVE  MarksKnown(pr, bs2, es2, Closed(bs2, f))
<1> DEFINE g == Closed(bs2, f)
           L == Len(bs)
<1> SUFFICES ASSUME NEW e \in 1 .. Len(es2), es2[e].moved # 0, es2[e].inst # None
             PROVE  Mark(pr, bs2, g, e, es2[e].moved)
  BY DEF MarksKnown
<1> DEFINE j == es2[e].moved
<1>1. e \in 1 .. Len(es) /\ es2[e] = es[e]
  BY PopFacts
<1>2. Mark(pr, bs, f, e, j)
  BY <1>1 DEF MarksKnown
<1>3. L \in 1 .. L /\ f[L] = Len(es)
  BY ShapeFacts
<1>4. ASSUME f[L] <= e
      PROVE  ~bs[L].own /\ e = Len(es) /\ es[e].isolated
  <2>1. e = Len(es)
    BY <1>1, <1>3, <1>4, ShapeFacts
  <2>2. ~bs[L].own
    BY <2>1, ShapeFacts, PopFacts
  <2> QED
    BY <1>3, <2>1, <2>2 DEF Shape, Align
<1>5. \/ pr[j].inst = MeantAt(bs2, g, e)
      \/ pr[j].inst \in 1 .. Len(pr) /\ Isolated(pr, pr[j].inst)
  <2>1. CASE pr[j].inst \in 1 .. Len(pr) /\ Isolated(pr, pr[j].inst)
    BY <2>1
  <2>2. CASE pr[j].inst = MeantAt(bs, f, e) /\ L \notin Declaring(bs, f, e)
    <3>1. \A n \in Declaring(bs, f, e) : n \in 1 .. Len(bs2)
      BY <2>2, PopFacts DEF Declaring
    <3>2. Declaring(bs2, g, e) = Declaring(bs, f, e)
      BY <3>1, PopFacts DEF Declaring
    <3>3. \A n \in Declaring(bs, f, e) : bs2[n].decl = bs[n].decl
      BY <3>1, PopFacts
    <3>4. MeantAt(bs2, g, e) = MeantAt(bs, f, e)
      BY <3>2, <3>3, MeantSame, ShapeFacts
    <3> QED
      BY <2>2, <3>4
  <2>3. CASE pr[j].inst = MeantAt(bs, f, e) /\ L \in Declaring(bs, f, e)
    <3>1. bs[L].decl # None /\ f[L] <= e
      BY <2>3 DEF Declaring
    <3>2. MeantAt(bs, f, e) = bs[L].decl
      <4> DEFINE D == Declaring(bs, f, e)
      <4>0. D \subseteq 1 .. L
        BY DEF Declaring
      <4>1. Highest(D) \in 1 .. L /\ L <= Highest(D)
        <5>1. Len(bs) \in Nat /\ D # {}
          BY <2>3, ShapeFacts
        <5>2. Highest(D) \in D /\ \A m \in D : m <= Highest(D)
          BY <5>1, DeclaringHighest
        <5> QED
          BY <2>3, <4>0, <5>2
      <4>2. Highest(Declaring(bs, f, e)) = L
        BY <4>1, ShapeFacts
      <4> QED
        BY <2>3, <4>2 DEF MeantAt
    <3>3. bs[L].decl \in 1 .. Len(pr) /\ Isolated(pr, bs[L].decl)
      BY <1>3, <1>4, <3>1 DEF Decls, DeclBlock
    <3> QED
      BY <2>3, <3>2, <3>3
  <2> QED
    BY <1>2, <2>1, <2>2, <2>3 DEF Mark
<1>6. ASSUME NEW p \in pr[j].path \ {0}, pr[p].iso
      PROVE  \E n \in 1 .. Len(bs2) : bs2[n].place = p /\ g[n] <= e
  <2>1. PICK n \in 1 .. L : bs[n].place = p /\ f[n] <= e
    BY <1>2, <1>6 DEF Mark
  <2>2. n # L
    <3> SUFFICES ASSUME n = L
                 PROVE  FALSE
      OBVIOUS
    <3>1. ~bs[L].own
      BY <1>4, <2>1
    <3>2. L \in 2 .. L
      BY ShapeFacts, PopFacts
    <3> QED
      BY <1>6, <2>1, <3>1, <3>2 DEF Shape, Align
  <2>3. n \in 1 .. Len(bs2)
    BY <2>2, PopFacts
  <2> QED
    BY <2>1, <2>3, PopFacts, SMTT(30)
<1> QED
  BY <1>2, <1>5, <1>6 DEF Mark

-----------------------------------------------------------------------------
(* Returns: a block with a return among its own statements ends, and a     *)
(* branch that is over and was not isolated has none.                      *)

ReturnIn(pr, r, p) == pr[r].op \in Returning /\ pr[r].path = pr[p].path \cup {p}

ReturnsKnown(pr, bs) ==
  /\ \A n \in 2 .. Len(bs), r \in 1 .. Len(pr) : ReturnIn(pr, r, bs[n].place) => bs[n].ends
  /\ \A p \in 1 .. Len(pr) :
       pr[p].op \in {"if", "else"} /\ ~pr[p].iso /\ p \notin PlacesOf(bs) =>
         \A r \in 1 .. Len(pr) : ~ReturnIn(pr, r, p)

LEMMA StmtReturns ==
  ASSUME NEW pr, NEW bs, NEW es, NEW pr2, NEW bs2, NEW es2, NEW f,
         Shape(pr, bs, es, f), Stmt(pr, bs, es, pr2, bs2, es2), ReturnsKnown(pr, bs),
         pr2[Len(pr) + 1].op \in Returning => bs2[Len(bs)].ends
  PROVE  ReturnsKnown(pr2, bs2)
<1> DEFINE N == Len(pr) + 1
<1>1. \A r, p \in 1 .. Len(pr) : ReturnIn(pr2, r, p) <=> ReturnIn(pr, r, p)
  BY StmtFacts DEF ReturnIn
<1>2. ASSUME NEW p \in 1 .. Len(pr), ReturnIn(pr2, N, p)
      PROVE  p \in PlacesOf(bs) /\ \A n \in 1 .. Len(bs) : bs[n].place <= p
  <2>0. pr2[N].op \in Simple
    BY <1>2 DEF ReturnIn, Returning, Simple
  <2>1. pr2[N].path = PlacesOf(bs) /\ pr2[p] = pr[p]
    BY <1>2, <2>0, StmtFacts DEF Stmt
  <2>2. PlacesOf(bs) = pr[p].path \cup {p}
    BY <1>2, <2>1 DEF ReturnIn
  <2>3. \A q \in pr[p].path : q <= p
    BY ShapeFacts
  <2>4. \A q \in PlacesOf(bs) : q <= p
    BY <2>2, <2>3
  <2> QED
    BY <2>2, <2>4 DEF PlacesOf
<1>3. ASSUME NEW n \in 2 .. Len(bs2), NEW r \in 1 .. Len(pr2), ReturnIn(pr2, r, bs2[n].place)
      PROVE  bs2[n].ends
  <2>1. /\ n \in 1 .. Len(bs) /\ n \in 2 .. Len(bs) /\ bs2[n].place = bs[n].place
        /\ bs[n].place \in 1 .. Len(pr) /\ (bs[n].ends => bs2[n].ends)
    <3>1. n \in 1 .. Len(bs) /\ n \in 2 .. Len(bs)
      BY ShapeFacts, StmtFacts
    <3>2. BlockKept(bs[n], bs2[n])
      BY <3>1 DEF Stmt
    <3> QED
      BY <3>1, <3>2, StmtFacts DEF BlockKept
  <2>2. CASE r \in 1 .. Len(pr)
    BY <1>1, <1>3, <2>1, <2>2 DEF ReturnsKnown
  <2>3. CASE r = N
    <3>1. Len(bs) \in 1 .. Len(bs) /\ bs[Len(bs)].place <= bs[n].place
      BY <1>2, <1>3, <2>1, <2>3, ShapeFacts
    <3>2. ~(n < Len(bs))
      <4>1. n < Len(bs) => bs[n].place < bs[Len(bs)].place
        BY <2>1, <3>1 DEF Shape, Nest
      <4>2. bs[n].place \in Nat /\ bs[Len(bs)].place \in Nat
        BY <2>1, <3>1, ShapeFacts
      <4> QED
        BY <3>1, <4>1, <4>2
    <3>3. n = Len(bs)
      BY <2>1, <3>2, ShapeFacts
    <3> QED
      BY <1>3, <2>3, <3>3 DEF ReturnIn
  <2> QED
    BY <2>2, <2>3, StmtFacts
<1>4. ASSUME NEW p \in 1 .. Len(pr2), pr2[p].op \in {"if", "else"}, ~pr2[p].iso,
             p \notin PlacesOf(bs2), NEW r \in 1 .. Len(pr2)
      PROVE  ~ReturnIn(pr2, r, p)
  <2>1. PlacesOf(bs2) = PlacesOf(bs)
    <3>1. Len(bs2) = Len(bs) /\ \A n \in 1 .. Len(bs) : bs2[n].place = bs[n].place
      BY StmtFacts
    <3> QED
      BY <3>1 DEF PlacesOf
  <2>2. p # N
    BY <1>4 DEF Stmt, Simple
  <2>3. p \in 1 .. Len(pr) /\ pr2[p] = pr[p]
    BY <2>2, StmtFacts
  <2>4. CASE r \in 1 .. Len(pr)
    BY <1>1, <1>4, <2>1, <2>3, <2>4 DEF ReturnsKnown
  <2>5. CASE r = N
    BY <1>2, <1>4, <2>1, <2>3, <2>5
  <2> QED
    BY <2>4, <2>5, StmtFacts
<1> QED
  BY <1>3, <1>4 DEF ReturnsKnown

LEMMA PushReturns ==
  ASSUME NEW pr, NEW bs, NEW es, NEW pr2, NEW bs2, NEW es2, NEW f,
         Shape(pr, bs, es, f), Push(pr, bs, es, pr2, bs2, es2), ReturnsKnown(pr, bs)
  PROVE  ReturnsKnown(pr2, bs2)
<1> DEFINE N == Len(pr) + 1
<1>1. \A r, p \in 1 .. Len(pr) : ReturnIn(pr2, r, p) <=> ReturnIn(pr, r, p)
  BY PushFacts DEF ReturnIn
<1>2. \A p : ~ReturnIn(pr2, N, p)
  BY PushFacts DEF ReturnIn, Returning, Openers
<1>3. ASSUME NEW r \in 1 .. Len(pr)
      PROVE  ~ReturnIn(pr2, r, N)
  <2>1. pr2[r] = pr[r] /\ N \notin pr[r].path
    BY ShapeFacts, PushFacts
  <2> QED
    BY <2>1 DEF ReturnIn
<1>4. ASSUME NEW n \in 2 .. Len(bs2), NEW r \in 1 .. Len(pr2), ReturnIn(pr2, r, bs2[n].place)
      PROVE  bs2[n].ends
  <2>1. r \in 1 .. Len(pr)
    BY <1>2, <1>4, PushFacts
  <2>2. n # Len(bs2)
    BY <1>3, <1>4, <2>1, PushFacts
  <2>3. n \in 2 .. Len(bs) /\ bs2[n] = bs[n]
    BY <2>2, ShapeFacts, PushFacts
  <2>4. bs[n].place \in 1 .. Len(pr)
    BY <2>3, PlacesInText DEF Shape
  <2> QED
    BY <1>1, <1>4, <2>1, <2>3, <2>4 DEF ReturnsKnown
<1>5. ASSUME NEW p \in 1 .. Len(pr2), pr2[p].op \in {"if", "else"}, ~pr2[p].iso,
             p \notin PlacesOf(bs2), NEW r \in 1 .. Len(pr2)
      PROVE  ~ReturnIn(pr2, r, p)
  <2>1. Len(bs2) \in 1 .. Len(bs2) /\ PlacesOf(bs) \subseteq PlacesOf(bs2)
    <3>1. Len(bs2) \in 1 .. Len(bs2)
      BY ShapeFacts, PushFacts
    <3>2. \A n \in 1 .. Len(bs) : n \in 1 .. Len(bs2) /\ bs2[n] = bs[n]
      BY PushFacts
    <3> QED
      BY <3>1, <3>2 DEF PlacesOf
  <2>2. p # N
    BY <1>5, <2>1, PushFacts DEF PlacesOf
  <2>3. p \in 1 .. Len(pr) /\ pr2[p] = pr[p] /\ p \notin PlacesOf(bs)
    BY <1>5, <2>1, <2>2, PushFacts
  <2> QED
    BY <1>1, <1>2, <1>5, <2>3, PushFacts DEF ReturnsKnown
<1> QED
  BY <1>4, <1>5 DEF ReturnsKnown

LEMMA PopReturns ==
  ASSUME NEW pr, NEW bs, NEW es, NEW bs2, NEW es2, NEW f,
         Shape(pr, bs, es, f), Pop(bs, es, bs2, es2), Shape(pr, bs2, es2, Closed(bs2, f)),
         bs[Len(bs)].op \in {"if", "else"} => bs[Len(bs)].ends = bs[Len(bs)].term,
         ReturnsKnown(pr, bs)
  PROVE  ReturnsKnown(pr, bs2)
<1> DEFINE L == Len(bs)
<1>1. L \in 2 .. L /\ L \in 1 .. L
  BY ShapeFacts, PopFacts
<1>2. \A n \in 2 .. Len(bs2), r \in 1 .. Len(pr) : ReturnIn(pr, r, bs2[n].place) => bs2[n].ends
  <2>1. \A n \in 2 .. Len(bs2) : n \in 2 .. L /\ bs2[n] = bs[n]
    BY ShapeFacts, PopFacts
  <2> QED
    BY <2>1 DEF ReturnsKnown
<1>3. ASSUME NEW p \in 1 .. Len(pr), pr[p].op \in {"if", "else"}, ~pr[p].iso,
             p \notin PlacesOf(bs2), NEW r \in 1 .. Len(pr)
      PROVE  ~ReturnIn(pr, r, p)
  <2>1. CASE p \notin PlacesOf(bs)
    BY <1>3, <2>1 DEF ReturnsKnown
  <2>2. CASE p \in PlacesOf(bs)
    <3>1. PICK n \in 1 .. L : bs[n].place = p
      BY <2>2 DEF PlacesOf
    <3>2. n = L
      BY <1>3, <3>1, PopFacts DEF PlacesOf
    <3>3. pr[p].op = bs[L].op /\ pr[p].iso = bs[L].term
      BY <1>1, <1>3, <3>1, <3>2 DEF Shape, Nest
    <3>4. ~bs[L].ends
      BY <1>3, <3>3
    <3> QED
      BY <1>1, <3>1, <3>2, <3>4 DEF ReturnsKnown
  <2> QED
    BY <2>1, <2>2
<1> QED
  BY <1>2, <1>3 DEF ReturnsKnown

-----------------------------------------------------------------------------
(* The parts together, and the reads that were taken after a move.         *)

MovesSeen(pr) ==
  \A j, k \in 1 .. Len(pr) :
    /\ j < k /\ pr[j].op \in Moving /\ pr[k].op \in Reads /\ pr[j].inst = pr[k].inst
    => Isolated(pr, j) \/ \E d \in j + 1 .. k - 1 : pr[d].op = "decl" /\ Isolated(pr, d)

Known(pr, bs, es, f) ==
  /\ Shape(pr, bs, es, f) /\ Decls(pr, bs, es, f) /\ MovesKnown(pr, bs, es, f)
  /\ BorrowsKnown(pr, bs, es, f) /\ MarksKnown(pr, bs, es, f) /\ ReturnsKnown(pr, bs)
  /\ MovesSeen(pr)

LEMMA SeenGrows ==
  ASSUME NEW pr, Len(pr) \in Nat, NEW pr2, Grows(pr, pr2), Text(pr), MovesSeen(pr),
         pr2[Len(pr) + 1].op \in Reads =>
           \A j \in 1 .. Len(pr) :
             pr[j].op \in Moving /\ pr[j].inst = pr2[Len(pr) + 1].inst /\ ~Isolated(pr, j) =>
               \E d \in j + 1 .. Len(pr) : pr[d].op = "decl" /\ Isolated(pr, d)
  PROVE  MovesSeen(pr2)
<1> SUFFICES ASSUME NEW j \in 1 .. Len(pr2), NEW k \in 1 .. Len(pr2), j < k,
                    pr2[j].op \in Moving, pr2[k].op \in Reads, pr2[j].inst = pr2[k].inst,
                    ~Isolated(pr2, j)
             PROVE  \E d \in j + 1 .. k - 1 : pr2[d].op = "decl" /\ Isolated(pr2, d)
  BY DEF MovesSeen
<1>1. j \in 1 .. Len(pr) /\ pr2[j] = pr[j] /\ ~Isolated(pr, j)
  BY IsolatedKept DEF Grows
<1>2. \E d \in j + 1 .. k - 1 : d \in 1 .. Len(pr) /\ pr[d].op = "decl" /\ Isolated(pr, d)
  <2>1. CASE k \in 1 .. Len(pr)
    <3>1. pr2[k] = pr[k]
      BY <2>1 DEF Grows
    <3>2. \E d \in j + 1 .. k - 1 : pr[d].op = "decl" /\ Isolated(pr, d)
      BY <1>1, <2>1, <3>1 DEF MovesSeen
    <3> QED
      BY <1>1, <2>1, <3>2
  <2>2. CASE k = Len(pr) + 1
    <3>1. \E d \in j + 1 .. Len(pr) : pr[d].op = "decl" /\ Isolated(pr, d)
      BY <1>1, <2>2
    <3> QED
      BY <1>1, <2>2, <3>1
  <2> QED
    BY <2>1, <2>2 DEF Grows
<1>3. \A d \in 1 .. Len(pr) : pr2[d] = pr[d] /\ (Isolated(pr2, d) <=> Isolated(pr, d))
  BY IsolatedKept DEF Grows
<1> QED
  BY <1>2, <1>3

LEMMA StmtKnown ==
  ASSUME NEW pr, NEW bs, NEW es, NEW pr2, NEW bs2, NEW es2, NEW f,
         Known(pr, bs, es, f), Stmt(pr, bs, es, pr2, bs2, es2),
         \/ Moves(pr, bs, es, pr2, bs2, es2, f)
         \/ MovesNot(pr, bs, es, pr2, bs2, es2)
         \/ Declares(pr, bs, es, pr2, bs2, es2),
         OneKind(es2),
         \A e \in 1 .. Len(es) : es[e].shared => es2[e].shared,
         pr2[Len(pr) + 1].op # "lend" => \A e \in 1 .. Len(es) : es[e].mut => es2[e].mut,
         pr2[Len(pr) + 1].op = "share" => es2[Len(es)].shared,
         pr2[Len(pr) + 1].op = "hold" => \E e \in 1 .. Len(es) : es2[e].mut,
         pr2[Len(pr) + 1].op \in Returning => bs2[Len(bs)].ends,
         pr2[Len(pr) + 1].op \in Reads =>
           es[Top(es)].moved = 0 /\ pr2[Len(pr) + 1].inst = MeantAt(bs, f, Len(es))
  PROVE  Known(pr2, bs2, es2, f)
<1>1. Shape(pr, bs, es, f) /\ Decls(pr, bs, es, f)
  BY DEF Known
<1>2. Shape(pr2, bs2, es2, f)
  BY <1>1, StmtShape
<1>3. Decls(pr2, bs2, es2, f)
  BY <1>1, SameDeclsKept, DeclaresKept DEF Moves, MovesNot
<1>4. MovesKnown(pr2, bs2, es2, f)
  BY <1>1, StmtMoves DEF Known
<1>5. BorrowsKnown(pr2, bs2, es2, f)
  BY <1>1, StmtBorrows DEF Known
<1>6. MarksKnown(pr2, bs2, es2, f)
  BY <1>1, StmtMarks DEF Known
<1>7. ReturnsKnown(pr2, bs2)
  BY <1>1, StmtReturns DEF Known
<1>8. MovesSeen(pr2)
  <2>1. Len(pr) \in Nat /\ Grows(pr, pr2) /\ Text(pr) /\ MovesSeen(pr) /\ MovesKnown(pr, bs, es, f)
    BY <1>1, ShapeFacts DEF Shape, Stmt, Known
  <2>2. ASSUME pr2[Len(pr) + 1].op \in Reads, NEW j \in 1 .. Len(pr), pr[j].op \in Moving,
               pr[j].inst = pr2[Len(pr) + 1].inst, ~Isolated(pr, j)
        PROVE  \E d \in j + 1 .. Len(pr) : pr[d].op = "decl" /\ Isolated(pr, d)
    BY <1>1, <2>1, <2>2, ReadSeen
  <2> QED
    BY <2>1, <2>2, SeenGrows
<1> QED
  BY <1>2, <1>3, <1>4, <1>5, <1>6, <1>7, <1>8 DEF Known

LEMMA PushKnown ==
  ASSUME NEW pr, NEW bs, NEW es, NEW pr2, NEW bs2, NEW es2, NEW f,
         Known(pr, bs, es, f), Push(pr, bs, es, pr2, bs2, es2), pr2[Len(pr) + 1].inst \in Nat
  PROVE  Known(pr2, bs2, es2, Opened(bs2, es2, f))
<1>1. Shape(pr, bs, es, f) /\ Decls(pr, bs, es, f)
  BY DEF Known
<1>2. Shape(pr2, bs2, es2, Opened(bs2, es2, f)) /\ Decls(pr2, bs2, es2, Opened(bs2, es2, f))
  BY <1>1, PushShape, PushDecls
<1>3. MovesKnown(pr2, bs2, es2, Opened(bs2, es2, f))
  BY <1>1, PushMoves DEF Known
<1>4. BorrowsKnown(pr2, bs2, es2, Opened(bs2, es2, f))
  BY <1>1, PushBorrows DEF Known
<1>5. MarksKnown(pr2, bs2, es2, Opened(bs2, es2, f)) /\ ReturnsKnown(pr2, bs2)
  BY <1>1, PushMarks, PushReturns DEF Known
<1>6. MovesSeen(pr2)
  <2>1. Len(pr) \in Nat /\ Grows(pr, pr2) /\ Text(pr) /\ MovesSeen(pr)
    BY <1>1, ShapeFacts DEF Shape, Push, Known
  <2>2. pr2[Len(pr) + 1].op \notin Reads
    BY DEF Push, Reads, Openers
  <2> QED
    BY <2>1, <2>2, SeenGrows
<1> QED
  BY <1>2, <1>3, <1>4, <1>5, <1>6 DEF Known

LEMMA PopKnown ==
  ASSUME NEW pr, NEW bs, NEW es, NEW bs2, NEW es2, NEW f,
         Known(pr, bs, es, f), Pop(bs, es, bs2, es2),
         bs2 \in Seq(BlockType), es2 \in Seq(EnvType),
         bs[Len(bs)].op \in {"if", "else"} => bs[Len(bs)].ends = bs[Len(bs)].term
  PROVE  Known(pr, bs2, es2, Closed(bs2, f))
<1>1. Shape(pr, bs, es, f) /\ Decls(pr, bs, es, f)
  BY DEF Known
<1>2. Shape(pr, bs2, es2, Closed(bs2, f))
  BY <1>1, PopShape
<1>3. Decls(pr, bs2, es2, Closed(bs2, f)) /\ MovesKnown(pr, bs2, es2, Closed(bs2, f))
  BY <1>1, <1>2, PopDecls, PopMoves DEF Known
<1>4. BorrowsKnown(pr, bs2, es2, Closed(bs2, f)) /\ MarksKnown(pr, bs2, es2, Closed(bs2, f))
  BY <1>1, <1>2, PopBorrows, PopMarks DEF Known
<1>5. ReturnsKnown(pr, bs2)
  BY <1>1, <1>2, PopReturns DEF Known
<1> QED
  BY <1>2, <1>3, <1>4, <1>5 DEF Known

-----------------------------------------------------------------------------
(* One element of a sequence of environments or of blocks is changed.      *)

MovedIn(es, q, k, es2) ==
  /\ es2 \in Seq(EnvType) /\ Len(es2) = Len(es)
  /\ es2[q].moved = k
  /\ \A e \in 1 .. Len(es) :
       /\ e # q => es2[e] = es[e]
       /\ es2[e].isolated = es[e].isolated /\ es2[e].inst = es[e].inst
       /\ es2[e].mut = es[e].mut /\ es2[e].shared = es[e].shared

LEMMA MovedExcept ==
  ASSUME NEW es \in Seq(EnvType), NEW q \in 1 .. Len(es), NEW k \in Nat,
         NEW es2, es2 = [es EXCEPT ![q].moved = k]
  PROVE  MovedIn(es, q, k, es2)
<1> DEFINE x == [es[q] EXCEPT !.moved = k]
<1>1. es[q] \in EnvType
  BY ElementOfSeq
<1>2. x \in EnvType /\ x.moved = k /\ x.isolated = es[q].isolated /\ x.inst = es[q].inst
      /\ x.mut = es[q].mut /\ x.shared = es[q].shared
  BY <1>1 DEF EnvType
<1>3. [es EXCEPT ![q].moved = k] = [es EXCEPT ![q] = x]
  OBVIOUS
<1> HIDE DEF x
<1> QED
  BY <1>2, <1>3, ExceptSeq, SMTT(30) DEF MovedIn

InstIn(es, q, d, es2) ==
  /\ es2 \in Seq(EnvType) /\ Len(es2) = Len(es)
  /\ es2[q].inst = d /\ es2[q].moved = 0
  /\ \A e \in 1 .. Len(es) :
       /\ e # q => es2[e] = es[e]
       /\ es2[e].isolated = es[e].isolated
       /\ es2[e].mut = es[e].mut /\ es2[e].shared = es[e].shared

LEMMA InstExcept ==
  ASSUME NEW es \in Seq(EnvType), NEW q \in 1 .. Len(es), NEW d \in Nat,
         NEW es2, es2 = [es EXCEPT ![q].inst = d, ![q].moved = 0]
  PROVE  InstIn(es, q, d, es2)
<1> DEFINE x == [es[q] EXCEPT !.inst = d, !.moved = 0]
<1>1. es[q] \in EnvType
  BY ElementOfSeq
<1>2. x \in EnvType /\ x.inst = d /\ x.moved = 0 /\ x.isolated = es[q].isolated
      /\ x.mut = es[q].mut /\ x.shared = es[q].shared
  BY <1>1 DEF EnvType
<1>3. q \in DOMAIN es
  BY LenProperties
<1>4. [es EXCEPT ![q].inst = d, ![q].moved = 0] = [es EXCEPT ![q] = x]
  BY <1>3
<1> HIDE DEF x
<1>5. \A e \in 1 .. Len(es) : [es EXCEPT ![q] = x][e] = IF e = q THEN x ELSE es[e]
  BY <1>2, ExceptSeq
<1>6. [es EXCEPT ![q] = x] \in Seq(EnvType) /\ Len([es EXCEPT ![q] = x]) = Len(es)
  BY <1>2, ExceptSeq
<1> QED
  BY <1>2, <1>4, <1>5, <1>6 DEF InstIn

MutIn(es, q, b, es2) ==
  /\ es2 \in Seq(EnvType) /\ Len(es2) = Len(es)
  /\ es2[q].mut = b
  /\ \A e \in 1 .. Len(es) :
       /\ e # q => es2[e] = es[e]
       /\ es2[e].isolated = es[e].isolated /\ es2[e].inst = es[e].inst
       /\ es2[e].moved = es[e].moved /\ es2[e].shared = es[e].shared

LEMMA MutExcept ==
  ASSUME NEW es \in Seq(EnvType), NEW q \in 1 .. Len(es), NEW b, b \in BOOLEAN,
         NEW es2, es2 = [es EXCEPT ![q].mut = b]
  PROVE  MutIn(es, q, b, es2)
<1> DEFINE x == [es[q] EXCEPT !.mut = b]
<1>1. es[q] \in EnvType
  BY ElementOfSeq
<1>2. x \in EnvType /\ x.mut = b /\ x.isolated = es[q].isolated /\ x.inst = es[q].inst
      /\ x.moved = es[q].moved /\ x.shared = es[q].shared
  BY <1>1 DEF EnvType
<1>3. [es EXCEPT ![q].mut = b] = [es EXCEPT ![q] = x]
  OBVIOUS
<1> HIDE DEF x
<1> QED
  BY <1>2, <1>3, ExceptSeq DEF MutIn

SharedIn(es, q, es2) ==
  /\ es2 \in Seq(EnvType) /\ Len(es2) = Len(es)
  /\ es2[q].shared
  /\ \A e \in 1 .. Len(es) :
       /\ e # q => es2[e] = es[e]
       /\ es2[e].isolated = es[e].isolated /\ es2[e].inst = es[e].inst
       /\ es2[e].moved = es[e].moved /\ es2[e].mut = es[e].mut

LEMMA SharedExcept ==
  ASSUME NEW es \in Seq(EnvType), NEW q \in 1 .. Len(es),
         NEW es2, es2 = [es EXCEPT ![q].shared = TRUE]
  PROVE  SharedIn(es, q, es2)
<1> DEFINE x == [es[q] EXCEPT !.shared = TRUE]
<1>1. es[q] \in EnvType
  BY ElementOfSeq
<1>2. x \in EnvType /\ x.shared = TRUE /\ x.isolated = es[q].isolated /\ x.inst = es[q].inst
      /\ x.moved = es[q].moved /\ x.mut = es[q].mut
  BY <1>1 DEF EnvType
<1>3. [es EXCEPT ![q].shared = TRUE] = [es EXCEPT ![q] = x]
  OBVIOUS
<1> HIDE DEF x
<1>4. \A e \in 1 .. Len(es) : [es EXCEPT ![q] = x][e] = IF e = q THEN x ELSE es[e]
  BY <1>2, ExceptSeq
<1>5. [es EXCEPT ![q] = x] \in Seq(EnvType) /\ Len([es EXCEPT ![q] = x]) = Len(es)
  BY <1>2, ExceptSeq
<1> QED
  BY <1>2, <1>3, <1>4, <1>5 DEF SharedIn

EndsIn(bs, q, b, bs2) ==
  /\ bs2 \in Seq(BlockType) /\ Len(bs2) = Len(bs)
  /\ bs2[q].ends <=> b
  /\ \A n \in 1 .. Len(bs) :
       /\ n # q => bs2[n] = bs[n]
       /\ (bs[q].ends => b) => BlockKept(bs[n], bs2[n])
       /\ bs2[n].decl = bs[n].decl

LEMMA EndsExcept ==
  ASSUME NEW bs \in Seq(BlockType), NEW q \in 1 .. Len(bs), NEW b, b \in BOOLEAN,
         NEW bs2, bs2 = [bs EXCEPT ![q].ends = b]
  PROVE  EndsIn(bs, q, b, bs2)
<1> DEFINE x == [bs[q] EXCEPT !.ends = b]
<1>1. bs[q] \in BlockType
  BY ElementOfSeq
<1>2. x \in BlockType /\ x.ends = b /\ x.decl = bs[q].decl /\ x.op = bs[q].op /\ x.place = bs[q].place
      /\ x.head = bs[q].head /\ x.own = bs[q].own /\ x.term = bs[q].term /\ x.first = bs[q].first
  BY <1>1 DEF BlockType
<1>3. [bs EXCEPT ![q].ends = b] = [bs EXCEPT ![q] = x]
  OBVIOUS
<1> HIDE DEF x
<1>4. \A n \in 1 .. Len(bs) : [bs EXCEPT ![q] = x][n] = IF n = q THEN x ELSE bs[n]
  BY <1>2, ExceptSeq
<1>5. [bs EXCEPT ![q] = x] \in Seq(BlockType) /\ Len([bs EXCEPT ![q] = x]) = Len(bs)
  BY <1>2, ExceptSeq
<1>6. (bs[q].ends => b) => BlockKept(bs[q], x)
  BY <1>2 DEF BlockKept
<1>7. \A n \in 1 .. Len(bs) : BlockKept(bs[n], bs[n])
  BY DEF BlockKept
<1>8. bs2[q] = x
  BY <1>3, <1>4
<1> QED
  BY <1>2, <1>3, <1>4, <1>5, <1>6, <1>7, <1>8 DEF EndsIn

DeclIn(bs, q, d, bs2) ==
  /\ bs2 \in Seq(BlockType) /\ Len(bs2) = Len(bs)
  /\ bs2[q].decl = d /\ bs2[q].ends = bs[q].ends
  /\ \A n \in 1 .. Len(bs) :
       /\ n # q => bs2[n] = bs[n]
       /\ BlockKept(bs[n], bs2[n])

LEMMA DeclExcept ==
  ASSUME NEW bs \in Seq(BlockType), NEW q \in 1 .. Len(bs), NEW d \in Nat,
         NEW bs2, bs2 = [bs EXCEPT ![q].decl = d]
  PROVE  DeclIn(bs, q, d, bs2)
<1> DEFINE x == [bs[q] EXCEPT !.decl = d]
<1>1. bs[q] \in BlockType
  BY ElementOfSeq
<1>2. x \in BlockType /\ x.decl = d /\ x.ends = bs[q].ends /\ x.op = bs[q].op /\ x.place = bs[q].place
      /\ x.head = bs[q].head /\ x.own = bs[q].own /\ x.term = bs[q].term /\ x.first = bs[q].first
  BY <1>1 DEF BlockType
<1>3. [bs EXCEPT ![q].decl = d] = [bs EXCEPT ![q] = x]
  OBVIOUS
<1> HIDE DEF x
<1>4. \A n \in 1 .. Len(bs) : [bs EXCEPT ![q] = x][n] = IF n = q THEN x ELSE bs[n]
  BY <1>2, ExceptSeq
<1>5. [bs EXCEPT ![q] = x] \in Seq(BlockType) /\ Len([bs EXCEPT ![q] = x]) = Len(bs)
  BY <1>2, ExceptSeq
<1>6. BlockKept(bs[q], x)
  BY <1>2 DEF BlockKept
<1>7. \A n \in 1 .. Len(bs) : BlockKept(bs[n], bs[n])
  BY DEF BlockKept
<1> QED
  BY <1>2, <1>3, <1>4, <1>5, <1>6, <1>7 DEF DeclIn

-----------------------------------------------------------------------------
(* Heads: which statements belong to which.  An open block is the last     *)
(* part of its head so far; a statement that opens a block has an end once *)
(* it is no longer open, and that end is its last part.                    *)

BlockHead(pr, bs, n) ==
  /\ bs[n].op \in Openers \cup {"else", "case"}
  /\ bs[n].head \in 1 .. bs[n].place
  /\ bs[n].op \in Openers =>
       bs[n].head = bs[n].place /\ \A x \in 1 .. Len(pr) : pr[x].head # bs[n].head
  /\ bs[n].op \notin Openers => pr[bs[n].place].head = bs[n].head
  /\ bs[n].op = "else" =>
       /\ pr[bs[n].head].op = "if"
       /\ \A x \in 1 .. Len(pr) : pr[x].head = bs[n].head => x = bs[n].place

LastPart(pr, y) ==
  pr[y].op = "end" /\ \A x \in 1 .. Len(pr) : pr[x].head = pr[y].head => x <= y

Heads(pr, bs) ==
  /\ \A n \in 2 .. Len(bs) : BlockHead(pr, bs, n)
  /\ \A m, n \in 1 .. Len(bs) : m < n => bs[m].place < bs[n].head
  /\ \A y \in 1 .. Len(pr) :
       pr[y].op = "end" => LastPart(pr, y) /\ \A n \in 2 .. Len(bs) : bs[n].head # pr[y].head
  /\ \A k \in 1 .. Len(pr) :
       pr[k].op \in Openers =>
         \/ \E n \in 2 .. Len(bs) : bs[n].head = k
         \/ \E y \in 1 .. Len(pr) : pr[y].op = "end" /\ pr[y].head = k
  /\ \A k \in 1 .. Len(pr) : pr[k].op \notin Enders => pr[k].head = 0

(* The four kinds of steps, as to heads and to where control goes.         *)
SimpleStep(pr, bs, pr2, bs2) ==
  LET t == pr2[Len(pr) + 1]
  IN  /\ Grows(pr, pr2) /\ t.op \in Simple /\ t.head = 0 /\ t.path \subseteq PlacesOf(bs)
      /\ Len(bs2) = Len(bs)
      /\ \A n \in 1 .. Len(bs) : BlockKept(bs[n], bs2[n]) /\ (n # Len(bs) => bs2[n] = bs[n])
      /\ bs2[Len(bs)].ends => bs[Len(bs)].ends \/ t.op \in Returning

OpenStep(pr, bs, pr2, bs2) ==
  LET t == pr2[Len(pr) + 1]
      b == bs2[Len(bs) + 1]
  IN  /\ Grows(pr, pr2) /\ t.op \in Openers /\ t.head = 0 /\ t.path \subseteq PlacesOf(bs)
      /\ Grows(bs, bs2)
      /\ b.op = t.op /\ b.place = Len(pr) + 1 /\ b.head = Len(pr) + 1 /\ ~b.ends

NextStep(pr, bs, pr2, bs2) ==
  LET t == pr2[Len(pr) + 1]
      i == bs[Len(bs)]
      b == bs2[Len(bs)]
  IN  /\ Grows(pr, pr2) /\ t.op \in {"else", "case"} /\ t.head = i.head
      /\ t.path \subseteq PlacesOf(bs)
      /\ Len(bs) > 1 /\ Len(bs2) = Len(bs)
      /\ \A n \in 1 .. Len(bs) : n # Len(bs) => bs2[n] = bs[n]
      /\ b.op = t.op /\ b.place = Len(pr) + 1 /\ b.head = i.head /\ ~b.ends
      /\ b.op = "else" => i.op = "if" /\ b.first = i.ends

EndStep(pr, bs, pr2, bs2) ==
  LET t == pr2[Len(pr) + 1]
      i == bs[Len(bs)]
      l == Len(bs2)
  IN  /\ Grows(pr, pr2) /\ t.op = "end" /\ t.head = i.head /\ t.path \subseteq PlacesOf(bs)
      /\ Len(bs) = l + 1 /\ l >= 1
      /\ \A n \in 1 .. l : BlockKept(bs[n], bs2[n]) /\ (n # l => bs2[n] = bs[n])
      /\ bs2[l].ends => bs[l].ends \/ (i.op = "else" /\ i.ends /\ i.first)

(* What holds of the blocks and heads before a step.                       *)
LEMMA HeadFacts ==
  ASSUME NEW pr, NEW bs, NEW es, NEW f, Shape(pr, bs, es, f), Heads(pr, bs)
  PROVE  /\ Len(pr) \in Nat /\ Len(bs) \in Nat /\ Len(bs) >= 1
         /\ \A n \in 2 .. Len(bs) :
              /\ n \in 1 .. Len(bs) /\ n - 1 \in 1 .. Len(bs)
              /\ bs[n].place \in 1 .. Len(pr) /\ bs[n].head \in 1 .. Len(pr)
              /\ bs[n].head <= bs[n].place /\ pr[bs[n].head].op \in Openers
         /\ \A m, n \in 2 .. Len(bs) : bs[m].head = bs[n].head => m = n
         /\ \A k \in 1 .. Len(pr) :
              pr[k].op \in Enders => pr[k].head \in 1 .. Len(pr) /\ pr[k].head < k
<1>1. Len(pr) \in Nat /\ Len(bs) \in Nat /\ Len(bs) >= 1
  BY ShapeFacts
<1>2. ASSUME NEW n \in 2 .. Len(bs)
      PROVE  /\ n \in 1 .. Len(bs) /\ n - 1 \in 1 .. Len(bs)
             /\ bs[n].place \in 1 .. Len(pr) /\ bs[n].head \in 1 .. Len(pr)
             /\ bs[n].head <= bs[n].place /\ pr[bs[n].head].op \in Openers
  <2>1. bs[n].place \in 1 .. Len(pr)
    BY PlacesInText DEF Shape
  <2>2. bs[n].head \in 1 .. bs[n].place
    BY DEF Heads, BlockHead
  <2>3. pr[bs[n].head].op \in Openers
    BY DEF Shape, Nest
  <2> QED
    BY <1>1, <2>1, <2>2, <2>3
<1>3. ASSUME NEW m \in 2 .. Len(bs), NEW n \in 2 .. Len(bs), bs[m].head = bs[n].head
      PROVE  m = n
  <2>1. m \in 1 .. Len(bs) /\ n \in 1 .. Len(bs)
    BY <1>2
  <2>2. /\ m < n => bs[m].place < bs[n].head
        /\ n < m => bs[n].place < bs[m].head
    BY <2>1 DEF Heads
  <2>3. /\ bs[m].place \in 1 .. Len(pr) /\ bs[m].head <= bs[m].place /\ bs[m].head \in 1 .. Len(pr)
        /\ bs[n].place \in 1 .. Len(pr) /\ bs[n].head <= bs[n].place /\ bs[n].head \in 1 .. Len(pr)
    BY <1>2
  <2>4. ~(m < n) /\ ~(n < m)
    BY <1>1, <1>3, <2>2, <2>3
  <2> QED
    BY <1>1, <2>1, <2>4
<1>4. ASSUME NEW k \in 1 .. Len(pr), pr[k].op \in Enders
      PROVE  pr[k].head \in 1 .. Len(pr) /\ pr[k].head < k
  <2>1. pr[k].head \in 1 .. k - 1
    BY <1>4 DEF Shape, Text, TokenOK
  <2> QED
    BY <1>1, <2>1
<1> QED
  BY <1>1, <1>2, <1>3, <1>4

LEMMA SimpleHeads ==
  ASSUME NEW pr, NEW bs, NEW es, NEW pr2, NEW bs2, NEW f,
         Shape(pr, bs, es, f), Heads(pr, bs), SimpleStep(pr, bs, pr2, bs2)
  PROVE  Heads(pr2, bs2)
<1> DEFINE N == Len(pr) + 1
<1>1. /\ Len(pr2) = N /\ Len(pr) \in Nat /\ Len(bs2) = Len(bs)
      /\ \A k \in 1 .. Len(pr) : k \in 1 .. Len(pr2) /\ pr2[k] = pr[k]
      /\ \A k \in 1 .. Len(pr2) : k \in 1 .. Len(pr) \/ k = N
      /\ pr2[N].head = 0 /\ pr2[N].op \notin Enders /\ pr2[N].op \notin Openers
  BY HeadFacts DEF SimpleStep, Grows, Simple, Enders, Openers
<1>2. \A n \in 1 .. Len(bs) :
        bs2[n].op = bs[n].op /\ bs2[n].place = bs[n].place /\ bs2[n].head = bs[n].head
  BY DEF SimpleStep, BlockKept
<1>3. ASSUME NEW n \in 2 .. Len(bs2)
      PROVE  BlockHead(pr2, bs2, n)
  <2>1. /\ n \in 1 .. Len(bs) /\ BlockHead(pr, bs, n)
        /\ pr2[bs[n].place] = pr[bs[n].place] /\ pr2[bs[n].head] = pr[bs[n].head]
        /\ bs[n].head # 0
    <3>1. n \in 2 .. Len(bs)
      BY <1>1
    <3>2. n \in 1 .. Len(bs) /\ bs[n].place \in 1 .. Len(pr) /\ bs[n].head \in 1 .. Len(pr)
      BY <3>1, HeadFacts
    <3>3. BlockHead(pr, bs, n)
      BY <3>1 DEF Heads
    <3>4. bs[n].head # 0
      BY <3>2
    <3> QED
      BY <1>1, <3>2, <3>3, <3>4
  <2> QED
    BY <1>1, <1>2, <2>1 DEF BlockHead
<1>4. \A m, n \in 1 .. Len(bs2) : m < n => bs2[m].place < bs2[n].head
  BY <1>1, <1>2 DEF Heads
<1>5. ASSUME NEW y \in 1 .. Len(pr2), pr2[y].op = "end"
      PROVE  LastPart(pr2, y) /\ \A n \in 2 .. Len(bs2) : bs2[n].head # pr2[y].head
  <2>1. y \in 1 .. Len(pr) /\ pr2[y] = pr[y]
    BY <1>1, <1>5 DEF Enders
  <2>2. pr[y].head # 0
    BY <1>5, <2>1, HeadFacts DEF Enders
  <2>3. LastPart(pr, y) /\ \A n \in 2 .. Len(bs) : bs[n].head # pr[y].head
    BY <1>5, <2>1 DEF Heads
  <2>4. \A n \in 2 .. Len(bs2) : bs2[n].head # pr2[y].head
    BY <1>1, <1>2, <2>1, <2>3, HeadFacts
  <2> QED
    BY <1>1, <1>5, <2>1, <2>2, <2>3, <2>4 DEF LastPart
<1>6. ASSUME NEW k \in 1 .. Len(pr2), pr2[k].op \in Openers
      PROVE  \/ \E n \in 2 .. Len(bs2) : bs2[n].head = k
             \/ \E y \in 1 .. Len(pr2) : pr2[y].op = "end" /\ pr2[y].head = k
  <2>1. k \in 1 .. Len(pr) /\ pr2[k] = pr[k]
    BY <1>1, <1>6
  <2>2. CASE \E n \in 2 .. Len(bs) : bs[n].head = k
    BY <1>1, <1>2, <2>2, HeadFacts
  <2>3. CASE \E y \in 1 .. Len(pr) : pr[y].op = "end" /\ pr[y].head = k
    BY <1>1, <2>3
  <2> QED
    BY <1>6, <2>1, <2>2, <2>3 DEF Heads
<1>7. \A k \in 1 .. Len(pr2) : pr2[k].op \notin Enders => pr2[k].head = 0
  BY <1>1 DEF Heads
<1> QED
  BY <1>3, <1>4, <1>5, <1>6, <1>7 DEF Heads

LEMMA OpenHeads ==
  ASSUME NEW pr, NEW bs, NEW es, NEW pr2, NEW bs2, NEW f,
         Shape(pr, bs, es, f), Heads(pr, bs), OpenStep(pr, bs, pr2, bs2)
  PROVE  Heads(pr2, bs2)
<1> DEFINE N == Len(pr) + 1
           M == Len(bs) + 1
<1>1. /\ Len(pr2) = N /\ Len(pr) \in Nat /\ Len(bs2) = M /\ Len(bs) \in Nat /\ Len(bs) >= 1
      /\ \A k \in 1 .. Len(pr) : k \in 1 .. Len(pr2) /\ pr2[k] = pr[k]
      /\ \A k \in 1 .. Len(pr2) : k \in 1 .. Len(pr) \/ k = N
      /\ \A n \in 1 .. Len(bs) : n \in 1 .. Len(bs2) /\ bs2[n] = bs[n]
      /\ \A n \in 1 .. Len(bs2) : n \in 1 .. Len(bs) \/ n = M
      /\ pr2[N].head = 0 /\ pr2[N].op \notin Enders /\ pr2[N].op \in Openers
  BY HeadFacts DEF OpenStep, Grows, Enders, Openers
<1>2. bs2[M].op = pr2[N].op /\ bs2[M].place = N /\ bs2[M].head = N
  BY <1>1 DEF OpenStep
<1>3. \A x \in 1 .. Len(pr) : pr[x].head < N
  <2> SUFFICES ASSUME NEW x \in 1 .. Len(pr)
               PROVE  pr[x].head < N
    OBVIOUS
  <2>1. CASE pr[x].op \in Enders
    BY <2>1, <1>1, HeadFacts
  <2>2. CASE pr[x].op \notin Enders
    BY <2>2, <1>1 DEF Heads
  <2> QED
    BY <2>1, <2>2
<1>4. ASSUME NEW n \in 2 .. Len(bs2)
      PROVE  BlockHead(pr2, bs2, n)
  <2>1. CASE n \in 1 .. Len(bs)
    <3>0. n \in 2 .. Len(bs)
      BY <1>1, <2>1
    <3>1. /\ BlockHead(pr, bs, n)
          /\ pr2[bs[n].place] = pr[bs[n].place] /\ pr2[bs[n].head] = pr[bs[n].head]
          /\ bs[n].head # 0
      <4>1. bs[n].place \in 1 .. Len(pr) /\ bs[n].head \in 1 .. Len(pr)
        BY <3>0, HeadFacts
      <4>2. BlockHead(pr, bs, n)
        BY <3>0 DEF Heads
      <4>3. bs[n].head # 0
        BY <4>1
      <4> QED
        BY <1>1, <4>1, <4>2, <4>3
    <3> QED
      BY <1>1, <2>1, <3>1 DEF BlockHead
  <2>2. CASE n = M
    <3>1. \A x \in 1 .. Len(pr2) : pr2[x].head # N
      BY <1>1, <1>3
    <3>2. bs2[M].op # "else"
      BY <1>1, <1>2 DEF Openers
    <3> QED
      BY <1>1, <1>2, <2>2, <3>1, <3>2 DEF BlockHead
  <2> QED
    BY <1>1, <2>1, <2>2
<1>5. ASSUME NEW m \in 1 .. Len(bs2), NEW n \in 1 .. Len(bs2), m < n
      PROVE  bs2[m].place < bs2[n].head
  <2>1. m \in 1 .. Len(bs)
    BY <1>1, <1>5
  <2>2. CASE n \in 1 .. Len(bs)
    BY <1>1, <1>5, <2>1, <2>2 DEF Heads
  <2>3. CASE n = M
    <3>1. bs[m].place <= Len(pr) /\ bs[m].place \in Nat
      BY <2>1, ShapeFacts DEF Shape, Nest
    <3> QED
      BY <1>1, <1>2, <2>1, <2>3, <3>1
  <2> QED
    BY <1>1, <2>2, <2>3
<1>6. ASSUME NEW y \in 1 .. Len(pr2), pr2[y].op = "end"
      PROVE  LastPart(pr2, y) /\ \A n \in 2 .. Len(bs2) : bs2[n].head # pr2[y].head
  <2>1. y \in 1 .. Len(pr) /\ pr2[y] = pr[y]
    BY <1>1, <1>6 DEF Enders
  <2>2. pr[y].head # 0
    BY <1>6, <2>1, HeadFacts DEF Enders
  <2>3. LastPart(pr, y) /\ \A n \in 2 .. Len(bs) : bs[n].head # pr[y].head
    BY <1>6, <2>1 DEF Heads
  <2>4. ASSUME NEW n \in 2 .. Len(bs2)
        PROVE  bs2[n].head # pr2[y].head
    <3>1. CASE n \in 1 .. Len(bs)
      <4>1. n \in 2 .. Len(bs)
        BY <3>1, <1>1
      <4> QED
        BY <1>1, <2>1, <2>3, <3>1, <4>1
    <3>2. CASE n = M
      BY <1>1, <1>2, <1>3, <2>1, <3>2
    <3> QED
      BY <1>1, <3>1, <3>2
  <2> QED
    BY <1>1, <1>6, <2>1, <2>2, <2>3, <2>4 DEF LastPart
<1>7. ASSUME NEW k \in 1 .. Len(pr2), pr2[k].op \in Openers
      PROVE  \/ \E n \in 2 .. Len(bs2) : bs2[n].head = k
             \/ \E y \in 1 .. Len(pr2) : pr2[y].op = "end" /\ pr2[y].head = k
  <2>1. CASE k = N
    BY <1>1, <1>2, <2>1
  <2>2. CASE k \in 1 .. Len(pr)
    <3>1. CASE \E n \in 2 .. Len(bs) : bs[n].head = k
      <4>1. PICK n \in 2 .. Len(bs) : bs[n].head = k
        BY <3>1
      <4>2. n \in 2 .. Len(bs2) /\ bs2[n] = bs[n]
        BY <1>1
      <4> QED
        BY <4>1, <4>2
    <3>2. CASE \E y \in 1 .. Len(pr) : pr[y].op = "end" /\ pr[y].head = k
      BY <1>1, <3>2
    <3> QED
      BY <1>1, <1>7, <2>2, <3>1, <3>2 DEF Heads
  <2> QED
    BY <1>1, <2>1, <2>2
<1>8. \A k \in 1 .. Len(pr2) : pr2[k].op \notin Enders => pr2[k].head = 0
  BY <1>1 DEF Heads
<1> QED
  BY <1>4, <1>5, <1>6, <1>7, <1>8 DEF Heads

LEMMA NextHeads ==
  ASSUME NEW pr, NEW bs, NEW es, NEW pr2, NEW bs2, NEW f,
         Shape(pr, bs, es, f), Heads(pr, bs), NextStep(pr, bs, pr2, bs2)
  PROVE  Heads(pr2, bs2)
<1> DEFINE N == Len(pr) + 1
           L == Len(bs)
           h == bs[L].head
<1>1. /\ Len(pr2) = N /\ Len(pr) \in Nat /\ Len(bs2) = L /\ L \in Nat /\ L >= 2
      /\ \A k \in 1 .. Len(pr) : k \in 1 .. Len(pr2) /\ pr2[k] = pr[k]
      /\ \A k \in 1 .. Len(pr2) : k \in 1 .. Len(pr) \/ k = N
      /\ \A n \in 1 .. L : n # L => bs2[n] = bs[n]
      /\ pr2[N].head = h /\ pr2[N].op \in Enders /\ pr2[N].op \notin Openers /\ pr2[N].op # "end"
      /\ pr2[N].op \in {"else", "case"}
  <2>1. /\ Grows(pr, pr2) /\ pr2[N].op \in {"else", "case"} /\ pr2[N].head = h
        /\ L > 1 /\ Len(bs2) = L /\ \A n \in 1 .. L : n # L => bs2[n] = bs[n]
    BY DEF NextStep
  <2>2. Len(pr) \in Nat /\ L \in Nat
    BY HeadFacts
  <2>3. pr2[N].op \in Enders /\ pr2[N].op \notin Openers /\ pr2[N].op # "end"
    BY <2>1 DEF Enders, Openers
  <2> QED
    BY <2>1, <2>2, <2>3 DEF Grows
<1>2. /\ bs2[L].op = pr2[N].op /\ bs2[L].place = N /\ bs2[L].head = h
      /\ pr2[N].op = "else" => bs[L].op = "if"
  BY DEF NextStep
<1>3. L \in 2 .. L /\ L \in 1 .. L /\ h \in 1 .. Len(pr)
  BY <1>1, HeadFacts
<1>4. ASSUME NEW n \in 2 .. L, n # L
      PROVE  bs[n].head # h
  BY <1>3, <1>4, HeadFacts
<1>5. ASSUME NEW n \in 2 .. Len(bs2)
      PROVE  BlockHead(pr2, bs2, n)
  <2>1. CASE n # L
    <3>1. n \in 2 .. L /\ n \in 1 .. L /\ bs2[n] = bs[n]
      BY <1>1, <2>1
    <3>2. /\ BlockHead(pr, bs, n)
          /\ pr2[bs[n].place] = pr[bs[n].place] /\ pr2[bs[n].head] = pr[bs[n].head]
          /\ bs[n].head # h
      BY <1>1, <1>4, <2>1, <3>1, HeadFacts DEF Heads
    <3> QED
      BY <1>1, <3>1, <3>2 DEF BlockHead
  <2>2. CASE n = L
    <3>1. BlockHead(pr, bs, L)
      BY <1>3 DEF Heads
    <3>2. h \in 1 .. N
      BY <1>1, <1>3
    <3>3. ASSUME pr2[N].op = "else"
          PROVE  /\ pr2[h].op = "if"
                 /\ \A x \in 1 .. Len(pr2) : pr2[x].head = h => x = N
      <4>1. bs[L].op = "if" /\ bs[L].op \in Openers
        BY <1>2, <3>3 DEF Openers
      <4>2. bs[L].place = h /\ \A x \in 1 .. Len(pr) : pr[x].head # h
        BY <3>1, <4>1 DEF BlockHead
      <4>3. pr[bs[L].place].op = "if"
        BY <1>3, <4>1 DEF Shape, Nest
      <4> QED
        BY <1>1, <1>3, <4>2, <4>3
    <3> QED
      BY <1>1, <1>2, <2>2, <3>2, <3>3 DEF BlockHead
  <2> QED
    BY <2>1, <2>2
<1>6. ASSUME NEW m \in 1 .. Len(bs2), NEW n \in 1 .. Len(bs2), m < n
      PROVE  bs2[m].place < bs2[n].head
  <2>1. bs[m].place < bs[n].head
    BY <1>1, <1>6 DEF Heads
  <2>2. m # L /\ bs2[m] = bs[m] /\ bs2[n].head = bs[n].head
    BY <1>1, <1>2, <1>6
  <2> QED
    BY <2>1, <2>2
<1>7. ASSUME NEW y \in 1 .. Len(pr2), pr2[y].op = "end"
      PROVE  LastPart(pr2, y) /\ \A n \in 2 .. Len(bs2) : bs2[n].head # pr2[y].head
  <2>1. y \in 1 .. Len(pr) /\ pr2[y] = pr[y]
    BY <1>1, <1>7
  <2>2. LastPart(pr, y) /\ \A n \in 2 .. L : bs[n].head # pr[y].head
    BY <1>7, <2>1 DEF Heads
  <2>3. pr[y].head # h
    BY <1>3, <2>2
  <2>4. \A n \in 2 .. Len(bs2) : bs2[n].head = bs[n].head
    BY <1>1, <1>2
  <2> QED
    BY <1>1, <1>7, <2>1, <2>2, <2>3, <2>4 DEF LastPart
<1>8. ASSUME NEW k \in 1 .. Len(pr2), pr2[k].op \in Openers
      PROVE  \/ \E n \in 2 .. Len(bs2) : bs2[n].head = k
             \/ \E y \in 1 .. Len(pr2) : pr2[y].op = "end" /\ pr2[y].head = k
  <2>1. k \in 1 .. Len(pr) /\ pr2[k] = pr[k]
    BY <1>1, <1>8
  <2>2. CASE \E n \in 2 .. Len(bs) : bs[n].head = k
    <3>1. PICK n \in 2 .. L : bs[n].head = k
      BY <2>2
    <3>2. n \in 1 .. L /\ n \in 2 .. Len(bs2)
      BY <1>1
    <3>3. bs2[n].head = k
      BY <1>1, <1>2, <3>1, <3>2
    <3> QED
      BY <3>2, <3>3
  <2>3. CASE \E y \in 1 .. Len(pr) : pr[y].op = "end" /\ pr[y].head = k
    BY <1>1, <2>3
  <2> QED
    BY <1>8, <2>1, <2>2, <2>3 DEF Heads
<1>9. \A k \in 1 .. Len(pr2) : pr2[k].op \notin Enders => pr2[k].head = 0
  BY <1>1 DEF Heads
<1> QED
  BY <1>5, <1>6, <1>7, <1>8, <1>9 DEF Heads

LEMMA EndHeads ==
  ASSUME NEW pr, NEW bs, NEW es, NEW pr2, NEW bs2, NEW f,
         Shape(pr, bs, es, f), Heads(pr, bs), EndStep(pr, bs, pr2, bs2)
  PROVE  Heads(pr2, bs2)
<1> DEFINE N == Len(pr) + 1
           L == Len(bs)
           h == bs[L].head
<1>1. /\ Len(pr2) = N /\ Len(pr) \in Nat /\ Len(bs2) = L - 1 /\ L \in Nat /\ L >= 2
      /\ \A k \in 1 .. Len(pr) : k \in 1 .. Len(pr2) /\ pr2[k] = pr[k]
      /\ \A k \in 1 .. Len(pr2) : k \in 1 .. Len(pr) \/ k = N
      /\ pr2[N].head = h /\ pr2[N].op \in Enders /\ pr2[N].op \notin Openers /\ pr2[N].op = "end"
  <2>1. Len(bs) = Len(bs2) + 1 /\ Len(bs2) >= 1 /\ pr2[N].op = "end" /\ pr2[N].head = h
        /\ Grows(pr, pr2)
    BY DEF EndStep
  <2>2. Len(bs2) = L - 1
    BY <2>1, LenProperties, HeadFacts DEF EndStep
  <2> QED
    BY <2>1, <2>2, HeadFacts DEF Grows, Enders, Openers
<1>2. \A n \in 1 .. L - 1 :
        /\ n \in 1 .. L /\ n # L
        /\ bs2[n].op = bs[n].op /\ bs2[n].place = bs[n].place /\ bs2[n].head = bs[n].head
  <2>1. \A n \in 1 .. Len(bs2) : BlockKept(bs[n], bs2[n])
    BY DEF EndStep
  <2> QED
    BY <1>1, <2>1 DEF BlockKept
<1>3. L \in 2 .. L /\ L \in 1 .. L /\ h \in 1 .. Len(pr)
  BY <1>1, HeadFacts
<1>4. ASSUME NEW n \in 2 .. L, n # L
      PROVE  bs[n].head # h
  BY <1>3, <1>4, HeadFacts
<1>5. ASSUME NEW n \in 2 .. Len(bs2)
      PROVE  BlockHead(pr2, bs2, n)
  <2>1. n \in 2 .. L /\ n \in 1 .. L - 1 /\ n # L
    BY <1>1
  <2>2. /\ BlockHead(pr, bs, n)
        /\ pr2[bs[n].place] = pr[bs[n].place] /\ pr2[bs[n].head] = pr[bs[n].head]
        /\ bs[n].head # h
    BY <1>1, <1>4, <2>1, HeadFacts DEF Heads
  <2> QED
    BY <1>1, <1>2, <2>1, <2>2 DEF BlockHead
<1>6. \A m, n \in 1 .. Len(bs2) : m < n => bs2[m].place < bs2[n].head
  BY <1>1, <1>2 DEF Heads
<1>7. ASSUME NEW y \in 1 .. Len(pr2), pr2[y].op = "end"
      PROVE  LastPart(pr2, y) /\ \A n \in 2 .. Len(bs2) : bs2[n].head # pr2[y].head
  <2>1. CASE y = N
    <3>1. LastPart(pr2, y)
      BY <1>1, <2>1 DEF LastPart
    <3>2. ASSUME NEW n \in 2 .. Len(bs2)
          PROVE  bs2[n].head # h
      BY <1>1, <1>2, <1>4
    <3> QED
      BY <1>1, <2>1, <3>1, <3>2
  <2>2. CASE y \in 1 .. Len(pr)
    <3>1. pr2[y] = pr[y]
      BY <1>1, <2>2
    <3>2. LastPart(pr, y) /\ \A n \in 2 .. L : bs[n].head # pr[y].head
      BY <1>7, <2>2, <3>1 DEF Heads
    <3>3. pr[y].head # h
      BY <1>3, <3>2
    <3>4. \A n \in 2 .. Len(bs2) : n \in 2 .. L /\ bs2[n].head = bs[n].head
      BY <1>1, <1>2
    <3> QED
      BY <1>1, <1>7, <2>2, <3>1, <3>2, <3>3, <3>4 DEF LastPart
  <2> QED
    BY <1>1, <2>1, <2>2
<1>8. ASSUME NEW k \in 1 .. Len(pr2), pr2[k].op \in Openers
      PROVE  \/ \E n \in 2 .. Len(bs2) : bs2[n].head = k
             \/ \E y \in 1 .. Len(pr2) : pr2[y].op = "end" /\ pr2[y].head = k
  <2>1. k \in 1 .. Len(pr) /\ pr2[k] = pr[k]
    BY <1>1, <1>8
  <2>2. CASE \E n \in 2 .. Len(bs) : bs[n].head = k
    <3>1. PICK n \in 2 .. L : bs[n].head = k
      BY <2>2
    <3>2. CASE n = L
      <4>1. N \in 1 .. Len(pr2)
        BY <1>1
      <4> QED
        BY <1>1, <3>1, <3>2, <4>1
    <3>3. CASE n # L
      <4>1. n \in 1 .. L - 1 /\ n \in 2 .. Len(bs2)
        BY <1>1, <3>3
      <4> QED
        BY <1>2, <3>1, <4>1
    <3> QED
      BY <3>2, <3>3
  <2>3. CASE \E y \in 1 .. Len(pr) : pr[y].op = "end" /\ pr[y].head = k
    BY <1>1, <2>3
  <2> QED
    BY <1>8, <2>1, <2>2, <2>3 DEF Heads
<1>9. \A k \in 1 .. Len(pr2) : pr2[k].op \notin Enders => pr2[k].head = 0
  BY <1>1 DEF Heads
<1> QED
  BY <1>5, <1>6, <1>7, <1>8, <1>9 DEF Heads

-----------------------------------------------------------------------------
(* Where control can go.  U is a set of places that execution never comes  *)
(* to: one after a return, up to the end of the block that ends with it.   *)

Ended(bs, n) == \E m \in 1 .. n : bs[m].ends

BlockFlow(bs, U, n) ==
  /\ bs[n].head \in U <=> Ended(bs, n - 1)
  /\ bs[n].op = "else" /\ bs[n].first => bs[n].place \in U

FlowAt(pr, U, q) ==
  /\ q \notin U /\ pr[q].op \in (Simple \ Returning) \cup Openers => q + 1 \notin U
  /\ q \notin U /\ pr[q].op \in Enders => pr[q].head \notin U
  /\ q \notin U => \A p \in pr[q].path \ {0} : pr[p].op \in Loops => p \notin U
  /\ pr[q].op \in Enders /\ pr[q].head \notin U =>
       \/ q + 1 \notin U
       \/ pr[pr[q].head].op = "if" /\ \E x \in 1 .. q - 1 : pr[x].head = pr[q].head

Joins(pr, U, x, y) ==
  pr[x].op \in Enders /\ pr[y].op = "end" /\ pr[x].head = pr[y].head /\ x \notin U =>
    y + 1 \notin U

Flow(pr, bs, U) ==
  /\ U \subseteq 2 .. Len(pr) + 1
  /\ Len(pr) + 1 \in U <=> Ended(bs, Len(bs))
  /\ \A n \in 2 .. Len(bs) : BlockFlow(bs, U, n)
  /\ \A q \in 1 .. Len(pr) : FlowAt(pr, U, q)
  /\ \A x, y \in 1 .. Len(pr) : Joins(pr, U, x, y)

Beyond(pr2, bs2, U) == U \cup {k \in {Len(pr2) + 1} : Ended(bs2, Len(bs2))}

LEMMA EndedIn ==
  ASSUME NEW bs, NEW n \in Nat, NEW m \in Nat, m <= n, Ended(bs, m)
  PROVE  Ended(bs, n)
BY DEF Ended

(* A statement is reached only in loops that are.                          *)
LEMMA LoopsReached ==
  ASSUME NEW pr, NEW bs, NEW es, NEW f, NEW U,
         Shape(pr, bs, es, f), Heads(pr, bs), Flow(pr, bs, U),
         Len(pr) + 1 \notin U, NEW p \in PlacesOf(bs) \ {0}, pr[p].op \in Loops
  PROVE  p \notin U
<1>1. PICK n \in 1 .. Len(bs) : bs[n].place = p
  BY DEF PlacesOf
<1>2. n \in 2 .. Len(bs)
  BY <1>1, HeadFacts DEF Shape, Nest
<1>3. pr[p].op = bs[n].op
  BY <1>1, <1>2 DEF Shape, Nest
<1>4. bs[n].head = p
  BY <1>1, <1>2, <1>3 DEF Heads, BlockHead, Loops, Openers
<1>5. ~Ended(bs, n - 1)
  <2>1. ~Ended(bs, Len(bs))
    BY DEF Flow
  <2>2. n - 1 \in Nat /\ n - 1 <= Len(bs) /\ Len(bs) \in Nat
    BY <1>2, HeadFacts
  <2> QED
    BY <2>1, <2>2, EndedIn
<1> QED
  BY <1>2, <1>4, <1>5 DEF Flow, BlockFlow

(* The text that was there flows as before, and the new statement is not   *)
(* one that another was waiting for.                                       *)
LEMMA FlowGrows ==
  ASSUME NEW pr, NEW bs, NEW es, NEW pr2, NEW bs2, NEW f, NEW U,
         Shape(pr, bs, es, f), Heads(pr, bs), Heads(pr2, bs2), Flow(pr, bs, U), Grows(pr, pr2),
         \A n \in 2 .. Len(bs2) : BlockFlow(bs2, Beyond(pr2, bs2, U), n),
         FlowAt(pr2, Beyond(pr2, bs2, U), Len(pr) + 1),
         pr2[Len(pr) + 1].op \in Enders => pr2[Len(pr) + 1].head = bs[Len(bs)].head /\ Len(bs) > 1,
         pr2[Len(pr) + 1].op = "end" =>
           \A x \in 1 .. Len(pr2) : Joins(pr2, Beyond(pr2, bs2, U), x, Len(pr) + 1)
  PROVE  Flow(pr2, bs2, Beyond(pr2, bs2, U))
<1> DEFINE N == Len(pr) + 1
           V == Beyond(pr2, bs2, U)
<1>1. /\ Len(pr) \in Nat /\ Len(pr2) = N
      /\ \A k \in 1 .. Len(pr) : k \in 1 .. Len(pr2) /\ pr2[k] = pr[k]
      /\ \A k \in 1 .. Len(pr2) : k \in 1 .. Len(pr) \/ k = N
  BY HeadFacts DEF Grows
<1>2. U \subseteq 2 .. N
  BY DEF Flow
<1>3. /\ V \subseteq 2 .. N + 1
      /\ \A k \in 0 .. N : k \in V <=> k \in U
      /\ N + 1 \in V <=> Ended(bs2, Len(bs2))
  BY <1>1, <1>2 DEF Beyond
<1>4. ASSUME NEW q \in 1 .. Len(pr)
      PROVE  FlowAt(pr2, V, q)
  <2>1. FlowAt(pr, U, q) /\ pr2[q] = pr[q]
    BY <1>1 DEF Flow
  <2>2. (q \in V <=> q \in U) /\ (q + 1 \in V <=> q + 1 \in U)
    BY <1>1, <1>3
  <2>3. ASSUME NEW p \in pr[q].path \ {0}
        PROVE  pr2[p] = pr[p] /\ (p \in V <=> p \in U)
    <3>1. p \in 1 .. Len(pr)
      BY ShapeFacts
    <3> QED
      BY <3>1, <1>1, <1>3
  <2>4. ASSUME pr[q].op \in Enders
        PROVE  /\ pr[q].head \in V <=> pr[q].head \in U
               /\ pr2[pr[q].head] = pr[pr[q].head]
    <3>1. pr[q].head \in 1 .. Len(pr)
      BY <2>4, HeadFacts
    <3> QED
      BY <3>1, <1>1, <1>3
  <2>5. \A x \in 1 .. q - 1 : pr2[x] = pr[x]
    BY <1>1
  <2>6. q \notin V /\ pr2[q].op \in (Simple \ Returning) \cup Openers => q + 1 \notin V
    BY <2>1, <2>2 DEF FlowAt
  <2>7. q \notin V /\ pr2[q].op \in Enders => pr2[q].head \notin V
    BY <2>1, <2>2, <2>4 DEF FlowAt
  <2>8. q \notin V => \A p \in pr2[q].path \ {0} : pr2[p].op \in Loops => p \notin V
    BY <2>1, <2>2, <2>3 DEF FlowAt
  <2>9. pr2[q].op \in Enders /\ pr2[q].head \notin V =>
          \/ q + 1 \notin V
          \/ pr2[pr2[q].head].op = "if" /\ \E x \in 1 .. q - 1 : pr2[x].head = pr2[q].head
    BY <2>1, <2>2, <2>4, <2>5 DEF FlowAt
  <2> QED
    BY <2>6, <2>7, <2>8, <2>9 DEF FlowAt
<1>5. ASSUME NEW x \in 1 .. Len(pr2), NEW y \in 1 .. Len(pr2)
      PROVE  Joins(pr2, V, x, y)
  <2>1. CASE y = N
    BY <2>1 DEF Joins
  <2>2. CASE x \in 1 .. Len(pr) /\ y \in 1 .. Len(pr)
    <3>1. Joins(pr, U, x, y) /\ pr2[x] = pr[x] /\ pr2[y] = pr[y]
      BY <1>1, <2>2 DEF Flow
    <3>2. (x \in V <=> x \in U) /\ (y + 1 \in V <=> y + 1 \in U)
      BY <1>1, <1>3, <2>2
    <3> QED
      BY <3>1, <3>2 DEF Joins
  <2>3. CASE x = N /\ y \in 1 .. Len(pr)
    <3> SUFFICES ASSUME pr2[N].op \in Enders, pr2[y].op = "end", pr2[N].head = pr2[y].head
                 PROVE  FALSE
      BY <2>3 DEF Joins
    <3>1. pr2[y] = pr[y] /\ Len(bs) \in 2 .. Len(bs)
      BY <1>1, <2>3, HeadFacts
    <3>2. bs[Len(bs)].head # pr[y].head
      BY <2>3, <3>1 DEF Heads
    <3> QED
      BY <3>1, <3>2
  <2> QED
    BY <1>1, <2>1, <2>2, <2>3
<1>6. \A q \in 1 .. Len(pr2) : FlowAt(pr2, V, q)
  BY <1>1, <1>4
<1>7. V \subseteq 2 .. Len(pr2) + 1 /\ (Len(pr2) + 1 \in V <=> Ended(bs2, Len(bs2)))
  BY <1>1, <1>3
<1> QED
  BY <1>5, <1>6, <1>7 DEF Flow

LEMMA SimpleFlow ==
  ASSUME NEW pr, NEW bs, NEW es, NEW pr2, NEW bs2, NEW f, NEW U,
         Shape(pr, bs, es, f), Heads(pr, bs), SimpleStep(pr, bs, pr2, bs2), Flow(pr, bs, U)
  PROVE  Flow(pr2, bs2, Beyond(pr2, bs2, U))
<1> DEFINE N == Len(pr) + 1
           V == Beyond(pr2, bs2, U)
           L == Len(bs)
<1>1. /\ Len(pr) \in Nat /\ Len(pr2) = N /\ Len(bs2) = L /\ L \in Nat /\ L >= 1
      /\ pr2[N].op \in Simple /\ pr2[N].op \notin Enders /\ pr2[N].path \subseteq PlacesOf(bs)
      /\ \A k \in 1 .. Len(pr) : pr2[k] = pr[k]
      /\ \A n \in 1 .. L : n # L => bs2[n] = bs[n]
      /\ \A n \in 1 .. L : bs2[n].head = bs[n].head /\ bs2[n].op = bs[n].op
                           /\ bs2[n].first = bs[n].first /\ bs2[n].place = bs[n].place
      /\ bs2[L].ends => bs[L].ends \/ pr2[N].op \in Returning
  BY HeadFacts DEF SimpleStep, Grows, Simple, Enders, BlockKept
<1>2. /\ \A k \in 0 .. N : k \in V <=> k \in U
      /\ N + 1 \in V <=> Ended(bs2, L)
      /\ N \in U <=> Ended(bs, L)
  BY <1>1 DEF Beyond, Flow
<1>3. ASSUME NEW n \in 2 .. L
      PROVE  BlockFlow(bs2, V, n)
  <2>1. BlockFlow(bs, U, n)
    BY DEF Flow
  <2>2. bs[n].head \in 1 .. Len(pr) /\ bs[n].place \in 1 .. Len(pr)
    BY HeadFacts
  <2>3. Ended(bs2, n - 1) <=> Ended(bs, n - 1)
    BY <1>1 DEF Ended
  <2>4. n \in 1 .. L
    BY <1>1
  <2> QED
    BY <1>1, <1>2, <2>1, <2>2, <2>3, <2>4 DEF BlockFlow
<1>4. FlowAt(pr2, V, N)
  <2>1. ASSUME N \notin V, pr2[N].op \notin Returning
        PROVE  N + 1 \notin V
    <3>1. ~Ended(bs, L)
      BY <1>1, <1>2, <2>1
    <3>2. ~Ended(bs2, L)
      BY <1>1, <2>1, <3>1 DEF Ended
    <3> QED
      BY <1>2, <3>2
  <2>2. ASSUME N \notin V, NEW p \in pr2[N].path \ {0}, pr2[p].op \in Loops
        PROVE  p \notin V
    <3>1. p \in PlacesOf(bs) \ {0} /\ N \notin U
      BY <1>1, <1>2, <2>2
    <3>2. p \in 1 .. Len(pr)
      BY <3>1, <1>1, PlacesInText DEF Shape
    <3>3. p \notin U
      BY <1>1, <2>2, <3>1, <3>2, LoopsReached
    <3> QED
      BY <1>1, <1>2, <3>2, <3>3
  <2>3. N \notin V /\ pr2[N].op \in (Simple \ Returning) \cup Openers => N + 1 \notin V
    BY <1>1, <2>1 DEF Openers, Simple, Returning
  <2> QED
    BY <1>1, <2>2, <2>3 DEF FlowAt
<1>5. Heads(pr2, bs2) /\ Grows(pr, pr2) /\ pr2[N].op # "end"
  BY <1>1, SimpleHeads DEF SimpleStep, Enders
<1> QED
  BY <1>1, <1>3, <1>4, <1>5, FlowGrows

LEMMA OpenFlow ==
  ASSUME NEW pr, NEW bs, NEW es, NEW pr2, NEW bs2, NEW f, NEW U,
         Shape(pr, bs, es, f), Heads(pr, bs), OpenStep(pr, bs, pr2, bs2), Flow(pr, bs, U)
  PROVE  Flow(pr2, bs2, Beyond(pr2, bs2, U))
<1> DEFINE N == Len(pr) + 1
           V == Beyond(pr2, bs2, U)
           L == Len(bs)
<1>1. /\ Len(pr) \in Nat /\ Len(pr2) = N /\ Len(bs2) = L + 1 /\ L \in Nat /\ L >= 1
      /\ pr2[N].op \in Openers /\ pr2[N].op \notin Enders /\ pr2[N].path \subseteq PlacesOf(bs)
      /\ \A k \in 1 .. Len(pr) : pr2[k] = pr[k]
      /\ \A n \in 1 .. L : bs2[n] = bs[n]
      /\ bs2[L + 1].head = N /\ bs2[L + 1].op = pr2[N].op /\ ~bs2[L + 1].ends
  BY HeadFacts DEF OpenStep, Grows, Openers, Enders
<1>2. /\ \A k \in 0 .. N : k \in V <=> k \in U
      /\ N + 1 \in V <=> Ended(bs2, L + 1)
      /\ N \in U <=> Ended(bs, L)
  BY <1>1 DEF Beyond, Flow
<1>3. \A n \in 0 .. L : Ended(bs2, n) <=> Ended(bs, n)
  BY <1>1 DEF Ended
<1>4. Ended(bs2, L + 1) <=> Ended(bs, L)
  <2>1. \A m \in 1 .. L + 1 : m \in 1 .. L \/ m = L + 1
    BY <1>1
  <2>2. \A m \in 1 .. L : m \in 1 .. L + 1
    BY <1>1
  <2> QED
    BY <1>1, <2>1, <2>2 DEF Ended
<1>5. ASSUME NEW n \in 2 .. L + 1
      PROVE  BlockFlow(bs2, V, n)
  <2>1. CASE n \in 2 .. L
    <3>1. BlockFlow(bs, U, n)
      BY <2>1 DEF Flow
    <3>2. bs[n].head \in 1 .. Len(pr) /\ bs[n].place \in 1 .. Len(pr)
      BY <2>1, HeadFacts
    <3>3. n \in 1 .. L /\ n - 1 \in 0 .. L
      BY <1>1, <2>1
    <3> QED
      BY <1>1, <1>2, <1>3, <3>1, <3>2, <3>3 DEF BlockFlow
  <2>2. CASE n = L + 1
    <3>1. N \in V <=> Ended(bs2, L)
      BY <1>1, <1>2, <1>3
    <3>2. bs2[L + 1].op # "else" /\ n - 1 = L
      BY <1>1, <2>2 DEF Openers
    <3> QED
      BY <1>1, <2>2, <3>1, <3>2 DEF BlockFlow
  <2> QED
    BY <1>1, <2>1, <2>2
<1>6. FlowAt(pr2, V, N)
  <2>1. N \notin V => N + 1 \notin V
    BY <1>1, <1>2, <1>4
  <2>2. ASSUME N \notin V, NEW p \in pr2[N].path \ {0}, pr2[p].op \in Loops
        PROVE  p \notin V
    <3>1. p \in PlacesOf(bs) \ {0} /\ N \notin U
      BY <1>1, <1>2, <2>2
    <3>2. p \in 1 .. Len(pr)
      BY <3>1, <1>1, PlacesInText DEF Shape
    <3>3. p \notin U
      BY <1>1, <2>2, <3>1, <3>2, LoopsReached
    <3> QED
      BY <1>1, <1>2, <3>2, <3>3
  <2> QED
    BY <1>1, <2>1, <2>2 DEF FlowAt
<1>7. Heads(pr2, bs2) /\ Grows(pr, pr2) /\ pr2[N].op # "end"
  BY <1>1, OpenHeads DEF OpenStep, Enders
<1> QED
  BY <1>1, <1>5, <1>6, <1>7, FlowGrows

LEMMA NextFlow ==
  ASSUME NEW pr, NEW bs, NEW es, NEW pr2, NEW bs2, NEW f, NEW U,
         Shape(pr, bs, es, f), Heads(pr, bs), NextStep(pr, bs, pr2, bs2), Flow(pr, bs, U)
  PROVE  Flow(pr2, bs2, Beyond(pr2, bs2, U))
<1> DEFINE N == Len(pr) + 1
           V == Beyond(pr2, bs2, U)
           L == Len(bs)
           h == bs[L].head
<1>1. /\ Grows(pr, pr2) /\ L > 1 /\ Len(bs2) = L
      /\ pr2[N].op \in {"else", "case"} /\ pr2[N].head = h /\ pr2[N].path \subseteq PlacesOf(bs)
      /\ \A n \in 1 .. L : n # L => bs2[n] = bs[n]
      /\ bs2[L].head = h /\ bs2[L].place = N /\ ~bs2[L].ends
      /\ bs2[L].op = "else" => bs2[L].first = bs[L].ends
  BY DEF NextStep
<1>2. /\ Len(pr) \in Nat /\ Len(pr2) = N /\ L \in Nat /\ L \in 2 .. L /\ L \in 1 .. L
      /\ \A k \in 1 .. Len(pr) : pr2[k] = pr[k]
      /\ h \in 1 .. Len(pr)
  BY <1>1, HeadFacts DEF Grows
<1>3. /\ \A k \in 0 .. N : k \in V <=> k \in U
      /\ N + 1 \in V <=> Ended(bs2, L)
      /\ N \in U <=> Ended(bs, L)
      /\ h \in U <=> Ended(bs, L - 1)
  BY <1>1, <1>2 DEF Beyond, Flow, BlockFlow
<1>4. \A n \in 0 .. L - 1 : Ended(bs2, n) <=> Ended(bs, n)
  <2>1. \A n \in 0 .. L - 1 : \A m \in 1 .. n : m \in 1 .. L /\ m # L
    BY <1>2
  <2>2. \A n \in 0 .. L - 1 : \A m \in 1 .. n : bs2[m] = bs[m]
    BY <1>1, <2>1
  <2> QED
    BY <2>2 DEF Ended
<1>5. /\ Ended(bs2, L) <=> Ended(bs, L - 1)
      /\ Ended(bs, L - 1) => Ended(bs, L)
  <2>1. \A m \in 1 .. L : m \in 1 .. L - 1 \/ m = L
    BY <1>2
  <2>2. \A m \in 1 .. L - 1 : m \in 1 .. L /\ m # L
    BY <1>2
  <2> QED
    BY <1>1, <2>1, <2>2 DEF Ended
<1>6. ASSUME NEW n \in 2 .. L
      PROVE  BlockFlow(bs2, V, n)
  <2>1. n - 1 \in 0 .. L - 1
    BY <1>2
  <2>2. CASE n # L
    <3>1. BlockFlow(bs, U, n) /\ n \in 1 .. L
      BY <1>2 DEF Flow
    <3>2. bs[n].head \in 1 .. Len(pr) /\ bs[n].place \in 1 .. Len(pr)
      BY HeadFacts
    <3> QED
      BY <1>1, <1>2, <1>3, <1>4, <2>1, <2>2, <3>1, <3>2 DEF BlockFlow
  <2>3. CASE n = L
    <3>1. h \in V <=> Ended(bs2, L - 1)
      BY <1>2, <1>3, <1>4, <2>1, <2>3
    <3>2. bs2[L].op = "else" /\ bs2[L].first => N \in V
      <4>1. ASSUME bs[L].ends
            PROVE  Ended(bs, L)
        BY <1>2, <4>1 DEF Ended
      <4>2. ASSUME bs2[L].op = "else", bs2[L].first
            PROVE  bs[L].ends
        BY <1>1, <4>2
      <4>3. N \in U => N \in V
        BY DEF Beyond
      <4> QED
        BY <1>3, <4>1, <4>2, <4>3
    <3> QED
      BY <1>1, <2>3, <3>1, <3>2 DEF BlockFlow
  <2> QED
    BY <2>2, <2>3
<1>7. FlowAt(pr2, V, N)
  <2>1. N \notin V => h \notin V
    BY <1>2, <1>3, <1>5
  <2>2. h \notin V => N + 1 \notin V
    BY <1>2, <1>3, <1>5
  <2>3. ASSUME N \notin V, NEW p \in pr2[N].path \ {0}, pr2[p].op \in Loops
        PROVE  p \notin V
    <3>1. p \in PlacesOf(bs) \ {0} /\ N \notin U
      BY <1>1, <1>2, <1>3, <2>3
    <3>2. p \in 1 .. Len(pr)
      BY <3>1, <1>2, PlacesInText DEF Shape
    <3>3. p \notin U
      BY <1>2, <2>3, <3>1, <3>2, LoopsReached
    <3> QED
      BY <1>2, <1>3, <3>2, <3>3
  <2>4. pr2[N].op \notin (Simple \ Returning) \cup Openers
    BY <1>1 DEF Simple, Openers
  <2> QED
    BY <1>1, <2>1, <2>2, <2>3, <2>4 DEF FlowAt
<1>8. Heads(pr2, bs2) /\ pr2[N].op # "end"
  BY <1>1, NextHeads
<1> QED
  BY <1>1, <1>6, <1>7, <1>8, FlowGrows

LEMMA EndFlow ==
  ASSUME NEW pr, NEW bs, NEW es, NEW pr2, NEW bs2, NEW f, NEW U,
         Shape(pr, bs, es, f), Heads(pr, bs), EndStep(pr, bs, pr2, bs2), Flow(pr, bs, U)
  PROVE  Flow(pr2, bs2, Beyond(pr2, bs2, U))
<1> DEFINE N == Len(pr) + 1
           V == Beyond(pr2, bs2, U)
           L == Len(bs)
           h == bs[L].head
           M == Len(bs2)
<1>1. /\ Grows(pr, pr2) /\ L = M + 1 /\ M >= 1
      /\ pr2[N].op = "end" /\ pr2[N].head = h /\ pr2[N].path \subseteq PlacesOf(bs)
      /\ \A n \in 1 .. M : BlockKept(bs[n], bs2[n]) /\ (n # M => bs2[n] = bs[n])
      /\ bs2[M].ends => bs[M].ends \/ (bs[L].op = "else" /\ bs[L].ends /\ bs[L].first)
  BY DEF EndStep
<1>2. M = L - 1 /\ Len(pr) \in Nat /\ L \in Nat /\ M \in Nat /\ L > 1
  <2>1. Len(pr) \in Nat /\ L \in Nat
    BY HeadFacts
  <2>2. M = L - 1
    <3>1. Len(bs) = Len(bs2) + 1
      BY DEF EndStep
    <3> QED
      BY <3>1, LenProperties, HeadFacts DEF EndStep
  <2>3. M \in Nat /\ L > 1
    <3>1. Len(bs2) >= 1
      BY DEF EndStep
    <3> QED
      BY <2>1, <2>2, <3>1
  <2> QED
    BY <2>1, <2>2, <2>3
<1>3. /\ Len(pr2) = N /\ M \in Nat /\ L \in 2 .. L /\ L \in 1 .. L
      /\ \A k \in 1 .. Len(pr) : pr2[k] = pr[k]
      /\ \A k \in 1 .. Len(pr2) : k \in 1 .. Len(pr) \/ k = N
      /\ h \in 1 .. Len(pr) /\ bs[L].place \in 1 .. Len(pr)
  <2>1. M \in Nat /\ L \in 2 .. L /\ L \in 1 .. L
    BY <1>2
  <2>2. h \in 1 .. Len(pr) /\ bs[L].place \in 1 .. Len(pr)
    BY <2>1, HeadFacts
  <2>3. Len(pr2) = N /\ \A k \in 1 .. Len(pr) : pr2[k] = pr[k]
    BY <1>1 DEF Grows
  <2>4. \A k \in 1 .. Len(pr2) : k \in 1 .. Len(pr) \/ k = N
    BY <1>2, <2>3
  <2> QED
    BY <2>1, <2>2, <2>3, <2>4
<1>4. /\ \A k \in 0 .. N : k \in V <=> k \in U
      /\ N + 1 \in V <=> Ended(bs2, M)
      /\ N \in U <=> Ended(bs, L)
      /\ h \in U <=> Ended(bs, M)
  <2>1. N \in U <=> Ended(bs, L)
    BY DEF Flow
  <2>2. h \in U <=> Ended(bs, M)
    <3>1. BlockFlow(bs, U, L)
      BY <1>3 DEF Flow
    <3> QED
      BY <1>2, <3>1 DEF BlockFlow
  <2>3. N + 1 \notin U
    BY <1>2 DEF Flow
  <2>4. \A k : k \in V <=> k \in U \/ (k = N + 1 /\ Ended(bs2, M))
    BY <1>3 DEF Beyond
  <2>5. \A k \in 0 .. N : k # N + 1
    BY <1>2
  <2> QED
    BY <2>1, <2>2, <2>3, <2>4, <2>5
<1>5. \A n \in 0 .. M - 1 : Ended(bs2, n) <=> Ended(bs, n)
  <2> SUFFICES ASSUME NEW n \in 0 .. M - 1
               PROVE  Ended(bs2, n) <=> Ended(bs, n)
    OBVIOUS
  <2>1. \A m \in 1 .. n : m \in 1 .. M /\ m # M
    BY <1>3
  <2> QED
    BY <1>1, <2>1 DEF Ended
<1>6. /\ Ended(bs2, M) => Ended(bs, M) \/ (bs[L].op = "else" /\ bs[L].ends /\ bs[L].first)
      /\ Ended(bs, M) => Ended(bs, L)
      /\ bs[L].ends => Ended(bs, L)
  <2>1. \A m \in 1 .. M : m \in 1 .. L /\ M \in 1 .. M
    BY <1>2, <1>3
  <2> QED
    BY <1>1, <1>3, <2>1 DEF Ended
<1>7. ASSUME NEW n \in 2 .. M
      PROVE  BlockFlow(bs2, V, n)
  <2>1. n \in 2 .. L /\ n \in 1 .. M /\ n - 1 \in 0 .. M - 1
    BY <1>2, <1>3
  <2>2. BlockFlow(bs, U, n)
    BY <2>1 DEF Flow
  <2>3. bs[n].head \in 1 .. Len(pr) /\ bs[n].place \in 1 .. Len(pr)
    BY <2>1, HeadFacts
  <2>4. /\ bs2[n].head = bs[n].head /\ bs2[n].place = bs[n].place
        /\ bs2[n].op = bs[n].op /\ bs2[n].first = bs[n].first
    BY <1>1, <2>1 DEF BlockKept
  <2>5. /\ bs[n].head \in V <=> bs[n].head \in U
        /\ bs[n].place \in V <=> bs[n].place \in U
    BY <1>3, <1>2, <1>4, <2>3, SMTT(30)
  <2> QED
    BY <1>5, <2>1, <2>2, <2>4, <2>5 DEF BlockFlow
<1>8. ASSUME Ended(bs2, M), ~Ended(bs, M)
      PROVE  /\ bs[L].op = "else" /\ N \in U /\ bs[L].place \in U
             /\ pr[h].op = "if" /\ pr[bs[L].place].head = h
             /\ \A x \in 1 .. Len(pr) : pr[x].head = h => x = bs[L].place
  <2>1. bs[L].op = "else" /\ bs[L].ends /\ bs[L].first
    BY <1>6, <1>8
  <2>2. BlockHead(pr, bs, L) /\ BlockFlow(bs, U, L)
    BY <1>3 DEF Heads, Flow
  <2> QED
    BY <1>4, <1>6, <2>1, <2>2 DEF BlockHead, BlockFlow, Openers
<1>9. FlowAt(pr2, V, N)
  <2>1. N \notin V => h \notin V
    BY <1>2, <1>3, <1>4, <1>6
  <2>2. h \notin V => N + 1 \notin V \/ (pr2[h].op = "if" /\ \E x \in 1 .. N - 1 : pr2[x].head = h)
    <3> SUFFICES ASSUME h \notin V, N + 1 \in V
                 PROVE  pr2[h].op = "if" /\ \E x \in 1 .. N - 1 : pr2[x].head = h
      OBVIOUS
    <3>1. Ended(bs2, M) /\ ~Ended(bs, M)
      BY <1>2, <1>3, <1>4
    <3>2. pr[h].op = "if" /\ pr[bs[L].place].head = h
      BY <1>8, <3>1
    <3>3. bs[L].place \in 1 .. N - 1
      BY <1>2, <1>3
    <3> QED
      BY <1>3, <3>2, <3>3
  <2>3. ASSUME N \notin V, NEW p \in pr2[N].path \ {0}, pr2[p].op \in Loops
        PROVE  p \notin V
    <3>1. p \in PlacesOf(bs) \ {0} /\ N \notin U
      <4>1. N \notin U
        BY <2>3 DEF Beyond
      <4> QED
        BY <1>1, <2>3, <4>1
    <3>2. p \in 1 .. Len(pr)
      BY <3>1, <1>2, PlacesInText DEF Shape
    <3>3. p \notin U
      BY <1>3, <2>3, <3>1, <3>2, LoopsReached
    <3> QED
      BY <1>2, <1>4, <3>2, <3>3
  <2>4. pr2[N].op \notin (Simple \ Returning) \cup Openers
    BY <1>1 DEF Simple, Openers
  <2> QED
    BY <1>1, <2>1, <2>2, <2>3, <2>4 DEF FlowAt
<1>10. ASSUME NEW x \in 1 .. Len(pr2)
       PROVE  Joins(pr2, V, x, N)
  <2> SUFFICES ASSUME pr2[x].op \in Enders, pr2[x].head = h, x \notin V, N + 1 \in V
               PROVE  FALSE
    BY <1>1 DEF Joins
  <2>1. (x \notin U /\ N \notin U) \/ x # N
    BY <1>2, <1>3, <1>4
  <2>2. h \notin U
    <3>1. CASE x = N
      BY <1>4, <1>6, <2>1, <3>1
    <3>2. CASE x \in 1 .. Len(pr)
      <4>1. pr[x] = pr2[x] /\ FlowAt(pr, U, x) /\ x \notin U
        BY <1>2, <1>3, <1>4, <3>2 DEF Flow
      <4> QED
        BY <4>1 DEF FlowAt
    <3> QED
      BY <1>3, <3>1, <3>2
  <2>3. Ended(bs2, M) /\ ~Ended(bs, M)
    BY <1>4, <2>2
  <2>4. x \in 1 .. Len(pr) => x = bs[L].place
    BY <1>3, <1>8, <2>3
  <2> QED
    BY <1>2, <1>3, <1>4, <1>8, <2>1, <2>3, <2>4
<1>11. Heads(pr2, bs2)
  BY EndHeads
<1>12. pr2[N].op \in Enders => pr2[N].head = bs[L].head /\ L > 1
  <2>1. pr2[N].head = bs[L].head
    BY DEF EndStep
  <2> QED
    BY <1>2, <2>1
<1> QED
  BY <1>1, <1>7, <1>9, <1>10, <1>11, <1>12, FlowGrows

-----------------------------------------------------------------------------
(* What the accepted statements keep to while a borrow lives.              *)

Under(pr, j, k, holds, ops) ==
  /\ j < k /\ pr[j].op = holds /\ pr[k].op \in ops
  /\ pr[j].inst = pr[k].inst /\ pr[j].path \subseteq pr[k].path

Guarded(pr, n) ==
  \A j, k \in 1 .. n :
    /\ ~Under(pr, j, k, "share", {"hold", "lend"})
    /\ Under(pr, j, k, "hold", {"move", "returnX", "share", "lendShared"}) =>
         \E l \in j + 1 .. k - 1 : pr[l].op = "lend"

LEMMA GuardedGrows ==
  ASSUME NEW pr, NEW bs, NEW es, NEW f, NEW pr2, Shape(pr, bs, es, f),
         BorrowsKnown(pr, bs, es, f), Guarded(pr, Len(pr)), Grows(pr, pr2),
         pr2[Len(pr) + 1].op \in Simple => pr2[Len(pr) + 1].path = PlacesOf(bs),
         pr2[Len(pr) + 1].op \in {"hold", "lend"} => \A e \in 1 .. Len(es) : ~es[e].shared,
         pr2[Len(pr) + 1].op \in {"move", "returnX", "share", "lendShared"} =>
           \A e \in 1 .. Len(es) : ~es[e].mut
  PROVE  Guarded(pr2, Len(pr) + 1)
<1> DEFINE N == Len(pr) + 1
<1>1. Len(pr) \in Nat /\ \A k \in 1 .. Len(pr) : pr2[k] = pr[k]
  BY ShapeFacts DEF Grows
<1>2. SUFFICES ASSUME NEW j \in 1 .. N, NEW k \in 1 .. N, j < k
               PROVE  /\ ~Under(pr2, j, k, "share", {"hold", "lend"})
                      /\ Under(pr2, j, k, "hold", {"move", "returnX", "share", "lendShared"}) =>
                           \E l \in j + 1 .. k - 1 : pr2[l].op = "lend"
  BY DEF Guarded, Under
<1>3. j \in 1 .. Len(pr) /\ pr2[j] = pr[j]
  BY <1>1, <1>2
<1>4. CASE k \in 1 .. Len(pr)
  <2>1. pr2[k] = pr[k] /\ \A l \in j + 1 .. k - 1 : pr2[l] = pr[l]
    BY <1>1, <1>4
  <2>2. /\ ~Under(pr, j, k, "share", {"hold", "lend"})
        /\ Under(pr, j, k, "hold", {"move", "returnX", "share", "lendShared"}) =>
             \E l \in j + 1 .. k - 1 : pr[l].op = "lend"
    BY <1>3, <1>4 DEF Guarded
  <2> QED
    BY <1>3, <2>1, <2>2 DEF Under
<1>5. CASE k = N
  <2>1. ASSUME Under(pr2, j, k, "share", {"hold", "lend"})
        PROVE  FALSE
    <3>1. pr2[N].op \in {"hold", "lend"} /\ pr[j].op = "share" /\ pr[j].path \subseteq pr2[N].path
      BY <1>3, <1>5, <2>1 DEF Under
    <3>2. pr2[N].op \in Simple
      BY <3>1 DEF Simple
    <3>3. pr[j].path \subseteq PlacesOf(bs)
      BY <3>1, <3>2
    <3>4. ShareKnown(pr, bs, es, f, j)
      BY <1>3, <3>3 DEF BorrowsKnown
    <3>5. PICK m \in 1 .. Len(bs) : es[f[m]].shared
      BY <3>1, <3>4 DEF ShareKnown
    <3>6. f[m] \in 1 .. Len(es)
      BY ShapeFacts
    <3> QED
      BY <3>1, <3>5, <3>6
  <2>2. ASSUME Under(pr2, j, k, "hold", {"move", "returnX", "share", "lendShared"})
        PROVE  \E l \in j + 1 .. k - 1 : pr2[l].op = "lend"
    <3>1. /\ pr2[N].op \in {"move", "returnX", "share", "lendShared"} /\ pr[j].op = "hold"
          /\ pr[j].path \subseteq pr2[N].path
      BY <1>3, <1>5, <2>2 DEF Under
    <3>2. pr2[N].op \in Simple
      BY <3>1 DEF Simple
    <3>3. pr[j].path \subseteq PlacesOf(bs)
      BY <3>1, <3>2
    <3>4. HoldKnown(pr, bs, es, f, j)
      BY <1>3, <3>3 DEF BorrowsKnown
    <3>5. Lent(pr, j)
      <4> SUFFICES ASSUME ~Lent(pr, j)
                   PROVE  FALSE
        OBVIOUS
      <4>1. PICK m \in 1 .. Len(bs) : \E e \in 1 .. f[m] : es[e].mut
        BY <3>1, <3>4 DEF HoldKnown
      <4>2. PICK e \in 1 .. f[m] : es[e].mut
        BY <4>1
      <4>3. f[m] \in 1 .. Len(es) /\ Len(es) \in Nat
        BY ShapeFacts
      <4>4. e \in 1 .. Len(es)
        BY <4>3
      <4> QED
        BY <3>1, <4>2, <4>4
    <3>6. PICK l \in j + 1 .. Len(pr) : pr[l].op = "lend"
      BY <3>5 DEF Lent
    <3>7. l \in j + 1 .. k - 1 /\ pr2[l] = pr[l]
      BY <1>1, <1>3, <1>5
    <3> QED
      BY <3>6, <3>7
  <2> QED
    BY <2>1, <2>2
<1> QED
  BY <1>1, <1>4, <1>5

-----------------------------------------------------------------------------
(* The text, the blocks and the environments, after any number of steps of *)
(* the checker.                                                            *)

Body(pr, bs, es, f, U) ==
  /\ Known(pr, bs, es, f) /\ Heads(pr, bs) /\ Flow(pr, bs, U)
  /\ Guarded(pr, Len(pr)) /\ bs[1].op = "block"

Added(pr, bs, op, inst, head, iso) == Append(pr, Token(op, inst, PlacesOf(bs), head, iso))

(* Adding a statement to a text.                                           *)
LEMMA AddedText ==
  ASSUME NEW pr, NEW bs, NEW es, NEW f, Shape(pr, bs, es, f), NEW op \in Ops,
         NEW inst \in 0 .. Len(pr) + 1, NEW head \in Nat, NEW iso \in BOOLEAN
  PROVE  LET pr2 == Added(pr, bs, op, inst, head, iso)
             t == pr2[Len(pr) + 1]
         IN  /\ pr2 \in Seq(TokenType) /\ Grows(pr, pr2) /\ Len(pr2) = Len(pr) + 1
             /\ t.op = op /\ t.inst = inst /\ t.path = PlacesOf(bs) /\ t.head = head /\ t.iso = iso
             /\ t.path \subseteq 0 .. Len(pr)
<1> DEFINE x == Token(op, inst, PlacesOf(bs), head, iso)
<1>1. Typed(pr, bs, es) /\ Nest(pr, bs) /\ Len(pr) \in Nat
  BY ShapeFacts DEF Shape
<1>2. PlacesOf(bs) \subseteq 0 .. Len(pr)
  BY <1>1, PlacesInText
<1>3. x \in TokenType /\ pr \in Seq(TokenType)
  BY <1>1, <1>2 DEF Token, TokenType, Typed
<1>4. /\ Append(pr, x) \in Seq(TokenType) /\ Grows(pr, Append(pr, x))
      /\ Append(pr, x)[Len(pr) + 1] = x
  BY <1>3, AppendGrows
<1>5. /\ x.op = op /\ x.inst = inst /\ x.path = PlacesOf(bs) /\ x.head = head /\ x.iso = iso
  BY DEF Token
<1> QED
  BY <1>2, <1>4, <1>5 DEF Added, Grows

AddedBy(pr, bs, op, inst, pr2) ==
  /\ pr2 \in Seq(TokenType) /\ Grows(pr, pr2) /\ Len(pr2) = Len(pr) + 1
  /\ pr2[Len(pr) + 1].op = op /\ pr2[Len(pr) + 1].inst = inst
  /\ pr2[Len(pr) + 1].path = PlacesOf(bs)

LEMMA AddedPlain ==
  ASSUME NEW pr, NEW bs, NEW es, NEW f, NEW pr2, Shape(pr, bs, es, f), NEW op \in Simple,
         NEW inst \in 0 .. Len(pr) + 1, pr2 = Added(pr, bs, op, inst, 0, FALSE)
  PROVE  AddedBy(pr, bs, op, inst, pr2)
<1>1. op \in Ops /\ 0 \in Nat /\ FALSE \in BOOLEAN
  BY DEF Ops
<1>2. LET pr3 == Added(pr, bs, op, inst, 0, FALSE)
          t == pr3[Len(pr) + 1]
      IN  /\ pr3 \in Seq(TokenType) /\ Grows(pr, pr3) /\ Len(pr3) = Len(pr) + 1
          /\ t.op = op /\ t.inst = inst /\ t.path = PlacesOf(bs) /\ t.head = 0 /\ t.iso = FALSE
          /\ t.path \subseteq 0 .. Len(pr)
  BY <1>1, AddedText
<1> QED
  BY <1>2 DEF AddedBy

(* A statement without a block: when it is taken,                          *)
Taken(bs, es, f, op, inst) ==
  /\ op = "break" => \E n \in 1 .. Len(bs) : bs[n].op \in Loops
  /\ op \in Reads => es[Top(es)].moved = 0 /\ inst = MeantAt(bs, f, Len(es))
  /\ op \in {"hold", "lend"} => \A e \in 1 .. Len(es) : ~es[e].shared
  /\ op \in {"move", "returnX", "share", "lendShared"} => \A e \in 1 .. Len(es) : ~es[e].mut

(* what it does to the block it is in, and to the environments.            *)
BlocksAfter(bs, bs2, op) ==
  /\ bs2 \in Seq(BlockType) /\ Len(bs2) = Len(bs)
  /\ \A n \in 1 .. Len(bs) : BlockKept(bs[n], bs2[n]) /\ (n # Len(bs) => bs2[n] = bs[n])
  /\ bs2[Len(bs)].ends => bs[Len(bs)].ends \/ op \in Returning
  /\ op \in Returning => bs2[Len(bs)].ends

EnvsAfter(es, es2, op) ==
  /\ es2 \in Seq(EnvType) /\ Len(es2) = Len(es)
  /\ \A e \in 1 .. Len(es) : es2[e].isolated = es[e].isolated
  /\ OneKind(es2)
  /\ \A e \in 1 .. Len(es) : es[e].shared => es2[e].shared
  /\ op # "lend" => \A e \in 1 .. Len(es) : es[e].mut => es2[e].mut
  /\ op = "share" => es2[Len(es)].shared
  /\ op = "hold" => \E e \in 1 .. Len(es) : es2[e].mut

MarksAfter(pr, bs, es, pr2, bs2, es2, f) ==
  \/ Moves(pr, bs, es, pr2, bs2, es2, f)
  \/ MovesNot(pr, bs, es, pr2, bs2, es2)
  \/ Declares(pr, bs, es, pr2, bs2, es2)

LEMMA SimpleBody ==
  ASSUME NEW pr, NEW bs, NEW es, NEW f, NEW U, Body(pr, bs, es, f, U), NEW op \in Simple,
         NEW inst \in 0 .. Len(pr) + 1, NEW pr2, NEW bs2, NEW es2,
         pr2 = Added(pr, bs, op, inst, 0, FALSE),
         Taken(bs, es, f, op, inst), BlocksAfter(bs, bs2, op), EnvsAfter(es, es2, op),
         MarksAfter(pr, bs, es, pr2, bs2, es2, f)
  PROVE  \E V : Body(pr2, bs2, es2, f, V)
<1> DEFINE N == Len(pr) + 1
<1>1. /\ Known(pr, bs, es, f) /\ Shape(pr, bs, es, f) /\ Typed(pr, bs, es) /\ Nest(pr, bs)
      /\ Heads(pr, bs) /\ Flow(pr, bs, U) /\ Guarded(pr, Len(pr)) /\ bs[1].op = "block"
      /\ BorrowsKnown(pr, bs, es, f)
  BY DEF Body, Known, Shape
<1>2. /\ Len(pr) \in Nat /\ Len(bs) \in Nat /\ Len(bs) >= 1 /\ Len(es) \in Nat /\ Len(es) >= 2
  BY <1>1, ShapeFacts
<1>3. /\ op \in Ops /\ op \notin Enders /\ op \notin {"while", "switch", "case"}
      /\ op \notin {"end"}
  BY DEF Ops, Simple, Enders
<1>4. /\ pr2 \in Seq(TokenType) /\ Grows(pr, pr2) /\ Len(pr2) = N
      /\ pr2[N].op = op /\ pr2[N].inst = inst /\ pr2[N].path = PlacesOf(bs)
      /\ pr2[N].head = 0 /\ pr2[N].iso = FALSE /\ pr2[N].path \subseteq 0 .. Len(pr)
  <2>1. 0 \in Nat /\ FALSE \in BOOLEAN
    OBVIOUS
  <2>2. LET pr3 == Added(pr, bs, op, inst, 0, FALSE)
            t == pr3[Len(pr) + 1]
        IN  /\ pr3 \in Seq(TokenType) /\ Grows(pr, pr3) /\ Len(pr3) = Len(pr) + 1
            /\ t.op = op /\ t.inst = inst /\ t.path = PlacesOf(bs) /\ t.head = 0 /\ t.iso = FALSE
            /\ t.path \subseteq 0 .. Len(pr)
    BY <1>1, <1>3, <2>1, AddedText
  <2> QED
    BY <2>2
<1>5. TokenOK(pr2, N)
  <2>1. ASSUME op = "break"
        PROVE  \E p \in pr2[N].path \ {0} : pr2[p].op \in Loops
    <3>1. PICK n \in 1 .. Len(bs) : bs[n].op \in Loops
      BY <2>1 DEF Taken
    <3>2. n # 1
      BY <1>1, <3>1 DEF Loops
    <3>3. n \in 2 .. Len(bs)
      BY <1>2, <3>2
    <3>4. bs[n].place \in 1 .. Len(pr)
      BY <1>1, <3>3, PlacesInText
    <3>5. pr[bs[n].place].op = bs[n].op
      BY <1>1, <3>3 DEF Nest
    <3>6. bs[n].place \in pr2[N].path \ {0} /\ pr2[bs[n].place] = pr[bs[n].place]
      <4>1. bs[n].place \in PlacesOf(bs)
        BY DEF PlacesOf
      <4>2. bs[n].place # 0
        BY <1>2, <3>4
      <4>3. \A k \in 1 .. Len(pr) : pr2[k] = pr[k]
        BY <1>4 DEF Grows
      <4> QED
        BY <1>4, <3>4, <4>1, <4>2, <4>3
    <3> QED
      BY <3>1, <3>5, <3>6
  <2>2. inst <= N /\ N - 1 = Len(pr)
    BY <1>2
  <2> QED
    BY <1>3, <1>4, <2>1, <2>2 DEF TokenOK
<1>6. Typed(pr2, bs2, es2)
  BY <1>2, <1>4 DEF Typed, BlocksAfter, EnvsAfter
<1>7. Stmt(pr, bs, es, pr2, bs2, es2)
  BY <1>1, <1>4, <1>5, <1>6 DEF Stmt, BlocksAfter, EnvsAfter
<1>8. Known(pr2, bs2, es2, f)
  <2>1. /\ pr2[N].op # "lend" => \A e \in 1 .. Len(es) : es[e].mut => es2[e].mut
        /\ pr2[N].op = "share" => es2[Len(es)].shared
        /\ pr2[N].op = "hold" => \E e \in 1 .. Len(es) : es2[e].mut
        /\ pr2[N].op \in Returning => bs2[Len(bs)].ends
        /\ OneKind(es2)
        /\ \A e \in 1 .. Len(es) : es[e].shared => es2[e].shared
    BY <1>4 DEF EnvsAfter, BlocksAfter
  <2>2. pr2[N].op \in Reads => es[Top(es)].moved = 0 /\ pr2[N].inst = MeantAt(bs, f, Len(es))
    BY <1>4 DEF Taken
  <2>3. \/ Moves(pr, bs, es, pr2, bs2, es2, f)
        \/ MovesNot(pr, bs, es, pr2, bs2, es2)
        \/ Declares(pr, bs, es, pr2, bs2, es2)
    BY DEF MarksAfter
  <2>4. Known(pr, bs, es, f)
    BY <1>1
  <2> HIDE DEF N
  <2>5. N = Len(pr) + 1
    BY DEF N
  <2> QED
    BY ONLY <1>7, <2>1, <2>2, <2>3, <2>4, <2>5, StmtKnown, Zenon
<1>9. SimpleStep(pr, bs, pr2, bs2)
  BY <1>4 DEF SimpleStep, BlocksAfter
<1>10. Heads(pr2, bs2) /\ Flow(pr2, bs2, Beyond(pr2, bs2, U))
  BY <1>1, <1>9, SimpleHeads, SimpleFlow
<1>11. Guarded(pr2, Len(pr2))
  <2>1. Guarded(pr2, N)
    <3>1. /\ pr2[N].op \in {"hold", "lend"} => \A e \in 1 .. Len(es) : ~es[e].shared
          /\ pr2[N].op \in {"move", "returnX", "share", "lendShared"} =>
               \A e \in 1 .. Len(es) : ~es[e].mut
      BY <1>4 DEF Taken
    <3> QED
      BY <1>1, <1>4, <3>1, GuardedGrows
  <2> QED
    BY <1>4, <2>1
<1>12. bs2[1].op = "block"
  BY <1>1, <1>2 DEF BlockKept, BlocksAfter
<1> QED
  BY <1>8, <1>10, <1>11, <1>12 DEF Body

(* Opening a block.                                                        *)
Opens(pr, bs, es, op, inst, head, term, first, pr2, bs2, es2) ==
  LET iso == Isolates(op, term)
      own == iso \/ op = "for" \/ ~es[Len(es)].isolated
      at2 == Len(pr) + 1
  IN  /\ term \in BOOLEAN /\ first \in BOOLEAN
      /\ pr2 = Added(pr, bs, op, inst, head, iso)
      /\ bs2 = Append(bs, Block(op, at2, IF head = 0 THEN at2 ELSE head, own, term, first))
      /\ es2 = IF own THEN Append(es, TypeEnv(iso, None)) ELSE es

OpenedBy(pr, bs, op, inst, head, first, pr2, bs2) ==
  /\ Grows(pr, pr2) /\ pr2[Len(pr) + 1].op = op /\ pr2[Len(pr) + 1].head = head
  /\ pr2[Len(pr) + 1].path = PlacesOf(bs) /\ pr2[Len(pr) + 1].inst = inst
  /\ Grows(bs, bs2) /\ bs2[Len(bs) + 1].op = op /\ bs2[Len(bs) + 1].place = Len(pr) + 1
  /\ bs2[Len(bs) + 1].head = (IF head = 0 THEN Len(pr) + 1 ELSE head)
  /\ ~bs2[Len(bs) + 1].ends /\ bs2[Len(bs) + 1].first = first

LEMMA OpensPush ==
  ASSUME NEW pr, NEW bs, NEW es, NEW f, NEW pr2, NEW bs2, NEW es2, Shape(pr, bs, es, f),
         NEW op \in Openers \cup {"else", "case"}, NEW inst \in 0 .. Len(pr) + 1,
         NEW head \in 0 .. Len(pr), NEW term, NEW first,
         op \notin Openers => head # 0 /\ pr[head].op \in Openers,
         Opens(pr, bs, es, op, inst, head, term, first, pr2, bs2, es2)
  PROVE  /\ (op \in Openers /\ head = 0) \/ op \notin Openers =>
              Push(pr, bs, es, pr2, bs2, es2)
         /\ OpenedBy(pr, bs, op, inst, head, first, pr2, bs2)
<1> DEFINE N == Len(pr) + 1
           iso == Isolates(op, term)
           own == iso \/ op = "for" \/ ~es[Len(es)].isolated
           h == IF head = 0 THEN N ELSE head
           b == Block(op, N, h, own, term, first)
<1>1. /\ Typed(pr, bs, es) /\ Len(pr) \in Nat /\ Len(bs) \in Nat /\ Len(bs) >= 1
      /\ Len(es) \in Nat /\ Len(es) >= 2
  BY ShapeFacts DEF Shape
<1>2. op \in Ops /\ op \notin Simple /\ iso \in BOOLEAN /\ own \in BOOLEAN
  BY DEF Opens, Ops, Openers, Enders, Simple, Isolates
<1>3. /\ term \in BOOLEAN /\ first \in BOOLEAN
      /\ pr2 = Added(pr, bs, op, inst, head, iso) /\ bs2 = Append(bs, b)
      /\ es2 = IF own THEN Append(es, TypeEnv(iso, None)) ELSE es
  BY DEF Opens
<1>4. /\ pr2 \in Seq(TokenType) /\ Grows(pr, pr2) /\ Len(pr2) = N
      /\ pr2[N].op = op /\ pr2[N].inst = inst /\ pr2[N].path = PlacesOf(bs) /\ pr2[N].head = head
      /\ pr2[N].iso = iso /\ pr2[N].path \subseteq 0 .. Len(pr)
  <2>1. head \in Nat
    BY <1>1
  <2> HIDE DEF iso
  <2>2. LET pr3 == Added(pr, bs, op, inst, head, iso)
            t == pr3[Len(pr) + 1]
        IN  /\ pr3 \in Seq(TokenType) /\ Grows(pr, pr3) /\ Len(pr3) = Len(pr) + 1
            /\ t.op = op /\ t.inst = inst /\ t.path = PlacesOf(bs) /\ t.head = head /\ t.iso = iso
            /\ t.path \subseteq 0 .. Len(pr)
    BY <1>2, <2>1, AddedText
  <2> QED
    BY <1>3, <2>2
<1>5. /\ b \in BlockType /\ b.op = op /\ b.place = N /\ b.head = h /\ b.own = own /\ b.decl = None
      /\ b.ends = FALSE /\ b.term = term /\ b.first = first
  <2>1. N \in Nat /\ h \in Nat
    BY <1>1
  <2> HIDE DEF N, h, own
  <2> QED
    BY <1>2, <1>3, <2>1 DEF Block, BlockType, None
<1>6. /\ bs2 \in Seq(BlockType) /\ Grows(bs, bs2) /\ bs2[Len(bs) + 1] = b
  <2> HIDE DEF b
  <2> QED
    BY <1>1, <1>3, <1>5, AppendGrows DEF Typed
<1>7. /\ es2 \in Seq(EnvType) /\ Len(es2) >= 2
      /\ own => Grows(es, es2) /\ es2[Len(es2)] = TypeEnv(iso, None)
      /\ ~own => es2 = es
  <2>1. TypeEnv(iso, None) \in EnvType
    BY <1>2 DEF TypeEnv, EnvType, None
  <2>2. es \in Seq(EnvType)
    BY <1>1 DEF Typed
  <2> HIDE DEF iso, own
  <2>3. CASE own
    <3>1. /\ es2 \in Seq(EnvType) /\ Grows(es, es2) /\ es2[Len(es) + 1] = TypeEnv(iso, None)
      BY <1>3, <2>1, <2>2, <2>3, AppendGrows
    <3> QED
      BY <1>1, <2>3, <3>1 DEF Grows
  <2>4. CASE ~own
    BY <1>1, <1>3, <2>2, <2>4
  <2> QED
    BY <2>3, <2>4
<1>8. ASSUME (op \in Openers /\ head = 0) \/ op \notin Openers
      PROVE  Push(pr, bs, es, pr2, bs2, es2)
  <2>1. Len(bs2) = Len(bs) + 1 /\ Typed(pr2, bs2, es2)
    BY <1>1, <1>4, <1>6, <1>7 DEF Typed, Grows
  <2>2. h \in 1 .. N /\ pr2[h].op \in Openers /\ (head # 0 => head \in 1 .. Len(pr) /\ pr2[head] = pr[head])
    BY <1>1, <1>4, <1>8 DEF Grows
  <2>3. /\ op \in {"while", "switch", "case"} => iso
        /\ op \in {"if", "else"} => iso = term
    BY <1>3 DEF Isolates
  <2>4. TokenOK(pr2, N)
    <3>1. N - 1 = Len(pr) /\ inst <= N
      BY <1>1
    <3>2. op # "break" /\ (op \in Enders => op \notin Openers)
      BY DEF Openers, Enders
    <3> HIDE DEF iso
    <3> QED
      BY <1>2, <1>4, <1>8, <2>2, <2>3, <3>1, <3>2 DEF TokenOK
  <2> HIDE DEF iso, own, h, b
  <2>5. own = (iso \/ op = "for" \/ ~es[Len(es)].isolated)
    BY DEF own
  <2>6. bs2[Len(bs2)] = b
    BY <1>6, <2>1
  <2> QED
    BY <1>1, <1>4, <1>5, <1>6, <1>7, <2>1, <2>2, <2>3, <2>4, <2>5, <2>6 DEF Push
<1> HIDE DEF iso, own, b
<1> QED
  BY <1>4, <1>5, <1>6, <1>8 DEF OpenedBy

(* The block that an opener opens,                                         *)
LEMMA OpenBody ==
  ASSUME NEW pr, NEW bs, NEW es, NEW f, NEW U, NEW pr2, NEW bs2, NEW es2,
         Body(pr, bs, es, f, U), NEW op \in Openers, NEW inst \in 0 .. Len(pr), NEW term,
         Opens(pr, bs, es, op, inst, 0, term, FALSE, pr2, bs2, es2)
  PROVE  \E g, V : Body(pr2, bs2, es2, g, V)
<1>1. /\ Known(pr, bs, es, f) /\ Shape(pr, bs, es, f) /\ Heads(pr, bs) /\ Flow(pr, bs, U)
      /\ Guarded(pr, Len(pr)) /\ bs[1].op = "block" /\ BorrowsKnown(pr, bs, es, f)
  BY DEF Body, Known
<1>2. /\ Len(pr) \in Nat /\ Len(bs) \in Nat /\ Len(bs) >= 1
  BY <1>1, ShapeFacts
<1>3. /\ inst \in 0 .. Len(pr) + 1 /\ 0 \in 0 .. Len(pr) /\ FALSE \in BOOLEAN
      /\ op \in Openers \cup {"else", "case"}
  BY <1>2
<1>4. /\ Push(pr, bs, es, pr2, bs2, es2)
      /\ Grows(pr, pr2) /\ pr2[Len(pr) + 1].op = op /\ pr2[Len(pr) + 1].head = 0
      /\ pr2[Len(pr) + 1].path = PlacesOf(bs) /\ pr2[Len(pr) + 1].inst = inst
      /\ Grows(bs, bs2) /\ bs2[Len(bs) + 1].op = op /\ bs2[Len(bs) + 1].place = Len(pr) + 1
      /\ bs2[Len(bs) + 1].head = Len(pr) + 1 /\ ~bs2[Len(bs) + 1].ends
  <2>1. Shape(pr, bs, es, f) /\ (op \notin Openers => 0 # 0 /\ pr[0].op \in Openers)
    BY <1>1
  <2>2. Push(pr, bs, es, pr2, bs2, es2)
    BY <1>3, <2>1, OpensPush
  <2>3. OpenedBy(pr, bs, op, inst, 0, FALSE, pr2, bs2)
    BY <1>3, <2>1, OpensPush
  <2> QED
    BY <2>2, <2>3 DEF OpenedBy
<1>5. Known(pr2, bs2, es2, Opened(bs2, es2, f))
  BY <1>1, <1>2, <1>4, PushKnown
<1>6. OpenStep(pr, bs, pr2, bs2)
  BY <1>4 DEF OpenStep
<1>7. Heads(pr2, bs2) /\ Flow(pr2, bs2, Beyond(pr2, bs2, U))
  BY <1>1, <1>6, OpenHeads, OpenFlow
<1>8. Guarded(pr2, Len(pr2))
  <2>1. op \notin Simple
    BY DEF Openers, Simple
  <2>2. op \notin {"hold", "lend", "move", "returnX", "share", "lendShared"}
    BY DEF Openers
  <2>3. Guarded(pr2, Len(pr) + 1)
    BY <1>1, <1>4, <2>1, <2>2, GuardedGrows
  <2> QED
    BY <1>4, <2>3 DEF Grows
<1>9. bs2[1].op = "block"
  BY <1>1, <1>2, <1>4 DEF Grows
<1> QED
  BY <1>5, <1>7, <1>8, <1>9 DEF Body

(* the next branch or case, in the place of the one that is over,          *)
LEMMA NextBody ==
  ASSUME NEW pr, NEW bs, NEW es, NEW f, NEW U, NEW pr2, NEW bs2, NEW es2, NEW bs1, NEW es1,
         Body(pr, bs, es, f, U), NEW op \in {"else", "case"}, NEW inst \in 0 .. Len(pr),
         NEW term, NEW first,
         Len(bs) > 1, Pop(bs, es, bs1, es1), bs1 \in Seq(BlockType), es1 \in Seq(EnvType),
         bs[Len(bs)].op \in {"if", "else"} => bs[Len(bs)].ends = bs[Len(bs)].term,
         op = "else" => bs[Len(bs)].op = "if" /\ first = bs[Len(bs)].ends,
         Opens(pr, bs1, es1, op, inst, bs[Len(bs)].head, term, first, pr2, bs2, es2)
  PROVE  \E g, V : Body(pr2, bs2, es2, g, V)
<1> DEFINE L == Len(bs)
           h == bs[L].head
           f1 == Closed(bs1, f)
<1>1. /\ Known(pr, bs, es, f) /\ Shape(pr, bs, es, f) /\ Heads(pr, bs) /\ Flow(pr, bs, U)
      /\ Guarded(pr, Len(pr)) /\ bs[1].op = "block" /\ BorrowsKnown(pr, bs, es, f)
  BY DEF Body, Known
<1>2. Known(pr, bs1, es1, f1) /\ Shape(pr, bs1, es1, f1)
  <2>1. Known(pr, bs1, es1, f1)
    BY <1>1, PopKnown
  <2> QED
    BY <2>1 DEF Known
<1>3. /\ Len(pr) \in Nat /\ L \in Nat /\ Len(bs1) \in Nat /\ Len(bs1) >= 1 /\ L = Len(bs1) + 1
      /\ \A n \in 1 .. Len(bs1) : n \in 1 .. L /\ n # L /\ bs1[n] = bs[n]
  BY <1>1, <1>2, ShapeFacts, PopFacts
<1>4. h \in 1 .. Len(pr) /\ pr[h].op \in Openers /\ h \in 0 .. Len(pr) /\ h # 0
  <2>1. L \in 2 .. L
    BY <1>3
  <2> QED
    BY <1>1, <1>3, <2>1, HeadFacts
<1>5. op \notin Openers /\ op \in Openers \cup {"else", "case"} /\ inst \in 0 .. Len(pr) + 1
  BY <1>3 DEF Openers
<1>6. /\ Push(pr, bs1, es1, pr2, bs2, es2)
      /\ Grows(pr, pr2) /\ pr2[Len(pr) + 1].op = op /\ pr2[Len(pr) + 1].head = h
      /\ pr2[Len(pr) + 1].path = PlacesOf(bs1) /\ pr2[Len(pr) + 1].inst = inst
      /\ Grows(bs1, bs2) /\ bs2[L].op = op /\ bs2[L].place = Len(pr) + 1
      /\ bs2[L].head = h /\ ~bs2[L].ends /\ bs2[L].first = first
  <2> HIDE DEF h, f1
  <2>1. Opens(pr, bs1, es1, op, inst, h, term, first, pr2, bs2, es2)
    BY DEF h
  <2>2. op \notin Openers => h # 0 /\ pr[h].op \in Openers
    BY <1>4
  <2>3. Push(pr, bs1, es1, pr2, bs2, es2)
    BY <1>2, <1>4, <1>5, <2>1, <2>2, OpensPush
  <2>4. OpenedBy(pr, bs1, op, inst, h, first, pr2, bs2)
    BY <1>2, <1>4, <1>5, <2>1, <2>2, OpensPush
  <2> QED
    BY <1>3, <1>4, <2>3, <2>4 DEF OpenedBy
<1>7. Known(pr2, bs2, es2, Opened(bs2, es2, f1))
  BY <1>2, <1>3, <1>6, PushKnown
<1>8. NextStep(pr, bs, pr2, bs2)
  <2>1. Len(bs2) = L /\ \A n \in 1 .. L : n # L => bs2[n] = bs[n]
    BY <1>3, <1>6 DEF Grows
  <2>2. PlacesOf(bs1) \subseteq PlacesOf(bs)
    BY <1>3 DEF PlacesOf
  <2> QED
    BY <1>6, <2>1, <2>2 DEF NextStep
<1>9. Heads(pr2, bs2) /\ Flow(pr2, bs2, Beyond(pr2, bs2, U))
  BY <1>1, <1>8, NextHeads, NextFlow
<1>10. Guarded(pr2, Len(pr2))
  <2>1. op \notin Simple /\ op \notin {"hold", "lend", "move", "returnX", "share", "lendShared"}
    BY DEF Simple
  <2>2. Guarded(pr2, Len(pr) + 1)
    BY <1>1, <1>6, <2>1, GuardedGrows
  <2> QED
    BY <1>6, <2>2 DEF Grows
<1>11. bs2[1].op = "block"
  BY <1>1, <1>3, <1>6 DEF Grows
<1> QED
  BY <1>7, <1>9, <1>10, <1>11 DEF Body

(* and the end of a block.                                                 *)
Closes(bs, bs1, bs2) ==
  /\ bs2 \in Seq(BlockType) /\ Len(bs2) = Len(bs1)
  /\ \A n \in 1 .. Len(bs1) :
       /\ BlockKept(bs1[n], bs2[n]) /\ bs2[n].decl = bs1[n].decl
       /\ n # Len(bs1) => bs2[n] = bs1[n]
  /\ bs2[Len(bs1)].ends => \/ bs1[Len(bs1)].ends
                           \/ bs[Len(bs)].op = "else" /\ bs[Len(bs)].ends /\ bs[Len(bs)].first

LEMMA EndBody ==
  ASSUME NEW pr, NEW bs, NEW es, NEW f, NEW U, NEW pr2, NEW bs2, NEW bs1, NEW es1,
         Body(pr, bs, es, f, U), NEW inst \in 0 .. Len(pr),
         Len(bs) > 1, Pop(bs, es, bs1, es1), bs1 \in Seq(BlockType), es1 \in Seq(EnvType),
         bs[Len(bs)].op \in {"if", "else"} => bs[Len(bs)].ends = bs[Len(bs)].term,
         pr2 = Added(pr, bs, "end", inst, bs[Len(bs)].head, FALSE), Closes(bs, bs1, bs2)
  PROVE  \E g, V : Body(pr2, bs2, es1, g, V)
<1> DEFINE L == Len(bs)
           h == bs[L].head
           f1 == Closed(bs1, f)
           N == Len(pr) + 1
<1>1. /\ Known(pr, bs, es, f) /\ Shape(pr, bs, es, f) /\ Heads(pr, bs) /\ Flow(pr, bs, U)
      /\ Guarded(pr, Len(pr)) /\ bs[1].op = "block" /\ BorrowsKnown(pr, bs, es, f)
  BY DEF Body, Known
<1>2. /\ Known(pr, bs1, es1, f1) /\ Shape(pr, bs1, es1, f1) /\ Typed(pr, bs1, es1)
      /\ BorrowsKnown(pr, bs1, es1, f1)
  <2>1. Known(pr, bs1, es1, f1)
    BY <1>1, PopKnown
  <2> QED
    BY <2>1 DEF Known, Shape
<1>3. /\ Len(pr) \in Nat /\ L \in Nat /\ Len(bs1) \in Nat /\ Len(bs1) >= 1 /\ L = Len(bs1) + 1
      /\ \A n \in 1 .. Len(bs1) : n \in 1 .. L /\ n # L /\ bs1[n] = bs[n]
      /\ Len(es1) \in Nat /\ Len(es1) >= 2
  BY <1>1, <1>2, ShapeFacts, PopFacts
<1>4. h \in 1 .. Len(pr) /\ pr[h].op \in Openers
  <2>1. L \in 2 .. L
    BY <1>3
  <2> QED
    BY <1>1, <1>3, <2>1, HeadFacts
<1>5. /\ pr2 \in Seq(TokenType) /\ Grows(pr, pr2) /\ Len(pr2) = N
      /\ pr2[N].op = "end" /\ pr2[N].inst = inst /\ pr2[N].path = PlacesOf(bs) /\ pr2[N].head = h
      /\ pr2[N].iso = FALSE /\ pr2[N].path \subseteq 0 .. Len(pr)
  <2>1. "end" \in Ops /\ inst \in 0 .. Len(pr) + 1 /\ h \in Nat /\ FALSE \in BOOLEAN
    BY <1>3, <1>4 DEF Ops, Enders
  <2> HIDE DEF h
  <2>2. LET pr3 == Added(pr, bs, "end", inst, h, FALSE)
            t == pr3[Len(pr) + 1]
        IN  /\ pr3 \in Seq(TokenType) /\ Grows(pr, pr3) /\ Len(pr3) = Len(pr) + 1
            /\ t.op = "end" /\ t.inst = inst /\ t.path = PlacesOf(bs) /\ t.head = h /\ t.iso = FALSE
            /\ t.path \subseteq 0 .. Len(pr)
    BY <1>1, <2>1, AddedText
  <2>3. pr2 = Added(pr, bs, "end", inst, h, FALSE)
    BY DEF h
  <2> QED
    BY <2>2, <2>3
<1>6. TokenOK(pr2, N)
  <2>1. N - 1 = Len(pr) /\ inst <= N
    BY <1>3
  <2>3. pr2[h] = pr[h]
    BY <1>4, <1>5 DEF Grows
  <2>2. "end" \notin Simple
    BY DEF Simple
  <2> QED
    BY <1>4, <1>5, <2>1, <2>2, <2>3 DEF TokenOK
<1>7. Stmt(pr, bs1, es1, pr2, bs2, es1)
  <2>1. Typed(pr2, bs2, es1)
    BY <1>3, <1>5, <1>2 DEF Typed, Closes
  <2>2. PlacesOf(bs1) \subseteq pr2[N].path
    <3>1. PlacesOf(bs1) \subseteq PlacesOf(bs)
      BY <1>3 DEF PlacesOf
    <3> QED
      BY <1>5, <3>1
  <2>3. "end" \notin Simple
    BY DEF Simple
  <2> QED
    BY <1>2, <1>5, <1>6, <2>1, <2>2, <2>3 DEF Stmt, Closes
<1>8. Known(pr2, bs2, es1, f1)
  <2>1. OneKind(es1)
    BY <1>2 DEF BorrowsKnown
  <2>2. MovesNot(pr, bs1, es1, pr2, bs2, es1)
    BY <1>5 DEF MovesNot, SameDecls, Moving, Closes
  <2>3. "end" \notin Returning /\ "end" \notin Reads
    BY DEF Returning, Reads
  <2> HIDE DEF f1
  <2>4. /\ pr2[Len(pr) + 1].op \notin Returning /\ pr2[Len(pr) + 1].op \notin Reads
        /\ pr2[Len(pr) + 1].op # "share" /\ pr2[Len(pr) + 1].op # "hold"
    BY <1>5, <2>3
  <2> QED
    BY ONLY <1>2, <1>7, <2>1, <2>2, <2>4, StmtKnown
<1>9. EndStep(pr, bs, pr2, bs2)
  <2>1. \A n \in 1 .. Len(bs2) : BlockKept(bs[n], bs2[n]) /\ (n # Len(bs2) => bs2[n] = bs[n])
    BY <1>3 DEF Closes
  <2>2. bs2[Len(bs2)].ends => bs[Len(bs2)].ends \/ (bs[L].op = "else" /\ bs[L].ends /\ bs[L].first)
    BY <1>3 DEF Closes
  <2>3. Len(bs2) = Len(bs1)
    BY DEF Closes
  <2> QED
    BY <1>3, <1>5, <2>1, <2>2, <2>3 DEF EndStep
<1>10. Heads(pr2, bs2) /\ Flow(pr2, bs2, Beyond(pr2, bs2, U))
  BY <1>1, <1>9, EndHeads, EndFlow
<1>11. Guarded(pr2, Len(pr2))
  <2>1. "end" \notin Simple /\ "end" \notin {"hold", "lend", "move", "returnX", "share", "lendShared"}
    BY DEF Simple
  <2>2. Guarded(pr2, Len(pr) + 1)
    BY <1>1, <1>5, <2>1, GuardedGrows
  <2> QED
    BY <1>5, <2>2
<1>12. bs2[1].op = "block"
  BY <1>1, <1>3 DEF BlockKept, Closes
<1> QED
  BY <1>8, <1>10, <1>11, <1>12 DEF Body

-----------------------------------------------------------------------------
(* The checker's steps.                                                    *)

(* What the operators of the model mean on a text that was checked.        *)
LEMMA StateFacts ==
  ASSUME NEW f, NEW U, Body(prog, blocks, envs, f, U)
  PROVE  /\ Meant = MeantAt(blocks, f, Len(envs)) /\ Meant \in 0 .. Len(prog)
         /\ Path = PlacesOf(blocks)
         /\ MovedAt = envs[Top(envs)].moved
         /\ BorrowedMut <=> \E e \in 1 .. Len(envs) : envs[e].mut
         /\ BorrowedIm <=> \E e \in 1 .. Len(envs) : envs[e].shared
         /\ OneKind(envs)
         /\ DOMAIN blocks = 1 .. Len(blocks) /\ DOMAIN envs = 1 .. Len(envs)
         /\ DOMAIN prog = 1 .. Len(prog)
         /\ Inner = blocks[Len(blocks)] /\ Last(envs) = envs[Len(envs)]
         /\ Len(prog) \in Nat /\ Len(blocks) \in Nat /\ Len(envs) \in Nat
         /\ Len(blocks) \in 1 .. Len(blocks) /\ Len(envs) \in 1 .. Len(envs)
         /\ prog \in Seq(TokenType) /\ blocks \in Seq(BlockType) /\ envs \in Seq(EnvType)
<1>1. /\ Shape(prog, blocks, envs, f) /\ Typed(prog, blocks, envs) /\ Decls(prog, blocks, envs, f)
      /\ BorrowsKnown(prog, blocks, envs, f)
  BY DEF Body, Known, Shape
<1>2. /\ Len(prog) \in Nat /\ Len(blocks) \in Nat /\ Len(envs) \in Nat
      /\ Len(blocks) >= 1 /\ Len(envs) >= 2
      /\ \A n \in 1 .. Len(blocks) : f[n] \in 2 .. Len(envs)
  BY <1>1, ShapeFacts
<1>3. prog \in Seq(TokenType) /\ blocks \in Seq(BlockType) /\ envs \in Seq(EnvType)
  BY <1>1 DEF Typed
<1>4. /\ DOMAIN blocks = 1 .. Len(blocks) /\ DOMAIN envs = 1 .. Len(envs)
      /\ DOMAIN prog = 1 .. Len(prog)
  BY <1>3
<1>5. Path = PlacesOf(blocks)
  BY <1>4 DEF Path, PlacesOf
<1>6. MovedAt = envs[Top(envs)].moved
  BY <1>4 DEF MovedAt, Top, Knowing
<1>7. Declaring(blocks, f, Len(envs)) = {n \in DOMAIN blocks : blocks[n].decl # None}
  <2>1. \A n \in 1 .. Len(blocks) : f[n] <= Len(envs)
    BY <1>2
  <2> QED
    BY <1>4, <2>1 DEF Declaring
<1>8. Meant = MeantAt(blocks, f, Len(envs))
  BY <1>7 DEF Meant, MeantAt
<1>9. Meant \in 0 .. Len(prog)
  <2>1. CASE Declaring(blocks, f, Len(envs)) = {}
    BY <1>2, <1>8, <2>1 DEF MeantAt
  <2>2. CASE Declaring(blocks, f, Len(envs)) # {}
    <3> DEFINE n == Highest(Declaring(blocks, f, Len(envs)))
    <3>1. n \in Declaring(blocks, f, Len(envs))
      BY <1>2, <2>2, DeclaringHighest
    <3>2. n \in 1 .. Len(blocks) /\ blocks[n].decl # None
      BY <3>1 DEF Declaring
    <3>3. DeclBlock(prog, blocks, envs, f, n)
      BY <1>1, <3>2 DEF Decls
    <3>4. blocks[n].decl \in 1 .. Len(prog)
      BY <3>2, <3>3 DEF DeclBlock
    <3>5. Meant = blocks[n].decl
      BY <1>8, <2>2 DEF MeantAt
    <3> QED
      BY <1>2, <3>4, <3>5
  <2> QED
    BY <2>1, <2>2
<1>10. /\ BorrowedMut <=> \E e \in 1 .. Len(envs) : envs[e].mut
       /\ BorrowedIm <=> \E e \in 1 .. Len(envs) : envs[e].shared
  BY <1>4 DEF BorrowedMut, BorrowedIm
<1>11. Inner = blocks[Len(blocks)] /\ Last(envs) = envs[Len(envs)]
  BY DEF Inner, Last
<1>12. Len(blocks) \in 1 .. Len(blocks) /\ Len(envs) \in 1 .. Len(envs)
  BY <1>2
<1> QED
  BY <1>1, <1>2, <1>3, <1>4, <1>5, <1>6, <1>8, <1>9, <1>10, <1>11, <1>12 DEF BorrowsKnown

(* What a borrow that is taken means for the environments.                 *)
LEMMA BorrowTaken ==
  ASSUME NEW f, NEW U, Body(prog, blocks, envs, f, U), NEW mutable \in BOOLEAN,
         ~BorrowFails(mutable)
  PROVE  /\ envs[Top(envs)].moved = 0
         /\ mutable => \A e \in 1 .. Len(envs) : ~envs[e].shared
         /\ ~mutable => \A e \in 1 .. Len(envs) : ~envs[e].mut
<1>1. /\ MovedAt = envs[Top(envs)].moved
      /\ BorrowedMut <=> \E e \in 1 .. Len(envs) : envs[e].mut
      /\ BorrowedIm <=> \E e \in 1 .. Len(envs) : envs[e].shared
      /\ OneKind(envs)
  BY StateFacts
<1> QED
  BY <1>1 DEF BorrowFails, OneKind

Saved == \E f, U : Body(prog, blocks, envs, f, U)

(* Statements that change no block and no environment.                     *)
LEMMA PlainSaved ==
  ASSUME NEW f, NEW U, Body(prog, blocks, envs, f, U), NEW op \in {"use", "break"},
         op = "use" => MovedAt = 0,
         op = "break" => \E n \in DOMAIN blocks : blocks[n].op \in Loops,
         Accept(op), blocks' = blocks, envs' = envs
  PROVE  Saved'
<1>1. /\ Meant = MeantAt(blocks, f, Len(envs)) /\ Meant \in 0 .. Len(prog)
      /\ Path = PlacesOf(blocks) /\ MovedAt = envs[Top(envs)].moved /\ OneKind(envs)
      /\ DOMAIN blocks = 1 .. Len(blocks) /\ Len(prog) \in Nat
      /\ blocks \in Seq(BlockType) /\ envs \in Seq(EnvType)
      /\ Shape(prog, blocks, envs, f)
  BY StateFacts DEF Body, Known
<1>2. op \in Simple /\ op \notin Returning /\ op \notin Moving /\ Meant \in 0 .. Len(prog) + 1 /\ op \in Ops
  BY <1>1 DEF Simple, Returning, Moving, Ops
<1>3. prog' = Added(prog, blocks, op, Meant, 0, FALSE)
  BY <1>1 DEF Accept, Added
<1>4. Taken(blocks, envs, f, op, Meant)
  <2>1. op \notin {"hold", "lend", "move", "returnX", "share", "lendShared"}
        /\ (op \in Reads => op = "use")
    BY DEF Reads
  <2> QED
    BY <1>1, <2>1 DEF Taken
<1>5. BlocksAfter(blocks, blocks', op)
  BY <1>1, <1>2 DEF BlocksAfter, BlockKept
<1>6. EnvsAfter(envs, envs', op)
  BY <1>1 DEF EnvsAfter
<1>7. MarksAfter(prog, blocks, envs, prog', blocks', envs', f)
  <2>1. prog'[Len(prog) + 1].op = op
    <3>1. AddedBy(prog, blocks, op, Meant, prog')
      BY <1>1, <1>2, <1>3, AddedPlain
    <3> QED
      BY <3>1 DEF AddedBy
  <2>2. MovesNot(prog, blocks, envs, prog', blocks', envs')
    BY <1>2, <2>1 DEF MovesNot, SameDecls
  <2> QED
    BY <2>2 DEF MarksAfter
<1>8. \E V : Body(prog', blocks', envs', f, V)
  BY <1>2, <1>3, <1>4, <1>5, <1>6, <1>7, SimpleBody
<1> QED
  BY <1>8 DEF Saved

(* A statement that takes the value.                                       *)
LEMMA TakenSaved ==
  ASSUME NEW f, NEW U, Body(prog, blocks, envs, f, U), NEW op, NEW leaves, leaves \in BOOLEAN,
         op \in {"move", "returnX"}, leaves <=> op = "returnX",
         MovedAt = 0, ~BorrowedMut, Accept(op), envs' = MarkMoved(Len(prog) + 1),
         blocks' = [blocks EXCEPT ![Len(blocks)].ends = @ \/ leaves]
  PROVE  Saved'
<1> DEFINE L == Len(blocks)
           E == Len(envs)
           q == Target(envs)
<1>1. /\ Meant = MeantAt(blocks, f, E) /\ Meant \in 0 .. Len(prog)
      /\ Path = PlacesOf(blocks) /\ MovedAt = envs[Top(envs)].moved /\ OneKind(envs)
      /\ DOMAIN envs = 1 .. E /\ Len(prog) \in Nat /\ L \in 1 .. L /\ E \in 1 .. E
      /\ blocks \in Seq(BlockType) /\ envs \in Seq(EnvType)
      /\ BorrowedMut <=> \E e \in 1 .. Len(envs) : envs[e].mut
  BY StateFacts
<1>2. op \in Simple /\ op \in Moving /\ op \in Ops /\ Meant \in 0 .. Len(prog) + 1
  BY <1>1 DEF Simple, Moving, Ops
<1>3. prog' = Added(prog, blocks, op, Meant, 0, FALSE)
  BY <1>1 DEF Accept, Added
<1>4. Shape(prog, blocks, envs, f) /\ Decls(prog, blocks, envs, f)
  BY DEF Body, Known
<1>5. q \in 1 .. E
  BY <1>4, TargetEnv
<1>6. envs' = [envs EXCEPT ![q].moved = Len(prog) + 1]
  BY <1>1 DEF MarkMoved, Target
<1>7. /\ envs' \in Seq(EnvType) /\ Len(envs') = E
      /\ envs'[q].moved = Len(prog) + 1
      /\ \A e \in 1 .. E :
           /\ e # q => envs'[e] = envs[e]
           /\ envs'[e].isolated = envs[e].isolated /\ envs'[e].inst = envs[e].inst
           /\ envs'[e].mut = envs[e].mut /\ envs'[e].shared = envs[e].shared
  <2>1. Len(prog) + 1 \in Nat
    BY <1>1
  <2> HIDE DEF q
  <2>2. MovedIn(envs, q, Len(prog) + 1, envs')
    BY <1>1, <1>5, <1>6, <2>1, MovedExcept
  <2> QED
    BY <2>2 DEF MovedIn
<1>8. /\ blocks' \in Seq(BlockType) /\ Len(blocks') = L
      /\ blocks'[L].ends = (blocks[L].ends \/ leaves)
      /\ \A n \in 1 .. L :
           /\ n # L => blocks'[n] = blocks[n]
           /\ BlockKept(blocks[n], blocks'[n]) /\ blocks'[n].decl = blocks[n].decl
  <2> DEFINE b == blocks[L].ends \/ leaves
  <2>1. b \in BOOLEAN /\ (blocks[L].ends => b)
    OBVIOUS
  <2>2. blocks' = [blocks EXCEPT ![L].ends = b]
    BY <1>1
  <2>3. EndsIn(blocks, L, b, blocks')
    BY <1>1, <2>1, <2>2, EndsExcept
  <2> QED
    BY <2>1, <2>3 DEF EndsIn
<1>9. Taken(blocks, envs, f, op, Meant)
  BY <1>1 DEF Taken
<1>10. BlocksAfter(blocks, blocks', op)
  <2>1. op \in Returning <=> leaves
    BY DEF Returning
  <2>2. blocks'[L].ends <=> blocks[L].ends \/ leaves
    BY <1>8
  <2> QED
    BY <1>8, <2>1, <2>2 DEF BlocksAfter
<1>11. EnvsAfter(envs, envs', op)
  BY <1>1, <1>7 DEF EnvsAfter, OneKind
<1>12. MarksAfter(prog, blocks, envs, prog', blocks', envs', f)
  <2>1. prog'[Len(prog) + 1].op = op /\ prog'[Len(prog) + 1].inst = Meant
    <3>1. AddedBy(prog, blocks, op, Meant, prog')
      BY <1>1, <1>2, <1>3, <1>4, AddedPlain
    <3> QED
      BY <3>1 DEF AddedBy
  <2>2. Moves(prog, blocks, envs, prog', blocks', envs', f)
    BY <1>1, <1>2, <1>7, <1>8, <2>1 DEF Moves, SameDecls
  <2> QED
    BY <2>2 DEF MarksAfter
<1>13. \E V : Body(prog', blocks', envs', f, V)
  BY <1>2, <1>3, <1>9, <1>10, <1>11, <1>12, SimpleBody
<1> QED
  BY <1>13 DEF Saved

(* A return without a value.                                               *)
LEMMA ReturnSaved ==
  ASSUME NEW f, NEW U, Body(prog, blocks, envs, f, U), CheckReturn
  PROVE  Saved'
<1> DEFINE L == Len(blocks)
<1>1. /\ Meant \in 0 .. Len(prog) /\ Path = PlacesOf(blocks) /\ OneKind(envs)
      /\ Len(prog) \in Nat /\ L \in 1 .. L
      /\ blocks \in Seq(BlockType) /\ envs \in Seq(EnvType)
  BY StateFacts
<1>2. "return" \in Simple /\ "return" \notin Moving /\ "return" \in Returning /\ "return" \notin Reads
  BY DEF Simple, Moving, Returning, Reads
<1>3. /\ prog' = Added(prog, blocks, "return", Meant, 0, FALSE)
      /\ blocks' = [blocks EXCEPT ![L].ends = TRUE] /\ envs' = envs
  BY <1>1 DEF CheckReturn, Accept, Added
<1>4. Shape(prog, blocks, envs, f) /\ Meant \in 0 .. Len(prog) + 1
  BY <1>1 DEF Body, Known
<1>5. EndsIn(blocks, L, TRUE, blocks')
  <2>1. TRUE \in BOOLEAN
    OBVIOUS
  <2> QED
    BY <1>1, <1>3, <2>1, EndsExcept
<1>6. Taken(blocks, envs, f, "return", Meant)
  BY <1>2 DEF Taken
<1>7. BlocksAfter(blocks, blocks', "return")
  BY <1>2, <1>5 DEF BlocksAfter, EndsIn
<1>8. EnvsAfter(envs, envs', "return")
  BY <1>1, <1>3 DEF EnvsAfter
<1>9. MarksAfter(prog, blocks, envs, prog', blocks', envs', f)
  <2>1. AddedBy(prog, blocks, "return", Meant, prog')
    BY <1>2, <1>3, <1>4, AddedPlain
  <2>2. MovesNot(prog, blocks, envs, prog', blocks', envs')
    BY <1>2, <1>3, <1>5, <2>1 DEF MovesNot, SameDecls, AddedBy, EndsIn
  <2> QED
    BY <2>2 DEF MarksAfter
<1>10. \E V : Body(prog', blocks', envs', f, V)
  BY <1>2, <1>3, <1>4, <1>6, <1>7, <1>8, <1>9, SimpleBody
<1> QED
  BY <1>10 DEF Saved

(* A declaration.                                                          *)
LEMMA VarSaved ==
  ASSUME NEW f, NEW U, Body(prog, blocks, envs, f, U), CheckVar
  PROVE  Saved'
<1> DEFINE L == Len(blocks)
           E == Len(envs)
           N == Len(prog) + 1
<1>1. /\ Path = PlacesOf(blocks) /\ OneKind(envs) /\ DOMAIN envs = 1 .. E
      /\ Len(prog) \in Nat /\ L \in 1 .. L /\ E \in 1 .. E
      /\ blocks \in Seq(BlockType) /\ envs \in Seq(EnvType)
  BY StateFacts
<1>2. "decl" \in Simple /\ "decl" \notin Moving /\ "decl" \notin Returning /\ "decl" \notin Reads
  BY DEF Simple, Moving, Returning, Reads
<1>3. /\ prog' = Added(prog, blocks, "decl", N, 0, FALSE)
      /\ blocks' = [blocks EXCEPT ![L].decl = N]
      /\ envs' = [envs EXCEPT ![E].inst = N, ![E].moved = 0]
  BY <1>1 DEF CheckVar, Added, Here, DefineSymbol
<1>4. Shape(prog, blocks, envs, f) /\ N \in 0 .. Len(prog) + 1 /\ N \in Nat
  BY <1>1 DEF Body, Known
<1>5. DeclIn(blocks, L, N, blocks') /\ InstIn(envs, E, N, envs')
  <2> HIDE DEF N
  <2> QED
    BY <1>1, <1>3, <1>4, DeclExcept, InstExcept
<1>6. Taken(blocks, envs, f, "decl", N)
  BY <1>2 DEF Taken
<1>7. BlocksAfter(blocks, blocks', "decl")
  BY <1>1, <1>2, <1>5 DEF BlocksAfter, DeclIn
<1>8. EnvsAfter(envs, envs', "decl")
  BY <1>1, <1>5 DEF EnvsAfter, InstIn, OneKind
<1>9. MarksAfter(prog, blocks, envs, prog', blocks', envs', f)
  <2>1. AddedBy(prog, blocks, "decl", N, prog')
    BY <1>2, <1>3, <1>4, AddedPlain
  <2>2. \A n \in 1 .. L : n # L => blocks'[n].decl = blocks[n].decl
    BY <1>5 DEF DeclIn
  <2>3. \A e \in 1 .. E : e # E => envs'[e].inst = envs[e].inst /\ envs'[e].moved = envs[e].moved
    BY <1>5 DEF InstIn
  <2>4. prog'[N].op = "decl" /\ blocks'[L].decl = N /\ envs'[E].inst = N /\ envs'[E].moved = 0
    BY <1>5, <2>1 DEF InstIn, DeclIn, AddedBy
  <2>5. Declares(prog, blocks, envs, prog', blocks', envs')
    BY <2>2, <2>3, <2>4 DEF Declares
  <2> QED
    BY <2>5 DEF MarksAfter
<1>10. \E V : Body(prog', blocks', envs', f, V)
  BY <1>2, <1>3, <1>4, <1>6, <1>7, <1>8, <1>9, SimpleBody
<1> QED
  BY <1>10 DEF Saved

(* A borrow: the environments after it.                                    *)
Borrowed(es, es2, mutable, kept) ==
  /\ es2 \in Seq(EnvType) /\ Len(es2) = Len(es)
  /\ \A e \in 1 .. Len(es) :
       /\ es2[e].isolated = es[e].isolated /\ es2[e].inst = es[e].inst
       /\ es2[e].moved = es[e].moved
  /\ OneKind(es2)
  /\ \A e \in 1 .. Len(es) : es[e].shared => es2[e].shared
  /\ kept => \A e \in 1 .. Len(es) : es[e].mut => es2[e].mut
  /\ ~mutable => es2[Len(es)].shared
  /\ kept /\ mutable => \E e \in 1 .. Len(es) : es2[e].mut

LEMMA BorrowedSaved ==
  ASSUME NEW f, NEW U, Body(prog, blocks, envs, f, U), NEW mutable \in BOOLEAN, NEW kept, NEW op,
         ~BorrowFails(mutable), Accept(op), blocks' = blocks,
         Borrowed(envs, envs', mutable, kept),
         \/ op = "hold" /\ mutable /\ kept
         \/ op = "lend" /\ mutable
         \/ op \in {"share", "lendShared"} /\ ~mutable /\ kept
  PROVE  Saved'
<1>1. /\ Meant = MeantAt(blocks, f, Len(envs)) /\ Meant \in 0 .. Len(prog)
      /\ Path = PlacesOf(blocks) /\ Len(prog) \in Nat
      /\ blocks \in Seq(BlockType) /\ envs \in Seq(EnvType)
  BY StateFacts
<1>2. op \in Simple /\ op \notin Moving /\ op \notin Returning
  BY DEF Simple, Moving, Returning
<1>3. prog' = Added(prog, blocks, op, Meant, 0, FALSE)
  BY <1>1 DEF Accept, Added
<1>4. Shape(prog, blocks, envs, f) /\ Meant \in 0 .. Len(prog) + 1
  BY <1>1 DEF Body, Known
<1>5. Taken(blocks, envs, f, op, Meant)
  <2>1. /\ envs[Top(envs)].moved = 0
        /\ mutable => \A e \in 1 .. Len(envs) : ~envs[e].shared
        /\ ~mutable => \A e \in 1 .. Len(envs) : ~envs[e].mut
    BY BorrowTaken
  <2> QED
    BY <1>1, <2>1 DEF Taken
<1>6. BlocksAfter(blocks, blocks', op)
  BY <1>1, <1>2 DEF BlocksAfter, BlockKept
<1>7. EnvsAfter(envs, envs', op)
  BY DEF EnvsAfter, Borrowed
<1>8. MarksAfter(prog, blocks, envs, prog', blocks', envs', f)
  <2>1. AddedBy(prog, blocks, op, Meant, prog')
    BY <1>2, <1>3, <1>4, AddedPlain
  <2>2. MovesNot(prog, blocks, envs, prog', blocks', envs')
    BY <1>2, <2>1 DEF MovesNot, SameDecls, AddedBy, Borrowed
  <2> QED
    BY <2>2 DEF MarksAfter
<1>9. \E V : Body(prog', blocks', envs', f, V)
  BY <1>2, <1>3, <1>4, <1>5, <1>6, <1>7, <1>8, SimpleBody
<1> QED
  BY <1>9 DEF Saved

(* What Borrow and ClearBorrows do.                                        *)
LEMMA BorrowIs ==
  ASSUME NEW f, NEW U, Body(prog, blocks, envs, f, U), NEW mutable \in BOOLEAN,
         ~BorrowFails(mutable)
  PROVE  Borrowed(envs, Borrow(mutable), mutable, TRUE)
<1> DEFINE E == Len(envs)
<1>1. /\ OneKind(envs) /\ E \in 1 .. E /\ envs \in Seq(EnvType)
      /\ BorrowedMut <=> \E e \in 1 .. Len(envs) : envs[e].mut
  BY StateFacts
<1>2. /\ mutable => \A e \in 1 .. E : ~envs[e].shared
      /\ ~mutable => \A e \in 1 .. E : ~envs[e].mut
  BY BorrowTaken
<1>3. CASE mutable
  <2> DEFINE b == ~BorrowedMut \/ envs[E].mut
  <2>1. b \in BOOLEAN /\ Borrow(TRUE) = [envs EXCEPT ![E].mut = b]
    BY <1>1 DEF Borrow
  <2>2. MutIn(envs, E, b, Borrow(TRUE))
    BY <1>1, <2>1, MutExcept
  <2>3. \A e \in 1 .. E : envs[e].mut => Borrow(TRUE)[e].mut
    BY <1>1, <2>2 DEF MutIn
  <2>4. \E e \in 1 .. E : Borrow(TRUE)[e].mut
    <3>1. CASE BorrowedMut
      BY <1>1, <2>3, <3>1
    <3>2. CASE ~BorrowedMut
      BY <1>1, <2>2, <3>2 DEF MutIn
    <3> QED
      BY <3>1, <3>2
  <2>5. \A e \in 1 .. E : ~Borrow(TRUE)[e].shared
    BY <1>1, <1>2, <1>3, <2>2 DEF MutIn
  <2>6. \A e \in 1 .. E : /\ Borrow(TRUE)[e].isolated = envs[e].isolated
                          /\ Borrow(TRUE)[e].inst = envs[e].inst
                          /\ Borrow(TRUE)[e].moved = envs[e].moved
    BY <2>2 DEF MutIn
  <2>7. Borrow(TRUE) \in Seq(EnvType) /\ Len(Borrow(TRUE)) = E
    BY <2>2 DEF MutIn
  <2> HIDE DEF b
  <2>8. Borrowed(envs, Borrow(TRUE), TRUE, TRUE)
    BY <1>2, <1>3, <2>3, <2>4, <2>5, <2>6, <2>7 DEF Borrowed, OneKind
  <2> QED
    BY <1>3, <2>8
<1>4. CASE ~mutable
  <2>1. Borrow(FALSE) = [envs EXCEPT ![E].shared = TRUE]
    BY DEF Borrow
  <2>2. SharedIn(envs, E, Borrow(FALSE))
    BY <1>1, <2>1, SharedExcept
  <2>3. \A e \in 1 .. E : ~Borrow(FALSE)[e].mut
    BY <1>2, <1>4, <2>2 DEF SharedIn
  <2>4. Borrowed(envs, Borrow(FALSE), FALSE, TRUE)
    BY <1>2, <1>4, <2>2, <2>3 DEF Borrowed, OneKind, SharedIn
  <2> QED
    BY <1>4, <2>4
<1> QED
  BY <1>3, <1>4

LEMMA ClearIs ==
  ASSUME NEW es, NEW E, E = Len(es), E \in 1 .. E, NEW es2, Borrowed(es, es2, TRUE, TRUE)
  PROVE  Borrowed(es, ClearBorrows(es2), TRUE, FALSE)
<1>1. es2 \in Seq(EnvType) /\ Len(es2) = E /\ FALSE \in BOOLEAN
  BY DEF Borrowed
<1>2. ClearBorrows(es2) = [es2 EXCEPT ![E].mut = FALSE]
  BY <1>1 DEF ClearBorrows
<1>3. MutIn(es2, E, FALSE, ClearBorrows(es2))
  BY <1>1, <1>2, MutExcept
<1>4. /\ ClearBorrows(es2) \in Seq(EnvType) /\ Len(ClearBorrows(es2)) = E
      /\ \A e \in 1 .. E :
           /\ ClearBorrows(es2)[e].isolated = es2[e].isolated
           /\ ClearBorrows(es2)[e].inst = es2[e].inst
           /\ ClearBorrows(es2)[e].moved = es2[e].moved
           /\ ClearBorrows(es2)[e].shared = es2[e].shared
           /\ ClearBorrows(es2)[e].mut => es2[e].mut
  BY <1>1, <1>3 DEF MutIn
<1> QED
  BY <1>4, SMTT(30) DEF Borrowed, OneKind

(* Opening and closing, as the model writes them.                          *)
LEMMA OpenIs ==
  ASSUME NEW outer \in Seq(BlockType), NEW es \in Seq(EnvType), NEW op, NEW head,
         NEW term, term \in BOOLEAN, NEW first, first \in BOOLEAN,
         Open(op, head, term, first, outer, es)
  PROVE  Opens(prog, outer, es, op, Meant, head, term, first, prog', blocks', envs')
<1>1. {b.place : b \in ToSet(outer)} = PlacesOf(outer)
  BY DEF ToSet, PlacesOf
<1>2. Last(es) = es[Len(es)]
  BY DEF Last
<1> QED
  BY <1>1, <1>2 DEF Open, Opens, Added, Here

LEMMA RestoredPop ==
  ASSUME NEW f, NEW U, Body(prog, blocks, envs, f, U), Len(blocks) > 1
  PROVE  /\ Pop(blocks, envs, Outer, Restored)
         /\ Outer \in Seq(BlockType) /\ Restored \in Seq(EnvType)
         /\ Len(blocks) = Len(Outer) + 1
<1>1. /\ blocks \in Seq(BlockType) /\ envs \in Seq(EnvType) /\ Len(envs) > 1
      /\ Len(blocks) \in Nat /\ Inner = blocks[Len(blocks)]
  <2>1. Typed(prog, blocks, envs)
    BY DEF Body, Known, Shape
  <2>2. Len(envs) > 1
    BY <2>1, TypedParts
  <2> QED
    BY <2>2, StateFacts
<1>2. Outer \in Seq(BlockType) /\ Grows(Outer, blocks)
  BY <1>1, FrontGrows DEF Outer
<1>3. Front(envs) \in Seq(EnvType) /\ Grows(Front(envs), envs)
  BY <1>1, FrontGrows
<1>4. Len(Outer) >= 1 /\ Len(blocks) = Len(Outer) + 1
  BY <1>1, <1>2 DEF Grows
<1> QED
  BY <1>1, <1>2, <1>3, <1>4 DEF Restored, Pop

LEMMA OpenSaved ==
  ASSUME NEW f, NEW U, Body(prog, blocks, envs, f, U), NEW op, NEW term \in BOOLEAN,
         CheckOpen(op, term)
  PROVE  Saved'
<1>1. Meant \in 0 .. Len(prog) /\ blocks \in Seq(BlockType) /\ envs \in Seq(EnvType)
  BY StateFacts
<1>2. op \in Openers /\ Open(op, 0, term, FALSE, blocks, envs) /\ FALSE \in BOOLEAN
  BY DEF CheckOpen
<1>3. Opens(prog, blocks, envs, op, Meant, 0, term, FALSE, prog', blocks', envs')
  BY <1>1, <1>2, OpenIs
<1>4. \E g, V : Body(prog', blocks', envs', g, V)
  BY <1>1, <1>2, <1>3, OpenBody
<1> QED
  BY <1>4 DEF Saved

(* Only a block that was opened can be an if or a case.                    *)
LEMMA InnerOpened ==
  ASSUME NEW f, NEW U, Body(prog, blocks, envs, f, U), Inner.op # "block"
  PROVE  Len(blocks) > 1
<1>1. /\ Len(blocks) \in 1 .. Len(blocks) /\ Inner = blocks[Len(blocks)] /\ Len(blocks) \in Nat
  BY StateFacts
<1>2. blocks[1].op = "block"
  BY DEF Body
<1> QED
  BY <1>1, <1>2

LEMMA ElseSaved ==
  ASSUME NEW f, NEW U, Body(prog, blocks, envs, f, U), NEW term \in BOOLEAN, CheckElse(term)
  PROVE  Saved'
<1>1. /\ Meant \in 0 .. Len(prog) /\ Inner = blocks[Len(blocks)] /\ Inner.ends \in BOOLEAN
  <2>1. Meant \in 0 .. Len(prog) /\ Inner = blocks[Len(blocks)] /\ Len(blocks) \in 1 .. Len(blocks)
    BY StateFacts
  <2>2. Shape(prog, blocks, envs, f)
    BY DEF Body, Known
  <2> QED
    BY <2>1, <2>2, ShapeFacts
<1>2. /\ Inner.op = "if" /\ AsExpected
      /\ Open("else", Inner.head, term, Inner.ends, Outer, Restored)
  BY DEF CheckElse
<1>3. Len(blocks) > 1
  BY <1>2, InnerOpened
<1>4. /\ Pop(blocks, envs, Outer, Restored)
      /\ Outer \in Seq(BlockType) /\ Restored \in Seq(EnvType)
  BY <1>3, RestoredPop
<1>5. Opens(prog, Outer, Restored, "else", Meant, Inner.head, term, Inner.ends, prog', blocks', envs')
  BY <1>1, <1>2, <1>4, OpenIs
<1>6. Inner.op \in {"if", "else"} => Inner.ends = Inner.term
  BY <1>2 DEF AsExpected
<1>7. \E g, V : Body(prog', blocks', envs', g, V)
  BY <1>1, <1>2, <1>3, <1>4, <1>5, <1>6, NextBody
<1> QED
  BY <1>7 DEF Saved

LEMMA CaseSaved ==
  ASSUME NEW f, NEW U, Body(prog, blocks, envs, f, U), CheckCase
  PROVE  Saved'
<1>1. /\ Meant \in 0 .. Len(prog) /\ Inner = blocks[Len(blocks)]
  BY StateFacts
<1>2. /\ Inner.op \in {"switch", "case"} /\ FALSE \in BOOLEAN
      /\ Open("case", Inner.head, FALSE, FALSE, Outer, Restored)
  BY DEF CheckCase
<1>3. Len(blocks) > 1
  BY <1>2, InnerOpened
<1>4. /\ Pop(blocks, envs, Outer, Restored)
      /\ Outer \in Seq(BlockType) /\ Restored \in Seq(EnvType)
  BY <1>3, RestoredPop
<1>5. Opens(prog, Outer, Restored, "case", Meant, Inner.head, FALSE, FALSE, prog', blocks', envs')
  BY <1>2, <1>4, OpenIs
<1>6. \E g, V : Body(prog', blocks', envs', g, V)
  BY <1>1, <1>2, <1>3, <1>4, <1>5, NextBody
<1> QED
  BY <1>6 DEF Saved

LEMMA EndSaved ==
  ASSUME NEW f, NEW U, Body(prog, blocks, envs, f, U), CheckEnd
  PROVE  Saved'
<1> DEFINE l == Len(Outer)
           b == Outer[l].ends \/ IfReturns
<1>1. /\ Meant \in 0 .. Len(prog) /\ Inner = blocks[Len(blocks)] /\ Path = PlacesOf(blocks)
  BY StateFacts
<1>2. /\ Len(blocks) > 1 /\ AsExpected /\ envs' = Restored
      /\ prog' = Added(prog, blocks, "end", Meant, Inner.head, FALSE)
      /\ blocks' = [Outer EXCEPT ![l].ends = @ \/ IfReturns]
  BY <1>1 DEF CheckEnd, Added
<1>3. /\ Pop(blocks, envs, Outer, Restored)
      /\ Outer \in Seq(BlockType) /\ Restored \in Seq(EnvType)
      /\ l >= 1 /\ l \in Nat
  BY <1>2, RestoredPop DEF Pop
<1>4. EndsIn(Outer, l, b, blocks') /\ (Outer[l].ends => b)
  <2>1. l \in 1 .. l /\ b \in BOOLEAN
    BY <1>3
  <2>2. blocks' = [Outer EXCEPT ![l].ends = b]
    BY <1>2, <2>1
  <2> QED
    BY <1>3, <2>1, <2>2, EndsExcept
<1>5. Inner.op \in {"if", "else"} => Inner.ends = Inner.term
  BY <1>2 DEF AsExpected
<1>6. /\ blocks' \in Seq(BlockType) /\ Len(blocks') = l
      /\ \A n \in 1 .. l :
           /\ BlockKept(Outer[n], blocks'[n]) /\ blocks'[n].decl = Outer[n].decl
           /\ n # l => blocks'[n] = Outer[n]
  BY <1>4 DEF EndsIn
<1>7. blocks'[l].ends => Outer[l].ends \/ (Inner.op = "else" /\ Inner.ends /\ Inner.first)
  BY <1>4 DEF EndsIn, IfReturns
<1>8. \E g, V : Body(prog', blocks', envs', g, V)
  <2> DEFINE i == blocks[Len(blocks)]
  <2>1. Closes(blocks, Outer, blocks')
    BY <1>1, <1>6, <1>7 DEF Closes
  <2>2. /\ prog' = Added(prog, blocks, "end", Meant, i.head, FALSE)
        /\ i.op \in {"if", "else"} => i.ends = i.term
    BY <1>1, <1>2, <1>5
  <2>3. Len(blocks) > 1
    BY <1>2
  <2>4. \E g, V : Body(prog', blocks', Restored, g, V)
    BY <1>1, <1>3, <2>1, <2>2, <2>3, EndBody
  <2> QED
    BY <1>2, <2>4
<1> QED
  BY <1>8 DEF Saved

-----------------------------------------------------------------------------
(* The inductive invariant: while the body is checked and while it runs,   *)
(* the text is one that the checker took, for some alignment f of blocks   *)
(* and environments and some set U of places that are never reached; and   *)
(* execution stays out of U and marks what was moved.                      *)

Rests == at = 1 /\ defers = <<>> /\ moved = [d \in Places |-> 0]

MovedWell(pr, mv) ==
  /\ mv \in [Places -> Nat]
  /\ \A d \in Places :
       mv[d] # 0 => mv[d] \in 1 .. Len(pr) /\ pr[mv[d]].op \in Moving /\ pr[mv[d]].inst = d

Deferred(pr, U) == {k \in 1 .. Len(pr) : pr[k].op = "defer" /\ k \notin U}

RunsOn(U) ==
  /\ Len(blocks) = 1
  /\ at \in 1 .. Len(prog) + 1 /\ at \notin U
  /\ defers \in Seq(Deferred(prog, U))
  /\ MovedWell(prog, moved)

IInv ==
  /\ phase \in {"checking", "rejected", "running", "faulty", "done"}
  /\ phase = "checking" => Len(prog) <= MaxLen /\ Rests /\ Saved
  /\ phase = "running" =>
       Len(prog) <= MaxLen /\ \E f, U : Body(prog, blocks, envs, f, U) /\ RunsOn(U)
  /\ SharedNotMutated /\ MutableBorrowGuarded
  /\ MissedMoves /\ AlarmsMeanPaths /\ ReturnsWhenRequired

LEMMA InitSaved == Init => Saved
<1> SUFFICES ASSUME Init
             PROVE  Saved
  OBVIOUS
<1> DEFINE b == Block("block", 0, 0, TRUE, FALSE, FALSE)
           e1 == TypeEnv(FALSE, 0)
           e2 == TypeEnv(FALSE, None)
           f == [n \in 1 .. 1 |-> 2]
<1>1. prog = <<>> /\ blocks = <<b>> /\ envs = <<e1, e2>>
  BY DEF Init
<1>2. /\ b \in BlockType /\ b.op = "block" /\ b.place = 0 /\ b.own = TRUE /\ b.decl = None
      /\ b.ends = FALSE
  BY DEF Block, BlockType, None, Ops, Openers
<1>3. /\ e1 \in EnvType /\ e2 \in EnvType
      /\ e1.isolated = FALSE /\ e1.inst = 0 /\ e1.moved = 0 /\ e1.mut = FALSE /\ e1.shared = FALSE
      /\ e2.isolated = FALSE /\ e2.inst = None /\ e2.moved = 0 /\ e2.mut = FALSE /\ e2.shared = FALSE
  BY DEF TypeEnv, EnvType, None
<1> HIDE DEF b, e1, e2
<1>4. /\ prog \in Seq(TokenType) /\ Len(prog) = 0 /\ 1 .. Len(prog) = {}
      /\ blocks \in Seq(BlockType) /\ Len(blocks) = 1 /\ blocks[1] = b
      /\ envs \in Seq(EnvType) /\ Len(envs) = 2 /\ envs[1] = e1 /\ envs[2] = e2
  BY <1>1, <1>2, <1>3
<1>5. /\ \A n \in 1 .. Len(blocks) : n = 1 /\ blocks[n] = b
      /\ 2 .. Len(blocks) = {}
      /\ \A e \in 1 .. Len(envs) : ~envs[e].isolated /\ envs[e].moved = 0 /\ ~envs[e].mut /\ ~envs[e].shared
      /\ \A e \in 2 .. Len(envs) : envs[e].inst = None
  BY <1>3, <1>4
<1>6. f \in [1 .. 1 -> 2 .. 2] /\ f[1] = 2
  OBVIOUS
<1> HIDE DEF f
<1>7. Shape(prog, blocks, envs, f)
  <2>1. Typed(prog, blocks, envs)
    BY <1>4 DEF Typed
  <2>2. Text(prog)
    BY <1>4 DEF Text
  <2>3. Align(prog, blocks, envs, f)
    BY <1>2, <1>4, <1>5, <1>6 DEF Align
  <2>4. Nest(prog, blocks)
    BY <1>2, <1>4, <1>5 DEF Nest
  <2> QED
    BY <2>1, <2>2, <2>3, <2>4 DEF Shape
<1>8. Decls(prog, blocks, envs, f)
  <2>1. \A n \in 1 .. Len(blocks) : blocks[n].decl = None
    BY <1>2, <1>5
  <2>2. envs[1].inst = 0
    BY <1>3, <1>4
  <2> QED
    BY <1>5, <2>1, <2>2 DEF Decls, DeclBlock, DeclEnv
<1>9. MovesKnown(prog, blocks, envs, f) /\ MarksKnown(prog, blocks, envs, f)
  BY <1>4, <1>5 DEF MovesKnown, MarksKnown
<1>10. BorrowsKnown(prog, blocks, envs, f)
  BY <1>4, <1>5 DEF BorrowsKnown, OneKind
<1>11. ReturnsKnown(prog, blocks) /\ MovesSeen(prog)
  BY <1>4, <1>5 DEF ReturnsKnown, MovesSeen
<1>12. Heads(prog, blocks)
  BY <1>4, <1>5 DEF Heads
<1>13. Flow(prog, blocks, {})
  <2>1. ~Ended(blocks, Len(blocks))
    BY <1>2, <1>5 DEF Ended
  <2> QED
    BY <1>4, <1>5, <2>1 DEF Flow
<1>14. Guarded(prog, Len(prog))
  BY <1>4 DEF Guarded
<1>15. Body(prog, blocks, envs, f, {})
  BY <1>2, <1>4, <1>7, <1>8, <1>9, <1>10, <1>11, <1>12, <1>13, <1>14 DEF Body, Known
<1> QED
  BY <1>15 DEF Saved

(* A text that keeps to the borrows has the two properties of borrows; of  *)
(* a rejected one, the text without its last statement.                    *)
LEMMA GuardedHolds ==
  ASSUME prog' \in Seq(TokenType),
         \/ phase' # "rejected" /\ Guarded(prog', Len(prog'))
         \/ phase' = "rejected" /\ error'[2] = Len(prog') /\ Guarded(prog', Len(prog') - 1)
  PROVE  SharedNotMutated' /\ MutableBorrowGuarded'
<1>1. DOMAIN prog' = 1 .. Len(prog') /\ Len(prog') \in Nat
  OBVIOUS
<1> DEFINE n == IF phase' = "rejected" THEN Len(prog') - 1 ELSE Len(prog')
<1>2. Guarded(prog', n)
  OBVIOUS
<1>3. ASSUME NEW h, NEW ops, NEW jk \in AcceptedUnder(h, ops)'
      PROVE  jk[1] \in 1 .. n /\ jk[2] \in 1 .. n /\ Under(prog', jk[1], jk[2], h, ops)
  <2>1. /\ jk[1] \in 1 .. Len(prog') /\ jk[2] \in 1 .. Len(prog') /\ Under(prog', jk[1], jk[2], h, ops)
        /\ phase' = "rejected" => jk[2] # error'[2]
    BY <1>1 DEF AcceptedUnder, Under
  <2>2. jk[1] < jk[2]
    BY <2>1 DEF Under
  <2> QED
    BY <1>1, <2>1, <2>2
<1> HIDE DEF n
<1>4. SharedNotMutated'
  <2>1. ASSUME NEW jk \in AcceptedUnder("share", {"hold", "lend"})'
        PROVE  FALSE
    <3>1. jk[1] \in 1 .. n /\ jk[2] \in 1 .. n /\ Under(prog', jk[1], jk[2], "share", {"hold", "lend"})
      BY <1>3, <2>1
    <3> QED
      BY <1>2, <3>1 DEF Guarded
  <2> QED
    BY <2>1 DEF SharedNotMutated
<1>5. MutableBorrowGuarded'
  <2> DEFINE ops == {"move", "returnX", "share", "lendShared"}
  <2>1. ASSUME NEW jk \in AcceptedUnder("hold", ops)'
        PROVE  \E l \in jk[1] + 1 .. jk[2] - 1 : prog'[l].op = "lend"
    <3>1. jk[1] \in 1 .. n /\ jk[2] \in 1 .. n /\ Under(prog', jk[1], jk[2], "hold", ops)
      BY <1>3, <2>1
    <3> QED
      BY <1>2, <3>1 DEF Guarded
  <2> QED
    BY <2>1 DEF MutableBorrowGuarded
<1> QED
  BY <1>4, <1>5

(* What is reported is a move that a path reaches the use from.            *)
LEMMA RejectHolds ==
  ASSUME NEW f, NEW U, Body(prog, blocks, envs, f, U), NEW op \in Simple, NEW j \in {0, MovedAt},
         Reject(op, j)
  PROVE  SharedNotMutated' /\ MutableBorrowGuarded' /\ AlarmsMeanPaths'
<1> DEFINE N == Len(prog) + 1
<1>1. /\ Meant = MeantAt(blocks, f, Len(envs)) /\ Meant \in 0 .. Len(prog)
      /\ Path = PlacesOf(blocks) /\ MovedAt = envs[Top(envs)].moved /\ Len(prog) \in Nat
  BY StateFacts
<1>2. /\ Shape(prog, blocks, envs, f) /\ Decls(prog, blocks, envs, f)
      /\ MarksKnown(prog, blocks, envs, f) /\ ReturnsKnown(prog, blocks)
      /\ Guarded(prog, Len(prog)) /\ Text(prog) /\ Nest(prog, blocks) /\ Meant \in 0 .. N
  BY <1>1 DEF Body, Known, Shape
<1>3. prog' = Added(prog, blocks, op, Meant, 0, FALSE) /\ phase' = "rejected" /\ error' = <<j, N>>
  BY <1>1 DEF Reject, Added, Here
<1>4. AddedBy(prog, blocks, op, Meant, prog')
  BY <1>2, <1>3, AddedPlain
<1>5. /\ prog' \in Seq(TokenType) /\ Len(prog') = N /\ \A k \in 1 .. Len(prog) : prog'[k] = prog[k]
      /\ prog'[N].inst = Meant /\ prog'[N].path = PlacesOf(blocks) /\ Grows(prog, prog')
  BY <1>4 DEF AddedBy, Grows
<1>6. SharedNotMutated' /\ MutableBorrowGuarded'
  <2>1. Guarded(prog', Len(prog') - 1)
    <3>1. Len(prog') - 1 = Len(prog)
      BY <1>1, <1>5
    <3>2. \A a, c \in 1 .. Len(prog) : \A l \in a + 1 .. c - 1 : l \in 1 .. Len(prog)
      BY <1>1
    <3> QED
      BY <1>2, <1>5, <3>1, <3>2 DEF Guarded, Under
  <2> QED
    BY <1>3, <1>5, <2>1, GuardedHolds
<1>7. AlarmsMeanPaths'
  <2> SUFFICES ASSUME j # 0
               PROVE  /\ prog'[j].inst = prog'[N].inst \/ Isolated(prog', prog'[j].inst)
                      /\ \A p \in prog'[j].path \ prog'[N].path :
                           /\ prog'[p].op \notin {"while", "switch", "case"}
                           /\ ~\E r \in p + 1 .. N - 1 :
                                /\ prog'[r].op \in {"return", "returnX"}
                                /\ prog'[r].path = prog'[p].path \cup {p}
                                /\ prog'[p].op \in {"if", "else"}
    <3>1. error'[1] = j /\ error'[2] = N
      BY <1>3
    <3>2. \A k : InIsolated(k)' <=> Isolated(prog', k)
      BY DEF InIsolated, Isolated
    <3> HIDE DEF N
    <3> QED
      BY <3>1, <3>2 DEF AlarmsMeanPaths
  <2>1. /\ Top(envs) \in 1 .. Len(envs) /\ envs[Top(envs)].inst # None
        /\ MeantAt(blocks, f, Top(envs)) = Meant
    BY <1>1, <1>2, TopEnv
  <2>2. Mark(prog, blocks, f, Top(envs), j)
    BY <1>1, <1>2, <2>1 DEF MarksKnown
  <2>3. j \in 1 .. Len(prog) /\ prog'[j] = prog[j]
    BY <1>5, <2>2 DEF Mark
  <2>4. prog'[j].inst = prog'[N].inst \/ Isolated(prog', prog'[j].inst)
    <3>1. CASE prog[j].inst = Meant
      BY <1>5, <2>3, <3>1
    <3>2. CASE prog[j].inst \in 1 .. Len(prog) /\ Isolated(prog, prog[j].inst)
      <4>1. Isolated(prog', prog[j].inst)
        BY <1>1, <1>2, <1>5, <3>2, IsolatedKept
      <4> QED
        BY <2>3, <4>1
    <3> QED
      BY <2>1, <2>2, <3>1, <3>2 DEF Mark
  <2>5. ASSUME NEW p \in prog'[j].path \ prog'[N].path
        PROVE  /\ prog'[p].op \notin {"while", "switch", "case"}
               /\ ~\E r \in p + 1 .. N - 1 :
                    /\ prog'[r].op \in {"return", "returnX"}
                    /\ prog'[r].path = prog'[p].path \cup {p}
                    /\ prog'[p].op \in {"if", "else"}
    <3>1. p \in prog[j].path /\ p \notin PlacesOf(blocks)
      BY <1>5, <2>3
    <3>2. p # 0
      <4>1. blocks[1].place = 0 /\ 1 \in 1 .. Len(blocks)
        BY <1>2, ShapeFacts DEF Nest
      <4> QED
        BY <3>1, <4>1 DEF PlacesOf
    <3>3. p \in 1 .. Len(prog)
      BY <1>2, <2>3, <3>1, <3>2, ShapeFacts
    <3>4. ~prog[p].iso
      BY <2>2, <3>1, <3>2 DEF Mark, PlacesOf
    <3>5. prog[p].op \notin {"while", "switch", "case"}
      BY <1>2, <3>3, <3>4 DEF Text, TokenOK
    <3>6. ASSUME NEW r \in p + 1 .. N - 1, prog[p].op \in {"if", "else"}, ReturnIn(prog, r, p)
          PROVE  FALSE
      <4>1. r \in 1 .. Len(prog)
        BY <1>1, <3>3
      <4> QED
        BY <1>2, <3>1, <3>3, <3>4, <3>6, <4>1 DEF ReturnsKnown
    <3>7. \A r \in p + 1 .. N - 1 : prog'[r] = prog[r]
      BY <1>1, <1>5, <3>3
    <3> QED
      BY <1>5, <3>3, <3>5, <3>6, <3>7 DEF ReturnIn, Returning
  <2> QED
    BY <2>4, <2>5
<1> QED
  BY <1>6, <1>7

(* A step of the checker takes a statement, reports it, or ends the text.  *)
LEMMA CheckStep ==
  ASSUME NEW f, NEW U, Body(prog, blocks, envs, f, U), Check
  PROVE  \/ phase' = phase /\ Saved' /\ UNCHANGED runVars
         \/ \E op \in Simple, j \in {0, MovedAt} : Reject(op, j)
         \/ CheckFinished
<1> DEFINE Goal == \/ phase' = phase /\ Saved' /\ UNCHANGED runVars
                   \/ \E op \in Simple, j \in {0, MovedAt} : Reject(op, j)
                   \/ CheckFinished
<1>1. \A op \in Simple : Reject(op, 0) \/ Reject(op, MovedAt) => Goal
  OBVIOUS
<1>2. {"use", "move", "returnX", "break", "hold", "share", "lend", "lendShared"} \subseteq Simple
  BY DEF Simple
<1>3. \A op : Accept(op) => phase' = phase /\ UNCHANGED runVars
  BY DEF Accept
<1> HIDE DEF Goal
<1>4. Saved' /\ phase' = phase /\ UNCHANGED runVars => Goal
  BY DEF Goal
<1>5. ASSUME CheckUse
      PROVE  Goal
  <2>1. CASE MovedAt # 0
    BY <1>1, <1>2, <1>5, <2>1 DEF CheckUse
  <2>2. CASE MovedAt = 0
    <3>1. Accept("use") /\ blocks' = blocks /\ envs' = envs
      BY <1>5, <2>2 DEF CheckUse
    <3>2. Saved'
      BY <2>2, <3>1, PlainSaved
    <3> QED
      BY <1>3, <1>4, <3>1, <3>2
  <2> QED
    BY <2>1, <2>2
<1>6. ASSUME NEW op, NEW leaves, leaves \in BOOLEAN, TakeValue(op, leaves),
             op \in {"move", "returnX"}, leaves <=> op = "returnX"
      PROVE  Goal
  <2>1. CASE MovedAt # 0 \/ BorrowedMut
    <3>1. Reject(op, MovedAt) \/ Reject(op, 0)
      BY <1>6, <2>1 DEF TakeValue
    <3> QED
      BY <1>1, <1>2, <1>6, <3>1
  <2>2. CASE MovedAt = 0 /\ ~BorrowedMut
    <3>1. /\ Accept(op) /\ envs' = MarkMoved(Len(prog) + 1)
          /\ blocks' = [blocks EXCEPT ![Len(blocks)].ends = @ \/ leaves]
      BY <1>6, <2>2 DEF TakeValue, Here
    <3>2. Saved'
      BY <1>6, <2>2, <3>1, TakenSaved
    <3> QED
      BY <1>3, <1>4, <3>1, <3>2
  <2> QED
    BY <2>1, <2>2
<1>7. ASSUME CheckMove \/ CheckReturnX
      PROVE  Goal
  <2>1. TakeValue("move", FALSE) \/ TakeValue("returnX", TRUE)
    BY <1>7 DEF CheckMove, CheckReturnX
  <2>2. TakeValue("move", FALSE) => Goal
    <3>1. FALSE \in BOOLEAN /\ (FALSE <=> "move" = "returnX")
      OBVIOUS
    <3> QED
      BY <1>6, <3>1
  <2>3. TakeValue("returnX", TRUE) => Goal
    BY <1>6
  <2> QED
    BY <2>1, <2>2, <2>3
<1>8. ASSUME CheckReturn
      PROVE  Goal
  BY <1>3, <1>4, <1>8, ReturnSaved DEF CheckReturn
<1>9. ASSUME CheckBreak
      PROVE  Goal
  <2>1. /\ Accept("break") /\ blocks' = blocks /\ envs' = envs
        /\ \E n \in DOMAIN blocks : blocks[n].op \in Loops
    BY <1>9 DEF CheckBreak
  <2>2. Saved'
    BY <2>1, PlainSaved
  <2> QED
    BY <1>3, <1>4, <2>1, <2>2
<1>10. ASSUME CheckVar
       PROVE  Goal
  BY <1>4, <1>10, VarSaved DEF CheckVar
<1>11. ASSUME NEW op, CheckHold(op)
       PROVE  Goal
  <2> DEFINE mutable == op = "hold"
  <2>1. op \in {"hold", "share"} /\ mutable \in BOOLEAN
    BY <1>11 DEF CheckHold
  <2>2. CASE BorrowFails(mutable)
    BY <1>1, <1>2, <1>11, <2>1, <2>2 DEF CheckHold
  <2>3. CASE ~BorrowFails(mutable)
    <3>1. Accept(op) /\ blocks' = blocks /\ envs' = Borrow(mutable)
      BY <1>11, <2>3 DEF CheckHold
    <3>2. Borrowed(envs, envs', mutable, TRUE)
      BY <2>1, <2>3, <3>1, BorrowIs
    <3>3. Saved'
      BY <2>1, <2>3, <3>1, <3>2, BorrowedSaved
    <3> QED
      BY <1>3, <1>4, <3>1, <3>3
  <2> QED
    BY <2>2, <2>3
<1>12. ASSUME NEW op, CheckLend(op)
       PROVE  Goal
  <2>1. op \in {"lend", "lendShared"}
    BY <1>12 DEF CheckLend
  <2>2. CASE op = "lend"
    <3>1. CASE BorrowFails(TRUE)
      BY <1>1, <1>2, <1>12, <2>2, <3>1 DEF CheckLend
    <3>2. CASE ~BorrowFails(TRUE)
      <4>1. Accept(op) /\ blocks' = blocks /\ envs' = ClearBorrows(Borrow(TRUE))
        BY <1>12, <2>2, <3>2 DEF CheckLend
      <4>2. Borrowed(envs, Borrow(TRUE), TRUE, TRUE) /\ Len(envs) \in 1 .. Len(envs)
        BY <3>2, BorrowIs, StateFacts
      <4>3. Borrowed(envs, envs', TRUE, FALSE)
        BY <4>1, <4>2, ClearIs
      <4>4. Saved'
        BY <2>2, <3>2, <4>1, <4>3, BorrowedSaved
      <4> QED
        BY <1>3, <1>4, <4>1, <4>4
    <3> QED
      BY <3>1, <3>2
  <2>3. CASE op = "lendShared"
    <3>1. CASE BorrowFails(FALSE)
      BY <1>1, <1>2, <1>12, <2>3, <3>1 DEF CheckLend
    <3>2. CASE ~BorrowFails(FALSE)
      <4>1. Accept(op) /\ blocks' = blocks /\ envs' = Borrow(FALSE)
        BY <1>12, <2>3, <3>2 DEF CheckLend
      <4>2. Borrowed(envs, envs', FALSE, TRUE)
        BY <3>2, <4>1, BorrowIs
      <4>3. Saved'
        BY <2>3, <3>2, <4>1, <4>2, BorrowedSaved
      <4> QED
        BY <1>3, <1>4, <4>1, <4>3
    <3> QED
      BY <3>1, <3>2
  <2> QED
    BY <2>1, <2>2, <2>3
<1>13. ASSUME NEW op, NEW term \in BOOLEAN, CheckOpen(op, term)
       PROVE  Goal
  BY <1>4, <1>13, OpenSaved DEF CheckOpen, Open
<1>14. ASSUME NEW term \in BOOLEAN, CheckElse(term)
       PROVE  Goal
  BY <1>4, <1>14, ElseSaved DEF CheckElse, Open
<1>15. ASSUME CheckCase
       PROVE  Goal
  BY <1>4, <1>15, CaseSaved DEF CheckCase, Open
<1>16. ASSUME CheckEnd
       PROVE  Goal
  BY <1>4, <1>16, EndSaved DEF CheckEnd
<1>17. CheckFinished => Goal
  BY DEF Goal
<1>18. Goal
  BY <1>5, <1>7, <1>8, <1>9, <1>10, <1>11, <1>12, <1>13, <1>14, <1>15, <1>16, <1>17 DEF Check
<1> QED
  BY <1>18 DEF Goal

-----------------------------------------------------------------------------
(* Execution.  What belongs to a statement that opens a block: it has an   *)
(* end, which is its last part; and where control goes is reached.         *)

LEMMA PartsFacts ==
  ASSUME NEW f, NEW U, Body(prog, blocks, envs, f, U), Len(blocks) = 1,
         NEW k \in 1 .. Len(prog), prog[k].op \in Openers
  PROVE  /\ EndOf(k) \in 1 .. Len(prog) /\ prog[EndOf(k)].op = "end" /\ prog[EndOf(k)].head = k
         /\ Lowest(NextParts(k)) \in NextParts(k)
         /\ \A m \in NextParts(k) : Lowest(NextParts(k)) <= m
         /\ \A m \in NextParts(k) : m \in 1 .. Len(prog) /\ prog[m].head = k /\ prog[m].op \in Enders
<1>1. /\ Len(prog) \in Nat /\ DOMAIN prog = 1 .. Len(prog)
  BY StateFacts
<1>2. Heads(prog, blocks)
  BY DEF Body
<1>3. PICK y \in 1 .. Len(prog) : prog[y].op = "end" /\ prog[y].head = k
  BY <1>2 DEF Heads
<1>4. /\ y \in NextParts(k) /\ NextParts(k) \subseteq 0 .. Len(prog) /\ NextParts(k) \subseteq Nat
      /\ \A m \in NextParts(k) : m \in 1 .. Len(prog) /\ prog[m].head = k
  BY <1>1, <1>3 DEF NextParts
<1>5. /\ Highest(NextParts(k)) \in NextParts(k)
      /\ \A m \in NextParts(k) : m <= Highest(NextParts(k))
  BY <1>1, <1>4, HighestIs
<1>6. Lowest(NextParts(k)) \in NextParts(k) /\ \A m \in NextParts(k) : Lowest(NextParts(k)) <= m
  BY <1>4, LowestIs
<1>7. LastPart(prog, y)
  BY <1>2, <1>3 DEF Heads
<1>8. Highest(NextParts(k)) = y
  <2>1. Highest(NextParts(k)) \in 1 .. Len(prog) /\ prog[Highest(NextParts(k))].head = k
    BY <1>4, <1>5
  <2>2. Highest(NextParts(k)) <= y
    BY <1>3, <1>7, <2>1 DEF LastPart
  <2>3. y <= Highest(NextParts(k))
    BY <1>4, <1>5
  <2> QED
    BY <1>1, <1>3, <2>1, <2>2, <2>3
<1>9. \A m \in NextParts(k) : prog[m].op \in Enders
  <2>1. \A m \in 1 .. Len(prog) : prog[m].op \notin Enders => prog[m].head = 0
    BY <1>2 DEF Heads
  <2> QED
    BY <1>1, <1>4, <2>1
<1> QED
  BY <1>3, <1>4, <1>6, <1>8, <1>9 DEF EndOf

LEMMA PartsReached ==
  ASSUME NEW f, NEW U, Body(prog, blocks, envs, f, U), Len(blocks) = 1,
         NEW k \in 1 .. Len(prog), prog[k].op \in Openers
  PROVE  /\ k \notin U /\ prog[k].op # "if" => \A m \in NextParts(k) : m + 1 \notin U
         /\ k \notin U /\ prog[k].op = "if" => Lowest(NextParts(k)) + 1 \notin U
         /\ \A m \in NextParts(k) : m \notin U => EndOf(k) + 1 \notin U
<1>1. /\ EndOf(k) \in 1 .. Len(prog) /\ prog[EndOf(k)].op = "end" /\ prog[EndOf(k)].head = k
      /\ Lowest(NextParts(k)) \in NextParts(k)
      /\ \A m \in NextParts(k) : Lowest(NextParts(k)) <= m
      /\ \A m \in NextParts(k) : m \in 1 .. Len(prog) /\ prog[m].head = k /\ prog[m].op \in Enders
  BY PartsFacts
<1>2. Flow(prog, blocks, U) /\ DOMAIN prog = 1 .. Len(prog) /\ Len(prog) \in Nat
  BY StateFacts DEF Body
<1>3. ASSUME NEW m \in NextParts(k), k \notin U
      PROVE  \/ m + 1 \notin U
             \/ prog[k].op = "if" /\ \E x \in 1 .. m - 1 : prog[x].head = k
  <2>1. FlowAt(prog, U, m)
    BY <1>1, <1>2 DEF Flow
  <2> QED
    BY <1>1, <1>3, <2>1 DEF FlowAt
<1>4. ASSUME k \notin U, prog[k].op = "if"
      PROVE  Lowest(NextParts(k)) + 1 \notin U
  <2> DEFINE m == Lowest(NextParts(k))
  <2>1. m \in NextParts(k) /\ m \in 1 .. Len(prog)
    BY <1>1
  <2>2. ASSUME NEW x \in 1 .. m - 1, prog[x].head = k
        PROVE  FALSE
    <3>1. x \in 1 .. Len(prog) /\ x < m
      BY <1>2, <2>1
    <3>2. x \in NextParts(k)
      BY <1>2, <2>2, <3>1 DEF NextParts
    <3> QED
      BY <1>1, <2>1, <3>1, <3>2
  <2> QED
    BY <1>3, <1>4, <2>1, <2>2
<1>5. ASSUME NEW m \in NextParts(k), m \notin U
      PROVE  EndOf(k) + 1 \notin U
  <2>1. Joins(prog, U, m, EndOf(k))
    BY <1>1, <1>2 DEF Flow
  <2> QED
    BY <1>1, <1>5, <2>1 DEF Joins
<1> QED
  BY <1>3, <1>4, <1>5

(* A jump to a place that is reached, and the end of the body or of a      *)
(* deferred block, keep execution in the places that are reached.          *)
LEMMA GotoRuns ==
  ASSUME NEW f, NEW U, Body(prog, blocks, envs, f, U), RunsOn(U), phase = "running",
         NEW k \in 1 .. Len(prog) + 1, k \notin U, Goto(k),
         defers' \in Seq(Deferred(prog, U)), MovedWell(prog, moved')
  PROVE  phase' = "running" /\ RunsOn(U)'
BY DEF Goto, RunsOn, MovedWell, Deferred

LEMMA LeaveRuns ==
  ASSUME NEW f, NEW U, Body(prog, blocks, envs, f, U), RunsOn(U), phase = "running", Leave,
         MovedWell(prog, moved')
  PROVE  phase' = "done" \/ (phase' = "running" /\ RunsOn(U)')
<1>1. Flow(prog, blocks, U) /\ Len(prog) \in Nat
  BY StateFacts DEF Body
<1>2. CASE defers = <<>>
  BY <1>2 DEF Leave
<1>3. CASE defers # <<>>
  <2>1. /\ at' = Head(defers) + 1 /\ defers' = Tail(defers) /\ phase' = "running"
        /\ prog' = prog /\ blocks' = blocks
    BY <1>3 DEF Leave
  <2>2. defers \in Seq(Deferred(prog, U))
    BY DEF RunsOn
  <2>3. Head(defers) \in Deferred(prog, U) /\ Tail(defers) \in Seq(Deferred(prog, U))
    BY <1>3, <2>2, HeadTailProperties
  <2>4. /\ Head(defers) \in 1 .. Len(prog) /\ Head(defers) \notin U
        /\ prog[Head(defers)].op = "defer"
    BY <2>3 DEF Deferred
  <2>5. Head(defers) + 1 \notin U
    BY <1>1, <2>4 DEF Flow, FlowAt, Openers
  <2>6. Head(defers) + 1 \in 1 .. Len(prog) + 1
    BY <1>1, <2>4
  <2> QED
    BY <2>1, <2>3, <2>5, <2>6 DEF RunsOn, MovedWell, Deferred
<1> QED
  BY <1>2, <1>3

LEMMA RunStep ==
  ASSUME NEW f, NEW U, Body(prog, blocks, envs, f, U), RunsOn(U), phase = "running",
         Len(prog) <= MaxLen, Run
  PROVE  /\ UNCHANGED <<prog, blocks, envs, error>>
         /\ \/ phase' = "done"
            \/ phase' = "running" /\ RunsOn(U)'
            \/ RunFault
<1>1. /\ Flow(prog, blocks, U) /\ Text(prog) /\ Len(prog) \in Nat /\ DOMAIN prog = 1 .. Len(prog)
      /\ Shape(prog, blocks, envs, f) /\ Heads(prog, blocks) /\ prog \in Seq(TokenType)
  BY StateFacts DEF Body, Known, Shape
<1>2. /\ Len(blocks) = 1 /\ at \in 1 .. Len(prog) + 1 /\ at \notin U
      /\ defers \in Seq(Deferred(prog, U)) /\ MovedWell(prog, moved)
  BY DEF RunsOn
<1>3. UNCHANGED <<prog, blocks, envs, error>>
  BY DEF Run, RunFault, RunRead, RunMove, RunDecl, RunReturn, RunEnd, RunBranch, RunBlock,
         RunDefer, RunBranchEnd, RunBreak, Goto, Leave
<1> DEFINE Goal == \/ phase' = "done"
                   \/ phase' = "running" /\ RunsOn(U)'
                   \/ RunFault
<1>4. \A ops : Running(ops) => at \in 1 .. Len(prog) /\ prog[at].op \in ops
  BY <1>1, <1>2 DEF Running, Op
<1>5. ASSUME NEW k \in 1 .. Len(prog) + 1, k \notin U, Goto(k), UNCHANGED <<moved, defers>>
      PROVE  Goal
  BY <1>2, <1>5, GotoRuns
<1>6. ASSUME Leave, MovedWell(prog, moved')
      PROVE  Goal
  BY <1>6, LeaveRuns
<1>7. ASSUME at \in 1 .. Len(prog), prog[at].op \in (Simple \ Returning) \cup Openers
      PROVE  at + 1 \in 1 .. Len(prog) + 1 /\ at + 1 \notin U
  <2>1. FlowAt(prog, U, at)
    BY <1>1, <1>7 DEF Flow
  <2> QED
    BY <1>1, <1>2, <1>7, <2>1 DEF FlowAt
<1> HIDE DEF Goal
<1>8. ASSUME RunRead
      PROVE  Goal
  <2>1. at \in 1 .. Len(prog) /\ prog[at].op \in Reads \ {"move", "returnX"}
    BY <1>4, <1>8 DEF RunRead
  <2>2. prog[at].op \in Simple \ Returning
    BY <2>1 DEF Reads, Simple, Returning
  <2>3. Goto(at + 1) /\ UNCHANGED <<moved, defers>>
    BY <1>8 DEF RunRead
  <2> QED
    BY <1>5, <1>7, <2>1, <2>2, <2>3
<1>9. ASSUME RunMove
      PROVE  Goal
  <2>1. at \in 1 .. Len(prog) /\ prog[at].op \in {"move", "returnX"}
    BY <1>4, <1>9 DEF RunMove
  <2>2. prog[at].inst \in Places
    <3>1. TokenOK(prog, at)
      BY <1>1, <2>1 DEF Text
    <3>2. prog[at].inst \in Nat
      BY <1>1, <2>1, ShapeFacts
    <3> QED
      BY <1>1, <2>1, <3>1, <3>2, OwnershipAssumption DEF Places, TokenOK
  <2>3. moved' = [moved EXCEPT ![prog[at].inst] = at]
    BY <1>9 DEF RunMove
  <2>4. MovedWell(prog, moved')
    <3>1. moved \in [Places -> Nat]
      BY <1>2 DEF MovedWell
    <3>2. at \in Nat
      BY <2>1
    <3>3. moved' \in [Places -> Nat]
      BY <2>2, <2>3, <3>1, <3>2
    <3>4. ASSUME NEW d \in Places, moved'[d] # 0
          PROVE  moved'[d] \in 1 .. Len(prog) /\ prog[moved'[d]].op \in Moving /\ prog[moved'[d]].inst = d
      <4>1. CASE d = prog[at].inst
        BY <2>1, <2>3, <3>1, <4>1 DEF Moving
      <4>2. CASE d # prog[at].inst
        BY <1>2, <2>3, <3>1, <3>4, <4>2 DEF MovedWell
      <4> QED
        BY <4>1, <4>2
    <3> QED
      BY <3>3, <3>4 DEF MovedWell
  <2>5. CASE prog[at].op = "move"
    <3>1. Goto(at + 1) /\ defers' = defers
      BY <1>9, <2>5 DEF RunMove, Op
    <3>2. at + 1 \in 1 .. Len(prog) + 1 /\ at + 1 \notin U
      BY <1>7, <2>1, <2>5 DEF Simple, Returning
    <3> QED
      BY <1>2, <2>4, <3>1, <3>2, GotoRuns DEF Goal
  <2>6. CASE prog[at].op = "returnX"
    BY <1>6, <1>9, <2>4, <2>6 DEF RunMove, Op
  <2> QED
    BY <2>1, <2>5, <2>6
<1>10. ASSUME RunDecl
       PROVE  Goal
  <2>1. at \in 1 .. Len(prog) /\ prog[at].op = "decl"
    BY <1>4, <1>10 DEF RunDecl
  <2>2. Goto(at + 1) /\ defers' = defers /\ moved' = [moved EXCEPT ![at] = 0]
    BY <1>10 DEF RunDecl
  <2>3. MovedWell(prog, moved')
    BY <1>2, <2>2 DEF MovedWell
  <2>4. at + 1 \in 1 .. Len(prog) + 1 /\ at + 1 \notin U
    BY <1>7, <2>1 DEF Simple, Returning
  <2> QED
    BY <1>2, <2>2, <2>3, <2>4, GotoRuns DEF Goal
<1>11. ASSUME RunReturn \/ RunEnd
       PROVE  Goal
  BY <1>2, <1>6, <1>11 DEF RunReturn, RunEnd, MovedWell
<1>12. ASSUME RunBranch
       PROVE  Goal
  <2>1. at \in 1 .. Len(prog) /\ prog[at].op \in {"if", "while", "for", "switch"}
    BY <1>4, <1>12 DEF RunBranch
  <2>2. prog[at].op \in Openers
    BY <2>1 DEF Openers
  <2>3. PICK part \in {at} \cup (IF Op = "if" THEN {Lowest(NextParts(at))} ELSE NextParts(at)) :
          Goto(part + 1) /\ UNCHANGED <<moved, defers>>
    BY <1>12 DEF RunBranch
  <2>4. CASE part = at
    BY <1>5, <1>7, <2>1, <2>2, <2>3, <2>4
  <2>5. CASE part # at
    <3>1. part \in NextParts(at) /\ part + 1 \notin U
      BY <1>2, <2>1, <2>2, <2>3, <2>5, PartsFacts, PartsReached DEF Op
    <3>2. part \in 1 .. Len(prog)
      BY <1>2, <2>1, <2>2, <3>1, PartsFacts
    <3>3. part + 1 \in 1 .. Len(prog) + 1
      BY <1>1, <3>2
    <3> QED
      BY <1>5, <2>3, <3>1, <3>3
  <2> QED
    BY <2>4, <2>5
<1>13. ASSUME RunBlock
       PROVE  Goal
  <2>1. at \in 1 .. Len(prog) /\ prog[at].op = "block"
    BY <1>4, <1>13 DEF RunBlock
  <2>2. Goto(at + 1) /\ UNCHANGED <<moved, defers>>
    BY <1>13 DEF RunBlock
  <2> QED
    BY <1>5, <1>7, <2>1, <2>2 DEF Openers
<1>14. ASSUME RunDefer
       PROVE  Goal
  <2>1. at \in 1 .. Len(prog) /\ prog[at].op = "defer" /\ prog[at].op \in Openers
    BY <1>4, <1>14 DEF RunDefer, Openers
  <2>2. Goto(EndOf(at) + 1) /\ defers' = <<at>> \o defers /\ moved' = moved
    BY <1>14 DEF RunDefer
  <2>3. EndOf(at) \in 1 .. Len(prog) /\ prog[EndOf(at)].head = at
    BY <1>2, <2>1, PartsFacts
  <2>4. EndOf(at) \in NextParts(at)
    BY <1>1, <2>3 DEF NextParts
  <2>5. EndOf(at) + 1 \notin U
    BY <1>2, <2>1, <2>4, PartsReached
  <2>6. EndOf(at) + 1 \in 1 .. Len(prog) + 1
    BY <1>1, <2>3
  <2>7. defers' \in Seq(Deferred(prog, U))
    <3>1. at \in Deferred(prog, U)
      BY <1>2, <2>1 DEF Deferred
    <3>2. <<at>> \in Seq(Deferred(prog, U))
      BY <3>1
    <3> QED
      BY <1>2, <2>2, <3>2, ConcatProperties
  <2>8. MovedWell(prog, moved')
    BY <1>2, <2>2
  <2> QED
    BY <2>2, <2>5, <2>6, <2>7, <2>8, GotoRuns DEF Goal
<1>15. ASSUME RunBranchEnd
       PROVE  Goal
  <2> DEFINE h == prog[at].head
  <2>1. at \in 1 .. Len(prog) /\ prog[at].op \in Enders /\ moved' = moved
    BY <1>4, <1>15 DEF RunBranchEnd
  <2>2. h \in 1 .. Len(prog) /\ prog[h].op \in Openers /\ h \notin U
    <3>1. TokenOK(prog, at) /\ FlowAt(prog, U, at)
      BY <1>1, <2>1 DEF Text, Flow
    <3> QED
      BY <1>1, <1>2, <2>1, <3>1 DEF TokenOK, FlowAt
  <2>3. CASE prog[h].op = "defer"
    BY <1>2, <1>6, <1>15, <2>1, <2>3 DEF RunBranchEnd
  <2>4. CASE prog[h].op # "defer"
    <3>1. /\ Goto(IF prog[h].op \in Loops THEN h ELSE EndOf(h) + 1)
          /\ UNCHANGED <<moved, defers>>
      BY <1>15, <2>1, <2>4 DEF RunBranchEnd
    <3>2. h \in 1 .. Len(prog) + 1
      BY <1>1, <2>2
    <3>3. EndOf(h) + 1 \in 1 .. Len(prog) + 1 /\ EndOf(h) + 1 \notin U
      <4>1. EndOf(h) \in 1 .. Len(prog)
        BY <1>2, <2>2, PartsFacts
      <4>2. at \in NextParts(h)
        BY <1>1, <2>1 DEF NextParts
      <4>3. EndOf(h) + 1 \notin U
        BY <1>2, <2>2, <4>2, PartsReached
      <4> QED
        BY <1>1, <4>1, <4>3
    <3> QED
      BY <1>5, <2>2, <3>1, <3>2, <3>3
  <2> QED
    BY <2>3, <2>4
<1>16. ASSUME RunBreak
       PROVE  Goal
  <2> DEFINE S == {k \in prog[at].path \ {0} : prog[k].op \in Loops}
             p == Highest(S)
  <2>1. at \in 1 .. Len(prog) /\ prog[at].op = "break"
    BY <1>4, <1>16 DEF RunBreak
  <2>2. Goto(EndOf(p) + 1) /\ UNCHANGED <<moved, defers>>
    BY <1>16 DEF RunBreak
  <2>3. TokenOK(prog, at) /\ FlowAt(prog, U, at)
    BY <1>1, <2>1 DEF Text, Flow
  <2>4. S # {} /\ S \subseteq 0 .. Len(prog)
    <3>1. \A k \in prog[at].path : k \in 0 .. at - 1
      BY <2>3 DEF TokenOK
    <3>2. \A k \in prog[at].path : k \in 0 .. Len(prog)
      BY <1>1, <2>1, <3>1
    <3>3. S # {}
      BY <2>1, <2>3 DEF TokenOK
    <3> QED
      BY <3>2, <3>3
  <2>5. p \in S
    <3> HIDE DEF S
    <3> QED
      BY <1>1, <2>4, HighestIs
  <2>6. p \in prog[at].path \ {0} /\ prog[p].op \in Loops
    BY <2>5
  <2>7. p \in 1 .. Len(prog) /\ prog[p].op \in Openers /\ prog[p].op # "if" /\ p \notin U
    <3>1. p \in 1 .. Len(prog)
      BY <1>1, <2>1, <2>6, ShapeFacts
    <3>2. p \notin U
      BY <1>2, <2>3, <2>6 DEF FlowAt
    <3> QED
      BY <2>6, <3>1, <3>2 DEF Loops, Openers
  <2> HIDE DEF p
  <2>8. EndOf(p) \in 1 .. Len(prog) /\ prog[EndOf(p)].head = p
    BY <1>2, <2>7, PartsFacts
  <2>9. EndOf(p) \in NextParts(p)
    BY <1>1, <2>8 DEF NextParts
  <2>10. EndOf(p) + 1 \notin U
    BY <1>2, <2>7, <2>9, PartsReached
  <2>11. EndOf(p) + 1 \in 1 .. Len(prog) + 1
    BY <1>1, <2>8
  <2> QED
    BY <1>5, <2>2, <2>10, <2>11
<1>17. RunFault => Goal
  BY DEF Goal
<1>18. Goal
  BY <1>8, <1>9, <1>10, <1>11, <1>12, <1>13, <1>14, <1>15, <1>16, <1>17 DEF Run
<1> QED
  BY <1>3, <1>18 DEF Goal

-----------------------------------------------------------------------------
(* Every step keeps the invariant.                                         *)

LEMMA AppendLength ==
  ASSUME NEW S, NEW s \in Seq(S), NEW e
  PROVE  Len(Append(s, e)) = Len(s) + 1
<1> DEFINE T == S \cup {e}
<1>1. s \in Seq(T)
  BY SeqDef
<1> QED
  BY <1>1, AppendProperties

(* The checker works while the body is checked, and up to MaxLen.          *)
LEMMA CheckBound ==
  ASSUME NEW f, NEW U, Body(prog, blocks, envs, f, U), Len(prog) <= MaxLen, Check
  PROVE  phase = "checking" /\ Len(prog') <= MaxLen
<1>1. Len(prog) \in Nat /\ Len(blocks) \in Nat /\ Len(blocks) >= 1 /\ prog \in Seq(TokenType)
  BY StateFacts
<1> DEFINE Goal == phase = "checking" /\ Len(prog') <= MaxLen
           Longer == \E t : prog' = Append(prog, t)
<1>2. \A op : Accept(op) => Longer
  BY DEF Accept
<1>3. \A op, j : Reject(op, j) => Longer
  BY DEF Reject
<1>4. \A op, head, term, first, outer, es : Open(op, head, term, first, outer, es) => Longer
  BY ZenonT(60) DEF Open
<1>5. Longer => Len(prog') = Len(prog) + 1
  BY <1>1, AppendLength
<1> HIDE DEF Longer
<1>6. ASSUME NEW op, Checking(op, 0), Longer
      PROVE  Goal
  BY <1>1, <1>5, <1>6, OwnershipAssumption DEF Checking
<1> HIDE DEF Goal
<1>7. ASSUME NEW op, NEW leaves, TakeValue(op, leaves)
      PROVE  Longer
  BY <1>2, <1>3, <1>7 DEF TakeValue
<1>8. CheckUse => Goal
  BY <1>2, <1>3, <1>6 DEF CheckUse
<1>9. CheckMove => Goal
  BY <1>6, <1>7 DEF CheckMove
<1>10. CheckReturnX => Goal
  BY <1>6, <1>7 DEF CheckReturnX
<1>11. CheckReturn => Goal
  BY <1>2, <1>6 DEF CheckReturn
<1>12. CheckBreak => Goal
  BY <1>2, <1>6 DEF CheckBreak
<1>13. CheckVar => Goal
  <2>1. CheckVar => Longer
    BY DEF CheckVar, Longer
  <2> QED
    BY <1>6, <2>1 DEF CheckVar
<1>14. \A op : CheckHold(op) => Goal
  BY <1>2, <1>3, <1>6 DEF CheckHold
<1>15. \A op : CheckLend(op) => Goal
  BY <1>2, <1>3, <1>6 DEF CheckLend
<1>16. \A op, term : CheckOpen(op, term) => Goal
  BY <1>4, <1>6 DEF CheckOpen
<1>17. \A term : CheckElse(term) => Goal
  BY <1>4, <1>6 DEF CheckElse
<1>18. CheckCase => Goal
  BY <1>4, <1>6 DEF CheckCase
<1>19. CheckEnd => Goal
  <2>1. CheckEnd => Checking("end", 1) /\ Len(blocks) > 1 /\ Longer
    BY DEF CheckEnd, Longer
  <2> QED
    BY <1>1, <1>5, <2>1, OwnershipAssumption DEF Checking, Openers, Goal
<1>20. CheckFinished => Goal
  BY DEF CheckFinished, Goal
<1>21. Goal
  BY <1>8, <1>9, <1>10, <1>11, <1>12, <1>13, <1>14, <1>15, <1>16, <1>17, <1>18, <1>19, <1>20
  DEF Check
<1> QED
  BY <1>21 DEF Goal

LEMMA InitInv == Init => IInv
<1> SUFFICES ASSUME Init
             PROVE  IInv
  OBVIOUS
<1>1. phase = "checking" /\ prog = <<>> /\ Len(prog) = 0 /\ DOMAIN prog = {}
  BY DEF Init
<1>2. Rests
  BY DEF Init, Rests
<1>3. Len(prog) <= MaxLen
  BY <1>1, OwnershipAssumption
<1>4. \A h, ops : AcceptedUnder(h, ops) = {}
  BY <1>1 DEF AcceptedUnder
<1>5. SharedNotMutated /\ MutableBorrowGuarded
  BY <1>4 DEF SharedNotMutated, MutableBorrowGuarded
<1>6. MissedMoves /\ AlarmsMeanPaths /\ ReturnsWhenRequired
  BY <1>1 DEF MissedMoves, AlarmsMeanPaths, ReturnsWhenRequired
<1> QED
  BY <1>1, <1>2, <1>3, <1>5, <1>6, InitSaved DEF IInv

(* The checker takes the body, which then starts to run.                   *)
LEMMA FinishInv ==
  ASSUME IInv, NEW f, NEW U, Body(prog, blocks, envs, f, U), CheckFinished
  PROVE  IInv'
<1>1. /\ phase = "checking" /\ phase' = "running" /\ Len(blocks) = 1
      /\ UNCHANGED <<prog, blocks, envs, error, at, moved, defers, fault>>
  BY DEF CheckFinished, runVars
<1>2. Len(prog) <= MaxLen /\ Rests
  BY <1>1 DEF IInv
<1>3. /\ Flow(prog, blocks, U) /\ Guarded(prog, Len(prog)) /\ prog \in Seq(TokenType)
      /\ Len(prog) \in Nat
  BY StateFacts DEF Body
<1>4. RunsOn(U)
  <2>1. at \in 1 .. Len(prog) + 1 /\ at \notin U
    BY <1>2, <1>3 DEF Flow, Rests
  <2>2. defers \in Seq(Deferred(prog, U))
    BY <1>2 DEF Rests
  <2>3. MovedWell(prog, moved)
    BY <1>2 DEF Rests, MovedWell
  <2> QED
    BY <1>1, <2>1, <2>2, <2>3 DEF RunsOn
<1>5. Body(prog, blocks, envs, f, U)' /\ RunsOn(U)'
  BY <1>1, <1>4 DEF RunsOn
<1>6. SharedNotMutated' /\ MutableBorrowGuarded'
  BY <1>1, <1>3, GuardedHolds
<1>7. ReturnsWhenRequired'
  <2>1. at = 1
    BY <1>2 DEF Rests
  <2>2. blocks[1].ends => 1 <= Len(prog)
    <3>1. blocks[1].ends => Ended(blocks, Len(blocks))
      BY <1>1 DEF Ended
    <3>2. blocks[1].ends => Len(prog) + 1 \in U
      BY <1>3, <3>1 DEF Flow
    <3>3. Len(prog) + 1 \in U => Len(prog) + 1 \in 2 .. Len(prog) + 1
      BY <1>3 DEF Flow
    <3> QED
      BY <1>3, <3>2, <3>3
  <2> QED
    BY <1>1, <2>1, <2>2 DEF ReturnsWhenRequired
<1>8. MissedMoves' /\ AlarmsMeanPaths'
  BY <1>1 DEF MissedMoves, AlarmsMeanPaths
<1>9. Len(prog)' <= MaxLen
  BY <1>1, <1>2
<1>10. \E g, V : Body(prog, blocks, envs, g, V)' /\ RunsOn(V)'
  BY <1>5
<1> QED
  BY <1>1, <1>6, <1>7, <1>8, <1>9, <1>10 DEF IInv

LEMMA CheckInv ==
  ASSUME IInv, Check, phase = "checking"
  PROVE  IInv'
<1>1. Len(prog) <= MaxLen /\ Rests /\ Saved
  BY DEF IInv
<1>2. PICK f, U : Body(prog, blocks, envs, f, U)
  BY <1>1 DEF Saved
<1>3. Len(prog') <= MaxLen
  BY <1>1, <1>2, CheckBound
<1>4. \/ phase' = phase /\ Saved' /\ UNCHANGED runVars
      \/ \E op \in Simple, j \in {0, MovedAt} : Reject(op, j)
      \/ CheckFinished
  BY <1>2, CheckStep
<1>5. CASE phase' = phase /\ Saved' /\ UNCHANGED runVars
  <2>1. PICK g, V : Body(prog', blocks', envs', g, V)
    BY <1>5 DEF Saved
  <2>2. Guarded(prog', Len(prog')) /\ prog' \in Seq(TokenType)
    BY <2>1 DEF Body, Known, Shape, Typed
  <2>3. phase' = "checking"
    BY <1>5
  <2>4. SharedNotMutated' /\ MutableBorrowGuarded'
    BY <2>2, <2>3, GuardedHolds
  <2>5. MissedMoves' /\ AlarmsMeanPaths' /\ ReturnsWhenRequired'
    BY <2>3 DEF MissedMoves, AlarmsMeanPaths, ReturnsWhenRequired
  <2>6. Rests'
    BY <1>1, <1>5 DEF Rests, runVars
  <2> QED
    BY <1>3, <1>5, <2>3, <2>4, <2>5, <2>6 DEF IInv
<1>6. CASE \E op \in Simple, j \in {0, MovedAt} : Reject(op, j)
  <2>1. PICK op \in Simple, j \in {0, MovedAt} : Reject(op, j)
    BY <1>6
  <2>2. SharedNotMutated' /\ MutableBorrowGuarded' /\ AlarmsMeanPaths'
    BY <1>2, <2>1, RejectHolds
  <2>3. phase' = "rejected"
    BY <2>1 DEF Reject
  <2>4. MissedMoves' /\ ReturnsWhenRequired'
    BY <2>3 DEF MissedMoves, ReturnsWhenRequired
  <2> QED
    BY <2>2, <2>3, <2>4 DEF IInv
<1>7. CASE CheckFinished
  BY <1>2, <1>7, FinishInv
<1> QED
  BY <1>4, <1>5, <1>6, <1>7

(* A use that finds x moved is one that the checker does not follow.       *)
LEMMA FaultMissed ==
  ASSUME NEW f, NEW U, Body(prog, blocks, envs, f, U), RunsOn(U), Len(prog) <= MaxLen, RunFault
  PROVE  MissedMoves'
<1> DEFINE d == prog[at].inst
           j == moved[d]
<1>1. /\ Text(prog) /\ MovesSeen(prog) /\ Len(prog) \in Nat /\ DOMAIN prog = 1 .. Len(prog)
      /\ Shape(prog, blocks, envs, f)
  BY StateFacts DEF Body, Known, Shape
<1>2. at \in 1 .. Len(prog) + 1 /\ MovedWell(prog, moved)
  BY DEF RunsOn
<1>3. /\ at \in 1 .. Len(prog) /\ prog[at].op \in Reads /\ j # 0
      /\ phase' = "faulty" /\ fault' = <<j, at>> /\ prog' = prog
  BY <1>1, <1>2 DEF RunFault, Running, Op, MovedNow
<1>4. d \in Places
  <2>1. TokenOK(prog, at)
    BY <1>1, <1>3 DEF Text
  <2>2. d \in Nat
    BY <1>1, <1>3, ShapeFacts
  <2> QED
    BY <1>1, <1>3, <2>1, <2>2, OwnershipAssumption DEF Places, TokenOK
<1>5. j \in 1 .. Len(prog) /\ prog[j].op \in Moving /\ prog[j].inst = d
  BY <1>2, <1>3, <1>4 DEF MovedWell
<1>6. InIsolated(j) \/ at <= j \/ Redeclared(j, at)
  <2> SUFFICES ASSUME j < at
               PROVE  InIsolated(j) \/ Redeclared(j, at)
    BY <1>1, <1>3, <1>5
  <2>1. Isolated(prog, j) \/ \E c \in j + 1 .. at - 1 : prog[c].op = "decl" /\ Isolated(prog, c)
    BY <1>1, <1>3, <1>5 DEF MovesSeen
  <2> QED
    BY <2>1 DEF InIsolated, Redeclared, Isolated
<1> QED
  BY <1>3, <1>6 DEF MissedMoves, InIsolated, Redeclared

LEMMA RunInv ==
  ASSUME IInv, Run, phase = "running"
  PROVE  IInv'
<1>1. Len(prog) <= MaxLen
  BY DEF IInv
<1>2. PICK f, U : Body(prog, blocks, envs, f, U) /\ RunsOn(U)
  BY DEF IInv
<1>3. /\ UNCHANGED <<prog, blocks, envs, error>>
      /\ phase' = "done" \/ (phase' = "running" /\ RunsOn(U)') \/ RunFault
  BY <1>1, <1>2, RunStep
<1>4. phase' \in {"done", "running", "faulty"}
  BY <1>3 DEF RunFault
<1>5. Guarded(prog, Len(prog)) /\ prog \in Seq(TokenType)
  BY <1>2, StateFacts DEF Body
<1>6. SharedNotMutated' /\ MutableBorrowGuarded'
  BY <1>3, <1>4, <1>5, GuardedHolds
<1>7. AlarmsMeanPaths'
  BY <1>4 DEF AlarmsMeanPaths
<1>8. MissedMoves'
  <2>1. CASE phase' = "faulty"
    BY <1>1, <1>2, <1>3, <2>1, FaultMissed
  <2>2. CASE phase' # "faulty"
    BY <2>2 DEF MissedMoves
  <2> QED
    BY <2>1, <2>2
<1>9. CASE phase' = "running"
  <2>1. RunsOn(U)'
    BY <1>3, <1>9 DEF RunFault
  <2>2. Body(prog, blocks, envs, f, U)'
    BY <1>2, <1>3
  <2>3. ReturnsWhenRequired'
    <3>1. Flow(prog, blocks, U) /\ Len(prog) \in Nat
      BY <1>2, StateFacts DEF Body
    <3>2. Len(blocks) = 1 /\ at' \in 1 .. Len(prog) + 1 /\ at' \notin U
      BY <1>3, <2>1 DEF RunsOn
    <3>3. blocks[1].ends => Len(prog) + 1 \in U
      BY <3>1, <3>2 DEF Flow, Ended
    <3>4. blocks[1].ends => at' <= Len(prog)
      BY <3>1, <3>2, <3>3
    <3> QED
      BY <1>3, <3>4 DEF ReturnsWhenRequired
  <2>4. \E g, V : Body(prog, blocks, envs, g, V)' /\ RunsOn(V)'
    BY <2>1, <2>2
  <2>5. Len(prog)' <= MaxLen
    BY <1>1, <1>3
  <2> QED
    BY <1>6, <1>7, <1>8, <1>9, <2>3, <2>4, <2>5 DEF IInv
<1>10. CASE phase' # "running"
  <2>1. ReturnsWhenRequired'
    BY <1>10 DEF ReturnsWhenRequired
  <2> QED
    BY <1>4, <1>6, <1>7, <1>8, <1>10, <2>1 DEF IInv
<1> QED
  BY <1>9, <1>10

LEMMA NextInv == IInv /\ [Next]_vars => IInv'
<1> SUFFICES ASSUME IInv, [Next]_vars
             PROVE  IInv'
  OBVIOUS
<1>1. CASE Check
  <2>1. phase = "checking"
    BY <1>1 DEF Check, CheckUse, CheckMove, CheckReturnX, CheckReturn, CheckBreak, CheckVar,
                CheckHold, CheckLend, CheckOpen, CheckElse, CheckCase, CheckEnd, CheckFinished,
                Checking
  <2> QED
    BY <1>1, <2>1, CheckInv
<1>2. CASE Run
  <2>1. phase = "running"
    BY <1>2 DEF Run, RunFault, RunRead, RunMove, RunDecl, RunReturn, RunEnd, RunBranch, RunBlock,
                RunDefer, RunBranchEnd, RunBreak, Running
  <2> QED
    BY <1>2, <2>1, RunInv
<1>3. CASE UNCHANGED vars
  BY <1>3 DEF vars, runVars, IInv, Saved, Rests, RunsOn, SharedNotMutated, MutableBorrowGuarded,
              AcceptedUnder, MissedMoves, AlarmsMeanPaths, ReturnsWhenRequired, InIsolated, Redeclared
<1> QED
  BY <1>1, <1>2, <1>3 DEF Next

(* Ownership.  What the checker knows of a text it took, and where the     *)
(* execution of it may be, at every step.                                  *)
THEOREM InvariantHolds == Spec => []IInv
BY InitInv, NextInv, PTL DEF Spec

(* While r = &x lives no &mut x is taken.                                  *)
THEOREM SharedNotMutatedHolds == Spec => []SharedNotMutated
<1>1. IInv => SharedNotMutated
  BY DEF IInv
<1> QED
  BY <1>1, InvariantHolds, PTL

(* While r = &mut x lives, x is not moved nor lent again, but for a second *)
(* &mut x, until one was lent to a call.                                   *)
THEOREM MutableBorrowGuardedHolds == Spec => []MutableBorrowGuarded
<1>1. IInv => MutableBorrowGuarded
  BY DEF IInv
<1> QED
  BY <1>1, InvariantHolds, PTL

(* The uses after a move that an accepted body may execute are of the      *)
(* three kinds that the checker does not follow, and of no other.          *)
THEOREM MissedMovesHolds == Spec => []MissedMoves
<1>1. IInv => MissedMoves
  BY DEF IInv
<1> QED
  BY <1>1, InvariantHolds, PTL

(* A use is reported for a move of the same variable, on a path that leads *)
(* from the one to the other.                                              *)
THEOREM AlarmsMeanPathsHolds == Spec => []AlarmsMeanPaths
<1>1. IInv => AlarmsMeanPaths
  BY DEF IInv
<1> QED
  BY <1>1, InvariantHolds, PTL

(* A function of which blockTerminates says that it returns does not run   *)
(* off the end of its body.                                                *)
THEOREM ReturnsWhenRequiredHolds == Spec => []ReturnsWhenRequired
<1>1. IInv => ReturnsWhenRequired
  BY DEF IInv
<1> QED
  BY <1>1, InvariantHolds, PTL
=============================================================================
