----------------------- MODULE SyntaxAnalyzer_proofs -----------------------
(***************************************************************************)
(* Theorems of SyntaxAnalyzer for every script, whatever its lexems.  What *)
(* is compiled for an operator ends in its first terminator; every address *)
(* in it has a variable and every label leads to an operator.  And unless  *)
(* the script is ill-formed, it takes the stack from empty to empty.       *)
(***************************************************************************)
EXTENDS SyntaxAnalyzerProperties, SequenceTheorems, WellFoundedInduction, TLAPS

\* The lexems of the scripts, those the compiler makes and the one that stands
\* for none.  (That a string literal is in STRING is not known to the provers.)
Types  == STRING \cup {"none", "delimiter"}
Texts  == STRING \cup Unary \cup Binary \cup {""}
Lexems == [type : Types, text : Texts, n : Int]
Coded  == [op : Ops, n : Int]

-----------------------------------------------------------------------------
(* Numbers, sequences and functions that are defined by recursion.         *)

LEMMA LeastIs ==
    ASSUME NEW S \in SUBSET Nat, S # {}
    PROVE  Min(S) \in S /\ \A y \in S : Min(S) <= y
<1>1. PICK x \in S : \A y \in S : ~(<<y, x>> \in OpToRel(<, Nat))
  BY NatLessThanWellFounded, WFMin, Zenon
<1>2. \A y \in S : ~(y < x)
  BY <1>1 DEF OpToRel
<1>3. \A y \in S : x <= y
  BY <1>2
<1> QED BY <1>3 DEF Min

LEMMA GreatestIs ==
    ASSUME NEW S \in SUBSET Nat, S # {}, NEW n \in Nat, \A y \in S : y <= n
    PROVE  Max(S) \in S /\ \A y \in S : y <= Max(S)
<1> DEFINE below == {n - y : y \in S}
<1>1. below \in SUBSET Nat /\ below # {}
  OBVIOUS
<1> HIDE DEF below
<1>2. PICK m \in below : \A z \in below : m <= z
  BY <1>1, LeastIs
<1>3. PICK x \in S : m = n - x
  BY <1>2 DEF below
<1>4. \A y \in S : n - x <= n - y
  BY <1>2, <1>3 DEF below
<1>5. \A y \in S : x >= y
  BY <1>4
<1>6. Max(S) \in S /\ \A y \in S : Max(S) >= y
  BY <1>5 DEF Max
<1> QED BY <1>6

LEMMA Climbing ==
    ASSUME NEW a \in Nat, NEW b \in Nat, NEW T,
           a \in T, \A k \in (a + 1)..b : k - 1 \in T => k \in T
    PROVE  \A k \in a..b : k \in T
<1> DEFINE others == {k \in a..b : k \notin T}
<1> SUFFICES ASSUME others # {} PROVE FALSE
  OBVIOUS
<1>1. others \in SUBSET Nat
  OBVIOUS
<1>2. PICK x \in others : \A y \in others : x <= y
  <2> HIDE DEF others
  <2> QED BY <1>1, LeastIs
<1>3. x # a /\ x - 1 \in a..b /\ x \in (a + 1)..b
  BY <1>2
<1>4. x - 1 \in T
  BY <1>2, <1>3
<1> QED BY <1>2, <1>3, <1>4

\* A value made from the one before it, step by step, is a function of the step.
Iteration(h, a, b, T, base, F) ==
    /\ h \in [a..b -> T] /\ h[a] = base
    /\ \A k \in a..b : k # a => h[k] = F[k][h[k - 1]]

LEMMA Iterated ==
    ASSUME NEW a \in Nat, NEW b \in Nat, a <= b, NEW T, NEW base \in T,
           NEW F, F \in [a..b -> [T -> T]]
    PROVE  \E h : Iteration(h, a, b, T, base, F)
<1> DEFINE Upto(h, m) == h[a] = base /\ \A k \in (a + 1)..m : h[k] = F[k][h[k - 1]]
           Reached == {m \in a..b : \E h \in [a..m -> T] : Upto(h, m)}
<1>1. a \in Reached
  <2> DEFINE h == [k \in a..a |-> base]
  <2>1. h \in [a..a -> T] /\ h[a] = base
    OBVIOUS
  <2>2. Upto(h, a)
    BY <2>1
  <2> HIDE DEF h, Upto
  <2> QED BY <2>1, <2>2
<1>2. ASSUME NEW m \in (a + 1)..b, m - 1 \in Reached
      PROVE  m \in Reached
  <2>1. PICK h \in [a..(m - 1) -> T] : Upto(h, m - 1)
    BY <1>2
  <2>2. m \in a..b /\ m - 1 \in a..(m - 1)
    OBVIOUS
  <2>3. F[m] \in [T -> T] /\ h[m - 1] \in T
    BY <2>2
  <2> DEFINE g == [k \in a..m |-> IF k = m THEN F[m][h[m - 1]] ELSE h[k]]
  <2>4. g \in [a..m -> T]
    BY <2>1, <2>3
  <2>5. /\ g[m] = F[m][h[m - 1]]
        /\ \A k \in a..(m - 1) : g[k] = h[k]
    OBVIOUS
  <2> HIDE DEF g
  <2>6. g[a] = base
    BY <2>1, <2>5
  <2>7. ASSUME NEW k \in (a + 1)..m
        PROVE  g[k] = F[k][g[k - 1]]
    <3>1. k - 1 \in a..(m - 1) /\ g[k - 1] = h[k - 1]
      BY <2>5
    <3>2. CASE k = m
      BY <2>5, <3>1, <3>2
    <3>3. CASE k # m
      <4>1. k \in (a + 1)..(m - 1) /\ k \in a..(m - 1)
        BY <3>3
      <4>2. h[k] = F[k][h[k - 1]]
        BY <2>1, <4>1
      <4> QED BY <2>5, <3>1, <4>1, <4>2
    <3> QED BY <3>2, <3>3
  <2>8. Upto(g, m)
    BY <2>6, <2>7
  <2> HIDE DEF Upto
  <2> QED BY <2>2, <2>4, <2>8
<1>3. b \in Reached
  <2> HIDE DEF Reached
  <2>1. \A k \in a..b : k \in Reached
    BY <1>1, <1>2, Climbing
  <2> QED BY <2>1
<1>4. PICK h \in [a..b -> T] : Upto(h, b)
  BY <1>3
<1>5. \A k \in a..b : k # a => k \in (a + 1)..b
  OBVIOUS
<1>6. Iteration(h, a, b, T, base, F)
  BY <1>4, <1>5 DEF Iteration
<1> QED BY <1>6

LEMMA PlacesOf ==
    ASSUME NEW S, NEW s \in Seq(S)
    PROVE  DOMAIN s = 1..Len(s) /\ Len(s) \in Nat /\ \A k \in 1..Len(s) : s[k] \in S
OBVIOUS

LEMMA AppendedIs ==
    ASSUME NEW S, NEW s \in Seq(S), NEW e \in S
    PROVE  s \o <<e>> \in Seq(S) /\ Append(s, e) \in Seq(S) /\ <<e>> \o s \in Seq(S)
OBVIOUS

LEMMA JoinedIs ==
    ASSUME NEW S, NEW s \in Seq(S), NEW t \in Seq(S)
    PROVE  /\ s \o t \in Seq(S) /\ Len(s \o t) = Len(s) + Len(t)
           /\ \A k \in 1..Len(s) : (s \o t)[k] = s[k]
           /\ \A k \in (Len(s) + 1)..(Len(s) + Len(t)) : (s \o t)[k] = t[k - Len(s)]
OBVIOUS

LEMMA OneAndOne == ASSUME NEW a, NEW b PROVE <<a>> \o <<b>> = <<a, b>>
<1> DEFINE S == {a, b}
           c == <<a>> \o <<b>>
<1>1. <<a>> \in Seq(S) /\ <<b>> \in Seq(S) /\ Len(<<a>>) = 1 /\ Len(<<b>>) = 1
  OBVIOUS
<1>2. /\ c \in Seq(S) /\ Len(c) = 2
      /\ \A k \in 1..1 : c[k] = <<a>>[k]
      /\ \A k \in 2..2 : c[k] = <<b>>[k - 1]
  <2> HIDE DEF S
  <2> QED BY <1>1, JoinedIs
<1>3. c[1] = a /\ c[2] = b
  <2> HIDE DEF c
  <2> QED BY <1>2
<1>4. <<a, b>> \in Seq(S)
  OBVIOUS
<1> HIDE DEF c, S
<1>5. c = <<a, b>>
  BY <1>2, <1>3, <1>4, SeqEqual
<1> QED BY <1>5 DEF c

LEMMA ReversedIs ==
    ASSUME NEW S, NEW s \in Seq(S)
    PROVE  Reverse(s) \in Seq(S) /\ Len(Reverse(s)) = Len(s)
<1>1. \A k \in 1..Len(s) : (Len(s) - k) + 1 \in 1..Len(s)
  OBVIOUS
<1>2. Reverse(s) \in [1..Len(s) -> S]
  BY <1>1 DEF Reverse
<1>3. Len(s) \in Nat
  OBVIOUS
<1> HIDE DEF Reverse
<1> QED BY <1>2, <1>3

LEMMA WiderSeq == ASSUME NEW S, NEW T, S \subseteq T PROVE Seq(S) \subseteq Seq(T)
OBVIOUS

LEMMA SeqByPlaces ==
    ASSUME NEW n \in Nat, NEW S, NEW f \in [1..n -> S]
    PROVE  f \in Seq(S) /\ Len(f) = n
OBVIOUS

\* Sequences one behind the other.
LEMMA FlatIs ==
    ASSUME NEW S, NEW ss \in Seq(Seq(S))
    PROVE  FlattenSeq(ss) \in Seq(S)
<1> DEFINE n == Len(ss)
           Flat(h, k) == IF k = 1 THEN ss[k] ELSE h[k - 1] \o ss[k]
           Form(h) == h = [k \in 1..n |-> Flat(h, k)]
           flatten == CHOOSE h : Form(h)
<1>1. n \in Nat /\ \A k \in 1..n : ss[k] \in Seq(S)
  OBVIOUS
<1>2. CASE n = 0
  <2>1. FlattenSeq(ss) = ss
    BY <1>2 DEF FlattenSeq
  <2>2. ss = <<>> /\ <<>> \in Seq(S)
    BY <1>2
  <2> QED BY <2>1, <2>2
<1>3. CASE n # 0
  <2>1. FlattenSeq(ss) = flatten[n]
    BY <1>3 DEF FlattenSeq
  <2> DEFINE F == [k \in 1..n |-> [s \in Seq(S) |-> s \o ss[k]]]
  <2>2. F \in [1..n -> [Seq(S) -> Seq(S)]]
    <3>1. ASSUME NEW k \in 1..n, NEW s \in Seq(S)
          PROVE  s \o ss[k] \in Seq(S)
      <4>1. ss[k] \in Seq(S)
        BY <1>1
      <4> QED BY <4>1
    <3> QED BY <3>1
  <2>3. \A k \in 1..n : \A s \in Seq(S) : F[k][s] = s \o ss[k]
    OBVIOUS
  <2>4. ss[1] \in Seq(S) /\ 1 <= n /\ 1 \in Nat
    BY <1>1, <1>3
  <2> DEFINE first == ss[1]
             T == Seq(S)
  <2> HIDE DEF n, F, first, T
  <2>14. \E h : Iteration(h, 1, n, T, first, F)
    <3>1. first \in T
      BY <2>4 DEF first, T
    <3>2. F \in [1..n -> [T -> T]]
      BY <2>2 DEF T
    <3>3. 1 \in Nat /\ n \in Nat /\ 1 <= n
      BY <1>1, <2>4
    <3> QED BY <3>1, <3>2, <3>3, Iterated
  <2>5. PICK h \in [1..n -> Seq(S)] :
            h[1] = ss[1] /\ \A k \in 1..n : k # 1 => h[k] = F[k][h[k - 1]]
    BY <2>14, Zenon DEF Iteration, first, T
  <2>6. ASSUME NEW k \in 1..n
        PROVE  h[k] = Flat(h, k)
    <3>1. CASE k = 1
      BY <2>5, <3>1
    <3>2. CASE k # 1
      <4>1. k - 1 \in 1..n
        BY <1>1, <3>2
      <4>2. h[k] = F[k][h[k - 1]] /\ h[k - 1] \in Seq(S)
        BY <2>5, <3>2, <4>1
      <4> QED BY <2>3, <3>2, <4>2
    <3> QED BY <3>1, <3>2
  <2>7. Form(h)
    <3>1. h = [k \in 1..n |-> h[k]]
      OBVIOUS
    <3> QED BY <2>6, <3>1
  <2>8. Form(flatten)
    <3> HIDE DEF Form
    <3> QED BY <2>7
  <2> DEFINE Typed == {k \in 1..n : flatten[k] \in Seq(S)}
  <2> HIDE DEF flatten
  <2>9. \A k \in 1..n : flatten[k] = Flat(flatten, k)
    BY <2>8
  <2>10. 1 \in Typed
    BY <1>1, <2>4, <2>9
  <2>11. ASSUME NEW k \in (1 + 1)..n, k - 1 \in Typed
         PROVE  k \in Typed
    <3>1. k \in 1..n /\ k # 1
      BY <1>1
    <3>2. flatten[k] = flatten[k - 1] \o ss[k] /\ flatten[k - 1] \in Seq(S) /\ ss[k] \in Seq(S)
      BY <1>1, <2>9, <2>11, <3>1
    <3>3. flatten[k - 1] \o ss[k] \in Seq(S)
      BY <3>2
    <3> QED BY <3>1, <3>2, <3>3
  <2>12. n \in 1..n
    BY <1>1, <1>3
  <2> HIDE DEF Typed
  <2>13. n \in Typed
    BY <1>1, <2>10, <2>11, <2>12, Climbing
  <2> QED BY <2>1, <2>13 DEF Typed
<1> QED BY <1>2, <1>3

-----------------------------------------------------------------------------
(* Operands: what is recognised, and what is left of it to be translated.  *)

\* The words of an expression in postfix order, and those of a game function.
Words     == {w \in Lexems : w.type \in {"integer", "variable"} \/ w.text \in Unary \cup Binary}
GameWords == {w \in Lexems : w.text \in GameFunctions}

Operands ==
    {No, Crashed} \cup {Yes("rvalue", <<w>>) : w \in Lexems}
        \cup {Yes("arithmetic", s) : s \in Seq(Words)}
        \cup {Yes("game", s) : s \in Seq(GameWords) \ {<<>>}}

\* An expression while it is read.
Reads == [is : {"reading", "no", "undefined", "over"},
          ops : Seq({"("} \cup Unary \cup Binary), out : Seq(Words)]

LEMMA AtIs ==
    ASSUME NEW l \in Seq(Lexems), NEW i \in Int
    PROVE  At(l, i) \in Lexems
<1>1. [type |-> "none", text |-> "", n |-> 0] \in Lexems
  <2>1. "none" \in Types /\ "" \in Texts /\ 0 \in Int
    BY DEF Types, Texts
  <2> QED BY <2>1 DEF Lexems
<1>2. i \in DOMAIN l => l[i] \in Lexems
  OBVIOUS
<1> QED BY <1>1, <1>2 DEF At

LEMMA InScript ==
    ASSUME NEW l \in Seq(Lexems), NEW i \in Nat \ {0}, i <= Len(l)
    PROVE  l[i] \in Lexems /\ i \in DOMAIN l /\ At(l, i) = l[i]
<1>1. i \in 1..Len(l) /\ DOMAIN l = 1..Len(l)
  OBVIOUS
<1>2. l[i] \in Lexems
  BY <1>1
<1> QED BY <1>1, <1>2 DEF At

LEMMA NextWordIs ==
    ASSUME NEW l \in Seq(Lexems), NEW i \in Nat \ {0}, NEW words
    PROVE  /\ NextWord(l, i, words) \in Nat \ {0}
           /\ NextWord(l, i, words) = Len(l) + 1 \/ NextWord(l, i, words) \in i..Len(l)
<1> DEFINE found == {j \in i..Len(l) : l[j].text \in words}
<1>1. found \in SUBSET Nat /\ Len(l) \in Nat
  OBVIOUS
<1>2. CASE found = {}
  <2>1. NextWord(l, i, words) = Len(l) + 1
    BY <1>2 DEF NextWord
  <2> QED BY <1>1, <2>1
<1>3. CASE found # {}
  <2>1. NextWord(l, i, words) = Min(found)
    BY <1>3 DEF NextWord
  <2>2. Min(found) \in found
    <3> HIDE DEF found
    <3> QED BY <1>1, <1>3, LeastIs
  <2> QED BY <2>1, <2>2
<1> QED BY <1>2, <1>3

LEMMA VarRValueIs ==
    ASSUME NEW l \in Seq(Lexems), NEW i \in Nat \ {0}
    PROVE  VarRValue(l, i) \in Operands
<1>1. CASE i > Len(l)
  BY <1>1 DEF VarRValue, Operands
<1>2. CASE ~(i > Len(l))
  <2>1. l[i] \in Lexems
    BY <1>2, InScript
  <2>2. VarRValue(l, i) \in {No, Crashed, Yes("rvalue", <<l[i]>>)}
    BY <1>2 DEF VarRValue
  <2> QED BY <2>1, <2>2 DEF Operands
<1> QED BY <1>1, <1>2

LEMMA OperationIs ==
    ASSUME NEW s \in Seq(Unary \cup Binary)
    PROVE  Operations(s) \in Seq(Words)
<1>1. Len(s) \in Nat /\ \A k \in 1..Len(s) : s[k] \in Unary \cup Binary
  OBVIOUS
<1>2. \A text \in Texts : Operation(text) \in Lexems /\ Operation(text).text = text
  BY DEF Operation, Lexems, Types
<1>4. \A k \in 1..Len(s) : Operation(s[k]) \in Words
  BY <1>1, <1>2 DEF Words, Texts
<1>3. Operations(s) \in [1..Len(s) -> Words]
  BY <1>4 DEF Operations
<1> QED BY <1>1, <1>3, SeqByPlaces

LEMMA ClosingParenIs ==
    ASSUME NEW s \in Reads
    PROVE  ClosingParen(s) \in Reads
<1> DEFINE opens == {k \in 1..Len(s.ops) : s.ops[k] = "("}
           open == IF opens # {} THEN Max(opens) ELSE 0
           above == SubSeq(s.ops, open + 1, Len(s.ops))
           Names == {"("} \cup Unary \cup Binary
<1>1. open = SelectLastInSeq(s.ops, LAMBDA op : op = "(")
  BY DEF SelectLastInSeq
<1>2. s.ops \in Seq(Names) /\ s.out \in Seq(Words) /\ s.is \in {"reading", "no", "undefined", "over"}
  BY DEF Reads
<1>3. opens \in SUBSET Nat /\ \A y \in opens : y <= Len(s.ops)
  BY <1>2
<1>4. opens # {} => Max(opens) \in opens /\ \A y \in opens : y <= Max(opens)
  <2> HIDE DEF opens
  <2>1. Len(s.ops) \in Nat
    BY <1>2
  <2> QED BY <1>3, <2>1, GreatestIs
<1>5. open \in 0..Len(s.ops) /\ \A y \in opens : y <= open
  BY <1>2, <1>4
<1>6. \A k \in 1..Len(above) : above[k] \in Unary \cup Binary
  <2> SUFFICES ASSUME NEW k \in 1..Len(above) PROVE above[k] \in Unary \cup Binary
    OBVIOUS
  <2> HIDE DEF open
  <2>1. above[k] = s.ops[open + k] /\ open + k \in 1..Len(s.ops)
    BY <1>2, <1>5
  <2>2. open + k \notin opens
    BY <1>5, <2>1
  <2>3. s.ops[open + k] # "(" /\ s.ops[open + k] \in Names
    BY <1>2, <2>1, <2>2
  <2> QED BY <2>1, <2>3
<1>7. above \in Seq(Unary \cup Binary)
  <2>1. above \in Seq(Names)
    <3> HIDE DEF open
    <3> QED BY <1>2, <1>5
  <2> HIDE DEF above
  <2>2. Len(above) \in Nat /\ above = [k \in 1..Len(above) |-> above[k]]
    BY <2>1
  <2>3. above \in [1..Len(above) -> Unary \cup Binary]
    BY <1>6, <2>2
  <2> QED BY <2>2, <2>3
<1>8. s.out \o Operations(Reverse(above)) \in Seq(Words)
  <2> HIDE DEF above
  <2>1. Reverse(above) \in Seq(Unary \cup Binary)
    BY <1>7, ReversedIs
  <2>2. Operations(Reverse(above)) \in Seq(Words)
    BY <2>1, OperationIs
  <2> QED BY <1>2, <2>2
<1>9. open # 0 => SubSeq(s.ops, 1, open - 1) \in Seq(Names)
  <2> HIDE DEF open
  <2> QED BY <1>2, <1>5
<1>10. ClosingParen(s) =
          IF open = 0 THEN [s EXCEPT !.is = "no"]
          ELSE [s EXCEPT !.ops = SubSeq(s.ops, 1, open - 1),
                         !.out = @ \o Operations(Reverse(above))]
  <2> HIDE DEF open
  <2> QED BY <1>1 DEF ClosingParen
<1> HIDE DEF open, above
<1> QED BY <1>8, <1>9, <1>10 DEF Reads

LEMMA ALOperatorIs ==
    ASSUME NEW s \in Reads, NEW op \in Unary \cup Binary
    PROVE  ALOperator(s, op) \in Reads
<1>1. Append(s.ops, op) \in Seq({"("} \cup Unary \cup Binary)
  BY DEF Reads
<1> QED BY <1>1 DEF ALOperator, Reads

LEMMA ArithmeticLexemIs ==
    ASSUME NEW s \in Reads, NEW l \in Seq(Lexems), NEW j \in 1..Len(l)
    PROVE  ArithmeticLexem(s, l, j) \in Reads
<1> DEFINE Names == {"("} \cup Unary \cup Binary
<1>1. l[j] \in Lexems
  OBVIOUS
<1>2. /\ s.ops \in Seq(Names) /\ s.out \in Seq(Words)
      /\ s.is \in {"reading", "no", "undefined", "over"}
  BY DEF Reads
<1>3. l[j].type \in {"integer", "variable"} => Append(s.out, l[j]) \in Seq(Words)
  <2>1. l[j].type \in {"integer", "variable"} => l[j] \in Words
    BY <1>1 DEF Words
  <2> QED BY <1>2, <2>1
<1>4. Append(s.ops, "(") \in Seq(Names)
  BY <1>2
<1>5. ClosingParen(s) \in Reads
  BY ClosingParenIs
<1>6. l[j].text \in ALOperations =>
          ALOperator(s, IF IsUnMinus(l, j) THEN "-U" ELSE l[j].text) \in Reads
  <2>1. l[j].text \in ALOperations =>
            (IF IsUnMinus(l, j) THEN "-U" ELSE l[j].text) \in Unary \cup Binary
    BY DEF ALOperations, Unary, Binary
  <2> QED BY <2>1, ALOperatorIs
<1>7. /\ l[j].type \in {"integer", "variable"} => [s EXCEPT !.out = Append(@, l[j])] \in Reads
      /\ [s EXCEPT !.ops = Append(@, "(")] \in Reads
      /\ [s EXCEPT !.is = "no"] \in Reads /\ [s EXCEPT !.is = "over"] \in Reads
  BY <1>2, <1>3, <1>4 DEF Reads
<1> QED BY <1>5, <1>6, <1>7 DEF ArithmeticLexem

LEMMA EndOfIs ==
    ASSUME NEW l \in Seq(Lexems), NEW i \in Nat \ {0}, i <= Len(l) + 1
    PROVE  EndOf(l, i) \in i..(Len(l) + 1) /\ EndOf(l, i) \in Nat
<1>1. /\ EndOf(l, i) \in Nat \ {0}
      /\ EndOf(l, i) = Len(l) + 1 \/ EndOf(l, i) \in i..Len(l)
  BY NextWordIs DEF EndOf
<1>2. Len(l) \in Nat
  OBVIOUS
<1> QED BY <1>1, <1>2

\* Reading an expression is a step for each of its lexems.
FirstRead == [is |-> "reading", ops |-> <<"(">>, out |-> <<>>]

LEMMA ReadToSteps ==
    ASSUME NEW l \in Seq(Lexems), NEW i \in Nat \ {0}, NEW j \in i..(Len(l) + 1)
    PROVE  \E h \in [i..j -> Reads] :
               /\ h[i] = FirstRead /\ h[j] = ReadTo(l, i, j)
               /\ \A k \in i..j : k # i => h[k] = ArithmeticLexem(h[k - 1], l, k - 1)
<1> DEFINE base == [is |-> "reading", ops |-> <<"(">>, out |-> <<>>]
           Step(h, k) == IF k = i THEN base ELSE ArithmeticLexem(h[k - 1], l, k - 1)
           Form(h) == h = [k \in i..j |-> Step(h, k)]
           read == CHOOSE h : Form(h)
<1>1. base \in Reads
  BY DEF Reads
<1>2. j \in Nat /\ i \in Nat /\ i <= j /\ Len(l) \in Nat
  OBVIOUS
<1>3. \A k \in i..j : k # i => k - 1 \in i..j /\ k - 1 \in 1..Len(l)
  BY <1>2
<1>4. ReadTo(l, i, j) = read[j]
  BY DEF ReadTo
<1> DEFINE F == [k \in i..j |-> [s \in Reads |->
                    IF k = i THEN s ELSE ArithmeticLexem(s, l, k - 1)]]
<1>5. F \in [i..j -> [Reads -> Reads]]
  <2> HIDE DEF base
  <2>1. ASSUME NEW k \in i..j, NEW s \in Reads
        PROVE  (IF k = i THEN s ELSE ArithmeticLexem(s, l, k - 1)) \in Reads
    BY <1>3, ArithmeticLexemIs
  <2> QED BY <2>1
<1>6. \A k \in i..j : \A s \in Reads : k # i => F[k][s] = ArithmeticLexem(s, l, k - 1)
  OBVIOUS
<1> HIDE DEF base, F
<1>7. \E h : Iteration(h, i, j, Reads, base, F)
  BY <1>1, <1>2, <1>5, Iterated
<1>8. PICK h : Iteration(h, i, j, Reads, base, F)
  BY <1>7
<1>9. /\ h \in [i..j -> Reads] /\ h[i] = base
      /\ \A k \in i..j : k # i => h[k] = F[k][h[k - 1]]
  BY <1>8 DEF Iteration
<1>10. Form(h)
  <2>1. h = [k \in i..j |-> h[k]]
    BY <1>9
  <2>2. ASSUME NEW k \in i..j
        PROVE  h[k] = Step(h, k)
    BY <1>3, <1>6, <1>9
  <2> QED BY <2>1, <2>2
<1>11. Form(read)
  <2> HIDE DEF Form
  <2> QED BY <1>10
<1> HIDE DEF read
<1>12. \A k \in i..j : read[k] = Step(read, k)
  BY <1>11
<1> DEFINE Typed == {k \in i..j : read[k] \in Reads}
<1>13. i \in Typed
  BY <1>1, <1>2, <1>12
<1>14. ASSUME NEW k \in (i + 1)..j, k - 1 \in Typed
       PROVE  k \in Typed
  <2>1. k \in i..j /\ k # i /\ k - 1 \in 1..Len(l)
    BY <1>2
  <2>2. read[k] = ArithmeticLexem(read[k - 1], l, k - 1) /\ read[k - 1] \in Reads
    BY <1>12, <1>14, <2>1
  <2>3. ArithmeticLexem(read[k - 1], l, k - 1) \in Reads
    BY <2>1, <2>2, ArithmeticLexemIs
  <2> QED BY <2>1, <2>2, <2>3
<1> HIDE DEF Typed
<1>15. \A k \in i..j : k \in Typed
  BY <1>2, <1>13, <1>14, Climbing
<1>16. read \in [i..j -> Reads]
  <2>1. \A k \in i..j : read[k] \in Reads
    BY <1>15 DEF Typed
  <2>2. read = [k \in i..j |-> read[k]]
    <3>1. read = [k \in i..j |-> Step(read, k)]
      BY <1>11
    <3> HIDE DEF Step
    <3> QED BY <1>12, <3>1
  <2> QED BY <2>1, <2>2
<1>17. \A k \in i..j : k # i => read[k] = ArithmeticLexem(read[k - 1], l, k - 1)
  BY <1>12
<1>18. read[i] = base /\ read[j] = ReadTo(l, i, j)
  BY <1>2, <1>4, <1>12
<1>19. base = FirstRead
  BY DEF base, FirstRead
<1> QED BY <1>16, <1>17, <1>18, <1>19

LEMMA ReadToIs ==
    ASSUME NEW l \in Seq(Lexems), NEW i \in Nat \ {0}, NEW j \in i..(Len(l) + 1)
    PROVE  ReadTo(l, i, j) \in Reads
<1>1. PICK h \in [i..j -> Reads] : h[j] = ReadTo(l, i, j)
  BY ReadToSteps
<1>2. j \in i..j
  OBVIOUS
<1> QED BY <1>1, <1>2


LEMMA PostfixIs ==
    ASSUME NEW s \in Reads, NEW cut \in BOOLEAN
    PROVE  Postfix(s, cut) \in Operands
<1>1. ClosingParen(s).out \in Seq(Words)
  BY ClosingParenIs DEF Reads
<1>2. Postfix(s, cut) \in {No, Crashed, Yes("arithmetic", ClosingParen(s).out)}
  BY DEF Postfix
<1> QED BY <1>1, <1>2 DEF Operands

LEMMA ArithmeticIs ==
    ASSUME NEW l \in Seq(Lexems), NEW i \in Nat \ {0}
    PROVE  Arithmetic(l, i) \in Operands
<1>1. CASE i > Len(l)
  BY <1>1 DEF Arithmetic, Operands
<1>2. CASE ~(i > Len(l))
  <2>1. i <= Len(l)
    BY <1>2
  <2>2. ReadTo(l, i, EndOf(l, i)) \in Reads
    <3>1. i <= Len(l) + 1
      BY <2>1
    <3> QED BY <3>1, EndOfIs, ReadToIs
  <2>3. (EndOf(l, i) > Len(l)) \in BOOLEAN
    OBVIOUS
  <2>4. Postfix(ReadTo(l, i, EndOf(l, i)), EndOf(l, i) > Len(l)) \in Operands
    BY <2>2, <2>3, PostfixIs
  <2> QED BY <1>2, <2>4 DEF Arithmetic
<1> QED BY <1>1, <1>2

\* One step of a game function: o is what the argument behind the next lexem is.
GameRead(o, l, j) ==
    IF At(l, j).text \in SimpleGF THEN Yes("game", <<l[j]>>)
    ELSE IF ~isValidGameFunction(At(l, j).text) \/ At(l, j + 1).text # "(" \/ j + 2 > Len(l)
         THEN No
    ELSE Asking(OrElse(VarRValue(l, j + 2), OrElse(o, Arithmetic(l, j + 2))), l, j)

LEMMA OrElseIs ==
    ASSUME NEW a \in Operands, NEW b \in Operands
    PROVE  OrElse(a, b) \in Operands
BY DEF OrElse

\* A word that names something is in the script.
LEMMA NamedIsThere ==
    ASSUME NEW l \in Seq(Lexems), NEW j \in Int, At(l, j).text # ""
    PROVE  j \in 1..Len(l) /\ l[j] \in Lexems /\ At(l, j) = l[j]
<1>1. j \in DOMAIN l /\ At(l, j) = l[j]
  BY DEF At
<1>2. DOMAIN l = 1..Len(l) /\ \A k \in 1..Len(l) : l[k] \in Lexems
  BY PlacesOf
<1> QED BY <1>1, <1>2

LEMMA AskingIs ==
    ASSUME NEW arg \in Operands, NEW l \in Seq(Lexems), NEW j \in 1..Len(l),
           l[j].text \in GameFunctions
    PROVE  Asking(arg, l, j) \in Operands
<1>1. CASE arg.is # "yes"
  BY <1>1 DEF Asking
<1>2. CASE arg.is = "yes" /\ arg.kind = "game"
  <2>1. PICK s \in Seq(GameWords) \ {<<>>} : arg = Yes("game", s)
    BY <1>2 DEF Operands, Yes, No, Crashed
  <2>2. l[j] \in GameWords
    BY DEF GameWords
  <2>3. Append(s, l[j]) \in Seq(GameWords) \ {<<>>} /\ arg.words = s
    BY <2>1, <2>2 DEF Yes
  <2>4. Yes("game", Append(arg.words, l[j])) \in Operands
    BY <2>3 DEF Operands
  <2>5. No \in Operands
    BY DEF Operands
  <2> QED BY <1>2, <2>4, <2>5 DEF Asking
<1>3. CASE arg.is = "yes" /\ arg.kind # "game"
  BY <1>3 DEF Asking, Operands
<1> QED BY <1>1, <1>2, <1>3

LEMMA GameReadIs ==
    ASSUME NEW l \in Seq(Lexems), NEW j \in Nat \ {0},
           NEW o, j + 2 <= Len(l) => o \in Operands
    PROVE  GameRead(o, l, j) \in Operands
<1>1. CASE At(l, j).text \in SimpleGF
  <2>1. l[j] \in GameWords
    <3>1. At(l, j).text # ""
      BY <1>1 DEF SimpleGF
    <3>2. j \in Int /\ At(l, j).text \in GameFunctions
      BY <1>1 DEF GameFunctions
    <3>3. l[j] \in Lexems /\ At(l, j) = l[j]
      BY <3>1, <3>2, NamedIsThere
    <3> QED BY <3>2, <3>3 DEF GameWords
  <2>2. <<l[j]>> \in Seq(GameWords) \ {<<>>}
    BY <2>1
  <2> QED BY <1>1, <2>2 DEF GameRead, Operands
<1>2. CASE /\ At(l, j).text \notin SimpleGF
           /\ ~isValidGameFunction(At(l, j).text) \/ At(l, j + 1).text # "(" \/ j + 2 > Len(l)
  BY <1>2 DEF GameRead, Operands
<1>3. CASE /\ At(l, j).text \notin SimpleGF /\ isValidGameFunction(At(l, j).text)
           /\ At(l, j + 1).text = "(" /\ ~(j + 2 > Len(l))
  <2>1. j + 2 <= Len(l) /\ j + 2 \in Nat \ {0} /\ j \in 1..Len(l)
    BY <1>3
  <2>2. At(l, j) = l[j] /\ l[j].text \in GameFunctions
    BY <1>3, <2>1, InScript DEF isValidGameFunction
  <2>3. OrElse(VarRValue(l, j + 2), OrElse(o, Arithmetic(l, j + 2))) \in Operands
    BY <2>1, VarRValueIs, ArithmeticIs, OrElseIs
  <2>4. Asking(OrElse(VarRValue(l, j + 2), OrElse(o, Arithmetic(l, j + 2))), l, j) \in Operands
    BY <2>1, <2>2, <2>3, AskingIs
  <2> QED BY <1>3, <2>4 DEF GameRead
<1> QED BY <1>1, <1>2, <1>3

\* It does not look at the argument when there is no room for one.
LEMMA GameReadEnd ==
    ASSUME NEW l \in Seq(Lexems), NEW j \in Nat \ {0}, ~(j + 2 <= Len(l)), NEW o, NEW p
    PROVE  GameRead(o, l, j) = GameRead(p, l, j)
<1>1. j + 2 > Len(l)
  OBVIOUS
<1> QED BY <1>1 DEF GameRead

\* The places are read from the last one on; two steps are remembered.
LEMMA GameStatementSteps ==
    ASSUME NEW l \in Seq(Lexems), NEW i \in Nat \ {0}
    PROVE  \E game :
              /\ GameStatement(l, i) = IF i > Len(l) THEN No ELSE game[i]
              /\ \A j \in 1..(Len(l) + 2) :
                    game[j] = GameRead(game[j + 2], l, j) /\ game[j] \in Operands
<1> DEFINE n == Len(l) + 2
           Form(h) == h = [j \in 1..n |-> GameRead(h[j + 2], l, j)]
           game == CHOOSE h : Form(h)
           T == Operands \X Operands
           base == <<No, No>>
           F == [k \in 0..n |-> [p \in T |->
                    IF k = 0 THEN p ELSE <<GameRead(p[2], l, n + 1 - k), p[1]>>]]
<1>1. n \in Nat /\ n > 0 /\ n = Len(l) + 2
  OBVIOUS
<1>2. GameStatement(l, i) = IF i > Len(l) THEN No ELSE game[i]
  BY DEF GameStatement, GameRead
<1>3. base \in T
  BY DEF Operands
<1>4. F \in [0..n -> [T -> T]]
  <2>1. ASSUME NEW k \in 0..n, NEW p \in T
        PROVE  (IF k = 0 THEN p ELSE <<GameRead(p[2], l, n + 1 - k), p[1]>>) \in T
    <3>1. CASE k = 0
      BY <3>1
    <3>2. CASE k # 0
      <4>1. n + 1 - k \in Nat \ {0} /\ p[2] \in Operands /\ p[1] \in Operands
        BY <1>1, <3>2
      <4>2. GameRead(p[2], l, n + 1 - k) \in Operands
        <5> HIDE DEF n
        <5> QED BY <4>1, GameReadIs
      <4> QED BY <3>2, <4>1, <4>2
    <3> QED BY <3>1, <3>2
  <2> HIDE DEF T, n
  <2> QED BY <2>1
<1>5. \A k \in 0..n : \A p \in T : k # 0 => F[k][p] = <<GameRead(p[2], l, n + 1 - k), p[1]>>
  <2> HIDE DEF T, n
  <2> QED OBVIOUS
<1> HIDE DEF F, T, base, n
<1>6. \E h : Iteration(h, 0, n, T, base, F)
  <2>1. 0 \in Nat /\ 0 <= n
    BY <1>1
  <2> QED BY <1>1, <1>3, <1>4, <2>1, Iterated
<1>7. PICK h : Iteration(h, 0, n, T, base, F)
  BY <1>6
<1>8. /\ h \in [0..n -> T] /\ h[0] = base
      /\ \A k \in 0..n : k # 0 => h[k] = F[k][h[k - 1]]
  BY <1>7 DEF Iteration
<1>9. \A k \in 1..n : /\ k \in 0..n /\ k - 1 \in 0..n
                      /\ h[k][1] = GameRead(h[k - 1][2], l, n + 1 - k)
                      /\ h[k][2] = h[k - 1][1]
  <2> TAKE k \in 1..n
  <2>1. k \in 0..n /\ k - 1 \in 0..n /\ k # 0
    BY <1>1
  <2>2. h[k - 1] \in T /\ h[k] = F[k][h[k - 1]]
    BY <1>8, <2>1
  <2>3. h[k] = <<GameRead(h[k - 1][2], l, n + 1 - k), h[k - 1][1]>>
    BY <1>5, <2>1, <2>2
  <2> QED BY <2>1, <2>3
<1> DEFINE g == [j \in 1..n |-> h[n + 1 - j][1]]
<1>10. ASSUME NEW j \in 1..n
       PROVE  g[j] = GameRead(g[j + 2], l, j)
  <2>1. n + 1 - j \in 1..n /\ n + 1 - (n + 1 - j) = j
    BY <1>1
  <2>2. g[j] = GameRead(h[(n + 1 - j) - 1][2], l, j)
    BY <1>9, <2>1
  <2>3. CASE j + 2 <= Len(l)
    <3>1. (n + 1 - j) - 1 \in 1..n /\ j + 2 \in 1..n
          /\ ((n + 1 - j) - 1) - 1 = n + 1 - (j + 2)
      BY <1>1, <2>3
    <3>2. h[(n + 1 - j) - 1][2] = h[((n + 1 - j) - 1) - 1][1]
      BY <1>9, <3>1
    <3>3. g[j + 2] = h[n + 1 - (j + 2)][1]
      BY <3>1
    <3> HIDE DEF g
    <3> QED BY <2>2, <3>1, <3>2, <3>3
  <2>4. CASE ~(j + 2 <= Len(l))
    <3>1. j \in Nat \ {0}
      BY <1>1
    <3> QED BY <2>2, <2>4, <3>1, GameReadEnd
  <2> QED BY <2>3, <2>4
<1>11. Form(g)
  <2>1. g = [j \in 1..n |-> g[j]]
    OBVIOUS
  <2> HIDE DEF g
  <2> QED BY <1>10, <2>1
<1>12. Form(game)
  <2> HIDE DEF Form, g
  <2> QED BY <1>11
<1> HIDE DEF game
<1>13. \A j \in 1..n : game[j] = GameRead(game[j + 2], l, j)
  BY <1>12
<1> DEFINE others == {j \in 1..n : game[j] \notin Operands}
<1>14. others = {}
  <2> SUFFICES ASSUME others # {} PROVE FALSE
    OBVIOUS
  <2>1. others \in SUBSET Nat /\ \A y \in others : y <= n
    BY <1>1
  <2>2. PICK x \in others : \A y \in others : y <= x
    <3> HIDE DEF others
    <3> QED BY <1>1, <2>1, GreatestIs
  <2>3. x \in 1..n /\ x \in Nat \ {0} /\ game[x] \notin Operands
    BY <1>1, <2>2
  <2>4. x + 2 <= Len(l) => game[x + 2] \in Operands
    BY <1>1, <2>2, <2>3
  <2>5. GameRead(game[x + 2], l, x) \in Operands
    BY <2>3, <2>4, GameReadIs
  <2> QED BY <1>13, <2>3, <2>5
<1>15. \A j \in 1..n : game[j] = GameRead(game[j + 2], l, j) /\ game[j] \in Operands
  BY <1>13, <1>14
<1> QED BY <1>2, <1>15 DEF n

LEMMA GameStatementIs ==
    ASSUME NEW l \in Seq(Lexems), NEW i \in Nat \ {0}
    PROVE  GameStatement(l, i) \in Operands
<1>1. PICK game :
         /\ GameStatement(l, i) = IF i > Len(l) THEN No ELSE game[i]
         /\ \A j \in 1..(Len(l) + 2) :
               game[j] = GameRead(game[j + 2], l, j) /\ game[j] \in Operands
  BY GameStatementSteps
<1>2. ~(i > Len(l)) => i \in 1..(Len(l) + 2)
  OBVIOUS
<1>3. No \in Operands
  BY DEF Operands
<1> QED BY <1>1, <1>2, <1>3

LEMMA ConditionIs ==
    ASSUME NEW l \in Seq(Lexems), NEW i \in Nat \ {0}
    PROVE  Condition(l, i) \in Operands
BY ArithmeticIs, GameStatementIs, OrElseIs DEF Condition

LEMMA OperandIs ==
    ASSUME NEW l \in Seq(Lexems), NEW i \in Nat \ {0}
    PROVE  Operand(l, i) \in Operands
BY VarRValueIs, ConditionIs, OrElseIs DEF Operand

-----------------------------------------------------------------------------
(* Translated operands: elements that leave a value on the stack, with an  *)
(* address that one of m variables has.                                    *)
Plain == {"int", "str", "addr"} \cup GameFunctions \cup Unary \cup Binary
Pieces(m) == {e \in Coded : e.op \in Plain /\ (e.op = "addr" => e.n \in 1..m)}

LEMMA ElemIs ==
    ASSUME NEW op \in Ops, NEW n \in Int
    PROVE  Elem(op, n) \in Coded /\ Elem(op, n).op = op /\ Elem(op, n).n = n
BY DEF Elem, Coded

\* An element that is no address.
LEMMA PieceIs ==
    ASSUME NEW m \in Nat, NEW op \in Plain \ {"addr"}, NEW n \in Int
    PROVE  Elem(op, n) \in Pieces(m)
<1>1. op \in Ops
  BY DEF Plain, Ops
<1> QED BY <1>1, ElemIs DEF Pieces

LEMMA AddressOfIs ==
    ASSUME NEW names \in Seq(Texts), NEW text
    PROVE  AddressOf(names, text) \in 0..Len(names)
<1> DEFINE found == {k \in 1..Len(names) : names[k] = text}
<1>1. AddressOf(names, text) = IF found # {} THEN Min(found) ELSE 0
  BY DEF AddressOf, SelectInSeq
<1>2. found \in SUBSET Nat /\ Len(names) \in Nat
  OBVIOUS
<1>3. found # {} => Min(found) \in found
  <2> HIDE DEF found
  <2> QED BY <1>2, LeastIs
<1> QED BY <1>1, <1>2, <1>3

LEMMA VariableIs ==
    ASSUME NEW names \in Seq(Texts), NEW word,
           TransformRVal(word, names) # AddrElem(0)
    PROVE  TransformRVal(word, names) \in Pieces(Len(names))
<1> DEFINE a == AddressOf(names, word.text)
<1>1. a \in 0..Len(names) /\ Len(names) \in Nat
  BY AddressOfIs
<1>2. TransformRVal(word, names) = AddrElem(a)
  BY DEF TransformRVal
<1> HIDE DEF a
<1>3. a \in 1..Len(names)
  BY <1>1, <1>2
<1>4. "addr" \in Ops /\ "addr" \in Plain /\ a \in Int
  BY <1>3 DEF Ops, Plain
<1> QED BY <1>2, <1>3, <1>4, ElemIs DEF AddrElem, Pieces

LEMMA WordIs ==
    ASSUME NEW names \in Seq(Texts), NEW word \in Words,
           ProcessArithmeticLexem(word, names) # AddrElem(0)
    PROVE  ProcessArithmeticLexem(word, names) \in Pieces(Len(names))
<1>1. word.n \in Int /\ Len(names) \in Nat
  BY DEF Words, Lexems
<1>2. CASE word.type = "integer"
  <2>1. ProcessArithmeticLexem(word, names) = Elem("int", word.n)
    BY <1>2 DEF ProcessArithmeticLexem, IntElem
  <2>2. "int" \in Plain \ {"addr"}
    BY DEF Plain
  <2> QED BY <1>1, <2>1, <2>2, PieceIs
<1>3. CASE word.type = "variable"
  <2>1. ProcessArithmeticLexem(word, names) = TransformRVal(word, names)
    BY <1>3 DEF ProcessArithmeticLexem
  <2> QED BY <2>1, VariableIs
<1>4. CASE word.type \notin {"integer", "variable"}
  <2>1. ProcessArithmeticLexem(word, names) = Elem(word.text, 0)
    BY <1>4 DEF ProcessArithmeticLexem
  <2>2. word.text \in Plain \ {"addr"}
    BY <1>4 DEF Words, Plain, Unary, Binary, Dividing
  <2> QED BY <1>1, <2>1, <2>2, PieceIs
<1> QED BY <1>2, <1>3, <1>4

LEMMA GameLexemIs ==
    ASSUME NEW m \in Nat, NEW words \in Seq(GameWords) \ {<<>>}
    PROVE  ProcessGameLexem(words) \in Seq(Pieces(m))
<1>1. Len(words) \in Nat \ {0} /\ \A k \in 1..Len(words) : words[k] \in GameWords
  OBVIOUS
<1>2. \A w \in GameWords : Elem(w.text, 0) \in Pieces(m)
  <2>1. \A w \in GameWords : w.text \in Plain \ {"addr"}
    BY DEF GameWords, Plain, GameFunctions, SimpleGF, PlayerGF
  <2> QED BY <2>1, PieceIs
<1> DEFINE first == [k \in 1..(Len(words) - 1) |-> ProcessGameLexemArgument(words[k])]
           n == Len(words) - 1
<1>3. n \in Nat /\ \A k \in 1..n : words[k] \in GameWords
  BY <1>1
<1>4. first \in [1..n -> Pieces(m)]
  BY <1>2, <1>3 DEF ProcessGameLexemArgument
<1>5. first \in Seq(Pieces(m))
  <2> HIDE DEF first, n
  <2> QED BY <1>3, <1>4, SeqByPlaces
<1>6. Elem(Last(words).text, 0) \in Pieces(m)
  BY <1>1, <1>2 DEF Last
<1>7. first \o <<Elem(Last(words).text, 0)>> \in Seq(Pieces(m))
  <2> HIDE DEF first
  <2> QED BY <1>5, <1>6, AppendedIs
<1> QED BY <1>7 DEF ProcessGameLexem

LEMMA TranslatedIs ==
    ASSUME NEW names \in Seq(Texts), NEW operand \in Operands, operand.is = "yes",
           Declared(operand, names)
    PROVE  Translated(operand, names) \in Seq(Pieces(Len(names)))
<1> DEFINE m == Len(names)
<1>1. m \in Nat
  OBVIOUS
<1>2. \A k \in DOMAIN Translated(operand, names) : Translated(operand, names)[k] # AddrElem(0)
  BY DEF Declared, ToSet
<1>3. CASE \E w \in Lexems : operand = Yes("rvalue", <<w>>)
  <2>1. PICK w \in Lexems : operand = Yes("rvalue", <<w>>)
    BY <1>3
  <2>2. operand.kind = "rvalue" /\ operand.words = <<w>>
    BY <2>1 DEF Yes
  <2>3. Translated(operand, names) = <<TransformRVal(w, names)>>
    BY <2>2 DEF Translated
  <2>4. TransformRVal(w, names) # AddrElem(0)
    BY <1>2, <2>3
  <2>5. TransformRVal(w, names) \in Pieces(m)
    BY <2>4, VariableIs
  <2> HIDE DEF m
  <2> QED BY <2>3, <2>5 DEF m
<1>4. CASE \E s \in Seq(Words) : operand = Yes("arithmetic", s)
  <2>1. PICK s \in Seq(Words) : operand = Yes("arithmetic", s)
    BY <1>4
  <2>2. operand.kind = "arithmetic" /\ operand.words = s
    BY <2>1 DEF Yes
  <2> DEFINE code == [k \in 1..Len(s) |-> ProcessArithmeticLexem(s[k], names)]
  <2>3. Translated(operand, names) = code
    BY <2>2 DEF Translated
  <2>4. Len(s) \in Nat /\ \A k \in 1..Len(s) : s[k] \in Words
    OBVIOUS
  <2>5. ASSUME NEW k \in 1..Len(s)
        PROVE  ProcessArithmeticLexem(s[k], names) \in Pieces(m)
    <3>1. ProcessArithmeticLexem(s[k], names) # AddrElem(0)
      BY <1>2, <2>3
    <3> QED BY <2>4, <3>1, WordIs
  <2>6. code \in [1..Len(s) -> Pieces(m)]
    <3> HIDE DEF m
    <3> QED BY <2>5
  <2> HIDE DEF m, code
  <2> QED BY <2>3, <2>4, <2>6, SeqByPlaces DEF m
<1>5. CASE \E s \in Seq(GameWords) \ {<<>>} : operand = Yes("game", s)
  <2>1. PICK s \in Seq(GameWords) \ {<<>>} : operand = Yes("game", s)
    BY <1>5
  <2>2. operand.kind = "game" /\ operand.words = s
    BY <2>1 DEF Yes
  <2>3. Translated(operand, names) = ProcessGameLexem(s)
    BY <2>2 DEF Translated
  <2> QED BY <1>1, <2>3, GameLexemIs
<1> QED BY <1>3, <1>4, <1>5 DEF Operands, No, Crashed

-----------------------------------------------------------------------------
(* The code of one operator, when there are m variables and the labels lead *)
(* to targets: it ends in a terminator, and there is no other in it.        *)
Inner(m, targets) ==
    {e \in Coded : /\ e.op \notin Terminators
                   /\ e.op = "addr" => e.n \in 1..m
                   /\ e.op = "label" => e.n \in targets}

Ended(code, m, targets) ==
    /\ code \in Seq(Coded) /\ Len(code) # 0
    /\ \A k \in 1..Len(code) :
           /\ code[k].op \in Terminators <=> k = Len(code)
           /\ code[k].op = "addr" => code[k].n \in 1..m
           /\ code[k].op = "label" => code[k].n \in targets

LEMMA PiecesAreInner ==
    ASSUME NEW m \in Nat, NEW targets
    PROVE  Pieces(m) \subseteq Inner(m, targets)
<1>1. \A op \in Plain : op \notin Terminators /\ op # "label"
  BY DEF Plain, Terminators, GameFunctions, SimpleGF, PlayerGF, Unary, Binary, Dividing
<1> QED BY <1>1 DEF Pieces, Inner

LEMMA EndIs ==
    ASSUME NEW op \in Terminators, NEW m, NEW targets
    PROVE  Ended(<<Elem(op, 0)>>, m, targets)
<1>1. op \in Ops /\ op # "addr" /\ op # "label"
  BY DEF Terminators, Ops
<1>2. Elem(op, 0) \in Coded /\ Elem(op, 0).op = op
  BY <1>1, ElemIs
<1> DEFINE code == <<Elem(op, 0)>>
<1>3. code \in Seq(Coded) /\ Len(code) = 1 /\ code[1] = Elem(op, 0)
  BY <1>2
<1> HIDE DEF code
<1>4. \A k \in 1..Len(code) : k = 1 /\ k = Len(code) /\ code[k].op = op
  BY <1>2, <1>3
<1>5. Ended(code, m, targets)
  BY <1>1, <1>3, <1>4 DEF Ended
<1> QED BY <1>5 DEF code

LEMMA Prefixed ==
    ASSUME NEW m, NEW targets, NEW c \in Seq(Inner(m, targets)), NEW d, Ended(d, m, targets)
    PROVE  Ended(c \o d, m, targets)
<1> DEFINE code == c \o d
<1>1. Inner(m, targets) \subseteq Coded
  BY DEF Inner
<1>2. c \in Seq(Coded) /\ d \in Seq(Coded) /\ Len(d) # 0
  BY <1>1, WiderSeq DEF Ended
<1>3. Len(c) \in Nat /\ Len(d) \in Nat \ {0}
  BY <1>2
<1>4. /\ code \in Seq(Coded) /\ Len(code) = Len(c) + Len(d)
      /\ \A k \in 1..Len(c) : code[k] = c[k]
      /\ \A k \in (Len(c) + 1)..(Len(c) + Len(d)) : code[k] = d[k - Len(c)]
  BY <1>2, JoinedIs
<1> HIDE DEF code
<1>5. ASSUME NEW k \in 1..Len(code)
      PROVE  /\ code[k].op \in Terminators <=> k = Len(code)
             /\ code[k].op = "addr" => code[k].n \in 1..m
             /\ code[k].op = "label" => code[k].n \in targets
  <2>1. CASE k \in 1..Len(c)
    <3>1. c[k] \in Inner(m, targets) /\ code[k] = c[k]
      BY <1>4, <2>1
    <3>2. k # Len(code)
      BY <1>3, <1>4, <2>1
    <3> QED BY <3>1, <3>2 DEF Inner
  <2>2. CASE k \in (Len(c) + 1)..(Len(c) + Len(d))
    <3>1. k - Len(c) \in 1..Len(d) /\ code[k] = d[k - Len(c)]
      BY <1>3, <1>4, <2>2
    <3>2. k = Len(code) <=> k - Len(c) = Len(d)
      BY <1>3, <1>4, <2>2
    <3> QED BY <3>1, <3>2 DEF Ended
  <2>3. k \in 1..Len(c) \/ k \in (Len(c) + 1)..(Len(c) + Len(d))
    BY <1>3, <1>4
  <2> QED BY <2>1, <2>2, <2>3
<1>6. Len(code) # 0
  BY <1>3, <1>4
<1>7. Ended(code, m, targets)
  BY <1>4, <1>5, <1>6 DEF Ended
<1> QED BY <1>7 DEF code

\* What pieces and a terminator behind them make.
LEMMA PiecesEnded ==
    ASSUME NEW m \in Nat, NEW targets, NEW c \in Seq(Pieces(m)), NEW op \in Terminators
    PROVE  Ended(c \o <<Elem(op, 0)>>, m, targets)
<1>1. c \in Seq(Inner(m, targets))
  BY PiecesAreInner, WiderSeq
<1> QED BY <1>1, EndIs, Prefixed

LEMMA EndedInMore ==
    ASSUME NEW m \in Nat, NEW n \in Nat, m <= n, NEW targets, NEW code, Ended(code, m, targets)
    PROVE  Ended(code, n, targets)
BY DEF Ended

\* What an operator makes of the variables it finds.
Makes(r, names, targets) ==
    /\ r.is \in {"ok", "no", "undefined"}
    /\ r.names \in Seq(Texts) /\ Len(names) <= Len(r.names)
    /\ r.is = "ok" => /\ r = Compiled(r.code, r.next, r.names)
                      /\ r.next \in Nat \ {0} /\ Ended(r.code, Len(r.names), targets)

LEMMA RefusedMakes ==
    ASSUME NEW names \in Seq(Texts), NEW known \in Seq(Texts), Len(names) <= Len(known),
           NEW targets
    PROVE  Makes(Refused(known), names, targets) /\ Makes(Undefined(known), names, targets)
BY DEF Makes, Refused, Undefined

LEMMA CompiledMakes ==
    ASSUME NEW names \in Seq(Texts), NEW known \in Seq(Texts), Len(names) <= Len(known),
           NEW targets, NEW code, Ended(code, Len(known), targets), NEW next \in Nat \ {0}
    PROVE  Makes(Compiled(code, next, known), names, targets)
BY DEF Makes, Compiled

LEMMA MakesFromMore ==
    ASSUME NEW names \in Seq(Texts), NEW known \in Seq(Texts), Len(names) <= Len(known),
           NEW targets, NEW r, Makes(r, known, targets)
    PROVE  Makes(r, names, targets)
<1>1. Len(names) \in Nat /\ Len(known) \in Nat /\ Len(r.names) \in Nat
  BY DEF Makes
<1> QED BY <1>1 DEF Makes

-----------------------------------------------------------------------------
(* The operators.                                                          *)
LEMMA OperandsCases ==
    ASSUME NEW o \in Operands
    PROVE  o.is \in {"yes", "no", "undefined"}
BY DEF Operands, Yes, No, Crashed

LEMMA KnownAddress ==
    ASSUME NEW names \in Seq(Texts), NEW text \in ToSet(names)
    PROVE  AddressOf(names, text) \in 1..Len(names)
<1> DEFINE found == {k \in 1..Len(names) : names[k] = text}
<1>1. AddressOf(names, text) = IF found # {} THEN Min(found) ELSE 0
  BY DEF AddressOf, SelectInSeq
<1>2. found \in SUBSET Nat /\ found # {}
  BY DEF ToSet
<1>3. Min(found) \in found
  <2> HIDE DEF found
  <2> QED BY <1>2, LeastIs
<1> QED BY <1>1, <1>2, <1>3

LEMMA DeclaredNames ==
    ASSUME NEW names \in Seq(Texts), NEW text \in Texts,
           NEW known, known = IF text \in ToSet(names) THEN names ELSE Append(names, text)
    PROVE  known \in Seq(Texts) /\ Len(names) <= Len(known) /\ text \in ToSet(known)
<1>1. CASE text \in ToSet(names)
  BY <1>1
<1>2. CASE text \notin ToSet(names)
  <2>1. /\ known \in Seq(Texts) /\ Len(known) = Len(names) + 1
        /\ known[Len(names) + 1] = text /\ Len(names) \in Nat
    BY <1>2
  <2>2. DOMAIN known = 1..Len(known)
    BY <2>1
  <2> QED BY <2>1, <2>2 DEF ToSet
<1> QED BY <1>1, <1>2

LEMMA AssignMakes ==
    ASSUME NEW l \in Seq(Lexems), NEW i \in Nat \ {0}, NEW names \in Seq(Texts), NEW targets
    PROVE  Makes(AssignOperator(l, i, names), names, targets)
<1> DEFINE value == Operand(l, i + 2)
           known == IF l[i].text \in ToSet(names) THEN names ELSE Append(names, l[i].text)
           end == NextWord(l, i + 3, {";"})
           variable == AddrElem(AddressOf(known, l[i].text))
           code == Translated(value, known) \o <<variable, Elem("assign", 0)>>
<1>1. Len(names) \in Nat /\ i + 2 \in Nat \ {0} /\ i + 3 \in Nat \ {0}
  OBVIOUS
<1>2. CASE ~isCorrectVarLValueStatement(At(l, i)) \/ At(l, i + 1).type # "assign"
  <2>1. AssignOperator(l, i, names) = Refused(names)
    BY <1>2 DEF AssignOperator
  <2> QED BY <1>1, <2>1, RefusedMakes
<1>3. CASE isCorrectVarLValueStatement(At(l, i)) /\ At(l, i + 1).type = "assign"
  <2>1. AssignOperator(l, i, names) = AssignedValue(value, l, i, names)
    BY <1>3 DEF AssignOperator
  <2>2. l[i].text \in Texts
    <3>1. i \in DOMAIN l
      BY <1>3 DEF isCorrectVarLValueStatement, At
    <3>2. l[i] \in Lexems
      BY <3>1
    <3> QED BY <3>2 DEF Lexems
  <2>3. known \in Seq(Texts) /\ Len(names) <= Len(known) /\ l[i].text \in ToSet(known)
    <3> HIDE DEF known
    <3> QED BY <2>2, DeclaredNames DEF known
  <2>4. value \in Operands
    BY <1>1, OperandIs
  <2>5. end \in Nat \ {0}
    BY <1>1, NextWordIs
  <2>6. AssignedValue(value, l, i, names) =
           IF value.is = "undefined" THEN Undefined(names)
           ELSE IF value.is = "no" \/ end > Len(l) THEN Refused(names)
           ELSE IF ~Declared(value, known) THEN Refused(known)
           ELSE Compiled(code, end + 1, known)
    <3> HIDE DEF value
    <3> QED BY DEF AssignedValue
  <2> HIDE DEF value, known, end
  <2>7. ASSUME value.is \notin {"no", "undefined"}, Declared(value, known)
        PROVE  Ended(code, Len(known), targets)
    <3>1. value.is = "yes"
      BY <2>4, <2>7, OperandsCases
    <3>2. Translated(value, known) \in Seq(Pieces(Len(known)))
      BY <2>3, <2>4, <2>7, <3>1, TranslatedIs
    <3>3. Len(known) \in Nat
      BY <2>3
    <3>4. Translated(value, known) \in Seq(Inner(Len(known), targets))
      BY <3>2, <3>3, PiecesAreInner, WiderSeq
    <3>5. AddressOf(known, l[i].text) \in 1..Len(known)
      BY <2>3, KnownAddress
    <3>6. variable \in Inner(Len(known), targets)
      <4>1. "addr" \in Ops /\ "addr" \notin Terminators
        BY DEF Ops, Terminators
      <4>2. AddressOf(known, l[i].text) \in Int
        BY <3>3, <3>5
      <4> QED BY <3>5, <4>1, <4>2, ElemIs DEF AddrElem, Inner
    <3> HIDE DEF variable
    <3>7. <<variable>> \in Seq(Inner(Len(known), targets))
      BY <3>6
    <3>8. "assign" \in Terminators
      BY DEF Terminators
    <3>9. Ended(<<variable>> \o <<Elem("assign", 0)>>, Len(known), targets)
      BY <3>7, <3>8, EndIs, Prefixed
    <3>10. <<variable>> \o <<Elem("assign", 0)>> = <<variable, Elem("assign", 0)>>
      BY OneAndOne, Zenon
    <3> QED BY <3>4, <3>9, <3>10, Prefixed
  <2> HIDE DEF code
  <2>8. end + 1 \in Nat \ {0}
    BY <2>5
  <2> QED BY <1>1, <2>1, <2>3, <2>6, <2>7, <2>8, RefusedMakes, CompiledMakes
<1> QED BY <1>2, <1>3

\* Where the labels of a list lead.
Targets(labels) == {labels[k].oper : k \in 1..Len(labels)}

LEMMA GoMakes ==
    ASSUME NEW l \in Seq(Lexems), NEW i \in Nat \ {0}, NEW names \in Seq(Texts),
           NEW labels \in Seq([name : Texts, oper : Nat \ {0}])
    PROVE  Makes(GoOperator(l, i, names, labels), names, Targets(labels))
<1> DEFINE known == {k \in 1..Len(labels) : labels[k].name = At(l, i + 1).text}
           label == LabelElem(labels[Min(known)].oper)
           targets == Targets(labels)
           m == Len(names)
<1>1. m \in Nat /\ i + 3 \in Nat \ {0} /\ known \in SUBSET Nat
  OBVIOUS
<1>2. GoOperator(l, i, names, labels) =
         IF known = {} \/ At(l, i + 2).text # ";" THEN Refused(names)
         ELSE Compiled(<<label, Elem("goto", 0)>>, i + 3, names)
  BY DEF GoOperator
<1>3. ASSUME known # {}
      PROVE  Ended(<<label, Elem("goto", 0)>>, m, targets)
  <2>1. Min(known) \in known
    <3> HIDE DEF known
    <3> QED BY <1>1, <1>3, LeastIs
  <2>2. labels[Min(known)] \in [name : Texts, oper : Nat \ {0}] /\ Min(known) \in 1..Len(labels)
    <3>1. Min(known) \in 1..Len(labels)
      BY <2>1
    <3> HIDE DEF known
    <3> QED BY <3>1, PlacesOf
  <2> HIDE DEF known
  <2>3. labels[Min(known)].oper \in targets /\ labels[Min(known)].oper \in Int
    BY <2>2 DEF Targets
  <2>4. label \in Inner(m, targets)
    <3>1. "label" \in Ops /\ "label" \notin Terminators
      BY DEF Ops, Terminators
    <3> QED BY <2>3, <3>1, ElemIs DEF LabelElem, Inner
  <2> HIDE DEF label, targets, m
  <2>5. <<label>> \in Seq(Inner(m, targets))
    BY <2>4
  <2>6. "goto" \in Terminators
    BY DEF Terminators
  <2>7. Ended(<<label>> \o <<Elem("goto", 0)>>, m, targets)
    BY <2>5, <2>6, EndIs, Prefixed
  <2>8. <<label>> \o <<Elem("goto", 0)>> = <<label, Elem("goto", 0)>>
    BY OneAndOne, Zenon
  <2> QED BY <2>7, <2>8
<1> HIDE DEF known, label, targets
<1>4. m <= m
  BY <1>1
<1> QED BY <1>1, <1>2, <1>3, <1>4, RefusedMakes, CompiledMakes DEF targets

LEMMA EndturnMakes ==
    ASSUME NEW l \in Seq(Lexems), NEW i \in Nat \ {0}, NEW names \in Seq(Texts), NEW targets
    PROVE  Makes(EndturnOperator(l, i, names), names, targets)
<1>1. Len(names) <= Len(names) /\ i + 2 \in Nat \ {0}
  OBVIOUS
<1>2. Ended(<<Elem("endturn", 0)>>, Len(names), targets)
  <2>1. "endturn" \in Terminators
    BY DEF Terminators
  <2> QED BY <2>1, EndIs
<1> QED BY <1>1, <1>2, RefusedMakes, CompiledMakes DEF EndturnOperator

LEMMA AmountMakes ==
    ASSUME NEW amount \in Operands, NEW l \in Seq(Lexems), NEW i \in Nat \ {0},
           l[i].text \in Terminators, NEW names \in Seq(Texts), NEW targets
    PROVE  Makes(Amount(amount, l, i, names), names, targets)
<1> DEFINE code == Append(Translated(amount, names), Elem(l[i].text, 0))
           m == Len(names)
<1>1. m \in Nat /\ m <= m /\ i + 3 \in Nat \ {0}
  OBVIOUS
<1>2. ASSUME amount.is \notin {"no", "undefined"}, Declared(amount, names)
      PROVE  Ended(code, m, targets)
  <2>1. amount.is = "yes"
    BY <1>2, OperandsCases
  <2>2. Translated(amount, names) \in Seq(Pieces(m))
    BY <1>2, <2>1, TranslatedIs
  <2>3. code = Translated(amount, names) \o <<Elem(l[i].text, 0)>>
    BY <2>2
  <2> HIDE DEF code, m
  <2> QED BY <1>1, <2>2, <2>3, PiecesEnded
<1>3. Amount(amount, l, i, names) =
         IF amount.is = "undefined" THEN Undefined(names)
         ELSE IF amount.is = "no" \/ At(l, i + 2).text # ";" \/ ~Declared(amount, names)
              THEN Refused(names)
         ELSE Compiled(code, i + 3, names)
  BY DEF Amount
<1> HIDE DEF code
<1> QED BY <1>1, <1>2, <1>3, RefusedMakes, CompiledMakes

LEMMA BackwardsIs ==
    ASSUME NEW S, NEW code \in Seq(S)
    PROVE  Backwards(code) \in Seq(S)
<1> DEFINE n == Len(code)
           Emitted(k) ==
               IF code[k].op = "int" THEN <<code[k]>>
               ELSE IF ~isSimpleGF(code[k]) THEN <<>>
               ELSE IF k = Len(code) \/ isSimpleGF(code[k + 1]) THEN <<code[k]>>
               ELSE <<code[k], code[k + 1]>>
           parts == [k \in 1..n |-> Emitted(n + 1 - k)]
<1>1. n \in Nat
  OBVIOUS
<1>2. Backwards(code) = FlattenSeq(parts)
  BY DEF Backwards
<1>3. ASSUME NEW k \in 1..n
      PROVE  Emitted(k) \in Seq(S)
  <2>1. code[k] \in S
    OBVIOUS
  <2>2. k # Len(code) => code[k + 1] \in S
    <3>1. k # Len(code) => k + 1 \in 1..Len(code)
      BY <1>1
    <3> QED BY <3>1, PlacesOf
  <2>3. <<code[k]>> \in Seq(S) /\ <<>> \in Seq(S)
    BY <2>1
  <2>4. k # Len(code) => <<code[k], code[k + 1]>> \in Seq(S)
    BY <2>1, <2>2
  <2> QED BY <2>3, <2>4
<1> HIDE DEF Emitted
<1>4. \A k \in 1..n : n + 1 - k \in 1..n
  BY <1>1
<1>5. parts \in [1..n -> Seq(S)]
  BY <1>3, <1>4
<1> HIDE DEF parts, n
<1>6. parts \in Seq(Seq(S))
  BY <1>1, <1>5, SeqByPlaces
<1> QED BY <1>2, <1>6, FlatIs

LEMMA TradeCodeIs ==
    ASSUME NEW l \in Seq(Lexems), NEW i \in Nat \ {0}, l[i].text \in Terminators,
           NEW names \in Seq(Texts), NEW targets, NEW amount \in Operands, NEW price \in Operands,
           amount.is = "yes", price.is = "yes", Declared(amount, names), Declared(price, names)
    PROVE  Ended(TradeCode(l, i, names, amount, price), Len(names), targets)
<1> DEFINE m == Len(names)
           T == Pieces(m)
           first == Translated(amount, names)
           code == Translated(price, names)
           front == IF amount.kind = "rvalue" THEN first ELSE <<>>
           buf == IF amount.kind = "rvalue" THEN <<>> ELSE first
           rest == CASE price.kind = "rvalue"     -> VariableFirst(code, buf)
                     [] price.kind = "arithmetic" -> TurnedRound(buf, code)
                     [] price.kind = "game"       -> Backwards(buf \o code)
<1>1. m \in Nat
  OBVIOUS
<1>2. TradeCode(l, i, names, amount, price) = front \o rest \o <<Elem(l[i].text, 0)>>
  BY DEF TradeCode
<1>3. first \in Seq(T) /\ code \in Seq(T)
  BY TranslatedIs
<1>4. price.kind \in {"rvalue", "arithmetic", "game"}
  BY DEF Operands, Yes, No, Crashed
<1> HIDE DEF first, code, T, m
<1>5. front \in Seq(T) /\ buf \in Seq(T)
  BY <1>3
<1> HIDE DEF front, buf
<1>6. Reverse(buf) \in Seq(T)
  BY <1>5, ReversedIs
<1>7. VariableFirst(code, buf) \in Seq(T)
  BY <1>3, <1>6 DEF VariableFirst
<1>8. buf \o code \in Seq(T)
  BY <1>3, <1>5
<1>9. TurnedRound(buf, code) \in Seq(T)
  BY <1>8, ReversedIs DEF TurnedRound
<1>10. Backwards(buf \o code) \in Seq(T)
  BY <1>8, BackwardsIs
<1>11. rest \in Seq(T)
  BY <1>4, <1>7, <1>9, <1>10
<1> HIDE DEF rest
<1>12. front \o rest \in Seq(T)
  BY <1>5, <1>11
<1>13. Ended((front \o rest) \o <<Elem(l[i].text, 0)>>, m, targets)
  BY <1>1, <1>12, PiecesEnded DEF T
<1> QED BY <1>2, <1>13 DEF m

LEMMA TradeMakes ==
    ASSUME NEW l \in Seq(Lexems), NEW i \in Nat \ {0}, l[i].text \in Terminators,
           NEW names \in Seq(Texts), NEW targets
    PROVE  Makes(Trade(l, i, names), names, targets)
<1> DEFINE comma == CommaBehind(l, i)
           amount == Operand(l, i + 1)
           price == Operand(l, comma + 1)
<1>1. i + 1 \in Nat \ {0} /\ i + 2 \in Nat \ {0} /\ Len(names) <= Len(names)
  OBVIOUS
<1>2. comma \in Nat \ {0}
  BY <1>1, NextWordIs DEF CommaBehind
<1>3. comma + 1 \in Nat \ {0} /\ comma + 3 \in Nat \ {0}
  BY <1>2
<1>4. amount \in Operands /\ price \in Operands
  BY <1>1, <1>3, OperandIs
<1>5. Trade(l, i, names) = AmountAndPrice(amount, price, comma, l, i, names)
  BY DEF Trade
<1> HIDE DEF comma, amount, price
<1>6. CASE /\ amount.is \notin {"no", "undefined"} /\ Declared(amount, names)
           /\ PriceEnds(price, comma, l, names)
  <2>1. amount.is = "yes" /\ price.is = "yes" /\ Declared(price, names)
    BY <1>4, <1>6, OperandsCases DEF PriceEnds
  <2>2. Ended(TradeCode(l, i, names, amount, price), Len(names), targets)
    BY <1>4, <1>6, <2>1, TradeCodeIs
  <2> QED BY <1>1, <1>3, <1>5, <1>6, <2>1, <2>2, RefusedMakes, CompiledMakes DEF AmountAndPrice
<1>7. CASE ~(/\ amount.is \notin {"no", "undefined"} /\ Declared(amount, names)
             /\ PriceEnds(price, comma, l, names))
  <2>1. Trade(l, i, names) \in {Refused(names), Undefined(names)}
    BY <1>5, <1>7 DEF AmountAndPrice
  <2> QED BY <1>1, <2>1, RefusedMakes
<1> QED BY <1>6, <1>7

\* The items of a print while they are read.
Prints(m) == [is : {"reading", "ok", "no", "undefined"},
              ret : Seq(Pieces(m)), buf : Seq(Pieces(m)), next : Nat]

LEMMA PrintItemIs ==
    ASSUME NEW l \in Seq(Lexems), NEW j \in 1..Len(l), NEW names \in Seq(Texts),
           NEW item \in Operands, NEW s \in Prints(Len(names)), s.is = "ok" => s.next # 0
    PROVE  /\ PrintItem(s, item, l, j, names) \in Prints(Len(names))
           /\ PrintItem(s, item, l, j, names).is = "ok"
                => PrintItem(s, item, l, j, names).next # 0
<1> DEFINE m == Len(names)
           T == Pieces(m)
<1>1. m \in Nat /\ j + 1 \in Nat /\ j + 1 # 0 /\ l[j] \in Lexems
  OBVIOUS
<1>2. s.ret \in Seq(T) /\ s.buf \in Seq(T)
  BY DEF Prints
<1>3. Append(s.buf, StrElem(l[j].n)) \in Seq(T)
  <2>1. "str" \in Plain \ {"addr"} /\ l[j].n \in Int
    BY <1>1 DEF Plain, Lexems
  <2>2. StrElem(l[j].n) \in T
    BY <1>1, <2>1, PieceIs DEF StrElem
  <2> HIDE DEF T
  <2> QED BY <1>2, <2>2, AppendedIs
<1>4. CASE s.is # "reading"
  BY <1>4 DEF PrintItem
<1>5. CASE s.is = "reading" /\ l[j].type = "string"
  <2>1. PrintItem(s, item, l, j, names) = [s EXCEPT !.buf = Append(@, StrElem(l[j].n))]
    BY <1>5 DEF PrintItem
  <2> QED BY <1>3, <1>5, <2>1 DEF Prints
<1>6. CASE s.is = "reading" /\ l[j].type # "string" /\ item.is = "undefined"
  BY <1>6 DEF PrintItem, Prints
<1>7. CASE s.is = "reading" /\ l[j].type # "string" /\ item.is = "no"
  <2>1. PrintItem(s, item, l, j, names) \in
           {s, [s EXCEPT !.is = IF s.buf = <<>> THEN "no" ELSE "ok", !.next = j + 1],
            [s EXCEPT !.is = "no"]}
    BY <1>7 DEF PrintItem
  <2> QED BY <1>1, <1>7, <2>1 DEF Prints
<1>8. CASE s.is = "reading" /\ l[j].type # "string" /\ item.is = "yes"
  <2>1. CASE At(l, j + 1).text \notin {";", ","} \/ ~Declared(item, names)
    <3>1. PrintItem(s, item, l, j, names) = [s EXCEPT !.is = "no"]
      BY <1>8, <2>1 DEF PrintItem
    <3>2. [s EXCEPT !.is = "no"] \in Prints(m) /\ [s EXCEPT !.is = "no"].is = "no"
      BY DEF Prints
    <3> QED BY <3>1, <3>2
  <2>2. CASE At(l, j + 1).text \in {";", ","} /\ Declared(item, names)
    <3>1. PrintItem(s, item, l, j, names) = ItemCode(s, item, names)
      BY <1>8, <2>2 DEF PrintItem
    <3>2. Translated(item, names) \in Seq(T)
      BY <1>8, <2>2, TranslatedIs
    <3>3. s.ret \o Translated(item, names) \in Seq(T) /\ s.buf \o Translated(item, names) \in Seq(T)
      <4> HIDE DEF T
      <4> QED BY <1>2, <3>2
    <3>4. ItemCode(s, item, names) \in {[s EXCEPT !.ret = @ \o Translated(item, names)],
                                        [s EXCEPT !.buf = @ \o Translated(item, names)]}
      BY DEF ItemCode
    <3>5. /\ [s EXCEPT !.ret = @ \o Translated(item, names)] \in Prints(m)
          /\ [s EXCEPT !.buf = @ \o Translated(item, names)] \in Prints(m)
          /\ [s EXCEPT !.ret = @ \o Translated(item, names)].is = "reading"
          /\ [s EXCEPT !.buf = @ \o Translated(item, names)].is = "reading"
      BY <1>8, <3>3 DEF Prints
    <3> QED BY <3>1, <3>4, <3>5
  <2> QED BY <2>1, <2>2
<1> QED BY <1>4, <1>5, <1>6, <1>7, <1>8, OperandsCases

\* What every item keeps is true of all of them.
NoItem == [is |-> "reading", ret |-> <<>>, buf |-> <<>>, next |-> 0]

ItemKeeps(T, l, j, names) == \A s \in T : PrintItem(s, Operand(l, j), l, j, names) \in T

LEMMA PrintItemsIn ==
    ASSUME NEW l \in Seq(Lexems), NEW i \in 1..Len(l), NEW names, NEW T, NoItem \in T,
           \A j \in 1..Len(l) : ItemKeeps(T, l, j, names)
    PROVE  PrintItems(l, i, names) \in T
<1> DEFINE n == Len(l)
           base == [is |-> "reading", ret |-> <<>>, buf |-> <<>>, next |-> 0]
           Item(j) == Operand(l, j)
           Step(h, k) == IF k = i THEN base ELSE PrintItem(h[k - 1], Item(k), l, k, names)
           Form(h) == h = [k \in i..n |-> Step(h, k)]
           read == CHOOSE h : Form(h)
           F == [k \in i..n |-> [s \in T |-> IF k = i THEN s ELSE PrintItem(s, Item(k), l, k, names)]]
<1>1. base \in T
  BY DEF NoItem
<1>2. i \in Nat /\ n \in Nat /\ i <= n /\ \A k \in i..n : k \in 1..n /\ k \in Nat \ {0}
  OBVIOUS
<1>3. \A k \in i..n : k # i => k - 1 \in i..n
  BY <1>2
<1>4. PrintItems(l, i, names) = read[n]
  BY DEF PrintItems
<1>5. ASSUME NEW k \in i..n, NEW s \in T
      PROVE  PrintItem(s, Item(k), l, k, names) \in T
  BY <1>2 DEF ItemKeeps
<1> HIDE DEF base, Item
<1>6. F \in [i..n -> [T -> T]]
  <2>1. ASSUME NEW k \in i..n, NEW s \in T
        PROVE  (IF k = i THEN s ELSE PrintItem(s, Item(k), l, k, names)) \in T
    BY <1>5
  <2> QED BY <2>1
<1>7. \A k \in i..n : \A s \in T : k # i => F[k][s] = PrintItem(s, Item(k), l, k, names)
  OBVIOUS
<1> HIDE DEF F, n
<1>8. \E h : Iteration(h, i, n, T, base, F)
  BY <1>1, <1>2, <1>6, Iterated
<1>9. PICK h : Iteration(h, i, n, T, base, F)
  BY <1>8
<1>10. /\ h \in [i..n -> T] /\ h[i] = base
       /\ \A k \in i..n : k # i => h[k] = F[k][h[k - 1]]
  BY <1>9 DEF Iteration
<1>11. Form(h)
  <2>1. h = [k \in i..n |-> h[k]]
    BY <1>10
  <2>2. ASSUME NEW k \in i..n
        PROVE  h[k] = Step(h, k)
    <3>1. CASE k = i
      BY <1>10, <3>1
    <3>2. CASE k # i
      <4>1. k - 1 \in i..n
        BY <1>3, <3>2
      <4>2. h[k] = F[k][h[k - 1]] /\ h[k - 1] \in T
        BY <1>10, <3>2, <4>1
      <4> QED BY <1>7, <3>2, <4>2
    <3> QED BY <3>1, <3>2
  <2> QED BY <2>1, <2>2
<1>12. Form(read)
  <2> HIDE DEF Form
  <2> QED BY <1>11
<1> HIDE DEF read
<1>13. \A k \in i..n : read[k] = Step(read, k)
  BY <1>12
<1> DEFINE Typed == {k \in i..n : read[k] \in T}
<1>14. i \in Typed
  BY <1>1, <1>2, <1>13
<1>15. ASSUME NEW k \in (i + 1)..n, k - 1 \in Typed
       PROVE  k \in Typed
  <2>1. k \in i..n /\ k # i
    BY <1>2
  <2>2. read[k] = PrintItem(read[k - 1], Item(k), l, k, names) /\ read[k - 1] \in T
    BY <1>13, <1>15, <2>1
  <2>3. PrintItem(read[k - 1], Item(k), l, k, names) \in T
    BY <1>5, <2>1, <2>2
  <2> QED BY <2>1, <2>2, <2>3
<1> HIDE DEF Typed
<1>16. \A k \in i..n : k \in Typed
  BY <1>2, <1>14, <1>15, Climbing
<1>17. read[n] \in T
  BY <1>2, <1>16 DEF Typed
<1> QED BY <1>4, <1>17

LEMMA PrintItemsIs ==
    ASSUME NEW l \in Seq(Lexems), NEW i \in 1..Len(l), NEW names \in Seq(Texts)
    PROVE  /\ PrintItems(l, i, names) \in Prints(Len(names))
           /\ PrintItems(l, i, names).is = "ok" => PrintItems(l, i, names).next # 0
<1> DEFINE T == {s \in Prints(Len(names)) : s.is = "ok" => s.next # 0}
<1>1. NoItem \in T
  BY DEF NoItem, Prints
<1>2. ASSUME NEW j \in 1..Len(l)
      PROVE  ItemKeeps(T, l, j, names)
  <2>1. Operand(l, j) \in Operands
    BY OperandIs
  <2> QED BY <2>1, PrintItemIs DEF ItemKeeps
<1> HIDE DEF T
<1>3. PrintItems(l, i, names) \in T
  BY <1>1, <1>2, PrintItemsIn
<1> QED BY <1>3 DEF T

LEMMA PrintMakes ==
    ASSUME NEW l \in Seq(Lexems), NEW i \in 1..Len(l), NEW names \in Seq(Texts), NEW targets
    PROVE  Makes(PrintOperator(l, i, names), names, targets)
<1> DEFINE s == PrintItems(l, i, names)
           T == Pieces(Len(names))
<1>1. Len(names) \in Nat /\ Len(names) <= Len(names)
  OBVIOUS
<1>2. /\ s.ret \in Seq(T) /\ s.buf \in Seq(T) /\ s.next \in Nat
      /\ s.is = "ok" => s.next # 0
  BY PrintItemsIs DEF Prints
<1>3. PrintOperator(l, i, names) = Printed(s, names)
  BY DEF PrintOperator
<1> HIDE DEF s, T
<1>4. Reverse(s.buf) \in Seq(T)
  BY <1>2, ReversedIs
<1>5. s.ret \o Reverse(s.buf) \in Seq(T)
  BY <1>2, <1>4
<1>6. Ended((s.ret \o Reverse(s.buf)) \o <<Elem("print", 0)>>, Len(names), targets)
  <2>1. "print" \in Terminators
    BY DEF Terminators
  <2> QED BY <1>1, <1>5, <2>1, PiecesEnded DEF T
<1>7. s.is = "ok" => s.next \in Nat \ {0}
  BY <1>2
<1> QED BY <1>1, <1>3, <1>6, <1>7, RefusedMakes, CompiledMakes DEF Printed

LEMMA GameMakes ==
    ASSUME NEW l \in Seq(Lexems), NEW i \in Nat \ {0}, NEW names \in Seq(Texts), NEW targets
    PROVE  Makes(GameOperator(l, i, names), names, targets)
<1> DEFINE word == At(l, i).text
<1>1. i + 1 \in Nat \ {0} /\ Len(names) <= Len(names)
  OBVIOUS
<1>2. CASE word \in {"print", "buy", "sell", "prod", "build"}
  <2>1. i \in 1..Len(l) /\ At(l, i) = l[i]
    <3>1. At(l, i).text # ""
      BY <1>2
    <3>2. i \in Int
      OBVIOUS
    <3> QED BY <3>1, <3>2, NamedIsThere
  <2>2. l[i].text \in Terminators
    BY <1>2, <2>1 DEF Terminators
  <2>3. Operand(l, i + 1) \in Operands
    BY <1>1, OperandIs
  <2>4. /\ Makes(BuildOperator(l, i, names), names, targets)
        /\ Makes(ProdOperator(l, i, names), names, targets)
    BY <2>2, <2>3, AmountMakes DEF BuildOperator, ProdOperator
  <2>5. /\ Makes(BuyOperator(l, i, names), names, targets)
        /\ Makes(SellOperator(l, i, names), names, targets)
    BY <2>2, TradeMakes DEF BuyOperator, SellOperator
  <2>6. Makes(PrintOperator(l, i, names), names, targets)
    BY <2>1, PrintMakes
  <2> QED BY <1>2, <2>4, <2>5, <2>6 DEF GameOperator
<1>3. CASE word = "endturn"
  BY <1>3, EndturnMakes DEF GameOperator
<1>4. CASE word \notin {"print", "buy", "sell", "prod", "build", "endturn"}
  <2>1. GameOperator(l, i, names) = Refused(names)
    BY <1>4 DEF GameOperator
  <2> QED BY <1>1, <2>1, RefusedMakes
<1> QED BY <1>2, <1>3, <1>4

LEMMA BodyMakes ==
    ASSUME NEW l \in Seq(Lexems), NEW i \in Nat \ {0}, NEW names \in Seq(Texts),
           NEW labels \in Seq([name : Texts, oper : Nat \ {0}])
    PROVE  Makes(Body(l, i, names, labels), names, Targets(labels))
<1> DEFINE assign == AssignOperator(l, i, names)
           t == Targets(labels)
<1>1. Makes(assign, names, t)
  BY AssignMakes
<1>2. assign.names \in Seq(Texts) /\ Len(names) <= Len(assign.names)
  BY <1>1 DEF Makes
<1>3. /\ Makes(GoOperator(l, i, assign.names, labels), assign.names, t)
      /\ Makes(GameOperator(l, i, assign.names), assign.names, t)
  BY <1>2, GoMakes, GameMakes
<1>4. /\ Makes(GoOperator(l, i, assign.names, labels), names, t)
      /\ Makes(GameOperator(l, i, assign.names), names, t)
  BY <1>2, <1>3, MakesFromMore
<1>5. Body(l, i, names, labels) \in
         {assign, GoOperator(l, i, assign.names, labels), GameOperator(l, i, assign.names)}
  BY DEF Body, BodyAfter, OrElse
<1> HIDE DEF assign, t
<1>6. Makes(Body(l, i, names, labels), names, t)
  BY <1>1, <1>4, <1>5
<1> QED BY <1>6 DEF t

LEMMA ConditionalMakes ==
    ASSUME NEW cond \in Operands, NEW names \in Seq(Texts), NEW targets,
           NEW body, Makes(body, names, targets), NEW found \in BOOLEAN
    PROVE  Makes(Conditional(cond, body, found, names), names, targets)
<1> DEFINE m == Len(body.names)
           code == Translated(cond, names) \o <<Elem("ifthen", 0)>> \o body.code
<1>1. Len(names) \in Nat /\ m \in Nat /\ Len(names) <= m /\ body.names \in Seq(Texts)
  BY DEF Makes
<1>2. CASE /\ cond.is \notin {"no", "undefined"} /\ Declared(cond, names) /\ found
           /\ body.is = "ok"
  <2>1. Conditional(cond, body, found, names) = [body EXCEPT !.code = code]
    BY <1>2 DEF Conditional
  <2>2. [body EXCEPT !.code = code] = Compiled(code, body.next, body.names)
    <3> HIDE DEF code
    <3>1. body = Compiled(body.code, body.next, body.names)
      BY <1>2 DEF Makes
    <3> QED BY <3>1 DEF Compiled
  <2>3. Translated(cond, names) \in Seq(Pieces(Len(names)))
    BY <1>2, OperandsCases, TranslatedIs
  <2>4. Pieces(Len(names)) \subseteq Pieces(m)
    <3> HIDE DEF m
    <3> QED BY <1>1 DEF Pieces
  <2>5. Pieces(m) \subseteq Inner(m, targets)
    BY <1>1, PiecesAreInner
  <2>6. Translated(cond, names) \in Seq(Inner(m, targets))
    BY <2>3, <2>4, <2>5, WiderSeq
  <2>7. Elem("ifthen", 0) \in Inner(m, targets)
    <3>1. "ifthen" \in Ops /\ "ifthen" \notin Terminators
      BY DEF Ops, Terminators
    <3> QED BY <3>1, ElemIs DEF Inner
  <2>8. Translated(cond, names) \o <<Elem("ifthen", 0)>> \in Seq(Inner(m, targets))
    BY <2>6, <2>7, AppendedIs
  <2>9. Ended(body.code, m, targets) /\ body.next \in Nat \ {0}
    BY <1>2 DEF Makes
  <2>10. Ended(code, m, targets)
    BY <2>8, <2>9, Prefixed
  <2> HIDE DEF code
  <2> QED BY <1>1, <2>1, <2>2, <2>9, <2>10, CompiledMakes
<1>3. CASE ~(/\ cond.is \notin {"no", "undefined"} /\ Declared(cond, names) /\ found
             /\ body.is = "ok")
  <2>1. Conditional(cond, body, found, names) \in {Refused(names), Undefined(names), body}
    BY <1>3 DEF Conditional
  <2>2. Len(names) <= Len(names)
    BY <1>1
  <2> QED BY <2>1, <2>2, RefusedMakes
<1> QED BY <1>2, <1>3

LEMMA IfMakes ==
    ASSUME NEW l \in Seq(Lexems), NEW i \in Nat \ {0}, NEW names \in Seq(Texts),
           NEW labels \in Seq([name : Texts, oper : Nat \ {0}])
    PROVE  Makes(IfOperator(l, i, names, labels), names, Targets(labels))
<1> DEFINE then == NextWord(l, i + 2, {"then"})
           cond == Condition(l, i + 1)
           body == Body(l, then + 1, names, labels)
<1>1. i + 1 \in Nat \ {0} /\ i + 2 \in Nat \ {0}
  OBVIOUS
<1>2. then \in Nat \ {0}
  BY <1>1, NextWordIs
<1>3. then + 1 \in Nat \ {0}
  BY <1>2
<1>4. cond \in Operands /\ Makes(body, names, Targets(labels))
  BY <1>1, <1>3, ConditionIs, BodyMakes
<1>5. (then < Len(l)) \in BOOLEAN
  OBVIOUS
<1>6. IfOperator(l, i, names, labels) = Conditional(cond, body, then < Len(l), names)
  BY DEF IfOperator
<1> HIDE DEF then, cond, body
<1> QED BY <1>4, <1>5, <1>6, ConditionalMakes

\* A rewritten script is a script, as long as the one it was.
LEMMA RewrittenIs ==
    ASSUME NEW l \in Seq(Lexems), NEW i \in Nat \ {0}, i <= Len(l) + 1
    PROVE  Rewritten(l, i) \in Seq(Lexems)
<1> DEFINE end == EndOf(l, i)
           New(j) == IF ReadTo(l, i, j).is = "reading" /\ IsUnMinus(l, j)
                     THEN [l[j] EXCEPT !.text = "-U"] ELSE l[j]
           n == end - i
           part == [k \in 1..n |-> New(i + k - 1)]
           head == SubSeq(l, 1, i - 1)
           tail == SubSeq(l, end, Len(l))
<1>1. end \in i..(Len(l) + 1) /\ end \in Nat /\ Len(l) \in Nat
  BY EndOfIs
<1>2. Rewritten(l, i) = head \o part \o tail
  BY DEF Rewritten
<1> HIDE DEF end
<1>3. n \in Nat
  BY <1>1
<1>4. ASSUME NEW j \in 1..Len(l)
      PROVE  New(j) \in Lexems
  <2>1. l[j] \in Lexems
    BY PlacesOf
  <2>2. "-U" \in Texts
    BY DEF Texts, Unary
  <2>3. [l[j] EXCEPT !.text = "-U"] \in Lexems
    BY <2>1, <2>2 DEF Lexems
  <2> QED BY <2>1, <2>3
<1>5. \A k \in 1..n : i + k - 1 \in 1..Len(l)
  BY <1>1
<1> HIDE DEF New, n
<1>6. part \in [1..n -> Lexems]
  BY <1>4, <1>5
<1> HIDE DEF part
<1>7. part \in Seq(Lexems)
  BY <1>3, <1>6, SeqByPlaces
<1>8. head \in Seq(Lexems)
  OBVIOUS
<1>9. tail \in Seq(Lexems)
  BY <1>1
<1> HIDE DEF head, tail
<1>10. head \o part \in Seq(Lexems)
  BY <1>7, <1>8, JoinedIs
<1>11. head \o part \o tail \in Seq(Lexems)
  BY <1>9, <1>10, JoinedIs
<1> QED BY <1>2, <1>11

LEMMA LabelMakes ==
    ASSUME NEW l \in Seq(Lexems), NEW i \in Nat \ {0}, NEW names \in Seq(Texts),
           NEW labels \in Seq([name : Texts, oper : Nat \ {0}])
    PROVE  Makes(LabelOperator(l, i, names, labels), names, Targets(labels))
<1> DEFINE j == i + 2
           t == Targets(labels)
           assign == AssignOperator(l, j, names)
           go == GoOperator(l, j, assign.names, labels)
           if == IfOperator(l, j, assign.names, labels)
           game == GameOperator(Rewritten(l, j + 1), j, if.names)
<1>1. j \in Nat \ {0} /\ Len(names) <= Len(names)
  OBVIOUS
<1>2. CASE At(l, i + 1).text # ":" \/ i + 2 > Len(l)
  <2>1. LabelOperator(l, i, names, labels) = Refused(names)
    BY <1>2 DEF LabelOperator
  <2> QED BY <1>1, <2>1, RefusedMakes
<1>3. CASE ~(At(l, i + 1).text # ":" \/ i + 2 > Len(l))
  <2>1. LabelOperator(l, i, names, labels) \in {assign, go, if, game}
    BY <1>3 DEF LabelOperator, LabelledAfter, IfOrGame, OrElse
  <2>2. Makes(assign, names, t)
    BY <1>1, AssignMakes
  <2>3. assign.names \in Seq(Texts) /\ Len(names) <= Len(assign.names)
    BY <2>2 DEF Makes
  <2>4. Makes(go, assign.names, t) /\ Makes(if, assign.names, t)
    BY <1>1, <2>3, GoMakes, IfMakes
  <2>5. if.names \in Seq(Texts) /\ Len(assign.names) <= Len(if.names)
    BY <2>4 DEF Makes
  <2>6. Rewritten(l, j + 1) \in Seq(Lexems)
    <3>1. j + 1 \in Nat \ {0} /\ j + 1 <= Len(l) + 1
      BY <1>1, <1>3
    <3> QED BY <3>1, RewrittenIs
  <2>7. Makes(game, if.names, t)
    BY <1>1, <2>5, <2>6, GameMakes
  <2> HIDE DEF assign, go, if, game, t
  <2>8. Makes(game, assign.names, t)
    BY <2>3, <2>5, <2>7, MakesFromMore
  <2>9. Makes(go, names, t) /\ Makes(if, names, t) /\ Makes(game, names, t)
    BY <2>3, <2>4, <2>8, MakesFromMore
  <2>10. Makes(LabelOperator(l, i, names, labels), names, t)
    BY <2>1, <2>2, <2>9
  <2> QED BY <2>10 DEF t
<1> QED BY <1>2, <1>3

-----------------------------------------------------------------------------
(* The inductive invariant.  The operators of a list of n elements begin at *)
(* the places s; each ends in its own terminator.                           *)
EndOfOperator(s, n, j) == IF j = Len(s) THEN n ELSE s[j + 1] - 1

Laid(code, s, m, targets) ==
    /\ s = <<>> => code = <<>>
    /\ s # <<>> => s[1] = 1
    /\ \A j \in 1..Len(s) :
           LET end == EndOfOperator(s, Len(code), j)
           IN  /\ s[j] <= end /\ end <= Len(code)
               /\ \A k \in s[j]..end : code[k].op \in Terminators <=> k = end
    /\ \A k \in 1..Len(code) :
           /\ code[k].op = "addr" => code[k].n \in 1..m
           /\ code[k].op = "label" => code[k].n \in ToSet(s)
    /\ targets \subseteq ToSet(s)

Typed ==
    /\ lexems \in Seq(Lexems) /\ list \in Nat \ {0}
    /\ operators_list \in Seq(Coded) /\ starts \in Seq(Nat \ {0})
    /\ vars_list \in Seq(Texts) /\ labels_list \in Seq([name : Texts, oper : Nat \ {0}])
    /\ status \in {"reading", "accepted", "refused", "undefined"}

LaidOut == status # "refused" =>
               Laid(operators_list, starts, Len(vars_list), Targets(labels_list))

\* One more operator.
LEMMA LaidMore ==
    ASSUME NEW code \in Seq(Coded), NEW s \in Seq(Nat \ {0}), NEW m \in Nat, NEW n \in Nat,
           m <= n, NEW targets, NEW t, NEW more,
           Laid(code, s, m, targets), Ended(more, n, targets),
           t \subseteq targets \cup {Len(code) + 1}
    PROVE  Laid(code \o more, Append(s, Len(code) + 1), n, t)
<1> DEFINE c == code \o more
           u == Append(s, Len(code) + 1)
           a == Len(code)
           b == Len(more)
           q == Len(s)
<1>1. a \in Nat /\ q \in Nat /\ more \in Seq(Coded) /\ b \in Nat \ {0}
  BY DEF Ended
<1>2. /\ c \in Seq(Coded) /\ Len(c) = a + b
      /\ \A k \in 1..a : c[k] = code[k]
      /\ \A k \in (a + 1)..(a + b) : c[k] = more[k - a]
  BY <1>1, JoinedIs
<1>3. /\ u \in Seq(Nat \ {0}) /\ Len(u) = q + 1 /\ u[q + 1] = a + 1
      /\ \A j \in 1..q : u[j] = s[j]
  BY <1>1
<1> HIDE DEF c, u
<1>4. DOMAIN s = 1..q /\ DOMAIN u = 1..(q + 1) /\ \A j \in 1..q : s[j] \in Nat \ {0}
  BY <1>1, <1>3, PlacesOf
<1> HIDE DEF a, b, q
<1>5. ToSet(s) \subseteq ToSet(u) /\ a + 1 \in ToSet(u)
  <2>1. ASSUME NEW x \in ToSet(s) PROVE x \in ToSet(u)
    <3>1. PICK j \in 1..q : x = s[j]
      BY <1>4 DEF ToSet
    <3>2. j \in 1..(q + 1) /\ u[j] = x
      BY <1>1, <1>3, <3>1
    <3> QED BY <1>4, <3>2 DEF ToSet
  <2>2. q + 1 \in 1..(q + 1)
    BY <1>1
  <2> QED BY <1>3, <1>4, <2>1, <2>2 DEF ToSet
<1>6. u # <<>> /\ u[1] = 1
  <2>1. CASE q = 0
    <3>1. s = <<>>
      BY <2>1 DEF q
    <3>2. a = 0
      BY <3>1 DEF Laid, a
    <3>3. u[1] = 1
      BY <1>3, <2>1, <3>2
    <3>4. u # <<>>
      BY <1>1, <1>3
    <3> QED BY <3>3, <3>4
  <2>2. CASE q # 0
    <3>1. 1 \in 1..q /\ u[1] = s[1]
      BY <1>1, <1>3, <2>2
    <3>2. s # <<>>
      BY <2>2 DEF q
    <3>3. s[1] = 1
      BY <3>2 DEF Laid
    <3>4. u # <<>>
      BY <1>1, <1>3
    <3> QED BY <3>1, <3>3, <3>4
  <2> QED BY <2>1, <2>2
<1>7. ASSUME NEW j \in 1..(q + 1)
      PROVE  LET end == EndOfOperator(u, a + b, j)
             IN  /\ u[j] <= end /\ end <= a + b
                 /\ \A k \in u[j]..end : c[k].op \in Terminators <=> k = end
  <2>1. CASE j = q + 1
    <3>1. EndOfOperator(u, a + b, j) = a + b /\ u[j] = a + 1
      BY <1>3, <2>1 DEF EndOfOperator
    <3>2. ASSUME NEW k \in (a + 1)..(a + b)
          PROVE  c[k].op \in Terminators <=> k = a + b
      <4>1. k - a \in 1..b /\ c[k] = more[k - a] /\ (k = a + b <=> k - a = b)
        BY <1>1, <1>2
      <4> QED BY <4>1 DEF Ended, b
    <3>3. a + 1 <= a + b /\ a + b <= a + b
      BY <1>1
    <3> QED BY <3>1, <3>2, <3>3
  <2>2. CASE j \in 1..q
    <3> DEFINE end == EndOfOperator(s, a, j)
    <3>1. /\ s[j] <= end /\ end <= a
          /\ \A k \in s[j]..end : code[k].op \in Terminators <=> k = end
      BY <2>2 DEF Laid, a, q
    <3>2. EndOfOperator(u, a + b, j) = end
      <4>1. CASE j = q
        <5>1. j # q + 1 /\ u[j + 1] = a + 1 /\ (a + 1) - 1 = a
          BY <1>1, <1>3, <4>1
        <5> QED BY <1>3, <4>1, <5>1 DEF EndOfOperator, q
      <4>2. CASE j # q
        <5>1. j # q + 1 /\ j + 1 \in 1..q
          BY <1>1, <2>2, <4>2
        <5> QED BY <1>3, <4>2, <5>1 DEF EndOfOperator, q
      <4> QED BY <4>1, <4>2
    <3>3. end \in Int
      <4>1. j # q => j + 1 \in 1..q
        BY <1>1, <2>2
      <4>2. end = IF j = q THEN a ELSE s[j + 1] - 1
        BY DEF EndOfOperator, q
      <4> HIDE DEF end
      <4>3. j # q => s[j + 1] \in Nat
        BY <1>4, <4>1
      <4> QED BY <1>1, <4>2, <4>3
    <3> HIDE DEF end
    <3>4. u[j] = s[j] /\ s[j] \in Nat \ {0}
      BY <1>3, <1>4, <2>2
    <3>5. ASSUME NEW k \in s[j]..end
          PROVE  c[k] = code[k]
      <4>1. k \in 1..a
        BY <1>1, <3>1, <3>3, <3>4
      <4> QED BY <1>2, <4>1
    <3>6. end <= a + b
      BY <1>1, <3>1, <3>3
    <3> QED BY <3>1, <3>2, <3>4, <3>5, <3>6
  <2>3. j = q + 1 \/ j \in 1..q
    BY <1>1
  <2> QED BY <2>1, <2>2, <2>3
<1>8. ASSUME NEW k \in 1..(a + b)
      PROVE  /\ c[k].op = "addr" => c[k].n \in 1..n
             /\ c[k].op = "label" => c[k].n \in ToSet(u)
  <2>1. CASE k \in 1..a
    <3>1. /\ code[k].op = "addr" => code[k].n \in 1..m
          /\ code[k].op = "label" => code[k].n \in ToSet(s)
      BY <2>1 DEF Laid, a
    <3>2. 1..m \subseteq 1..n
      OBVIOUS
    <3> QED BY <1>2, <1>5, <2>1, <3>1, <3>2
  <2>2. CASE k \in (a + 1)..(a + b)
    <3>1. k - a \in 1..b /\ c[k] = more[k - a]
      BY <1>1, <1>2, <2>2
    <3>2. /\ c[k].op = "addr" => c[k].n \in 1..n
          /\ c[k].op = "label" => c[k].n \in targets
      BY <3>1 DEF Ended, b
    <3>3. targets \subseteq ToSet(s)
      BY DEF Laid
    <3> QED BY <1>5, <3>2, <3>3
  <2>3. k \in 1..a \/ k \in (a + 1)..(a + b)
    BY <1>1
  <2> QED BY <2>1, <2>2, <2>3
<1>9. t \subseteq ToSet(u)
  <2>1. targets \subseteq ToSet(s)
    BY DEF Laid
  <2> QED BY <1>5, <2>1 DEF a
<1>10. Laid(c, u, n, t)
  BY <1>2, <1>3, <1>6, <1>7, <1>8, <1>9 DEF Laid
<1> QED BY <1>10 DEF c, u

LEMMA InitTyped == Init => Typed /\ LaidOut
<1> SUFFICES ASSUME Init PROVE Typed /\ LaidOut
  OBVIOUS
<1>1. lexems \in Seq(Lexems)
  <2>1. lexems \in Seq([type : STRING, text : STRING, n : Int])
    BY ScriptsAssumption, Zenon DEF Init
  <2>2. [type : STRING, text : STRING, n : Int] \subseteq Lexems
    BY DEF Lexems, Types, Texts
  <2> HIDE DEF Lexems
  <2> QED BY <2>1, <2>2, WiderSeq
<1>2. Typed
  BY <1>1 DEF Init, Typed
<1>3. Targets(labels_list) = {} /\ operators_list = <<>> /\ starts = <<>>
  BY DEF Init, Targets
<1>4. Laid(<<>>, <<>>, 0, {})
  BY DEF Laid
<1>5. Len(vars_list) = 0
  BY DEF Init
<1> QED BY <1>2, <1>3, <1>4, <1>5 DEF LaidOut

\* What the operator at the head of the list makes of it, and of the labels.
LEMMA ProceedKeeps ==
    ASSUME Typed, LaidOut, status = "reading", NEW r, Makes(r, vars_list, Targets(labels_list)),
           Proceed(r),
           labels_list' \in Seq([name : Texts, oper : Nat \ {0}]),
           \/ labels_list' = labels_list
           \/ /\ r.is = "ok"
              /\ Targets(labels_list') = Targets(labels_list) \cup {Len(operators_list) + 1}
    PROVE  Typed' /\ LaidOut'
<1>1. /\ lexems' = lexems /\ vars_list' = r.names /\ r.names \in Seq(Texts)
      /\ Len(vars_list) <= Len(r.names) /\ r.is \in {"ok", "no", "undefined"}
      /\ Len(vars_list) \in Nat /\ Len(r.names) \in Nat
  BY DEF Proceed, Makes, Typed
<1>2. CASE r.is = "ok"
  <2>1. /\ operators_list' = operators_list \o r.code
        /\ starts' = Append(starts, Len(operators_list) + 1)
        /\ list' = r.next /\ status' = "reading"
    BY <1>2 DEF Proceed
  <2>2. r.next \in Nat \ {0} /\ Ended(r.code, Len(r.names), Targets(labels_list))
    BY <1>2 DEF Makes
  <2>3. operators_list' \in Seq(Coded) /\ starts' \in Seq(Nat \ {0})
    BY <2>1, <2>2 DEF Typed, Ended
  <2>4. Typed'
    BY <1>1, <2>1, <2>2, <2>3 DEF Typed
  <2>5. Targets(labels_list') \subseteq Targets(labels_list) \cup {Len(operators_list) + 1}
    OBVIOUS
  <2>6. Laid(operators_list, starts, Len(vars_list), Targets(labels_list))
    BY DEF LaidOut
  <2>7. operators_list \in Seq(Coded) /\ starts \in Seq(Nat \ {0})
    BY DEF Typed
  <2>8. Laid(operators_list \o r.code, Append(starts, Len(operators_list) + 1), Len(r.names),
             Targets(labels_list'))
    BY <1>1, <2>2, <2>5, <2>6, <2>7, LaidMore
  <2>9. LaidOut'
    BY <1>1, <2>1, <2>8 DEF LaidOut
  <2> QED BY <2>4, <2>9
<1>3. CASE r.is = "no"
  <2>1. operators_list' = <<>> /\ starts' = <<>> /\ status' = "refused" /\ list' = list
    BY <1>3 DEF Proceed
  <2> QED BY <1>1, <2>1 DEF Typed, LaidOut
<1>4. CASE r.is = "undefined"
  <2>1. status' = "undefined" /\ UNCHANGED <<list, operators_list, starts>>
    BY <1>4 DEF Proceed
  <2>2. labels_list' = labels_list
    BY <1>4
  <2>3. Typed'
    BY <1>1, <2>1 DEF Typed
  <2>4. Laid(operators_list, starts, Len(vars_list), Targets(labels_list))
    BY DEF LaidOut
  <2>5. Laid(operators_list, starts, Len(r.names), Targets(labels_list))
    <3>1. 1..Len(vars_list) \subseteq 1..Len(r.names)
      BY <1>1
    <3> QED BY <2>4, <3>1 DEF Laid
  <2> QED BY <1>1, <2>1, <2>2, <2>3, <2>5 DEF LaidOut
<1> QED BY <1>1, <1>2, <1>3, <1>4

LEMMA NextTyped == Typed /\ LaidOut /\ [Next]_vars => Typed' /\ LaidOut'
<1> SUFFICES ASSUME Typed, LaidOut, [Next]_vars PROVE Typed' /\ LaidOut'
  OBVIOUS
<1> DEFINE Labels == Seq([name : Texts, oper : Nat \ {0}])
           t == Targets(labels_list)
<1>1. lexems \in Seq(Lexems) /\ list \in Nat \ {0} /\ vars_list \in Seq(Texts)
      /\ labels_list \in Labels /\ Len(operators_list) \in Nat
  BY DEF Typed
<1>2. Reading => list \in 1..Len(lexems) /\ status = "reading" /\ lexems[list] \in Lexems
  <2>1. Reading => list \in 1..Len(lexems) /\ status = "reading"
    BY <1>1 DEF Reading
  <2> QED BY <1>1, <2>1, PlacesOf
<1>3. Len(vars_list) <= Len(vars_list)
  BY <1>1
<1>4. Makes(Refused(vars_list), vars_list, t)
  BY <1>1, <1>3, RefusedMakes
<1>5. CASE Label
  <2> DEFINE r == LabelOperator(lexems, list, vars_list, labels_list)
             known == \E k \in 1..Len(labels_list) : labels_list[k].name = lexems[list].text
             label == [name |-> lexems[list].text, oper |-> Len(operators_list) + 1]
  <2>1. Makes(r, vars_list, t)
    BY <1>1, LabelMakes
  <2>2. /\ Proceed(r) /\ Reading
        /\ labels_list' = IF r.is = "ok" /\ ~known THEN Append(labels_list, label)
                          ELSE labels_list
    BY <1>5 DEF Label
  <2> HIDE DEF r, known
  <2>3. label \in [name : Texts, oper : Nat \ {0}]
    BY <1>1, <1>2, <2>2 DEF Lexems
  <2>4. CASE r.is = "ok" /\ ~known
    <3>1. labels_list' = Append(labels_list, label)
      BY <2>2, <2>4
    <3> DEFINE n == Len(labels_list)
    <3>2. /\ labels_list' \in Labels /\ Len(labels_list') = n + 1 /\ n \in Nat
          /\ labels_list'[n + 1] = label /\ \A k \in 1..n : labels_list'[k] = labels_list[k]
      <4> HIDE DEF label
      <4> QED BY <1>1, <2>3, <3>1
    <3>3. label.oper = Len(operators_list) + 1
      OBVIOUS
    <3> HIDE DEF n, label
    <3>4. Targets(labels_list') = t \cup {Len(operators_list) + 1}
      <4>1. ASSUME NEW x \in Targets(labels_list')
            PROVE  x \in t \cup {Len(operators_list) + 1}
        <5>1. PICK k \in 1..(n + 1) : x = labels_list'[k].oper
          BY <3>2 DEF Targets
        <5>2. k = n + 1 \/ k \in 1..n
          BY <3>2
        <5> QED BY <3>2, <3>3, <5>1, <5>2 DEF Targets, n
      <4>2. ASSUME NEW x \in t
            PROVE  x \in Targets(labels_list')
        <5>1. PICK k \in 1..n : x = labels_list[k].oper
          BY DEF Targets, n
        <5>2. k \in 1..(n + 1)
          BY <3>2
        <5> QED BY <3>2, <5>1, <5>2 DEF Targets
      <4>3. Len(operators_list) + 1 \in Targets(labels_list')
        <5>1. n + 1 \in 1..(n + 1)
          BY <3>2
        <5> QED BY <3>2, <3>3, <5>1 DEF Targets
      <4> QED BY <4>1, <4>2, <4>3
    <3> QED BY <1>2, <2>1, <2>2, <2>4, <3>2, <3>4, ProceedKeeps
  <2>5. CASE ~(r.is = "ok" /\ ~known)
    <3>1. labels_list' = labels_list
      BY <2>2, <2>5
    <3> QED BY <1>1, <1>2, <2>1, <2>2, <3>1, ProceedKeeps
  <2> QED BY <2>4, <2>5
<1>6. CASE Assign
  <2>1. Makes(AssignOperator(lexems, list, vars_list), vars_list, t)
    BY <1>1, AssignMakes
  <2>2. Proceed(AssignOperator(lexems, list, vars_list)) /\ Reading /\ labels_list' = labels_list
    BY <1>6 DEF Assign
  <2> QED BY <1>1, <1>2, <2>1, <2>2, ProceedKeeps
<1>7. CASE If
  <2>1. Makes(IfOperator(lexems, list, vars_list, labels_list), vars_list, t)
    BY <1>1, IfMakes
  <2>2. /\ Proceed(IfOperator(lexems, list, vars_list, labels_list))
        /\ Reading /\ labels_list' = labels_list
    BY <1>7 DEF If
  <2> QED BY <1>1, <1>2, <2>1, <2>2, ProceedKeeps
<1>8. CASE Game
  <2>1. Makes(GameOperator(lexems, list, vars_list), vars_list, t)
    BY <1>1, GameMakes
  <2>2. Proceed(GameOperator(lexems, list, vars_list)) /\ Reading /\ labels_list' = labels_list
    BY <1>8 DEF Game
  <2> QED BY <1>1, <1>2, <2>1, <2>2, ProceedKeeps
<1>9. CASE Goto
  <2> DEFINE r == IF starts = <<>> THEN Refused(vars_list)
                  ELSE GoOperator(lexems, list, vars_list, labels_list)
  <2>1. Makes(r, vars_list, t)
    BY <1>1, <1>4, GoMakes
  <2>2. Proceed(r) /\ Reading /\ labels_list' = labels_list
    BY <1>9 DEF Goto
  <2> HIDE DEF r
  <2> QED BY <1>1, <1>2, <2>1, <2>2, ProceedKeeps
<1>10. CASE Unknown
  <2>1. Proceed(Refused(vars_list)) /\ Reading /\ labels_list' = labels_list
    BY <1>10 DEF Unknown
  <2> QED BY <1>1, <1>2, <1>4, <2>1, ProceedKeeps
<1>11. CASE Finish
  <2>1. /\ status = "reading" /\ status' = "accepted"
        /\ UNCHANGED <<lexems, list, operators_list, vars_list, labels_list, starts>>
    BY <1>11 DEF Finish, tables
  <2> QED BY <2>1 DEF Typed, LaidOut
<1>12. CASE UNCHANGED vars
  BY <1>12 DEF vars, tables, Typed, LaidOut
<1> QED BY <1>5, <1>6, <1>7, <1>8, <1>9, <1>10, <1>11, <1>12 DEF Next

\* The tables have their types and the operators their places, whatever is read.
THEOREM CompilerTyped == Spec => [](Typed /\ LaidOut)
<1>1. Init => Typed /\ LaidOut
  BY InitTyped
<1>2. Typed /\ LaidOut /\ [Next]_vars => (Typed /\ LaidOut)'
  BY NextTyped
<1> QED BY <1>1, <1>2, PTL DEF Spec

-----------------------------------------------------------------------------
(* What a jump and a false condition lead to.                              *)

\* The operator an element belongs to: the last that begins before it.
LEMMA OwnOperator ==
    ASSUME NEW s \in Seq(Nat \ {0}), NEW n \in Nat, NEW k \in 1..n, s # <<>>, s[1] = 1
    PROVE  \E own \in 1..Len(s) : s[own] <= k /\ \A i \in 1..Len(s) : s[i] <= k => i <= own
<1> DEFINE before == {j \in 1..Len(s) : s[j] <= k}
<1>1. Len(s) \in Nat \ {0} /\ 1 \in 1..Len(s)
  OBVIOUS
<1>2. 1 \in before
  BY <1>1
<1>3. before \in SUBSET Nat /\ before # {} /\ \A j \in before : j <= Len(s)
  BY <1>1, <1>2
<1>4. Max(before) \in before /\ \A j \in before : j <= Max(before)
  <2> HIDE DEF before
  <2> QED BY <1>1, <1>3, GreatestIs
<1>5. /\ Max(before) \in 1..Len(s) /\ s[Max(before)] <= k
      /\ \A i \in 1..Len(s) : s[i] <= k => i <= Max(before)
  BY <1>4
<1> HIDE DEF before
<1> QED BY <1>5

LEMMA SkipsItsOperator ==
    ASSUME NEW code \in Seq(Coded), NEW s \in Seq(Nat \ {0}), NEW m, NEW targets,
           Laid(code, s, m, targets),
           NEW k \in 1..Len(code), NEW own \in 1..Len(s), s[own] <= k,
           \A i \in 1..Len(s) : s[i] <= k => i <= own
    PROVE  SkipFrom(code, k) = IF own = Len(s) THEN Len(code) + 1 ELSE s[own + 1]
<1> DEFINE n == Len(code)
           end == EndOfOperator(s, n, own)
           ends == {j \in k..n : code[j].op \in Terminators}
<1>1. n \in Nat /\ Len(s) \in Nat /\ k \in Nat /\ own \in Nat /\ \A j \in 1..Len(s) : s[j] \in Nat
  OBVIOUS
<1>2. /\ s[own] <= end /\ end <= n
      /\ \A j \in s[own]..end : code[j].op \in Terminators <=> j = end
  BY DEF Laid
<1>3. own # Len(s) => own + 1 \in 1..Len(s) /\ s[own + 1] \in Nat /\ ~(s[own + 1] <= k)
  <2> SUFFICES ASSUME own # Len(s)
               PROVE own + 1 \in 1..Len(s) /\ s[own + 1] \in Nat /\ ~(s[own + 1] <= k)
    OBVIOUS
  <2>1. own + 1 \in 1..Len(s) /\ ~(own + 1 <= own)
    BY <1>1
  <2> QED BY <1>1, <2>1
<1>4. end = IF own = Len(s) THEN n ELSE s[own + 1] - 1
  BY DEF EndOfOperator
<1> HIDE DEF end
<1>5. end \in Nat /\ k <= end
  BY <1>1, <1>3, <1>4
<1>6. end \in k..n /\ \A j \in k..end : j \in s[own]..end
  BY <1>1, <1>2, <1>5
<1>7. end \in ends
  BY <1>2, <1>5, <1>6
<1>8. \A j \in ends : end <= j
  <2> SUFFICES ASSUME NEW j \in ends, ~(end <= j) PROVE FALSE
    OBVIOUS
  <2>1. j \in k..end /\ j # end
    BY <1>1, <1>5
  <2> QED BY <1>2, <1>6, <2>1
<1>9. SkipFrom(code, k) = IF ends = {} THEN Len(code) + 1
                          ELSE 1 + CHOOSE x \in ends : \A j \in ends : x <= j
  BY DEF SkipFrom
<1>10. ends \subseteq Nat
  BY <1>1
<1> HIDE DEF ends, n
<1>11. \A x \in ends : (\A j \in ends : x <= j) => x = end
  BY <1>5, <1>7, <1>8, <1>10
<1>12. (CHOOSE x \in ends : \A j \in ends : x <= j) = end
  BY <1>7, <1>8, <1>11
<1>13. SkipFrom(code, k) = 1 + end
  BY <1>7, <1>9, <1>12
<1> QED BY <1>1, <1>3, <1>4, <1>5, <1>13 DEF n

LEMMA LandsFromInvariant == Typed /\ LaidOut => LandsOnOperators
<1> SUFFICES ASSUME Typed, LaidOut, status = "accepted", NEW k \in 1..Len(operators_list)
             PROVE  LET elem == operators_list[k]
                        own  == CHOOSE j \in 1..Len(starts) :
                                  /\ starts[j] <= k
                                  /\ \A i \in 1..Len(starts) : starts[i] <= k => i <= j
                    IN  /\ elem.op = "label" => elem.n \in ToSet(starts)
                        /\ elem.op = "ifthen" =>
                              SkipFrom(operators_list, k)
                                = IF own = Len(starts) THEN Len(operators_list) + 1
                                  ELSE starts[own + 1]
  BY DEF LandsOnOperators
<1> DEFINE m == Len(vars_list)
           t == Targets(labels_list)
           own == CHOOSE j \in 1..Len(starts) :
                     /\ starts[j] <= k
                     /\ \A i \in 1..Len(starts) : starts[i] <= k => i <= j
<1>1. Laid(operators_list, starts, m, t)
  BY DEF LaidOut
<1>2. operators_list \in Seq(Coded) /\ starts \in Seq(Nat \ {0}) /\ Len(operators_list) \in Nat
  BY DEF Typed
<1>3. operators_list[k].op = "label" => operators_list[k].n \in ToSet(starts)
  BY <1>1 DEF Laid
<1>4. starts # <<>> /\ starts[1] = 1
  <2>1. operators_list # <<>>
    BY <1>2
  <2> QED BY <1>1, <2>1 DEF Laid
<1>5. \E j \in 1..Len(starts) : starts[j] <= k /\ \A i \in 1..Len(starts) : starts[i] <= k => i <= j
  BY <1>2, <1>4, OwnOperator
<1>6. own \in 1..Len(starts) /\ starts[own] <= k /\ \A i \in 1..Len(starts) : starts[i] <= k => i <= own
  BY <1>5
<1> HIDE DEF own, m, t
<1>7. SkipFrom(operators_list, k)
        = IF own = Len(starts) THEN Len(operators_list) + 1 ELSE starts[own + 1]
  BY <1>1, <1>2, <1>6, SkipsItsOperator
<1> QED BY <1>3, <1>7 DEF own

\* In every script that is accepted, a label is the place of an operator and a false
\* condition leads behind its own operator, however the script is written
\* (label_insert, PolizOpGo and the list of terminators in PolizOpIfThen).
THEOREM CompilerLandsOnOperators == Spec => []LandsOnOperators
<1>1. Spec => [](Typed /\ LaidOut)
  BY CompilerTyped
<1>2. Typed /\ LaidOut => LandsOnOperators
  BY LandsFromInvariant
<1> QED BY <1>1, <1>2, PTL

\* The stack machine can be given whatever is accepted: every address has a
\* variable and every label is a place, which Bot assumes of its programs.
Loadable == status = "accepted" =>
                Executable([code |-> operators_list, names |-> vars_list])

\* What the compiler makes of an accepted script is what the bot's machine may be given
\* (SyntaxAnalyzer::Run, and Bot's ProgramsAssumption).
THEOREM CompilerMakesExecutable == Spec => []Loadable
<1>1. Spec => [](Typed /\ LaidOut)
  BY CompilerTyped
<1>2. Typed /\ LaidOut => Loadable
  <2> SUFFICES ASSUME Typed, LaidOut, status = "accepted"
               PROVE  Executable([code |-> operators_list, names |-> vars_list])
    BY DEF Loadable
  <2>1. Laid(operators_list, starts, Len(vars_list), Targets(labels_list))
    BY DEF LaidOut
  <2>2. /\ operators_list \in Seq([op : Ops, n : Int]) /\ Len(vars_list) \in Nat
        /\ DOMAIN operators_list = 1..Len(operators_list)
        /\ ToSet(starts) \subseteq Nat \ {0}
    <3>1. operators_list \in Seq([op : Ops, n : Int]) /\ Len(vars_list) \in Nat
      BY DEF Typed, Coded
    <3>2. DOMAIN operators_list = 1..Len(operators_list)
      BY <3>1, PlacesOf
    <3>3. ToSet(starts) \subseteq Nat \ {0}
      <4>1. starts \in Seq(Nat \ {0})
        BY DEF Typed
      <4>2. DOMAIN starts = 1..Len(starts) /\ \A j \in 1..Len(starts) : starts[j] \in Nat \ {0}
        BY <4>1, PlacesOf
      <4> QED BY <4>2 DEF ToSet
    <3> QED BY <3>1, <3>2, <3>3
  <2>3. \A k \in DOMAIN operators_list :
           /\ operators_list[k].op = "addr" => operators_list[k].n \in 1..Len(vars_list)
           /\ operators_list[k].op = "label" => operators_list[k].n \in Nat \ {0}
    BY <2>1, <2>2 DEF Laid
  <2> QED BY <2>2, <2>3 DEF Executable
<1> QED BY <1>1, <1>2, PTL

-----------------------------------------------------------------------------
(* The height of the stack.  A code leads from one height to another when  *)
(* no element of it is confused on the way.                                 *)
Climb(h, c, a, b) ==
    /\ h \in [0..Len(c) -> Nat] /\ h[0] = a /\ h[Len(c)] = b
    /\ \A k \in 1..Len(c) : h[k] = HeightBehind(h[k - 1], c[k].op)

Leads(c, a, b) == \E h : Climb(h, c, a, b)

LEMMA LeadsNowhere == ASSUME NEW a \in Nat PROVE Leads(<<>>, a, a)
<1> DEFINE h == [k \in 0..0 |-> a]
<1>1. h \in [0..Len(<<>>) -> Nat] /\ h[0] = a /\ h[Len(<<>>)] = a
  OBVIOUS
<1>2. \A k \in 1..Len(<<>>) : FALSE
  OBVIOUS
<1> HIDE DEF h
<1>3. Climb(h, <<>>, a, a)
  BY <1>1, <1>2 DEF Climb
<1> QED BY <1>3 DEF Leads

LEMMA LeadsByOne ==
    ASSUME NEW e, NEW a \in Nat, NEW b \in Nat, HeightBehind(a, e.op) = b
    PROVE  Leads(<<e>>, a, b)
<1> DEFINE h == [k \in 0..1 |-> IF k = 0 THEN a ELSE b]
           c == <<e>>
<1>1. Len(c) = 1 /\ c[1] = e
  OBVIOUS
<1>2. h \in [0..1 -> Nat] /\ h[0] = a /\ h[1] = b
  OBVIOUS
<1> HIDE DEF h, c
<1>3. \A k \in 1..Len(c) : k = 1
  BY <1>1
<1>4. h \in [0..Len(c) -> Nat] /\ h[0] = a /\ h[Len(c)] = b
  BY <1>1, <1>2
<1>5. \A k \in 1..Len(c) : h[k] = HeightBehind(h[k - 1], c[k].op)
  <2> TAKE k \in 1..Len(c)
  <2>1. k = 1 /\ k - 1 = 0
    BY <1>3
  <2> QED BY <1>1, <1>2, <2>1
<1>6. Climb(h, c, a, b)
  BY <1>4, <1>5 DEF Climb
<1>7. Leads(c, a, b)
  BY <1>6 DEF Leads
<1> QED BY <1>7 DEF c

LEMMA LeadsOn ==
    ASSUME NEW S, NEW c \in Seq(S), NEW d \in Seq(S), NEW a, NEW b, NEW e,
           Leads(c, a, b), Leads(d, b, e)
    PROVE  Leads(c \o d, a, e)
<1>1. PICK g : Climb(g, c, a, b)
  BY DEF Leads
<1>2. PICK h : Climb(h, d, b, e)
  BY DEF Leads
<1> DEFINE m == Len(c)
           n == Len(d)
           u == c \o d
           f == [k \in 0..(m + n) |-> IF k <= m THEN g[k] ELSE h[k - m]]
<1>3. m \in Nat /\ n \in Nat
  OBVIOUS
<1>4. /\ Len(u) = m + n /\ \A k \in 1..m : u[k] = c[k]
      /\ \A k \in (m + 1)..(m + n) : u[k] = d[k - m]
  BY JoinedIs
<1>5. /\ g \in [0..m -> Nat] /\ g[0] = a /\ g[m] = b
      /\ \A k \in 1..m : g[k] = HeightBehind(g[k - 1], c[k].op)
  BY <1>1 DEF Climb
<1>6. /\ h \in [0..n -> Nat] /\ h[0] = b /\ h[n] = e
      /\ \A k \in 1..n : h[k] = HeightBehind(h[k - 1], d[k].op)
  BY <1>2 DEF Climb
<1> HIDE DEF m, n, u
<1>7. \A k \in 0..(m + n) : ~(k <= m) => k - m \in 0..n
  BY <1>3
<1>8. f \in [0..(m + n) -> Nat]
  BY <1>3, <1>5, <1>6, <1>7
<1>9. /\ \A k \in 0..m : f[k] = g[k]
      /\ \A k \in (m + 1)..(m + n) : f[k] = h[k - m]
  BY <1>3
<1> HIDE DEF f
<1>10. \A k \in m..(m + n) : f[k] = h[k - m]
  <2> TAKE k \in m..(m + n)
  <2>1. CASE k = m
    <3>1. k \in 0..m /\ k - m = 0
      BY <1>3, <2>1
    <3> QED BY <1>5, <1>6, <1>9, <2>1, <3>1
  <2>2. CASE k # m
    <3>1. k \in (m + 1)..(m + n)
      BY <1>3, <2>2
    <3> QED BY <1>9, <3>1
  <2> QED BY <2>1, <2>2
<1>11. f[0] = a /\ f[m + n] = e
  <2>1. 0 \in 0..m /\ m + n \in m..(m + n) /\ (m + n) - m = n
    BY <1>3
  <2> QED BY <1>5, <1>6, <1>9, <1>10, <2>1
<1>12. ASSUME NEW k \in 1..(m + n)
       PROVE  f[k] = HeightBehind(f[k - 1], u[k].op)
  <2>1. CASE k <= m
    <3>1. k \in 1..m /\ k \in 0..m /\ k - 1 \in 0..m
      BY <1>3, <2>1
    <3> QED BY <1>4, <1>5, <1>9, <3>1
  <2>2. CASE ~(k <= m)
    <3>1. /\ k \in (m + 1)..(m + n) /\ k \in m..(m + n) /\ k - 1 \in m..(m + n)
          /\ k - m \in 1..n /\ (k - m) - 1 = (k - 1) - m
      BY <1>3, <2>2
    <3>2. f[k] = h[k - m] /\ f[k - 1] = h[(k - m) - 1] /\ u[k] = d[k - m]
      BY <1>4, <1>10, <3>1
    <3> QED BY <1>6, <3>1, <3>2
  <2> QED BY <2>1, <2>2
<1>13. Climb(f, u, a, e)
  BY <1>4, <1>8, <1>11, <1>12 DEF Climb
<1>14. Leads(u, a, e)
  BY <1>13 DEF Leads
<1> QED BY <1>14 DEF u

LEMMA HeightsAre ==
    ASSUME NEW code \in Seq(Coded), NEW b, Leads(code, 0, b)
    PROVE  Heights(code)[Len(code)] = b
<1> DEFINE n == Len(code)
           Step(h, k) == IF k = 0 THEN 0 ELSE HeightBehind(h[k - 1], code[k].op)
           Form(h) == h = [k \in 0..n |-> Step(h, k)]
           height == CHOOSE h : Form(h)
<1>1. n \in Nat
  OBVIOUS
<1>2. Heights(code) = height
  BY DEF Heights
<1>3. PICK h : Climb(h, code, 0, b)
  BY DEF Leads
<1>4. /\ h \in [0..n -> Nat] /\ h[0] = 0 /\ h[n] = b
      /\ \A k \in 1..n : h[k] = HeightBehind(h[k - 1], code[k].op)
  BY <1>3 DEF Climb
<1> HIDE DEF n
<1>5. \A k \in 0..n : h[k] = Step(h, k)
  <2> TAKE k \in 0..n
  <2>1. k = 0 \/ k \in 1..n
    BY <1>1
  <2> QED BY <1>4, <2>1
<1>6. Form(h)
  <2>1. h = [k \in 0..n |-> h[k]]
    BY <1>4
  <2> HIDE DEF Step
  <2> QED BY <1>5, <2>1
<1>7. Form(height)
  <2> HIDE DEF Form
  <2> QED BY <1>6
<1> HIDE DEF height
<1>8. \A k \in 0..n : height[k] = Step(height, k)
  <2> HIDE DEF Step
  <2> QED BY <1>7
<1> DEFINE T == {k \in 0..n : height[k] = h[k]}
<1>9. 0 \in T
  BY <1>1, <1>4, <1>8
<1>10. ASSUME NEW k \in (0 + 1)..n, k - 1 \in T
       PROVE  k \in T
  <2>1. k \in 0..n /\ k \in 1..n /\ k # 0
    BY <1>1
  <2>2. height[k] = HeightBehind(height[k - 1], code[k].op) /\ height[k - 1] = h[k - 1]
    BY <1>8, <1>10, <2>1
  <2> QED BY <1>4, <2>1, <2>2
<1> HIDE DEF T
<1>11. \A k \in 0..n : k \in T
  BY <1>1, <1>9, <1>10, Climbing
<1>12. height[n] = h[n]
  BY <1>1, <1>11 DEF T
<1> QED BY <1>2, <1>4, <1>12 DEF n

\* What the elements do.
LEMMA Effects ==
    ASSUME NEW h \in Nat
    PROVE  /\ \A op \in {"int", "addr", "str", "label"} \cup SimpleGF : HeightBehind(h, op) = h + 1
           /\ \A op \in Unary \cup PlayerGF : h >= 1 => HeightBehind(h, op) = h
           /\ \A op \in Binary : h >= 2 => HeightBehind(h, op) = h - 1
<1>1. ASSUME NEW op \in {"int", "addr", "str", "label"} \cup SimpleGF
      PROVE  /\ Pops(op) = 0 /\ Pushes(op) = 1 /\ op # "print"
             /\ op \notin {"ifthen", "goto", "assign"} \cup (GameOperators \ {"print"})
  BY DEF Pops, Pushes, SimpleGF, PlayerGF, GameFunctions, Unary, Binary, Dividing, GameOperators
<1>2. ASSUME NEW op \in Unary \cup PlayerGF
      PROVE  /\ Pops(op) = 1 /\ Pushes(op) = 1 /\ op # "print"
             /\ op \notin {"ifthen", "goto", "assign"} \cup (GameOperators \ {"print"})
  BY DEF Pops, Pushes, SimpleGF, PlayerGF, GameFunctions, Unary, Binary, Dividing, GameOperators
<1>3. ASSUME NEW op \in Binary
      PROVE  /\ Pops(op) = 2 /\ Pushes(op) = 1 /\ op # "print"
             /\ op \notin {"ifthen", "goto", "assign"} \cup (GameOperators \ {"print"})
  BY DEF Pops, Pushes, SimpleGF, PlayerGF, GameFunctions, Unary, Binary, Dividing, GameOperators
<1>4. \A op \in {"int", "addr", "str", "label"} \cup SimpleGF : HeightBehind(h, op) = h + 1
  BY <1>1 DEF HeightBehind
<1>5. \A op \in Unary \cup PlayerGF : h >= 1 => HeightBehind(h, op) = h
  BY <1>2 DEF HeightBehind
<1>6. \A op \in Binary : h >= 2 => HeightBehind(h, op) = h - 1
  BY <1>3 DEF HeightBehind
<1> QED BY <1>4, <1>5, <1>6

-----------------------------------------------------------------------------
(* Expressions.  What waits on the stack of operations is what the words    *)
(* that are put out leave too much.                                         *)
WordCode(words, names) == [k \in 1..Len(words) |-> ProcessArithmeticLexem(words[k], names)]

LEMMA WordCoded ==
    ASSUME NEW names \in Seq(Texts), NEW w \in Words
    PROVE  /\ ProcessArithmeticLexem(w, names) \in Coded
           /\ w.type = "integer" => ProcessArithmeticLexem(w, names).op = "int"
           /\ w.type = "variable" => ProcessArithmeticLexem(w, names).op = "addr"
           /\ w.type \notin {"integer", "variable"} => ProcessArithmeticLexem(w, names).op = w.text
<1> DEFINE a == AddressOf(names, w.text)
<1>1. a \in Int /\ w.n \in Int /\ 0 \in Int
  <2>1. a \in 0..Len(names)
    BY AddressOfIs
  <2> HIDE DEF a
  <2>2. a \in Int
    BY <2>1
  <2> QED BY <2>2 DEF Words, Lexems
<1>2. "int" \in Ops /\ "addr" \in Ops /\ Unary \cup Binary \subseteq Ops
  BY DEF Ops
<1>3. CASE w.type = "integer"
  <2>1. ProcessArithmeticLexem(w, names) = Elem("int", w.n)
    BY <1>3 DEF ProcessArithmeticLexem, IntElem
  <2> QED BY <1>1, <1>2, <1>3, <2>1, ElemIs
<1>4. CASE w.type = "variable"
  <2>1. ProcessArithmeticLexem(w, names) = Elem("addr", a)
    BY <1>4 DEF ProcessArithmeticLexem, TransformRVal, AddrElem
  <2> HIDE DEF a
  <2> QED BY <1>1, <1>2, <1>4, <2>1, ElemIs
<1>5. CASE w.type \notin {"integer", "variable"}
  <2>1. ProcessArithmeticLexem(w, names) = Elem(w.text, 0)
    BY <1>5 DEF ProcessArithmeticLexem
  <2>2. w.text \in Ops
    BY <1>2, <1>5 DEF Words
  <2> QED BY <1>1, <1>5, <2>1, <2>2, ElemIs
<1> QED BY <1>3, <1>4, <1>5

LEMMA WordCodeIs ==
    ASSUME NEW names \in Seq(Texts), NEW words \in Seq(Words)
    PROVE  WordCode(words, names) \in Seq(Coded) /\ Len(WordCode(words, names)) = Len(words)
<1>1. Len(words) \in Nat /\ \A k \in 1..Len(words) : words[k] \in Words
  OBVIOUS
<1>2. WordCode(words, names) \in [1..Len(words) -> Coded]
  BY <1>1, WordCoded DEF WordCode
<1> QED BY <1>1, <1>2, SeqByPlaces

LEMMA WordCodeJoined ==
    ASSUME NEW names \in Seq(Texts), NEW s \in Seq(Words), NEW t \in Seq(Words)
    PROVE  WordCode(s \o t, names) = WordCode(s, names) \o WordCode(t, names)
<1> DEFINE u == s \o t
           left == WordCode(u, names)
           a == WordCode(s, names)
           b == WordCode(t, names)
           right == a \o b
           m == Len(s)
           n == Len(t)
<1>1. m \in Nat /\ n \in Nat
  OBVIOUS
<1>2. /\ u \in Seq(Words) /\ Len(u) = m + n /\ \A k \in 1..m : u[k] = s[k]
      /\ \A k \in (m + 1)..(m + n) : u[k] = t[k - m]
  BY JoinedIs
<1> HIDE DEF u
<1>3. left \in Seq(Coded) /\ Len(left) = m + n
  BY <1>2, WordCodeIs
<1>4. a \in Seq(Coded) /\ Len(a) = m /\ b \in Seq(Coded) /\ Len(b) = n
  BY WordCodeIs
<1>5. /\ \A k \in 1..(m + n) : left[k] = ProcessArithmeticLexem(u[k], names)
      /\ \A k \in 1..m : a[k] = ProcessArithmeticLexem(s[k], names)
      /\ \A k \in 1..n : b[k] = ProcessArithmeticLexem(t[k], names)
  BY <1>2 DEF WordCode
<1> HIDE DEF left, a, b, m, n
<1>6. /\ right \in Seq(Coded) /\ Len(right) = m + n /\ \A k \in 1..m : right[k] = a[k]
      /\ \A k \in (m + 1)..(m + n) : right[k] = b[k - m]
  BY <1>4, JoinedIs
<1> HIDE DEF right
<1>7. ASSUME NEW k \in 1..(m + n)
      PROVE  left[k] = right[k]
  <2>1. CASE k \in 1..m
    BY <1>2, <1>5, <1>6, <2>1
  <2>2. CASE k \in (m + 1)..(m + n)
    <3>1. k - m \in 1..n
      BY <1>1, <2>2
    <3> QED BY <1>2, <1>5, <1>6, <2>2, <3>1
  <2>3. k \in 1..m \/ k \in (m + 1)..(m + n)
    BY <1>1
  <2> QED BY <2>1, <2>2, <2>3
<1>8. left = right
  BY <1>3, <1>6, <1>7, SeqEqual
<1> QED BY <1>8 DEF left, right, u, a, b

LEMMA WordCodeOne ==
    ASSUME NEW names \in Seq(Texts), NEW w \in Words
    PROVE  WordCode(<<w>>, names) = <<ProcessArithmeticLexem(w, names)>>
<1>1. Len(<<w>>) = 1 /\ <<w>>[1] = w
  OBVIOUS
<1>2. \A k \in 1..1 : k = 1
  OBVIOUS
<1>3. WordCode(<<w>>, names) = [k \in 1..1 |-> ProcessArithmeticLexem(w, names)]
  BY <1>1, <1>2 DEF WordCode
<1> DEFINE e == ProcessArithmeticLexem(w, names)
<1> HIDE DEF e
<1>4. [k \in 1..1 |-> e] = <<e>>
  OBVIOUS
<1> QED BY <1>3, <1>4 DEF e

\* The binary operations that wait, counted from the bottom of the stack.
Counted(lev, ops) ==
    /\ lev \in [0..Len(ops) -> Nat] /\ lev[0] = 0
    /\ \A k \in 1..Len(ops) :
          lev[k] = IF ops[k] \in Binary THEN lev[k - 1] + 1 ELSE lev[k - 1]

Waits(ops, b) == \E lev : Counted(lev, ops) /\ lev[Len(ops)] = b

Names == {"("} \cup Unary \cup Binary

LEMMA WaitsMore ==
    ASSUME NEW ops \in Seq(Names), NEW b \in Nat, Waits(ops, b), NEW op \in Names
    PROVE  Waits(Append(ops, op), IF op \in Binary THEN b + 1 ELSE b)
<1> DEFINE n == Len(ops)
           more == Append(ops, op)
           c == IF op \in Binary THEN b + 1 ELSE b
<1>1. PICK lev : Counted(lev, ops) /\ lev[n] = b
  BY DEF Waits
<1> DEFINE f == [k \in 0..(n + 1) |-> IF k = n + 1 THEN c ELSE lev[k]]
<1>2. n \in Nat /\ c \in Nat
  OBVIOUS
<1>3. /\ lev \in [0..n -> Nat] /\ lev[0] = 0
      /\ \A k \in 1..n : lev[k] = IF ops[k] \in Binary THEN lev[k - 1] + 1 ELSE lev[k - 1]
  BY <1>1 DEF Counted
<1>4. Len(more) = n + 1 /\ more[n + 1] = op /\ \A k \in 1..n : more[k] = ops[k]
  OBVIOUS
<1> HIDE DEF n, more, c
<1>5. /\ f \in [0..(n + 1) -> Nat] /\ f[n + 1] = c /\ \A k \in 0..n : f[k] = lev[k]
  <2>1. \A k \in 0..(n + 1) : k # n + 1 => k \in 0..n
    BY <1>2
  <2>2. \A k \in 0..n : k # n + 1 /\ k \in 0..(n + 1)
    BY <1>2
  <2>3. n + 1 \in 0..(n + 1)
    BY <1>2
  <2> QED BY <1>2, <1>3, <2>1, <2>2, <2>3
<1> HIDE DEF f
<1>6. f[0] = 0
  <2>1. 0 \in 0..n
    BY <1>2
  <2> QED BY <1>3, <1>5, <2>1
<1>7. ASSUME NEW k \in 1..(n + 1)
      PROVE  f[k] = IF more[k] \in Binary THEN f[k - 1] + 1 ELSE f[k - 1]
  <2>1. CASE k = n + 1
    <3>1. k - 1 = n /\ n \in 0..n
      BY <1>2, <2>1
    <3> QED BY <1>1, <1>4, <1>5, <2>1, <3>1 DEF c
  <2>2. CASE k # n + 1
    <3>1. k \in 1..n /\ k \in 0..n /\ k - 1 \in 0..n
      BY <1>2, <2>2
    <3> QED BY <1>3, <1>4, <1>5, <3>1
  <2> QED BY <2>1, <2>2
<1>8. Counted(f, more) /\ f[Len(more)] = c
  BY <1>4, <1>5, <1>6, <1>7 DEF Counted
<1>9. Waits(more, c)
  BY <1>8 DEF Waits
<1> QED BY <1>9 DEF more, c

Sane(s, names, ended) ==
    \E b \in Nat : /\ Waits(s.ops, b)
                   /\ Leads(WordCode(s.out, names), 0, IF ended THEN b + 1 ELSE b)

\* What a closing parenthesis puts out: what is above the last opening one.
LastOpen(ops, o) == ops[o] = "(" /\ \A k \in (o + 1)..Len(ops) : ops[k] # "("

PutOut(s, o) == [s EXCEPT !.ops = SubSeq(s.ops, 1, o - 1),
                          !.out = @ \o Operations(Reverse(SubSeq(s.ops, o + 1, Len(s.ops))))]

LEMMA ClosingParenSteps ==
    ASSUME NEW s \in Reads
    PROVE  \/ ClosingParen(s) = [s EXCEPT !.is = "no"]
           \/ \E o \in 1..Len(s.ops) : LastOpen(s.ops, o) /\ ClosingParen(s) = PutOut(s, o)
<1> DEFINE opens == {k \in 1..Len(s.ops) : s.ops[k] = "("}
           open == IF opens # {} THEN Max(opens) ELSE 0
<1>1. open = SelectLastInSeq(s.ops, LAMBDA op : op = "(")
  BY DEF SelectLastInSeq
<1>2. s.ops \in Seq(Names) /\ Len(s.ops) \in Nat
  BY DEF Reads, Names
<1>3. opens \in SUBSET Nat /\ \A y \in opens : y <= Len(s.ops)
  BY <1>2
<1>4. opens # {} => open \in opens /\ \A y \in opens : y <= open
  <2> HIDE DEF opens
  <2> QED BY <1>2, <1>3, GreatestIs
<1>5. opens = {} => open = 0
  OBVIOUS
<1> HIDE DEF open
<1>6. ClosingParen(s) =
          IF open = 0 THEN [s EXCEPT !.is = "no"] ELSE PutOut(s, open)
  BY <1>1 DEF ClosingParen, PutOut
<1>7. ASSUME opens = {}
      PROVE  ClosingParen(s) = [s EXCEPT !.is = "no"]
  <2>1. open = 0
    BY <1>5, <1>7
  <2> QED BY <1>6, <2>1
<1>8. ASSUME opens # {}
      PROVE  \E o \in 1..Len(s.ops) : LastOpen(s.ops, o) /\ ClosingParen(s) = PutOut(s, o)
  <2>1. open \in 1..Len(s.ops) /\ s.ops[open] = "("
    BY <1>4, <1>8
  <2>2. ASSUME NEW k \in (open + 1)..Len(s.ops)
        PROVE  s.ops[k] # "("
    <3>1. k \in 1..Len(s.ops) /\ ~(k <= open)
      BY <1>2, <2>1
    <3>2. k \notin opens
      BY <1>4, <1>8, <3>1
    <3> QED BY <3>1, <3>2
  <2>3. open # 0
    BY <2>1
  <2>4. ClosingParen(s) = PutOut(s, open) /\ LastOpen(s.ops, open)
    BY <1>6, <2>1, <2>2, <2>3 DEF LastOpen
  <2> QED BY <2>1, <2>4
<1> QED BY <1>7, <1>8

LEMMA PoppedLeads ==
    ASSUME NEW ops \in Seq(Names), NEW open \in 1..Len(ops),
           LastOpen(ops, open),
           NEW lev, Counted(lev, ops), NEW names \in Seq(Texts)
    PROVE  /\ Operations(Reverse(SubSeq(ops, open + 1, Len(ops)))) \in Seq(Words)
           /\ Leads(WordCode(Operations(Reverse(SubSeq(ops, open + 1, Len(ops)))), names),
                    lev[Len(ops)] + 1, lev[open] + 1)
<1> DEFINE n == Len(ops)
           m == n - open
           above == SubSeq(ops, open + 1, n)
           turned == Reverse(above)
           words == Operations(turned)
           code == WordCode(words, names)
           h == [k \in 0..m |-> lev[n - k] + 1]
<1>1. n \in Nat /\ open \in 1..n /\ m \in Nat
  OBVIOUS
<1>2. /\ lev \in [0..n -> Nat]
      /\ \A k \in 1..n : lev[k] = IF ops[k] \in Binary THEN lev[k - 1] + 1 ELSE lev[k - 1]
  BY DEF Counted
<1>3. Len(above) = m /\ above \in Seq(Names) /\ \A k \in 1..m : above[k] = ops[open + k]
  <2>1. open + 1 \in 1..(n + 1) /\ n - (open + 1) + 1 = m
    BY <1>1
  <2>2. Len(above) = m /\ above \in Seq(Names)
    BY <1>1
  <2>3. ASSUME NEW k \in 1..m
        PROVE  above[k] = ops[open + k]
    BY <1>1
  <2> QED BY <2>2, <2>3
<1> HIDE DEF n, m, above
<1>4. \A k \in 1..m : open + k \in (open + 1)..n /\ open + k \in 1..n
  BY <1>1 DEF m
<1>5. \A k \in 1..m : above[k] \in Unary \cup Binary
  <2> TAKE k \in 1..m
  <2>1. ops[open + k] # "(" /\ ops[open + k] \in Names
    BY <1>4 DEF n, LastOpen
  <2> QED BY <1>3, <2>1 DEF Names
<1>6. above \in Seq(Unary \cup Binary)
  <2>1. above = [k \in 1..m |-> above[k]]
    BY <1>3
  <2>2. above \in [1..m -> Unary \cup Binary]
    BY <1>5, <2>1
  <2> QED BY <1>1, <2>2, SeqByPlaces
<1>7. /\ turned \in Seq(Unary \cup Binary) /\ Len(turned) = m
      /\ \A k \in 1..m : turned[k] = above[m + 1 - k]
  <2>1. turned \in Seq(Unary \cup Binary) /\ Len(turned) = m
    BY <1>3, <1>6, ReversedIs
  <2>2. turned = [k \in 1..m |-> above[m - k + 1]]
    BY <1>3 DEF Reverse
  <2>3. \A k \in 1..m : m - k + 1 = m + 1 - k
    BY <1>1
  <2> QED BY <2>1, <2>2, <2>3
<1> HIDE DEF turned
<1>8. \A k \in 1..m : m + 1 - k \in 1..m /\ open + (m + 1 - k) = n + 1 - k /\ n + 1 - k \in 1..n
  BY <1>1 DEF m
<1>9. \A k \in 1..m : turned[k] = ops[n + 1 - k] /\ turned[k] \in Unary \cup Binary
  BY <1>3, <1>5, <1>7, <1>8
<1>10. words \in Seq(Words)
  BY <1>7, OperationIs
<1>11. Len(words) = m /\ \A k \in 1..m : words[k] = Operation(turned[k])
  BY <1>1, <1>7 DEF Operations
<1> HIDE DEF words
<1>12. code \in Seq(Coded) /\ Len(code) = m
  BY <1>10, <1>11, WordCodeIs
<1>13. ASSUME NEW k \in 1..m
       PROVE  code[k].op = ops[n + 1 - k]
  <2>1. words[k] \in Words /\ words[k].type = "delimiter" /\ words[k].text = turned[k]
    BY <1>10, <1>11 DEF Operation
  <2>2. code[k] = ProcessArithmeticLexem(words[k], names)
    BY <1>11 DEF WordCode
  <2>3. words[k].type \notin {"integer", "variable"}
    BY <2>1
  <2>4. ProcessArithmeticLexem(words[k], names).op = words[k].text
    BY <2>1, <2>3, WordCoded
  <2> QED BY <1>9, <2>1, <2>2, <2>4
<1> HIDE DEF code
<1>14. \A k \in 0..m : n - k \in 0..n
  BY <1>1 DEF m
<1>15. h \in [0..m -> Nat] /\ h[0] = lev[n] + 1 /\ h[m] = lev[open] + 1
  <2>1. h \in [0..m -> Nat]
    BY <1>2, <1>14
  <2>2. 0 \in 0..m /\ m \in 0..m /\ n - 0 = n /\ n - m = open
    BY <1>1 DEF m
  <2> QED BY <2>1, <2>2
<1>16. ASSUME NEW k \in 1..m
       PROVE  h[k] = HeightBehind(h[k - 1], code[k].op)
  <2> DEFINE p == n - k
             op == ops[n + 1 - k]
  <2>1. /\ k \in 0..m /\ k - 1 \in 0..m /\ p \in 0..n /\ p + 1 \in 1..n /\ p + 1 = n + 1 - k
        /\ n - (k - 1) = p + 1 /\ (p + 1) - 1 = p
    BY <1>1 DEF m
  <2>2. h[k] = lev[p] + 1 /\ h[k - 1] = lev[p + 1] + 1
    BY <2>1
  <2>3. lev[p] \in Nat /\ lev[p + 1] = IF op \in Binary THEN lev[p] + 1 ELSE lev[p]
    BY <1>2, <2>1
  <2>4. op \in Unary \cup Binary
    BY <1>9
  <2> HIDE DEF h, p, op
  <2>5. CASE op \in Binary
    <3>4. lev[p + 1] = lev[p] + 1 /\ lev[p + 1] \in Nat
      BY <2>3, <2>5
    <3>5. h[k - 1] = lev[p] + 2
      BY <2>2, <2>3, <3>4
    <3>6. h[k] = lev[p] + 1 /\ lev[p] \in Nat
      BY <2>2, <2>3
    <3>7. \A x \in Nat : x + 2 \in Nat /\ x + 2 >= 2 /\ x + 1 = (x + 2) - 1
      OBVIOUS
    <3>8. lev[p] + 2 \in Nat /\ lev[p] + 2 >= 2 /\ lev[p] + 1 = (lev[p] + 2) - 1
      BY <3>6, <3>7
    <3>1. h[k - 1] \in Nat /\ h[k - 1] >= 2 /\ h[k] = h[k - 1] - 1
      BY <3>5, <3>6, <3>8, Zenon
    <3>2. HeightBehind(h[k - 1], op) = h[k - 1] - 1
      BY <2>5, <3>1, Effects
    <3> QED BY <1>13, <3>1, <3>2 DEF op
  <2>6. CASE op \notin Binary
    <3>1. h[k - 1] = lev[p] + 1 /\ h[k - 1] \in Nat /\ h[k - 1] >= 1 /\ h[k] = h[k - 1]
      BY <2>2, <2>3, <2>6
    <3>2. op \in Unary \cup PlayerGF
      BY <2>4, <2>6
    <3>3. HeightBehind(h[k - 1], op) = h[k - 1]
      BY <3>1, <3>2, Effects
    <3> QED BY <1>13, <3>1, <3>3 DEF op
  <2> QED BY <2>5, <2>6
<1> HIDE DEF h
<1>17. Climb(h, code, lev[n] + 1, lev[open] + 1)
  BY <1>12, <1>15, <1>16 DEF Climb
<1>18. Leads(code, lev[n] + 1, lev[open] + 1)
  BY <1>17 DEF Leads
<1> QED BY <1>10, <1>18 DEF code, words, turned, above, n

LEMMA WaitsBelow ==
    ASSUME NEW ops \in Seq(Names), NEW open \in 1..Len(ops), LastOpen(ops, open),
           NEW lev, Counted(lev, ops)
    PROVE  lev[open] \in Nat /\ Waits(SubSeq(ops, 1, open - 1), lev[open])
<1> DEFINE n == Len(ops)
           below == SubSeq(ops, 1, open - 1)
           m == open - 1
           f == [k \in 0..m |-> lev[k]]
<1>1. n \in Nat /\ open \in 1..n /\ m \in Nat /\ m + 1 \in 1..n /\ (m + 1) - 1 = m
  OBVIOUS
<1>2. /\ lev \in [0..n -> Nat] /\ lev[0] = 0
      /\ \A k \in 1..n : lev[k] = IF ops[k] \in Binary THEN lev[k - 1] + 1 ELSE lev[k - 1]
  BY DEF Counted
<1>3. Len(below) = m /\ \A k \in 1..m : below[k] = ops[k]
  <2>1. open - 1 \in 0..n /\ \A k \in 1..m : k \in 1..n
    BY <1>1
  <2>2. Len(below) = m
    BY <1>1
  <2>3. \A k \in 1..m : below[k] = ops[k]
    BY <1>1, <2>1
  <2> QED BY <2>2, <2>3
<1>4. "(" \notin Binary
  BY DEF Binary, Dividing
<1>5. lev[open] = lev[m]
  <2>1. open \in 1..n
    BY <1>1
  <2> QED BY <1>2, <1>4, <2>1 DEF LastOpen
<1> HIDE DEF n, below
<1>6. f \in [0..m -> Nat] /\ \A k \in 0..m : f[k] = lev[k]
  <2>1. \A k \in 0..m : k \in 0..n
    BY <1>1
  <2> QED BY <1>2, <2>1
<1>7. m \in 0..m /\ 0 \in 0..m /\ \A k \in 1..m : k \in 0..m /\ k - 1 \in 0..m /\ k \in 1..n
  BY <1>1
<1> HIDE DEF f, m
<1>8. f[0] = 0 /\ f[m] = lev[open] /\ f[m] \in Nat
  BY <1>2, <1>5, <1>6, <1>7
<1>9. \A k \in 1..m : f[k] = IF below[k] \in Binary THEN f[k - 1] + 1 ELSE f[k - 1]
  <2> TAKE k \in 1..m
  <2>1. f[k] = lev[k] /\ f[k - 1] = lev[k - 1] /\ below[k] = ops[k]
    BY <1>3, <1>6, <1>7
  <2>2. lev[k] = IF ops[k] \in Binary THEN lev[k - 1] + 1 ELSE lev[k - 1]
    BY <1>2, <1>7
  <2> QED BY <2>1, <2>2
<1>10. Counted(f, below) /\ f[Len(below)] = lev[open]
  BY <1>3, <1>6, <1>8, <1>9 DEF Counted
<1>11. Waits(below, lev[open])
  BY <1>10 DEF Waits
<1> QED BY <1>8, <1>11 DEF below

\* A closing parenthesis leaves as much on the stack as it found there.
LEMMA ClosingSane ==
    ASSUME NEW s \in Reads, NEW names \in Seq(Texts), Sane(s, names, TRUE)
    PROVE  Sane(ClosingParen(s), names, TRUE)
<1>1. CASE ClosingParen(s) = [s EXCEPT !.is = "no"]
  <2>1. ClosingParen(s).ops = s.ops /\ ClosingParen(s).out = s.out
    BY <1>1 DEF Reads
  <2> QED BY <2>1 DEF Sane
<1>2. ASSUME NEW open \in 1..Len(s.ops), LastOpen(s.ops, open), ClosingParen(s) = PutOut(s, open)
      PROVE  Sane(ClosingParen(s), names, TRUE)
  <2> DEFINE put == Operations(Reverse(SubSeq(s.ops, open + 1, Len(s.ops))))
             below == SubSeq(s.ops, 1, open - 1)
             end == s.out \o put
  <2>1. s.ops \in Seq(Names) /\ s.out \in Seq(Words)
    BY DEF Reads, Names
  <2>2. PICK b \in Nat : Waits(s.ops, b) /\ Leads(WordCode(s.out, names), 0, b + 1)
    BY DEF Sane
  <2>3. PICK lev : Counted(lev, s.ops) /\ lev[Len(s.ops)] = b
    BY <2>2 DEF Waits
  <2>4. put \in Seq(Words) /\ Leads(WordCode(put, names), b + 1, lev[open] + 1)
    BY <1>2, <2>1, <2>3, PoppedLeads
  <2>5. lev[open] \in Nat /\ Waits(below, lev[open])
    BY <1>2, <2>1, <2>3, WaitsBelow
  <2>6. ClosingParen(s).ops = below /\ ClosingParen(s).out = end
    <3> HIDE DEF put, below
    <3> QED BY <1>2 DEF Reads, put, below, PutOut
  <2> HIDE DEF put, below
  <2>7. WordCode(end, names) = WordCode(s.out, names) \o WordCode(put, names)
    BY <2>1, <2>4, WordCodeJoined
  <2>8. WordCode(s.out, names) \in Seq(Coded) /\ WordCode(put, names) \in Seq(Coded)
    BY <2>1, <2>4, WordCodeIs
  <2> HIDE DEF end
  <2>9. Leads(WordCode(end, names), 0, lev[open] + 1)
    BY <2>2, <2>4, <2>7, <2>8, LeadsOn
  <2> QED BY <2>5, <2>6, <2>9 DEF Sane
<1> QED BY <1>1, <1>2, ClosingParenSteps

\* One that follows an opening one leaves the others open.
LEMMA ClosingLast ==
    ASSUME NEW s \in Reads, Len(s.ops) >= 2, Last(s.ops) = "("
    PROVE  ClosingParen(s).ops # <<>>
<1>1. s.ops \in Seq(Names) /\ Len(s.ops) \in Nat
  BY DEF Reads, Names
<1>2. CASE ClosingParen(s) = [s EXCEPT !.is = "no"]
  BY <1>1, <1>2 DEF Reads
<1>3. ASSUME NEW open \in 1..Len(s.ops), LastOpen(s.ops, open), ClosingParen(s) = PutOut(s, open)
      PROVE  ClosingParen(s).ops # <<>>
  <2>1. open = Len(s.ops)
    <3>1. s.ops[Len(s.ops)] = "("
      BY <1>1 DEF Last
    <3>2. Len(s.ops) \notin (open + 1)..Len(s.ops)
      BY <1>3, <3>1 DEF LastOpen
    <3> QED BY <1>1, <3>2
  <2>2. ClosingParen(s).ops = SubSeq(s.ops, 1, open - 1)
    BY <1>3 DEF Reads, PutOut
  <2>3. Len(SubSeq(s.ops, 1, open - 1)) = open - 1
    BY <1>1
  <2>4. open - 1 # 0
    <3>1. \A x \in Nat : x >= 2 => x - 1 # 0
      OBVIOUS
    <3>2. Len(s.ops) - 1 # 0
      BY <1>1, <3>1
    <3> QED BY <2>1, <3>2
  <2> QED BY <2>2, <2>3, <2>4
<1> QED BY <1>2, <1>3, ClosingParenSteps

LEMMA ClosingFirst == ClosingParen(FirstRead).ops = <<>> /\ ClosingParen(FirstRead).out = <<>>
<1> DEFINE s == FirstRead
<1>1. s \in Reads /\ s.ops = <<"(">> /\ s.out = <<>>
  BY DEF FirstRead, Reads
<1>2. Len(s.ops) = 1 /\ s.ops[1] = "(" /\ s.ops \in Seq(Names)
  BY <1>1 DEF Names
<1>3. CASE ClosingParen(s) = [s EXCEPT !.is = "no"]
  <2>1. SelectLastInSeq(s.ops, LAMBDA op : op = "(") = 1
    <3> DEFINE opens == {k \in 1..Len(s.ops) : s.ops[k] = "("}
    <3>1. opens = {1}
      BY <1>2
    <3>2. Max(opens) = 1
      <4> HIDE DEF opens
      <4>1. opens \in SUBSET Nat /\ opens # {} /\ \A y \in opens : y <= 1
        BY <3>1
      <4>2. Max(opens) \in opens
        BY <4>1, GreatestIs
      <4> QED BY <3>1, <4>2
    <3> HIDE DEF s
    <3> QED BY <3>1, <3>2 DEF SelectLastInSeq
  <2>2. ClosingParen(s).ops = SubSeq(s.ops, 1, 0)
    <3>1. 1 # 0 /\ 1 - 1 = 0
      OBVIOUS
    <3> DEFINE put == Operations(Reverse(SubSeq(s.ops, 1 + 1, Len(s.ops))))
    <3>2. ClosingParen(s) = [s EXCEPT !.ops = SubSeq(s.ops, 1, 1 - 1), !.out = @ \o put]
      BY <2>1, <3>1 DEF ClosingParen
    <3> HIDE DEF put
    <3> QED BY <1>1, <3>1, <3>2 DEF Reads
  <2>3. Len(SubSeq(s.ops, 1, 0)) = 0
    BY <1>2
  <2>4. ClosingParen(s).ops = <<"(">>
    BY <1>1, <1>3 DEF Reads
  <2> QED BY <2>2, <2>3, <2>4
<1>4. ASSUME NEW open \in 1..Len(s.ops), LastOpen(s.ops, open), ClosingParen(s) = PutOut(s, open)
      PROVE  ClosingParen(s).ops = <<>> /\ ClosingParen(s).out = <<>>
  <2> DEFINE above == SubSeq(s.ops, open + 1, Len(s.ops))
             turned == Reverse(above)
             put == Operations(turned)
  <2>1. open = 1
    BY <1>2
  <2>2. above = <<>>
    BY <1>2, <2>1
  <2> HIDE DEF above
  <2>3. turned \in Seq(Names) /\ Len(turned) = 0
    <3>1. above \in Seq(Names) /\ Len(above) = 0
      BY <2>2
    <3> QED BY <3>1, ReversedIs
  <2> HIDE DEF turned
  <2>4. put = <<>>
    BY <2>3 DEF Operations
  <2> HIDE DEF put
  <2>5. SubSeq(s.ops, 1, open - 1) = <<>>
    BY <1>2, <2>1
  <2>6. ClosingParen(s).ops = SubSeq(s.ops, 1, open - 1) /\ ClosingParen(s).out = <<>> \o put
    BY <1>1, <1>4 DEF Reads, put, turned, above, PutOut
  <2> QED BY <2>4, <2>5, <2>6
<1> QED BY <1>1, <1>3, <1>4, ClosingParenSteps

LEMMA SaneOperand ==
    ASSUME NEW s \in Reads, NEW names \in Seq(Texts), Sane(s, names, FALSE),
           NEW w \in Lexems, w.type \in {"integer", "variable"}
    PROVE  Sane([s EXCEPT !.out = Append(@, w)], names, TRUE)
<1> DEFINE e == ProcessArithmeticLexem(w, names)
           more == Append(s.out, w)
           t == [s EXCEPT !.out = more]
<1>1. s.out \in Seq(Words) /\ w \in Words
  BY DEF Reads, Words
<1>2. PICK b \in Nat : Waits(s.ops, b) /\ Leads(WordCode(s.out, names), 0, b)
  BY DEF Sane
<1>3. e \in Coded /\ e.op \in {"int", "addr"}
  BY <1>1, WordCoded
<1>4. HeightBehind(b, e.op) = b + 1
  BY <1>2, <1>3, Effects
<1> HIDE DEF e
<1>5. Leads(<<e>>, b, b + 1)
  BY <1>2, <1>4, LeadsByOne
<1>6. more = s.out \o <<w>> /\ <<w>> \in Seq(Words)
  BY <1>1
<1>7. WordCode(more, names) = WordCode(s.out, names) \o <<e>>
  BY <1>1, <1>6, WordCodeJoined, WordCodeOne DEF e
<1>8. WordCode(s.out, names) \in Seq(Coded) /\ <<e>> \in Seq(Coded)
  BY <1>1, <1>3, WordCodeIs
<1>9. Leads(WordCode(more, names), 0, b + 1)
  BY <1>2, <1>5, <1>7, <1>8, LeadsOn
<1>10. t.ops = s.ops /\ t.out = more
  BY DEF Reads
<1> HIDE DEF more, t
<1>11. Sane(t, names, TRUE)
  BY <1>2, <1>9, <1>10 DEF Sane
<1> QED BY <1>11 DEF t, more

LEMMA SaneWaiting ==
    ASSUME NEW s \in Reads, NEW names \in Seq(Texts), NEW op \in Names,
           Sane(s, names, op \in Binary)
    PROVE  Sane([s EXCEPT !.ops = Append(@, op)], names, FALSE)
<1> DEFINE more == Append(s.ops, op)
           t == [s EXCEPT !.ops = more]
<1>1. s.ops \in Seq(Names)
  BY DEF Reads, Names
<1>2. PICK b \in Nat : /\ Waits(s.ops, b)
                       /\ Leads(WordCode(s.out, names), 0, IF op \in Binary THEN b + 1 ELSE b)
  BY DEF Sane
<1> DEFINE c == IF op \in Binary THEN b + 1 ELSE b
<1>3. c \in Nat /\ Leads(WordCode(s.out, names), 0, c)
  BY <1>2
<1>4. Waits(more, c)
  BY <1>1, <1>2, WaitsMore
<1>5. t.ops = more /\ t.out = s.out
  BY DEF Reads
<1> HIDE DEF c, more, t
<1>6. Sane(t, names, FALSE)
  BY <1>3, <1>4, <1>5 DEF Sane
<1> QED BY <1>6 DEF t, more

LEMMA SaneAtFirst ==
    ASSUME NEW names \in Seq(Texts)
    PROVE  Sane(FirstRead, names, FALSE)
<1> DEFINE lev == [k \in 0..1 |-> 0]
           ops == <<"(">>
<1>1. FirstRead.ops = ops /\ FirstRead.out = <<>>
  BY DEF FirstRead
<1>2. Len(ops) = 1 /\ ops[1] = "(" /\ "(" \notin Binary
  BY DEF Binary, Dividing
<1>3. lev \in [0..1 -> Nat] /\ lev[0] = 0 /\ lev[1] = 0
  OBVIOUS
<1> HIDE DEF lev, ops
<1>4. \A k \in 1..1 : lev[k] = IF ops[k] \in Binary THEN lev[k - 1] + 1 ELSE lev[k - 1]
  <2> TAKE k \in 1..1
  <2>1. k = 1 /\ k - 1 = 0
    OBVIOUS
  <2> QED BY <1>2, <1>3, <2>1
<1>5. Counted(lev, ops) /\ lev[Len(ops)] = 0
  BY <1>2, <1>3, <1>4 DEF Counted
<1>6. Waits(ops, 0)
  BY <1>5 DEF Waits
<1>7. WordCode(<<>>, names) = <<>>
  BY DEF WordCode
<1>8. Leads(<<>>, 0, 0)
  BY LeadsNowhere
<1> QED BY <1>1, <1>6, <1>7, <1>8 DEF Sane

\* What the words of a script cannot be, and what a pair of lexems in order is.
Apart(l) ==
    \A k \in 1..Len(l) :
        l[k].type \in {"integer", "variable", "assign"} => l[k].text \notin Reserved

LEMMA PairsOf ==
    ASSUME NEW l \in Seq(Lexems), ~IllFormed(l), NEW j \in 2..Len(l)
    PROVE  /\ OperandEnds(l, j - 1) => ~OperandBegins(l, j)
           /\ l[j - 1].text \in ALOperations => OperandBegins(l, j)
           /\ l[j - 1].text = "(" => OperandBegins(l, j) \/ l[j].text \in GameFunctions
           /\ l[j].text \in ALOperations \ {"!"} /\ ~IsUnMinus(l, j) => OperandEnds(l, j - 1)
           /\ l[j - 1].text = ":" /\ OperandEnds(l, j) => At(l, j + 1).type = "assign"
           /\ l[j - 1].text \in {"buy", "sell"} =>
                 l[j].text \in GameFunctions \/ At(l, j + 1).text = ","
<1> DEFINE p == j - 1
<1>1. p \in 1..(Len(l) - 1) /\ p + 1 = j /\ p + 2 = j + 1
  OBVIOUS
<1> HIDE DEF p
<1>2. /\ ~(OperandEnds(l, p) /\ OperandBegins(l, p + 1))
      /\ ~(l[p].text \in ALOperations /\ ~OperandBegins(l, p + 1))
      /\ ~(l[p].text = "(" /\ ~OperandBegins(l, p + 1) /\ ~isValidGameFunction(l[p + 1].text))
      /\ ~(/\ l[p + 1].text \in ALOperations \ {"!"} /\ ~IsUnMinus(l, p + 1)
           /\ ~OperandEnds(l, p))
      /\ ~(l[p].text = ":" /\ OperandEnds(l, p + 1) /\ At(l, p + 2).type # "assign")
      /\ ~(/\ l[p].text \in {"buy", "sell"}
           /\ ~isValidGameFunction(l[p + 1].text) /\ At(l, p + 2).text # ",")
  BY <1>1, Zenon DEF IllFormed
<1>3. /\ OperandEnds(l, p) => ~OperandBegins(l, j)
      /\ l[p].text \in ALOperations => OperandBegins(l, j)
      /\ l[p].text = "(" => OperandBegins(l, j) \/ l[j].text \in GameFunctions
      /\ l[j].text \in ALOperations \ {"!"} /\ ~IsUnMinus(l, j) => OperandEnds(l, p)
      /\ l[p].text = ":" /\ OperandEnds(l, j) => At(l, j + 1).type = "assign"
      /\ l[p].text \in {"buy", "sell"} =>
            l[j].text \in GameFunctions \/ At(l, j + 1).text = ","
  BY <1>1, <1>2, Zenon DEF isValidGameFunction
<1> QED BY <1>3, Zenon DEF p

\* What holds of an expression that begins at i before its lexem j is read.
Halfway(s, l, i, j, names) ==
    \/ j = i /\ s = FirstRead
    \/ /\ j # i /\ Sane(s, names, OperandEnds(l, j - 1))
       /\ \/ OperandEnds(l, j - 1)
          \/ l[j - 1].text \in ALOperations /\ Last(s.ops) # "("
          \/ l[j - 1].text = "(" /\ Len(s.ops) >= 2 /\ Last(s.ops) = "("

Going(s, l, i, j, names) ==
    /\ s.is = "reading" /\ s.ops # <<>> => Halfway(s, l, i, j, names)
    /\ s.is = "over" => Sane(s, names, TRUE) \/ ClosingParen(s).ops # <<>>

\* Where no operand has ended, one may follow; where one has ended, an operation.
LEMMA BeforeOperand ==
    ASSUME NEW l \in Seq(Lexems), ~IllFormed(l), NEW i \in Nat, i >= 2, NEW j \in i..Len(l),
           NEW names \in Seq(Texts), NEW s, Halfway(s, l, i, j, names), OperandBegins(l, j)
    PROVE  Sane(s, names, FALSE)
<1>1. CASE j = i /\ s = FirstRead
  BY <1>1, SaneAtFirst
<1>2. CASE Sane(s, names, OperandEnds(l, j - 1))
  <2>1. j \in 2..Len(l)
    OBVIOUS
  <2>2. ~OperandEnds(l, j - 1)
    BY <2>1, PairsOf, Zenon
  <2>3. OperandEnds(l, j - 1) = FALSE
    BY <2>2 DEF OperandEnds
  <2> QED BY <1>2, <2>3
<1> QED BY <1>1, <1>2 DEF Halfway

LEMMA BehindOperand ==
    ASSUME NEW l \in Seq(Lexems), ~IllFormed(l), NEW i \in Nat, i >= 2, NEW j \in i..Len(l),
           ~OperandEnds(l, i - 1), NEW names \in Seq(Texts), NEW s, Halfway(s, l, i, j, names),
           l[j].text \in ALOperations \ {"!"}, ~IsUnMinus(l, j)
    PROVE  Sane(s, names, TRUE)
<1>1. j \in 2..Len(l)
  OBVIOUS
<1>2. OperandEnds(l, j - 1)
  BY <1>1, PairsOf, Zenon
<1>3. j # i
  BY <1>2
<1>4. OperandEnds(l, j - 1) = TRUE
  BY <1>2 DEF OperandEnds
<1> QED BY <1>3, <1>4 DEF Halfway

\* Where no operand begins, the expression is well ended, has just begun or has an
\* open parenthesis.
LEMMA NoOperandBegins ==
    ASSUME NEW l \in Seq(Lexems), ~IllFormed(l), NEW i \in Nat, i >= 2, NEW j \in i..Len(l),
           NEW names \in Seq(Texts), NEW s \in Reads, Halfway(s, l, i, j, names),
           ~OperandBegins(l, j)
    PROVE  \/ Sane(s, names, TRUE)
           \/ s = FirstRead
           \/ /\ ClosingParen(s).ops # <<>> /\ l[j].text \in GameFunctions
              /\ j # i /\ l[j - 1].text = "("
<1>1. j \in 2..Len(l)
  OBVIOUS
<1>2. CASE j = i /\ s = FirstRead
  BY <1>2
<1>3. CASE j # i /\ OperandEnds(l, j - 1) /\ Sane(s, names, OperandEnds(l, j - 1))
  <2>1. OperandEnds(l, j - 1) = TRUE
    BY <1>3 DEF OperandEnds
  <2> QED BY <1>3, <2>1
<1>4. CASE l[j - 1].text \in ALOperations
  <2>1. OperandBegins(l, j)
    BY <1>1, <1>4, PairsOf, Zenon
  <2> QED BY <2>1
<1>5. CASE j # i /\ l[j - 1].text = "(" /\ Len(s.ops) >= 2 /\ Last(s.ops) = "("
  <2>1. l[j].text \in GameFunctions
    BY <1>1, <1>5, PairsOf, Zenon
  <2>2. ClosingParen(s).ops # <<>>
    BY <1>5, ClosingLast
  <2> QED BY <1>5, <2>1, <2>2
<1> QED BY <1>2, <1>3, <1>4, <1>5 DEF Halfway

LEMMA GoingOn ==
    ASSUME NEW l \in Seq(Lexems), Apart(l), ~IllFormed(l), NEW i \in Nat, i >= 2,
           NEW j \in i..Len(l), ~OperandEnds(l, i - 1), NEW names \in Seq(Texts),
           NEW s \in Reads, Going(s, l, i, j, names)
    PROVE  Going(ArithmeticLexem(s, l, j), l, i, j + 1, names)
<1> DEFINE r == ArithmeticLexem(s, l, j)
<1>1. /\ Len(l) \in Nat /\ j \in Nat /\ j \in 1..Len(l) /\ j + 1 # i /\ (j + 1) - 1 = j
      /\ l[j] \in Lexems
  OBVIOUS
<1>2. r \in Reads /\ s.ops \in Seq(Names) /\ s.out \in Seq(Words)
  BY <1>1, ArithmeticLexemIs DEF Reads, Names
<1>3. CASE s.is # "reading"
  <2>1. r = s
    BY <1>3 DEF ArithmeticLexem
  <2> QED BY <1>3, <2>1 DEF Going
<1>4. CASE s.is = "reading" /\ s.ops = <<>>
  <2>1. r = [s EXCEPT !.is = "no"]
    BY <1>4 DEF ArithmeticLexem
  <2>2. r.is = "no"
    BY <2>1 DEF Reads
  <2> QED BY <2>2 DEF Going
<1>5. CASE s.is = "reading" /\ s.ops # <<>>
  <2>1. Halfway(s, l, i, j, names)
    BY <1>5 DEF Going
  <2>2. CASE l[j].type \in {"integer", "variable"}
    <3>1. r = [s EXCEPT !.out = Append(@, l[j])]
      BY <1>5, <2>2 DEF ArithmeticLexem
    <3>2. OperandBegins(l, j) /\ OperandEnds(l, j)
      BY <2>2 DEF OperandBegins, OperandEnds
    <3>3. Sane(s, names, FALSE)
      BY <2>1, <3>2, BeforeOperand
    <3>4. Sane(r, names, TRUE)
      BY <1>1, <2>2, <3>1, <3>3, SaneOperand
    <3>5. r.is = "reading"
      BY <1>5, <3>1 DEF Reads
    <3>6. OperandEnds(l, j) = TRUE
      BY <3>2 DEF OperandEnds
    <3>7. Halfway(r, l, i, j + 1, names)
      BY <1>1, <3>4, <3>6 DEF Halfway
    <3> QED BY <3>5, <3>7 DEF Going
  <2>3. CASE l[j].type \notin {"integer", "variable"} /\ l[j].text = "("
    <3>1. r = [s EXCEPT !.ops = Append(@, "(")]
      BY <1>5, <2>3 DEF ArithmeticLexem
    <3>2. OperandBegins(l, j) /\ ~OperandEnds(l, j)
      BY <2>3 DEF OperandBegins, OperandEnds
    <3>3. Sane(s, names, FALSE)
      BY <2>1, <3>2, BeforeOperand
    <3>4. "(" \in Names /\ ("(" \in Binary) = FALSE
      BY DEF Names, Binary, Dividing
    <3>5. Sane(r, names, FALSE)
      BY <3>1, <3>3, <3>4, SaneWaiting
    <3>6. r.is = "reading" /\ r.ops = Append(s.ops, "(")
      BY <1>5, <3>1 DEF Reads
    <3>7. Len(r.ops) >= 2 /\ Last(r.ops) = "("
      <4>1. Len(s.ops) \in Nat /\ Len(s.ops) # 0
        BY <1>2, <1>5
      <4>2. Len(r.ops) = Len(s.ops) + 1 /\ r.ops[Len(s.ops) + 1] = "("
        BY <1>2, <3>4, <3>6
      <4>3. \A x \in Nat : x # 0 => x + 1 >= 2
        OBVIOUS
      <4>4. Len(r.ops) >= 2
        BY <4>1, <4>2, <4>3
      <4> QED BY <4>2, <4>4 DEF Last
    <3>8. OperandEnds(l, j) = FALSE
      BY <3>2 DEF OperandEnds
    <3>9. Halfway(r, l, i, j + 1, names)
      BY <1>1, <2>3, <3>5, <3>7, <3>8 DEF Halfway
    <3> QED BY <3>6, <3>9 DEF Going
  <2>4. CASE l[j].type \notin {"integer", "variable"} /\ l[j].text = ")"
    <3>1. r = ClosingParen(s)
      BY <1>5, <2>4 DEF ArithmeticLexem
    <3>2. ~OperandBegins(l, j) /\ OperandEnds(l, j) /\ l[j].text \notin GameFunctions
      BY <2>4 DEF OperandBegins, OperandEnds, IsUnMinus, GameFunctions, SimpleGF, PlayerGF
    <3>3. Sane(s, names, TRUE) \/ s = FirstRead
      BY <2>1, <3>2, NoOperandBegins
    <3>4. CASE s = FirstRead
      <4>1. r.ops = <<>> /\ r.is # "over"
        <5>1. r.ops = <<>>
          BY <3>1, <3>4, ClosingFirst
        <5>2. r.is \in {s.is, "no"}
          <6>1. CASE ClosingParen(s) = [s EXCEPT !.is = "no"]
            BY <3>1, <6>1 DEF Reads
          <6>2. ASSUME NEW o \in 1..Len(s.ops), ClosingParen(s) = PutOut(s, o)
                PROVE  r.is = s.is
            BY <3>1, <6>2 DEF Reads, PutOut
          <6> QED BY <6>1, <6>2, ClosingParenSteps
        <5> QED BY <1>5, <5>1, <5>2
      <4> QED BY <4>1 DEF Going
    <3>5. CASE Sane(s, names, TRUE)
      <4>1. Sane(r, names, TRUE)
        BY <3>1, <3>5, ClosingSane
      <4>2. OperandEnds(l, j) = TRUE
        BY <3>2 DEF OperandEnds
      <4>3. Halfway(r, l, i, j + 1, names)
        BY <1>1, <4>1, <4>2 DEF Halfway
      <4> QED BY <4>1, <4>3 DEF Going
    <3> QED BY <3>3, <3>4, <3>5
  <2>5. CASE /\ l[j].type \notin {"integer", "variable"} /\ l[j].text \notin {"(", ")"}
             /\ l[j].text \in ALOperations
    <3> DEFINE op == IF IsUnMinus(l, j) THEN "-U" ELSE l[j].text
    <3>1. r = ALOperator(s, op)
      BY <1>5, <2>5 DEF ArithmeticLexem
    <3>2. op \in Names /\ op # "("
      BY <2>5 DEF Names, ALOperations, Unary, Binary, Dividing
    <3>3. Sane(s, names, op \in Binary)
      <4>1. CASE IsUnMinus(l, j) \/ l[j].text = "!"
        <5>1. OperandBegins(l, j)
          BY <4>1 DEF OperandBegins
        <5>2. (op \in Binary) = FALSE
          BY <4>1 DEF Binary, Dividing
        <5>3. Sane(s, names, FALSE)
          BY <2>1, <5>1, BeforeOperand
        <5> QED BY <5>2, <5>3
      <4>2. CASE ~IsUnMinus(l, j) /\ l[j].text # "!"
        <5>1. (op \in Binary) = TRUE
          BY <2>5, <4>2 DEF ALOperations
        <5>2. l[j].text \in ALOperations \ {"!"}
          BY <2>5, <4>2
        <5>3. Sane(s, names, TRUE)
          BY <2>1, <4>2, <5>2, BehindOperand
        <5> QED BY <5>1, <5>3
      <4> QED BY <4>1, <4>2
    <3> HIDE DEF op
    <3>4. CASE r = [s EXCEPT !.is = "undefined"]
      <4>1. r.is = "undefined"
        BY <3>4 DEF Reads
      <4> QED BY <4>1 DEF Going
    <3>5. CASE r = [s EXCEPT !.ops = Append(@, op)]
      <4>1. Sane(r, names, FALSE)
        BY <3>2, <3>3, <3>5, SaneWaiting
      <4>2. r.is = "reading" /\ r.ops = Append(s.ops, op)
        BY <1>5, <3>5 DEF Reads
      <4>3. Last(r.ops) # "("
        <5>1. Len(r.ops) = Len(s.ops) + 1 /\ r.ops[Len(s.ops) + 1] = op
          BY <1>2, <3>2, <4>2
        <5> QED BY <3>2, <5>1 DEF Last
      <4>4. OperandEnds(l, j) = FALSE
        BY <2>5 DEF OperandEnds
      <4>5. Halfway(r, l, i, j + 1, names)
        BY <1>1, <2>5, <4>1, <4>3, <4>4 DEF Halfway
      <4> QED BY <4>2, <4>5 DEF Going
    <3> QED BY <3>1, <3>4, <3>5 DEF ALOperator
  <2>6. CASE /\ l[j].type \notin {"integer", "variable"} /\ l[j].text \notin {"(", ")"}
             /\ l[j].text \notin ALOperations
    <3>1. ~OperandBegins(l, j)
      BY <2>6 DEF OperandBegins, IsUnMinus, ALOperations, Binary
    <3>2. Sane(s, names, TRUE) \/ s = FirstRead \/ ClosingParen(s).ops # <<>>
      BY <2>1, <3>1, NoOperandBegins
    <3>3. r = IF Len(s.out) = 1 /\ s.out[1].type = "integer" THEN [s EXCEPT !.is = "over"]
              ELSE [s EXCEPT !.is = "no"]
      BY <1>5, <2>6 DEF ArithmeticLexem
    <3>4. CASE r = [s EXCEPT !.is = "over"] /\ Len(s.out) = 1
      <4>1. r.is = "over" /\ r.ops = s.ops /\ r.out = s.out
        BY <3>4 DEF Reads
      <4>2. s # FirstRead
        <5>1. FirstRead.out = <<>> /\ Len(<<>>) = 0
          BY DEF FirstRead
        <5>2. 0 # 1
          OBVIOUS
        <5> QED BY <3>4, <5>1, <5>2, Zenon
      <4>3. CASE Sane(s, names, TRUE)
        <5>1. Sane(r, names, TRUE)
          BY <4>1, <4>3 DEF Sane
        <5> QED BY <4>1, <5>1 DEF Going
      <4>4. CASE ClosingParen(s).ops # <<>>
        <5>1. ClosingParen(r).ops = ClosingParen(s).ops
          BY <3>4 DEF ClosingParen, Reads
        <5> QED BY <4>1, <4>4, <5>1 DEF Going
      <4> QED BY <3>2, <4>2, <4>3, <4>4
    <3>5. CASE r = [s EXCEPT !.is = "no"]
      <4>1. r.is = "no"
        BY <3>5 DEF Reads
      <4> QED BY <4>1 DEF Going
    <3> QED BY <3>3, <3>4, <3>5
  <2> QED BY <2>2, <2>3, <2>4, <2>5, <2>6
<1> QED BY <1>2, <1>3, <1>4, <1>5 DEF Reads

LEMMA NextWordFound ==
    ASSUME NEW l \in Seq(Lexems), NEW i \in Nat \ {0}, NEW words
    PROVE  /\ NextWord(l, i, words) <= Len(l) =>
                 NextWord(l, i, words) \in i..Len(l) /\ l[NextWord(l, i, words)].text \in words
           /\ \A k \in i..Len(l) : l[k].text \in words => NextWord(l, i, words) <= k
<1> DEFINE found == {j \in i..Len(l) : l[j].text \in words}
<1>1. Len(l) \in Nat /\ found \in SUBSET Nat
  OBVIOUS
<1>2. NextWord(l, i, words) = IF found = {} THEN Len(l) + 1 ELSE Min(found)
  BY DEF NextWord
<1>3. CASE found = {}
  <2>1. NextWord(l, i, words) = Len(l) + 1
    BY <1>2, <1>3
  <2>2. ~(Len(l) + 1 <= Len(l))
    BY <1>1
  <2> QED BY <1>3, <2>1, <2>2
<1>4. CASE found # {}
  <2> HIDE DEF found
  <2>1. Min(found) \in found /\ \A y \in found : Min(found) <= y
    BY <1>1, <1>4, LeastIs
  <2>2. NextWord(l, i, words) = Min(found)
    BY <1>2, <1>4
  <2>3. NextWord(l, i, words) \in found /\ \A y \in found : NextWord(l, i, words) <= y
    BY <2>1, <2>2
  <2> QED BY <2>3 DEF found
<1> QED BY <1>3, <1>4

LEMMA GoingTo ==
    ASSUME NEW l \in Seq(Lexems), Apart(l), ~IllFormed(l), NEW i \in Nat, i >= 2, i <= Len(l),
           ~OperandEnds(l, i - 1), NEW names \in Seq(Texts), NEW end \in i..(Len(l) + 1)
    PROVE  Going(ReadTo(l, i, end), l, i, end, names)
<1>1. Len(l) \in Nat /\ i \in Nat \ {0} /\ end \in Nat /\ i <= end
  OBVIOUS
<1>2. PICK h \in [i..end -> Reads] :
               /\ h[i] = FirstRead /\ h[end] = ReadTo(l, i, end)
               /\ \A k \in i..end : k # i => h[k] = ArithmeticLexem(h[k - 1], l, k - 1)
  BY <1>1, ReadToSteps
<1> DEFINE T == {k \in i..end : Going(h[k], l, i, k, names)}
<1>3. i \in T
  <2>1. i \in i..end
    BY <1>1
  <2>2. FirstRead.is = "reading"
    BY DEF FirstRead
  <2>3. Going(FirstRead, l, i, i, names)
    BY <2>2 DEF Going, Halfway
  <2> QED BY <1>2, <2>1, <2>3
<1>4. ASSUME NEW k \in (i + 1)..end, k - 1 \in T
      PROVE  k \in T
  <2>1. k \in i..end /\ k # i /\ k - 1 \in i..end /\ k - 1 \in i..Len(l) /\ (k - 1) + 1 = k
    BY <1>1
  <2>2. h[k - 1] \in Reads /\ Going(h[k - 1], l, i, k - 1, names)
    BY <1>4, <2>1
  <2>3. Going(ArithmeticLexem(h[k - 1], l, k - 1), l, i, (k - 1) + 1, names)
    BY <2>1, <2>2, GoingOn
  <2>4. h[k] = ArithmeticLexem(h[k - 1], l, k - 1)
    BY <1>2, <2>1
  <2> QED BY <2>1, <2>3, <2>4
<1> HIDE DEF T
<1>5. \A k \in i..end : k \in T
  BY <1>1, <1>3, <1>4, Climbing
<1>6. end \in i..end
  BY <1>1
<1> QED BY <1>2, <1>5, <1>6 DEF T

\* An expression leaves its value.
LEMMA ArithmeticLeads ==
    ASSUME NEW l \in Seq(Lexems), Apart(l), ~IllFormed(l), NEW i \in Nat, i >= 2,
           ~OperandEnds(l, i - 1), NEW names \in Seq(Texts), Arithmetic(l, i).is = "yes"
    PROVE  Leads(WordCode(Arithmetic(l, i).words, names), 0, 1)
<1> DEFINE end == EndOf(l, i)
           cut == end > Len(l)
           s == ReadTo(l, i, end)
           whole == ClosingParen(s)
<1>1. Len(l) \in Nat /\ i \in Nat \ {0}
  OBVIOUS
<1>2. No.is = "no" /\ Crashed.is = "undefined"
  BY DEF No, Crashed
<1>3. i <= Len(l) /\ Arithmetic(l, i) = Postfix(s, cut)
  <2>1. ~(i > Len(l))
    BY <1>2 DEF Arithmetic
  <2> QED BY <1>1, <2>1 DEF Arithmetic
<1>4. end \in i..(Len(l) + 1) /\ end \in Nat
  BY <1>1, <1>3, EndOfIs
<1>5. s \in Reads /\ Going(s, l, i, end, names)
  <2> HIDE DEF end
  <2> QED BY <1>1, <1>3, <1>4, ReadToIs, GoingTo
<1> HIDE DEF s, whole
<1>6. /\ s.is \notin {"no", "undefined"} /\ s.ops # <<>>
      /\ ~(Last(s.ops) # "(" /\ cut /\ s.is # "over")
      /\ ClosingParen(s).ops = <<>> /\ ClosingParen(s).out # <<>>
      /\ Arithmetic(l, i).words = ClosingParen(s).out
  <2> HIDE DEF cut
  <2>1. Postfix(s, cut).is = "yes"
    BY <1>3
  <2>2. /\ s.is \notin {"no", "undefined"} /\ s.ops # <<>>
        /\ ~(Last(s.ops) # "(" /\ cut /\ s.is # "over")
        /\ ClosingParen(s).ops = <<>> /\ ClosingParen(s).out # <<>>
    BY <1>2, <2>1 DEF Postfix
  <2>3. Postfix(s, cut) = Yes("arithmetic", ClosingParen(s).out)
    BY <2>2 DEF Postfix
  <2>4. Yes("arithmetic", ClosingParen(s).out).words = ClosingParen(s).out
    BY DEF Yes
  <2> QED BY <1>3, <2>2, <2>3, <2>4
<1>7. s # FirstRead
  BY <1>6, ClosingFirst
<1>8. Sane(s, names, TRUE)
  <2>1. CASE s.is = "over"
    BY <1>5, <1>6, <2>1 DEF Going
  <2>2. CASE s.is = "reading" /\ cut
    <3>1. Halfway(s, l, i, end, names)
      BY <1>5, <1>6, <2>2 DEF Going
    <3>2. ~(Len(s.ops) >= 2 /\ Last(s.ops) = "(")
      BY <1>5, <1>6, ClosingLast
    <3>3. Last(s.ops) = "("
      BY <1>6, <2>2
    <3>4. OperandEnds(l, end - 1) /\ Sane(s, names, OperandEnds(l, end - 1))
      BY <1>7, <3>1, <3>2, <3>3 DEF Halfway
    <3>5. OperandEnds(l, end - 1) = TRUE
      BY <3>4 DEF OperandEnds
    <3> QED BY <3>4, <3>5
  <2>3. CASE s.is = "reading" /\ ~cut
    <3>1. Halfway(s, l, i, end, names)
      BY <1>5, <1>6, <2>3 DEF Going
    <3>2. end <= Len(l) /\ end \in i..Len(l) /\ end \in 1..Len(l)
      BY <1>1, <1>4, <2>3
    <3>3. l[end].text \in {";", "then"}
      <4>1. EndOf(l, i) <= Len(l)
        BY <3>2
      <4> DEFINE words == {";", "then"}
      <4>2. EndOf(l, i) = NextWord(l, i, words)
        BY DEF EndOf
      <4> HIDE DEF words
      <4>3. l[NextWord(l, i, words)].text \in words
        BY <1>1, <4>1, <4>2, NextWordFound
      <4>4. l[end].text \in words
        BY <4>2, <4>3, Zenon
      <4> QED BY <4>4, Zenon DEF words
    <3> HIDE DEF end
    <3>4. l[end].type \notin {"integer", "variable"}
      <4>1. {";", "then"} \subseteq Reserved
        BY DEF Reserved
      <4>2. l[end].text \in Reserved
        BY <3>3, <4>1, Zenon
      <4> QED BY <3>2, <4>2, Zenon DEF Apart
    <3>5. ~OperandBegins(l, end)
      <4>1. \A text \in {";", "then"} : text \notin {"(", "!"} /\ text # "-"
        BY Zenon
      <4>2. l[end].text \notin {"(", "!"} /\ l[end].text # "-"
        BY <3>3, <4>1, Zenon
      <4> QED BY <3>4, <4>2, Zenon DEF OperandBegins, IsUnMinus
    <3>6. Sane(s, names, TRUE) \/ s = FirstRead \/ ClosingParen(s).ops # <<>>
      BY <1>5, <3>1, <3>2, <3>5, NoOperandBegins
    <3> QED BY <1>6, <1>7, <3>6
  <2>4. s.is \in {"reading", "over"}
    BY <1>5, <1>6 DEF Reads
  <2> QED BY <2>1, <2>2, <2>3, <2>4
<1>9. Sane(ClosingParen(s), names, TRUE)
  BY <1>5, <1>8, ClosingSane
<1>10. PICK b \in Nat : /\ Waits(<<>>, b)
                        /\ Leads(WordCode(ClosingParen(s).out, names), 0, b + 1)
  BY <1>6, <1>9 DEF Sane
<1>11. b = 0
  <2>1. PICK lev : lev[0] = 0 /\ lev[Len(<<>>)] = b
    BY <1>10 DEF Waits, Counted
  <2>2. Len(<<>>) = 0
    OBVIOUS
  <2> QED BY <2>1, <2>2
<1>12. b + 1 = 1
  BY <1>11
<1> QED BY <1>6, <1>10, <1>12

-----------------------------------------------------------------------------
(* Which words an operand has.                                              *)
LEMMA AppendOne == ASSUME NEW a, NEW b PROVE Append(<<a>>, b) = <<a, b>>
<1> DEFINE S == {a, b}
<1>1. <<a>> \in Seq(S) /\ b \in S
  OBVIOUS
<1> HIDE DEF S
<1>2. Append(<<a>>, b) = <<a>> \o <<b>>
  BY <1>1
<1> QED BY <1>2, OneAndOne

LEMMA KindsOf ==
    ASSUME NEW l, NEW i
    PROVE  /\ VarRValue(l, i).is = "yes" =>
                 VarRValue(l, i).kind = "rvalue" /\ VarRValue(l, i).words = <<l[i]>>
           /\ Arithmetic(l, i).is = "yes" => Arithmetic(l, i).kind = "arithmetic"
<1>1. No.is = "no" /\ Crashed.is = "undefined"
  BY DEF No, Crashed
<1>2. VarRValue(l, i) \in {No, Crashed, Yes("rvalue", <<l[i]>>)}
  BY DEF VarRValue
<1>3. VarRValue(l, i).is = "yes" =>
          VarRValue(l, i).kind = "rvalue" /\ VarRValue(l, i).words = <<l[i]>>
  BY <1>1, <1>2 DEF Yes
<1>4. \A s : \A cut : Postfix(s, cut) \in {No, Crashed, Yes("arithmetic", ClosingParen(s).out)}
  BY Zenon DEF Postfix
<1>5. \A s : \A cut : Postfix(s, cut).is = "yes" => Postfix(s, cut).kind = "arithmetic"
  <2> TAKE s
  <2> TAKE cut
  <2> DEFINE out == ClosingParen(s).out
             p == Postfix(s, cut)
  <2>1. p = No \/ p = Crashed \/ p = Yes("arithmetic", out)
    BY <1>4, Zenon
  <2>2. Yes("arithmetic", out).kind = "arithmetic"
    BY DEF Yes
  <2> HIDE DEF out, p
  <2>3. p.is = "yes" => p.kind = "arithmetic"
    BY <1>1, <2>1, <2>2
  <2> QED BY <2>3 DEF p
<1>6. Arithmetic(l, i) = No \/ Arithmetic(l, i) = Postfix(ReadTo(l, i, EndOf(l, i)), EndOf(l, i) > Len(l))
  BY Zenon DEF Arithmetic
<1>7. Arithmetic(l, i).is = "yes" => Arithmetic(l, i).kind = "arithmetic"
  BY <1>1, <1>5, <1>6, Zenon
<1> QED BY <1>3, <1>7

SimpleCall(o, l, j) == l[j].text \in SimpleGF /\ o.words = <<l[j]>>

PlayerCall(o, l, j) ==
    /\ l[j].text \in PlayerGF /\ At(l, j + 1).text = "(" /\ j + 2 <= Len(l)
    /\ l[j + 2].text \in SimpleGF /\ o.words = <<l[j + 2], l[j]>>

LEMMA Called ==
    ASSUME NEW l \in Seq(Lexems), NEW i \in Nat \ {0}, GameStatement(l, i).is = "yes"
    PROVE  /\ i \in 1..Len(l) /\ GameStatement(l, i).kind = "game"
           /\ SimpleCall(GameStatement(l, i), l, i) \/ PlayerCall(GameStatement(l, i), l, i)
<1>1. PICK game :
         /\ GameStatement(l, i) = IF i > Len(l) THEN No ELSE game[i]
         /\ \A j \in 1..(Len(l) + 2) :
               game[j] = GameRead(game[j + 2], l, j) /\ game[j] \in Operands
  BY GameStatementSteps
<1>2. No.is = "no" /\ Len(l) \in Nat
  BY DEF No
<1>3. i \in 1..Len(l) /\ GameStatement(l, i) = game[i]
  BY <1>1, <1>2
<1>4. ASSUME NEW j \in 1..Len(l), game[j].is = "yes"
      PROVE  /\ game[j].kind = "game"
             /\ \/ SimpleCall(game[j], l, j)
                \/ /\ l[j].text \in PlayerGF /\ At(l, j + 1).text = "(" /\ j + 2 <= Len(l)
                   /\ Asking(OrElse(VarRValue(l, j + 2),
                                    OrElse(game[j + 2], Arithmetic(l, j + 2))), l, j) = game[j]
  <2>1. j \in 1..(Len(l) + 2) /\ At(l, j) = l[j]
    BY <1>2, InScript
  <2>2. game[j] = GameRead(game[j + 2], l, j) /\ game[j] \in Operands
    BY <1>1, <2>1
  <2>3. CASE l[j].text \in SimpleGF
    <3>1. game[j] = Yes("game", <<l[j]>>)
      BY <2>1, <2>2, <2>3 DEF GameRead
    <3>2. game[j].kind = "game" /\ game[j].words = <<l[j]>>
      BY <3>1 DEF Yes
    <3> QED BY <2>3, <3>2 DEF SimpleCall
  <2>4. CASE l[j].text \notin SimpleGF
    <3> DEFINE arg == OrElse(VarRValue(l, j + 2), OrElse(game[j + 2], Arithmetic(l, j + 2)))
               none == ~isValidGameFunction(l[j].text) \/ At(l, j + 1).text # "(" \/ j + 2 > Len(l)
    <3>1. game[j] = IF none THEN No ELSE Asking(arg, l, j)
      BY <2>1, <2>2, <2>4 DEF GameRead
    <3>2. ~none
      <4> HIDE DEF none, arg
      <4> QED BY <1>2, <1>4, <3>1
    <3>3. l[j].text \in PlayerGF /\ At(l, j + 1).text = "(" /\ j + 2 <= Len(l)
      BY <1>2, <2>4, <3>2 DEF isValidGameFunction, GameFunctions
    <3>4. game[j] = Asking(arg, l, j)
      BY <3>1, <3>2
    <3> HIDE DEF arg
    <3>5. game[j].kind = "game"
      <4>1. arg.is = "yes" /\ arg.kind = "game"
        BY <1>2, <1>4, <3>4 DEF Asking
      <4>2. game[j] = Yes("game", Append(arg.words, l[j]))
        BY <1>2, <1>4, <3>4, <4>1 DEF Asking
      <4> QED BY <4>2 DEF Yes
    <3> QED BY <3>3, <3>4, <3>5 DEF arg
  <2> QED BY <2>3, <2>4
<1>5. CASE SimpleCall(game[i], l, i)
  BY <1>3, <1>4, <1>5
<1>6. CASE /\ l[i].text \in PlayerGF /\ At(l, i + 1).text = "(" /\ i + 2 <= Len(l)
           /\ Asking(OrElse(VarRValue(l, i + 2),
                            OrElse(game[i + 2], Arithmetic(l, i + 2))), l, i) = game[i]
  <2> DEFINE k == i + 2
             a == VarRValue(l, k)
             b == game[k]
             c == Arithmetic(l, k)
             arg == OrElse(a, OrElse(b, c))
  <2>1. k \in 1..Len(l) /\ k + 1 = i + 3
    BY <1>2, <1>3, <1>6
  <2>2. Asking(arg, l, i) = game[i]
    BY <1>6
  <2> HIDE DEF arg
  <2>3. arg.is = "yes" /\ arg.kind = "game" /\ At(l, k + 1).text = ")"
    BY <1>2, <1>3, <2>1, <2>2 DEF Asking
  <2>4. game[i] = Yes("game", Append(arg.words, l[i]))
    BY <2>1, <2>2, <2>3 DEF Asking
  <2>5. a.is = "yes" => a.kind # "game"
    BY KindsOf
  <2>6. c.is = "yes" => c.kind # "game"
    BY KindsOf
  <2>7. arg = b
    <3> HIDE DEF a, b, c
    <3> QED BY <2>3, <2>5, <2>6 DEF arg, OrElse
  <2>8. SimpleCall(game[k], l, k)
    <3>1. At(l, k + 1).text # "("
      BY <2>3
    <3> QED BY <1>4, <2>1, <2>3, <2>7, <3>1
  <2>9. game[i].words = <<l[k], l[i]>>
    <3>1. arg.words = <<l[k]>> /\ l[k].text \in SimpleGF
      BY <2>7, <2>8 DEF SimpleCall
    <3>2. Append(<<l[k]>>, l[i]) = <<l[k], l[i]>>
      BY AppendOne
    <3> QED BY <2>4, <3>1, <3>2 DEF Yes
  <2>10. PlayerCall(game[i], l, i)
    BY <1>6, <2>8, <2>9 DEF PlayerCall, SimpleCall
  <2> QED BY <1>3, <1>4, <2>10
<1> QED BY <1>3, <1>4, <1>5, <1>6

\* The elements that put a value on the stack, and the code of one of them.
Pushers == {"int", "addr", "str"} \cup SimpleGF

LEMMA RaisesByOne ==
    ASSUME NEW e, e.op \in Pushers, NEW a \in Nat
    PROVE  Leads(<<e>>, a, a + 1)
<1>1. HeightBehind(a, e.op) = a + 1
  BY Effects DEF Pushers
<1>2. a + 1 \in Nat
  OBVIOUS
<1> QED BY <1>1, <1>2, LeadsByOne

LEMMA GameCode ==
    ASSUME NEW u, NEW w
    PROVE  /\ ProcessGameLexem(<<w>>) = <<Elem(w.text, 0)>>
           /\ ProcessGameLexem(<<u, w>>) = <<Elem(u.text, 0), Elem(w.text, 0)>>
<1> DEFINE d == Elem(u.text, 0)
           e == Elem(w.text, 0)
           one == <<w>>
           two == <<u, w>>
<1>1. Len(one) = 1 /\ Last(one) = w
  BY DEF Last
<1>2. Len(two) = 2 /\ Last(two) = w /\ two[1] = u
  BY DEF Last
<1> HIDE DEF one, two, d, e
<1>3. [k \in 1..(Len(one) - 1) |-> ProcessGameLexemArgument(one[k])] = <<>>
  BY <1>1
<1>4. [k \in 1..(Len(two) - 1) |-> ProcessGameLexemArgument(two[k])] = <<d>>
  <2>1. Len(two) - 1 = 1 /\ ProcessGameLexemArgument(two[1]) = d
    BY <1>2 DEF ProcessGameLexemArgument, d
  <2>2. \A k \in 1..1 : k = 1
    OBVIOUS
  <2>3. [k \in 1..(Len(two) - 1) |-> ProcessGameLexemArgument(two[k])] = [k \in 1..1 |-> d]
    BY <2>1, <2>2
  <2>4. [k \in 1..1 |-> d] = <<d>>
    OBVIOUS
  <2> QED BY <2>3, <2>4
<1>5. ProcessGameLexem(one) = <<>> \o <<e>>
  BY <1>1, <1>3 DEF ProcessGameLexem, e
<1>6. ProcessGameLexem(two) = <<d>> \o <<e>>
  BY <1>2, <1>4 DEF ProcessGameLexem, e
<1>7. <<>> \o <<e>> = <<e>> /\ <<d>> \o <<e>> = <<d, e>>
  <2>1. <<e>> \in Seq({e})
    OBVIOUS
  <2>2. <<>> \o <<e>> = <<e>>
    BY <2>1
  <2> QED BY <2>2, OneAndOne
<1>8. ProcessGameLexem(one) = <<e>> /\ ProcessGameLexem(two) = <<d, e>>
  BY <1>5, <1>6, <1>7
<1> QED BY <1>8 DEF one, two, d, e

\* A variable, a function.
LEMMA VariableCoded ==
    ASSUME NEW names \in Seq(Texts), NEW word
    PROVE  TransformRVal(word, names) \in Coded /\ TransformRVal(word, names).op = "addr"
<1> DEFINE a == AddressOf(names, word.text)
<1>1. a \in 0..Len(names)
  BY AddressOfIs
<1>2. TransformRVal(word, names) = Elem("addr", a)
  BY DEF TransformRVal, AddrElem
<1> HIDE DEF a
<1>3. a \in Int /\ "addr" \in Ops
  BY <1>1 DEF Ops
<1> QED BY <1>2, <1>3, ElemIs

LEMMA FunctionCoded ==
    ASSUME NEW text \in GameFunctions
    PROVE  Elem(text, 0) \in Coded /\ Elem(text, 0).op = text
<1>1. text \in Ops /\ 0 \in Int
  BY DEF Ops
<1> QED BY <1>1, ElemIs

LEMMA GameLeads ==
    ASSUME NEW l \in Seq(Lexems), NEW i \in Nat \ {0}, GameStatement(l, i).is = "yes",
           NEW names, NEW a \in Nat
    PROVE  Leads(Translated(GameStatement(l, i), names), a, a + 1)
<1> DEFINE o == GameStatement(l, i)
           code == Translated(o, names)
<1>1. o.kind = "game" /\ (SimpleCall(o, l, i) \/ PlayerCall(o, l, i))
  BY Called
<1> HIDE DEF o
<1>2. code = ProcessGameLexem(o.words)
  BY <1>1 DEF Translated
<1> HIDE DEF code
<1>3. CASE SimpleCall(o, l, i)
  <2> DEFINE e == Elem(l[i].text, 0)
  <2>1. code = <<e>>
    BY <1>2, <1>3, GameCode DEF SimpleCall
  <2>2. e.op \in Pushers
    BY <1>3, FunctionCoded DEF SimpleCall, Pushers, GameFunctions
  <2> HIDE DEF e
  <2>3. Leads(code, a, a + 1)
    BY <2>1, <2>2, RaisesByOne
  <2> QED BY <2>3 DEF code, o
<1>4. CASE PlayerCall(o, l, i)
  <2> DEFINE d == Elem(l[i + 2].text, 0)
             e == Elem(l[i].text, 0)
  <2>1. code = <<d, e>>
    BY <1>2, <1>4, GameCode DEF PlayerCall
  <2>2. d \in Coded /\ d.op \in Pushers /\ e \in Coded /\ e.op \in PlayerGF
    BY <1>4, FunctionCoded DEF PlayerCall, Pushers, GameFunctions
  <2> HIDE DEF d, e
  <2>3. Leads(<<d>>, a, a + 1)
    BY <2>2, RaisesByOne
  <2>4. a + 1 \in Nat /\ a + 1 >= 1
    OBVIOUS
  <2>5. HeightBehind(a + 1, e.op) = a + 1
    BY <2>2, <2>4, Effects
  <2>6. Leads(<<e>>, a + 1, a + 1)
    BY <2>4, <2>5, LeadsByOne
  <2>7. <<d>> \in Seq(Coded) /\ <<e>> \in Seq(Coded)
    BY <2>2
  <2>8. Leads(<<d>> \o <<e>>, a, a + 1)
    BY <2>3, <2>6, <2>7, LeadsOn
  <2>9. Leads(code, a, a + 1)
    BY <2>1, <2>8, OneAndOne
  <2> QED BY <2>9 DEF code, o
<1> QED BY <1>1, <1>3, <1>4

\* A condition and a value leave one value.
LEMMA ConditionLeads ==
    ASSUME NEW l \in Seq(Lexems), Apart(l), ~IllFormed(l), NEW i \in Nat, i >= 2,
           ~OperandEnds(l, i - 1), NEW names \in Seq(Texts), Condition(l, i).is = "yes"
    PROVE  Leads(Translated(Condition(l, i), names), 0, 1)
<1>1. i \in Nat \ {0} /\ 0 \in Nat /\ 0 + 1 = 1
  OBVIOUS
<1>2. CASE Arithmetic(l, i).is = "no"
  <2>1. Condition(l, i) = GameStatement(l, i)
    BY <1>2 DEF Condition, OrElse
  <2> HIDE DEF Condition
  <2> QED BY <1>1, <2>1, GameLeads
<1>3. CASE Arithmetic(l, i).is # "no"
  <2>1. Condition(l, i) = Arithmetic(l, i)
    BY <1>3 DEF Condition, OrElse
  <2> DEFINE o == Arithmetic(l, i)
  <2>2. o.is = "yes" /\ o.kind = "arithmetic"
    BY <2>1, KindsOf
  <2>3. Leads(WordCode(o.words, names), 0, 1)
    BY <2>2, ArithmeticLeads
  <2> HIDE DEF o
  <2>4. Translated(o, names) = WordCode(o.words, names)
    BY <2>2 DEF Translated, WordCode
  <2> QED BY <2>1, <2>3, <2>4 DEF o
<1> QED BY <1>2, <1>3

LEMMA OperandLeads ==
    ASSUME NEW l \in Seq(Lexems), Apart(l), ~IllFormed(l), NEW i \in Nat, i >= 2,
           ~OperandEnds(l, i - 1), NEW names \in Seq(Texts), Operand(l, i).is = "yes"
    PROVE  Leads(Translated(Operand(l, i), names), 0, 1)
<1>1. CASE VarRValue(l, i).is = "no"
  <2>1. Operand(l, i) = Condition(l, i)
    BY <1>1 DEF Operand, OrElse
  <2> QED BY <2>1, ConditionLeads
<1>2. CASE VarRValue(l, i).is # "no"
  <2> DEFINE o == VarRValue(l, i)
             e == TransformRVal(l[i], names)
  <2>1. Operand(l, i) = o
    BY <1>2 DEF Operand, OrElse
  <2>2. o.kind = "rvalue" /\ o.words = <<l[i]>>
    BY <2>1, KindsOf
  <2> HIDE DEF o
  <2>3. o.words[1] = l[i]
    BY <2>2
  <2>4. Translated(o, names) = <<e>>
    BY <2>2, <2>3 DEF Translated
  <2>5. e.op \in Pushers /\ 0 \in Nat /\ 0 + 1 = 1
    BY VariableCoded DEF Pushers
  <2> HIDE DEF e
  <2>6. Leads(<<e>>, 0, 1)
    BY <2>5, RaisesByOne
  <2> QED BY <2>1, <2>4, <2>6
<1> QED BY <1>1, <1>2

-----------------------------------------------------------------------------
(* Operands of one lexem: those of print, prod and build, and what is       *)
(* behind the comma of buy and sell.  What is asked of a script for them is *)
(* kept when its unary minuses are rewritten.                               *)
Fit(l) ==
    /\ Apart(l)
    /\ \A k \in 1..(Len(l) - 1) :
          /\ l[k].text \in ALOperations => l[k + 1].text # ";"
          /\ l[k].text \in {"buy", "sell"} =>
                l[k + 1].text \in GameFunctions \/ At(l, k + 2).text = ","

LEMMA ClosingOne ==
    ASSUME NEW s \in Reads, s.ops = <<"(">>
    PROVE  ClosingParen(s).out = s.out
<1>1. Len(s.ops) = 1 /\ s.ops \in Seq(Names) /\ s.out \in Seq(Words)
  BY DEF Names, Reads
<1>2. CASE ClosingParen(s) = [s EXCEPT !.is = "no"]
  BY <1>2 DEF Reads
<1>3. ASSUME NEW open \in 1..Len(s.ops), LastOpen(s.ops, open), ClosingParen(s) = PutOut(s, open)
      PROVE  ClosingParen(s).out = s.out
  <2> DEFINE above == SubSeq(s.ops, open + 1, Len(s.ops))
             turned == Reverse(above)
             put == Operations(turned)
  <2>1. open = 1
    BY <1>1
  <2>2. above = <<>>
    BY <1>1, <2>1
  <2> HIDE DEF above
  <2>3. turned \in Seq(Names) /\ Len(turned) = 0
    <3>1. above \in Seq(Names) /\ Len(above) = 0
      BY <2>2
    <3> QED BY <3>1, ReversedIs
  <2> HIDE DEF turned
  <2>4. put = <<>>
    BY <2>3 DEF Operations
  <2> HIDE DEF put
  <2>5. ClosingParen(s).out = s.out \o put
    BY <1>3 DEF Reads, put, turned, above, PutOut
  <2>6. s.out \o <<>> = s.out
    BY <1>1
  <2> QED BY <2>4, <2>5, <2>6
<1> QED BY <1>2, <1>3, ClosingParenSteps

\* What is read behind the first lexem.
LEMMA FirstLexem ==
    ASSUME NEW l \in Seq(Lexems), NEW i \in 1..Len(l), NEW s, s = ArithmeticLexem(FirstRead, l, i)
    PROVE  /\ s \in Reads
           /\ \/ /\ l[i].type \in {"integer", "variable"}
                 /\ s.is = "reading" /\ s.ops = <<"(">> /\ s.out = <<l[i]>>
              \/ /\ s.is \in {"reading", "no", "undefined"} /\ s.out = <<>>
                 /\ \/ l[i].text \in ALOperations \/ s.is = "no" \/ s.ops = <<>>
                    \/ ClosingParen(s).ops # <<>>
<1> DEFINE f == FirstRead
<1>1. f \in Reads /\ f.is = "reading" /\ f.ops = <<"(">> /\ f.out = <<>> /\ f.ops # <<>>
  BY DEF FirstRead, Reads
<1> HIDE DEF f
<1>2. s \in Reads /\ l[i] \in Lexems
  BY <1>1, ArithmeticLexemIs DEF f
<1>3. s = ArithmeticLexem(f, l, i)
  BY DEF f
<1>4. CASE l[i].type \in {"integer", "variable"}
  <2>1. s = [f EXCEPT !.out = Append(@, l[i])]
    BY <1>1, <1>3, <1>4 DEF ArithmeticLexem
  <2>2. Append(<<>>, l[i]) = <<l[i]>>
    OBVIOUS
  <2>3. s.is = f.is /\ s.ops = f.ops /\ s.out = Append(f.out, l[i])
    BY <1>1, <2>1 DEF Reads
  <2> QED BY <1>1, <1>2, <1>4, <2>2, <2>3
<1>5. CASE l[i].type \notin {"integer", "variable"} /\ l[i].text = "("
  <2>1. s = [f EXCEPT !.ops = Append(@, "(")]
    BY <1>1, <1>3, <1>5 DEF ArithmeticLexem
  <2>2. s.is = "reading" /\ s.out = <<>> /\ s.ops = Append(<<"(">>, "(")
    BY <1>1, <2>1 DEF Reads
  <2>3. s.ops = <<"(", "(">>
    BY <2>2, AppendOne
  <2>4. Len(s.ops) >= 2 /\ Last(s.ops) = "("
    BY <2>3 DEF Last
  <2> QED BY <1>2, <2>2, <2>4, ClosingLast
<1>6. CASE l[i].type \notin {"integer", "variable"} /\ l[i].text = ")"
  <2>1. s = ClosingParen(f)
    BY <1>1, <1>3, <1>6 DEF ArithmeticLexem
  <2>2. s.ops = <<>> /\ s.out = <<>>
    BY <2>1, ClosingFirst DEF f
  <2>3. s.is \in {f.is, "no"}
    <3>1. CASE ClosingParen(f) = [f EXCEPT !.is = "no"]
      BY <1>1, <2>1, <3>1 DEF Reads
    <3>2. ASSUME NEW o \in 1..Len(f.ops), ClosingParen(f) = PutOut(f, o)
          PROVE  s.is = f.is
      BY <1>1, <2>1, <3>2 DEF Reads, PutOut
    <3> QED BY <1>1, <3>1, <3>2, ClosingParenSteps
  <2> QED BY <1>1, <1>2, <2>2, <2>3
<1>7. CASE /\ l[i].type \notin {"integer", "variable"} /\ l[i].text \notin {"(", ")"}
           /\ l[i].text \in ALOperations
  <2> DEFINE op == IF IsUnMinus(l, i) THEN "-U" ELSE l[i].text
  <2>1. s = ALOperator(f, op)
    BY <1>1, <1>3, <1>7 DEF ArithmeticLexem
  <2> HIDE DEF op
  <2>2. s \in {[f EXCEPT !.ops = Append(@, op)], [f EXCEPT !.is = "undefined"]}
    BY <2>1 DEF ALOperator
  <2>3. s.is \in {"reading", "undefined"} /\ s.out = <<>>
    BY <1>1, <2>2 DEF Reads
  <2> QED BY <1>2, <1>7, <2>3
<1>8. CASE /\ l[i].type \notin {"integer", "variable"} /\ l[i].text \notin {"(", ")"}
           /\ l[i].text \notin ALOperations
  <2>1. Len(f.out) # 1
    BY <1>1
  <2>2. s = [f EXCEPT !.is = "no"]
    BY <1>1, <1>3, <1>8, <2>1 DEF ArithmeticLexem
  <2>3. s.is = "no" /\ s.out = <<>>
    BY <1>1, <2>2 DEF Reads
  <2> QED BY <1>2, <2>3
<1> QED BY <1>4, <1>5, <1>6, <1>7, <1>8

\* A comma, like any lexem that is none of an expression, ends one.
LEMMA CommaApart ==
    ASSUME NEW l \in Seq(Lexems), NEW j \in 1..Len(l), Apart(l), l[j].text = ","
    PROVE  /\ l[j].type \notin {"integer", "variable"}
           /\ l[j].text \notin {"(", ")"} /\ l[j].text \notin ALOperations
<1>1. "," \in Reserved /\ "," \notin {"(", ")"} /\ "," \notin ALOperations
  BY Zenon DEF Reserved, ALOperations, Binary, Dividing
<1>2. l[j].text \in Reserved
  BY Zenon, <1>1
<1>3. l[j].type \notin {"integer", "variable"}
  BY Zenon, <1>2 DEF Apart
<1> QED BY Zenon, <1>1, <1>3

LEMMA Unexpected ==
    ASSUME NEW l \in Seq(Lexems), NEW j \in 1..Len(l), NEW s \in Reads,
           l[j].type \notin {"integer", "variable"},
           l[j].text \notin {"(", ")"}, l[j].text \notin ALOperations
    PROVE  /\ s.is = "reading" /\ s.ops = <<"(">> /\ Len(s.out) = 1 /\ s.out[1].type = "integer"
                 => ArithmeticLexem(s, l, j) = [s EXCEPT !.is = "over"]
           /\ s.is = "reading" /\ (s.out = <<>> \/ s.out[1].type # "integer")
                 => ArithmeticLexem(s, l, j) = [s EXCEPT !.is = "no"]
<1>4. CASE s.is = "reading" /\ s.ops = <<>>
  <2>1. ArithmeticLexem(s, l, j) = [s EXCEPT !.is = "no"]
    BY <1>4 DEF ArithmeticLexem
  <2>2. s.ops # <<"(">>
    BY <1>4
  <2> QED BY <1>4, <2>1, <2>2
<1>5. CASE s.is = "reading" /\ s.ops # <<>>
  <2>1. ArithmeticLexem(s, l, j) =
          IF Len(s.out) = 1 /\ s.out[1].type = "integer" THEN [s EXCEPT !.is = "over"]
          ELSE [s EXCEPT !.is = "no"]
    BY <1>5 DEF ArithmeticLexem
  <2>2. s.out = <<>> => Len(s.out) = 0
    OBVIOUS
  <2>3. s.out = <<>> => Len(s.out) # 1
    BY <2>2
  <2> QED BY <2>1, <2>3
<1> QED BY <1>4, <1>5

\* What is no longer read stays as it is.
StepByStep(h, l, i, end) ==
    \A m \in i..end : m # i => h[m] = ArithmeticLexem(h[m - 1], l, m - 1)

LEMMA ReadNoMore ==
    ASSUME NEW l \in Seq(Lexems), NEW i \in Nat \ {0}, NEW end \in i..(Len(l) + 1),
           NEW h, NEW k \in i..end, h[k].is # "reading", StepByStep(h, l, i, end)
    PROVE  h[end] = h[k]
<1> DEFINE T == {m \in k..end : h[m] = h[k]}
<1>1. end \in Nat /\ k \in Nat /\ i \in Nat /\ i <= k /\ k <= end /\ k \in T
  OBVIOUS
<1>2. ASSUME NEW m \in (k + 1)..end, m - 1 \in T
      PROVE  m \in T
  <2>1. m \in i..end /\ m # i /\ m \in k..end
    BY <1>1
  <2>2. h[m] = ArithmeticLexem(h[m - 1], l, m - 1) /\ h[m - 1] = h[k]
    BY <1>2, <2>1 DEF StepByStep
  <2>3. h[m] = h[m - 1]
    BY <2>2 DEF ArithmeticLexem
  <2> QED BY <2>1, <2>2, <2>3
<1> HIDE DEF T
<1>3. \A m \in k..end : m \in T
  BY <1>1, <1>2, Climbing
<1>4. end \in k..end
  BY <1>1
<1> QED BY <1>3, <1>4 DEF T

\* A variable alone.
LEMMA BehindHere ==
    ASSUME NEW l \in Seq(Lexems), NEW i \in 1..Len(l), NEW paren, l[i].text # paren
    PROVE  Behind(l, i, paren) = i
<1> DEFINE last == Max({i, Len(l) + 1})
           S == {j \in i..Len(l) : l[j].text # paren} \cup {last}
<1>1. i \in Nat /\ Len(l) \in Nat /\ i <= Len(l)
  OBVIOUS
<1>2. last = Len(l) + 1
  <2>1. last \in {i, Len(l) + 1} /\ \A y \in {i, Len(l) + 1} : y <= last
    <3> DEFINE T == {i, Len(l) + 1}
    <3>1. T \in SUBSET Nat /\ T # {} /\ Len(l) + 1 \in Nat /\ \A y \in T : y <= Len(l) + 1
      BY <1>1
    <3> HIDE DEF T
    <3>2. Max(T) \in T /\ \A y \in T : y <= Max(T)
      BY <3>1, GreatestIs
    <3> QED BY <3>2 DEF T
  <2> HIDE DEF last
  <2> QED BY <1>1, <2>1
<1> HIDE DEF last
<1>3. S \in SUBSET Nat /\ S # {} /\ i \in S /\ \A j \in S : i <= j
  BY <1>1, <1>2
<1> HIDE DEF S
<1>4. PICK least : least = Min(S) /\ least \in S /\ \A j \in S : least <= j
  <2>1. Min(S) \in S /\ \A j \in S : Min(S) <= j
    BY <1>3, LeastIs
  <2> QED BY Zenon, <2>1
<1>5. least \in Nat /\ least <= i /\ i <= least
  BY <1>3, <1>4
<1>6. Min(S) = i
  <2>1. least = i
    BY <1>1, <1>5
  <2> QED BY <1>4, <2>1
<1> QED BY <1>6 DEF Behind, S, last

LEMMA OneVariable ==
    ASSUME NEW l \in Seq(Lexems), NEW i \in Nat \ {0}, i + 1 <= Len(l), Apart(l),
           l[i].type = "variable", l[i + 1].text # ")"
    PROVE  VarRValue(l, i).is = "yes"
<1>1. i \in 1..Len(l) /\ i + 1 \in 1..Len(l)
  OBVIOUS
<1>2. l[i].text # "("
  <2>1. l[i].text \notin Reserved
    BY Zenon, <1>1 DEF Apart
  <2>2. "(" \in Reserved
    BY Zenon DEF Reserved
  <2> QED BY Zenon, <2>1, <2>2
<1>3. Behind(l, i, "(") = i /\ Behind(l, i + 1, ")") = i + 1
  BY <1>1, <1>2, BehindHere
<1>4. VarRValue(l, i) = Yes("rvalue", <<l[i]>>)
  <2>1. ~(i > Len(l)) /\ i - i = (i + 1) - i - 1
    BY <1>1
  <2> QED BY Zenon, <1>3, <2>1 DEF VarRValue
<1> QED BY <1>4 DEF Yes

\* What an operand before a comma or the end of an operator is.
OneWord(o, l, i) ==
    /\ i \in 1..Len(l) /\ o.words = <<l[i]>>
    /\ \/ o.kind = "rvalue"
       \/ o.kind = "arithmetic" /\ l[i].type = "integer"
       \/ o.kind = "game" /\ l[i].text \in SimpleGF

Closes(l, i) == At(l, i).text \in {";", ","}

LEMMA ClosesAt ==
    ASSUME NEW l \in Seq(Lexems), NEW i \in Nat \ {0}, Fit(l), Closes(l, i + 1)
    PROVE  /\ i \in 1..Len(l) /\ i + 1 \in 1..Len(l) /\ At(l, i + 1) = l[i + 1]
           /\ l[i + 1].type \notin {"integer", "variable"}
           /\ l[i + 1].text \notin {"(", ")"} /\ l[i + 1].text \notin ALOperations
           /\ l[i].text \in ALOperations => l[i + 1].text \notin {";", "then"}
<1>1. At(l, i + 1).text # ""
  BY Zenon DEF Closes
<1>2. i + 1 \in 1..Len(l) /\ At(l, i + 1) = l[i + 1]
  <2>1. i + 1 \in Int
    OBVIOUS
  <2> QED BY Zenon, <1>1, <2>1, NamedIsThere
<1>3. i \in 1..Len(l) /\ i \in 1..(Len(l) - 1)
  BY <1>2
<1>4. l[i + 1].text \in {";", ","}
  BY Zenon, <1>2 DEF Closes
<1>5. /\ {";", ","} \subseteq Reserved
      /\ \A text \in {";", ","} : text \notin {"(", ")"} /\ text \notin ALOperations
      /\ "," \notin {";", "then"}
  BY Zenon DEF Reserved, ALOperations, Binary, Dividing
<1>6. l[i + 1].type \notin {"integer", "variable"}
  BY Zenon, <1>2, <1>4, <1>5 DEF Apart, Fit
<1>7. l[i + 1].text \notin {"(", ")"} /\ l[i + 1].text \notin ALOperations
  BY Zenon, <1>4, <1>5
<1>8. l[i].text \in ALOperations => l[i + 1].text # ";"
  BY Zenon, <1>3 DEF Fit
<1>9. l[i].text \in ALOperations => l[i + 1].text \notin {";", "then"}
  BY Zenon, <1>4, <1>5, <1>8
<1> QED BY Zenon, <1>2, <1>3, <1>6, <1>7, <1>9

\* What is read of an expression of one lexem, before and behind what ends it.
LEMMA OneRead ==
    ASSUME NEW l \in Seq(Lexems), NEW i \in Nat \ {0}, i \in 1..Len(l), i + 1 \in 1..Len(l),
           l[i + 1].type \notin {"integer", "variable"},
           l[i + 1].text \notin {"(", ")"}, l[i + 1].text \notin ALOperations,
           NEW s \in Reads, s = ArithmeticLexem(FirstRead, l, i),
           NEW t, t = ArithmeticLexem(s, l, i + 1), t.is \notin {"no", "undefined"}
    PROVE  t.is = "over" /\ l[i].type = "integer" /\ ClosingParen(t).out = <<l[i]>>
<1>1. CASE l[i].type \in {"integer", "variable"} /\ s.is = "reading" /\ s.ops = <<"(">>
           /\ s.out = <<l[i]>>
  <2>1. Len(s.out) = 1 /\ s.out[1] = l[i]
    BY <1>1
  <2>2. l[i].type = "integer"
    <3>1. CASE l[i].type # "integer"
      <4>1. t = [s EXCEPT !.is = "no"]
        BY <1>1, <2>1, <3>1, Unexpected
      <4>2. t.is = "no"
        BY <4>1 DEF Reads
      <4> QED BY <4>2
    <3> QED BY <3>1
  <2>3. t = [s EXCEPT !.is = "over"]
    <3>1. s.is = "reading" /\ s.ops = <<"(">> /\ Len(s.out) = 1 /\ s.out[1].type = "integer"
      BY <1>1, <2>1, <2>2
    <3> QED BY <3>1, Unexpected
  <2>4. t \in Reads /\ t.is = "over" /\ t.ops = <<"(">> /\ t.out = s.out
    BY <1>1, <2>3 DEF Reads
  <2>5. ClosingParen(t).out = t.out
    BY <2>4, ClosingOne
  <2> QED BY <1>1, <2>2, <2>4, <2>5
<1>2. CASE s.is \in {"reading", "no", "undefined"} /\ s.out = <<>>
  <2>1. CASE s.is = "reading"
    <3>1. t = [s EXCEPT !.is = "no"]
      BY <1>2, <2>1, Unexpected
    <3>2. t.is = "no"
      BY <3>1 DEF Reads
    <3> QED BY <3>2
  <2>2. CASE s.is # "reading"
    <3>1. t = s
      BY ONLY <2>2, t = ArithmeticLexem(s, l, i + 1) DEF ArithmeticLexem
    <3> QED BY <1>2, <2>2, <3>1
  <2> QED BY <2>1, <2>2
<1> QED BY <1>1, <1>2, FirstLexem

LEMMA OneArithmetic ==
    ASSUME NEW l \in Seq(Lexems), NEW i \in Nat \ {0}, Fit(l), Closes(l, i + 1),
           VarRValue(l, i).is # "yes", Arithmetic(l, i).is = "yes"
    PROVE  Arithmetic(l, i).words = <<l[i]>> /\ l[i].type = "integer"
<1> DEFINE end == EndOf(l, i)
           read == ReadTo(l, i, end)
           whole == ClosingParen(read)
           first == ArithmeticLexem(FirstRead, l, i)
<1>1. /\ i \in 1..Len(l) /\ i + 1 \in 1..Len(l)
      /\ l[i + 1].type \notin {"integer", "variable"}
      /\ l[i + 1].text \notin {"(", ")"} /\ l[i + 1].text \notin ALOperations
  BY ONLY l \in Seq(Lexems), i \in Nat \ {0}, Fit(l), Closes(l, i + 1), ClosesAt, Zenon
<1>13. l[i].text \in ALOperations => l[i + 1].text \notin {";", "then"}
  BY ONLY l \in Seq(Lexems), i \in Nat \ {0}, Fit(l), Closes(l, i + 1), ClosesAt, Zenon
<1>2. i <= Len(l) /\ i <= Len(l) + 1 /\ i \in Nat /\ Len(l) \in Nat
  BY ONLY i \in Nat \ {0}, l \in Seq(Lexems), <1>1
<1>3. end \in i..(Len(l) + 1) /\ end \in Nat
  BY ONLY l \in Seq(Lexems), i \in Nat \ {0}, <1>2, EndOfIs, Zenon
<1>4. Arithmetic(l, i) = Postfix(read, end > Len(l))
  <2>1. ~(i > Len(l))
    BY ONLY <1>2
  <2> QED BY Zenon, <2>1 DEF Arithmetic
<1>5. end \in i..Len(l) => l[end].text \in {";", "then"}
  <2>1. NextWord(l, i, {";", "then"}) <= Len(l) =>
           l[NextWord(l, i, {";", "then"})].text \in {";", "then"}
    BY Zenon, NextWordFound
  <2>2. end <= Len(l) => l[end].text \in {";", "then"}
    BY Zenon, <2>1 DEF EndOf
  <2>3. end \in i..Len(l) => end <= Len(l)
    BY ONLY <1>2, <1>3
  <2> QED BY Zenon, <2>2, <2>3
<1>6. PICK h \in [i..end -> Reads] :
        /\ h[i] = FirstRead /\ h[end] = read
        /\ \A k \in i..end : k # i => h[k] = ArithmeticLexem(h[k - 1], l, k - 1)
  BY ONLY l \in Seq(Lexems), i \in Nat \ {0}, <1>3, ReadToSteps, Zenon
<1> HIDE DEF end, read
<1>7. /\ read.is \notin {"no", "undefined"} /\ whole.ops = <<>> /\ whole.out # <<>>
      /\ Arithmetic(l, i).words = whole.out /\ read.ops # <<>>
  BY ONLY <1>4, Arithmetic(l, i).is = "yes" DEF Postfix, No, Crashed, Yes
<1>8. read \in Reads /\ first \in Reads
  <2>1. end \in i..end
    BY ONLY <1>2, <1>3
  <2>2. FirstRead \in Reads
    BY ONLY TRUE DEF FirstRead, Reads
  <2> QED BY ONLY <1>1, <1>6, <2>1, <2>2, l \in Seq(Lexems), ArithmeticLexemIs, Zenon
<1>9. end # i
  <2>1. CASE end = i
    BY ONLY <2>1, <1>6, <1>7, ClosingFirst
  <2> QED BY <2>1
<1>10. i + 1 \in i..end /\ i + 1 # i /\ h[i + 1] = first
  <2>1. i + 1 \in i..end /\ i + 1 # i /\ (i + 1) - 1 = i
    BY ONLY <1>2, <1>3, <1>9
  <2>2. h[i + 1] = ArithmeticLexem(h[i], l, i)
    <3>1. h[i + 1] = ArithmeticLexem(h[(i + 1) - 1], l, (i + 1) - 1)
      BY Zenon, <2>1, <1>6
    <3> QED BY Zenon, <2>1, <3>1
  <2> QED BY ONLY <1>6, <2>1, <2>2, Zenon
<1> HIDE DEF first, whole
<1>11. whole.out = <<l[i]>> /\ l[i].type \in {"integer", "variable"}
  <2>1. CASE end = i + 1
    <3>1. read = first /\ first.is \notin {"no", "undefined"} /\ first.ops # <<>>
          /\ whole = ClosingParen(first)
      BY ONLY <2>1, <1>6, <1>7, <1>10 DEF whole
    <3>2. l[i].text \notin ALOperations
      <4>1. end \in i..Len(l)
        BY ONLY <1>1, <1>2, <2>1
      <4>2. l[i + 1].text \in {";", "then"}
        BY Zenon, <1>5, <2>1, <4>1
      <4> QED BY Zenon, <1>13, <4>2
    <3>3. CASE l[i].type \in {"integer", "variable"} /\ first.ops = <<"(">> /\ first.out = <<l[i]>>
      BY ONLY <3>1, <3>3, <1>8, ClosingOne
    <3>4. CASE l[i].text \in ALOperations \/ first.is = "no" \/ first.ops = <<>>
                    \/ ClosingParen(first).ops # <<>>
      BY ONLY <3>1, <3>2, <3>4, <1>7
    <3>5. \/ l[i].type \in {"integer", "variable"} /\ first.ops = <<"(">> /\ first.out = <<l[i]>>
          \/ l[i].text \in ALOperations \/ first.is = "no" \/ first.ops = <<>>
                    \/ ClosingParen(first).ops # <<>>
      BY ONLY <1>1, l \in Seq(Lexems), FirstLexem, Zenon DEF first
    <3> QED BY <3>3, <3>4, <3>5
  <2>2. CASE end # i + 1
    <3> DEFINE second == ArithmeticLexem(first, l, i + 1)
    <3>1. i + 2 \in i..end /\ i + 2 # i /\ (i + 2) - 1 = i + 1
      BY ONLY <1>2, <1>3, <1>9, <2>2
    <3>2. h[i + 2] = second
      <4>1. h[i + 2] = ArithmeticLexem(h[(i + 2) - 1], l, (i + 2) - 1)
        BY Zenon, <3>1, <1>6
      <4> QED BY Zenon, <3>1, <4>1, <1>10
    <3>3. second.is # "reading"
      <4>1. CASE second.is \in {"no", "undefined"}
        BY <4>1
      <4>2. CASE second.is \notin {"no", "undefined"}
        <5>1. first = ArithmeticLexem(FirstRead, l, i) /\ second = ArithmeticLexem(first, l, i + 1)
          BY DEF first
        <5> HIDE DEF second
        <5>2. second.is = "over"
          BY ONLY <1>1, <1>8, <4>2, <5>1, l \in Seq(Lexems), i \in Nat \ {0}, OneRead
        <5> QED BY <5>2
      <4> QED BY <4>1, <4>2
    <3>4. read = second
      <4>1. end \in i..(Len(l) + 1) /\ h[i + 2].is # "reading"
        BY <1>3, <3>2, <3>3
      <4>2. h[end] = h[i + 2]
        <5>1. PICK k \in i..end : k = i + 2
          BY <3>1
        <5>2. h[k].is # "reading"
          BY <4>1, <5>1
        <5>3. StepByStep(h, l, i, end)
          BY <1>6 DEF StepByStep
        <5>4. h[end] = h[k]
          <6>1. k \in i..end /\ end \in i..(Len(l) + 1)
            BY <4>1
          <6> QED BY ONLY <6>1, <5>2, <5>3, l \in Seq(Lexems), i \in Nat \ {0}, ReadNoMore
        <5> QED BY <5>1, <5>4
      <4> QED BY <4>2, <3>2, <1>6
    <3>5. second.is = "over" /\ l[i].type = "integer" /\ ClosingParen(second).out = <<l[i]>>
      <4>1. second.is \notin {"no", "undefined"}
        BY <3>4, <1>7
      <4>2. first = ArithmeticLexem(FirstRead, l, i) /\ second = ArithmeticLexem(first, l, i + 1)
        BY DEF first
      <4> HIDE DEF second
      <4> QED BY ONLY <1>1, <1>8, <4>1, <4>2, l \in Seq(Lexems), i \in Nat \ {0}, OneRead
    <3> HIDE DEF second
    <3> QED BY ONLY <3>4, <3>5 DEF whole
  <2> QED BY <2>1, <2>2
<1>12. l[i].type # "variable"
  <2>1. CASE l[i].type = "variable"
    <3>1. Apart(l) /\ i + 1 <= Len(l) /\ l[i + 1].text # ")"
      <4>1. Apart(l) /\ l[i + 1].text # ")"
        BY ONLY Fit(l), <1>1, Zenon DEF Fit
      <4>2. i + 1 <= Len(l)
        BY ONLY <1>1
      <4> QED BY <4>1, <4>2
    <3> QED BY ONLY <2>1, <3>1, l \in Seq(Lexems), i \in Nat \ {0}, VarRValue(l, i).is # "yes", OneVariable, Zenon
  <2> QED BY <2>1
<1> QED BY ONLY <1>7, <1>11, <1>12

LEMMA OneLexem ==
    ASSUME NEW l \in Seq(Lexems), NEW i \in Nat \ {0}, Fit(l), Closes(l, i + 1),
           Operand(l, i).is = "yes"
    PROVE  OneWord(Operand(l, i), l, i)
<1>1. i \in 1..Len(l) /\ l[i + 1].text \notin {"(", ")"} /\ At(l, i + 1) = l[i + 1]
  BY Zenon, ClosesAt
<1>2. CASE VarRValue(l, i).is = "yes"
  <2>1. Operand(l, i) = VarRValue(l, i)
    BY ONLY <1>2 DEF Operand, OrElse
  <2>2. Operand(l, i).kind = "rvalue" /\ Operand(l, i).words = <<l[i]>>
    BY ONLY <1>2, <2>1, KindsOf
  <2> QED BY ONLY <1>1, <2>2 DEF OneWord
<1>3. CASE VarRValue(l, i).is # "yes"
  <2>1. Operand(l, i) = Condition(l, i)
    BY ONLY <1>3, Operand(l, i).is = "yes" DEF Operand, OrElse
  <2>2. CASE Arithmetic(l, i).is = "yes"
    <3>1. Operand(l, i) = Arithmetic(l, i)
      BY ONLY <2>1, <2>2 DEF Condition, OrElse
    <3>2. Arithmetic(l, i).words = <<l[i]>> /\ l[i].type = "integer"
      BY Zenon, <1>3, <2>2, OneArithmetic
    <3>3. Operand(l, i).kind = "arithmetic"
      BY ONLY <2>2, <3>1, KindsOf
    <3> QED BY ONLY <1>1, <3>1, <3>2, <3>3 DEF OneWord
  <2>3. CASE Arithmetic(l, i).is # "yes"
    <3>1. Operand(l, i) = GameStatement(l, i) /\ GameStatement(l, i).is = "yes"
      BY ONLY <2>1, <2>3, Operand(l, i).is = "yes" DEF Condition, OrElse
    <3>2. /\ GameStatement(l, i).kind = "game"
          /\ SimpleCall(GameStatement(l, i), l, i) \/ PlayerCall(GameStatement(l, i), l, i)
      BY Zenon, <3>1, Called
    <3>3. ~PlayerCall(GameStatement(l, i), l, i)
      BY Zenon, <1>1 DEF PlayerCall
    <3> QED BY ONLY <1>1, <3>1, <3>2, <3>3 DEF OneWord, SimpleCall
  <2> QED BY Zenon, <2>2, <2>3
<1> QED BY Zenon, <1>2, <1>3

\* Its code is one element that puts a value on the stack.
Raiser(e, kind) ==
    /\ e \in Coded
    /\ \/ kind = "rvalue" /\ e.op = "addr"
       \/ kind = "arithmetic" /\ e.op = "int"
       \/ kind = "game" /\ e.op \in SimpleGF

LEMMA RaiserRaises ==
    ASSUME NEW e, NEW kind, Raiser(e, kind), NEW a \in Nat
    PROVE  e.op \in Pushers /\ Leads(<<e>>, a, a + 1)
<1>1. e.op \in Pushers
  BY DEF Raiser, Pushers
<1> QED BY <1>1, RaisesByOne

LEMMA OneElement ==
    ASSUME NEW l \in Seq(Lexems), NEW i, NEW o, OneWord(o, l, i), NEW names \in Seq(Texts)
    PROVE  \E e : Raiser(e, o.kind) /\ Translated(o, names) = <<e>>
<1>1. l[i] \in Lexems /\ i \in 1..Len(l) /\ o.words = <<l[i]>> /\ Len(o.words) = 1
  BY DEF OneWord
<1>2. CASE o.kind = "rvalue"
  <2>1. Translated(o, names) = <<TransformRVal(l[i], names)>>
    BY <1>1, <1>2 DEF Translated
  <2> QED BY <1>2, <2>1, VariableCoded DEF Raiser
<1>3. CASE o.kind = "arithmetic" /\ l[i].type = "integer"
  <2>1. l[i] \in Words
    BY <1>1, <1>3 DEF Words
  <2>2. WordCode(<<l[i]>>, names) = <<ProcessArithmeticLexem(l[i], names)>>
    BY <2>1, WordCodeOne
  <2>3. Translated(o, names) = WordCode(o.words, names)
    BY <1>3 DEF Translated, WordCode
  <2>4. ProcessArithmeticLexem(l[i], names) \in Coded
        /\ ProcessArithmeticLexem(l[i], names).op = "int"
    BY <1>3, <2>1, WordCoded
  <2> QED BY <1>1, <1>3, <2>2, <2>3, <2>4 DEF Raiser
<1>4. CASE o.kind = "game" /\ l[i].text \in SimpleGF
  <2>1. Translated(o, names) = ProcessGameLexem(o.words)
    BY <1>4 DEF Translated
  <2>2. Translated(o, names) = <<Elem(l[i].text, 0)>>
    BY <1>1, <2>1, GameCode
  <2>3. Elem(l[i].text, 0) \in Coded /\ Elem(l[i].text, 0).op = l[i].text
    BY <1>4, FunctionCoded DEF GameFunctions
  <2> QED BY <1>4, <2>2, <2>3 DEF Raiser
<1> QED BY <1>2, <1>3, <1>4 DEF OneWord

-----------------------------------------------------------------------------
(* Balanced operators: each finds what it takes and leaves nothing.         *)
Balanced(r) == r.is = "ok" => Leads(r.code, 0, 0)

LEMMA OrderEffects ==
    /\ \A op \in {"prod", "build", "goto", "ifthen"} : HeightBehind(1, op) = 0
    /\ \A op \in {"buy", "sell", "assign"} : HeightBehind(2, op) = 0
    /\ HeightBehind(0, "endturn") = 0
    /\ \A h \in Nat : HeightBehind(h, "print") = 0
<1>1. ASSUME NEW op \in {"prod", "build", "goto", "ifthen"}
      PROVE  Pops(op) = 1 /\ Pushes(op) = 0 /\ op # "print"
  BY DEF Pops, Pushes, SimpleGF, PlayerGF, GameFunctions, Unary, Binary, Dividing
<1>2. ASSUME NEW op \in {"buy", "sell", "assign"}
      PROVE  Pops(op) = 2 /\ Pushes(op) = 0 /\ op # "print"
  BY DEF Pops, Pushes, SimpleGF, PlayerGF, GameFunctions, Unary, Binary, Dividing
<1>3. Pops("endturn") = 0 /\ Pushes("endturn") = 0 /\ "endturn" # "print"
  BY DEF Pops, Pushes, SimpleGF, PlayerGF, GameFunctions, Unary, Binary, Dividing
<1>4. Pops("print") = 0 /\ "print" \notin {"ifthen", "goto", "assign"} \cup (GameOperators \ {"print"})
  BY DEF Pops, SimpleGF, PlayerGF, GameFunctions, Unary, Binary, Dividing, GameOperators
<1>5. \A op \in {"prod", "build", "goto", "ifthen"} : HeightBehind(1, op) = 0
  BY <1>1 DEF HeightBehind
<1>6. \A op \in {"buy", "sell", "assign"} : HeightBehind(2, op) = 0
  BY <1>2 DEF HeightBehind
<1>7. HeightBehind(0, "endturn") = 0
  BY <1>3 DEF HeightBehind
<1>8. \A h \in Nat : HeightBehind(h, "print") = 0
  BY <1>4 DEF HeightBehind
<1> QED BY <1>5, <1>6, <1>7, <1>8

\* A value and what takes it.
LEMMA TakenAtOnce ==
    ASSUME NEW c \in Seq(Coded), NEW a \in Nat, Leads(c, 0, a),
           NEW op \in Ops, HeightBehind(a, op) = 0
    PROVE  Leads(c \o <<Elem(op, 0)>>, 0, 0)
<1> DEFINE e == Elem(op, 0)
<1>1. e \in Coded /\ e.op = op
  BY ElemIs
<1> HIDE DEF e
<1>2. Leads(<<e>>, a, 0)
  BY <1>1, LeadsByOne
<1>3. <<e>> \in Seq(Coded)
  BY <1>1
<1>4. Leads(c \o <<e>>, 0, 0)
  BY <1>2, <1>3, LeadsOn
<1> QED BY <1>4 DEF e

LEMMA TranslatedCoded ==
    ASSUME NEW names \in Seq(Texts), NEW o \in Operands, o.is = "yes", Declared(o, names)
    PROVE  Translated(o, names) \in Seq(Coded)
<1>1. Translated(o, names) \in Seq(Pieces(Len(names)))
  BY TranslatedIs
<1>2. Pieces(Len(names)) \subseteq Coded
  BY DEF Pieces
<1> QED BY <1>1, <1>2, WiderSeq

LEMMA AssignBalanced ==
    ASSUME NEW l \in Seq(Lexems), Apart(l), ~IllFormed(l), NEW i \in Nat \ {0},
           NEW names \in Seq(Texts)
    PROVE  Balanced(AssignOperator(l, i, names))
<1> SUFFICES ASSUME AssignOperator(l, i, names).is = "ok"
             PROVE  Leads(AssignOperator(l, i, names).code, 0, 0)
  BY DEF Balanced
<1> DEFINE value == Operand(l, i + 2)
           known == IF l[i].text \in ToSet(names) THEN names ELSE Append(names, l[i].text)
           variable == AddrElem(AddressOf(known, l[i].text))
           code == Translated(value, known) \o <<variable, Elem("assign", 0)>>
<1>1. isCorrectVarLValueStatement(At(l, i)) /\ At(l, i + 1).type = "assign"
  BY DEF AssignOperator, Refused
<1>2. AssignOperator(l, i, names) = AssignedValue(value, l, i, names)
  BY <1>1 DEF AssignOperator
<1>3. l[i].text \in Texts
  <2>1. i \in DOMAIN l
    BY <1>1 DEF isCorrectVarLValueStatement, At
  <2>2. l[i] \in Lexems
    BY <2>1
  <2> QED BY <2>2 DEF Lexems
<1>4. known \in Seq(Texts)
  <2> HIDE DEF known
  <2> QED BY <1>3, DeclaredNames DEF known
<1>5. i + 2 \in Nat \ {0} /\ i + 2 >= 2 /\ i + 2 \in Nat /\ (i + 2) - 1 = i + 1
  OBVIOUS
<1>6. value \in Operands
  BY <1>5, OperandIs
<1>7. /\ value.is \notin {"no", "undefined"} /\ Declared(value, known)
      /\ AssignOperator(l, i, names).code = code
  <2> DEFINE end == NextWord(l, i + 3, {";"})
  <2>1. AssignedValue(value, l, i, names) =
           IF value.is = "undefined" THEN Undefined(names)
           ELSE IF value.is = "no" \/ end > Len(l) THEN Refused(names)
           ELSE IF ~Declared(value, known) THEN Refused(known)
           ELSE Compiled(code, end + 1, known)
    <3> HIDE DEF value
    <3> QED BY DEF AssignedValue
  <2> HIDE DEF value, known, end, code
  <2> QED BY ONLY <1>2, <2>1, AssignOperator(l, i, names).is = "ok"
          DEF Compiled, Refused, Undefined
<1>8. ~OperandEnds(l, i + 1)
  <2>1. i + 1 \in 1..Len(l) /\ l[i + 1].type = "assign"
    <3>1. At(l, i + 1).type # "none"
      BY <1>1
    <3>2. i + 1 \in DOMAIN l
      BY ONLY <3>1 DEF At
    <3>3. At(l, i + 1) = l[i + 1]
      BY Zenon, <3>2 DEF At
    <3> QED BY ONLY <1>1, <3>2, <3>3, l \in Seq(Lexems)
  <2>2. l[i + 1].text \notin Reserved
    BY Zenon, <2>1 DEF Apart
  <2>3. ")" \in Reserved
    BY Zenon DEF Reserved
  <2>4. l[i + 1].text # ")"
    BY Zenon, <2>2, <2>3
  <2> QED BY <2>1, <2>4 DEF OperandEnds
<1>9. value.is = "yes"
  BY <1>6, <1>7, OperandsCases
<1>10. Leads(Translated(value, known), 0, 1)
  <2> HIDE DEF known
  <2> QED BY <1>4, <1>5, <1>8, <1>9, OperandLeads
<1>11. Translated(value, known) \in Seq(Coded)
  <2> HIDE DEF known, value
  <2> QED BY <1>4, <1>6, <1>7, <1>9, TranslatedCoded
<1>12. variable \in Coded /\ variable.op = "addr"
  <2>1. variable = TransformRVal(l[i], known)
    BY DEF TransformRVal
  <2> HIDE DEF variable, known
  <2> QED BY <1>4, <2>1, VariableCoded
<1> HIDE DEF value, known, variable
<1>13. Leads(<<variable>>, 1, 2) /\ <<variable>> \in Seq(Coded)
  <2>1. variable.op \in Pushers
    BY <1>12 DEF Pushers
  <2>2. Leads(<<variable>>, 1, 1 + 1)
    BY <2>1, RaisesByOne
  <2> QED BY <1>12, <2>2
<1> DEFINE c == Translated(value, known)
           e == Elem("assign", 0)
<1>14. Leads(c \o <<variable>>, 0, 2)
  BY <1>10, <1>11, <1>13, LeadsOn
<1>15. c \o <<variable>> \in Seq(Coded)
  BY <1>11, <1>13
<1>16. Leads((c \o <<variable>>) \o <<e>>, 0, 0)
  <2> HIDE DEF c
  <2>1. "assign" \in Ops /\ HeightBehind(2, "assign") = 0 /\ 2 \in Nat
    BY OrderEffects DEF Ops
  <2> QED BY Zenon, <1>14, <1>15, <2>1, TakenAtOnce
<1>17. e \in Coded
  BY ElemIs DEF Ops
<1> HIDE DEF c, e
<1>18. (c \o <<variable>>) \o <<e>> = c \o <<variable, e>>
  <2>1. c \in Seq(Coded)
    BY <1>11 DEF c
  <2>2. (c \o <<variable>>) \o <<e>> = c \o (<<variable>> \o <<e>>)
    BY ONLY <1>12, <1>17, <2>1
  <2> QED BY ONLY <2>2, OneAndOne, Zenon
<1> QED BY <1>7, <1>16, <1>18 DEF c, e

LEMMA GoBalanced ==
    ASSUME NEW l, NEW i, NEW names, NEW labels \in Seq([name : Texts, oper : Nat \ {0}])
    PROVE  Balanced(GoOperator(l, i, names, labels))
<1> SUFFICES ASSUME GoOperator(l, i, names, labels).is = "ok"
             PROVE  Leads(GoOperator(l, i, names, labels).code, 0, 0)
  BY DEF Balanced
<1> DEFINE known == {k \in 1..Len(labels) : labels[k].name = At(l, i + 1).text}
           label == LabelElem(labels[Min(known)].oper)
<1>1. known # {} /\ GoOperator(l, i, names, labels).code = <<label, Elem("goto", 0)>>
  BY Zenon DEF GoOperator, Compiled, Refused
<1>2. Min(known) \in 1..Len(labels)
  <2>1. known \in SUBSET Nat
    OBVIOUS
  <2>2. Min(known) \in known
    <3> HIDE DEF known
    <3> QED BY <1>1, <2>1, LeastIs
  <2> QED BY <2>2
<1>3. labels[Min(known)].oper \in Int
  <2> HIDE DEF known
  <2>1. labels[Min(known)] \in [name : Texts, oper : Nat \ {0}]
    BY <1>2, PlacesOf
  <2> QED BY <2>1
<1> HIDE DEF known
<1>4. label \in Coded /\ label.op = "label"
  <2>1. "label" \in Ops
    BY DEF Ops
  <2> QED BY <1>3, <2>1, ElemIs DEF LabelElem
<1> HIDE DEF label
<1>5. Leads(<<label>>, 0, 1) /\ <<label>> \in Seq(Coded)
  <2>1. HeightBehind(0, label.op) = 1
    <3>1. HeightBehind(0, label.op) = 0 + 1
      BY <1>4, Effects
    <3> QED BY <3>1
  <2> QED BY <1>4, <2>1, LeadsByOne
<1>6. Leads(<<label>> \o <<Elem("goto", 0)>>, 0, 0)
  <2>1. "goto" \in Ops /\ HeightBehind(1, "goto") = 0 /\ 1 \in Nat
    BY OrderEffects DEF Ops
  <2> QED BY Zenon, <1>5, <2>1, TakenAtOnce
<1>7. <<label>> \o <<Elem("goto", 0)>> = <<label, Elem("goto", 0)>>
  BY OneAndOne, Zenon
<1> QED BY <1>1, <1>6, <1>7

LEMMA EndturnBalanced ==
    ASSUME NEW l, NEW i, NEW names
    PROVE  Balanced(EndturnOperator(l, i, names))
<1>1. EndturnOperator(l, i, names).is = "ok" =>
         EndturnOperator(l, i, names).code = <<Elem("endturn", 0)>>
  BY Zenon DEF EndturnOperator, Compiled, Refused
<1>2. Leads(<<Elem("endturn", 0)>>, 0, 0)
  <2>1. Elem("endturn", 0).op = "endturn"
    BY DEF Elem
  <2> HIDE DEF Elem
  <2> QED BY <2>1, OrderEffects, LeadsByOne
<1> QED BY <1>1, <1>2 DEF Balanced

LEMMA AmountBalanced ==
    ASSUME NEW l \in Seq(Lexems), Fit(l), NEW i \in Nat \ {0}, NEW names \in Seq(Texts),
           l[i].text \in {"prod", "build"}
    PROVE  Balanced(Amount(Operand(l, i + 1), l, i, names))
<1> SUFFICES ASSUME Amount(Operand(l, i + 1), l, i, names).is = "ok"
             PROVE  Leads(Amount(Operand(l, i + 1), l, i, names).code, 0, 0)
  BY DEF Balanced
<1> DEFINE amount == Operand(l, i + 1)
           op == l[i].text
           code == Append(Translated(amount, names), Elem(op, 0))
<1>1. i + 1 \in Nat \ {0} /\ (i + 1) + 1 = i + 2
  OBVIOUS
<1>2. amount \in Operands
  BY <1>1, OperandIs
<1>3. /\ amount.is \notin {"no", "undefined"} /\ At(l, i + 2).text = ";"
      /\ Amount(amount, l, i, names).code = code
  <2> DEFINE refused == amount.is = "no" \/ At(l, i + 2).text # ";" \/ ~Declared(amount, names)
  <2> HIDE DEF amount, code
  <2>1. Amount(amount, l, i, names) =
           IF amount.is = "undefined" THEN Undefined(names)
           ELSE IF refused THEN Refused(names)
           ELSE Compiled(code, i + 3, names)
    BY Zenon DEF Amount, code
  <2> HIDE DEF refused
  <2>2. /\ amount.is # "undefined" /\ ~refused /\ Amount(amount, l, i, names).code = code
    BY ONLY <2>1, Amount(amount, l, i, names).is = "ok" DEF Compiled, Refused, Undefined, amount
  <2> QED BY Zenon, <2>2 DEF refused
<1>4. amount.is = "yes"
  <2>1. amount.is \notin {"no", "undefined"}
    BY Zenon, <1>3
  <2> HIDE DEF amount
  <2> QED BY ONLY <1>2, <2>1, OperandsCases
<1>5. Closes(l, (i + 1) + 1)
  BY Zenon, <1>1, <1>3 DEF Closes
<1>6. OneWord(amount, l, i + 1)
  BY ONLY l \in Seq(Lexems), <1>1, <1>4, <1>5, Fit(l), OneLexem, Zenon
<1> HIDE DEF amount
<1>7. PICK e : Raiser(e, amount.kind) /\ Translated(amount, names) = <<e>>
  BY <1>6, OneElement
<1>8. e \in Coded /\ Leads(<<e>>, 0, 1)
  <2>1. Leads(<<e>>, 0, 0 + 1)
    BY <1>7, RaiserRaises
  <2>2. e \in Coded
    BY <1>7 DEF Raiser
  <2> QED BY <2>1, <2>2
<1>9. <<e>> \in Seq(Coded)
  BY <1>8
<1>10. Leads(<<e>> \o <<Elem(op, 0)>>, 0, 0)
  <2>1. op \in Ops /\ HeightBehind(1, op) = 0 /\ 1 \in Nat
    BY OrderEffects DEF Ops
  <2> HIDE DEF op
  <2> QED BY Zenon, <1>8, <1>9, <2>1, TakenAtOnce
<1> HIDE DEF op
<1>11. code = <<e>> \o <<Elem(op, 0)>>
  <2>1. code = Append(<<e>>, Elem(op, 0))
    BY <1>7
  <2> QED BY <2>1, AppendOne, OneAndOne, Zenon
<1> HIDE DEF code
<1> QED BY Zenon, <1>3, <1>10, <1>11 DEF amount

-----------------------------------------------------------------------------
(* buy and sell: short lists turned round.                                  *)
Flattens(h, ss, n) == h = [k \in 1..n |-> IF k = 1 THEN ss[k] ELSE h[k - 1] \o ss[k]]
FlatAt(f, ss, n) == \A k \in 1..n : f[k] = IF k = 1 THEN ss[k] ELSE f[k - 1] \o ss[k]

LEMMA FlatSteps ==
    ASSUME NEW n \in Nat \ {0}, NEW ss, Len(ss) = n, NEW h, Flattens(h, ss, n)
    PROVE  \E f : FlattenSeq(ss) = f[n] /\ FlatAt(f, ss, n)
<1> DEFINE Form(g) == g = [k \in 1..n |-> IF k = 1 THEN ss[k] ELSE g[k - 1] \o ss[k]]
           flatten == CHOOSE g : Form(g)
<1>1. FlattenSeq(ss) = flatten[n]
  BY DEF FlattenSeq
<1>2. Form(flatten)
  <2>1. Form(h)
    BY DEF Flattens
  <2> HIDE DEF Form
  <2> QED BY <2>1
<1> HIDE DEF flatten
<1>3. \A k \in 1..n : flatten[k] = IF k = 1 THEN ss[k] ELSE flatten[k - 1] \o ss[k]
  BY <1>2
<1> QED BY <1>1, <1>3 DEF FlatAt

LEMMA FlatShort ==
    ASSUME NEW a, NEW b
    PROVE  FlattenSeq(<<a>>) = a /\ FlattenSeq(<<a, b>>) = a \o b
<1>1. FlattenSeq(<<a>>) = a
  <2> DEFINE ss == <<a>>
             h == [k \in 1..1 |-> a]
  <2>1. Len(ss) = 1 /\ ss[1] = a
    OBVIOUS
  <2>2. Flattens(h, ss, 1)
    <3>1. \A k \in 1..1 : k = 1
      OBVIOUS
    <3> QED BY <2>1, <3>1 DEF Flattens
  <2> HIDE DEF ss, h
  <2>3. PICK f : FlattenSeq(ss) = f[1] /\ FlatAt(f, ss, 1)
    <3>1. 1 \in Nat \ {0}
      OBVIOUS
    <3> QED BY Zenon, <2>1, <2>2, <3>1, FlatSteps
  <2>4. f[1] = a
    BY <2>1, <2>3 DEF FlatAt
  <2> QED BY <2>3, <2>4 DEF ss
<1>2. FlattenSeq(<<a, b>>) = a \o b
  <2> DEFINE ss == <<a, b>>
             h == [k \in 1..2 |-> IF k = 1 THEN a ELSE a \o b]
  <2>1. Len(ss) = 2 /\ ss[1] = a /\ ss[2] = b
    OBVIOUS
  <2>2. Flattens(h, ss, 2)
    <3>1. \A k \in 1..2 : k = 1 \/ k = 2
      OBVIOUS
    <3>2. h[1] = a /\ h[2] = a \o b
      OBVIOUS
    <3>3. h[2 - 1] = a
      BY <3>2
    <3> QED BY <2>1, <3>1, <3>3 DEF Flattens
  <2> HIDE DEF ss, h
  <2>3. PICK f : FlattenSeq(ss) = f[2] /\ FlatAt(f, ss, 2)
    <3>1. 2 \in Nat \ {0}
      OBVIOUS
    <3> QED BY Zenon, <2>1, <2>2, <3>1, FlatSteps
  <2>4. f[1] = a /\ f[2] = f[1] \o b
    BY <2>1, <2>3 DEF FlatAt
  <2> QED BY <2>3, <2>4 DEF ss
<1> QED BY <1>1, <1>2

ThreeFlat(a, b, c) == FlattenSeq(<<a, b, c>>) = (a \o b) \o c

LEMMA FlatThree ==
    ASSUME NEW a, NEW b, NEW c
    PROVE  ThreeFlat(a, b, c)
<1> DEFINE ss == <<a, b, c>>
           h == [k \in 1..3 |-> IF k = 1 THEN a ELSE IF k = 2 THEN a \o b ELSE (a \o b) \o c]
<1>1. Len(ss) = 3 /\ ss[1] = a /\ ss[2] = b /\ ss[3] = c
  OBVIOUS
<1>2. Flattens(h, ss, 3)
  <2>1. \A k \in 1..3 : k = 1 \/ k = 2 \/ k = 3
    OBVIOUS
  <2>2. h[1] = a /\ h[2] = a \o b
    OBVIOUS
  <2>3. h[2 - 1] = a /\ h[3 - 1] = a \o b
    BY <2>2
  <2> QED BY <1>1, <2>1, <2>3 DEF Flattens
<1> HIDE DEF ss, h
<1>3. PICK f : FlattenSeq(ss) = f[3] /\ FlatAt(f, ss, 3)
  <2>1. 3 \in Nat \ {0}
    OBVIOUS
  <2> QED BY Zenon, <1>1, <1>2, <2>1, FlatSteps
<1>4. f[1] = a /\ f[2] = f[1] \o b /\ f[3] = f[2] \o c
  BY <1>1, <1>3 DEF FlatAt
<1> QED BY <1>3, <1>4 DEF ss, ThreeFlat

LEMMA TwoAndOne ==
    ASSUME NEW a, NEW b, NEW c
    PROVE  <<a, b>> \o <<c>> = <<a, b, c>> /\ <<a>> \o <<b, c>> = <<a, b, c>>
<1> DEFINE S == {a, b, c}
<1>1. <<a, b>> \in Seq(S) /\ <<c>> \in Seq(S) /\ <<a>> \in Seq(S) /\ <<b, c>> \in Seq(S)
      /\ <<a, b, c>> \in Seq(S)
  OBVIOUS
<1>2. <<a, b>> \o <<c>> = <<a, b, c>>
  <2> DEFINE d == <<a, b>> \o <<c>>
  <2>1. Len(<<a, b>>) = 2 /\ Len(<<c>>) = 1
    OBVIOUS
  <2>2. /\ d \in Seq(S) /\ Len(d) = 3
        /\ \A k \in 1..2 : d[k] = <<a, b>>[k]
        /\ \A k \in 3..3 : d[k] = <<c>>[k - 2]
    <3> HIDE DEF S
    <3> QED BY <1>1, <2>1, JoinedIs
  <2>3. d[1] = a /\ d[2] = b /\ d[3] = c
    <3> HIDE DEF d
    <3> QED BY <2>2
  <2> HIDE DEF d, S
  <2>4. d = <<a, b, c>>
    BY <1>1, <2>2, <2>3, SeqEqual
  <2> QED BY <2>4 DEF d
<1>3. <<a>> \o <<b, c>> = <<a, b, c>>
  <2> DEFINE d == <<a>> \o <<b, c>>
  <2>1. Len(<<b, c>>) = 2 /\ Len(<<a>>) = 1
    OBVIOUS
  <2>2. /\ d \in Seq(S) /\ Len(d) = 3
        /\ \A k \in 1..1 : d[k] = <<a>>[k]
        /\ \A k \in 2..3 : d[k] = <<b, c>>[k - 1]
    <3> HIDE DEF S
    <3> QED BY <1>1, <2>1, JoinedIs
  <2>3. d[1] = a /\ d[2] = b /\ d[3] = c
    <3> HIDE DEF d
    <3> QED BY <2>2
  <2> HIDE DEF d, S
  <2>4. d = <<a, b, c>>
    BY <1>1, <2>2, <2>3, SeqEqual
  <2> QED BY <2>4 DEF d
<1> QED BY <1>2, <1>3

LEMMA TurnedShort ==
    ASSUME NEW a, NEW b, NEW c
    PROVE  /\ Reverse(<<a>>) = <<a>> /\ Reverse(<<a, b>>) = <<b, a>>
           /\ Reverse(<<a, b, c>>) = <<c, b, a>>
<1>1. Reverse(<<a>>) = <<a>>
  BY DEF Reverse
<1>2. Reverse(<<a, b>>) = <<b, a>>
  BY DEF Reverse
<1>3. Reverse(<<a, b, c>>) = <<c, b, a>>
  BY DEF Reverse
<1> QED BY <1>1, <1>2, <1>3

LEMMA BackwardsShort ==
    ASSUME NEW y, y.op \in SimpleGF
    PROVE  /\ Backwards(<<y>>) = <<y>>
           /\ \A x : x.op \in SimpleGF \cup {"int"} => Backwards(<<x, y>>) = <<y>> \o <<x>>
           /\ \A u, w : u.op \in SimpleGF /\ w.op \in PlayerGF =>
                 Backwards(<<u, w, y>>) = (<<y>> \o <<>>) \o <<u, w>>
<1> DEFINE Emitted(code, k) ==
               IF code[k].op = "int" THEN <<code[k]>>
               ELSE IF ~isSimpleGF(code[k]) THEN <<>>
               ELSE IF k = Len(code) \/ isSimpleGF(code[k + 1]) THEN <<code[k]>>
               ELSE <<code[k], code[k + 1]>>
           Parts(code) == [k \in 1..Len(code) |-> Emitted(code, Len(code) + 1 - k)]
<1>1. \A code : Backwards(code) = FlattenSeq(Parts(code))
  BY DEF Backwards
<1>2. /\ \A e : e.op \in SimpleGF => isSimpleGF(e) /\ e.op # "int"
      /\ \A e : e.op \in PlayerGF => ~isSimpleGF(e) /\ e.op # "int"
  BY DEF isSimpleGF, SimpleGF, PlayerGF
<1>3. Backwards(<<y>>) = <<y>>
  <2> DEFINE code == <<y>>
  <2>1. Len(code) = 1 /\ code[1] = y
    OBVIOUS
  <2> HIDE DEF code
  <2>2. Emitted(code, 1) = <<y>>
    BY <1>2, <2>1
  <2> HIDE DEF Emitted
  <2>3. Parts(code) = <<Emitted(code, 1)>>
    <3>1. \A k \in 1..1 : 1 + 1 - k = 1
      OBVIOUS
    <3>2. Parts(code) = [k \in 1..1 |-> Emitted(code, 1)]
      BY <2>1, <3>1
    <3> QED BY <3>2
  <2> HIDE DEF Parts
  <2> QED BY Zenon, <1>1, <2>2, <2>3, FlatShort DEF code
<1>4. ASSUME NEW x, x.op \in SimpleGF \cup {"int"}
      PROVE  Backwards(<<x, y>>) = <<y>> \o <<x>>
  <2> DEFINE code == <<x, y>>
  <2>1. Len(code) = 2 /\ code[1] = x /\ code[2] = y
    OBVIOUS
  <2> HIDE DEF code
  <2>2. Emitted(code, 2) = <<y>>
    BY <1>2, <2>1
  <2>3. Emitted(code, 1) = <<x>>
    <3>1. isSimpleGF(code[1 + 1])
      BY <1>2, <2>1
    <3>2. CASE x.op = "int"
      BY <2>1, <3>2
    <3>3. CASE x.op \in SimpleGF
      BY <1>2, <2>1, <3>1, <3>3
    <3> QED BY <1>4, <3>2, <3>3
  <2> HIDE DEF Emitted
  <2>4. Parts(code) = <<Emitted(code, 2), Emitted(code, 1)>>
    <3>1. 2 + 1 - 1 = 2 /\ 2 + 1 - 2 = 1
      OBVIOUS
    <3>2. Len(Parts(code)) = 2 /\ Parts(code)[1] = Emitted(code, 2) /\ Parts(code)[2] = Emitted(code, 1)
      BY <2>1
    <3>3. Parts(code) = [k \in 1..2 |-> Parts(code)[k]]
      BY <2>1
    <3> HIDE DEF Parts
    <3> QED BY <3>2, <3>3
  <2> HIDE DEF Parts
  <2>5. FlattenSeq(<<Emitted(code, 2), Emitted(code, 1)>>) = Emitted(code, 2) \o Emitted(code, 1)
    BY Zenon, FlatShort
  <2>6. Backwards(code) = <<y>> \o <<x>>
    BY ONLY <1>1, <2>2, <2>3, <2>4, <2>5
  <2> QED BY Zenon, <2>6 DEF code
<1>5. ASSUME NEW u, NEW w, u.op \in SimpleGF, w.op \in PlayerGF
      PROVE  Backwards(<<u, w, y>>) = (<<y>> \o <<>>) \o <<u, w>>
  <2> DEFINE code == <<u, w, y>>
  <2>1. Len(code) = 3 /\ code[1] = u /\ code[2] = w /\ code[3] = y
    OBVIOUS
  <2> HIDE DEF code
  <2>2. Emitted(code, 3) = <<y>>
    BY <1>2, <2>1
  <2>3. Emitted(code, 2) = <<>>
    BY <1>2, <1>5, <2>1
  <2>5. Emitted(code, 1) = <<u, w>>
    <3>1. ~isSimpleGF(code[1 + 1]) /\ 1 # Len(code) /\ code[1 + 1] = w
      BY <1>2, <1>5, <2>1
    <3>2. isSimpleGF(code[1]) /\ code[1].op # "int"
      BY <1>2, <1>5, <2>1
    <3> QED BY <2>1, <3>1, <3>2
  <2> HIDE DEF Emitted
  <2>4. Parts(code) = <<Emitted(code, 3), Emitted(code, 2), Emitted(code, 1)>>
    <3>1. 3 + 1 - 1 = 3 /\ 3 + 1 - 2 = 2 /\ 3 + 1 - 3 = 1
      OBVIOUS
    <3>2. /\ Len(Parts(code)) = 3 /\ Parts(code)[1] = Emitted(code, 3)
          /\ Parts(code)[2] = Emitted(code, 2) /\ Parts(code)[3] = Emitted(code, 1)
      BY <2>1
    <3>3. Parts(code) = [k \in 1..3 |-> Parts(code)[k]]
      BY <2>1
    <3> HIDE DEF Parts
    <3> QED BY <3>2, <3>3
  <2> HIDE DEF Parts
  <2>6. FlattenSeq(<<Emitted(code, 3), Emitted(code, 2), Emitted(code, 1)>>)
           = (Emitted(code, 3) \o Emitted(code, 2)) \o Emitted(code, 1)
    <3> DEFINE p == Emitted(code, 3)
               q == Emitted(code, 2)
               s == Emitted(code, 1)
    <3> HIDE DEF p, q, s
    <3>1. ThreeFlat(p, q, s)
      BY FlatThree
    <3> QED BY Zenon, <3>1 DEF p, q, s, ThreeFlat
  <2>7. Backwards(code) = (<<y>> \o <<>>) \o <<u, w>>
    BY ONLY <1>1, <2>2, <2>3, <2>4, <2>5, <2>6
  <2> QED BY Zenon, <2>7 DEF code
<1> QED BY Zenon, <1>3, <1>4, <1>5

\* Two values on the stack, one of them perhaps asked of a player.
Value(e) == e \in Coded /\ e.op \in Pushers
OfPlayer(w) == w \in Coded /\ w.op \in PlayerGF

LEMMA TwoValues ==
    ASSUME NEW x, Value(x), NEW y, Value(y)
    PROVE  /\ Leads(<<x, y>>, 0, 2) /\ <<x, y>> \in Seq(Coded)
           /\ \A w : OfPlayer(w) => /\ Leads(<<y, w, x>>, 0, 2) /\ <<y, w, x>> \in Seq(Coded)
                                    /\ Leads(<<y, x, w>>, 0, 2) /\ <<y, x, w>> \in Seq(Coded)
<1>1. /\ x \in Coded /\ y \in Coded
      /\ Leads(<<x>>, 0, 1) /\ Leads(<<y>>, 0, 1) /\ Leads(<<x>>, 1, 2) /\ Leads(<<y>>, 1, 2)
  <2>1. /\ Leads(<<x>>, 0, 0 + 1) /\ Leads(<<y>>, 0, 0 + 1)
        /\ Leads(<<x>>, 1, 1 + 1) /\ Leads(<<y>>, 1, 1 + 1)
    BY RaisesByOne DEF Value
  <2>2. x \in Coded /\ y \in Coded
    BY DEF Value
  <2> QED BY <2>1, <2>2
<1>2. <<x>> \in Seq(Coded) /\ <<y>> \in Seq(Coded)
  BY <1>1
<1>3. Leads(<<x>> \o <<y>>, 0, 2)
  BY <1>1, <1>2, LeadsOn
<1>4. Leads(<<x, y>>, 0, 2) /\ <<x, y>> \in Seq(Coded)
  <2>1. <<x>> \o <<y>> = <<x, y>>
    BY OneAndOne
  <2>2. <<x, y>> \in Seq(Coded)
    BY <1>1
  <2> QED BY <1>3, <2>1, <2>2
<1>5. ASSUME NEW w, OfPlayer(w)
      PROVE  /\ Leads(<<y, w, x>>, 0, 2) /\ <<y, w, x>> \in Seq(Coded)
             /\ Leads(<<y, x, w>>, 0, 2) /\ <<y, x, w>> \in Seq(Coded)
  <2>1. /\ w \in Coded /\ HeightBehind(1, w.op) = 1 /\ HeightBehind(2, w.op) = 2
    BY <1>5, Effects DEF OfPlayer
  <2>2. Leads(<<w>>, 1, 1) /\ Leads(<<w>>, 2, 2) /\ <<w>> \in Seq(Coded)
    BY <2>1, LeadsByOne
  <2>3. Leads(<<y>> \o <<w>>, 0, 1) /\ <<y>> \o <<w>> \in Seq(Coded)
    <3>1. Leads(<<y>> \o <<w>>, 0, 1)
      BY <1>1, <1>2, <2>2, LeadsOn
    <3>2. <<y>> \o <<w>> \in Seq(Coded)
      BY ONLY <1>2, <2>2
    <3> QED BY <3>1, <3>2
  <2>4. Leads((<<y>> \o <<w>>) \o <<x>>, 0, 2)
    BY <1>1, <1>2, <2>3, LeadsOn
  <2>5. Leads(<<y>> \o <<x>>, 0, 2) /\ <<y>> \o <<x>> \in Seq(Coded)
    <3>1. Leads(<<y>> \o <<x>>, 0, 2)
      BY <1>1, <1>2, LeadsOn
    <3>2. <<y>> \o <<x>> \in Seq(Coded)
      BY ONLY <1>2
    <3> QED BY <3>1, <3>2
  <2>6. Leads((<<y>> \o <<x>>) \o <<w>>, 0, 2)
    BY <2>2, <2>5, LeadsOn
  <2>7. (<<y>> \o <<w>>) \o <<x>> = <<y, w, x>> /\ (<<y>> \o <<x>>) \o <<w>> = <<y, x, w>>
    <3>1. <<y>> \o <<w>> = <<y, w>> /\ <<y>> \o <<x>> = <<y, x>>
      BY OneAndOne
    <3>2. <<y, w>> \o <<x>> = <<y, w, x>> /\ <<y, x>> \o <<w>> = <<y, x, w>>
      BY TwoAndOne
    <3> QED BY Zenon, <3>1, <3>2
  <2>8. <<y, w, x>> \in Seq(Coded) /\ <<y, x, w>> \in Seq(Coded)
    BY <1>1, <2>1
  <2> QED BY <2>4, <2>6, <2>7, <2>8
<1> QED BY <1>4, <1>5

LEMMA EmptyBefore ==
    ASSUME NEW d, NEW e, NEW f
    PROVE  /\ <<>> \o <<d>> = <<d>> /\ <<>> \o <<d, e>> = <<d, e>>
           /\ <<>> \o <<d, e, f>> = <<d, e, f>>
<1> DEFINE S == {d, e, f}
<1>1. <<d>> \in Seq(S) /\ <<d, e>> \in Seq(S) /\ <<d, e, f>> \in Seq(S)
  OBVIOUS
<1> HIDE DEF S
<1>2. \A s \in Seq(S) : <<>> \o s = s
  OBVIOUS
<1> QED BY <1>1, <1>2

LEMMA EmptyBehind == ASSUME NEW d PROVE <<d>> \o <<>> = <<d>>
<1> DEFINE S == {d}
<1>1. <<d>> \in Seq(S)
  OBVIOUS
<1> HIDE DEF S
<1>2. \A s \in Seq(S) : s \o <<>> = s
  OBVIOUS
<1> QED BY <1>1, <1>2

\* The first operand of an order: one lexem, or what is asked of a player.
GivenFirst(first, kind) ==
    \/ \E x : Raiser(x, kind) /\ first = <<x>>
    \/ kind = "game" /\ \E u, w : Value(u) /\ u.op \in SimpleGF /\ OfPlayer(w) /\ first = <<u, w>>

\* Whatever is put out first, an order finds two values.
LEMMA OrderLeads ==
    ASSUME NEW l, NEW i, NEW names, NEW amount, NEW price,
           GivenFirst(Translated(amount, names), amount.kind),
           NEW y, Raiser(y, price.kind), Translated(price, names) = <<y>>,
           ~(amount.kind = "rvalue" /\ price.kind = "rvalue"), l[i].text \in {"buy", "sell"}
    PROVE  Leads(TradeCode(l, i, names, amount, price), 0, 0)
<1> DEFINE first == Translated(amount, names)
           code == Translated(price, names)
           front == IF amount.kind = "rvalue" THEN first ELSE <<>>
           buf == IF amount.kind = "rvalue" THEN <<>> ELSE first
           rest == CASE price.kind = "rvalue"     -> VariableFirst(code, buf)
                     [] price.kind = "arithmetic" -> TurnedRound(buf, code)
                     [] price.kind = "game"       -> Backwards(buf \o code)
           c == front \o rest
           Good(d) == d \in Seq(Coded) /\ Leads(d, 0, 2)
           op == l[i].text
<1>1. TradeCode(l, i, names, amount, price) = c \o <<Elem(op, 0)>>
  BY DEF TradeCode
<1>2. Value(y) /\ (price.kind = "game" => y.op \in SimpleGF)
      /\ price.kind \in {"rvalue", "arithmetic", "game"}
  BY RaiserRaises DEF Value, Raiser
<1>3. /\ \A e : <<>> \o <<e>> = <<e>>
      /\ \A d, e : <<>> \o <<d, e>> = <<d, e>>
      /\ \A d, e, f : <<>> \o <<d, e, f>> = <<d, e, f>>
  BY EmptyBefore
<1>4. code = <<y>>
  OBVIOUS
<1>5. ASSUME NEW x, Raiser(x, amount.kind), first = <<x>>
      PROVE  Good(c)
  <2>1. Value(x) /\ (amount.kind = "game" => x.op \in SimpleGF)
        /\ (amount.kind = "arithmetic" => x.op = "int")
    BY <1>5, RaiserRaises DEF Value, Raiser
  <2>2. Good(<<x, y>>) /\ Good(<<y, x>>)
    BY <1>2, <2>1, TwoValues
  <2> HIDE DEF Good
  <2>3. CASE amount.kind = "rvalue"
    <3>1. front = <<x>> /\ buf = <<>>
      BY <1>5, <2>3
    <3> HIDE DEF first, front, buf, code
    <3>2. buf \o code = <<y>>
      BY <1>3, <1>4, <3>1
    <3>3. rest = <<y>>
      <4>1. CASE price.kind = "arithmetic"
        <5>1. TurnedRound(buf, code) = <<y>>
          BY <3>2, TurnedShort DEF TurnedRound
        <5> QED BY <4>1, <5>1
      <4>2. CASE price.kind = "game"
        <5>1. Backwards(buf \o code) = <<y>>
          BY <1>2, <3>2, <4>2, BackwardsShort
        <5> QED BY <4>2, <5>1
      <4> QED BY <1>2, <2>3, <4>1, <4>2
    <3> HIDE DEF rest
    <3>4. c = <<x, y>>
      BY <3>1, <3>3, OneAndOne
    <3> QED BY <2>2, <3>4
  <2>4. CASE amount.kind # "rvalue"
    <3>1. front = <<>> /\ buf = <<x>>
      BY <1>5, <2>4
    <3> HIDE DEF first, front, buf, code
    <3>2. buf \o code = <<x, y>> /\ code \o buf = <<y, x>>
      BY <1>4, <3>1, OneAndOne
    <3>3. rest = <<y, x>>
      <4>1. CASE price.kind = "arithmetic"
        <5>1. TurnedRound(buf, code) = <<y, x>>
          BY <3>2, TurnedShort DEF TurnedRound
        <5> QED BY <4>1, <5>1
      <4>2. CASE price.kind = "game"
        <5>1. x.op \in SimpleGF \cup {"int"}
          BY <1>5, <2>4 DEF Raiser
        <5>2. Backwards(<<x, y>>) = <<y>> \o <<x>>
          BY <1>2, <4>2, <5>1, BackwardsShort
        <5>3. Backwards(buf \o code) = <<y, x>>
          BY <3>2, <5>2, OneAndOne
        <5> QED BY <4>2, <5>3
      <4>3. CASE price.kind = "rvalue"
        <5>1. Reverse(buf) = buf
          BY <3>1, TurnedShort
        <5>2. VariableFirst(code, buf) = <<y, x>>
          BY <3>2, <5>1 DEF VariableFirst
        <5> QED BY <4>3, <5>2
      <4> QED BY <1>2, <4>1, <4>2, <4>3
    <3> HIDE DEF rest
    <3>4. c = <<y, x>>
      BY <1>3, <3>1, <3>3
    <3> QED BY <2>2, <3>4
  <2> QED BY <2>3, <2>4
<1>6. ASSUME amount.kind = "game", NEW u, NEW w, Value(u), u.op \in SimpleGF, OfPlayer(w),
             first = <<u, w>>
      PROVE  Good(c)
  <2>2. Good(<<y, w, u>>) /\ Good(<<y, u, w>>)
    BY <1>2, <1>6, TwoValues
  <2> HIDE DEF Good
  <2>3. front = <<>> /\ buf = <<u, w>>
    BY <1>6
  <2> HIDE DEF first, front, buf, code
  <2>4. buf \o code = <<u, w, y>>
    BY <1>4, <2>3, TwoAndOne
  <2>5. rest \in {<<y, w, u>>, <<y, u, w>>}
    <3>1. CASE price.kind = "arithmetic"
      <4>1. TurnedRound(buf, code) = <<y, w, u>>
        BY <2>4, TurnedShort DEF TurnedRound
      <4> QED BY <3>1, <4>1
    <3>2. CASE price.kind = "game"
      <4>1. Backwards(<<u, w, y>>) = (<<y>> \o <<>>) \o <<u, w>>
        BY <1>2, <1>6, <3>2, BackwardsShort DEF OfPlayer
      <4>2. <<y>> \o <<>> = <<y>> /\ <<y>> \o <<u, w>> = <<y, u, w>>
        BY TwoAndOne, EmptyBehind
      <4>3. Backwards(buf \o code) = <<y, u, w>>
        BY <2>4, <4>1, <4>2
      <4> QED BY <3>2, <4>3
    <3>3. CASE price.kind = "rvalue"
      <4>1. Reverse(buf) = <<w, u>>
        BY <2>3, TurnedShort
      <4>2. <<y>> \o <<w, u>> = <<y, w, u>>
        BY TwoAndOne
      <4>3. VariableFirst(code, buf) = <<y, w, u>>
        BY <1>4, <4>1, <4>2 DEF VariableFirst
      <4> QED BY <3>3, <4>3
    <3> QED BY <1>2, <3>1, <3>2, <3>3
  <2> HIDE DEF rest
  <2>6. c = rest
    <3>1. \A e \in {<<y, w, u>>, <<y, u, w>>} : <<>> \o e = e
      BY <1>3
    <3> QED BY <2>3, <2>5, <3>1
  <2> QED BY <2>2, <2>5, <2>6
<1>7. Good(c)
  <2> HIDE DEF Good, c
  <2> QED BY <1>5, <1>6 DEF GivenFirst
<1> HIDE DEF c
<1>8. op \in Ops /\ HeightBehind(2, op) = 0 /\ 2 \in Nat
  BY OrderEffects DEF Ops
<1> HIDE DEF op
<1>9. Leads(c \o <<Elem(op, 0)>>, 0, 0)
  <2>1. c \in Seq(Coded) /\ Leads(c, 0, 2)
    BY Zenon, <1>7
  <2> QED BY ONLY <1>8, <2>1, TakenAtOnce, Zenon
<1> QED BY Zenon, <1>1, <1>9

\* What cannot begin an expression does not.
Foreign(lexem) ==
    /\ lexem.type \notin {"integer", "variable"} /\ lexem.text \notin {"(", ")"}
    /\ lexem.text \notin ALOperations /\ lexem.text \notin {";", "then"}

LEMMA NoExpression ==
    ASSUME NEW l \in Seq(Lexems), NEW i \in Nat \ {0}, i \in 1..Len(l), Foreign(l[i])
    PROVE  Arithmetic(l, i).is # "yes"
<1> DEFINE end == EndOf(l, i)
           read == ReadTo(l, i, end)
<1>1. i <= Len(l) /\ i <= Len(l) + 1 /\ i \in Nat /\ Len(l) \in Nat
  OBVIOUS
<1>2. end \in i..(Len(l) + 1) /\ end \in Nat
  BY ONLY l \in Seq(Lexems), i \in Nat \ {0}, <1>1, EndOfIs, Zenon
<1>3. Arithmetic(l, i) = Postfix(read, end > Len(l))
  <2>1. ~(i > Len(l))
    BY ONLY <1>1
  <2> QED BY Zenon, <2>1 DEF Arithmetic
<1>4. end # i
  <2>1. NextWord(l, i, {";", "then"}) <= Len(l) =>
           l[NextWord(l, i, {";", "then"})].text \in {";", "then"}
    BY Zenon, NextWordFound
  <2>2. end <= Len(l) => l[end].text \in {";", "then"}
    BY Zenon, <2>1 DEF EndOf
  <2>3. CASE end = i
    <3>1. l[i].text \in {";", "then"}
      BY Zenon, <1>1, <2>2, <2>3
    <3> QED BY Zenon, <3>1 DEF Foreign
  <2> QED BY Zenon, <2>3
<1>5. PICK h \in [i..end -> Reads] :
        /\ h[i] = FirstRead /\ h[end] = read
        /\ \A k \in i..end : k # i => h[k] = ArithmeticLexem(h[k - 1], l, k - 1)
  BY ONLY l \in Seq(Lexems), i \in Nat \ {0}, <1>2, ReadToSteps, Zenon
<1> HIDE DEF end, read
<1>6. ArithmeticLexem(FirstRead, l, i) = [FirstRead EXCEPT !.is = "no"]
  <2>1. FirstRead \in Reads /\ FirstRead.is = "reading" /\ FirstRead.out = <<>>
    BY ONLY TRUE DEF FirstRead, Reads
  <2>2. /\ l[i].type \notin {"integer", "variable"}
        /\ l[i].text \notin {"(", ")"} /\ l[i].text \notin ALOperations
    BY Zenon DEF Foreign
  <2> QED BY <2>1, <2>2, Unexpected
<1>7. PICK k \in i..end : k = i + 1
  BY ONLY <1>1, <1>2, <1>4
<1>8. h[k] = [FirstRead EXCEPT !.is = "no"] /\ h[k].is = "no"
  <2>1. k # i /\ k - 1 = i
    BY ONLY <1>1, <1>7
  <2>2. h[k] = ArithmeticLexem(h[i], l, i)
    BY Zenon, <1>5, <2>1
  <2>3. h[k] = [FirstRead EXCEPT !.is = "no"]
    BY ONLY <1>5, <1>6, <2>2, Zenon
  <2>4. [FirstRead EXCEPT !.is = "no"].is = "no"
    BY ONLY TRUE DEF FirstRead
  <2> QED BY <2>3, <2>4
<1>9. h[end] = h[k]
  <2>1. StepByStep(h, l, i, end)
    BY ONLY <1>5 DEF StepByStep
  <2>2. h[k].is # "reading" /\ k \in i..end /\ end \in i..(Len(l) + 1)
    BY <1>2, <1>7, <1>8
  <2> QED BY ONLY <2>1, <2>2, l \in Seq(Lexems), i \in Nat \ {0}, ReadNoMore
<1>10. read.is = "no"
  BY <1>5, <1>8, <1>9
<1>11. Postfix(read, end > Len(l)) = No
  BY ONLY <1>10 DEF Postfix
<1> QED BY ONLY <1>3, <1>11 DEF No

\* An operand that begins with a function is a function.
LEMMA FunctionFirst ==
    ASSUME NEW l \in Seq(Lexems), NEW i \in Nat \ {0}, i \in 1..Len(l), Apart(l),
           l[i].text \in GameFunctions, Operand(l, i).is = "yes"
    PROVE  Operand(l, i) = GameStatement(l, i)
<1>1. /\ GameFunctions \subseteq Reserved
      /\ \A text \in GameFunctions :
            text \notin {"(", ")"} /\ text \notin ALOperations /\ text # "then"
  BY Zenon DEF Reserved, GameFunctions, SimpleGF, PlayerGF, ALOperations, Binary, Dividing
<1>2. l[i].type \notin {"integer", "variable", "assign"}
  BY Zenon, <1>1 DEF Apart
<1>3. l[i].text \notin {"(", ")"} /\ l[i].text \notin ALOperations
  BY Zenon, <1>1
<1>4. VarRValue(l, i).is # "yes"
  <2>1. Behind(l, i, "(") = i
    <3>1. l[i].text # "("
      BY <1>3
    <3> QED BY <3>1, BehindHere
  <2>2. ~(i > Len(l))
    OBVIOUS
  <2>3. VarRValue(l, i) = No
    BY ONLY <1>2, <2>1, <2>2 DEF VarRValue
  <2> QED BY <2>3 DEF No
<1>5. Arithmetic(l, i).is # "yes"
  <2>1. \A text \in GameFunctions : text \notin {";", "then"}
    BY Zenon DEF GameFunctions, SimpleGF, PlayerGF
  <2>2. Foreign(l[i])
    BY Zenon, <1>2, <1>3, <2>1 DEF Foreign
  <2> QED BY Zenon, <2>2, NoExpression
<1>6. Operand(l, i) = Condition(l, i)
  BY ONLY <1>4, Operand(l, i).is = "yes" DEF Operand, OrElse
<1> QED BY ONLY <1>5, <1>6, Operand(l, i).is = "yes" DEF Condition, OrElse

LEMMA FirstOperand ==
    ASSUME NEW l \in Seq(Lexems), Fit(l), NEW i \in Nat \ {0}, NEW names \in Seq(Texts),
           l[i].text \in {"buy", "sell"}, Operand(l, i + 1).is = "yes", i \in 1..Len(l)
    PROVE  GivenFirst(Translated(Operand(l, i + 1), names), Operand(l, i + 1).kind)
<1> DEFINE j == i + 1
           o == Operand(l, i + 1)
<1>1. j \in Nat \ {0} /\ j + 1 = i + 2 /\ i \in Nat
  OBVIOUS
<1>2. j \in 1..Len(l)
  <2>1. CASE j > Len(l)
    <3>1. o = No
      BY ONLY <2>1 DEF Operand, Condition, VarRValue, Arithmetic, GameStatement, OrElse, No
    <3> QED BY <3>1 DEF No
  <2> QED BY <1>1, <2>1
<1>3. i \in 1..(Len(l) - 1)
  BY <1>2
<1>4. l[j].text \in GameFunctions \/ At(l, i + 2).text = ","
  BY Zenon, <1>3 DEF Fit
<1>5. CASE At(l, i + 2).text = ","
  <2>1. Closes(l, j + 1)
    BY Zenon, <1>1, <1>5 DEF Closes
  <2>2. OneWord(o, l, j)
    BY ONLY l \in Seq(Lexems), <1>1, <2>1, Fit(l), o.is = "yes", OneLexem, Zenon
  <2>3. \E e : Raiser(e, o.kind) /\ Translated(o, names) = <<e>>
    <3> HIDE DEF o, j
    <3> QED BY ONLY l \in Seq(Lexems), <2>2, OneElement, names \in Seq(Texts)
  <2> QED BY Zenon, <2>3 DEF GivenFirst
<1>6. CASE l[j].text \in GameFunctions
  <2>1. o = GameStatement(l, j)
    <3>1. Apart(l)
      BY Zenon DEF Fit
    <3> QED BY ONLY l \in Seq(Lexems), <1>1, <1>2, <1>6, <3>1, o.is = "yes", FunctionFirst
  <2>2. o.kind = "game" /\ (SimpleCall(o, l, j) \/ PlayerCall(o, l, j))
    BY ONLY l \in Seq(Lexems), <1>1, <2>1, o.is = "yes", Called
  <2>3. Translated(o, names) = ProcessGameLexem(o.words)
    BY ONLY <2>2 DEF Translated
  <2> HIDE DEF o, j
  <2>4. CASE SimpleCall(o, l, j)
    <3> DEFINE e == Elem(l[j].text, 0)
    <3>1. Translated(o, names) = <<e>>
      BY ONLY <2>3, <2>4, GameCode DEF SimpleCall
    <3>2. e \in Coded /\ e.op = l[j].text /\ l[j].text \in SimpleGF
      BY ONLY <2>4, FunctionCoded DEF SimpleCall, GameFunctions
    <3> HIDE DEF e
    <3>3. Raiser(e, o.kind)
      BY ONLY <2>2, <3>2 DEF Raiser
    <3>4. GivenFirst(Translated(o, names), o.kind)
      BY ONLY <3>1, <3>3 DEF GivenFirst
    <3> QED BY Zenon, <3>4 DEF o
  <2>5. CASE PlayerCall(o, l, j)
    <3> DEFINE u == Elem(l[j + 2].text, 0)
               w == Elem(l[j].text, 0)
    <3>1. Translated(o, names) = <<u, w>>
      BY ONLY <2>3, <2>5, GameCode DEF PlayerCall
    <3>2. u \in Coded /\ u.op \in SimpleGF /\ w \in Coded /\ w.op \in PlayerGF
      BY ONLY <2>5, FunctionCoded DEF PlayerCall, GameFunctions
    <3> HIDE DEF u, w
    <3>3. Value(u) /\ OfPlayer(w)
      BY ONLY <3>2 DEF Value, OfPlayer, Pushers
    <3>4. GivenFirst(Translated(o, names), o.kind)
      BY ONLY <2>2, <3>1, <3>2, <3>3 DEF GivenFirst
    <3> QED BY Zenon, <3>4 DEF o
  <2> QED BY <2>2, <2>4, <2>5
<1> QED BY Zenon, <1>4, <1>5, <1>6

LEMMA TradeBalanced ==
    ASSUME NEW l \in Seq(Lexems), Fit(l), NEW i \in Nat \ {0}, NEW names \in Seq(Texts),
           l[i].text \in {"buy", "sell"}, i \in 1..Len(l)
    PROVE  Balanced(Trade(l, i, names))
<1> SUFFICES ASSUME Trade(l, i, names).is = "ok"
             PROVE  Leads(Trade(l, i, names).code, 0, 0)
  BY DEF Balanced
<1> DEFINE comma == CommaBehind(l, i)
           amount == Operand(l, i + 1)
           price == Operand(l, comma + 1)
           code == TradeCode(l, i, names, amount, price)
<1>1. i + 1 \in Nat \ {0} /\ i + 2 \in Nat \ {0}
  OBVIOUS
<1>2. comma \in Nat \ {0}
  <2>1. NextWord(l, i + 2, {","}) \in Nat \ {0}
    BY Zenon, <1>1, NextWordIs
  <2> QED BY Zenon, <2>1 DEF CommaBehind
<1>3. comma + 1 \in Nat \ {0} /\ (comma + 1) + 1 = comma + 2
  BY ONLY <1>2
<1>4. amount \in Operands /\ price \in Operands
  BY ONLY l \in Seq(Lexems), <1>1, <1>3, OperandIs
<1>5. Trade(l, i, names) = AmountAndPrice(amount, price, comma, l, i, names)
  BY ONLY TRUE DEF Trade
<1> HIDE DEF comma, amount, price, code
<1>6. /\ amount.is \notin {"no", "undefined"} /\ PriceEnds(price, comma, l, names)
      /\ ~(amount.kind = "rvalue" /\ price.kind = "rvalue")
      /\ Trade(l, i, names).code = code
  BY ONLY <1>5, Trade(l, i, names).is = "ok"
     DEF AmountAndPrice, Compiled, Refused, Undefined, code
<1>7. amount.is = "yes"
  BY ONLY <1>4, <1>6, OperandsCases
<1>8. price.is = "yes" /\ Closes(l, (comma + 1) + 1)
  BY Zenon, <1>3, <1>6 DEF PriceEnds, Closes
<1>9. OneWord(price, l, comma + 1)
  BY ONLY l \in Seq(Lexems), <1>3, <1>8, Fit(l), OneLexem, Zenon DEF price
<1>10. PICK y : Raiser(y, price.kind) /\ Translated(price, names) = <<y>>
  BY ONLY l \in Seq(Lexems), <1>9, OneElement, names \in Seq(Texts)
<1>11. GivenFirst(Translated(amount, names), amount.kind)
  BY ONLY l \in Seq(Lexems), <1>7, Fit(l), i \in Nat \ {0}, names \in Seq(Texts),
          l[i].text \in {"buy", "sell"}, i \in 1..Len(l), FirstOperand, Zenon DEF amount
<1>12. Leads(code, 0, 0)
  BY ONLY <1>6, <1>10, <1>11, l[i].text \in {"buy", "sell"}, OrderLeads DEF code
<1> QED BY Zenon, <1>6, <1>12

-----------------------------------------------------------------------------
(* print takes whatever is there.                                           *)
Values == {e \in Coded : e.op \in Pushers}

LEMMA ValuesLead ==
    ASSUME NEW c \in Seq(Values)
    PROVE  Leads(c, 0, Len(c)) /\ c \in Seq(Coded)
<1> DEFINE n == Len(c)
           h == [k \in 0..n |-> k]
<1>1. n \in Nat
  OBVIOUS
<1>2. ASSUME NEW k \in 1..n
      PROVE  h[k] = HeightBehind(h[k - 1], c[k].op)
  <2>1. c[k] \in Values
    BY <1>2, PlacesOf
  <2>2. k - 1 \in Nat /\ k - 1 \in 0..n /\ k \in 0..n /\ (k - 1) + 1 = k
    BY <1>1
  <2>3. c[k].op \in {"int", "addr", "str", "label"} \cup SimpleGF
    BY <2>1 DEF Values, Pushers
  <2>4. HeightBehind(k - 1, c[k].op) = (k - 1) + 1
    BY <2>2, <2>3, Effects
  <2> QED BY <2>2, <2>4
<1>3. h \in [0..n -> Nat] /\ h[0] = 0 /\ h[n] = n
  BY <1>1
<1> HIDE DEF h
<1>4. Climb(h, c, 0, n)
  BY <1>2, <1>3 DEF Climb
<1>5. c \in Seq(Coded)
  <2>1. Values \subseteq Coded
    BY DEF Values
  <2> QED BY <2>1, WiderSeq
<1> QED BY <1>4, <1>5 DEF Leads

Listed == [is : {"reading", "ok", "no", "undefined"}, ret : Seq(Values),
           buf : Seq(Values), next : Nat]

LEMMA ItemListed ==
    ASSUME NEW l \in Seq(Lexems), Fit(l), NEW j \in 1..Len(l), NEW names \in Seq(Texts),
           NEW s \in Listed
    PROVE  PrintItem(s, Operand(l, j), l, j, names) \in Listed
<1> DEFINE item == Operand(l, j)
           V == Values
           code == Translated(item, names)
<1>1. j + 1 \in Nat /\ j \in Nat \ {0} /\ l[j] \in Lexems
  BY PlacesOf
<1>2. s.ret \in Seq(V) /\ s.buf \in Seq(V)
  BY DEF Listed
<1>3. item \in Operands
  BY <1>1, OperandIs
<1> HIDE DEF item
<1>4. CASE s.is # "reading"
  <2>1. PrintItem(s, item, l, j, names) = s
    BY ONLY <1>4 DEF PrintItem
  <2> QED BY <2>1 DEF item
<1>5. CASE s.is = "reading" /\ l[j].type = "string"
  <2>1. PrintItem(s, item, l, j, names) = [s EXCEPT !.buf = Append(@, StrElem(l[j].n))]
    BY ONLY <1>5 DEF PrintItem
  <2>2. StrElem(l[j].n) \in Values
    <3>1. "str" \in Ops /\ l[j].n \in Int /\ "str" \in Pushers
      BY <1>1 DEF Ops, Lexems, Pushers
    <3> QED BY <3>1, ElemIs DEF StrElem, Values
  <2>3. Append(s.buf, StrElem(l[j].n)) \in Seq(V)
    <3> HIDE DEF V
    <3> QED BY <1>2, <2>2, AppendedIs DEF V
  <2>4. [s EXCEPT !.buf = Append(@, StrElem(l[j].n))] \in Listed
    BY <2>3 DEF Listed
  <2> QED BY <2>1, <2>4 DEF item
<1>6. CASE s.is = "reading" /\ l[j].type # "string" /\ item.is = "undefined"
  <2>1. PrintItem(s, item, l, j, names) = [s EXCEPT !.is = "undefined"]
    BY ONLY <1>6 DEF PrintItem
  <2>2. [s EXCEPT !.is = "undefined"] \in Listed
    BY DEF Listed
  <2> QED BY <2>1, <2>2 DEF item
<1>7. CASE s.is = "reading" /\ l[j].type # "string" /\ item.is = "no"
  <2>1. PrintItem(s, item, l, j, names) \in
           {s, [s EXCEPT !.is = IF s.buf = <<>> THEN "no" ELSE "ok", !.next = j + 1],
            [s EXCEPT !.is = "no"]}
    BY ONLY <1>7 DEF PrintItem
  <2>2. /\ [s EXCEPT !.is = IF s.buf = <<>> THEN "no" ELSE "ok", !.next = j + 1] \in Listed
        /\ [s EXCEPT !.is = "no"] \in Listed
    BY <1>1 DEF Listed
  <2> QED BY <2>1, <2>2 DEF item
<1>8. CASE s.is = "reading" /\ l[j].type # "string" /\ item.is = "yes"
  <2>1. CASE ~Closes(l, j + 1) \/ ~Declared(item, names)
    <3>1. PrintItem(s, item, l, j, names) = [s EXCEPT !.is = "no"]
      <4>1. item.is # "undefined" /\ item.is # "no" /\ s.is = "reading" /\ l[j].type # "string"
        BY <1>8
      <4>2. At(l, j + 1).text \notin {";", ","} \/ ~Declared(item, names)
        BY Zenon, <2>1 DEF Closes
      <4> QED BY ONLY <4>1, <4>2, Zenon DEF PrintItem
    <3>2. [s EXCEPT !.is = "no"] \in Listed
      BY DEF Listed
    <3> QED BY <3>1, <3>2 DEF item
  <2>2. CASE Closes(l, j + 1) /\ Declared(item, names)
    <3>1. PrintItem(s, item, l, j, names) = ItemCode(s, item, names)
      <4>1. item.is # "undefined" /\ item.is # "no" /\ s.is = "reading" /\ l[j].type # "string"
        BY <1>8
      <4>2. ~(At(l, j + 1).text \notin {";", ","} \/ ~Declared(item, names))
        BY Zenon, <2>2 DEF Closes
      <4> QED BY ONLY <4>1, <4>2, Zenon DEF PrintItem
    <3>2. OneWord(item, l, j)
      BY ONLY l \in Seq(Lexems), <1>1, <1>8, <2>2, Fit(l), OneLexem, Zenon DEF item
    <3>3. PICK e : Raiser(e, item.kind) /\ code = <<e>>
      BY ONLY l \in Seq(Lexems), <3>2, OneElement, names \in Seq(Texts)
    <3>4. code \in Seq(V)
      <4>1. e \in Values
        BY <3>3, RaiserRaises DEF Values, Raiser, Pushers
      <4> HIDE DEF code
      <4> QED BY <3>3, <4>1
    <3> HIDE DEF code
    <3>5. s.ret \o code \in Seq(V) /\ s.buf \o code \in Seq(V)
      <4> HIDE DEF V
      <4> QED BY <1>2, <3>4
    <3>6. ItemCode(s, item, names) \in {[s EXCEPT !.ret = @ \o code], [s EXCEPT !.buf = @ \o code]}
      BY DEF ItemCode, code
    <3>7. [s EXCEPT !.ret = @ \o code] \in Listed /\ [s EXCEPT !.buf = @ \o code] \in Listed
      BY <3>5 DEF Listed
    <3> QED BY <3>1, <3>6, <3>7 DEF item
  <2> QED BY <2>1, <2>2
<1> QED BY <1>3, <1>4, <1>5, <1>6, <1>7, <1>8, OperandsCases

LEMMA PrintBalanced ==
    ASSUME NEW l \in Seq(Lexems), Fit(l), NEW i \in 1..Len(l), NEW names \in Seq(Texts)
    PROVE  Balanced(PrintOperator(l, i, names))
<1> DEFINE s == PrintItems(l, i, names)
<1>1. s \in Listed
  <2>1. NoItem \in Listed
    BY DEF NoItem, Listed
  <2>2. \A j \in 1..Len(l) : ItemKeeps(Listed, l, j, names)
    BY ItemListed DEF ItemKeeps
  <2> QED BY <2>1, <2>2, PrintItemsIn
<1>2. PrintOperator(l, i, names) = Printed(s, names)
  BY DEF PrintOperator
<1> HIDE DEF s
<1> DEFINE c == s.ret \o Reverse(s.buf)
<1>3. c \in Seq(Values)
  <2>1. s.ret \in Seq(Values) /\ s.buf \in Seq(Values)
    BY <1>1 DEF Listed
  <2>2. Reverse(s.buf) \in Seq(Values)
    BY <2>1, ReversedIs
  <2> QED BY <2>1, <2>2
<1> HIDE DEF c
<1>4. Leads(c, 0, Len(c)) /\ c \in Seq(Coded) /\ Len(c) \in Nat
  BY <1>3, ValuesLead
<1>5. Leads(c \o <<Elem("print", 0)>>, 0, 0)
  <2>1. "print" \in Ops /\ HeightBehind(Len(c), "print") = 0
    BY <1>4, OrderEffects DEF Ops
  <2> QED BY ONLY <1>4, <2>1, TakenAtOnce, Zenon
<1>6. Printed(s, names).is = "ok" => Printed(s, names).code = c \o <<Elem("print", 0)>>
  BY ONLY TRUE DEF Printed, Compiled, Refused, Undefined, c
<1> QED BY Zenon, <1>2, <1>5, <1>6 DEF Balanced

-----------------------------------------------------------------------------
(* Every operator is balanced in a script that is not ill-formed; what      *)
(* stands behind a label too, though it is rewritten first.                 *)
LEMMA FitOf ==
    ASSUME NEW l \in Seq(Lexems), Apart(l), ~IllFormed(l)
    PROVE  Fit(l)
<1>1. ASSUME NEW k \in 1..(Len(l) - 1)
      PROVE  /\ l[k].text \in ALOperations => l[k + 1].text # ";"
             /\ l[k].text \in {"buy", "sell"} =>
                   l[k + 1].text \in GameFunctions \/ At(l, k + 2).text = ","
  <2>1. PICK j \in 2..Len(l) : j = k + 1 /\ j - 1 = k /\ j + 1 = k + 2
    OBVIOUS
  <2>2. /\ l[j - 1].text \in ALOperations => OperandBegins(l, j)
        /\ l[j - 1].text \in {"buy", "sell"} =>
              l[j].text \in GameFunctions \/ At(l, j + 1).text = ","
    BY Zenon, PairsOf
  <2>3. ";" \in Reserved /\ ";" \notin {"(", "!"} /\ ";" # "-"
    BY Zenon DEF Reserved
  <2>4. j \in 1..Len(l)
    BY ONLY <2>1
  <2>5. OperandBegins(l, j) => l[j].text # ";"
    BY Zenon, <2>3, <2>4 DEF OperandBegins, IsUnMinus, Apart
  <2> QED BY Zenon, <2>1, <2>2, <2>5
<1> QED BY Zenon, <1>1 DEF Fit

LEMMA GameBalanced ==
    ASSUME NEW l \in Seq(Lexems), Fit(l), NEW i \in Nat \ {0}, NEW names \in Seq(Texts)
    PROVE  Balanced(GameOperator(l, i, names))
<1> DEFINE word == At(l, i).text
<1>1. CASE word \in {"print", "buy", "sell", "prod", "build"}
  <2>1. i \in 1..Len(l) /\ At(l, i) = l[i]
    <3>1. At(l, i).text # ""
      BY <1>1
    <3>2. i \in Int
      OBVIOUS
    <3> QED BY <3>1, <3>2, NamedIsThere
  <2>2. CASE word \in {"prod", "build"}
    <3>1. GameOperator(l, i, names) = Amount(Operand(l, i + 1), l, i, names)
      BY ONLY <2>2 DEF GameOperator, BuildOperator, ProdOperator
    <3>2. l[i].text \in {"prod", "build"}
      BY <2>1, <2>2
    <3> QED BY Zenon, <3>1, <3>2, AmountBalanced
  <2>3. CASE word \in {"buy", "sell"}
    <3>1. GameOperator(l, i, names) = Trade(l, i, names)
      BY ONLY <2>3 DEF GameOperator, BuyOperator, SellOperator
    <3>2. l[i].text \in {"buy", "sell"}
      BY <2>1, <2>3
    <3> QED BY Zenon, <2>1, <3>1, <3>2, TradeBalanced
  <2>4. CASE word = "print"
    <3>1. GameOperator(l, i, names) = PrintOperator(l, i, names)
      BY ONLY <2>4 DEF GameOperator
    <3> QED BY Zenon, <2>1, <3>1, PrintBalanced
  <2> QED BY <1>1, <2>2, <2>3, <2>4
<1>2. CASE word = "endturn"
  <2>1. GameOperator(l, i, names) = EndturnOperator(l, i, names)
    BY ONLY <1>2 DEF GameOperator
  <2> QED BY Zenon, <2>1, EndturnBalanced
<1>3. CASE word \notin {"print", "buy", "sell", "prod", "build", "endturn"}
  <2>1. GameOperator(l, i, names) = Refused(names)
    BY ONLY <1>3 DEF GameOperator
  <2> QED BY ONLY <2>1 DEF Balanced, Refused
<1> QED BY <1>1, <1>2, <1>3

LEMMA BodyBalanced ==
    ASSUME NEW l \in Seq(Lexems), Apart(l), ~IllFormed(l), NEW i \in Nat \ {0},
           NEW names \in Seq(Texts), NEW labels \in Seq([name : Texts, oper : Nat \ {0}])
    PROVE  Balanced(Body(l, i, names, labels))
<1> DEFINE assign == AssignOperator(l, i, names)
<1>1. Body(l, i, names, labels) \in
         {assign, GoOperator(l, i, assign.names, labels), GameOperator(l, i, assign.names)}
  BY ONLY TRUE DEF Body, BodyAfter, OrElse
<1>2. assign.names \in Seq(Texts)
  BY ONLY l \in Seq(Lexems), i \in Nat \ {0}, names \in Seq(Texts), AssignMakes DEF Makes
<1>3. Balanced(assign)
  BY Zenon, AssignBalanced
<1>4. Fit(l)
  BY Zenon, FitOf
<1>5. Balanced(GameOperator(l, i, assign.names))
  BY Zenon, <1>2, <1>4, GameBalanced
<1>6. Balanced(GoOperator(l, i, assign.names, labels))
  BY Zenon, GoBalanced
<1> QED BY Zenon, <1>1, <1>3, <1>5, <1>6

LEMMA ConditionalBalanced ==
    ASSUME NEW cond \in Operands, NEW names \in Seq(Texts), NEW found \in BOOLEAN,
           NEW body, Balanced(body), NEW targets, Makes(body, names, targets),
           cond.is = "yes" => Leads(Translated(cond, names), 0, 1)
    PROVE  Balanced(Conditional(cond, body, found, names))
<1> SUFFICES ASSUME Conditional(cond, body, found, names).is = "ok"
             PROVE  Leads(Conditional(cond, body, found, names).code, 0, 0)
  BY DEF Balanced
<1> DEFINE c == Translated(cond, names)
           code == c \o <<Elem("ifthen", 0)>> \o body.code
<1>1. /\ cond.is \notin {"no", "undefined"} /\ Declared(cond, names) /\ body.is = "ok"
      /\ Conditional(cond, body, found, names) = [body EXCEPT !.code = code]
  BY ONLY Conditional(cond, body, found, names).is = "ok" DEF Conditional, Refused, Undefined
<1>2. cond.is = "yes"
  BY <1>1, OperandsCases
<1>3. c \in Seq(Coded) /\ Leads(c, 0, 1)
  BY <1>1, <1>2, TranslatedCoded
<1>4. body = Compiled(body.code, body.next, body.names) /\ body.code \in Seq(Coded)
  BY <1>1 DEF Makes, Ended
<1>5. Leads(body.code, 0, 0)
  BY <1>1 DEF Balanced
<1> HIDE DEF c
<1>6. Leads(c \o <<Elem("ifthen", 0)>>, 0, 0) /\ c \o <<Elem("ifthen", 0)>> \in Seq(Coded)
  <2>1. "ifthen" \in Ops /\ HeightBehind(1, "ifthen") = 0 /\ 1 \in Nat
    BY OrderEffects DEF Ops
  <2>2. Elem("ifthen", 0) \in Coded
    BY <2>1, ElemIs
  <2>3. c \o <<Elem("ifthen", 0)>> \in Seq(Coded)
    BY <1>3, <2>2, AppendedIs
  <2>4. Leads(c \o <<Elem("ifthen", 0)>>, 0, 0)
    BY ONLY <1>3, <2>1, TakenAtOnce, Zenon
  <2> QED BY <2>3, <2>4
<1>7. Leads(code, 0, 0)
  BY ONLY <1>4, <1>5, <1>6, LeadsOn
<1> HIDE DEF code
<1>8. [body EXCEPT !.code = code].code = code
  <2>1. body = [is |-> "ok", code |-> body.code, next |-> body.next, names |-> body.names]
    BY ONLY <1>4 DEF Compiled
  <2> QED BY ONLY <2>1
<1> QED BY Zenon, <1>1, <1>7, <1>8

\* An assignment sign begins no condition.
LEMMA NoCondition ==
    ASSUME NEW l \in Seq(Lexems), Apart(l), NEW i \in Nat \ {0}, At(l, i).type = "assign"
    PROVE  Condition(l, i).is # "yes"
<1>1. i \in 1..Len(l) /\ l[i].type = "assign"
  <2>1. At(l, i).type # "none"
    OBVIOUS
  <2>2. i \in DOMAIN l
    BY ONLY <2>1 DEF At
  <2>3. At(l, i) = l[i]
    BY Zenon, <2>2 DEF At
  <2> QED BY ONLY <2>2, <2>3, l \in Seq(Lexems), i \in Nat \ {0}, At(l, i).type = "assign"
<1>2. l[i].text \notin Reserved
  BY Zenon, <1>1 DEF Apart
<1>3. {"(", ")", ";", "then"} \subseteq Reserved /\ ALOperations \subseteq Reserved
      /\ GameFunctions \subseteq Reserved
  BY Zenon DEF Reserved, ALOperations, Unary
<1>4. Foreign(l[i])
  <2>1. l[i].text \notin {"(", ")"} /\ l[i].text \notin ALOperations /\ l[i].text \notin {";", "then"}
    BY Zenon, <1>2, <1>3
  <2>2. l[i].type \notin {"integer", "variable"}
    BY <1>1
  <2> QED BY Zenon, <2>1, <2>2 DEF Foreign
<1>5. Arithmetic(l, i).is # "yes"
  BY Zenon, <1>1, <1>4, NoExpression
<1>6. GameStatement(l, i).is # "yes"
  <2>1. CASE GameStatement(l, i).is = "yes"
    <3>1. SimpleCall(GameStatement(l, i), l, i) \/ PlayerCall(GameStatement(l, i), l, i)
      BY Zenon, <2>1, Called
    <3>2. l[i].text \in GameFunctions
      BY ONLY <3>1 DEF SimpleCall, PlayerCall, GameFunctions
    <3> QED BY Zenon, <1>2, <1>3, <3>2
  <2> QED BY Zenon, <2>1
<1> QED BY ONLY <1>5, <1>6 DEF Condition, OrElse

LEMMA IfBalanced ==
    ASSUME NEW l \in Seq(Lexems), Apart(l), ~IllFormed(l), NEW i \in Nat \ {0},
           NEW names \in Seq(Texts), NEW labels \in Seq([name : Texts, oper : Nat \ {0}]),
           OperandEnds(l, i) => At(l, i + 1).type = "assign"
    PROVE  Balanced(IfOperator(l, i, names, labels))
<1> DEFINE then == NextWord(l, i + 2, {"then"})
           cond == Condition(l, i + 1)
           body == Body(l, then + 1, names, labels)
<1>1. i + 1 \in Nat \ {0} /\ i + 2 \in Nat \ {0} /\ i + 1 \in Nat /\ i + 1 >= 2 /\ (i + 1) - 1 = i
  OBVIOUS
<1>2. then \in Nat \ {0}
  BY ONLY l \in Seq(Lexems), <1>1, NextWordIs
<1>3. then + 1 \in Nat \ {0}
  BY ONLY <1>2
<1>4. cond \in Operands
  BY ONLY l \in Seq(Lexems), <1>1, ConditionIs
<1>5. IfOperator(l, i, names, labels) = Conditional(cond, body, then < Len(l), names)
  BY ONLY TRUE DEF IfOperator
<1> HIDE DEF then
<1>6. Makes(body, names, Targets(labels)) /\ Balanced(body)
  BY Zenon, <1>3, BodyMakes, BodyBalanced
<1>7. cond.is = "yes" => Leads(Translated(cond, names), 0, 1)
  <2>1. ASSUME cond.is = "yes"
        PROVE  ~OperandEnds(l, i)
    <3>1. At(l, i + 1).type # "assign"
      BY ONLY <1>1, <2>1, Apart(l), l \in Seq(Lexems), NoCondition, Zenon
    <3> QED BY Zenon, <3>1
  <2> QED BY ONLY l \in Seq(Lexems), Apart(l), ~IllFormed(l), names \in Seq(Texts), <1>1, <2>1,
                  ConditionLeads
<1>8. (then < Len(l)) \in BOOLEAN
  OBVIOUS
<1> HIDE DEF cond, body
<1> QED BY ONLY <1>4, <1>5, <1>6, <1>7, <1>8, names \in Seq(Texts), ConditionalBalanced

\* A script whose unary minuses have been rewritten here and there.
SameOrMinus(a, b) == a.text = b.text \/ (b.text = "-" /\ a.text = "-U")

Like(r, l) ==
    /\ r \in Seq(Lexems) /\ Len(r) = Len(l)
    /\ \A k \in 1..Len(l) : r[k].type = l[k].type /\ SameOrMinus(r[k], l[k])

LEMMA RewrittenLike ==
    ASSUME NEW l \in Seq(Lexems), NEW i \in Nat \ {0}, i <= Len(l) + 1
    PROVE  Like(Rewritten(l, i), l)
<1> DEFINE end == EndOf(l, i)
           New(j) == IF ReadTo(l, i, j).is = "reading" /\ IsUnMinus(l, j)
                     THEN [l[j] EXCEPT !.text = "-U"] ELSE l[j]
           n == end - i
           part == [k \in 1..n |-> New(i + k - 1)]
           head == SubSeq(l, 1, i - 1)
           tail == SubSeq(l, end, Len(l))
           Fine(a, b) == a.type = b.type /\ SameOrMinus(a, b)
<1>1. end \in i..(Len(l) + 1) /\ end \in Nat /\ Len(l) \in Nat
  BY EndOfIs
<1>2. Rewritten(l, i) = (head \o part) \o tail
  BY DEF Rewritten
<1> HIDE DEF end
<1>3. n \in Nat /\ i + n = end
  BY <1>1
<1>4. ASSUME NEW j \in 1..Len(l)
      PROVE  New(j) \in Lexems /\ Fine(New(j), l[j])
  <2>1. l[j] \in Lexems
    BY PlacesOf
  <2>2. "-U" \in Texts
    BY DEF Texts, Unary
  <2>3. /\ [l[j] EXCEPT !.text = "-U"] \in Lexems
        /\ [l[j] EXCEPT !.text = "-U"].type = l[j].type /\ [l[j] EXCEPT !.text = "-U"].text = "-U"
    BY <2>1, <2>2 DEF Lexems
  <2>4. IsUnMinus(l, j) => l[j].text = "-"
    BY DEF IsUnMinus
  <2> QED BY <2>1, <2>3, <2>4 DEF SameOrMinus
<1>5. \A k \in 1..n : i + k - 1 \in 1..Len(l)
  BY <1>1, <1>3
<1> HIDE DEF New, n
<1>6. part \in [1..n -> Lexems] /\ \A k \in 1..n : part[k] = New(i + k - 1)
  BY <1>4, <1>5
<1> HIDE DEF part
<1>7. part \in Seq(Lexems) /\ Len(part) = n
  BY <1>3, <1>6, SeqByPlaces
<1>8. /\ head \in Seq(Lexems) /\ Len(head) = i - 1
      /\ \A k \in 1..(i - 1) : head[k] = l[k]
  BY <1>1
<1>9. /\ tail \in Seq(Lexems) /\ Len(tail) = Len(l) + 1 - end
      /\ \A k \in 1..(Len(l) + 1 - end) : tail[k] = l[end + k - 1]
  BY <1>1
<1> HIDE DEF head, tail
<1> DEFINE u == head \o part
           r == u \o tail
<1>10. /\ u \in Seq(Lexems) /\ Len(u) = (i - 1) + n
       /\ \A k \in 1..(i - 1) : u[k] = head[k]
       /\ \A k \in ((i - 1) + 1)..((i - 1) + n) : u[k] = part[k - (i - 1)]
  <2>1. /\ u \in Seq(Lexems) /\ Len(u) = Len(head) + Len(part)
        /\ \A k \in 1..Len(head) : u[k] = head[k]
        /\ \A k \in (Len(head) + 1)..(Len(head) + Len(part)) : u[k] = part[k - Len(head)]
    BY <1>7, <1>8, JoinedIs
  <2> HIDE DEF u
  <2> QED BY ONLY <1>7, <1>8, <2>1
<1> HIDE DEF u
<1>11. /\ r \in Seq(Lexems) /\ Len(r) = Len(u) + Len(tail)
       /\ \A k \in 1..Len(u) : r[k] = u[k]
       /\ \A k \in (Len(u) + 1)..(Len(u) + Len(tail)) : r[k] = tail[k - Len(u)]
  BY <1>9, <1>10, JoinedIs
<1> HIDE DEF r
<1>12. Len(u) = end - 1 /\ Len(r) = Len(l)
  <2>1. i \in Nat \ {0}
    OBVIOUS
  <2>2. Len(u) = (i - 1) + n
    BY Zenon, <1>10
  <2>3. Len(r) = Len(u) + Len(tail) /\ Len(tail) = Len(l) + 1 - end
    BY Zenon, <1>9, <1>11
  <2>4. Len(u) = end - 1
    BY ONLY <1>1, <1>3, <2>1, <2>2
  <2> QED BY ONLY <1>1, <2>3, <2>4
<1> HIDE DEF Fine
<1>13. ASSUME NEW k \in 1..Len(l)
       PROVE  Fine(r[k], l[k])
  <2>1. Fine(l[k], l[k])
    BY DEF Fine, SameOrMinus
  <2>2. CASE k <= i - 1
    <3>1. k \in 1..(i - 1) /\ k \in 1..Len(u)
      BY <1>1, <1>12, <2>2
    <3>2. r[k] = l[k]
      BY <1>8, <1>10, <1>11, <3>1
    <3> QED BY <2>1, <3>2
  <2>3. CASE k >= i /\ k <= end - 1
    <3>1. k \in ((i - 1) + 1)..((i - 1) + n) /\ k \in 1..Len(u) /\ k - (i - 1) \in 1..n
      BY <1>1, <1>3, <1>12, <2>3
    <3>2. PICK q \in 1..n : q = k - (i - 1) /\ i + q - 1 = k
      BY <1>1, <3>1
    <3>3. r[k] = part[q] /\ part[q] = New(k)
      BY <1>6, <1>10, <1>11, <3>1, <3>2
    <3> QED BY <1>4, <3>3
  <2>4. CASE k >= end
    <3>1. k \in (Len(u) + 1)..(Len(u) + Len(tail)) /\ k - Len(u) \in 1..(Len(l) + 1 - end)
      BY <1>1, <1>9, <1>12, <2>4
    <3>2. PICK q \in 1..(Len(l) + 1 - end) : q = k - Len(u) /\ end + q - 1 = k
      BY <1>1, <1>12, <3>1
    <3>3. r[k] = l[k]
      BY <1>9, <1>11, <3>1, <3>2
    <3> QED BY <2>1, <3>3
  <2>5. k <= i - 1 \/ (k >= i /\ k <= end - 1) \/ k >= end
    BY <1>1
  <2> QED BY <2>2, <2>3, <2>4, <2>5
<1>14. Like(r, l)
  BY <1>11, <1>12, <1>13 DEF Like, Fine
<1> QED BY <1>2, <1>14, Zenon DEF r, u

LEMMA FitRewritten ==
    ASSUME NEW l \in Seq(Lexems), NEW r \in Seq(Lexems), Like(r, l), Fit(l)
    PROVE  Fit(r)
<1>1. Len(r) = Len(l) /\ Len(l) \in Nat
  BY DEF Like
<1>2. \A k \in 1..Len(l) : r[k].type = l[k].type /\ SameOrMinus(r[k], l[k])
  BY Zenon DEF Like
<1>3. /\ "-" \in Reserved /\ "-" \notin {"buy", "sell", ",", ";"} \cup GameFunctions
      /\ "-U" \notin {"buy", "sell", ";", ","} /\ "-U" \notin ALOperations
  BY Zenon DEF Reserved, Binary, GameFunctions, SimpleGF, PlayerGF, ALOperations, Dividing
<1>4. ASSUME NEW k \in 1..Len(r), r[k].type \in {"integer", "variable", "assign"}
      PROVE  r[k].text \notin Reserved
  <2>1. k \in 1..Len(l) /\ r[k].type = l[k].type /\ SameOrMinus(r[k], l[k])
    BY Zenon, <1>1, <1>2
  <2>2. l[k].text \notin Reserved
    BY Zenon, <1>4, <2>1 DEF Fit, Apart
  <2> QED BY Zenon, <1>3, <2>1, <2>2 DEF SameOrMinus
<1>5. ASSUME NEW k \in 1..(Len(r) - 1)
      PROVE  /\ r[k].text \in ALOperations => r[k + 1].text # ";"
             /\ r[k].text \in {"buy", "sell"} =>
                   r[k + 1].text \in GameFunctions \/ At(r, k + 2).text = ","
  <2>1. k \in 1..(Len(l) - 1) /\ k \in 1..Len(l) /\ k + 1 \in 1..Len(l)
    BY <1>1
  <2>2. SameOrMinus(r[k], l[k]) /\ SameOrMinus(r[k + 1], l[k + 1])
    BY Zenon, <1>2, <2>1
  <2>3. /\ l[k].text \in ALOperations => l[k + 1].text # ";"
        /\ l[k].text \in {"buy", "sell"} =>
              l[k + 1].text \in GameFunctions \/ At(l, k + 2).text = ","
    BY Zenon, <2>1 DEF Fit
  <2>4. At(l, k + 2).text = "," => At(r, k + 2).text = ","
    <3>1. ASSUME At(l, k + 2).text = ","
          PROVE  At(r, k + 2).text = ","
      <4>1. k + 2 \in Int /\ At(l, k + 2).text # ""
        <5>1. k + 2 \in Int
          BY <2>1
        <5>2. "," # ""
          BY ONLY TRUE
        <5>3. At(l, k + 2).text # ""
          BY Zenon, <3>1, <5>2
        <5> QED BY Zenon, <5>1, <5>3
      <4>2. k + 2 \in 1..Len(l) /\ At(l, k + 2) = l[k + 2]
        BY ONLY l \in Seq(Lexems), <4>1, NamedIsThere
      <4>3. DOMAIN r = 1..Len(l)
        BY <1>1
      <4>4. At(r, k + 2) = r[k + 2]
        BY Zenon, <4>2, <4>3 DEF At
      <4>5. SameOrMinus(r[k + 2], l[k + 2])
        BY Zenon, <1>2, <4>2
      <4> QED BY Zenon, <1>3, <3>1, <4>2, <4>4, <4>5 DEF SameOrMinus
    <3> QED BY Zenon, <3>1
  <2>5. r[k].text \in ALOperations => r[k + 1].text # ";"
    BY Zenon, <1>3, <2>2, <2>3 DEF SameOrMinus
  <2>6. l[k + 1].text \in GameFunctions => r[k + 1].text \in GameFunctions
    BY Zenon, <1>3, <2>2 DEF SameOrMinus
  <2>7. r[k].text \in {"buy", "sell"} => l[k].text \in {"buy", "sell"}
    BY Zenon, <1>3, <2>2 DEF SameOrMinus
  <2> QED BY Zenon, <2>3, <2>4, <2>5, <2>6, <2>7
<1>6. Apart(r)
  BY Zenon, <1>4 DEF Apart
<1> QED BY Zenon, <1>5, <1>6 DEF Fit

LEMMA LabelBalanced ==
    ASSUME NEW l \in Seq(Lexems), Apart(l), ~IllFormed(l), NEW i \in Nat \ {0},
           NEW names \in Seq(Texts), NEW labels \in Seq([name : Texts, oper : Nat \ {0}])
    PROVE  Balanced(LabelOperator(l, i, names, labels))
<1>1. CASE At(l, i + 1).text # ":" \/ i + 2 > Len(l)
  <2>1. LabelOperator(l, i, names, labels) = Refused(names)
    BY ONLY <1>1 DEF LabelOperator
  <2> QED BY ONLY <2>1 DEF Balanced, Refused
<1>2. CASE ~(At(l, i + 1).text # ":" \/ i + 2 > Len(l))
  <2>1. PICK j \in 2..Len(l) : j = i + 2 /\ j - 1 = i + 1
    <3>1. Len(l) \in Nat
      OBVIOUS
    <3> QED BY ONLY <1>2, <3>1, i \in Nat \ {0}
  <2> DEFINE assign == AssignOperator(l, j, names)
             go == GoOperator(l, j, assign.names, labels)
             if == IfOperator(l, j, assign.names, labels)
             game == GameOperator(Rewritten(l, j + 1), j, if.names)
  <2>2. LabelOperator(l, i, names, labels) \in {assign, go, if, game}
    BY ONLY <1>2, <2>1 DEF LabelOperator, LabelledAfter, IfOrGame, OrElse
  <2>3. j \in Nat \ {0} /\ j + 1 \in Nat \ {0} /\ j + 1 <= Len(l) + 1
    BY <2>1
  <2>4. assign.names \in Seq(Texts)
    BY ONLY l \in Seq(Lexems), <2>3, names \in Seq(Texts), AssignMakes DEF Makes
  <2>5. if.names \in Seq(Texts)
    BY ONLY l \in Seq(Lexems), <2>3, <2>4, IfMakes,
            labels \in Seq([name : Texts, oper : Nat \ {0}]) DEF Makes
  <2>6. Balanced(assign)
    BY Zenon, <2>3, AssignBalanced
  <2>7. Balanced(go)
    BY Zenon, GoBalanced
  <2>8. Balanced(if)
    <3>1. l[j - 1].text = ":"
      <4>1. i + 1 \in DOMAIN l
        BY <2>1
      <4>2. At(l, i + 1) = l[i + 1]
        BY Zenon, <4>1 DEF At
      <4> QED BY Zenon, <1>2, <2>1, <4>2
    <3>2. OperandEnds(l, j) => At(l, j + 1).type = "assign"
      BY Zenon, <3>1, PairsOf
    <3> QED BY Zenon, <2>3, <2>4, <3>2, IfBalanced
  <2>9. Balanced(game)
    <3>1. Like(Rewritten(l, j + 1), l)
      BY ONLY l \in Seq(Lexems), <2>3, RewrittenLike
    <3>2. Rewritten(l, j + 1) \in Seq(Lexems)
      BY Zenon, <3>1 DEF Like
    <3>3. Fit(l)
      BY Zenon, FitOf
    <3>4. Fit(Rewritten(l, j + 1))
      BY Zenon, <3>1, <3>2, <3>3, FitRewritten
    <3> QED BY Zenon, <2>3, <2>5, <3>2, <3>4, GameBalanced
  <2> HIDE DEF assign, go, if, game
  <2> QED BY Zenon, <2>2, <2>6, <2>7, <2>8, <2>9
<1> QED BY Zenon, <1>1, <1>2

-----------------------------------------------------------------------------
(* The invariant: the code of every operator is balanced.                  *)
LEMMA CutIs ==
    ASSUME NEW S, NEW s \in Seq(S), NEW m \in Nat \ {0}, NEW n \in Nat, m <= n, n <= Len(s)
    PROVE  /\ SubSeq(s, m, n) \in Seq(S) /\ Len(SubSeq(s, m, n)) = (n + 1) - m
           /\ \A k \in 1..((n + 1) - m) : SubSeq(s, m, n)[k] = s[(m + k) - 1]
OBVIOUS

\* The pieces of two sequences one behind the other.
LEMMA CutBefore ==
    ASSUME NEW S, NEW s \in Seq(S), NEW t \in Seq(S), NEW m \in Nat \ {0}, NEW n \in Nat,
           m <= n, n <= Len(s)
    PROVE  SubSeq(s \o t, m, n) = SubSeq(s, m, n)
<1> DEFINE u == s \o t
           left == SubSeq(u, m, n)
           right == SubSeq(s, m, n)
<1>1. /\ u \in Seq(S) /\ Len(u) = Len(s) + Len(t) /\ \A k \in 1..Len(s) : u[k] = s[k]
      /\ Len(s) \in Nat /\ Len(t) \in Nat
  BY JoinedIs
<1> HIDE DEF u
<1>2. n <= Len(u)
  BY <1>1
<1>3. /\ left \in Seq(S) /\ Len(left) = (n + 1) - m
      /\ \A k \in 1..((n + 1) - m) : left[k] = u[(m + k) - 1]
  BY <1>1, <1>2, CutIs
<1>4. /\ right \in Seq(S) /\ Len(right) = (n + 1) - m
      /\ \A k \in 1..((n + 1) - m) : right[k] = s[(m + k) - 1]
  BY CutIs
<1> HIDE DEF left, right
<1>5. ASSUME NEW k \in 1..((n + 1) - m)
      PROVE  left[k] = right[k]
  <2>1. (m + k) - 1 \in 1..Len(s)
    BY <1>1
  <2> QED BY <1>1, <1>3, <1>4, <2>1
<1>6. left = right
  BY <1>3, <1>4, <1>5, SeqEqual
<1> QED BY <1>6 DEF left, right, u

LEMMA CutBehind ==
    ASSUME NEW S, NEW s \in Seq(S), NEW t \in Seq(S), Len(t) # 0
    PROVE  SubSeq(s \o t, Len(s) + 1, Len(s) + Len(t)) = t
<1> DEFINE u == s \o t
           a == Len(s)
           b == Len(t)
           left == SubSeq(u, a + 1, a + b)
<1>1. /\ u \in Seq(S) /\ Len(u) = a + b /\ \A k \in (a + 1)..(a + b) : u[k] = t[k - a]
      /\ a \in Nat /\ b \in Nat \ {0}
  BY JoinedIs
<1> HIDE DEF u, a
<1>2. Len(t) = b
  OBVIOUS
<1> HIDE DEF b
<1>3. /\ a + 1 \in Nat \ {0} /\ a + b \in Nat /\ a + 1 <= a + b /\ a + b <= Len(u)
      /\ ((a + b) + 1) - (a + 1) = b
  BY <1>1
<1>4. /\ left \in Seq(S) /\ Len(left) = b
      /\ \A k \in 1..b : left[k] = u[((a + 1) + k) - 1]
  <2>1. /\ left \in Seq(S) /\ Len(left) = ((a + b) + 1) - (a + 1)
        /\ \A k \in 1..(((a + b) + 1) - (a + 1)) : left[k] = u[((a + 1) + k) - 1]
    BY <1>1, <1>3, CutIs
  <2> HIDE DEF left
  <2> QED BY <1>3, <2>1
<1> HIDE DEF left
<1>5. ASSUME NEW k \in 1..b
      PROVE  left[k] = t[k]
  <2>1. PICK q \in (a + 1)..(a + b) : q = ((a + 1) + k) - 1 /\ q - a = k
    BY <1>1
  <2> QED BY <1>1, <1>4, <2>1
<1>6. left = t
  BY <1>2, <1>4, <1>5, SeqEqual
<1> QED BY <1>6 DEF left, u, a, b

Piece(code, s, k) == SubSeq(code, s[k], EndOfOperator(s, Len(code), k))
AllLead(code, s) == \A k \in 1..Len(s) : Leads(Piece(code, s, k), 0, 0)

LEMMA LeadsMore ==
    ASSUME NEW code \in Seq(Coded), NEW s \in Seq(Nat \ {0}), NEW m, NEW targets,
           Laid(code, s, m, targets), NEW more \in Seq(Coded), Len(more) # 0,
           AllLead(code, s), Leads(more, 0, 0)
    PROVE  AllLead(code \o more, Append(s, Len(code) + 1))
<1> DEFINE c == code \o more
           u == Append(s, Len(code) + 1)
           a == Len(code)
           b == Len(more)
           q == Len(s)
<1>1. a \in Nat /\ q \in Nat /\ b \in Nat \ {0}
  OBVIOUS
<1>2. c \in Seq(Coded) /\ Len(c) = a + b
  BY JoinedIs
<1>3. /\ Len(u) = q + 1 /\ u[q + 1] = a + 1
      /\ \A j \in 1..q : u[j] = s[j] /\ s[j] \in Nat \ {0}
  OBVIOUS
<1>4. SubSeq(c, a + 1, a + b) = more
  BY CutBehind
<1>5. ASSUME NEW j \in 1..q
      PROVE  /\ s[j] <= EndOfOperator(s, a, j) /\ EndOfOperator(s, a, j) <= a
             /\ Leads(SubSeq(code, s[j], EndOfOperator(s, a, j)), 0, 0)
  BY Zenon DEF Laid, AllLead, Piece
<1> HIDE DEF c, u, q
<1>6. ASSUME NEW j \in 1..(q + 1)
      PROVE  Leads(SubSeq(c, u[j], EndOfOperator(u, a + b, j)), 0, 0)
  <2>1. CASE j = q + 1
    <3>1. EndOfOperator(u, a + b, j) = a + b
      BY Zenon, <1>3, <2>1 DEF EndOfOperator
    <3> QED BY Zenon, <1>3, <1>4, <2>1, <3>1
  <2>2. CASE j \in 1..q
    <3> DEFINE end == EndOfOperator(s, a, j)
    <3>1. EndOfOperator(u, a + b, j) = end
      <4>1. CASE j = q
        <5>1. j # q + 1 /\ j + 1 = q + 1 /\ (a + 1) - 1 = a
          BY ONLY <1>1, <4>1
        <5>2. u[j + 1] - 1 = a
          BY ONLY <1>3, <5>1
        <5>3. end = a
          BY Zenon, <4>1 DEF EndOfOperator, q
        <5> QED BY Zenon, <1>3, <5>1, <5>2, <5>3 DEF EndOfOperator
      <4>2. CASE j # q
        <5>1. j # q + 1 /\ j + 1 \in 1..q
          BY ONLY <1>1, <2>2, <4>2
        <5>2. u[j + 1] = s[j + 1]
          BY Zenon, <1>3, <5>1
        <5> QED BY Zenon, <1>3, <4>2, <5>1, <5>2 DEF EndOfOperator, q
      <4> QED BY <4>1, <4>2
    <3>2. end \in Nat
      <4>1. j # q => j + 1 \in 1..q
        BY <1>1, <2>2
      <4>2. end = IF j = q THEN a ELSE s[j + 1] - 1
        BY DEF EndOfOperator, q
      <4> HIDE DEF end
      <4> QED BY <1>1, <1>3, <4>1, <4>2
    <3>3. u[j] = s[j] /\ s[j] \in Nat \ {0} /\ s[j] <= end /\ end <= a
      BY Zenon, <1>3, <1>5, <2>2
    <3> HIDE DEF end
    <3>4. SubSeq(c, s[j], end) = SubSeq(code, s[j], end)
      BY <3>2, <3>3, CutBefore DEF c
    <3>5. Leads(SubSeq(code, s[j], end), 0, 0)
      BY Zenon, <1>5, <2>2 DEF end
    <3> QED BY Zenon, <3>1, <3>3, <3>4, <3>5
  <2>3. j = q + 1 \/ j \in 1..q
    BY <1>1
  <2> QED BY <2>1, <2>2, <2>3
<1>7. AllLead(c, u)
  BY Zenon, <1>2, <1>3, <1>6 DEF AllLead, Piece
<1> QED BY Zenon, <1>7 DEF c, u

\* The script stays, and what has been compiled of one that is not ill-formed leads from
\* an empty stack to an empty stack operator by operator.
Settled ==
    /\ Apart(lexems)
    /\ ~IllFormed(lexems) => AllLead(operators_list, starts)
    /\ status = "refused" => starts = <<>>

LEMMA NothingLeads == AllLead(<<>>, <<>>)
<1>1. \A k \in 1..Len(<<>>) : FALSE
  OBVIOUS
<1> QED BY Zenon, <1>1 DEF AllLead

LEMMA InitSettled == Init => Settled
<1> SUFFICES ASSUME Init PROVE Settled
  OBVIOUS
<1>1. DOMAIN lexems = 1..Len(lexems)
  <2>1. lexems \in Seq([type : STRING, text : STRING, n : Int])
    BY ScriptsAssumption, Zenon DEF Init
  <2> QED BY <2>1, PlacesOf
<1>2. Apart(lexems)
  BY ScriptsAssumption, <1>1, Zenon DEF Init, Apart
<1>3. operators_list = <<>> /\ starts = <<>>
  BY DEF Init
<1> QED BY Zenon, <1>2, <1>3, NothingLeads DEF Settled

LEMMA ProceedSettles ==
    ASSUME Typed, LaidOut, Settled, status = "reading",
           NEW r, Makes(r, vars_list, Targets(labels_list)), Proceed(r),
           ~IllFormed(lexems) => Balanced(r)
    PROVE  Settled'
<1>1. lexems' = lexems
  BY DEF Proceed
<1>2. ASSUME ~IllFormed(lexems)
      PROVE  AllLead(operators_list', starts')
  <2>1. AllLead(operators_list, starts)
    BY Zenon, <1>2 DEF Settled
  <2>2. CASE r.is = "ok"
    <3>1. /\ operators_list' = operators_list \o r.code
          /\ starts' = Append(starts, Len(operators_list) + 1)
      BY <2>2 DEF Proceed
    <3>2. Ended(r.code, Len(r.names), Targets(labels_list)) /\ Leads(r.code, 0, 0)
      BY Zenon, <1>2, <2>2 DEF Makes, Balanced
    <3>3. r.code \in Seq(Coded) /\ Len(r.code) # 0
      BY ONLY <3>2 DEF Ended
    <3>4. Laid(operators_list, starts, Len(vars_list), Targets(labels_list))
      BY DEF LaidOut
    <3>5. operators_list \in Seq(Coded) /\ starts \in Seq(Nat \ {0})
      BY DEF Typed
    <3>6. AllLead(operators_list \o r.code, Append(starts, Len(operators_list) + 1))
      BY ONLY <2>1, <3>2, <3>3, <3>4, <3>5, LeadsMore
    <3> QED BY Zenon, <3>1, <3>6
  <2>3. CASE r.is = "no"
    <3>1. operators_list' = <<>> /\ starts' = <<>>
      BY <2>3 DEF Proceed
    <3> QED BY Zenon, <3>1, NothingLeads
  <2>4. CASE r.is = "undefined"
    <3>1. operators_list' = operators_list /\ starts' = starts
      BY <2>4 DEF Proceed
    <3> QED BY Zenon, <2>1, <3>1
  <2>5. r.is \in {"ok", "no", "undefined"}
    BY DEF Makes
  <2> QED BY <2>2, <2>3, <2>4, <2>5
<1>3. Settled' <=> /\ Apart(lexems')
                   /\ ~IllFormed(lexems') => AllLead(operators_list', starts')
                   /\ status' = "refused" => starts' = <<>>
  BY DEF Settled
<1>4. Apart(lexems)
  BY DEF Settled
<1>5. status' = "refused" => starts' = <<>>
  BY DEF Proceed
<1> QED BY Zenon, <1>1, <1>2, <1>3, <1>4, <1>5

LEMMA NextSettled == Typed /\ LaidOut /\ Settled /\ [Next]_vars => Settled'
<1> SUFFICES ASSUME Typed, LaidOut, Settled, [Next]_vars PROVE Settled'
  OBVIOUS
<1> DEFINE l == lexems
           i == list
           names == vars_list
           labels == labels_list
           t == Targets(labels)
<1>1. l \in Seq(Lexems) /\ i \in Nat \ {0} /\ names \in Seq(Texts)
      /\ labels \in Seq([name : Texts, oper : Nat \ {0}])
  BY DEF Typed
<1>2. Apart(l)
  BY DEF Settled
<1> HIDE DEF l, i, names, labels, t
<1>3. ASSUME NEW r, Reading, Makes(r, names, t), Proceed(r), ~IllFormed(l) => Balanced(r)
      PROVE  Settled'
  <2>1. status = "reading"
    BY <1>3 DEF Reading
  <2> QED BY Zenon, <1>3, <2>1, ProceedSettles DEF l, names, labels, t
<1>4. Makes(Refused(names), names, t) /\ Balanced(Refused(names))
  <2>1. Len(names) <= Len(names)
    BY <1>1
  <2>2. Balanced(Refused(names))
    BY DEF Balanced, Refused
  <2> QED BY Zenon, <1>1, <2>1, <2>2, RefusedMakes
<1>5. CASE Label
  <2>1. Proceed(LabelOperator(l, i, names, labels)) /\ Reading
    BY <1>5, Zenon DEF Label, l, i, names, labels
  <2>2. Makes(LabelOperator(l, i, names, labels), names, t)
    BY <1>1, LabelMakes DEF t
  <2>3. ~IllFormed(l) => Balanced(LabelOperator(l, i, names, labels))
    BY Zenon, <1>1, <1>2, LabelBalanced
  <2> QED BY Zenon, <1>3, <2>1, <2>2, <2>3
<1>6. CASE Assign
  <2>1. Proceed(AssignOperator(l, i, names)) /\ Reading
    BY <1>6, Zenon DEF Assign, l, i, names
  <2>2. Makes(AssignOperator(l, i, names), names, t)
    BY <1>1, AssignMakes
  <2>3. ~IllFormed(l) => Balanced(AssignOperator(l, i, names))
    BY Zenon, <1>1, <1>2, AssignBalanced
  <2> QED BY Zenon, <1>3, <2>1, <2>2, <2>3
<1>7. CASE If
  <2>1. Proceed(IfOperator(l, i, names, labels)) /\ Reading /\ l[i].text = "if"
    BY <1>7, Zenon DEF If, l, i, names, labels
  <2>2. Makes(IfOperator(l, i, names, labels), names, t)
    BY <1>1, IfMakes DEF t
  <2>3. ~OperandEnds(l, i)
    <3>1. i \in 1..Len(l)
      <4>1. i <= Len(l)
        BY <2>1, Zenon DEF Reading, l, i
      <4> QED BY <1>1, <4>1
    <3>2. "if" \in Reserved /\ "if" # ")"
      BY Zenon DEF Reserved
    <3> QED BY Zenon, <1>2, <2>1, <3>1, <3>2 DEF Apart, OperandEnds
  <2>4. ~IllFormed(l) => Balanced(IfOperator(l, i, names, labels))
    BY Zenon, <1>1, <1>2, <2>3, IfBalanced
  <2> QED BY Zenon, <1>3, <2>1, <2>2, <2>4
<1>8. CASE Game
  <2>1. Proceed(GameOperator(l, i, names)) /\ Reading
    BY <1>8, Zenon DEF Game, l, i, names
  <2>2. Makes(GameOperator(l, i, names), names, t)
    BY <1>1, GameMakes
  <2>3. ~IllFormed(l) => Balanced(GameOperator(l, i, names))
    BY Zenon, <1>1, <1>2, FitOf, GameBalanced
  <2> QED BY Zenon, <1>3, <2>1, <2>2, <2>3
<1>9. CASE Goto
  <2> DEFINE r == IF starts = <<>> THEN Refused(names) ELSE GoOperator(l, i, names, labels)
  <2>1. Proceed(r) /\ Reading
    BY <1>9, Zenon DEF Goto, l, i, names, labels
  <2>2. Makes(GoOperator(l, i, names, labels), names, t)
    BY <1>1, GoMakes DEF t
  <2>3. Balanced(GoOperator(l, i, names, labels))
    BY Zenon, <1>1, GoBalanced
  <2>4. Makes(r, names, t) /\ Balanced(r)
    BY Zenon, <1>4, <2>2, <2>3
  <2> HIDE DEF r
  <2> QED BY Zenon, <1>3, <2>1, <2>4
<1>10. CASE Unknown
  <2>1. Proceed(Refused(names)) /\ Reading
    BY <1>10, Zenon DEF Unknown, names
  <2> QED BY Zenon, <1>3, <1>4, <2>1
<1>11. CASE Finish \/ UNCHANGED vars
  <2>1. UNCHANGED <<lexems, operators_list, starts>> /\ (status' = "refused" => status = "refused")
    BY <1>11 DEF Finish, vars, tables
  <2> QED BY <2>1, Zenon DEF Settled
<1> QED BY <1>5, <1>6, <1>7, <1>8, <1>9, <1>10, <1>11 DEF Next

\* In every script that is not ill-formed every operator finds on the stack what it takes
\* and leaves the stack empty, whatever operands of the language it is made of.
THEOREM CompilerBalances == Spec => []BalancedOperators
<1>1. Init => Typed /\ LaidOut /\ Settled
  BY InitTyped, InitSettled
<1>2. Typed /\ LaidOut /\ Settled /\ [Next]_vars => (Typed /\ LaidOut /\ Settled)'
  BY NextTyped, NextSettled
<1>3. Typed /\ LaidOut /\ Settled => BalancedOperators
  <2> SUFFICES ASSUME Typed, Settled, ~IllFormed(lexems), LaidOut, NEW k \in 1..Len(starts)
               PROVE  Heights(CodeOf(k))[Len(CodeOf(k))] = 0
    BY Zenon DEF BalancedOperators
  <2>1. CodeOf(k) = Piece(operators_list, starts, k)
    BY Zenon DEF CodeOf, Piece, EndOfOperator
  <2>2. Leads(CodeOf(k), 0, 0)
    BY Zenon, <2>1 DEF Settled, AllLead
  <2>3. CodeOf(k) \in Seq(Coded)
    <3>1. starts # <<>>
      OBVIOUS
    <3>2. Laid(operators_list, starts, Len(vars_list), Targets(labels_list))
      BY Zenon, <3>1 DEF Settled, LaidOut
    <3> DEFINE end == EndOfOperator(starts, Len(operators_list), k)
    <3>3. starts[k] <= end /\ end <= Len(operators_list)
      BY Zenon, <3>2 DEF Laid
    <3>4. operators_list \in Seq(Coded) /\ starts \in Seq(Nat \ {0})
      BY DEF Typed
    <3>5. Len(starts) \in Nat /\ starts[k] \in Nat \ {0} /\ Len(operators_list) \in Nat
      BY <3>4
    <3>6. end \in Nat
      <4>1. k # Len(starts) => starts[k + 1] \in Nat \ {0}
        <5>1. k # Len(starts) => k + 1 \in 1..Len(starts)
          BY <3>5
        <5> QED BY <3>4, <5>1
      <4> QED BY <3>5, <4>1 DEF EndOfOperator
    <3> HIDE DEF end
    <3>7. SubSeq(operators_list, starts[k], end) \in Seq(Coded)
      BY <3>3, <3>4, <3>5, <3>6, CutIs
    <3> QED BY Zenon, <2>1, <3>7 DEF Piece, end
  <2> QED BY <2>2, <2>3, HeightsAre
<1> QED BY <1>1, <1>2, <1>3, PTL DEF Spec
=============================================================================
