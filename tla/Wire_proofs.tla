---------------------------- MODULE Wire_proofs ----------------------------
(***************************************************************************)
(* Theorems of Wire, for every size of the buffer and of the connection,   *)
(* every message and every way to take the stream apart.                   *)
(*                                                                         *)
(* What is read of a line, what the connection holds and what is still to  *)
(* be sent are one run of bytes.  It ends with the end of the last message *)
(* and begins behind all lines that were taken notice of.                  *)
(***************************************************************************)
EXTENDS WireProperties, SequenceTheorems, WellFoundedInduction, TLAPS

\* A byte of a message that was sent.
Byte == {x \in [m : 1..Len(told), b : Int] : x.b \in {LF, NUL} \cup 1..Text(told[x.m])}

Pending == (IF at = "readline" THEN buffer ELSE <<>>) \o stream \o out

\* The byte that comes behind x when these texts are sent.
Following(texts, x) ==
    IF x.b = NUL THEN [m |-> x.m + 1, b |-> 1]
    ELSE IF x.b = LF THEN [m |-> x.m, b |-> NUL]
    ELSE IF x.b = Text(texts[x.m]) THEN [m |-> x.m, b |-> LF]
    ELSE [m |-> x.m, b |-> x.b + 1]

After(x) == Following(told, x)

IsRun(s) == \A i \in 1..(Len(s) - 1) : s[i + 1] = After(s[i])

\* The byte x is behind the text and the line feed of message n.
Past(n, x) == n < x.m \/ (n = x.m /\ x.b = NUL)

TypeOK ==
    /\ told \in Seq(Lengths)
    /\ out \in Seq(Byte) /\ stream \in Seq(Byte) /\ buffer \in Seq(Byte)
    /\ Len(buffer) <= BufSize
    /\ at \in {"select", "readline", "lines", "gone", "undefined"}
    /\ shown \in Seq(Seq(Byte) \ {<<>>})

InOrder ==
    /\ IsRun(Pending)
    /\ Pending # <<>> => Pending[Len(Pending)] = [m |-> Len(told), b |-> NUL]
    /\ closed => out = <<>>
    /\ at = "readline" => Goes(buffer)

-----------------------------------------------------------------------------
(* Texts and bytes.                                                        *)

LEMMA TextRange == \A len \in Lengths : Text(len) \in 1..(BufSize - 2)
BY WireAssumption DEF Text

LEMMA ByteFacts ==
    ASSUME TypeOK, NEW x \in Byte
    PROVE  /\ x.m \in 1..Len(told) /\ Len(told) \in Nat /\ x.b \in Int
           /\ Text(told[x.m]) \in 1..(BufSize - 2)
           /\ x.b \in {LF, NUL} \cup 1..Text(told[x.m])
           /\ x = [m |-> x.m, b |-> x.b]
<1>1. told \in Seq(Lengths) /\ Len(told) \in Nat
  BY DEF TypeOK
<1>2. x.m \in 1..Len(told) /\ x.b \in Int /\ x.b \in {LF, NUL} \cup 1..Text(told[x.m])
      /\ x = [m |-> x.m, b |-> x.b]
  BY DEF Byte
<1>3. told[x.m] \in Lengths
  BY <1>1, <1>2
<1> QED BY <1>1, <1>2, <1>3, TextRange

\* A set of numbers that is not empty has a least one.
LEMMA Least ==
    ASSUME NEW S \in SUBSET Nat, S # {}
    PROVE  \E k \in S : \A j \in S : k <= j
<1>1. \E k \in S : \A j \in S : ~(<<j, k>> \in OpToRel(<, Nat))
  BY NatLessThanWellFounded, WFMin
<1>2. PICK k \in S : \A j \in S : ~(<<j, k>> \in OpToRel(<, Nat))
  BY <1>1
<1>3. \A j \in S : ~(j < k)
  BY <1>2 DEF OpToRel
<1> QED BY <1>3

-----------------------------------------------------------------------------
(* Runs of bytes.                                                          *)

\* Without a line feed a run that begins in a text stays in it.
LEMMA TextRun ==
    ASSUME TypeOK, NEW s \in Seq(Byte), IsRun(s), NEW n \in 1..Len(s), s[1].b >= 1,
           \A i \in 1..(n - 1) : s[i].b # LF, NEW i \in 1..n, i < n \/ s[i].b # LF
    PROVE  s[i].m = s[1].m /\ s[i].b = s[1].b + i - 1
<1> DEFINE Good(j) == s[j].m = s[1].m /\ s[j].b = s[1].b + j - 1
           bad == {j \in 1..i : ~Good(j)}
<1>1. Len(s) \in Nat /\ \A j \in 1..Len(s) : s[j] \in Byte
  OBVIOUS
<1>2. SUFFICES ASSUME bad # {} PROVE FALSE
  BY <1>1
<1>3. PICK j \in bad : \A k \in bad : j <= k
  <2>1. bad \in SUBSET Nat
    BY <1>1
  <2> HIDE DEF bad
  <2> QED BY <1>2, <2>1, Least
<1>4. j \in 1..i /\ i \in 1..Len(s) /\ j \in Nat
  BY <1>1
<1>5. s[1] \in Byte /\ s[1].b \in Int /\ s[1].m \in Int
  BY <1>1, <1>4, ByteFacts
<1>6. j # 1
  BY <1>3, <1>5
<1>7. j - 1 \in 1..i /\ j - 1 \notin bad
  BY <1>3, <1>4, <1>6
<1>8. Good(j - 1)
  BY <1>7
<1> HIDE DEF bad
<1>9. s[j - 1] \in Byte /\ s[j] = After(s[j - 1]) /\ s[j] \in Byte
  BY <1>1, <1>4, <1>7 DEF IsRun
<1>10. s[j].b # LF
  BY <1>4
<1>11. s[j - 1].b >= 1 /\ s[j - 1].b \in Int /\ s[j - 1].b # LF /\ s[j - 1].b # NUL
  BY <1>4, <1>5, <1>6, <1>8 DEF LF, NUL
<1>12. s[j] = [m |-> s[j - 1].m, b |-> s[j - 1].b + 1]
  BY <1>9, <1>10, <1>11 DEF After, Following
<1>13. Good(j)
  BY <1>4, <1>5, <1>8, <1>12
<1> QED BY <1>3, <1>13 DEF bad

\* What is behind the line of message n in a run stays behind it.
LEMMA PastRun ==
    ASSUME TypeOK, NEW s \in Seq(Byte), IsRun(s), NEW n \in Int,
           NEW i \in 1..Len(s), Past(n, s[i])
    PROVE  \A j \in i..Len(s) : Past(n, s[j])
<1> DEFINE bad == {j \in i..Len(s) : ~Past(n, s[j])}
<1>1. Len(s) \in Nat /\ \A j \in 1..Len(s) : s[j] \in Byte
  OBVIOUS
<1>2. SUFFICES ASSUME bad # {} PROVE FALSE
  OBVIOUS
<1>3. PICK j \in bad : \A k \in bad : j <= k
  <2>1. bad \in SUBSET Nat
    BY <1>1
  <2> HIDE DEF bad
  <2> QED BY <1>2, <2>1, Least
<1>4. j \in i..Len(s) /\ j # i /\ j - 1 \in i..Len(s) /\ j - 1 \notin bad
  BY <1>1, <1>3
<1>5. Past(n, s[j - 1])
  BY <1>4
<1>6. j - 1 \in 1..(Len(s) - 1) /\ s[j - 1] \in Byte /\ s[j] = After(s[j - 1])
  BY <1>1, <1>4 DEF IsRun
<1>7. s[j - 1].m \in Int
  BY <1>6, ByteFacts
<1>8. Past(n, s[j])
  BY <1>5, <1>6, <1>7 DEF Past, After, Following, LF, NUL
<1> QED BY <1>3, <1>8

\* Behind the zero of message n there are the messages that follow it.
LEMMA BehindZero ==
    ASSUME TypeOK, NEW s \in Seq(Byte), IsRun(s), NEW i \in 1..Len(s), s[i].b = NUL
    PROVE  \A j \in (i + 1)..Len(s) : s[j].m > s[i].m
<1>1. Len(s) \in Nat /\ \A j \in 1..Len(s) : s[j] \in Byte
  OBVIOUS
<1>2. CASE i + 1 <= Len(s)
  <2>1. i \in 1..(Len(s) - 1) /\ s[i + 1] = After(s[i]) /\ s[i].m \in Int
    <3>1. i \in 1..(Len(s) - 1) /\ s[i] \in Byte
      BY <1>1, <1>2
    <3>2. s[i + 1] = After(s[i])
      BY <3>1 DEF IsRun
    <3>3. s[i].m \in Int
      BY <3>1, ByteFacts
    <3> QED BY <3>1, <3>2, <3>3
  <2>2. s[i + 1].m = s[i].m + 1 /\ s[i + 1].b = 1
    BY <2>1 DEF After, Following
  <2> DEFINE bad == {j \in (i + 1)..Len(s) : ~(s[j].m > s[i].m)}
  <2>3. SUFFICES ASSUME bad # {} PROVE FALSE
    OBVIOUS
  <2>4. PICK j \in bad : \A k \in bad : j <= k
    <3>1. bad \in SUBSET Nat
      BY <1>1
    <3> HIDE DEF bad
    <3> QED BY <2>3, <3>1, Least
  <2>5. j \in (i + 1)..Len(s) /\ j # i + 1 /\ j - 1 \in (i + 1)..Len(s) /\ j - 1 \notin bad
    BY <1>1, <2>1, <2>2, <2>4
  <2>6. s[j - 1].m > s[i].m
    BY <2>5
  <2>7. s[j - 1] \in Byte /\ s[j - 1].m \in Int /\ s[j] = After(s[j - 1])
    <3>1. j - 1 \in 1..(Len(s) - 1) /\ s[j - 1] \in Byte /\ j = (j - 1) + 1
      BY <1>1, <2>5
    <3>2. s[(j - 1) + 1] = After(s[j - 1])
      BY <3>1 DEF IsRun
    <3>3. s[j - 1].m \in Int
      BY <3>1, ByteFacts
    <3> QED BY <3>1, <3>2, <3>3
  <2>8. s[j].m > s[i].m
    BY <2>1, <2>6, <2>7 DEF After, Following
  <2> QED BY <2>4, <2>8
<1> QED BY <1>1, <1>2

-----------------------------------------------------------------------------
(* Operators on sequences.                                                 *)

LEMMA SeqOfMore ==
    ASSUME NEW A, NEW B, A \subseteq B
    PROVE  Seq(A) \subseteq Seq(B)
BY SeqMonotonic

\* A sequence is its first n elements and the others.
LEMMA InTwo ==
    ASSUME NEW A, NEW s \in Seq(A), NEW n \in 0..Len(s)
    PROVE  /\ SubSeq(s, 1, n) \in Seq(A) /\ Len(SubSeq(s, 1, n)) = n
           /\ \A i \in 1..n : SubSeq(s, 1, n)[i] = s[i]
           /\ SubSeq(s, n + 1, Len(s)) \in Seq(A) /\ Len(SubSeq(s, n + 1, Len(s))) = Len(s) - n
           /\ \A i \in 1..(Len(s) - n) : SubSeq(s, n + 1, Len(s))[i] = s[n + i]
           /\ SubSeq(s, 1, n) \o SubSeq(s, n + 1, Len(s)) = s
<1>1. Len(s) \in Nat /\ \A i \in 1..Len(s) : s[i] \in A
  OBVIOUS
<1>2. /\ SubSeq(s, 1, n) \in Seq(A) /\ Len(SubSeq(s, 1, n)) = n
      /\ \A i \in 1..n : SubSeq(s, 1, n)[i] = s[i]
  <2>1. \A i \in 1..n : s[i] \in A
    BY <1>1
  <2>2. /\ SubSeq(s, 1, n) \in Seq(A)
        /\ Len(SubSeq(s, 1, n)) = IF 1 <= n THEN n - 1 + 1 ELSE 0
        /\ \A i \in 1..(n - 1 + 1) : SubSeq(s, 1, n)[i] = s[1 + i - 1]
    BY <2>1, <1>1, SubSeqProperties
  <2> QED BY <2>2, <1>1
<1>3. /\ SubSeq(s, n + 1, Len(s)) \in Seq(A) /\ Len(SubSeq(s, n + 1, Len(s))) = Len(s) - n
      /\ \A i \in 1..(Len(s) - n) : SubSeq(s, n + 1, Len(s))[i] = s[n + i]
  <2>1. \A i \in (n + 1)..Len(s) : s[i] \in A
    BY <1>1
  <2>2. n + 1 \in Int /\ Len(s) \in Int
    BY <1>1
  <2>3. /\ SubSeq(s, n + 1, Len(s)) \in Seq(A)
        /\ Len(SubSeq(s, n + 1, Len(s))) = IF n + 1 <= Len(s) THEN Len(s) - (n + 1) + 1 ELSE 0
        /\ \A i \in 1..(Len(s) - (n + 1) + 1) :
               SubSeq(s, n + 1, Len(s))[i] = s[(n + 1) + i - 1]
    BY <2>1, <2>2, SubSeqProperties
  <2> DEFINE r == SubSeq(s, n + 1, Len(s))
             k == Len(s)
  <2>4. Len(r) = k - n
    BY <2>3, <1>1
  <2>5. \A i \in 1..(k - n) : r[i] = s[n + i]
    <3> HIDE DEF k
    <3>1. SUFFICES ASSUME NEW i \in 1..(k - n) PROVE r[i] = s[n + i]
      OBVIOUS
    <3>2. k \in Nat /\ n \in Nat
      BY <1>1 DEF k
    <3>3. i \in 1..(k - (n + 1) + 1) /\ (n + 1) + i - 1 = n + i
      BY <3>2
    <3>4. r[i] = s[(n + 1) + i - 1]
      BY <2>3, <3>3 DEF k
    <3> QED BY <3>3, <3>4
  <2> QED BY <2>3, <2>4, <2>5
<1>4. SubSeq(s, 1, n) \o SubSeq(s, n + 1, Len(s)) = SubSeq(s, 1, Len(s))
  <2>1. 1 \in 1..(Len(s) + 1) /\ n \in (1 - 1)..Len(s) /\ Len(s) \in n..Len(s)
    BY <1>1
  <2> QED BY <2>1, ConcatAdjacentSubSeq
<1>5. SubSeq(s, 1, Len(s)) = s
  BY SubSeqFull
<1> QED BY <1>2, <1>3, <1>4, <1>5

\* What a message is on its way: its text, a line feed and a zero.
LEMMA BytesOf ==
    ASSUME NEW k \in Int, NEW len \in Lengths
    PROVE  /\ Bytes(k, len) \in Seq([m : {k}, b : {LF, NUL} \cup 1..Text(len)])
           /\ Text(len) \in 1..(BufSize - 2)
           /\ Len(Bytes(k, len)) = Text(len) + 2
           /\ \A i \in 1..Text(len) : Bytes(k, len)[i] = [m |-> k, b |-> i]
           /\ Bytes(k, len)[Text(len) + 1] = [m |-> k, b |-> LF]
           /\ Bytes(k, len)[Text(len) + 2] = [m |-> k, b |-> NUL]
<1> DEFINE T == Text(len)
           S == [m : {k}, b : {LF, NUL} \cup 1..T]
           s == [i \in 1..T |-> [m |-> k, b |-> i]]
           e == Ending(k)
<1>1. T \in Nat /\ T \in 1..(BufSize - 2)
  BY TextRange, WireAssumption
<1> HIDE DEF T
<1>2. \A i \in 1..T : [m |-> k, b |-> i] \in S
  OBVIOUS
<1>3. s \in Seq(S) /\ Len(s) = T /\ \A i \in 1..T : s[i] = [m |-> k, b |-> i]
  BY <1>1, <1>2, IsASeq
<1>4. e \in Seq(S) /\ Len(e) = 2 /\ e[1] = [m |-> k, b |-> LF] /\ e[2] = [m |-> k, b |-> NUL]
  BY DEF Ending
<1>5. Bytes(k, len) = s \o e
  BY DEF Bytes, T
<1> HIDE DEF s, e, S
<1>6. s \o e \in Seq(S) /\ Len(s \o e) = T + 2
      /\ \A i \in 1..(T + 2) : (s \o e)[i] = IF i <= T THEN s[i] ELSE e[i - T]
  <2>1. /\ s \o e \in Seq(S) /\ Len(s \o e) = Len(s) + Len(e)
        /\ \A i \in 1..(Len(s) + Len(e)) :
               (s \o e)[i] = IF i <= Len(s) THEN s[i] ELSE e[i - Len(s)]
    BY <1>3, <1>4, ConcatProperties
  <2> QED BY <2>1, <1>3, <1>4
<1>7. (s \o e)[T + 1] = e[1] /\ (s \o e)[T + 2] = e[2]
  BY <1>1, <1>6
<1> QED BY <1>1, <1>3, <1>4, <1>5, <1>6, <1>7 DEF S, T

\* A run without its beginning is a run.
LEMMA RunRest ==
    ASSUME NEW s \in Seq(Byte), IsRun(s), NEW n \in 0..Len(s)
    PROVE  IsRun(SubSeq(s, n + 1, Len(s)))
<1> DEFINE r == SubSeq(s, n + 1, Len(s))
<1>1. Len(s) \in Nat /\ n \in Nat /\ Len(r) = Len(s) - n /\ \A i \in 1..(Len(s) - n) : r[i] = s[n + i]
  BY InTwo
<1> HIDE DEF r
<1>2. SUFFICES ASSUME NEW i \in 1..(Len(r) - 1) PROVE r[i + 1] = After(r[i])
  BY DEF IsRun, r
<1>3. n + i \in 1..(Len(s) - 1) /\ i \in 1..(Len(s) - n) /\ i + 1 \in 1..(Len(s) - n)
      /\ (n + i) + 1 = n + (i + 1)
  BY <1>1
<1>4. r[i] = s[n + i] /\ r[i + 1] = s[n + (i + 1)]
  BY <1>1, <1>3
<1>5. s[(n + i) + 1] = After(s[n + i])
  BY <1>3 DEF IsRun
<1> QED BY <1>3, <1>4, <1>5

-----------------------------------------------------------------------------
(* Types.                                                                  *)

\* What was told before stays as it was.
LEMMA MoreTold ==
    ASSUME TypeOK, NEW len \in Lengths, told' = Append(told, len)
    PROVE  /\ told' \in Seq(Lengths) /\ Len(told') = Len(told) + 1 /\ Len(told) \in Nat
           /\ told'[Len(told) + 1] = len
           /\ \A m \in 1..Len(told) : told'[m] = told[m]
           /\ Byte \subseteq Byte'
           /\ \A x \in Byte : Following(told', x) = After(x)
<1>1. told \in Seq(Lengths) /\ Len(told) \in Nat
  BY DEF TypeOK
<1>2. /\ told' \in Seq(Lengths) /\ Len(told') = Len(told) + 1
      /\ told'[Len(told) + 1] = len
      /\ \A m \in 1..Len(told) : told'[m] = told[m]
  BY <1>1, AppendProperties
<1>3. Byte \subseteq Byte'
  <2> SUFFICES ASSUME NEW x \in Byte PROVE x \in Byte'
    OBVIOUS
  <2>1. x \in [m : 1..Len(told), b : Int] /\ x.b \in {LF, NUL} \cup 1..Text(told[x.m])
    BY DEF Byte
  <2>2. x \in [m : 1..Len(told'), b : Int]
    BY <2>1, <1>1, <1>2
  <2>3. told'[x.m] = told[x.m]
    BY <2>1, <1>2
  <2> QED BY <2>1, <2>2, <2>3 DEF Byte
<1>4. \A x \in Byte : Following(told', x) = After(x)
  <2> SUFFICES ASSUME NEW x \in Byte PROVE Following(told', x) = After(x)
    OBVIOUS
  <2>1. x.m \in 1..Len(told)
    BY DEF Byte
  <2>2. told'[x.m] = told[x.m]
    BY <2>1, <1>2
  <2> QED BY <2>2 DEF After, Following
<1> QED BY <1>1, <1>2, <1>3, <1>4

LEMMA SameTold ==
    ASSUME UNCHANGED told
    PROVE  /\ Byte' = Byte
           /\ \A x : Following(told', x) = After(x)
BY DEF Byte, After, Following

\* What one read finds, and what it leaves.
LEMMA ReadFacts ==
    ASSUME TypeOK, NEW n \in 1..BufSize, n <= Len(stream), Len(buffer) + n <= BufSize
    PROVE  LET bytes == buffer \o SubSeq(stream, 1, n)
               rest  == SubSeq(stream, n + 1, Len(stream))
           IN  /\ bytes \in Seq(Byte) /\ rest \in Seq(Byte)
               /\ Len(bytes) \in 1..BufSize /\ Len(bytes) = Len(buffer) + n
               /\ bytes \o rest = buffer \o stream
<1> DEFINE a == SubSeq(stream, 1, n)
           bytes == buffer \o a
           rest  == SubSeq(stream, n + 1, Len(stream))
<1>1. buffer \in Seq(Byte) /\ stream \in Seq(Byte) /\ Len(buffer) \in Nat /\ BufSize \in Nat
      /\ Len(stream) \in Nat
  BY WireAssumption DEF TypeOK
<1>2. n \in 0..Len(stream)
  BY <1>1
<1>3. a \in Seq(Byte) /\ Len(a) = n /\ rest \in Seq(Byte) /\ a \o rest = stream
  BY <1>1, <1>2, InTwo
<1> HIDE DEF a, rest
<1>4. bytes \in Seq(Byte) /\ Len(bytes) = Len(buffer) + n
  BY <1>1, <1>3, ConcatProperties
<1>5. bytes \o rest = buffer \o stream
  <2>1. (buffer \o a) \o rest = buffer \o (a \o rest)
    <3>1. buffer \in Seq(Byte) /\ a \in Seq(Byte) /\ rest \in Seq(Byte)
      BY <1>1, <1>3
    <3> QED BY ONLY <3>1, ConcatAssociative
  <2> QED BY <2>1, <1>3
<1>6. Len(bytes) \in 1..BufSize
  BY <1>1, <1>4
<1> HIDE DEF bytes
<1> QED BY <1>3, <1>4, <1>5, <1>6 DEF a, rest, bytes

\* The last byte is made a line feed.
LEMMA ForcedType ==
    ASSUME TypeOK, NEW s \in Seq(Byte), s # <<>>
    PROVE  /\ Forced(s) \in Seq(Byte) /\ Len(Forced(s)) = Len(s) /\ HasLF(Forced(s))
           /\ \A i \in 1..(Len(s) - 1) : Forced(s)[i] = s[i]
<1>1. Len(s) \in Nat /\ Len(s) >= 1 /\ \A i \in 1..Len(s) : s[i] \in Byte
  OBVIOUS
<1>2. CASE HasLF(s)
  BY <1>1, <1>2 DEF Forced
<1>3. CASE ~HasLF(s)
  <2> DEFINE f == Front(s)
             e == [Last(s) EXCEPT !.b = LF]
  <2>1. f \in Seq(Byte) /\ Len(f) = Len(s) - 1 /\ \A i \in 1..(Len(s) - 1) : f[i] = s[i]
    <3>1. Len(s) - 1 \in 0..Len(s)
      BY <1>1
    <3> QED BY <3>1, InTwo DEF Front
  <2>2. e \in Byte /\ e.b = LF
    <3>1. s[Len(s)] \in Byte
      BY <1>1
    <3> QED BY <3>1 DEF Last, Byte, LF
  <2> HIDE DEF f, e
  <2>3. <<e>> \in Seq(Byte) /\ Len(<<e>>) = 1 /\ <<e>>[1] = e
    BY <2>2
  <2>4. /\ f \o <<e>> \in Seq(Byte) /\ Len(f \o <<e>>) = Len(f) + Len(<<e>>)
        /\ \A i \in 1..(Len(f) + Len(<<e>>)) :
               (f \o <<e>>)[i] = IF i <= Len(f) THEN f[i] ELSE <<e>>[i - Len(f)]
    BY <2>1, <2>3, ConcatProperties
  <2> DEFINE r == f \o <<e>>
  <2>5. r \in Seq(Byte) /\ Len(r) = Len(s) /\ r[Len(s)] = e
        /\ \A i \in 1..(Len(s) - 1) : r[i] = s[i]
    <3> HIDE DEF r
    <3>1. /\ r \in Seq(Byte) /\ Len(r) = Len(s)
          /\ \A i \in 1..Len(s) : r[i] = IF i <= Len(s) - 1 THEN s[i] ELSE e
      BY <1>1, <2>1, <2>3, <2>4 DEF r
    <3> QED BY <3>1, <1>1
  <2>6. Forced(s) = r
    BY <1>3 DEF Forced, f, e
  <2> HIDE DEF r
  <2>7. HasLF(r)
    BY <2>2, <2>5, <1>1 DEF HasLF
  <2> QED BY <2>5, <2>6, <2>7
<1> QED BY <1>2, <1>3

First(s, b) == SelectInSeq(s, LAMBDA byte : byte.b = b)

LineIn(s) == IF First(s, NUL) \in 1..First(s, LF) THEN <<>> ELSE SubSeq(s, 1, First(s, LF) - 1)

LEMMA LineIsIn == Line = LineIn(buffer) /\ Line' = LineIn(buffer')
BY DEF Line, LineIn, Index, First, SelectInSeq

\* Where a byte is found first.
LEMMA IndexOf ==
    ASSUME NEW S, NEW s \in Seq(S), NEW b
    PROVE  /\ First(s, b) \in 0..Len(s)
           /\ \A j \in 1..Len(s) : s[j].b = b => First(s, b) \in 1..j
           /\ First(s, b) # 0 => s[First(s, b)].b = b
           /\ \A j \in 1..(First(s, b) - 1) : s[j].b # b
<1> DEFINE I == {i \in 1..Len(s) : s[i].b = b}
           least == Min(I)
<1>1. Len(s) \in Nat
  OBVIOUS
<1>2. First(s, b) = IF I # {} THEN Min(I) ELSE 0
  BY DEF First, SelectInSeq
<1>3. CASE I = {}
  BY <1>1, <1>2, <1>3
<1>4. CASE I # {}
  <2>1. I \in SUBSET Nat
    BY <1>1
  <2>2. I \subseteq 1..Len(s)
    OBVIOUS
  <2> HIDE DEF I
  <2>3. \E k \in I : \A j \in I : k <= j
    BY <1>4, <2>1, Least
  <2>4. least \in I /\ \A j \in I : least <= j
    BY <2>3 DEF Min
  <2>5. First(s, b) = least
    BY <1>2, <1>4
  <2> HIDE DEF least
  <2>6. least \in 1..Len(s) /\ s[least].b = b
    BY <2>4 DEF I
  <2>7. \A j \in 1..Len(s) : s[j].b = b => least <= j
    BY <2>4 DEF I
  <2> QED BY <1>1, <2>5, <2>6, <2>7
<1> QED BY <1>3, <1>4

\* The line that is read off a buffer.
LEMMA LineOf ==
    ASSUME NEW S, NEW s \in Seq(S)
    PROVE  /\ LineIn(s) \in Seq(S)
           /\ \A f \in 1..Len(s) :
                 /\ s[f].b = LF
                 /\ \A j \in 1..(f - 1) : s[j].b # LF
                 => /\ LineIn(s) # <<>> =>
                          /\ Len(LineIn(s)) = f - 1
                          /\ f > 1 /\ s[1].b # NUL
                          /\ \A i \in 1..(f - 1) : LineIn(s)[i] = s[i]
                    /\ (\A j \in 1..f : s[j].b # NUL) => Len(LineIn(s)) = f - 1
<1> DEFINE z == First(s, NUL)
           x == First(s, LF)
           l == SubSeq(s, 1, x - 1)
<1>1. Len(s) \in Nat /\ s \in Seq(S) /\ \A i \in 1..Len(s) : s[i] \in S
  OBVIOUS
<1>2. /\ x \in 0..Len(s)
      /\ \A j \in 1..Len(s) : s[j].b = LF => x \in 1..j
      /\ x # 0 => s[x].b = LF
  BY IndexOf
<1>3. /\ z \in 0..Len(s)
      /\ \A j \in 1..Len(s) : s[j].b = NUL => z \in 1..j
      /\ z # 0 => s[z].b = NUL
      /\ \A j \in 1..(z - 1) : s[j].b # NUL
  BY IndexOf
<1>4. LineIn(s) = IF z \in 1..x THEN <<>> ELSE l
  BY DEF LineIn
<1> HIDE DEF x, z
<1>5. l \in Seq(S) /\ (x >= 1 => Len(l) = x - 1 /\ \A i \in 1..(x - 1) : l[i] = s[i])
  <2>1. CASE x = 0
    BY <2>1, <1>1, SubSeqEmpty, EmptySeq
  <2>2. CASE x # 0
    <3>1. x - 1 \in 0..Len(s) /\ x >= 1
      BY <2>2, <1>1, <1>2
    <3> QED BY <3>1, <1>1, InTwo
  <2> QED BY <2>1, <2>2
<1> HIDE DEF l
<1>6. LineIn(s) \in Seq(S)
  BY <1>4, <1>5
<1>7. ASSUME NEW f \in 1..Len(s), s[f].b = LF, \A j \in 1..(f - 1) : s[j].b # LF
      PROVE  /\ LineIn(s) # <<>> => /\ Len(LineIn(s)) = f - 1
                               /\ f > 1 /\ s[1].b # NUL
                               /\ \A i \in 1..(f - 1) : LineIn(s)[i] = s[i]
             /\ (\A j \in 1..f : s[j].b # NUL) => Len(LineIn(s)) = f - 1
  <2>1. x = f
    BY <1>1, <1>2, <1>7
  <2>2. ASSUME LineIn(s) # <<>>
        PROVE  /\ Len(LineIn(s)) = f - 1 /\ f > 1 /\ s[1].b # NUL
               /\ \A i \in 1..(f - 1) : LineIn(s)[i] = s[i]
    <3>1. LineIn(s) = l /\ ~(z \in 1..f)
      BY <1>4, <2>1, <2>2
    <3>2. Len(l) = f - 1 /\ \A i \in 1..(f - 1) : l[i] = s[i]
      BY <1>5, <2>1
    <3>3. f > 1
      BY <3>1, <3>2, <2>2, <1>5
    <3>4. s[1].b # NUL
      BY <3>1, <1>1, <1>3
    <3> QED BY <3>1, <3>2, <3>3, <3>4
  <2>3. ASSUME \A j \in 1..f : s[j].b # NUL
        PROVE  Len(LineIn(s)) = f - 1
    <3>1. ~(z \in 1..f)
      <4>1. CASE z = 0
        BY <4>1
      <4>2. CASE z # 0
        <5>1. z \in 1..Len(s) /\ s[z].b = NUL
          BY <4>2, <1>1, <1>3
        <5> QED BY <5>1, <2>3
      <4> QED BY <4>1, <4>2
    <3> QED BY <3>1, <2>1, <1>4, <1>5
  <2> QED BY <2>2, <2>3
<1> QED BY <1>6, <1>7

LEMMA TypeStep == TypeOK /\ [Next]_vars => TypeOK'
<1> SUFFICES ASSUME TypeOK, [Next]_vars PROVE TypeOK'
  OBVIOUS
<1> DEFINE States == {"select", "readline", "lines", "gone", "undefined"}
<1>0. /\ told \in Seq(Lengths)
      /\ out \in Seq(Byte) /\ stream \in Seq(Byte) /\ buffer \in Seq(Byte)
      /\ Len(buffer) <= BufSize /\ at \in States /\ shown \in Seq(Seq(Byte) \ {<<>>})
  BY DEF TypeOK
<1>1. CASE UNCHANGED vars
  <2>1. UNCHANGED <<told, out, stream, buffer, at, shown>>
    BY <1>1 DEF vars, server, reader
  <2> QED BY <2>1, <1>0, SameTold DEF TypeOK
<1>2. ASSUME NEW len \in Lengths, SendMessage(len) PROVE TypeOK'
  <2>1. told' = Append(told, len) /\ out' = Bytes(Len(told) + 1, len)
        /\ UNCHANGED <<stream, buffer, at, shown>>
    BY <1>2 DEF SendMessage, reader
  <2>2. /\ told' \in Seq(Lengths) /\ Len(told') = Len(told) + 1 /\ Len(told) \in Nat
        /\ told'[Len(told) + 1] = len /\ Byte \subseteq Byte'
    BY <2>1, MoreTold
  <2> DEFINE k == Len(told) + 1
             S == [m : {k}, b : {LF, NUL} \cup 1..Text(len)]
  <2>3. out' \in Seq(S)
    <3>1. k \in Int
      BY <2>2
    <3> QED BY <3>1, <2>1, BytesOf
  <2>4. S \subseteq Byte'
    <3> SUFFICES ASSUME NEW x \in S PROVE x \in Byte'
      OBVIOUS
    <3>1. x.m = k /\ x.b \in {LF, NUL} \cup 1..Text(len) /\ x = [m |-> x.m, b |-> x.b]
      OBVIOUS
    <3>2. k \in 1..Len(told') /\ told'[k] = len
      BY <2>2
    <3>3. x.b \in Int
      BY <3>1, TextRange DEF LF, NUL
    <3>4. x \in [m : 1..Len(told'), b : Int]
      BY <3>1, <3>2, <3>3
    <3> QED BY <3>1, <3>2, <3>4 DEF Byte
  <2>5. Seq(S) \subseteq Seq(Byte') /\ Seq(Byte) \subseteq Seq(Byte')
    BY <2>2, <2>4, SeqOfMore
  <2>6. Seq(Seq(Byte) \ {<<>>}) \subseteq Seq(Seq(Byte') \ {<<>>})
    <3>1. Seq(Byte) \ {<<>>} \subseteq Seq(Byte') \ {<<>>}
      BY <2>5
    <3> QED BY <3>1, SeqOfMore
  <2>7. Len(buffer') <= BufSize /\ at' \in States
    BY <1>0, <2>1
  <2>8. shown' \in Seq(Seq(Byte') \ {<<>>})
    BY <1>0, <2>1, <2>6
  <2> QED BY <1>0, <2>1, <2>2, <2>3, <2>5, <2>7, <2>8 DEF TypeOK
<1>3. ASSUME NEW n \in 1..Capacity, sendall(n) PROVE TypeOK'
  <2>1. /\ stream' = stream \o SubSeq(out, 1, n) /\ out' = SubSeq(out, n + 1, Len(out))
        /\ n <= Len(out) /\ UNCHANGED <<told, buffer, at, shown>>
    BY <1>3 DEF sendall, reader
  <2>2. n \in 0..Len(out)
    BY <1>0, <2>1, WireAssumption
  <2>3. SubSeq(out, 1, n) \in Seq(Byte) /\ out' \in Seq(Byte)
    BY <1>0, <2>1, <2>2, InTwo
  <2>4. stream' \in Seq(Byte)
    BY <1>0, <2>1, <2>3, ConcatProperties
  <2> QED BY <1>0, <2>1, <2>3, <2>4, SameTold DEF TypeOK
<1>4. CASE CloseConnection
  <2>1. UNCHANGED <<told, out, stream, buffer, at, shown>>
    BY <1>4 DEF CloseConnection, reader
  <2> QED BY <2>1, <1>0, SameTold DEF TypeOK
<1>5. CASE Select
  <2>1. UNCHANGED <<told, out, stream, shown>> /\ buffer' = <<>> /\ at' = "readline"
    BY <1>5 DEF Select, server
  <2>2. buffer' \in Seq(Byte) /\ Len(buffer') <= BufSize
    BY <2>1, WireAssumption
  <2> QED BY <2>1, <2>2, <1>0, SameTold DEF TypeOK
<1>6. ASSUME NEW n \in 1..BufSize, Read(n) PROVE TypeOK'
  <2> DEFINE bytes == buffer \o SubSeq(stream, 1, n)
  <2>1. /\ n <= Len(stream) /\ Len(buffer) + n <= BufSize
        /\ buffer' = IF Goes(bytes) THEN bytes ELSE Forced(bytes)
        /\ at' \in States
        /\ stream' = SubSeq(stream, n + 1, Len(stream)) /\ UNCHANGED <<told, out, shown>>
    BY <1>6 DEF Read, server
  <2>2. bytes \in Seq(Byte) /\ stream' \in Seq(Byte) /\ Len(bytes) \in 1..BufSize
    BY <2>1, ReadFacts
  <2> HIDE DEF bytes
  <2>3. Len(bytes) <= BufSize /\ bytes # <<>>
    BY <2>2, WireAssumption
  <2>4. Forced(bytes) \in Seq(Byte) /\ Len(Forced(bytes)) = Len(bytes)
    BY <2>2, <2>3, ForcedType
  <2>5. buffer' \in Seq(Byte) /\ Len(buffer') <= BufSize
    BY <2>1, <2>2, <2>3, <2>4
  <2> QED BY <1>0, <2>1, <2>2, <2>5, SameTold DEF TypeOK
<1>7. CASE EndOfFile
  <2>1. UNCHANGED <<told, out, stream, buffer, shown>> /\ at' \in States
    BY <1>7 DEF EndOfFile, server
  <2> QED BY <2>1, <1>0, SameTold DEF TypeOK
<1>8. CASE Lines
  <2>1. UNCHANGED <<told, out, stream, buffer>> /\ at' \in States
        /\ shown' = IF Line = <<>> THEN shown ELSE Append(shown, Line)
    BY <1>8 DEF Lines, server
  <2>2. Line \in Seq(Byte)
    BY <1>0, LineOf, LineIsIn
  <2>3. shown' \in Seq(Seq(Byte) \ {<<>>})
    BY <1>0, <2>1, <2>2, AppendProperties
  <2> QED BY <1>0, <2>1, <2>3, SameTold DEF TypeOK
<1> QED BY <1>1, <1>2, <1>3, <1>4, <1>5, <1>6, <1>7, <1>8 DEF Next, Sends, Reads

-----------------------------------------------------------------------------
(* What is on its way.                                                     *)

LEMMA PendingType ==
    ASSUME TypeOK
    PROVE  Pending \in Seq(Byte) /\ Len(Pending) \in Nat
<1> DEFINE h == IF at = "readline" THEN buffer ELSE <<>>
<1>1. h \in Seq(Byte) /\ stream \in Seq(Byte) /\ out \in Seq(Byte)
  BY DEF TypeOK
<1>2. Pending = (h \o stream) \o out
  BY DEF Pending
<1> HIDE DEF h
<1>3. h \o stream \in Seq(Byte)
  BY <1>1, ConcatProperties
<1>4. (h \o stream) \o out \in Seq(Byte)
  BY <1>1, <1>3, ConcatProperties
<1> QED BY <1>2, <1>4

\* The server adds a message.
LEMMA SendPending ==
    ASSUME TypeOK, NEW len \in Lengths, SendMessage(len)
    PROVE  Pending' = Pending \o Bytes(Len(told) + 1, len)
<1> DEFINE h == IF at = "readline" THEN buffer ELSE <<>>
           new == Bytes(Len(told) + 1, len)
<1>1. out = <<>> /\ out' = new /\ UNCHANGED <<stream, buffer, at>>
  BY DEF SendMessage, reader
<1>2. h \in Seq(Byte) /\ stream \in Seq(Byte)
  BY DEF TypeOK
<1>3. Pending = (h \o stream) \o <<>> /\ Pending' = (h \o stream) \o new
  BY <1>1 DEF Pending
<1> HIDE DEF h, new
<1>4. h \o stream \in Seq(Byte)
  BY <1>2, ConcatProperties
<1>5. Pending = h \o stream
  BY <1>3, <1>4, ConcatEmptySeq
<1> QED BY <1>3, <1>5 DEF new

\* What sendall hands to the connection stays on its way.
LEMMA SendallPending ==
    ASSUME TypeOK, NEW n \in 1..Capacity, sendall(n)
    PROVE  Pending' = Pending
<1> DEFINE h == IF at = "readline" THEN buffer ELSE <<>>
           a == SubSeq(out, 1, n)
           b == SubSeq(out, n + 1, Len(out))
<1>1. stream' = stream \o a /\ out' = b /\ n <= Len(out) /\ UNCHANGED <<buffer, at>>
  BY DEF sendall, reader
<1>2. h \in Seq(Byte) /\ stream \in Seq(Byte) /\ out \in Seq(Byte)
  BY DEF TypeOK
<1>3. n \in 0..Len(out)
  BY <1>1, <1>2, WireAssumption
<1>4. a \in Seq(Byte) /\ b \in Seq(Byte) /\ a \o b = out
  BY <1>2, <1>3, InTwo
<1>5. Pending = (h \o stream) \o out /\ Pending' = (h \o (stream \o a)) \o b
  BY <1>1 DEF Pending
<1> HIDE DEF h, a, b
<1>6. h \o (stream \o a) = (h \o stream) \o a
  <2>1. h \in Seq(Byte) /\ stream \in Seq(Byte) /\ a \in Seq(Byte)
    BY <1>2, <1>4
  <2> QED BY ONLY <2>1, ConcatAssociative
<1>7. h \o stream \in Seq(Byte)
  BY <1>2, ConcatProperties
<1>8. ((h \o stream) \o a) \o b = (h \o stream) \o (a \o b)
  <2>1. h \o stream \in Seq(Byte) /\ a \in Seq(Byte) /\ b \in Seq(Byte)
    BY <1>4, <1>7
  <2> QED BY ONLY <2>1, ConcatAssociative
<1> QED BY <1>4, <1>5, <1>6, <1>8

\* A read takes the beginning.
LEMMA ReadPending ==
    ASSUME TypeOK, NEW n \in 1..BufSize, Read(n)
    PROVE  LET bytes == buffer \o SubSeq(stream, 1, n)
               L     == Len(bytes)
           IN  /\ bytes \in Seq(Byte) /\ L \in 1..BufSize /\ L <= Len(Pending)
               /\ \A i \in 1..L : bytes[i] = Pending[i]
               /\ Pending' = IF Goes(bytes) THEN Pending
                             ELSE SubSeq(Pending, L + 1, Len(Pending))
<1> DEFINE bytes == buffer \o SubSeq(stream, 1, n)
           rest  == SubSeq(stream, n + 1, Len(stream))
           L     == Len(bytes)
           tail  == rest \o out
<1>1. /\ at = "readline" /\ n <= Len(stream) /\ Len(buffer) + n <= BufSize
      /\ buffer' = IF Goes(bytes) THEN bytes ELSE Forced(bytes)
      /\ at' = IF Goes(bytes) THEN "readline"
               ELSE IF L = BufSize THEN "undefined" ELSE "lines"
      /\ stream' = rest /\ out' = out
  BY DEF Read, server
<1>2. out \in Seq(Byte)
  BY DEF TypeOK
<1>3. /\ bytes \in Seq(Byte) /\ rest \in Seq(Byte) /\ L \in 1..BufSize
      /\ bytes \o rest = buffer \o stream
  BY <1>1, ReadFacts
<1>4. Pending = (bytes \o rest) \o out
  BY <1>1, <1>3 DEF Pending
<1>5. Pending' = IF Goes(bytes) THEN (bytes \o rest) \o out ELSE (<<>> \o rest) \o out
  BY <1>1 DEF Pending
<1> HIDE DEF bytes, rest
<1>6. (bytes \o rest) \o out = bytes \o tail /\ tail \in Seq(Byte) /\ <<>> \o rest = rest
  <2>1. bytes \in Seq(Byte) /\ rest \in Seq(Byte) /\ out \in Seq(Byte)
    BY <1>2, <1>3
  <2>2. (bytes \o rest) \o out = bytes \o (rest \o out)
    BY ONLY <2>1, ConcatAssociative
  <2>3. rest \o out \in Seq(Byte)
    BY ONLY <2>1, ConcatProperties
  <2>4. <<>> \o rest = rest
    BY ONLY <2>1, ConcatEmptySeq
  <2> QED BY <2>2, <2>3, <2>4
<1> HIDE DEF tail
<1>7. /\ Pending \in Seq(Byte) /\ Len(Pending) = L + Len(tail) /\ Len(tail) \in Nat
      /\ \A i \in 1..(L + Len(tail)) :
             Pending[i] = IF i <= L THEN bytes[i] ELSE tail[i - L]
  <2>1. /\ bytes \o tail \in Seq(Byte) /\ Len(bytes \o tail) = Len(bytes) + Len(tail)
        /\ \A i \in 1..(Len(bytes) + Len(tail)) :
             (bytes \o tail)[i] = IF i <= Len(bytes) THEN bytes[i] ELSE tail[i - Len(bytes)]
    BY <1>3, <1>6, ConcatProperties
  <2>2. Pending = bytes \o tail
    BY <1>4, <1>6
  <2>3. Len(tail) \in Nat
    BY <1>6
  <2> QED BY <2>1, <2>2, <2>3
<1>8. L \in 0..Len(Pending) /\ L \in Nat /\ L <= Len(Pending)
  BY <1>3, <1>7, WireAssumption
<1>9. \A i \in 1..L : bytes[i] = Pending[i]
  BY <1>7, <1>8
<1>10. SubSeq(Pending, L + 1, Len(Pending)) = tail
  <2> DEFINE r == SubSeq(Pending, L + 1, Len(Pending))
  <2>1. r \in Seq(Byte) /\ Len(r) = Len(Pending) - L
        /\ \A i \in 1..(Len(Pending) - L) : r[i] = Pending[L + i]
    BY <1>7, <1>8, InTwo
  <2> HIDE DEF r
  <2>2. Len(r) = Len(tail)
    BY <2>1, <1>7, <1>8
  <2>3. ASSUME NEW i \in 1..Len(r) PROVE r[i] = tail[i]
    <3>1. L + i \in 1..(L + Len(tail)) /\ ~(L + i <= L) /\ (L + i) - L = i
          /\ i \in 1..(Len(Pending) - L)
      BY <2>2, <1>7, <1>8
    <3> QED BY <3>1, <2>1, <1>7
  <2>4. r = tail
    BY <1>6, <2>1, <2>2, <2>3, SeqEqual
  <2> QED BY <2>4 DEF r
<1>11. Pending' = IF Goes(bytes) THEN Pending ELSE SubSeq(Pending, L + 1, Len(Pending))
  <2>1. CASE Goes(bytes)
    BY <2>1, <1>4, <1>5
  <2>2. CASE ~Goes(bytes)
    <3>1. Pending' = (<<>> \o rest) \o out
      BY <2>2, <1>5
    <3>2. (<<>> \o rest) \o out = tail
      BY <1>6 DEF tail
    <3> QED BY <2>2, <3>1, <3>2, <1>10
  <2> QED BY <2>1, <2>2
<1> HIDE DEF L
<1> QED BY <1>3, <1>8, <1>9, <1>11 DEF bytes, L

-----------------------------------------------------------------------------
(* It is a run.                                                            *)

\* The bytes of a message follow one another.
LEMMA BytesFollow ==
    ASSUME TypeOK, NEW len \in Lengths, told' = Append(told, len)
    PROVE  LET k == Len(told) + 1
               new == Bytes(k, len)
           IN  \A j \in 1..(Text(len) + 1) : new[j + 1] = Following(told', new[j])
<1> DEFINE k == Len(told) + 1
           new == Bytes(k, len)
           T == Text(len)
<1>1. k \in Int /\ told'[k] = len
  BY MoreTold
<1>2. /\ T \in 1..(BufSize - 2)
      /\ \A i \in 1..T : new[i] = [m |-> k, b |-> i]
      /\ new[T + 1] = [m |-> k, b |-> LF]
      /\ new[T + 2] = [m |-> k, b |-> NUL]
  BY <1>1, BytesOf
<1>3. T \in Nat /\ T >= 1
  BY <1>2, WireAssumption
<1>4. Text(told'[k]) = T
  BY <1>1
<1> HIDE DEF T, new, k
<1>5. ASSUME NEW j \in 1..(T + 1) PROVE new[j + 1] = Following(told', new[j])
  <2>1. CASE j < T
    <3>1. j \in 1..T /\ j + 1 \in 1..T /\ j # T /\ j # NUL /\ j # LF
      BY <2>1, <1>3 DEF LF, NUL
    <3>2. new[j] = [m |-> k, b |-> j] /\ new[j + 1] = [m |-> k, b |-> j + 1]
      BY <3>1, <1>2
    <3>3. Following(told', [m |-> k, b |-> j]) = [m |-> k, b |-> j + 1]
      BY <3>1, <1>4 DEF Following
    <3> QED BY <3>2, <3>3
  <2>2. CASE j = T
    <3>1. new[j] = [m |-> k, b |-> T] /\ new[j + 1] = [m |-> k, b |-> LF] /\ T # NUL /\ T # LF
      BY <2>2, <1>2, <1>3 DEF LF, NUL
    <3>2. Following(told', [m |-> k, b |-> T]) = [m |-> k, b |-> LF]
      BY <3>1, <1>4 DEF Following
    <3> QED BY <3>1, <3>2
  <2>3. CASE j = T + 1
    <3>1. new[j] = [m |-> k, b |-> LF] /\ new[j + 1] = [m |-> k, b |-> NUL]
      BY <2>3, <1>2, <1>3
    <3>2. Following(told', [m |-> k, b |-> LF]) = [m |-> k, b |-> NUL]
      BY DEF Following, LF, NUL
    <3> QED BY <3>1, <3>2
  <2> QED BY <2>1, <2>2, <2>3, <1>3
<1> QED BY <1>5 DEF T, new, k

\* A message goes behind what is on its way.
LEMMA SendInOrder ==
    ASSUME TypeOK, InOrder, NEW len \in Lengths, SendMessage(len)
    PROVE  InOrder'
<1> DEFINE P == Pending
           new == Bytes(Len(told) + 1, len)
           T == Text(len)
           lp == Len(P)
           Q == P \o new
           k == Len(told) + 1
<1>1. /\ told' = Append(told, len) /\ ~closed /\ closed' = closed
      /\ UNCHANGED <<buffer, at>>
  BY DEF SendMessage, reader
<1>2. /\ Len(told') = k /\ Len(told) \in Nat /\ k \in Int
      /\ \A x \in Byte : Following(told', x) = After(x)
  BY <1>1, MoreTold
<1>3. P \in Seq(Byte) /\ lp \in Nat
  BY PendingType
<1>4. Pending' = Q
  BY SendPending
<1>5. \A j \in 1..(T + 1) : new[j + 1] = Following(told', new[j])
  BY <1>1, BytesFollow
<1>6. /\ Len(new) = T + 2 /\ T \in 1..(BufSize - 2)
      /\ new[1] = [m |-> k, b |-> 1] /\ new[T + 2] = [m |-> k, b |-> NUL]
  <2>1. /\ Text(len) \in 1..(BufSize - 2) /\ Len(new) = Text(len) + 2
        /\ \A i \in 1..Text(len) : new[i] = [m |-> k, b |-> i]
        /\ new[Text(len) + 2] = [m |-> k, b |-> NUL]
    BY <1>2, BytesOf
  <2>2. 1 \in 1..Text(len)
    BY <2>1, WireAssumption
  <2> QED BY <2>1, <2>2
<1>7. T \in Nat
  BY <1>6, WireAssumption
<1>8. /\ Len(Q) = lp + T + 2
      /\ \A i \in 1..(lp + T + 2) : Q[i] = IF i <= lp THEN P[i] ELSE new[i - lp]
  <2> DEFINE Y == [m : {k}, b : {LF, NUL} \cup 1..T]
             B == Byte \cup Y
  <2>1. new \in Seq(Y)
    BY <1>2, BytesOf
  <2> HIDE DEF Y
  <2>2. P \in Seq(B) /\ new \in Seq(B)
    <3>1. P \in Seq(B)
      BY <1>3, SeqMonotonic
    <3>2. new \in Seq(B)
      BY <2>1, SeqMonotonic
    <3> QED BY <3>1, <3>2
  <2> HIDE DEF B, P, new
  <2>3. /\ Len(P \o new) = Len(P) + Len(new)
        /\ \A i \in 1..(Len(P) + Len(new)) :
               (P \o new)[i] = IF i <= Len(P) THEN P[i] ELSE new[i - Len(P)]
    BY ONLY <2>2, ConcatProperties
  <2>4. Len(P) + Len(new) = lp + T + 2
    BY <1>3, <1>6, <1>7
  <2> QED BY <2>3, <2>4
<1>9. /\ \A i \in 1..(lp - 1) : P[i + 1] = After(P[i])
      /\ lp # 0 => P[lp] = [m |-> Len(told), b |-> NUL]
  <2>1. lp # 0 => P # <<>>
    BY EmptySeq
  <2> QED BY <2>1 DEF InOrder, IsRun
<1>10. \A i \in 1..lp : P[i] \in Byte
  BY <1>3
<1> HIDE DEF Q, new, T, lp, k, P
<1>11. ASSUME NEW i \in 1..(Len(Q) - 1) PROVE Q[i + 1] = Following(told', Q[i])
  <2>0. i \in 1..(lp + T + 1) /\ i \in Nat
    BY <1>3, <1>7, <1>8
  <2>1. CASE i < lp
    <3>1. i \in 1..(lp - 1) /\ i \in 1..lp /\ i <= lp /\ i + 1 <= lp
          /\ i \in 1..(lp + T + 2) /\ i + 1 \in 1..(lp + T + 2)
      BY <2>0, <2>1, <1>3, <1>7
    <3>2. Q[i] = P[i] /\ Q[i + 1] = P[i + 1]
      BY <3>1, <1>8
    <3> QED BY <3>1, <3>2, <1>2, <1>9, <1>10
  <2>2. CASE i = lp
    <3>1. lp # 0 /\ lp \in 1..(lp + T + 2) /\ lp + 1 \in 1..(lp + T + 2) /\ lp <= lp
          /\ ~(lp + 1 <= lp) /\ (lp + 1) - lp = 1
      BY <2>0, <2>2, <1>3, <1>7
    <3>2. Q[i] = [m |-> Len(told), b |-> NUL] /\ Q[i + 1] = new[1]
      BY <2>2, <3>1, <1>8, <1>9
    <3> QED BY <3>2, <1>6 DEF Following, k
  <2>3. CASE i > lp
    <3> DEFINE j == i - lp
    <3>1. j \in 1..(T + 1) /\ ~(i <= lp) /\ ~(i + 1 <= lp) /\ (i + 1) - lp = j + 1
          /\ i \in 1..(lp + T + 2) /\ i + 1 \in 1..(lp + T + 2)
      BY <2>0, <2>3, <1>3, <1>7
    <3>2. Q[i] = new[j] /\ Q[i + 1] = new[j + 1]
      BY <3>1, <1>8
    <3> QED BY <3>1, <3>2, <1>5
  <2> QED BY <2>0, <2>1, <2>2, <2>3, <1>3
<1>12. Q[Len(Q)] = [m |-> k, b |-> NUL]
  <2>1. Len(Q) \in 1..(lp + T + 2) /\ ~(Len(Q) <= lp) /\ Len(Q) - lp = T + 2
    BY <1>3, <1>7, <1>8
  <2> QED BY <2>1, <1>6, <1>8
<1>13. (at = "readline" => Goes(buffer))'
  BY <1>1 DEF InOrder
<1> QED BY <1>1, <1>2, <1>4, <1>11, <1>12, <1>13 DEF InOrder, IsRun, After

LEMMA InOrderStep == TypeOK /\ InOrder /\ [Next]_vars => InOrder'
<1> SUFFICES ASSUME TypeOK, InOrder, [Next]_vars PROVE InOrder'
  OBVIOUS
<1>0. /\ IsRun(Pending) /\ Pending \in Seq(Byte) /\ Len(Pending) \in Nat
      /\ Pending # <<>> => Pending[Len(Pending)] = [m |-> Len(told), b |-> NUL]
      /\ closed => out = <<>>
      /\ at = "readline" => Goes(buffer)
  BY PendingType DEF InOrder
<1>a. ASSUME UNCHANGED told, Pending' = Pending, closed' => out' = <<>>,
             at' = "readline" => Goes(buffer')
      PROVE  InOrder'
  <2>1. IsRun(Pending)'
    BY <1>a, <1>0 DEF IsRun, After
  <2> QED BY <1>a, <1>0, <2>1 DEF InOrder
<1>1. CASE UNCHANGED vars
  <2>1. UNCHANGED <<told, out, stream, buffer, at, closed>>
    BY <1>1 DEF vars, server, reader
  <2> QED BY <2>1, <1>0, <1>a DEF Pending
<1>2. ASSUME NEW len \in Lengths, SendMessage(len) PROVE InOrder'
  BY <1>2, SendInOrder
<1>3. ASSUME NEW n \in 1..Capacity, sendall(n) PROVE InOrder'
  <2>1. UNCHANGED <<told, closed, buffer, at>> /\ out # <<>>
    BY <1>3 DEF sendall, reader
  <2>2. Pending' = Pending
    BY <1>3, SendallPending
  <2> QED BY <2>1, <2>2, <1>0, <1>a
<1>4. CASE CloseConnection
  <2>1. UNCHANGED <<told, out, stream, buffer, at>> /\ out = <<>>
    BY <1>4 DEF CloseConnection, reader
  <2> QED BY <2>1, <1>0, <1>a DEF Pending
<1>5. CASE Select
  <2>1. UNCHANGED <<told, out, stream, closed>> /\ at = "select" /\ buffer' = <<>>
        /\ at' = "readline"
    BY <1>5 DEF Select, server
  <2>2. Goes(buffer')
    BY <2>1, WireAssumption DEF Goes, HasLF
  <2> QED BY <2>1, <2>2, <1>0, <1>a DEF Pending
<1>6. ASSUME NEW n \in 1..BufSize, Read(n) PROVE InOrder'
  <2> DEFINE bytes == buffer \o SubSeq(stream, 1, n)
             L == Len(bytes)
  <2>1. /\ buffer' = IF Goes(bytes) THEN bytes ELSE Forced(bytes)
        /\ at' = IF Goes(bytes) THEN "readline"
                 ELSE IF L = BufSize THEN "undefined" ELSE "lines"
        /\ UNCHANGED <<told, out, closed>>
    BY <1>6 DEF Read, server
  <2>2. /\ L \in 1..BufSize /\ L <= Len(Pending)
        /\ Pending' = IF Goes(bytes) THEN Pending ELSE SubSeq(Pending, L + 1, Len(Pending))
    BY <1>6, ReadPending
  <2> HIDE DEF bytes
  <2>3. CASE Goes(bytes)
    BY <2>1, <2>2, <2>3, <1>0, <1>a
  <2>4. CASE ~Goes(bytes)
    <3> HIDE DEF L
    <3>1. L \in 0..Len(Pending) /\ L \in Nat
      BY <2>2, WireAssumption, <1>0
    <3> DEFINE r == SubSeq(Pending, L + 1, Len(Pending))
               k == Len(Pending)
    <3>2. IsRun(r)
      BY <1>0, <3>1, RunRest
    <3>3. Len(r) = k - L /\ \A i \in 1..(k - L) : r[i] = Pending[L + i]
      BY <1>0, <3>1, InTwo
    <3>4. r \in Seq(Byte)
      BY <1>0, <3>1, InTwo
    <3> HIDE DEF r
    <3>5. ASSUME r # <<>> PROVE r[Len(r)] = [m |-> Len(told), b |-> NUL]
      <4>1. Len(r) \in Nat \ {0}
        BY <3>4, <3>5
      <4> HIDE DEF k
      <4>2. k \in Nat
        BY <1>0 DEF k
      <4>3. Len(r) \in 1..(k - L) /\ L + Len(r) = k /\ k # 0
        BY <4>1, <4>2, <3>1, <3>3
      <4>4. r[Len(r)] = Pending[k]
        BY <4>3, <3>3
      <4>5. Pending # <<>>
        BY <4>3 DEF k
      <4> QED BY <4>4, <4>5, <1>0 DEF k
    <3>6. Pending' = r
      BY <2>2, <2>4 DEF r
    <3>7. at' # "readline"
      BY <2>1, <2>4
    <3>8. IsRun(Pending)'
      BY <3>2, <3>6, <2>1 DEF IsRun, After
    <3> QED BY <2>1, <3>5, <3>6, <3>7, <3>8, <1>0 DEF InOrder
  <2> QED BY <2>3, <2>4
<1>7. CASE EndOfFile
  <2>1. /\ UNCHANGED <<told, out, stream, closed>> /\ at' = "gone"
        /\ at = "readline" /\ stream = <<>> /\ closed
    BY <1>7 DEF EndOfFile, server
  <2>2. out = <<>>
    BY <2>1, <1>0
  <2>3. Pending' = <<>>
    BY <2>1, <2>2, EmptySeq, ConcatEmptySeq DEF Pending
  <2> QED BY <2>1, <2>2, <2>3 DEF InOrder, IsRun
<1>8. CASE Lines
  <2>1. UNCHANGED <<told, out, stream, closed>> /\ at = "lines" /\ at' \in {"select", "undefined"}
    BY <1>8 DEF Lines, server
  <2> QED BY <2>1, <1>0, <1>a DEF Pending
<1> QED BY <1>1, <1>2, <1>3, <1>4, <1>5, <1>6, <1>7, <1>8 DEF Next, Sends, Reads

-----------------------------------------------------------------------------
(* What the reader makes of it.                                            *)

\* The line is the end of message n.
TailLine(n, line) ==
    /\ n \in 1..Len(told) /\ Len(line) \in 1..Text(told[n])
    /\ \A i \in 1..Len(line) : line[i] = [m |-> n, b |-> Text(told[n]) - Len(line) + i]

LEMMA FirstFeed ==
    ASSUME NEW S, NEW s \in Seq(S), HasLF(s)
    PROVE  \E f \in 1..Len(s) : s[f].b = LF /\ \A j \in 1..(f - 1) : s[j].b # LF
<1> DEFINE x == First(s, LF)
<1>1. PICK k \in 1..Len(s) : s[k].b = LF
  BY DEF HasLF
<1>2. /\ \A j \in 1..Len(s) : s[j].b = LF => x \in 1..j
      /\ x # 0 => s[x].b = LF
      /\ \A j \in 1..(x - 1) : s[j].b # LF
  BY IndexOf
<1> HIDE DEF x
<1>3. x \in 1..k /\ Len(s) \in Nat
  BY <1>1, <1>2
<1>4. x \in 1..Len(s) /\ x # 0
  BY <1>3
<1> QED BY <1>2, <1>4

\* What a full buffer without a line feed begins with is a zero left over.
LEMMA FullBuffer ==
    ASSUME TypeOK, NEW s \in Seq(Byte), IsRun(s), NEW n \in 1..Len(s), n >= BufSize - 1,
           \A i \in 1..n : s[i].b # LF
    PROVE  s[1].b = NUL
<1>1. Len(s) \in Nat /\ n \in Nat /\ BufSize \in Nat /\ BufSize > 2
  BY WireAssumption
<1>2. s[1] \in Byte /\ s[n] \in Byte /\ s[n].b # LF /\ s[1].b # LF
  BY <1>1
<1>3. SUFFICES ASSUME s[1].b # NUL PROVE FALSE
  OBVIOUS
<1>4. s[1].b \in Int /\ s[1].b >= 1
  BY <1>2, <1>3, ByteFacts
<1>5. n \in 1..n /\ \A i \in 1..(n - 1) : s[i].b # LF
  BY <1>1
<1>6. s[n].b = s[1].b + n - 1
  BY <1>2, <1>4, <1>5, TextRun
<1>7. s[n].b \in {LF, NUL} \cup 1..Text(told[s[n].m]) /\ Text(told[s[n].m]) \in 1..(BufSize - 2)
  BY <1>2, ByteFacts
<1> QED BY <1>1, <1>4, <1>6, <1>7 DEF LF, NUL

\* A line that is read from the beginning of a run.
LEMMA LineOfRun ==
    ASSUME TypeOK, NEW P \in Seq(Byte), IsRun(P), NEW f \in 2..Len(P),
           P[f].b = LF, \A j \in 1..(f - 1) : P[j].b # LF, P[1].b # NUL
    PROVE  /\ P[1].m \in 1..Len(told) /\ P[1].b >= 1 /\ P[1].b \in Int
           /\ \A i \in 1..(f - 1) : P[i] = [m |-> P[1].m, b |-> P[1].b + i - 1]
           /\ P[f].m = P[1].m
           /\ Text(told[P[1].m]) = P[1].b + f - 2
<1>1. Len(P) \in Nat /\ f \in Nat /\ \A j \in 1..Len(P) : P[j] \in Byte
  OBVIOUS
<1>2. P[1] \in Byte /\ P[1].b # LF
  BY <1>1
<1>3. P[1].m \in 1..Len(told) /\ P[1].b >= 1 /\ P[1].b \in Int
  BY <1>2, ByteFacts
<1>4. f - 1 \in 1..Len(P)
  BY <1>1
<1>5. \A i \in 1..(f - 1) : P[i].m = P[1].m /\ P[i].b = P[1].b + i - 1
  <2> DEFINE n == f - 1
  <2>1. SUFFICES ASSUME NEW i \in 1..n PROVE P[i].m = P[1].m /\ P[i].b = P[1].b + i - 1
    OBVIOUS
  <2>2. n \in 1..Len(P) /\ (\A j \in 1..(n - 1) : P[j].b # LF) /\ P[i].b # LF
    BY <1>1
  <2> HIDE DEF n
  <2> QED BY <2>2, <1>3, TextRun
<1>6. \A i \in 1..(f - 1) : P[i] = [m |-> P[1].m, b |-> P[1].b + i - 1]
  <2>1. SUFFICES ASSUME NEW i \in 1..(f - 1)
                 PROVE  P[i] = [m |-> P[1].m, b |-> P[1].b + i - 1]
    OBVIOUS
  <2>2. P[i] \in Byte
    BY <1>1
  <2>3. P[i] = [m |-> P[i].m, b |-> P[i].b]
    BY <2>2, ByteFacts
  <2> QED BY <2>3, <1>5
<1>7. P[f - 1] = [m |-> P[1].m, b |-> P[1].b + f - 2] /\ P[f - 1].b >= 1
  <2>1. f - 1 \in 1..(f - 1) /\ P[1].b + (f - 1) - 1 = P[1].b + f - 2
        /\ P[1].b + f - 2 >= 1
    BY <1>1, <1>3
  <2> QED BY <2>1, <1>6
<1>8. P[f] = After(P[f - 1])
  <2>1. f - 1 \in 1..(Len(P) - 1) /\ (f - 1) + 1 = f
    BY <1>1
  <2>2. P[(f - 1) + 1] = After(P[f - 1])
    BY <2>1 DEF IsRun
  <2> QED BY <2>1, <2>2
<1>9. P[f - 1].b # NUL /\ P[f - 1].b # LF /\ P[f - 1].b + 1 # LF
  BY <1>1, <1>3, <1>7 DEF NUL, LF
<1>10. P[f - 1].b = Text(told[P[f - 1].m]) /\ P[f] = [m |-> P[f - 1].m, b |-> LF]
  BY <1>8, <1>9 DEF After, Following
<1> QED BY <1>3, <1>6, <1>7, <1>10

\* What a read makes of the beginning of what is on its way.
LEMMA ReadLine ==
    ASSUME TypeOK, InOrder, NEW n \in 1..BufSize, Read(n),
           ~Goes(buffer \o SubSeq(stream, 1, n))
    PROVE  /\ Pending # <<>> /\ Pending[1] \in Byte /\ HasLF(buffer')
           /\ Line' # <<>> =>
                 /\ Pending[1].b >= 1
                 /\ TailLine(Pending[1].m, Line') /\ Line'[1].m = Pending[1].m
                 /\ Pending' # <<>> => Past(Pending[1].m, Pending'[1])
           /\ ~cut' /\ ~merged' /\ Pending[1].b = 1 =>
                 /\ Line' # <<>> /\ Len(Line') = Text(told[Pending[1].m])
                 /\ IF Pending' = <<>> THEN Len(told) = Pending[1].m
                    ELSE Pending'[1] = [m |-> Pending[1].m + 1, b |-> 1]
<1> DEFINE bytes == buffer \o SubSeq(stream, 1, n)
           L == Len(bytes)
           P == Pending
           k == Len(P)
           Q == SubSeq(P, L + 1, k)
           m1 == P[1].m
<1>1. /\ buffer' = Forced(bytes)
      /\ cut' = (cut \/ (HasLF(bytes) /\ Last(bytes).b # NUL))
      /\ merged' = (merged \/ Last(bytes).m # bytes[1].m)
      /\ told' = told
  BY DEF Read, server
<1>2. /\ bytes \in Seq(Byte) /\ L \in 1..BufSize /\ L <= k
      /\ \A i \in 1..L : bytes[i] = P[i]
      /\ Pending' = Q
  BY ReadPending
<1>3. /\ P \in Seq(Byte) /\ k \in Nat /\ IsRun(P) /\ BufSize \in Nat /\ BufSize > 2
      /\ P # <<>> => P[k] = [m |-> Len(told), b |-> NUL]
  BY PendingType, WireAssumption DEF InOrder
<1>4. ~HasLF(bytes) => L >= BufSize - 1
  BY <1>2, <1>3 DEF Goes
<1> HIDE DEF bytes
<1>5. bytes # <<>> /\ Len(bytes) = L
  BY <1>2, <1>3
<1>6. Forced(bytes) \in Seq(Byte) /\ Len(Forced(bytes)) = L /\ HasLF(Forced(bytes))
      /\ \A i \in 1..(L - 1) : Forced(bytes)[i] = bytes[i]
  BY <1>2, <1>5, ForcedType
<1> HIDE DEF L
<1>7. L \in Nat /\ L >= 1 /\ 1 \in 1..L /\ L \in 1..k /\ 1 \in 1..k
  BY <1>2, <1>3
<1>8. P # <<>> /\ P[1] \in Byte
  BY <1>3, <1>7
<1>9. Line' = LineIn(buffer')
  BY LineIsIn
<1> HIDE DEF P
<1>10. \A i \in 1..k : P[i] \in Byte
  BY <1>3
<1> HIDE DEF k, Q
<1>11. CASE ~HasLF(bytes)
  <2>1. \A i \in 1..L : P[i].b # LF
    <3>1. \A i \in 1..L : bytes[i].b # LF
      BY <1>2, <1>11 DEF HasLF, L
    <3> QED BY <3>1, <1>2
  <2>2. P[1].b = NUL
    <3>1. L \in 1..Len(P) /\ L >= BufSize - 1
      BY <1>4, <1>7, <1>11 DEF k
    <3> QED BY <1>3, <2>1, <3>1, FullBuffer
  <2>3. 1 \in 1..(L - 1)
    BY <1>3, <1>4, <1>7, <1>11
  <2>4. buffer'[1].b = NUL
    BY <1>1, <1>2, <1>6, <1>7, <2>2, <2>3
  <2> DEFINE s == Forced(bytes)
  <2>5. PICK f \in 1..Len(s) : s[f].b = LF /\ \A j \in 1..(f - 1) : s[j].b # LF
    BY <1>6, FirstFeed
  <2>6. LineIn(s) = <<>>
    <3> HIDE DEF s
    <3>1. s \in Seq(Byte) /\ s[1].b = NUL
      BY <1>1, <1>6, <2>4 DEF s
    <3> QED BY <3>1, <2>5, LineOf
  <2>7. Line' = <<>>
    BY <1>1, <1>9, <2>6
  <2>8. P[1].b # 1
    BY <2>2 DEF NUL
  <2> QED BY <1>1, <1>6, <1>8, <2>7, <2>8 DEF P
<1>12. CASE HasLF(bytes)
  <2>1. buffer' = bytes /\ HasLF(buffer')
    BY <1>1, <1>12 DEF Forced
  <2>2. PICK f \in 1..L : bytes[f].b = LF /\ \A j \in 1..(f - 1) : bytes[j].b # LF
    BY <1>2, <1>12, FirstFeed DEF L
  <2>3. f \in Nat /\ f \in 1..k /\ \A j \in 1..f : j \in 1..L
    <3>1. f \in 1..L /\ L \in 1..k /\ k \in Nat /\ L \in Nat
      BY <1>3, <1>7, <2>2
    <3> QED BY <3>1
  <2>4. P[f].b = LF /\ \A j \in 1..(f - 1) : P[j].b # LF
    <3>1. \A j \in 1..(f - 1) : j \in 1..L
      BY <2>3
    <3> QED BY <3>1, <1>2, <2>2
  <2> DEFINE line == Line'
  <2>5. /\ line # <<>> => /\ Len(line) = f - 1
                          /\ f > 1 /\ bytes[1].b # NUL
                          /\ \A i \in 1..(f - 1) : line[i] = bytes[i]
        /\ (\A j \in 1..f : bytes[j].b # NUL) => Len(line) = f - 1
    BY <1>2, <1>9, <2>1, <2>2, LineOf DEF L
  <2>6. line \in Seq(Byte)
    BY <1>2, <1>9, <2>1, LineOf
  <2> HIDE DEF line
  \* The text before the line feed.
  <2>7. ASSUME f > 1, P[1].b # NUL
        PROVE  /\ m1 \in 1..Len(told) /\ P[1].b >= 1 /\ P[1].b \in Int
               /\ \A i \in 1..(f - 1) : P[i] = [m |-> m1, b |-> P[1].b + i - 1]
               /\ P[f].m = m1 /\ Text(told[m1]) = P[1].b + f - 2
    <3>1. f \in 2..Len(P)
      BY <2>3, <2>7 DEF k
    <3> QED BY <1>3, <2>4, <2>7, <3>1, LineOfRun
  <2>8. ASSUME f < k
        PROVE  P[f + 1] = [m |-> P[f].m, b |-> NUL]
    <3>1. f \in 1..(Len(P) - 1)
      BY <1>3, <2>3, <2>8 DEF k
    <3>2. P[f + 1] = After(P[f])
      BY <1>3, <3>1 DEF IsRun
    <3> QED BY <2>4, <3>2 DEF After, Following, LF, NUL
  <2>9. /\ Len(Q) = k - L
        /\ L < k => Q[1] = P[L + 1]
        /\ Q # <<>> <=> L < k
    <3>1. L \in 0..Len(P)
      BY <1>7 DEF k
    <3>2. Q \in Seq(Byte) /\ Len(Q) = k - L /\ \A i \in 1..(k - L) : Q[i] = P[L + i]
      BY <1>3, <3>1, InTwo DEF Q, k
    <3>3. L < k => 1 \in 1..(k - L)
      BY <1>3, <1>7
    <3>4. Q # <<>> <=> Len(Q) # 0
      BY <3>2
    <3> QED BY <1>3, <1>7, <3>2, <3>3, <3>4
  <2>10. ASSUME line # <<>>
         PROVE  /\ P[1].b >= 1
                /\ TailLine(m1, line) /\ line[1].m = m1
                /\ Q # <<>> => Past(m1, Q[1])
    <3>1. /\ Len(line) = f - 1 /\ f > 1 /\ P[1].b # NUL
          /\ \A i \in 1..(f - 1) : line[i] = P[i]
      <4>1. \A i \in 1..(f - 1) : i \in 1..L
        BY <2>3
      <4> QED BY <1>2, <1>7, <2>5, <2>10, <4>1
    <3>2. /\ m1 \in 1..Len(told) /\ P[1].b >= 1 /\ P[1].b \in Int
          /\ \A i \in 1..(f - 1) : P[i] = [m |-> m1, b |-> P[1].b + i - 1]
          /\ P[f].m = m1 /\ Text(told[m1]) = P[1].b + f - 2
      BY <2>7, <3>1
    <3>3. Len(line) \in 1..Text(told[m1])
      BY <2>3, <3>1, <3>2
    <3>4. \A i \in 1..Len(line) : line[i] = [m |-> m1, b |-> Text(told[m1]) - Len(line) + i]
      <4>1. SUFFICES ASSUME NEW i \in 1..(f - 1)
                     PROVE  line[i] = [m |-> m1, b |-> Text(told[m1]) - (f - 1) + i]
        BY <3>1
      <4>2. Text(told[m1]) - (f - 1) + i = P[1].b + i - 1
        BY <2>3, <3>2
      <4> QED BY <3>1, <3>2, <4>2
    <3>5. line[1].m = m1
      <4>1. 1 \in 1..(f - 1)
        BY <2>3, <3>1
      <4> QED BY <3>1, <3>2, <4>1
    <3>6. ASSUME Q # <<>> PROVE Past(m1, Q[1])
      <4>1. f < k /\ f + 1 \in 1..Len(P) /\ L + 1 \in (f + 1)..Len(P)
        BY <1>3, <1>7, <2>2, <2>3, <2>9, <3>6 DEF k
      <4>2. Past(m1, P[f + 1])
        BY <2>8, <3>2, <4>1 DEF Past
      <4>3. m1 \in Int
        BY <3>2
      <4>4. Past(m1, P[L + 1])
        BY <1>3, <4>1, <4>2, <4>3, PastRun
      <4> QED BY <2>9, <3>6, <4>4
    <3> QED BY <3>2, <3>3, <3>4, <3>5, <3>6 DEF TailLine
  <2>11. ASSUME ~cut', ~merged', P[1].b = 1
         PROVE  /\ line # <<>> /\ Len(line) = Text(told[m1])
                /\ IF Q = <<>> THEN Len(told) = m1 ELSE Q[1] = [m |-> m1 + 1, b |-> 1]
    <3>1. f > 1 /\ P[1].b # NUL
      <4>1. f # 1
        BY <2>4, <2>11 DEF LF
      <4> QED BY <2>3, <2>11, <4>1 DEF NUL
    <3>2. /\ m1 \in 1..Len(told)
          /\ \A i \in 1..(f - 1) : P[i] = [m |-> m1, b |-> i]
          /\ P[f].m = m1 /\ Text(told[m1]) = f - 1
      <4>1. /\ m1 \in 1..Len(told)
            /\ \A i \in 1..(f - 1) : P[i] = [m |-> m1, b |-> P[1].b + i - 1]
            /\ P[f].m = m1 /\ Text(told[m1]) = P[1].b + f - 2
        BY <2>7, <3>1
      <4>2. \A i \in 1..(f - 1) : P[1].b + i - 1 = i
        BY <2>3, <2>11
      <4>3. P[1].b + f - 2 = f - 1
        BY <2>3, <2>11
      <4> QED BY <4>1, <4>2, <4>3
    <3>3. \A j \in 1..f : bytes[j].b # NUL
      <4>1. SUFFICES ASSUME NEW j \in 1..f PROVE P[j].b # NUL
        BY <1>2, <2>3
      <4>2. CASE j = f
        BY <2>4, <4>2 DEF LF, NUL
      <4>3. CASE j # f
        <5>1. j \in 1..(f - 1) /\ j # NUL
          BY <2>3, <4>3 DEF NUL
        <5>2. P[j] = [m |-> m1, b |-> j]
          BY <3>2, <5>1
        <5> QED BY <5>1, <5>2
      <4> QED BY <4>2, <4>3
    <3>4. Len(line) = f - 1 /\ line # <<>>
      <4>1. Len(line) = f - 1
        BY <2>5, <3>3
      <4> QED BY <4>1, <2>3, <3>1
    \* What was read ends with this message's zero.
    <3>5. P[L].b = NUL /\ P[L].m = m1
      <4>1. bytes[L].b = NUL
        BY <1>1, <1>12, <2>11 DEF Last, L
      <4>2. bytes[L].m = bytes[1].m
        BY <1>1, <2>11 DEF Last, L
      <4>3. L \in 1..L
        BY <1>7
      <4> QED BY <1>2, <1>7, <4>1, <4>2, <4>3
    <3>6. f # L
      BY <2>4, <3>5 DEF LF, NUL
    <3>7. f < k /\ f + 1 <= L /\ f + 1 \in 1..Len(P)
      BY <1>3, <1>7, <2>2, <2>3, <3>6 DEF k
    <3>8. P[f + 1] = [m |-> m1, b |-> NUL]
      BY <2>8, <3>2, <3>7
    <3>9. L = f + 1
      <4>1. SUFFICES ASSUME L # f + 1 PROVE FALSE
        OBVIOUS
      <4>2. L \in ((f + 1) + 1)..Len(P)
        BY <1>7, <2>3, <3>7, <4>1 DEF k
      <4> DEFINE z == f + 1
      <4>3. P[L].m > P[z].m
        <5>1. z \in 1..Len(P) /\ P[z].b = NUL /\ L \in (z + 1)..Len(P)
          BY <3>7, <3>8, <4>2
        <5> HIDE DEF z
        <5> QED BY <1>3, <5>1, BehindZero
      <4>4. m1 \in Int
        BY <3>2
      <4> QED BY <3>5, <3>8, <4>3, <4>4
    <3>10. CASE L = k
      <4>1. P[k] = [m |-> Len(told), b |-> NUL]
        BY <1>3, <1>8
      <4>2. Q = <<>>
        BY <2>9, <3>10, <1>7
      <4> QED BY <3>2, <3>4, <3>5, <3>10, <4>1, <4>2
    <3>11. CASE L # k
      <4>1. L < k /\ L \in 1..(Len(P) - 1)
        BY <1>3, <1>7, <3>11 DEF k
      <4>2. P[L + 1] = After(P[L])
        BY <1>3, <4>1 DEF IsRun
      <4>3. P[L + 1] = [m |-> m1 + 1, b |-> 1]
        BY <3>5, <4>2 DEF After, Following
      <4>4. Q # <<>> /\ Q[1] = [m |-> m1 + 1, b |-> 1]
        BY <2>9, <4>1, <4>3
      <4> QED BY <3>2, <3>4, <4>4
    <3> QED BY <3>10, <3>11
  <2> QED BY <1>2, <1>8, <2>1, <2>10, <2>11 DEF P, line
<1> QED BY <1>11, <1>12

\* The line x, of message n, is behind all that were taken notice of and before what
\* is on its way.
Between(n, line) ==
    /\ TailLine(n, line) /\ line[1].m = n
    /\ \A k \in 1..Len(shown) : shown[k][1].m < n
    /\ Pending # <<>> => Past(n, Pending[1])

Told ==
    /\ \A k \in 1..Len(shown) : TailLine(shown[k][1].m, shown[k])
    /\ \A j, k \in 1..Len(shown) : j < k => shown[j][1].m < shown[k][1].m
    /\ \A k \in 1..Len(shown) : Pending # <<>> => Past(shown[k][1].m, Pending[1])
    /\ at = "lines" => HasLF(buffer)
    /\ at = "lines" /\ Line # <<>> => Between(Line[1].m, Line)

\* The next thing on its way is the beginning of message n.
From(n) == IF Pending = <<>> THEN Len(told) = n - 1 ELSE Pending[1] = [m |-> n, b |-> 1]

\* As long as nothing was cut or merged, nothing is missing.
Kept ==
    ~cut /\ ~merged =>
        /\ Len(shown) <= Len(told)
        /\ \A k \in 1..Len(shown) : Len(shown[k]) = Text(told[k])
        /\ at \in {"select", "readline", "gone"} => From(Len(shown) + 1)
        /\ at = "lines" =>
              /\ Len(shown) < Len(told) /\ Line # <<>>
              /\ Len(Line) = Text(told[Len(shown) + 1])
              /\ From(Len(shown) + 2)

\* What is on its way begins as before when a message is sent.
LEMMA SendFront ==
    ASSUME TypeOK, NEW len \in Lengths, SendMessage(len)
    PROVE  /\ Pending # <<>> => Pending' # <<>> /\ Pending'[1] = Pending[1]
           /\ Pending = <<>> => Pending' # <<>> /\ Pending'[1] = [m |-> Len(told) + 1, b |-> 1]
<1> DEFINE new == Bytes(Len(told) + 1, len)
           top == Len(told) + 1
<1>1. told' = Append(told, len)
  BY DEF SendMessage
<1>2. Len(told) \in Nat
  BY <1>1, MoreTold
<1>3. Pending # <<>> => Pending' # <<>> /\ Pending'[1] = Pending[1]
  <2>1. Pending' = Pending \o new
    BY SendPending
  <2> DEFINE P == Pending
             Y == [m : {top}, b : {LF, NUL} \cup 1..Text(len)]
             B == Byte \cup Y
  <2>2. P \in Seq(Byte) /\ new \in Seq(Y)
    <3>1. top \in Int
      BY <1>2
    <3> QED BY <3>1, PendingType, BytesOf
  <2> HIDE DEF P, Y, new
  <2>3. P \in Seq(B) /\ new \in Seq(B)
    <3>1. P \in Seq(B)
      BY <2>2, SeqMonotonic
    <3>2. new \in Seq(B)
      BY <2>2, SeqMonotonic
    <3> QED BY <3>1, <3>2
  <2> HIDE DEF B
  <2>4. /\ P \o new \in Seq(B) /\ Len(P \o new) = Len(P) + Len(new)
        /\ \A i \in 1..(Len(P) + Len(new)) :
               (P \o new)[i] = IF i <= Len(P) THEN P[i] ELSE new[i - Len(P)]
    BY ONLY <2>3, ConcatProperties
  <2>5. ASSUME P # <<>> PROVE P \o new # <<>> /\ (P \o new)[1] = P[1]
    <3>1. Len(P) \in Nat \ {0} /\ Len(new) \in Nat
      BY <2>3, <2>5
    <3>2. 1 \in 1..(Len(P) + Len(new)) /\ 1 <= Len(P) /\ Len(P) + Len(new) # 0
      BY <3>1
    <3>3. Len(P \o new) # 0 /\ (P \o new)[1] = P[1]
      BY <2>4, <3>2
    <3> QED BY <2>4, <3>3
  <2> QED BY <2>1, <2>5 DEF P
<1>4. Pending = <<>> => Pending' # <<>> /\ Pending'[1] = [m |-> top, b |-> 1]
  <2>1. ASSUME Pending = <<>> PROVE Pending' = new
    <3>1. Pending' = Pending \o new
      BY SendPending
    <3>2. new \in Seq([m : {top}, b : {LF, NUL} \cup 1..Text(len)])
      <4>1. top \in Int
        BY <1>2
      <4> QED BY <4>1, BytesOf
    <3> QED BY <2>1, <3>1, <3>2, ConcatEmptySeq
  <2>2. new # <<>> /\ new[1] = [m |-> top, b |-> 1]
    <3>1. /\ Text(len) \in 1..(BufSize - 2) /\ Len(new) = Text(len) + 2
          /\ \A i \in 1..Text(len) : new[i] = [m |-> top, b |-> i]
      <4>1. top \in Int
        BY <1>2
      <4> QED BY <4>1, BytesOf
    <3>2. 1 \in 1..Text(len) /\ Text(len) + 2 # 0
      BY <3>1, WireAssumption
    <3>3. new[1] = [m |-> top, b |-> 1] /\ Len(new) # 0
      BY <3>1, <3>2
    <3> QED BY <3>3
  <2> QED BY <2>1, <2>2
<1> QED BY <1>3, <1>4

\* A new message is behind everything.
LEMMA SendTold ==
    ASSUME TypeOK, InOrder, Told, NEW len \in Lengths, SendMessage(len)
    PROVE  Told'
<1>1. /\ told' = Append(told, len) /\ UNCHANGED <<buffer, at, shown>>
  BY DEF SendMessage, reader
<1>2. /\ Len(told') = Len(told) + 1 /\ Len(told) \in Nat
      /\ \A m \in 1..Len(told) : told'[m] = told[m]
  BY <1>1, MoreTold
<1>3. \A n, line : TailLine(n, line) => TailLine(n, line)'
  <2> SUFFICES ASSUME NEW n, NEW line, TailLine(n, line) PROVE TailLine(n, line)'
    OBVIOUS
  <2>1. n \in 1..Len(told') /\ told'[n] = told[n]
    BY <1>2 DEF TailLine
  <2> QED BY <2>1 DEF TailLine
<1>4. /\ Pending # <<>> => Pending' # <<>> /\ Pending'[1] = Pending[1]
      /\ Pending = <<>> => Pending' # <<>> /\ Pending'[1] = [m |-> Len(told) + 1, b |-> 1]
  BY SendFront
<1>6. ASSUME NEW n \in 1..Len(told), Pending # <<>> => Past(n, Pending[1])
      PROVE  Past(n, Pending'[1])
  <2>1. CASE Pending # <<>>
    BY <1>4, <1>6, <2>1
  <2>2. CASE Pending = <<>>
    BY <1>2, <1>4, <2>2 DEF Past
  <2> QED BY <2>1, <2>2
<1>7. \A k \in 1..Len(shown) : shown[k][1].m \in 1..Len(told)
  BY DEF Told, TailLine
<1>8. Line' = Line
  BY <1>1, LineIsIn
<1>9. (\A k \in 1..Len(shown) : Pending # <<>> => Past(shown[k][1].m, Pending[1]))'
  BY <1>1, <1>6, <1>7 DEF Told
<1>10. (at = "lines" /\ Line # <<>> => Between(Line[1].m, Line))'
  <2> DEFINE n == Line[1].m
  <2>1. SUFFICES ASSUME at = "lines", Line # <<>> PROVE Between(Line[1].m, Line)'
    BY <1>1, <1>8
  <2>2. Between(n, Line)
    BY <2>1 DEF Told
  <2>3. TailLine(n, Line)'
    BY <1>3, <1>8, <2>2 DEF Between
  <2>4. n \in 1..Len(told)
    BY <2>2 DEF Between, TailLine
  <2>5. Past(n, Pending'[1])
    BY <1>6, <2>2, <2>4 DEF Between
  <2> QED BY <1>1, <1>8, <2>2, <2>3, <2>5 DEF Between
<1>11. (\A k \in 1..Len(shown) : TailLine(shown[k][1].m, shown[k]))'
  <2>1. SUFFICES ASSUME NEW k \in 1..Len(shown) PROVE TailLine(shown[k][1].m, shown[k])'
    BY <1>1
  <2>2. TailLine(shown[k][1].m, shown[k])
    BY DEF Told
  <2> DEFINE n == shown[k][1].m
             line == shown[k]
  <2>3. TailLine(n, line)
    BY <2>2
  <2>4. told'[n] = told[n] /\ n \in 1..Len(told')
    BY <1>2, <2>3 DEF TailLine
  <2> QED BY <1>1, <2>3, <2>4 DEF TailLine
<1>12. (\A j, k \in 1..Len(shown) : j < k => shown[j][1].m < shown[k][1].m)'
  BY <1>1 DEF Told
<1>13. (at = "lines" => HasLF(buffer))'
  BY <1>1 DEF Told
<1> QED BY <1>9, <1>10, <1>11, <1>12, <1>13 DEF Told

LEMMA ToldStep == TypeOK /\ InOrder /\ Told /\ [Next]_vars => Told'
<1> SUFFICES ASSUME TypeOK, InOrder, Told, [Next]_vars PROVE Told'
  OBVIOUS
<1>a. ASSUME UNCHANGED <<told, shown>>,
             Pending' # <<>> /\ shown # <<>> =>
                 Pending # <<>> /\ (\A k \in 1..Len(shown) :
                                        Past(shown[k][1].m, Pending[1]) =>
                                            Past(shown[k][1].m, Pending'[1])),
             at' = "lines" => HasLF(buffer'),
             at' = "lines" /\ Line' # <<>> => Between(Line[1].m, Line)'
      PROVE  Told'
  <2>1. \A k \in 1..Len(shown) : shown # <<>>
    <3>1. Len(<<>>) = 0
      OBVIOUS
    <3> QED BY <3>1
  <2>2. (\A k \in 1..Len(shown) : TailLine(shown[k][1].m, shown[k]))'
    BY <1>a DEF Told, TailLine
  <2>3. (\A k \in 1..Len(shown) : Pending # <<>> => Past(shown[k][1].m, Pending[1]))'
    BY <1>a, <2>1 DEF Told
  <2>4. (\A j, k \in 1..Len(shown) : j < k => shown[j][1].m < shown[k][1].m)'
    BY <1>a DEF Told
  <2> QED BY <1>a, <2>2, <2>3, <2>4 DEF Told
<1>b. ASSUME UNCHANGED <<told, shown, buffer>>, Pending' = Pending, at' = at
      PROVE  Told'
  <2>1. Line' = Line
    BY <1>b, LineIsIn
  <2>2. at = "lines" /\ Line # <<>> => Between(Line[1].m, Line)'
    BY <1>b, <2>1 DEF Told, Between, TailLine
  <2> QED BY <1>a, <1>b, <2>1, <2>2 DEF Told
<1>c. ASSUME UNCHANGED <<told, shown>>, Pending' = Pending, at' # "lines"
      PROVE  Told'
  BY <1>a, <1>c
<1>1. CASE UNCHANGED vars
  <2>1. UNCHANGED <<told, out, stream, buffer, at, shown>>
    BY <1>1 DEF vars, server, reader
  <2> QED BY <2>1, <1>b DEF Pending
<1>2. ASSUME NEW len \in Lengths, SendMessage(len) PROVE Told'
  BY <1>2, SendTold
<1>3. ASSUME NEW n \in 1..Capacity, sendall(n) PROVE Told'
  <2>1. UNCHANGED <<told, shown, buffer, at>>
    BY <1>3 DEF sendall, reader
  <2>2. Pending' = Pending
    BY <1>3, SendallPending
  <2> QED BY <2>1, <2>2, <1>b
<1>4. CASE CloseConnection
  <2>1. UNCHANGED <<told, out, stream, buffer, at, shown>>
    BY <1>4 DEF CloseConnection, reader
  <2> QED BY <2>1, <1>b DEF Pending
<1>5. CASE Select
  <2>1. UNCHANGED <<told, out, stream, shown>> /\ at = "select" /\ buffer' = <<>>
        /\ at' = "readline"
    BY <1>5 DEF Select, server
  <2> QED BY <2>1, <1>c DEF Pending
<1>6. ASSUME NEW n \in 1..BufSize, Read(n) PROVE Told'
  <2> DEFINE bytes == buffer \o SubSeq(stream, 1, n)
             L == Len(bytes)
             Q == SubSeq(Pending, L + 1, Len(Pending))
  <2>1. /\ at' = IF Goes(bytes) THEN "readline"
                 ELSE IF L = BufSize THEN "undefined" ELSE "lines"
        /\ UNCHANGED <<told, shown>>
    BY <1>6 DEF Read, server
  <2>2. /\ L \in 1..BufSize /\ L <= Len(Pending)
        /\ Pending' = IF Goes(bytes) THEN Pending ELSE Q
    BY <1>6, ReadPending
  <2>3. CASE Goes(bytes)
    BY <2>1, <2>2, <2>3, <1>c
  <2>4. CASE ~Goes(bytes)
    <3>1. /\ Pending # <<>> /\ Pending[1] \in Byte /\ HasLF(buffer')
          /\ Line' # <<>> =>
                /\ Pending[1].b >= 1
                /\ TailLine(Pending[1].m, Line') /\ Line'[1].m = Pending[1].m
                /\ Pending' # <<>> => Past(Pending[1].m, Pending'[1])
      BY <1>6, <2>4, ReadLine
    <3> DEFINE P == Pending
    <3>2. P \in Seq(Byte) /\ Len(P) \in Nat /\ IsRun(P)
      BY PendingType DEF InOrder
    <3>3. Pending' = Q
      BY <2>2, <2>4
    <3> HIDE DEF bytes, L
    <3>4. L \in Nat /\ L >= 1 /\ L \in 0..Len(P)
      BY <2>2, <3>2, WireAssumption
    <3>5. Q \in Seq(Byte) /\ Len(Q) = Len(P) - L /\ \A i \in 1..(Len(P) - L) : Q[i] = P[L + i]
      BY <3>2, <3>4, InTwo
    <3>6. ASSUME NEW m \in Int, Past(m, P[1]), Q # <<>> PROVE Past(m, Q[1])
      <4>1. Len(Q) \in Nat \ {0}
        BY <3>5, <3>6
      <4>2. 1 \in 1..(Len(P) - L) /\ 1 \in 1..Len(P) /\ L + 1 \in 1..Len(P)
        BY <3>2, <3>4, <3>5, <4>1
      <4>3. Past(m, P[L + 1])
        BY <3>2, <3>6, <4>2, PastRun
      <4> QED BY <3>5, <4>2, <4>3
    <3>7. \A k \in 1..Len(shown) : shown[k][1].m \in Int /\ Past(shown[k][1].m, P[1])
      BY <3>1 DEF Told, TailLine
    <3>8. Line' # <<>> => Between(Line[1].m, Line)'
      <4>1. SUFFICES ASSUME Line' # <<>> PROVE Between(Line[1].m, Line)'
        OBVIOUS
      <4>2. /\ P[1].b >= 1 /\ TailLine(P[1].m, Line') /\ Line'[1].m = P[1].m
            /\ Pending' # <<>> => Past(P[1].m, Pending'[1])
        BY <3>1, <4>1
      <4>3. P[1].b # NUL /\ P[1].m \in Int
        BY <3>1, <4>2, ByteFacts DEF NUL
      <4>4. \A k \in 1..Len(shown) : shown[k][1].m < P[1].m
        BY <3>7, <4>3 DEF Past
      <4>5. TailLine(Line[1].m, Line)'
        BY <2>1, <4>2 DEF TailLine
      <4> QED BY <2>1, <4>2, <4>4, <4>5 DEF Between
    <3> HIDE DEF Q
    <3>9. \A k \in 1..Len(shown) :
              Q # <<>> => Past(shown[k][1].m, Q[1])
      BY <3>6, <3>7
    <3> QED BY <1>a, <2>1, <3>1, <3>3, <3>8, <3>9
  <2> QED BY <2>3, <2>4
<1>7. CASE EndOfFile
  <2>1. /\ UNCHANGED <<told, out, stream, shown>> /\ at' = "gone"
        /\ at = "readline" /\ stream = <<>> /\ closed
    BY <1>7 DEF EndOfFile, server
  <2>2. out = <<>>
    BY <2>1 DEF InOrder
  <2>3. Pending' = <<>>
    BY <2>1, <2>2, EmptySeq, ConcatEmptySeq DEF Pending
  <2> QED BY <2>1, <2>3, <1>a
<1>8. CASE Lines
  <2>1. /\ UNCHANGED <<told, out, stream, buffer>> /\ at = "lines"
        /\ at' \in {"select", "undefined"}
        /\ shown' = IF Line = <<>> THEN shown ELSE Append(shown, Line)
    BY <1>8 DEF Lines, server
  <2>2. Pending' = Pending
    BY <2>1 DEF Pending
  <2>3. CASE Line = <<>>
    BY <2>1, <2>2, <2>3, <1>c
  <2>4. CASE Line # <<>>
    <3> DEFINE line == Line
               n == line[1].m
               l == Len(shown)
               new == Append(shown, line)
    <3>1. Between(n, line)
      BY <2>1, <2>4 DEF Told
    <3>2. shown \in Seq(Seq(Byte) \ {<<>>}) /\ line \in Seq(Byte) \ {<<>>}
      BY <2>4, LineIsIn, LineOf DEF TypeOK
    <3> HIDE DEF line, n
    <3>3. /\ l \in Nat /\ Len(new) = l + 1 /\ new[l + 1] = line
          /\ \A i \in 1..l : new[i] = shown[i]
      BY <3>2, AppendProperties
    <3> HIDE DEF new, l
    <3>4. shown' = new /\ line[1].m = n
      BY <2>1, <2>4 DEF new, line, n
    <3>5. ASSUME NEW k \in 1..(l + 1)
          PROVE  TailLine(new[k][1].m, new[k]) /\ (Pending # <<>> => Past(new[k][1].m, Pending[1]))
      <4>1. CASE k = l + 1
        BY <3>1, <3>3, <3>4, <4>1 DEF Between
      <4>2. CASE k # l + 1
        <5>1. k \in 1..l
          BY <3>3, <4>2
        <5> QED BY <3>3, <5>1 DEF Told, l
      <4> QED BY <4>1, <4>2
    <3>6. ASSUME NEW j \in 1..(l + 1), NEW k \in 1..(l + 1), j < k
          PROVE  new[j][1].m < new[k][1].m
      <4>1. j \in 1..l
        BY <3>3, <3>6
      <4>2. CASE k = l + 1
        BY <3>1, <3>3, <3>4, <4>1, <4>2 DEF Between, l
      <4>3. CASE k # l + 1
        <5>1. k \in 1..l
          BY <3>3, <4>3
        <5> QED BY <3>3, <3>6, <4>1, <5>1 DEF Told, l
      <4> QED BY <4>2, <4>3
    <3>7. (\A k \in 1..Len(shown) : TailLine(shown[k][1].m, shown[k]))'
      BY <2>1, <3>3, <3>4, <3>5 DEF TailLine
    <3>8. (\A k \in 1..Len(shown) : Pending # <<>> => Past(shown[k][1].m, Pending[1]))'
      BY <2>2, <3>3, <3>4, <3>5
    <3>9. (\A j, k \in 1..Len(shown) : j < k => shown[j][1].m < shown[k][1].m)'
      BY <3>3, <3>4, <3>6
    <3> QED BY <2>1, <3>7, <3>8, <3>9 DEF Told
  <2> QED BY <2>3, <2>4
<1> QED BY <1>1, <1>2, <1>3, <1>4, <1>5, <1>6, <1>7, <1>8 DEF Next, Sends, Reads

LEMMA KeptStep == TypeOK /\ InOrder /\ Kept /\ [Next]_vars => Kept'
<1> SUFFICES ASSUME TypeOK, InOrder, Kept, [Next]_vars PROVE Kept'
  OBVIOUS
<1>0. shown \in Seq(Seq(Byte) \ {<<>>}) /\ Len(shown) \in Nat /\ Len(told) \in Nat
  BY DEF TypeOK
<1>a. ASSUME UNCHANGED <<told, shown, cut, merged>>, Pending' = Pending,
             at' \in {"select", "readline", "gone"} =>
                 at \in {"select", "readline", "gone"},
             at' = "lines" => at = "lines" /\ buffer' = buffer
      PROVE  Kept'
  <2>1. \A n : From(n) => From(n)'
    BY <1>a DEF From
  <2>2. at' = "lines" => Line' = Line
    BY <1>a, LineIsIn
  <2>3. SUFFICES ASSUME ~cut, ~merged
                 PROVE  (/\ Len(shown) <= Len(told)
                         /\ \A k \in 1..Len(shown) : Len(shown[k]) = Text(told[k])
                         /\ at \in {"select", "readline", "gone"} => From(Len(shown) + 1)
                         /\ at = "lines" =>
                               /\ Len(shown) < Len(told) /\ Line # <<>>
                               /\ Len(Line) = Text(told[Len(shown) + 1])
                               /\ From(Len(shown) + 2))'
    BY <1>a DEF Kept
  <2> DEFINE n1 == Len(shown) + 1
             n2 == Len(shown) + 2
  <2>4. at \in {"select", "readline", "gone"} => From(n1)
    BY <2>3 DEF Kept
  <2>5. (at \in {"select", "readline", "gone"} => From(Len(shown) + 1))'
    BY <1>a, <2>4 DEF From
  <2>6. at = "lines" =>
            /\ Len(shown) < Len(told) /\ Line # <<>>
            /\ Len(Line) = Text(told[Len(shown) + 1])
            /\ From(n2)
    BY <2>3 DEF Kept
  <2>7. (at = "lines" =>
            /\ Len(shown) < Len(told) /\ Line # <<>>
            /\ Len(Line) = Text(told[Len(shown) + 1])
            /\ From(Len(shown) + 2))'
    BY <1>a, <2>2, <2>6 DEF From
  <2> QED BY <1>a, <2>3, <2>5, <2>7 DEF Kept
<1>1. CASE UNCHANGED vars
  <2>1. UNCHANGED <<told, out, stream, buffer, at, shown, cut, merged>>
    BY <1>1 DEF vars, server, reader
  <2> QED BY <2>1, <1>a DEF Pending
<1>2. ASSUME NEW len \in Lengths, SendMessage(len) PROVE Kept'
  <2>1. told' = Append(told, len) /\ UNCHANGED <<buffer, at, shown, cut, merged>>
    BY <1>2 DEF SendMessage, reader
  <2>2. Len(told') = Len(told) + 1 /\ \A m \in 1..Len(told) : told'[m] = told[m]
    BY <2>1, MoreTold
  <2>3. ASSUME NEW n \in Int, From(n)
        PROVE  Pending' # <<>> /\ Pending'[1] = [m |-> n, b |-> 1]
    <3>1. CASE Pending # <<>>
      BY <1>2, <2>3, <3>1, SendFront DEF From
    <3>2. CASE Pending = <<>>
      <4>1. n = Len(told) + 1
        BY <1>0, <2>3, <3>2 DEF From
      <4> QED BY <1>2, <3>2, <4>1, SendFront
    <3> QED BY <3>1, <3>2
  <2>4. Line' = Line
    BY <2>1, LineIsIn
  <2>5. SUFFICES ASSUME ~cut, ~merged
                 PROVE  (/\ Len(shown) <= Len(told)
                         /\ \A k \in 1..Len(shown) : Len(shown[k]) = Text(told[k])
                         /\ at \in {"select", "readline", "gone"} => From(Len(shown) + 1)
                         /\ at = "lines" =>
                               /\ Len(shown) < Len(told) /\ Line # <<>>
                               /\ Len(Line) = Text(told[Len(shown) + 1])
                               /\ From(Len(shown) + 2))'
    BY <2>1 DEF Kept
  <2>6. Len(shown) + 1 \in Int /\ Len(shown) + 2 \in Int
    BY <1>0
  <2>7. (at \in {"select", "readline", "gone"} => From(Len(shown) + 1))'
    BY <2>1, <2>3, <2>5, <2>6 DEF Kept, From
  <2>8. Len(shown) <= Len(told) /\ \A k \in 1..Len(shown) : Len(shown[k]) = Text(told[k])
    BY <2>5 DEF Kept
  <2>9. (/\ Len(shown) <= Len(told)
         /\ \A k \in 1..Len(shown) : Len(shown[k]) = Text(told[k]))'
    <3>1. \A k \in 1..Len(shown) : k \in 1..Len(told)
      BY <1>0, <2>8
    <3> QED BY <1>0, <2>1, <2>2, <2>8, <3>1
  <2>10. ASSUME at = "lines"
         PROVE  (/\ Len(shown) < Len(told) /\ Line # <<>>
                 /\ Len(Line) = Text(told[Len(shown) + 1])
                 /\ From(Len(shown) + 2))'
    <3>1. /\ Len(shown) < Len(told) /\ Line # <<>>
          /\ Len(Line) = Text(told[Len(shown) + 1])
          /\ From(Len(shown) + 2)
      BY <2>5, <2>10 DEF Kept
    <3>2. Len(shown) + 1 \in 1..Len(told)
      BY <1>0, <3>1
    <3>3. Pending' # <<>> /\ Pending'[1] = [m |-> Len(shown) + 2, b |-> 1]
      BY <2>3, <2>6, <3>1
    <3> QED BY <1>0, <2>1, <2>2, <2>4, <3>1, <3>2, <3>3 DEF From
  <2> QED BY <2>1, <2>7, <2>9, <2>10
<1>3. ASSUME NEW n \in 1..Capacity, sendall(n) PROVE Kept'
  <2>1. UNCHANGED <<told, shown, buffer, at, cut, merged>>
    BY <1>3 DEF sendall, reader
  <2>2. Pending' = Pending
    BY <1>3, SendallPending
  <2> QED BY <2>1, <2>2, <1>a
<1>4. CASE CloseConnection
  <2>1. UNCHANGED <<told, out, stream, buffer, at, shown, cut, merged>>
    BY <1>4 DEF CloseConnection, reader
  <2> QED BY <2>1, <1>a DEF Pending
<1>5. CASE Select
  <2>1. UNCHANGED <<told, out, stream, shown, cut, merged>> /\ at = "select"
        /\ buffer' = <<>> /\ at' = "readline"
    BY <1>5 DEF Select, server
  <2> QED BY <2>1, <1>a DEF Pending
<1>6. ASSUME NEW n \in 1..BufSize, Read(n) PROVE Kept'
  <2> DEFINE bytes == buffer \o SubSeq(stream, 1, n)
             L == Len(bytes)
  <2>1. /\ at = "readline"
        /\ at' = IF Goes(bytes) THEN "readline"
                 ELSE IF L = BufSize THEN "undefined" ELSE "lines"
        /\ cut' = (cut \/ (HasLF(bytes) /\ Last(bytes).b # NUL))
        /\ merged' = (merged \/ Last(bytes).m # bytes[1].m)
        /\ UNCHANGED <<told, shown>>
    BY <1>6 DEF Read, server
  <2>2. Goes(bytes) => Pending' = Pending
    BY <1>6, ReadPending
  <2>3. SUFFICES ASSUME ~cut', ~merged'
                 PROVE  (/\ Len(shown) <= Len(told)
                         /\ \A k \in 1..Len(shown) : Len(shown[k]) = Text(told[k])
                         /\ at \in {"select", "readline", "gone"} => From(Len(shown) + 1)
                         /\ at = "lines" =>
                               /\ Len(shown) < Len(told) /\ Line # <<>>
                               /\ Len(Line) = Text(told[Len(shown) + 1])
                               /\ From(Len(shown) + 2))'
    BY DEF Kept
  <2>4. ~cut /\ ~merged
    BY <2>1, <2>3
  <2>5. /\ Len(shown) <= Len(told)
        /\ \A k \in 1..Len(shown) : Len(shown[k]) = Text(told[k])
        /\ From(Len(shown) + 1)
    BY <2>1, <2>4 DEF Kept
  <2>6. CASE Goes(bytes)
    <3>1. at' = "readline" /\ Pending' = Pending
      BY <2>1, <2>2, <2>6
    <3> QED BY <2>1, <2>5, <3>1 DEF From
  <2>7. CASE ~Goes(bytes)
    <3>1. at' \in {"undefined", "lines"}
      BY <2>1, <2>7
    <3> DEFINE N == Len(shown) + 1
    <3>2. Pending # <<>> /\ Pending[1] \in Byte
      BY <1>6, <2>7, ReadLine
    <3>3. Pending[1] = [m |-> N, b |-> 1]
      BY <2>5, <3>2 DEF From
    <3> HIDE DEF N
    <3>4. Pending[1].b = 1 /\ Pending[1].m = N
      BY <3>3
    <3>5. /\ Line' # <<>> /\ Len(Line') = Text(told[N])
          /\ IF Pending' = <<>> THEN Len(told) = N
             ELSE Pending'[1] = [m |-> N + 1, b |-> 1]
      <4>1. /\ Line' # <<>> /\ Len(Line') = Text(told[Pending[1].m])
            /\ IF Pending' = <<>> THEN Len(told) = Pending[1].m
               ELSE Pending'[1] = [m |-> Pending[1].m + 1, b |-> 1]
        BY <1>6, <2>3, <2>7, <3>4, ReadLine
      <4> QED BY <3>4, <4>1
    <3>6. N \in 1..Len(told)
      BY <3>2, <3>4, ByteFacts
    <3>7. N + 1 = Len(shown) + 2 /\ Len(shown) < Len(told)
      BY <1>0, <3>6 DEF N
    <3>8. From(Len(shown) + 2)'
      <4>1. CASE Pending' = <<>>
        BY <1>0, <2>1, <3>5, <3>7, <4>1 DEF From, N
      <4>2. CASE Pending' # <<>>
        BY <2>1, <3>5, <3>7, <4>2 DEF From
      <4> QED BY <4>1, <4>2
    <3> QED BY <2>1, <2>5, <3>1, <3>5, <3>7, <3>8 DEF N
  <2> QED BY <2>6, <2>7
<1>7. CASE EndOfFile
  <2>1. /\ UNCHANGED <<told, out, stream, shown, buffer, cut, merged>> /\ at' = "gone"
        /\ at = "readline" /\ stream = <<>> /\ closed
    BY <1>7 DEF EndOfFile, server
  <2>2. out = <<>> /\ Goes(buffer)
    BY <2>1 DEF InOrder
  <2>3. Pending' = <<>>
    BY <2>1, <2>2, EmptySeq, ConcatEmptySeq DEF Pending
  <2>4. Pending = buffer
    <3>1. buffer \in Seq(Byte)
      BY DEF TypeOK
    <3> QED BY <2>1, <2>2, <3>1, ConcatEmptySeq DEF Pending
  \* A message that has begun would have ended.
  <2>5. ASSUME ~cut, ~merged PROVE Pending = <<>>
    <3>1. SUFFICES ASSUME Pending # <<>> PROVE FALSE
      OBVIOUS
    <3>2. Pending[1] = [m |-> Len(shown) + 1, b |-> 1]
      BY <2>1, <2>5, <3>1 DEF Kept, From
    <3> DEFINE P == Pending
               k == Len(P)
    <3>3. P \in Seq(Byte) /\ k \in Nat /\ k # 0 /\ IsRun(P)
          /\ P[k] = [m |-> Len(told), b |-> NUL]
      BY <3>1, PendingType DEF InOrder
    <3>4. \A i \in 1..k : P[i].b # LF
      BY <2>2, <2>4, <3>3 DEF Goes, HasLF
    <3> HIDE DEF P, k
    <3>5. P[1].b = 1
      BY <3>2 DEF P
    <3>6. k \in 1..Len(P) /\ k \in 1..k /\ (\A i \in 1..(k - 1) : P[i].b # LF) /\ P[k].b # LF
      <4>1. k \in 1..k
        BY <3>3
      <4> QED BY <3>3, <3>4, <4>1 DEF k
    <3>7. P[k].b = P[1].b + k - 1
      BY <3>3, <3>5, <3>6, TextRun
    <3> QED BY <3>3, <3>5, <3>7 DEF NUL
  <2>6. SUFFICES ASSUME ~cut, ~merged
                 PROVE  (/\ Len(shown) <= Len(told)
                         /\ \A k \in 1..Len(shown) : Len(shown[k]) = Text(told[k])
                         /\ at \in {"select", "readline", "gone"} => From(Len(shown) + 1)
                         /\ at = "lines" =>
                               /\ Len(shown) < Len(told) /\ Line # <<>>
                               /\ Len(Line) = Text(told[Len(shown) + 1])
                               /\ From(Len(shown) + 2))'
    BY <2>1 DEF Kept
  <2>7. /\ Len(shown) <= Len(told)
        /\ \A k \in 1..Len(shown) : Len(shown[k]) = Text(told[k])
        /\ From(Len(shown) + 1)
    BY <2>1, <2>6 DEF Kept
  <2>8. From(Len(shown) + 1)'
    BY <2>1, <2>3, <2>5, <2>6, <2>7 DEF From
  <2> QED BY <2>1, <2>7, <2>8
<1>8. CASE Lines
  <2>1. /\ UNCHANGED <<told, out, stream, buffer, cut, merged>> /\ at = "lines"
        /\ at' \in {"select", "undefined"}
        /\ shown' = IF Line = <<>> THEN shown ELSE Append(shown, Line)
    BY <1>8 DEF Lines, server
  <2>2. Pending' = Pending
    BY <2>1 DEF Pending
  <2>3. SUFFICES ASSUME ~cut, ~merged
                 PROVE  (/\ Len(shown) <= Len(told)
                         /\ \A k \in 1..Len(shown) : Len(shown[k]) = Text(told[k])
                         /\ at \in {"select", "readline", "gone"} => From(Len(shown) + 1)
                         /\ at = "lines" =>
                               /\ Len(shown) < Len(told) /\ Line # <<>>
                               /\ Len(Line) = Text(told[Len(shown) + 1])
                               /\ From(Len(shown) + 2))'
    BY <2>1 DEF Kept
  <2> DEFINE line == Line
             l == Len(shown)
             new == Append(shown, line)
  <2>4. /\ l < Len(told) /\ line # <<>> /\ Len(line) = Text(told[l + 1])
        /\ From(l + 2)
        /\ \A k \in 1..l : Len(shown[k]) = Text(told[k])
    BY <2>1, <2>3 DEF Kept
  <2>5. line \in Seq(Byte) \ {<<>>}
    BY <2>4, LineIsIn, LineOf DEF TypeOK
  <2> HIDE DEF line
  <2>6. /\ l \in Nat /\ Len(new) = l + 1 /\ new[l + 1] = line
        /\ \A i \in 1..l : new[i] = shown[i]
    BY <1>0, <2>5, AppendProperties
  <2>7. shown' = new
    BY <2>1, <2>4 DEF line
  <2> HIDE DEF new, l
  <2>8. \A k \in 1..(l + 1) : Len(new[k]) = Text(told[k])
    <3>1. SUFFICES ASSUME NEW k \in 1..(l + 1) PROVE Len(new[k]) = Text(told[k])
      OBVIOUS
    <3>2. CASE k = l + 1
      BY <2>4, <2>6, <3>2
    <3>3. CASE k # l + 1
      <4>1. k \in 1..l
        BY <2>6, <3>3
      <4> QED BY <2>4, <2>6, <4>1
    <3> QED BY <3>2, <3>3
  <2>9. From(Len(shown) + 1)'
    <3>1. (l + 1) + 1 = l + 2 /\ Len(shown') = l + 1
      BY <2>6, <2>7
    <3> QED BY <2>1, <2>2, <2>4, <3>1 DEF From
  <2>10. l + 1 <= Len(told)
    BY <1>0, <2>4, <2>6
  <2> QED BY <2>1, <2>6, <2>7, <2>8, <2>9, <2>10
<1> QED BY <1>1, <1>2, <1>3, <1>4, <1>5, <1>6, <1>7, <1>8 DEF Next, Sends, Reads

-----------------------------------------------------------------------------
(* The theorems.                                                           *)

WireInv == TypeOK /\ InOrder /\ Told /\ Kept

LEMMA WireInit == Init => WireInv
<1> SUFFICES ASSUME Init PROVE WireInv
  OBVIOUS
<1>1. /\ told = <<>> /\ out = <<>> /\ closed = FALSE /\ stream = <<>>
      /\ buffer = <<>> /\ at = "select" /\ shown = <<>>
      /\ cut = FALSE /\ merged = FALSE
  BY DEF Init
<1>2. TypeOK
  BY <1>1, WireAssumption DEF TypeOK
<1>3. Pending = <<>>
  BY <1>1, EmptySeq, ConcatEmptySeq DEF Pending
<1>4. InOrder
  BY <1>1, <1>3 DEF InOrder, IsRun
<1>5. Told
  BY <1>1, <1>3 DEF Told
<1>6. From(Len(shown) + 1)
  BY <1>1, <1>3 DEF From
<1>7. Kept
  BY <1>1, <1>6 DEF Kept
<1> QED BY <1>2, <1>4, <1>5, <1>7 DEF WireInv

\* The end of a message is what IsTail calls one.
LEMMA TailsAre ==
    ASSUME TypeOK, NEW line \in Seq(Byte), TailLine(line[1].m, line)
    PROVE  IsTail(line)
<1> DEFINE m == line[1].m
           T == Text(told[m])
           text == [i \in 1..T |-> [m |-> m, b |-> i]]
           l == Len(line)
<1>1. m \in 1..Len(told) /\ l \in 1..T
      /\ \A i \in 1..l : line[i] = [m |-> m, b |-> T - l + i]
  BY DEF TailLine
<1>2. T \in Nat
  <2>1. told[m] \in Lengths
    BY <1>1 DEF TypeOK
  <2>2. T \in 1..(BufSize - 2)
    BY <2>1, TextRange
  <2> HIDE DEF T
  <2> QED BY <2>2, WireAssumption
<1>3. l \in Nat /\ l <= T
  BY <1>1, <1>2
<1> HIDE DEF T, l, m
<1>4. Len(text) = T /\ \A i \in 1..T : text[i] = [m |-> m, b |-> i]
  BY <1>2
<1> HIDE DEF text
<1> DEFINE r == Reverse(line)
           q == Reverse(text)
<1>5. r = [i \in 1..l |-> line[(l - i) + 1]] /\ q = [i \in 1..T |-> text[(T - i) + 1]]
  BY <1>4 DEF Reverse, l
<1>6. Len(r) = l /\ Len(q) = T
  BY <1>2, <1>3, <1>5
<1>7. \A i \in 1..l : r[i] = [m |-> m, b |-> T - i + 1]
  <2>1. SUFFICES ASSUME NEW i \in 1..l PROVE r[i] = [m |-> m, b |-> T - i + 1]
    OBVIOUS
  <2> DEFINE j == (l - i) + 1
  <2>2. j \in 1..l /\ T - l + j = T - i + 1
    BY <1>2, <1>3
  <2>3. r[i] = line[j]
    BY <1>5
  <2> HIDE DEF j
  <2>4. line[j] = [m |-> m, b |-> T - l + j]
    BY <1>1, <2>2
  <2> QED BY <2>2, <2>3, <2>4
<1>8. \A i \in 1..l : q[i] = [m |-> m, b |-> T - i + 1]
  <2>1. SUFFICES ASSUME NEW i \in 1..l PROVE q[i] = [m |-> m, b |-> T - i + 1]
    OBVIOUS
  <2> DEFINE j == (T - i) + 1
  <2>2. j \in 1..T /\ i \in 1..T
    BY <1>2, <1>3
  <2>3. q[i] = text[j]
    BY <1>5, <2>2
  <2> QED BY <1>4, <2>2, <2>3
<1> HIDE DEF r, q
<1> DEFINE S == [m : {m}, b : Int]
           R == SubSeq(r, 1, l)
           Q == SubSeq(q, 1, l)
<1>9. \A i \in 1..l : r[i] \in S /\ q[i] \in S
  <2>1. SUFFICES ASSUME NEW i \in 1..l PROVE r[i] \in S /\ q[i] \in S
    OBVIOUS
  <2> DEFINE b == T - i + 1
  <2>2. b \in Int
    BY <1>2, <1>3
  <2>3. r[i] = [m |-> m, b |-> b] /\ q[i] = [m |-> m, b |-> b]
    BY <1>7, <1>8
  <2> HIDE DEF b
  <2> QED BY <2>2, <2>3
<1> HIDE DEF S
<1>10. R \in Seq(S) /\ Len(R) = l /\ \A i \in 1..l : R[i] = r[i]
  <2>1. /\ R \in Seq(S) /\ Len(R) = IF 1 <= l THEN l - 1 + 1 ELSE 0
        /\ \A i \in 1..(l - 1 + 1) : R[i] = r[1 + i - 1]
    BY <1>3, <1>9, SubSeqProperties
  <2> QED BY <1>3, <2>1
<1>11. Q \in Seq(S) /\ Len(Q) = l /\ \A i \in 1..l : Q[i] = q[i]
  <2>1. /\ Q \in Seq(S) /\ Len(Q) = IF 1 <= l THEN l - 1 + 1 ELSE 0
        /\ \A i \in 1..(l - 1 + 1) : Q[i] = q[1 + i - 1]
    BY <1>3, <1>9, SubSeqProperties
  <2> QED BY <1>3, <2>1
<1> HIDE DEF R, Q
<1>12. R = Q
  <2>1. \A i \in 1..Len(R) : R[i] = Q[i]
    BY <1>7, <1>8, <1>10, <1>11
  <2> QED BY <1>10, <1>11, <2>1, SeqEqual
<1>13. IsPrefix(r, q)
  BY <1>3, <1>6, <1>12 DEF IsPrefix, R, Q
<1> QED BY <1>13 DEF IsTail, IsSuffix, r, q, text, T, m

\* However the stream is taken apart, a line the reader takes notice of is a message
\* or the tail of one; none is told twice and none overtaken.
THEOREM NeverInvents == Spec => []NothingInvented
<1>1. WireInv /\ [Next]_vars => WireInv'
  BY TypeStep, InOrderStep, ToldStep, KeptStep DEF WireInv
<1>2. WireInv => NothingInvented
  <2> SUFFICES ASSUME WireInv PROVE NothingInvented
    OBVIOUS
  <2>1. TypeOK /\ Told
    BY DEF WireInv
  <2>2. shown \in Seq(Seq(Byte) \ {<<>>}) /\ DOMAIN shown = 1..Len(shown)
    BY <2>1 DEF TypeOK
  <2>3. \A k \in 1..Len(shown) : IsTail(shown[k])
    <3>1. SUFFICES ASSUME NEW k \in 1..Len(shown) PROVE IsTail(shown[k])
      OBVIOUS
    <3>2. shown[k] \in Seq(Byte)
      BY <2>2
    <3>3. TailLine(shown[k][1].m, shown[k])
      BY <2>1 DEF Told
    <3> QED BY <2>1, <3>2, <3>3, TailsAre
  <2> QED BY <2>1, <2>2, <2>3 DEF NothingInvented, Told
<1> QED BY WireInit, <1>1, <1>2, PTL DEF Spec

\* When all has been read, every message has been shown, and whole, unless one was
\* read together with another one or parted behind its line feed.
THEOREM LosesOnlyByMerging == Spec => []LostOnlyByMerging
<1>1. WireInv /\ [Next]_vars => WireInv'
  BY TypeStep, InOrderStep, ToldStep, KeptStep DEF WireInv
<1>2. WireInv => LostOnlyByMerging
  <2> SUFFICES ASSUME WireInv, at \in {"select", "gone"}, stream = <<>>, out = <<>>,
                      ~cut, ~merged
               PROVE  Len(shown) = Len(told)
                      /\ \A k \in DOMAIN shown : Len(shown[k]) = Text(told[k])
    BY DEF LostOnlyByMerging
  <2>1. TypeOK /\ Kept
    BY DEF WireInv
  <2>2. /\ Len(shown) \in Nat /\ Len(told) \in Nat /\ DOMAIN shown = 1..Len(shown)
    BY <2>1 DEF TypeOK
  <2>3. Pending = <<>>
    BY EmptySeq, ConcatEmptySeq DEF Pending
  <2>4. /\ From(Len(shown) + 1)
        /\ \A k \in 1..Len(shown) : Len(shown[k]) = Text(told[k])
    BY <2>1 DEF Kept
  <2>5. Len(told) = (Len(shown) + 1) - 1
    BY <2>3, <2>4 DEF From
  <2> QED BY <2>2, <2>4, <2>5
<1> QED BY WireInit, <1>1, <1>2, PTL DEF Spec

=============================================================================
