------------------------- MODULE AnswerStreamProofs -------------------------
(***************************************************************************)
(* Proofs about AnswerStream, for texts, messages and runs of any length.  *)
(***************************************************************************)
EXTENDS AnswerStream, SequenceTheorems, WellFoundedInduction, TLAPS

\* What a text is made of, the answer that is none included.
Marks == Symbols \cup {NoResponse}

Texts == Seq(Marks)

-----------------------------------------------------------------------------
(* Induction, and functions defined by recursion.                          *)

\* A set of naturals has a smallest element.
LEMMA SmallestElement ==
  ASSUME NEW S, S \subseteq Nat, S # {}
  PROVE  \E x \in S : \A y \in S : x <= y
<1> DEFINE Less == OpToRel(<, Nat)
<1>1. \A x, y \in Nat : <<x, y>> \in Less <=> x < y
  BY DEF OpToRel
<1>2. IsWellFoundedOn(Less, Nat)
  BY NatLessThanWellFounded
<1> HIDE DEF Less
<1>3. PICK x \in S : \A y \in S : ~ (<<y, x>> \in Less)
  BY <1>2, WFMin, Zenon
<1>4. ASSUME NEW y \in S PROVE x <= y
  <2>1. x \in Nat /\ y \in Nat /\ ~ (y < x)
    BY <1>1, <1>3
  <2>2. QED
    BY <2>1
<1>5. QED
  BY <1>4

\* A set that holds 0, and with a number its successor, holds all numbers.
LEMMA Induction ==
  ASSUME NEW S, 0 \in S, \A n \in Nat : n \in S => n + 1 \in S
  PROVE  \A n \in Nat : n \in S
<1>1. SUFFICES ASSUME Nat \ S # {} PROVE FALSE
  OBVIOUS
<1>2. PICK x \in Nat \ S : \A y \in Nat \ S : x <= y
  BY <1>1, SmallestElement, Zenon
<1>3. x # 0 /\ x - 1 \in Nat
  BY <1>2
<1>4. x - 1 \in S
  BY <1>2, <1>3
<1>5. x - 1 + 1 \in S
  BY <1>3, <1>4, Zenon
<1>6. QED
  BY <1>5

\* f computes each value out of the one before, which step maps to it if it
\* is in D.
Computes(f, N, D, base, step) ==
  f[0] = base /\ \A n \in 1 .. N : f[n - 1] \in D => f[n] = step[n][f[n - 1]]

\* There is a function that computes step by step, ...
LEMMA ComputationExists ==
  ASSUME NEW D, NEW base \in D, NEW N \in Nat, NEW step \in [1 .. N -> [D -> D]]
  PROVE  \E f \in [0 .. N -> D] : Computes(f, N, D, base, step)
<1> DEFINE S == {m \in Nat : m <= N => \E f \in [0 .. m -> D] : Computes(f, m, D, base, step)}
<1>1. 0 \in S
  <2>1. [n \in 0 .. 0 |-> base] \in [0 .. 0 -> D] /\ Computes([n \in 0 .. 0 |-> base], 0, D, base, step)
    BY DEF Computes
  <2>2. QED
    BY <2>1
<1>2. ASSUME NEW m \in Nat, m \in S PROVE m + 1 \in S
  <2>1. SUFFICES ASSUME m + 1 <= N
                 PROVE  \E f \in [0 .. m + 1 -> D] : Computes(f, m + 1, D, base, step)
    OBVIOUS
  <2>2. PICK f \in [0 .. m -> D] : Computes(f, m, D, base, step)
    BY <1>2, <2>1
  <2> DEFINE g == [n \in 0 .. m + 1 |-> IF n <= m THEN f[n] ELSE step[m + 1][f[m]]]
  <2>3. f[m] \in D /\ step[m + 1][f[m]] \in D
    BY <2>1
  <2>4. g \in [0 .. m + 1 -> D]
    BY <2>3
  <2>5. Computes(g, m + 1, D, base, step)
    BY <2>2 DEF Computes
  <2>6. QED
    BY <2>4, <2>5
<1> HIDE DEF S
<1>3. \A n \in Nat : n \in S
  BY <1>1, <1>2, Induction, Zenon
<1>4. N \in S
  BY <1>3
<1>5. QED
  BY <1>4 DEF S

\* ... and no other.
LEMMA ComputationUnique ==
  ASSUME NEW N \in Nat, NEW D, NEW base, NEW step, NEW f, NEW g \in [0 .. N -> D],
         Computes(f, N, D, base, step), Computes(g, N, D, base, step)
  PROVE  \A n \in 0 .. N : f[n] = g[n]
<1> DEFINE S == {m \in Nat : m <= N => f[m] = g[m]}
<1>1. 0 \in S
  BY DEF Computes
<1>2. ASSUME NEW m \in Nat, m \in S PROVE m + 1 \in S
  <2>1. SUFFICES ASSUME m + 1 <= N PROVE f[m + 1] = g[m + 1]
    OBVIOUS
  <2>2. PICK n \in 1 .. N : n = m + 1 /\ n - 1 = m
    BY <2>1
  <2>3. f[n - 1] = g[n - 1] /\ g[n - 1] \in D
    BY <1>2, <2>1, <2>2
  <2>4. f[n] = step[n][f[n - 1]] /\ g[n] = step[n][g[n - 1]]
    BY <2>3 DEF Computes
  <2>5. QED
    BY <2>2, <2>3, <2>4
<1> HIDE DEF S
<1>3. \A n \in Nat : n \in S
  BY <1>1, <1>2, Induction, Zenon
<1>4. QED
  BY <1>3 DEF S

-----------------------------------------------------------------------------
(* What Ink leaves of a text.                                              *)

InkStep(text) ==
  [n \in 1 .. Len(text) |->
     [ink \in Texts |-> IF text[n] = Break THEN ink ELSE Append(ink, text[n])]]

LEMMA TextFacts ==
  ASSUME NEW text \in Texts
  PROVE  /\ Len(text) \in Nat /\ DOMAIN text = 1 .. Len(text)
         /\ \A n \in 1 .. Len(text) : text[n] \in Marks
         /\ InkStep(text) \in [1 .. Len(text) -> [Texts -> Texts]]
<1>1. Len(text) \in Nat /\ DOMAIN text = 1 .. Len(text)
  BY LenProperties DEF Texts
<1>2. ASSUME NEW n \in 1 .. Len(text) PROVE text[n] \in Marks
  BY ElementOfSeq DEF Texts
<1>3. ASSUME NEW n \in 1 .. Len(text), NEW ink \in Texts
      PROVE  Append(ink, text[n]) \in Texts
  BY <1>2, AppendProperties DEF Texts
<1>4. QED
  BY <1>1, <1>2, <1>3 DEF InkStep

\* Ink is computed mark by mark.
LEMMA InkComputed ==
  ASSUME NEW text \in Texts
  PROVE  \E ink \in [0 .. Len(text) -> Texts] :
           Computes(ink, Len(text), Texts, <<>>, InkStep(text)) /\ Ink(text) = ink[Len(text)]
<1> DEFINE N == Len(text)
           Rec(f) == [n \in 0 .. N |->
                        IF n = 0 THEN <<>>
                        ELSE IF text[n] = Break THEN f[n - 1]
                        ELSE Append(f[n - 1], text[n])]
           ink == CHOOSE f : f = Rec(f)
<1>1. <<>> \in Texts /\ N \in Nat /\ InkStep(text) \in [1 .. N -> [Texts -> Texts]]
  BY TextFacts, EmptySeq DEF Texts
<1>2. PICK g \in [0 .. N -> Texts] : Computes(g, N, Texts, <<>>, InkStep(text))
  BY <1>1, ComputationExists
<1>3. ASSUME NEW n \in 1 .. N
      PROVE  g[n] = IF text[n] = Break THEN g[n - 1] ELSE Append(g[n - 1], text[n])
  <2>1. g[n - 1] \in Texts
    BY <1>1
  <2>2. g[n] = InkStep(text)[n][g[n - 1]]
    BY <1>2 DEF Computes
  <2>3. QED
    BY <2>1, <2>2 DEF InkStep
<1>4. g = Rec(g)
  <2>1. g[0] = <<>>
    BY <1>2 DEF Computes
  <2>2. g = [n \in 0 .. N |-> g[n]]
    BY <1>1
  <2>3. \A n \in 0 .. N : n = 0 \/ n \in 1 .. N
    BY <1>1
  <2>4. QED
    BY <1>3, <2>1, <2>2, <2>3
<1>5. ink = Rec(ink)
  BY <1>4, Zenon
<1>6. Ink(text) = ink[N]
  BY DEF Ink
<1> HIDE DEF ink
<1>7. ASSUME NEW n \in 1 .. N
      PROVE  ink[n] = IF text[n] = Break THEN ink[n - 1] ELSE Append(ink[n - 1], text[n])
  <2>1. n \in 0 .. N /\ n # 0
    BY <1>1
  <2>2. QED
    BY <1>5, <2>1
<1>8. ink[0] = <<>>
  <2>1. 0 \in 0 .. N
    BY <1>1
  <2>2. QED
    BY <1>5, <2>1
<1>9. ASSUME NEW n \in 1 .. N, ink[n - 1] \in Texts
      PROVE  ink[n] = InkStep(text)[n][ink[n - 1]]
  BY <1>7, <1>9 DEF InkStep
<1>10. \A n \in 0 .. N : ink[n] = g[n]
  <2>1. Computes(ink, N, Texts, <<>>, InkStep(text))
    BY <1>8, <1>9 DEF Computes
  <2>2. QED
    BY <1>1, <1>2, <2>1, ComputationUnique
<1>11. ink[N] = g[N]
  BY <1>1, <1>10
<1>12. QED
  BY <1>2, <1>6, <1>11

LEMMA InkEmpty ==
  <<>> \in Texts /\ Len(<<>>) = 0 /\ Ink(<<>>) = <<>>
<1>1. <<>> \in Texts /\ Len(<<>>) = 0
  BY EmptySeq DEF Texts
<1>2. QED
  BY <1>1, InkComputed DEF Computes

LEMMA InkType ==
  ASSUME NEW text \in Texts
  PROVE  Ink(text) \in Texts
BY InkComputed, TextFacts

LEMMA InkAppend ==
  ASSUME NEW text \in Texts, NEW mark \in Marks
  PROVE  /\ Append(text, mark) \in Texts
         /\ Ink(Append(text, mark)) = IF mark = Break THEN Ink(text) ELSE Append(Ink(text), mark)
<1> DEFINE longer == Append(text, mark)
           N == Len(text)
<1>1. /\ longer \in Texts /\ Len(longer) = N + 1 /\ N \in Nat
      /\ longer[N + 1] = mark /\ \A n \in 1 .. N : longer[n] = text[n]
  BY AppendProperties, TextFacts DEF Texts
<1> HIDE DEF longer
<1>2. PICK f \in [0 .. N -> Texts] : Computes(f, N, Texts, <<>>, InkStep(text)) /\ Ink(text) = f[N]
  BY InkComputed
<1>3. PICK g \in [0 .. N + 1 -> Texts] :
         Computes(g, N + 1, Texts, <<>>, InkStep(longer)) /\ Ink(longer) = g[N + 1]
  BY <1>1, InkComputed
<1> HIDE DEF N
<1>4. ASSUME NEW n \in 1 .. N + 1, NEW ink \in Texts
      PROVE  InkStep(longer)[n][ink] = IF longer[n] = Break THEN ink ELSE Append(ink, longer[n])
  BY <1>1 DEF InkStep
<1>5. Computes(g, N, Texts, <<>>, InkStep(text))
  <2>1. ASSUME NEW n \in 1 .. N PROVE g[n] = InkStep(text)[n][g[n - 1]]
    <3>1. n \in 1 .. N + 1 /\ n - 1 \in 0 .. N + 1
      BY <1>1
    <3>2. g[n] = InkStep(longer)[n][g[n - 1]]
      BY <1>3, <3>1, Zenon DEF Computes
    <3>3. InkStep(text)[n][g[n - 1]] = IF text[n] = Break THEN g[n - 1] ELSE Append(g[n - 1], text[n])
      BY <3>1 DEF InkStep, N
    <3>4. QED
      BY <1>1, <1>4, <3>1, <3>2, <3>3
  <2>2. QED
    BY <1>3, <2>1, Zenon DEF Computes
<1>6. f[N] = g[N]
  <2>1. \A n \in 0 .. N : g[n] = f[n]
    BY <1>1, <1>2, <1>5, ComputationUnique
  <2>2. QED
    BY <1>1, <2>1
<1>7. g[N + 1] = InkStep(longer)[N + 1][g[N]]
  <2>1. PICK n \in 1 .. N + 1 : n = N + 1 /\ n - 1 = N
    BY <1>1
  <2>2. g[n - 1] \in Texts
    BY <1>1, <1>3, <2>1
  <2>3. g[n] = InkStep(longer)[n][g[n - 1]]
    BY <1>3, <2>2, Zenon DEF Computes
  <2>4. QED
    BY <2>1, <2>3
<1>8. g[N + 1] = IF mark = Break THEN g[N] ELSE Append(g[N], mark)
  <2>1. g[N] \in Texts /\ N + 1 \in 1 .. N + 1
    BY <1>1, <1>3
  <2>2. QED
    BY <1>1, <1>4, <1>7, <2>1
<1>9. QED
  BY <1>1, <1>2, <1>3, <1>6, <1>8 DEF longer, N

\* Every text is reached from the empty one mark by mark.
LEMMA TextInduction ==
  ASSUME NEW S, <<>> \in S,
         \A text \in Texts, mark \in Marks : text \in S => Append(text, mark) \in S
  PROVE  \A text \in Texts : text \in S
<1> DEFINE T == {n \in Nat : \A text \in Texts : Len(text) = n => text \in S}
<1>1. 0 \in T
  <2>1. ASSUME NEW text \in Texts, Len(text) = 0 PROVE text = <<>>
    BY <2>1, EmptySeq DEF Texts
  <2>2. QED
    BY <2>1
<1>2. ASSUME NEW n \in Nat, n \in T PROVE n + 1 \in T
  <2>1. SUFFICES ASSUME NEW text \in Texts, Len(text) = n + 1 PROVE text \in S
    BY <1>2
  <2>2. text # <<>>
    BY <2>1, InkEmpty
  <2>3. PICK shorter \in Texts, mark \in Marks : text = Append(shorter, mark)
    BY <2>2, SequenceEmptyOrAppend DEF Texts
  <2>4. Len(text) = Len(shorter) + 1 /\ Len(shorter) \in Nat
    BY <2>3, AppendProperties, TextFacts DEF Texts
  <2>5. shorter \in S
    BY <1>2, <2>1, <2>4
  <2>6. QED
    BY <2>3, <2>5
<1> HIDE DEF T
<1>3. \A n \in Nat : n \in T
  BY <1>1, <1>2, Induction, Zenon
<1>4. QED
  BY <1>3, TextFacts DEF T

LEMMA Concat ==
  ASSUME NEW s \in Texts, NEW t \in Texts
  PROVE  /\ s \o t \in Texts /\ Len(s \o t) = Len(s) + Len(t)
         /\ s \o <<>> = s /\ <<>> \o s = s
BY ConcatProperties, ConcatEmptySeq DEF Texts

LEMMA Associative ==
  ASSUME NEW s \in Texts, NEW t \in Texts, NEW u \in Texts
  PROVE  (s \o t) \o u = s \o (t \o u)
BY ConcatAssociative DEF Texts

\* The same of texts put together by an operator that is not expanded, where
\* the sequences distract the provers.
Then(s, t) == s \o t

LEMMA ThenAssociative ==
  ASSUME NEW s \in Texts, NEW t \in Texts, NEW u \in Texts
  PROVE  Then(Then(s, t), u) = Then(s, Then(t, u))
BY Associative DEF Then

LEMMA ConcatAppend ==
  ASSUME NEW s \in Texts, NEW t \in Texts, NEW mark \in Marks
  PROVE  s \o Append(t, mark) = Append(s \o t, mark)
<1>1. <<mark>> \in Texts
  BY AppendProperties, EmptySeq DEF Texts
<1>2. Append(t, mark) = t \o <<mark>> /\ Append(s \o t, mark) = (s \o t) \o <<mark>>
  BY AppendIsConcat, Concat DEF Texts
<1>3. QED
  BY <1>1, <1>2, Associative

\* The ink of two texts, one after the other.
LEMMA InkConcat ==
  ASSUME NEW s \in Texts, NEW t \in Texts
  PROVE  Ink(s \o t) = Ink(s) \o Ink(t)
<1> DEFINE S == {text \in Texts : Ink(s \o text) = Ink(s) \o Ink(text)}
<1>1. <<>> \in S
  BY InkEmpty, InkType, Concat
<1>2. ASSUME NEW text \in Texts, NEW mark \in Marks, text \in S
      PROVE  Append(text, mark) \in S
  <2>1. /\ Append(text, mark) \in Texts /\ s \o text \in Texts
        /\ Ink(s) \in Texts /\ Ink(text) \in Texts
        /\ Ink(s \o text) = Ink(s) \o Ink(text)
    BY <1>2, InkAppend, InkType, Concat
  <2>2. Ink(s \o Append(text, mark))
          = IF mark = Break THEN Ink(s \o text) ELSE Append(Ink(s \o text), mark)
    <3>1. s \o Append(text, mark) = Append(s \o text, mark)
      BY ConcatAppend
    <3>2. Ink(Append(s \o text, mark))
            = IF mark = Break THEN Ink(s \o text) ELSE Append(Ink(s \o text), mark)
      BY <2>1, InkAppend, Zenon
    <3>3. QED
      BY <3>1, <3>2
  <2>3. Ink(Append(text, mark)) = IF mark = Break THEN Ink(text) ELSE Append(Ink(text), mark)
    BY InkAppend
  <2>4. Ink(s \o Append(text, mark)) = Ink(s) \o Ink(Append(text, mark))
    BY <2>1, <2>2, <2>3, ConcatAppend
  <2>5. QED
    BY <2>1, <2>4
<1> HIDE DEF S
<1>3. \A text \in Texts : text \in S
  BY <1>1, <1>2, TextInduction, Zenon
<1>4. QED
  BY <1>3 DEF S

LEMMA BlankMarks ==
  ASSUME NEW text
  PROVE  IsBlank(text) <=> \A i \in 1 .. Len(text) : text[i] = Break
BY DEF IsBlank, Inked

\* White space leaves no ink.
LEMMA InkBlank ==
  ASSUME NEW text \in Texts, IsBlank(text)
  PROVE  Ink(text) = <<>>
<1> DEFINE S == {t \in Texts : IsBlank(t) => Ink(t) = <<>>}
<1>1. <<>> \in S
  BY InkEmpty
<1>2. ASSUME NEW t \in Texts, NEW mark \in Marks, t \in S
      PROVE  Append(t, mark) \in S
  <2>1. /\ Append(t, mark) \in Texts
        /\ Ink(Append(t, mark)) = IF mark = Break THEN Ink(t) ELSE Append(Ink(t), mark)
    BY InkAppend
  <2>2. /\ Len(Append(t, mark)) = Len(t) + 1 /\ Len(t) \in Nat
        /\ Append(t, mark)[Len(t) + 1] = mark
        /\ \A i \in 1 .. Len(t) : Append(t, mark)[i] = t[i]
    BY AppendProperties, TextFacts DEF Texts
  <2>3. ASSUME IsBlank(Append(t, mark)) PROVE mark = Break /\ IsBlank(t)
    <3>1. \A i \in 1 .. Len(t) + 1 : Append(t, mark)[i] = Break
      BY <2>2, <2>3, BlankMarks
    <3>2. QED
      BY <2>2, <3>1, BlankMarks
  <2>4. QED
    BY <1>2, <2>1, <2>3
<1> HIDE DEF S
<1>3. \A t \in Texts : t \in S
  BY <1>1, <1>2, TextInduction, Zenon
<1>4. QED
  BY <1>3 DEF S

-----------------------------------------------------------------------------
(* Pieces of texts.                                                        *)

LEMMA Slice ==
  ASSUME NEW text \in Texts, NEW m \in 1 .. Len(text) + 1, NEW n \in m - 1 .. Len(text)
  PROVE  /\ SubSeq(text, m, n) \in Texts /\ Len(SubSeq(text, m, n)) = n - m + 1
         /\ \A i \in 1 .. n - m + 1 : SubSeq(text, m, n)[i] = text[m + i - 1]
<1>1. Len(text) \in Nat
  BY TextFacts
<1>2. m \in Int /\ n \in Int /\ \A i \in m .. n : text[i] \in Marks
  BY <1>1, TextFacts
<1>3. /\ SubSeq(text, m, n) \in Seq(Marks)
      /\ Len(SubSeq(text, m, n)) = IF m <= n THEN n - m + 1 ELSE 0
      /\ \A i \in 1 .. n - m + 1 : SubSeq(text, m, n)[i] = text[m + i - 1]
  BY <1>2, SubSeqProperties
<1>4. QED
  BY <1>1, <1>3 DEF Texts

LEMMA Whole ==
  ASSUME NEW text \in Texts
  PROVE  SubSeq(text, 1, Len(text)) = text
BY SubSeqFull DEF Texts

\* A text is its first n marks and the others.
LEMMA Halves ==
  ASSUME NEW text \in Texts, NEW n \in 0 .. Len(text)
  PROVE  /\ SubSeq(text, 1, n) \in Texts /\ Len(SubSeq(text, 1, n)) = n
         /\ SubSeq(text, n + 1, Len(text)) \in Texts
         /\ text = SubSeq(text, 1, n) \o SubSeq(text, n + 1, Len(text))
<1>1. Len(text) \in Nat
  BY TextFacts
<1>2. 1 \in 1 .. Len(text) + 1 /\ n \in 1 - 1 .. Len(text) /\ n \in Nat
      /\ n + 1 \in 1 .. Len(text) + 1 /\ Len(text) \in n + 1 - 1 .. Len(text)
      /\ Len(text) \in n .. Len(text)
  BY <1>1
<1>3. SubSeq(text, 1, n) \o SubSeq(text, n + 1, Len(text)) = SubSeq(text, 1, Len(text))
  BY <1>2, ConcatAdjacentSubSeq DEF Texts
<1>4. SubSeq(text, 1, n) \in Texts /\ Len(SubSeq(text, 1, n)) = n - 1 + 1
  BY <1>2, Slice
<1>5. SubSeq(text, n + 1, Len(text)) \in Texts
  BY <1>2, Slice
<1>6. n - 1 + 1 = n
  BY <1>2
<1>7. text = SubSeq(text, 1, n) \o SubSeq(text, n + 1, Len(text))
  BY <1>3, Whole, Zenon
<1>8. Len(SubSeq(text, 1, n)) = n
  BY <1>4, <1>6, Zenon
<1>9. QED
  BY <1>4, <1>5, <1>7, <1>8, Zenon

LEMMA PrefixSlice ==
  ASSUME NEW s \in Texts, NEW t \in Texts
  PROVE  IsPrefix(s, t) <=> Len(s) <= Len(t) /\ s = SubSeq(t, 1, Len(s))
BY Whole DEF IsPrefix

LEMMA PrefixRest ==
  ASSUME NEW s \in Texts, NEW t \in Texts, IsPrefix(s, t)
  PROVE  SubSeq(t, Len(s) + 1, Len(t)) \in Texts /\ t = s \o SubSeq(t, Len(s) + 1, Len(t))
<1>1. Len(s) \in 0 .. Len(t) /\ s = SubSeq(t, 1, Len(s))
  BY PrefixSlice, TextFacts
<1>2. QED
  BY <1>1, Halves

LEMMA SlicePrefix ==
  ASSUME NEW t \in Texts, NEW n \in 0 .. Len(t)
  PROVE  IsPrefix(SubSeq(t, 1, n), t)
<1>1. SubSeq(t, 1, n) \in Texts /\ Len(SubSeq(t, 1, n)) = n
  BY Halves
<1>2. n <= Len(t)
  BY TextFacts
<1> DEFINE first == SubSeq(t, 1, n)
<1> HIDE DEF first
<1>3. first \in Texts /\ Len(first) <= Len(t) /\ first = SubSeq(t, 1, Len(first))
  BY <1>1, <1>2 DEF first
<1>4. IsPrefix(first, t)
  BY <1>3, PrefixSlice, Zenon
<1>5. QED
  BY <1>4 DEF first

\* What is put in front stays there.
LEMMA FirstHalf ==
  ASSUME NEW s \in Texts, NEW t \in Texts, NEW n \in 0 .. Len(s)
  PROVE  /\ n \in 0 .. Len(s \o t)
         /\ SubSeq(s \o t, 1, n) = SubSeq(s, 1, n)
<1>1. /\ s \o t \in Texts /\ Len(s \o t) = Len(s) + Len(t) /\ Len(s) \in Nat /\ Len(t) \in Nat
      /\ \A i \in 1 .. Len(s) : (s \o t)[i] = s[i]
  BY Concat, TextFacts, ConcatProperties DEF Texts
<1>2. n \in 0 .. Len(s \o t)
  BY <1>1
<1> DEFINE long == s \o t
<1> HIDE DEF long
<1>3. /\ SubSeq(s, 1, n) \in Texts /\ Len(SubSeq(s, 1, n)) = n
      /\ \A i \in 1 .. n : SubSeq(s, 1, n)[i] = s[i]
  <2>1. 1 \in 1 .. Len(s) + 1 /\ n \in 1 - 1 .. Len(s) /\ n - 1 + 1 = n /\ \A i \in 1 .. n : 1 + i - 1 = i
    BY <1>1
  <2>2. QED
    BY <2>1, Slice
<1>4. /\ SubSeq(long, 1, n) \in Texts /\ Len(SubSeq(long, 1, n)) = n
      /\ \A i \in 1 .. n : SubSeq(long, 1, n)[i] = long[i]
  <2>1. 1 \in 1 .. Len(long) + 1 /\ n \in 1 - 1 .. Len(long) /\ n - 1 + 1 = n /\ \A i \in 1 .. n : 1 + i - 1 = i
    BY <1>1, <1>2 DEF long
  <2>2. long \in Texts
    BY <1>1 DEF long
  <2>3. QED
    BY <2>1, <2>2, Slice
<1>5. \A i \in 1 .. n : SubSeq(long, 1, n)[i] = SubSeq(s, 1, n)[i]
  BY <1>1, <1>3, <1>4 DEF long
<1>6. SubSeq(long, 1, n) = SubSeq(s, 1, n)
  BY <1>3, <1>4, <1>5, SeqEqual DEF Texts
<1>7. QED
  BY <1>2, <1>6 DEF long

LEMMA PrefixConcat ==
  ASSUME NEW s \in Texts, NEW t \in Texts
  PROVE  IsPrefix(s, s \o t)
<1>1. Len(s) \in 0 .. Len(s) /\ Len(s) \in Nat /\ Len(t) \in Nat
  BY TextFacts
<1>2. s \o t \in Texts /\ Len(s) <= Len(s \o t)
  BY <1>1, Concat
<1>3. SubSeq(s \o t, 1, Len(s)) = s
  BY <1>1, FirstHalf, Whole
<1>4. QED
  BY <1>2, <1>3, PrefixSlice

LEMMA PrefixOfPrefix ==
  ASSUME NEW s \in Texts, NEW t \in Texts, NEW u \in Texts, IsPrefix(s, t), IsPrefix(t, u)
  PROVE  IsPrefix(s, u)
<1> DEFINE x == SubSeq(t, Len(s) + 1, Len(t))
           y == SubSeq(u, Len(t) + 1, Len(u))
<1>1. x \in Texts /\ y \in Texts /\ t = s \o x /\ u = t \o y
  BY PrefixRest
<1> HIDE DEF x, y
<1>2. u = s \o (x \o y) /\ x \o y \in Texts
  <2>1. x \o y \in Texts
    BY <1>1, Concat
  <2>2. (s \o x) \o y = s \o (x \o y)
    <3>1. s \in Texts /\ x \in Texts /\ y \in Texts
      BY <1>1
    <3>2. Then(Then(s, x), y) = Then(s, Then(x, y))
      BY <3>1, ThenAssociative
    <3>3. QED
      BY <3>2 DEF Then
  <2>3. QED
    BY <1>1, <2>1, <2>2
<1>3. QED
  BY <1>2, PrefixConcat

-----------------------------------------------------------------------------
(* Trimming.                                                               *)

LEMMA MinProperties ==
  ASSUME NEW S, S \subseteq Nat, S # {}
  PROVE  Min(S) \in S /\ \A x \in S : Min(S) <= x
BY SmallestElement, Zenon DEF Min

LEMMA MaxProperties ==
  ASSUME NEW b \in Nat, NEW S, S \subseteq 0 .. b, S # {}
  PROVE  Max(S) \in S /\ \A x \in S : Max(S) >= x
<1>1. {b - x : x \in S} \subseteq Nat /\ {b - x : x \in S} # {}
  <2>1. \A x \in S : b - x \in Nat
    OBVIOUS
  <2>2. QED
    BY <2>1
<1>2. PICK d \in {b - x : x \in S} : \A e \in {b - x : x \in S} : d <= e
  BY <1>1, SmallestElement, Zenon
<1>3. PICK x \in S : d = b - x
  BY <1>2
<1>4. \A y \in S : x >= y
  BY <1>2, <1>3
<1>5. QED
  BY <1>4 DEF Max

\* What TrimStart leaves out and where it stops.
LEMMA TrimStartFrom ==
  ASSUME NEW text \in Texts
  PROVE  \E n \in 0 .. Len(text) :
           /\ TrimStart(text) = SubSeq(text, n + 1, Len(text))
           /\ \A i \in 1 .. n : text[i] = Break
           /\ n < Len(text) => text[n + 1] # Break
<1> DEFINE S == Inked(text) \cup {Len(text) + 1}
           m == Min(S)
<1>1. Len(text) \in Nat
  BY TextFacts
<1>2. S \subseteq 1 .. Len(text) + 1 /\ S \subseteq Nat /\ S # {}
  BY <1>1 DEF Inked
<1>3. m \in S /\ \A x \in S : m <= x
  BY <1>2, MinProperties
<1> HIDE DEF m
<1>4. m \in 1 .. Len(text) + 1 /\ (m <= Len(text) => text[m] # Break)
  BY <1>1, <1>3 DEF Inked
<1>5. ASSUME NEW i \in 1 .. m - 1 PROVE text[i] = Break
  BY <1>1, <1>3, <1>4 DEF Inked
<1>6. PICK n \in 0 .. Len(text) : n = m - 1 /\ n + 1 = m
  BY <1>1, <1>4
<1>7. TrimStart(text) = SubSeq(text, n + 1, Len(text))
  BY <1>6 DEF TrimStart, m
<1>8. /\ \A i \in 1 .. n : text[i] = Break
      /\ n < Len(text) => text[n + 1] # Break
  BY <1>1, <1>4, <1>5, <1>6
<1>9. QED
  BY <1>7, <1>8, Zenon

\* What Trim leaves out.
LEMMA TrimBounds ==
  ASSUME NEW text \in Texts, ~IsBlank(text)
  PROVE  \E m \in 1 .. Len(text), n \in 1 .. Len(text) :
           /\ m <= n /\ text[m] # Break /\ text[n] # Break
           /\ Trim(text) = SubSeq(text, m, n)
           /\ \A i \in 1 .. m - 1 : text[i] = Break
           /\ \A i \in n + 1 .. Len(text) : text[i] = Break
<1> DEFINE S == Inked(text) \cup {0}
           n == Max(S)
           head == SubSeq(text, 1, n)
<1>1. Len(text) \in Nat
  BY TextFacts
<1>2. S \subseteq 0 .. Len(text) /\ S # {} /\ \E i \in S : i > 0
  BY <1>1 DEF Inked, IsBlank
<1>3. n \in S /\ \A x \in S : n >= x
  BY <1>1, <1>2, MaxProperties
<1> HIDE DEF n
<1>4. n \in 1 .. Len(text) /\ text[n] # Break /\ n \in 0 .. Len(text)
  BY <1>1, <1>2, <1>3 DEF Inked
<1>5. ASSUME NEW i \in n + 1 .. Len(text) PROVE text[i] = Break
  BY <1>1, <1>3, <1>4 DEF Inked
<1>6. head \in Texts /\ Len(head) = n /\ \A i \in 1 .. n : head[i] = text[i]
  <2>1. 1 \in 1 .. Len(text) + 1 /\ n \in 1 - 1 .. Len(text) /\ n - 1 + 1 = n
        /\ \A i \in 1 .. n : 1 + i - 1 = i
    BY <1>1, <1>4
  <2>2. QED
    BY <2>1, Slice
<1>7. Trim(text) = TrimStart(head)
  BY DEF Trim, n
<1>8. PICK k \in 0 .. Len(head) :
        /\ TrimStart(head) = SubSeq(head, k + 1, Len(head))
        /\ \A i \in 1 .. k : head[i] = Break
        /\ k < Len(head) => head[k + 1] # Break
  BY <1>6, TrimStartFrom, Zenon
<1>9. k < n
  <2>1. k = n => head[n] = Break
    BY <1>4, <1>8
  <2>2. QED
    BY <1>4, <1>6, <1>8, <2>1
<1>10. SubSeq(head, k + 1, n) = SubSeq(text, k + 1, n)
  <2>1. 1 \in 1 .. Len(text) /\ n \in 1 .. Len(text) /\ k + 1 \in 1 .. n - 1 + 1 /\ n \in 1 .. n - 1 + 1
        /\ 1 + (k + 1) - 1 = k + 1 /\ 1 + n - 1 = n
    BY <1>1, <1>4, <1>6, <1>8, <1>9
  <2>2. SubSeq(SubSeq(text, 1, n), k + 1, n) = SubSeq(text, 1 + (k + 1) - 1, 1 + n - 1)
    BY <2>1, SubSeqOfSubSeq DEF Texts
  <2>3. QED
    BY <2>1, <2>2
<1>11. Trim(text) = SubSeq(text, k + 1, n)
  BY <1>6, <1>7, <1>8, <1>10
<1>12. k + 1 \in 1 .. Len(text) /\ k + 1 <= n /\ text[k + 1] # Break
       /\ \A i \in 1 .. k + 1 - 1 : text[i] = Break
  BY <1>1, <1>4, <1>6, <1>8, <1>9
<1>13. PICK m \in 1 .. Len(text) : m = k + 1
  BY <1>12
<1>14. /\ m <= n /\ text[m] # Break /\ text[n] # Break
       /\ Trim(text) = SubSeq(text, m, n)
       /\ \A i \in 1 .. m - 1 : text[i] = Break
  BY <1>4, <1>11, <1>12, <1>13
<1>15. \A i \in n + 1 .. Len(text) : text[i] = Break
  BY <1>5
<1>16. QED
  BY <1>4, <1>14, <1>15, Zenon

LEMMA BlankSlice ==
  ASSUME NEW text \in Texts, NEW m \in 1 .. Len(text) + 1, NEW n \in m - 1 .. Len(text),
         \A i \in m .. n : text[i] = Break
  PROVE  Ink(SubSeq(text, m, n)) = <<>>
<1> DEFINE slice == SubSeq(text, m, n)
<1>1. Len(text) \in Nat
  BY TextFacts
<1>2. slice \in Texts /\ Len(slice) = n - m + 1 /\ \A i \in 1 .. n - m + 1 : slice[i] = text[m + i - 1]
  BY Slice
<1> HIDE DEF slice
<1>3. ASSUME NEW i \in 1 .. Len(slice) PROVE slice[i] = Break
  BY <1>1, <1>2
<1>4. IsBlank(slice)
  BY <1>3, BlankMarks
<1>5. QED
  BY <1>2, <1>4, InkBlank DEF slice

\* Trimming takes no ink.
LEMMA InkTrimStart ==
  ASSUME NEW text \in Texts
  PROVE  TrimStart(text) \in Texts /\ Ink(TrimStart(text)) = Ink(text)
<1>1. PICK n \in 0 .. Len(text) :
         /\ TrimStart(text) = SubSeq(text, n + 1, Len(text))
         /\ \A i \in 1 .. n : text[i] = Break
  BY TrimStartFrom
<1> DEFINE p == SubSeq(text, 1, n)
           q == SubSeq(text, n + 1, Len(text))
<1>2. p \in Texts /\ q \in Texts /\ text = p \o q
  BY Halves
<1>3. Ink(p) = <<>>
  <2>1. 1 \in 1 .. Len(text) + 1 /\ n \in 1 - 1 .. Len(text)
    BY TextFacts
  <2>2. QED
    BY <1>1, <2>1, BlankSlice
<1> HIDE DEF p, q
<1>4. Ink(text) = Ink(p) \o Ink(q) /\ Ink(q) \in Texts
  BY <1>2, InkConcat, InkType
<1>5. Ink(text) = Ink(q)
  BY <1>3, <1>4, Concat, InkEmpty
<1>6. TrimStart(text) = q
  BY <1>1 DEF q
<1>7. QED
  BY <1>2, <1>5, <1>6

LEMMA TrimBlank ==
  ASSUME NEW text \in Texts, IsBlank(text)
  PROVE  Trim(text) = <<>>
<1>1. Inked(text) \cup {0} = {0}
  BY DEF IsBlank
<1>2. Max({0}) = 0
  BY DEF Max
<1>3. SubSeq(text, 1, 0) = <<>>
  BY SubSeqEmpty
<1>4. Trim(text) = TrimStart(<<>>)
  BY <1>1, <1>2, <1>3, Zenon DEF Trim
<1>5. PICK n \in 0 .. Len(<<>>) : TrimStart(<<>>) = SubSeq(<<>>, n + 1, Len(<<>>))
  BY InkEmpty, TrimStartFrom
<1>6. SubSeq(<<>>, n + 1, Len(<<>>)) = <<>>
  <2>1. n + 1 \in Int /\ Len(<<>>) \in Int /\ Len(<<>>) < n + 1
    BY InkEmpty
  <2>2. QED
    BY <2>1, SubSeqEmpty
<1>7. QED
  BY <1>4, <1>5, <1>6

LEMMA InkTrim ==
  ASSUME NEW text \in Texts
  PROVE  /\ Trim(text) \in Texts /\ Ink(Trim(text)) = Ink(text)
         /\ ~IsBlank(text) => Len(Trim(text)) \in 1 .. Len(text)
<1>1. CASE IsBlank(text)
  BY <1>1, TrimBlank, InkBlank, InkEmpty
<1>2. CASE ~IsBlank(text)
  <2>1. PICK m \in 1 .. Len(text), n \in 1 .. Len(text) :
           /\ m <= n
           /\ Trim(text) = SubSeq(text, m, n)
           /\ \A i \in 1 .. m - 1 : text[i] = Break
           /\ \A i \in n + 1 .. Len(text) : text[i] = Break
    BY <1>2, TrimBounds
  <2>2. Len(text) \in Nat
    BY TextFacts
  <2> DEFINE p == SubSeq(text, 1, m - 1)
             x == SubSeq(text, m, n)
             q == SubSeq(text, n + 1, Len(text))
             r == SubSeq(text, m, Len(text))
  <2>3. /\ m \in 1 .. Len(text) + 1 /\ n \in m - 1 .. Len(text) /\ Len(text) \in n .. Len(text)
        /\ Len(text) \in m - 1 .. Len(text)
        /\ 1 \in 1 .. Len(text) + 1 /\ m - 1 \in 1 - 1 .. Len(text)
        /\ n + 1 \in 1 .. Len(text) + 1 /\ Len(text) \in n + 1 - 1 .. Len(text)
        /\ m - 1 \in 0 .. Len(text) /\ m - 1 + 1 = m
    BY <2>1, <2>2
  <2>4. x \in Texts /\ Len(x) = n - m + 1
    BY <2>3, Slice
  <2>5. q \in Texts /\ Ink(q) = <<>>
    <3>1. q \in Texts
      BY <2>3, Slice
    <3>2. Ink(q) = <<>>
      BY <2>1, <2>3, BlankSlice
    <3>3. QED
      BY <3>1, <3>2
  <2>6. p \in Texts /\ Ink(p) = <<>>
    <3>1. p \in Texts
      BY <2>3, Slice
    <3>2. Ink(p) = <<>>
      BY <2>1, <2>3, BlankSlice
    <3>3. QED
      BY <3>1, <3>2
  <2>7. r \in Texts /\ r = x \o q
    <3>1. r \in Texts
      BY <2>3, Slice
    <3>2. r = x \o q
      BY <2>3, ConcatAdjacentSubSeq DEF Texts
    <3>3. QED
      BY <3>1, <3>2
  <2>8. text = p \o r
    <3>1. text = SubSeq(text, 1, m - 1) \o SubSeq(text, m - 1 + 1, Len(text))
      BY <2>3, Halves
    <3>2. QED
      BY <2>3, <3>1
  <2> HIDE DEF p, q, r, x
  <2>9. Ink(r) = Ink(x)
    <3>1. Ink(r) = Ink(x) \o <<>>
      <4>1. Ink(x \o q) = Ink(x) \o Ink(q)
        BY <2>4, <2>5, InkConcat
      <4>2. QED
        BY <2>5, <2>7, <4>1
    <3>2. QED
      BY <2>4, <3>1, InkType, Concat
  <2>10. Ink(text) = Ink(x)
    <3>1. Ink(text) = <<>> \o Ink(r)
      BY <2>6, <2>7, <2>8, InkConcat
    <3>2. QED
      BY <2>7, <2>9, <3>1, InkType, Concat
  <2>11. n - m + 1 \in 1 .. Len(text)
    BY <2>1, <2>2
  <2>12. Trim(text) = x
    BY <2>1 DEF x
  <2>13. QED
    BY <2>4, <2>10, <2>11, <2>12
<1>3. QED
  BY <1>1, <1>2

LEMMA SlicesCompare ==
  ASSUME NEW t \in Texts, NEW m \in 0 .. Len(t), NEW n \in 0 .. Len(t), m <= n
  PROVE  IsPrefix(SubSeq(t, 1, m), SubSeq(t, 1, n))
<1> DEFINE x == SubSeq(t, 1, n)
           y == SubSeq(t, n + 1, Len(t))
<1>1. x \in Texts /\ Len(x) = n /\ y \in Texts /\ t = x \o y
  BY Halves
<1> HIDE DEF x, y
<1>2. m \in 0 .. Len(x)
  BY <1>1, TextFacts
<1>3. SubSeq(t, 1, m) = SubSeq(x, 1, m)
  BY <1>1, <1>2, FirstHalf
<1>4. IsPrefix(SubSeq(x, 1, m), x)
  BY <1>1, <1>2, SlicePrefix
<1>5. QED
  BY <1>3, <1>4 DEF x

\* A prefix agrees with what it is a prefix of.
LEMMA PrefixAgrees ==
  ASSUME NEW s \in Texts, NEW t \in Texts, IsPrefix(s, t)
  PROVE  Len(s) <= Len(t) /\ \A i \in 1 .. Len(s) : s[i] = t[i]
<1> DEFINE u == SubSeq(t, Len(s) + 1, Len(t))
<1>1. u \in Texts /\ t = s \o u
  BY PrefixRest
<1> HIDE DEF u
<1>2. Len(t) = Len(s) + Len(u) /\ Len(s) \in Nat /\ Len(u) \in Nat
  BY <1>1, Concat, TextFacts
<1>3. \A i \in 1 .. Len(s) + Len(u) : (s \o u)[i] = IF i <= Len(s) THEN s[i] ELSE u[i - Len(s)]
  BY <1>1, ConcatProperties DEF Texts
<1>4. QED
  BY <1>1, <1>2, <1>3

LEMMA PrefixBlank ==
  ASSUME NEW s \in Texts, NEW t \in Texts, IsPrefix(s, t), ~IsBlank(s)
  PROVE  ~IsBlank(t)
<1>1. PICK i \in 1 .. Len(s) : s[i] # Break
  BY BlankMarks
<1>2. i \in 1 .. Len(t) /\ t[i] = s[i]
  BY PrefixAgrees, TextFacts
<1>3. QED
  BY <1>1, <1>2, BlankMarks

\* As a text grows, so does what trimming leaves of it.
LEMMA TrimPrefix ==
  ASSUME NEW s \in Texts, NEW t \in Texts, IsPrefix(s, t), ~IsBlank(s)
  PROVE  IsPrefix(Trim(s), Trim(t))
<1>1. PICK m \in 1 .. Len(s), n \in 1 .. Len(s) :
         /\ m <= n /\ s[m] # Break /\ s[n] # Break
         /\ Trim(s) = SubSeq(s, m, n)
         /\ \A i \in 1 .. m - 1 : s[i] = Break
  BY TrimBounds
<1>2. PICK k \in 1 .. Len(t), l \in 1 .. Len(t) :
         /\ k <= l /\ t[k] # Break /\ t[l] # Break
         /\ Trim(t) = SubSeq(t, k, l)
         /\ \A i \in 1 .. k - 1 : t[i] = Break
         /\ \A i \in l + 1 .. Len(t) : t[i] = Break
  BY PrefixBlank, TrimBounds
<1>3. /\ Len(s) \in Nat /\ Len(t) \in Nat /\ Len(s) <= Len(t)
      /\ \A i \in 1 .. Len(s) : s[i] = t[i]
  BY PrefixAgrees, TextFacts
<1>4. k = m
  <2>1. ASSUME m < k PROVE FALSE
    <3>1. m \in 1 .. k - 1 /\ m \in 1 .. Len(s)
      BY <2>1
    <3>2. t[m] = Break /\ s[m] = t[m]
      BY <1>2, <1>3, <3>1
    <3>3. QED
      BY <1>1, <3>2
  <2>2. ASSUME k < m PROVE FALSE
    <3>1. k \in 1 .. m - 1 /\ k \in 1 .. Len(s)
      BY <1>3, <2>2
    <3>2. s[k] = Break /\ s[k] = t[k]
      BY <1>1, <1>3, <3>1
    <3>3. QED
      BY <1>2, <3>2
  <2>3. QED
    BY <1>1, <1>2, <2>1, <2>2
<1>5. n <= l
  <2>1. ~ (l < n)
    BY <1>1, <1>2, <1>3
  <2>2. QED
    BY <1>1, <1>2, <2>1
<1>6. Trim(s) = SubSeq(t, m, n)
  <2>1. Len(s) >= 1 /\ Len(t) >= Len(s)
    BY <1>1, <1>3
  <2>2. s = SubSeq(t, 1, Len(s))
    BY PrefixSlice
  <2>3. 1 \in 1 .. Len(t) /\ Len(s) \in 1 .. Len(t) /\ m \in 1 .. Len(s) - 1 + 1 /\ n \in 1 .. Len(s) - 1 + 1
        /\ 1 + m - 1 = m /\ 1 + n - 1 = n
    BY <1>1, <1>3, <2>1
  <2>4. SubSeq(SubSeq(t, 1, Len(s)), m, n) = SubSeq(t, 1 + m - 1, 1 + n - 1)
    BY <2>3, SubSeqOfSubSeq DEF Texts
  <2>5. QED
    BY <1>1, <2>2, <2>3, <2>4
<1>7. Trim(t) = SubSeq(t, m, n) \o SubSeq(t, n + 1, l)
  <2>1. m \in 1 .. Len(t) + 1 /\ n \in m - 1 .. Len(t) /\ l \in n .. Len(t)
    BY <1>1, <1>2, <1>3, <1>5
  <2>2. SubSeq(t, m, n) \o SubSeq(t, n + 1, l) = SubSeq(t, m, l)
    BY <2>1, ConcatAdjacentSubSeq DEF Texts
  <2>3. QED
    BY <1>2, <1>4, <2>2
<1>8. SubSeq(t, m, n) \in Texts
  <2>1. m \in 1 .. Len(t) + 1 /\ n \in m - 1 .. Len(t)
    BY <1>1, <1>3
  <2>2. QED
    BY <2>1, Slice
<1>9. SubSeq(t, n + 1, l) \in Texts
  <2>1. n + 1 \in 1 .. Len(t) + 1 /\ l \in n + 1 - 1 .. Len(t)
    BY <1>1, <1>2, <1>3, <1>5
  <2>2. QED
    BY <2>1, Slice
<1>10. QED
  BY <1>6, <1>7, <1>8, <1>9, PrefixConcat

-----------------------------------------------------------------------------
(* Splitting.                                                              *)

\* However a text is split, the first message is neither empty nor too long.
LEMMA SplitAtBounds ==
  ASSUME NEW text \in Texts, Len(text) > MaxLength
  PROVE  SplitAt(text) \in 1 .. MaxLength /\ SplitAt(text) \in 0 .. Len(text)
<1>1. MaxLength \in Nat \ {0} /\ Len(text) \in Nat
  BY AnswerStreamAssumption, TextFacts
<1>2. CASE Breaks(text) # {} /\ 2 * Max(Breaks(text)) >= MaxLength
  <2>1. Breaks(text) \subseteq 0 .. MaxLength
    BY DEF Breaks
  <2>2. Max(Breaks(text)) \in 0 .. MaxLength
    BY <1>1, <1>2, <2>1, MaxProperties
  <2>3. SplitAt(text) = Max(Breaks(text))
    BY <1>2 DEF SplitAt
  <2>4. QED
    BY <1>1, <1>2, <2>2, <2>3
<1>3. CASE ~ (Breaks(text) # {} /\ 2 * Max(Breaks(text)) >= MaxLength)
  <2>1. SplitAt(text) = MaxLength
    BY <1>3 DEF SplitAt
  <2>2. QED
    BY <1>1, <2>1
<1>4. QED
  BY <1>2, <1>3

\* Nothing but white space is lost where a text is split.
LEMMA ChunkFacts ==
  ASSUME NEW text \in Texts
  PROVE  /\ FirstChunk(text) \in Texts /\ AfterFirst(text) \in Texts
         /\ IsPrefix(FirstChunk(text), text)
         /\ text # <<>> => Len(FirstChunk(text)) \in 1 .. MaxLength
         /\ Ink(FirstChunk(text)) \o Ink(AfterFirst(text)) = Ink(text)
<1>1. MaxLength \in Nat \ {0} /\ Len(text) \in Nat /\ (text # <<>> => Len(text) > 0)
  BY AnswerStreamAssumption, TextFacts, EmptySeq DEF Texts
<1>2. CASE Len(text) <= MaxLength
  <2>1. FirstChunk(text) = text /\ AfterFirst(text) = <<>>
    BY <1>2 DEF FirstChunk, AfterFirst
  <2>2. IsPrefix(text, text)
    BY DEF IsPrefix
  <2>3. Ink(text) \o Ink(<<>>) = Ink(text)
    BY InkEmpty, InkType, Concat
  <2>4. QED
    BY <1>1, <1>2, <2>1, <2>2, <2>3, InkEmpty
<1>3. CASE ~ (Len(text) <= MaxLength)
  <2> DEFINE n == SplitAt(text)
             p == SubSeq(text, 1, n)
             q == SubSeq(text, n + 1, Len(text))
  <2>1. FirstChunk(text) = p /\ AfterFirst(text) = TrimStart(q)
    BY <1>3 DEF FirstChunk, AfterFirst
  <2>2. n \in 1 .. MaxLength /\ n \in 0 .. Len(text)
    BY <1>1, <1>3, SplitAtBounds
  <2> HIDE DEF n
  <2>3. p \in Texts /\ Len(p) = n /\ q \in Texts /\ text = p \o q
    BY <2>2, Halves
  <2> HIDE DEF p, q
  <2>4. TrimStart(q) \in Texts /\ Ink(TrimStart(q)) = Ink(q)
    BY <2>3, InkTrimStart
  <2>5. Ink(text) = Ink(p) \o Ink(q) /\ IsPrefix(p, text)
    BY <2>3, InkConcat, PrefixConcat
  <2>6. QED
    BY <2>1, <2>2, <2>3, <2>4, <2>5
<1>4. QED
  BY <1>2, <1>3

\* Where a long text is split depends on its beginning only.
LEMMA SameFirstChunk ==
  ASSUME NEW s \in Texts, NEW t \in Texts, IsPrefix(s, t), Len(s) > MaxLength
  PROVE  FirstChunk(s) = FirstChunk(t)
<1>1. /\ MaxLength \in Nat \ {0} /\ Len(s) \in Nat /\ Len(t) \in Nat /\ Len(s) <= Len(t)
      /\ \A i \in 1 .. Len(s) : s[i] = t[i]
  BY AnswerStreamAssumption, TextFacts, PrefixAgrees
<1>2. \A k \in 0 .. MaxLength : s[k + 1] = t[k + 1]
  BY <1>1
<1>3. Breaks(s) = Breaks(t)
  BY <1>2 DEF Breaks
<1>4. SplitAt(s) = SplitAt(t)
  BY <1>3, Zenon DEF SplitAt
<1> DEFINE n == SplitAt(s)
           u == SubSeq(t, Len(s) + 1, Len(t))
<1>5. n \in 0 .. Len(s)
  BY SplitAtBounds
<1>6. u \in Texts /\ t = s \o u
  BY PrefixRest
<1> HIDE DEF n, u
<1>7. SubSeq(t, 1, n) = SubSeq(s, 1, n)
  BY <1>5, <1>6, FirstHalf
<1>8. ~ (Len(s) <= MaxLength) /\ ~ (Len(t) <= MaxLength)
  BY <1>1
<1>9. QED
  BY <1>4, <1>7, <1>8 DEF FirstChunk, n

\* A growing text shows more and more, until it is cut.
LEMMA FirstChunkGrows ==
  ASSUME NEW s \in Texts, NEW t \in Texts, IsPrefix(s, t)
  PROVE  \/ IsPrefix(FirstChunk(s), FirstChunk(t))
         \/ /\ Len(s) <= MaxLength /\ Len(t) > MaxLength
            /\ IsPrefix(FirstChunk(t), FirstChunk(s))
<1>1. /\ MaxLength \in Nat \ {0} /\ Len(s) \in 0 .. Len(t) /\ Len(t) \in Nat /\ Len(s) \in Nat
      /\ s = SubSeq(t, 1, Len(s))
  BY AnswerStreamAssumption, TextFacts, PrefixSlice
<1>2. CASE Len(s) > MaxLength
  <2>1. FirstChunk(s) = FirstChunk(t)
    BY <1>2, SameFirstChunk
  <2>2. QED
    BY <2>1 DEF IsPrefix
<1>3. CASE Len(t) <= MaxLength
  <2>1. FirstChunk(t) = t /\ FirstChunk(s) = s
    BY <1>1, <1>3 DEF FirstChunk
  <2>2. QED
    BY <2>1
<1>4. CASE Len(s) <= MaxLength /\ Len(t) > MaxLength
  <2>1. FirstChunk(s) = s /\ FirstChunk(t) = SubSeq(t, 1, SplitAt(t))
    <3>1. ~ (Len(t) <= MaxLength)
      BY <1>1, <1>4
    <3>2. QED
      BY <1>4, <3>1, Zenon DEF FirstChunk
  <2>2. SplitAt(t) \in 0 .. Len(t)
    BY <1>4, SplitAtBounds
  <2>3. CASE Len(s) <= SplitAt(t)
    BY <1>1, <2>1, <2>2, <2>3, SlicesCompare
  <2>4. CASE SplitAt(t) <= Len(s)
    BY <1>1, <1>4, <2>1, <2>2, <2>4, SlicesCompare
  <2>5. QED
    BY <1>1, <2>2, <2>3, <2>4
<1>5. QED
  BY <1>1, <1>2, <1>3, <1>4

-----------------------------------------------------------------------------
(* Texts in texts.                                                         *)

\* A text is in another one exactly when something before it and something
\* after it make that one.
LEMMA ContainedIn ==
  ASSUME NEW s \in Texts, NEW t \in Texts, NEW p \in Texts, NEW q \in Texts, t = (p \o s) \o q
  PROVE  s \in SubSeqs(t)
<1> DEFINE i == Len(p)
           j == Len(p) + Len(s)
<1>1. /\ p \o s \in Texts /\ Len(p \o s) = j /\ Len(t) = j + Len(q)
      /\ Len(p) \in Nat /\ Len(s) \in Nat /\ Len(q) \in Nat
  BY Concat, TextFacts
<1>2. i \in 0 .. Len(t) /\ j \in 0 .. Len(t)
  BY <1>1
<1>3. /\ \A k \in 1 .. j : t[k] = (p \o s)[k]
      /\ \A k \in 1 .. Len(s) : (p \o s)[k + i] = s[k]
  <2>1. \A k \in 1 .. j + Len(q) : t[k] = IF k <= j THEN (p \o s)[k] ELSE q[k - j]
    BY <1>1, ConcatProperties DEF Texts
  <2>2. \A k \in 1 .. Len(p) + Len(s) : (p \o s)[k] = IF k <= Len(p) THEN p[k] ELSE s[k - Len(p)]
    BY ConcatProperties DEF Texts
  <2>3. ASSUME NEW k \in 1 .. Len(s) PROVE (p \o s)[k + i] = s[k]
    <3>1. k + i \in 1 .. Len(p) + Len(s) /\ ~ (k + i <= Len(p)) /\ k + i - Len(p) = k
      BY <1>1
    <3>2. QED
      BY <2>2, <3>1
  <2>4. QED
    BY <1>1, <2>1, <2>3
<1>4. /\ SubSeq(t, i + 1, j) \in Texts /\ Len(SubSeq(t, i + 1, j)) = Len(s)
      /\ \A k \in 1 .. Len(s) : SubSeq(t, i + 1, j)[k] = t[k + i]
  <2>1. PICK m \in 1 .. Len(t) + 1 : m = i + 1
    BY <1>1
  <2>2. /\ j \in m - 1 .. Len(t) /\ j - m + 1 = Len(s)
        /\ \A k \in 1 .. Len(s) : m + k - 1 = k + i
    BY <1>1, <2>1
  <2>3. /\ SubSeq(t, m, j) \in Texts /\ Len(SubSeq(t, m, j)) = j - m + 1
        /\ \A k \in 1 .. j - m + 1 : SubSeq(t, m, j)[k] = t[m + k - 1]
    BY <2>2, Slice
  <2>4. QED
    BY <2>1, <2>2, <2>3
<1>5. \A k \in 1 .. Len(s) : SubSeq(t, i + 1, j)[k] = s[k]
  BY <1>1, <1>3, <1>4
<1>6. s = SubSeq(t, i + 1, j)
  BY <1>4, <1>5, SeqEqual DEF Texts
<1>7. QED
  BY <1>2, <1>6 DEF SubSeqs

LEMMA Around ==
  ASSUME NEW s \in Texts, NEW t \in Texts, s \in SubSeqs(t)
  PROVE  \E p, q \in Texts : t = (p \o s) \o q
<1>1. PICK i \in 0 .. Len(t), j \in 0 .. Len(t) : s = SubSeq(t, i + 1, j)
  BY DEF SubSeqs
<1>2. Len(t) \in Nat
  BY TextFacts
<1>3. CASE i <= j
  <2> DEFINE p == SubSeq(t, 1, i)
             x == SubSeq(t, 1, j)
             q == SubSeq(t, j + 1, Len(t))
  <2>1. x \in Texts /\ q \in Texts /\ t = x \o q
    BY Halves
  <2>2. p \in Texts
    BY Halves
  <2>3. x = p \o s
    <3>1. 1 \in 1 .. Len(t) + 1 /\ i \in 1 - 1 .. Len(t) /\ j \in i .. Len(t)
      BY <1>2, <1>3
    <3>2. QED
      BY <1>1, <3>1, ConcatAdjacentSubSeq DEF Texts
  <2> HIDE DEF p, x, q
  <2>4. QED
    BY <2>1, <2>2, <2>3
<1>4. CASE j < i
  <2>1. s = <<>>
    <3>1. i + 1 \in Int /\ j \in Int /\ j < i + 1
      BY <1>2, <1>4
    <3>2. QED
      BY <1>1, <3>1, SubSeqEmpty
  <2>2. t = (<<>> \o <<>>) \o t
    BY InkEmpty, Concat
  <2>3. QED
    BY <2>1, <2>2, InkEmpty
<1>5. i <= j \/ j < i
  BY <1>2
<1>6. QED
  BY <1>3, <1>4, <1>5, Zenon

LEMMA InkInside ==
  ASSUME NEW s \in Texts, NEW t \in Texts, s \in SubSeqs(t)
  PROVE  Ink(s) \in SubSeqs(Ink(t))
<1>1. PICK p \in Texts, q \in Texts : t = (p \o s) \o q
  BY Around
<1>2. p \o s \in Texts /\ Ink(p) \in Texts /\ Ink(q) \in Texts /\ Ink(s) \in Texts /\ Ink(t) \in Texts
  BY Concat, InkType
<1>3. Ink(t) = Ink(p \o s) \o Ink(q)
  BY <1>1, <1>2, InkConcat
<1>4. Ink(p \o s) = Ink(p) \o Ink(s)
  BY InkConcat
<1>5. QED
  BY <1>2, <1>3, <1>4, ContainedIn

\* Whatever is in one of two texts is in both of them together.
LEMMA InsideConcat ==
  ASSUME NEW s \in Texts, NEW t \in Texts, NEW u \in Texts
  PROVE  /\ s \in SubSeqs(t) => s \in SubSeqs(t \o u)
         /\ s \in SubSeqs(t) => s \in SubSeqs(u \o t)
<1>1. SUFFICES ASSUME s \in SubSeqs(t) PROVE s \in SubSeqs(t \o u) /\ s \in SubSeqs(u \o t)
  OBVIOUS
<1>2. PICK p \in Texts, q \in Texts : t = (p \o s) \o q
  BY <1>1, Around
<1>3. PICK x \in Texts : x = p \o s
  BY Concat
<1>4. q \o u \in Texts /\ u \o p \in Texts /\ t \o u \in Texts /\ u \o t \in Texts
  BY Concat
<1>5. (x \o q) \o u = x \o (q \o u)
  <2>1. Then(Then(x, q), u) = Then(x, Then(q, u))
    BY ThenAssociative
  <2>2. QED
    BY <2>1 DEF Then
<1>6. (u \o x) \o q = u \o (x \o q)
  <2>1. Then(Then(u, x), q) = Then(u, Then(x, q))
    BY ThenAssociative
  <2>2. QED
    BY <2>1 DEF Then
<1>7. (u \o p) \o s = u \o (p \o s)
  <2>1. Then(Then(u, p), s) = Then(u, Then(p, s))
    BY ThenAssociative
  <2>2. QED
    BY <2>1 DEF Then
<1>8. t \o u = (p \o s) \o (q \o u)
  BY <1>2, <1>3, <1>5, Zenon
<1>9. u \o t = ((u \o p) \o s) \o q
  BY <1>2, <1>3, <1>6, <1>7, Zenon
<1>10. s \in SubSeqs(t \o u)
  BY <1>4, <1>8, ContainedIn
<1>11. s \in SubSeqs(u \o t)
  BY <1>4, <1>9, ContainedIn
<1>12. QED
  BY <1>10, <1>11

LEMMA InsideItself ==
  ASSUME NEW t \in Texts
  PROVE  t \in SubSeqs(t) /\ <<>> \in SubSeqs(t)
<1>1. t = (<<>> \o t) \o <<>> /\ t = (<<>> \o <<>>) \o t /\ <<>> \in Texts
  BY InkEmpty, Concat
<1>2. t \in SubSeqs(t)
  BY <1>1, ContainedIn
<1>3. <<>> \in SubSeqs(t)
  BY <1>1, ContainedIn
<1>4. QED
  BY <1>2, <1>3

LEMMA JoinedFacts ==
  ASSUME NEW current \in Texts, NEW t \in Texts
  PROVE  /\ Joined(current, t) \in Texts
         /\ IsPrefix(current, Joined(current, t))
         /\ t \in SubSeqs(Joined(current, t))
<1>1. CASE IsPrefix(current, t)
  BY <1>1, InsideItself DEF Joined
<1>2. CASE ~IsPrefix(current, t) /\ IsPrefix(t, current)
  <2>1. Joined(current, t) = current
    BY <1>2 DEF Joined
  <2>2. PICK u \in Texts : current = t \o u
    BY <1>2, PrefixRest
  <2>3. t \in SubSeqs(current)
    BY <2>2, InsideItself, InsideConcat
  <2>4. IsPrefix(current, current)
    BY DEF IsPrefix
  <2>5. QED
    BY <2>1, <2>3, <2>4
<1>3. CASE ~IsPrefix(current, t) /\ ~IsPrefix(t, current)
  <2>1. Joined(current, t) = current \o t
    BY <1>3 DEF Joined
  <2>2. t \in SubSeqs(current \o t)
    BY InsideItself, InsideConcat
  <2>3. QED
    BY <2>1, <2>2, Concat, PrefixConcat
<1>4. QED
  BY <1>1, <1>2, <1>3

-----------------------------------------------------------------------------
(* What the messages of a chat make together.                              *)

TogetherStep(messages) ==
  [n \in 1 .. Len(messages) |-> [text \in Texts |-> text \o messages[n]]]

LEMMA MessagesFacts ==
  ASSUME NEW messages \in Seq(Texts)
  PROVE  /\ Len(messages) \in Nat
         /\ \A n \in 1 .. Len(messages) : messages[n] \in Texts
         /\ TogetherStep(messages) \in [1 .. Len(messages) -> [Texts -> Texts]]
<1>1. Len(messages) \in Nat
  BY LenProperties
<1>2. ASSUME NEW n \in 1 .. Len(messages) PROVE messages[n] \in Texts
  BY ElementOfSeq
<1>3. ASSUME NEW n \in 1 .. Len(messages), NEW text \in Texts
      PROVE  text \o messages[n] \in Texts
  BY <1>2, Concat
<1>4. QED
  BY <1>1, <1>2, <1>3 DEF TogetherStep

\* Together is computed message by message.
LEMMA TogetherComputed ==
  ASSUME NEW messages \in Seq(Texts)
  PROVE  \E together \in [0 .. Len(messages) -> Texts] :
           /\ Computes(together, Len(messages), Texts, <<>>, TogetherStep(messages))
           /\ Together(messages) = together[Len(messages)]
<1> DEFINE N == Len(messages)
           Rec(f) == [n \in 0 .. N |-> IF n = 0 THEN <<>> ELSE f[n - 1] \o messages[n]]
           together == CHOOSE f : f = Rec(f)
<1>1. <<>> \in Texts /\ N \in Nat /\ TogetherStep(messages) \in [1 .. N -> [Texts -> Texts]]
  BY MessagesFacts, InkEmpty
<1>2. PICK g \in [0 .. N -> Texts] : Computes(g, N, Texts, <<>>, TogetherStep(messages))
  BY <1>1, ComputationExists
<1>3. ASSUME NEW n \in 1 .. N
      PROVE  g[n] = g[n - 1] \o messages[n]
  <2>1. g[n - 1] \in Texts
    BY <1>1
  <2>2. g[n] = TogetherStep(messages)[n][g[n - 1]]
    BY <1>2, <2>1 DEF Computes
  <2>3. QED
    BY <2>1, <2>2 DEF TogetherStep
<1>4. g = Rec(g)
  <2>1. g[0] = <<>>
    BY <1>2 DEF Computes
  <2>2. g = [n \in 0 .. N |-> g[n]]
    BY <1>1
  <2>3. \A n \in 0 .. N : n = 0 \/ n \in 1 .. N
    BY <1>1
  <2>4. QED
    BY <1>3, <2>1, <2>2, <2>3
<1>5. together = Rec(together)
  BY <1>4, Zenon
<1>6. Together(messages) = together[N]
  BY DEF Together
<1> HIDE DEF together
<1>7. ASSUME NEW n \in 1 .. N
      PROVE  together[n] = together[n - 1] \o messages[n]
  <2>1. n \in 0 .. N /\ n # 0
    BY <1>1
  <2>2. QED
    BY <1>5, <2>1
<1>8. together[0] = <<>>
  <2>1. 0 \in 0 .. N
    BY <1>1
  <2>2. QED
    BY <1>5, <2>1
<1>9. ASSUME NEW n \in 1 .. N, together[n - 1] \in Texts
      PROVE  together[n] = TogetherStep(messages)[n][together[n - 1]]
  BY <1>7, <1>9 DEF TogetherStep
<1>10. \A n \in 0 .. N : together[n] = g[n]
  <2>1. Computes(together, N, Texts, <<>>, TogetherStep(messages))
    BY <1>8, <1>9 DEF Computes
  <2>2. QED
    BY <1>1, <1>2, <2>1, ComputationUnique
<1>11. together[N] = g[N]
  BY <1>1, <1>10
<1>12. QED
  BY <1>2, <1>6, <1>11

LEMMA TogetherType ==
  ASSUME NEW messages \in Seq(Texts)
  PROVE  Together(messages) \in Texts
BY TogetherComputed, MessagesFacts

LEMMA TogetherEmpty ==
  Together(<<>>) = <<>>
<1>1. <<>> \in Seq(Texts) /\ Len(<<>>) = 0
  BY EmptySeq
<1>2. QED
  BY <1>1, TogetherComputed DEF Computes

LEMMA TogetherAppend ==
  ASSUME NEW messages \in Seq(Texts), NEW text \in Texts
  PROVE  Together(Append(messages, text)) = Together(messages) \o text
<1> DEFINE longer == Append(messages, text)
           N == Len(messages)
<1>1. /\ longer \in Seq(Texts) /\ Len(longer) = N + 1 /\ N \in Nat
      /\ longer[N + 1] = text /\ \A n \in 1 .. N : longer[n] = messages[n]
  BY AppendProperties, MessagesFacts
<1> HIDE DEF longer
<1>2. PICK f \in [0 .. N -> Texts] :
         Computes(f, N, Texts, <<>>, TogetherStep(messages)) /\ Together(messages) = f[N]
  BY TogetherComputed
<1>3. PICK g \in [0 .. N + 1 -> Texts] :
         Computes(g, N + 1, Texts, <<>>, TogetherStep(longer)) /\ Together(longer) = g[N + 1]
  BY <1>1, TogetherComputed
<1> HIDE DEF N
<1>4. ASSUME NEW n \in 1 .. N + 1 PROVE g[n] = g[n - 1] \o longer[n]
  <2>1. g[n - 1] \in Texts
    BY <1>1, <1>3
  <2>2. g[n] = TogetherStep(longer)[n][g[n - 1]]
    BY <1>3, <2>1, Zenon DEF Computes
  <2>3. QED
    BY <1>1, <2>1, <2>2 DEF TogetherStep
<1>5. Computes(g, N, Texts, <<>>, TogetherStep(messages))
  <2>1. ASSUME NEW n \in 1 .. N PROVE g[n] = TogetherStep(messages)[n][g[n - 1]]
    <3>1. n \in 1 .. N + 1 /\ n - 1 \in 0 .. N + 1
      BY <1>1
    <3>2. TogetherStep(messages)[n][g[n - 1]] = g[n - 1] \o messages[n]
      BY <3>1 DEF TogetherStep, N
    <3>3. QED
      BY <1>1, <1>4, <3>1, <3>2
  <2>2. QED
    BY <1>3, <2>1, Zenon DEF Computes
<1>6. f[N] = g[N]
  <2>1. \A n \in 0 .. N : g[n] = f[n]
    BY <1>1, <1>2, <1>5, ComputationUnique
  <2>2. QED
    BY <1>1, <2>1
<1>7. g[N + 1] = g[N] \o text
  <2>1. PICK n \in 1 .. N + 1 : n = N + 1 /\ n - 1 = N
    BY <1>1
  <2>2. QED
    BY <1>1, <1>4, <2>1
<1>8. QED
  BY <1>2, <1>3, <1>6, <1>7 DEF longer, N

LEMMA TogetherOne ==
  ASSUME NEW text \in Texts
  PROVE  <<text>> \in Seq(Texts) /\ Together(<<text>>) = text
<1>1. <<>> \in Seq(Texts) /\ Append(<<>>, text) = <<text>>
  BY EmptySeq
<1>2. <<text>> \in Seq(Texts)
  OBVIOUS
<1>3. Together(<<text>>) = <<>> \o text
  BY <1>1, TogetherAppend, TogetherEmpty
<1>4. QED
  BY <1>2, <1>3, Concat

-----------------------------------------------------------------------------
(* What the CLI says holds letters and line breaks only.                   *)

Words == Seq(Symbols)

LEMMA WordsTexts ==
  Words \subseteq Texts
<1>1. Symbols \subseteq Marks
  BY DEF Marks
<1>2. ASSUME NEW text \in Words PROVE text \in Texts
  BY <1>1, SeqMonotonic DEF Words, Texts
<1>3. QED
  BY <1>2

LEMMA WordsSlice ==
  ASSUME NEW text \in Words, NEW m \in 1 .. Len(text) + 1, NEW n \in m - 1 .. Len(text)
  PROVE  SubSeq(text, m, n) \in Words
<1>1. Len(text) \in Nat /\ \A i \in 1 .. Len(text) : text[i] \in Symbols
  BY LenProperties, ElementOfSeq DEF Words
<1>2. m \in Int /\ n \in Int /\ \A i \in m .. n : text[i] \in Symbols
  BY <1>1
<1>3. QED
  BY <1>2, SubSeqProperties DEF Words

LEMMA WordsConcat ==
  ASSUME NEW s \in Words, NEW t \in Words
  PROVE  s \o t \in Words /\ Joined(s, t) \in Words
<1>1. s \o t \in Words
  BY ConcatProperties DEF Words
<1>2. QED
  BY <1>1 DEF Joined

LEMMA WordsTrim ==
  ASSUME NEW text \in Words
  PROVE  Trim(text) \in Words
<1>1. text \in Texts /\ <<>> \in Words
  BY WordsTexts, EmptySeq DEF Words
<1>2. CASE IsBlank(text)
  BY <1>1, <1>2, TrimBlank
<1>3. CASE ~IsBlank(text)
  <2>1. PICK m \in 1 .. Len(text), n \in 1 .. Len(text) : m <= n /\ Trim(text) = SubSeq(text, m, n)
    BY <1>1, <1>3, TrimBounds
  <2>2. m \in 1 .. Len(text) + 1 /\ n \in m - 1 .. Len(text)
    BY <1>1, <2>1, TextFacts
  <2>3. QED
    BY <2>1, <2>2, WordsSlice
<1>4. QED
  BY <1>2, <1>3

LEMMA WordsFirstChunk ==
  ASSUME NEW text \in Words
  PROVE  FirstChunk(text) \in Words
<1>1. text \in Texts /\ Len(text) \in Nat /\ MaxLength \in Nat
  BY WordsTexts, TextFacts, AnswerStreamAssumption
<1>2. CASE Len(text) > MaxLength
  <2>1. SplitAt(text) \in 0 .. Len(text)
    BY <1>1, <1>2, SplitAtBounds
  <2>2. 1 \in 1 .. Len(text) + 1 /\ SplitAt(text) \in 1 - 1 .. Len(text)
    BY <1>1, <2>1
  <2>3. SubSeq(text, 1, SplitAt(text)) \in Words
    BY <2>2, WordsSlice
  <2>4. ~ (Len(text) <= MaxLength)
    BY <1>1, <1>2
  <2>5. QED
    BY <2>3, <2>4 DEF FirstChunk
<1>3. CASE Len(text) <= MaxLength
  BY <1>3 DEF FirstChunk
<1>4. QED
  BY <1>1, <1>2, <1>3

\* The prefixes of what was said.
LEMMA PrefixesFacts ==
  ASSUME NEW text \in Words
  PROVE  \A s : s \in Prefixes(text) <=> s \in Words /\ IsPrefix(s, text)
<1>1. text \in Texts /\ Len(text) \in Nat
  BY WordsTexts, TextFacts
<1>2. ASSUME NEW s \in Prefixes(text) PROVE s \in Words /\ IsPrefix(s, text)
  <2>1. PICK n \in 0 .. Len(text) : s = SubSeq(text, 1, n)
    BY <1>2 DEF Prefixes
  <2>2. 1 \in 1 .. Len(text) + 1 /\ n \in 1 - 1 .. Len(text)
    BY <1>1
  <2>3. QED
    BY <1>1, <2>1, <2>2, WordsSlice, SlicePrefix
<1>3. ASSUME NEW s \in Words, IsPrefix(s, text) PROVE s \in Prefixes(text)
  <2>1. s \in Texts
    BY WordsTexts
  <2>2. Len(s) \in 0 .. Len(text) /\ s = SubSeq(text, 1, Len(s))
    BY <1>1, <1>3, <2>1, PrefixSlice, TextFacts
  <2>3. QED
    BY <2>2 DEF Prefixes
<1>4. QED
  BY <1>2, <1>3

\* What a flush sends of what the CLI said.
LEMMA TrimmedChunk ==
  ASSUME NEW text \in Words, ~IsBlank(text)
  PROVE  /\ text \in Texts /\ Trim(text) \in Texts /\ Len(Trim(text)) \in Nat
         /\ FirstChunk(Trim(text)) \in Words /\ FirstChunk(Trim(text)) \in Texts
         /\ Len(FirstChunk(Trim(text))) \in 1 .. MaxLength
         /\ IsPrefix(Ink(FirstChunk(Trim(text))), Ink(text))
         /\ ~ (Len(Trim(text)) > MaxLength) => Ink(FirstChunk(Trim(text))) = Ink(text)
<1> DEFINE x == Trim(text)
<1>1. /\ text \in Texts /\ x \in Texts /\ Ink(x) = Ink(text) /\ Len(x) \in Nat
      /\ x # <<>> /\ x \in Words
  BY WordsTexts, InkTrim, TextFacts, InkEmpty, WordsTrim
<1> HIDE DEF x
<1>2. /\ FirstChunk(x) \in Texts /\ FirstChunk(x) \in Words
      /\ Len(FirstChunk(x)) \in 1 .. MaxLength
      /\ AfterFirst(x) \in Texts
      /\ Ink(FirstChunk(x)) \o Ink(AfterFirst(x)) = Ink(x)
  BY <1>1, ChunkFacts, WordsFirstChunk
<1>3. IsPrefix(Ink(FirstChunk(x)), Ink(x))
  <2>1. Ink(FirstChunk(x)) \in Texts /\ Ink(AfterFirst(x)) \in Texts
    BY <1>2, InkType
  <2>2. QED
    BY <1>2, <2>1, PrefixConcat
<1>4. ~ (Len(x) > MaxLength) => FirstChunk(x) = x
  <2>1. MaxLength \in Nat
    BY AnswerStreamAssumption
  <2>2. QED
    BY <1>1, <2>1 DEF FirstChunk
<1>5. QED
  BY <1>1, <1>2, <1>3, <1>4 DEF x

-----------------------------------------------------------------------------
(* The inductive invariant.                                                *)

Pending == phase \in {"sending", "rendering", "done"}

Untoggled == "toggled" \notin excuses
Unrefused == "refused" \notin excuses
InTime    == "late" \notin excuses

TypeInv ==
  /\ cli \in Clis /\ streaming \in BOOLEAN
  /\ lastText \in Words /\ merged \in Words /\ buffer \in Words /\ lastStreamed \in Words
  /\ edited \in Words /\ said \in Words /\ answer \in Texts /\ toSend \in Texts
  /\ truncated \in BOOLEAN /\ timer \in BOOLEAN /\ chain \in Nat
  /\ phase \in {"running", "dead", "flushing", "flushed", "sending", "rendering", "done"}
  /\ chat \in Seq(Texts) /\ messageId \in 0 .. Len(chat)
  /\ \A i \in 1 .. Len(chat) : Len(chat[i]) \in 1 .. MaxLength

\* One request at a time carries, for the message it edits, what the buffer
\* held when it started: all of it still, unless text came late.
RequestInv ==
  /\ IsPrefix(lastStreamed, buffer)
  /\ \A r, q \in requests : r = q
  /\ \A r \in requests : \E held \in Prefixes(buffer) :
       /\ IsPrefix(lastStreamed, held) /\ ~IsBlank(held)
       /\ r = Request(held)
       /\ InTime => held = buffer

\* The streamed message shows a part of what counts as streamed, and all of it
\* unless text came late, or as much as fits.
MessageInv ==
  messageId # 0 => \E held \in Prefixes(lastStreamed) :
    /\ ~IsBlank(held)
    /\ chat[messageId] = FirstChunk(Trim(held))
    /\ Unrefused => /\ edited = chat[messageId]
                    /\ truncated = (Len(Trim(held)) > MaxLength)
                    /\ InTime /\ requests = {} => held = lastStreamed

\* The completed handler clears the timer for good.
TimerInv == phase \notin {"running", "dead"} => ~timer

\* The last flush leaves nothing to stream.
NewsInv == phase = "flushing" /\ requests = {} => ~HasNews(buffer)

\* What the setting of the chat decides while it stays as it is.
StreamInv ==
  Untoggled =>
    /\ buffer = IF streaming THEN merged ELSE <<>>
    /\ phase = "flushing" => streaming
    /\ phase \in {"flushed", "rendering"} => ~streaming
    /\ Pending => requests = {}
    /\ ~streaming => requests = {} /\ messageId = 0 /\ ~timer /\ (~Pending => chat = <<>>)
    /\ streaming /\ ~Pending /\ Unrefused =>
         IF messageId = 0 THEN chat = <<>> /\ lastStreamed = <<>>
         ELSE messageId = 1 /\ Len(chat) = 1

AnswerInv ==
  /\ phase \in {"running", "dead"} => answer = <<>>
  /\ phase \notin {"running", "dead"} /\ cli = "pi" => answer # <<>>
  /\ phase \notin {"sending", "rendering"} => toSend = <<>>

\* What is shown and what is to be sent, one after the other.
ToShow == Ink(Shown) \o Ink(toSend)

\* When ShownInOrder applies.
InOrder ==
  /\ cli = "pi" /\ said = lastText /\ merged = said
  /\ Untoggled
  /\ ~Unrefused => phase = "rendering"
  /\ answer \in {<<>>, said}

\* The parts of the delivery add up to the answer.
OrderInv == Pending /\ InOrder => IsPrefix(ToShow, Ink(said))

DeliverInv == Pending /\ excuses = {} /\ Heard => Ink(answer) \in SubSeqs(ToShow)

FlushInv == TypeInv /\ RequestInv /\ MessageInv
PhaseInv == TimerInv /\ NewsInv /\ StreamInv /\ AnswerInv

IInv == FlushInv /\ PhaseInv /\ OrderInv /\ DeliverInv

LEMMA InitInv == Init => IInv
<1> SUFFICES ASSUME Init
             PROVE  IInv
    OBVIOUS
<1>1. <<>> \in Words /\ <<>> \in Texts /\ <<>> \in Seq(Texts) /\ Len(<<>>) = 0
  BY DEF Words, Texts
<1>2. TypeInv
  <2>1. chat = <<>> /\ Len(chat) = 0 /\ messageId = 0 /\ chain = 0
    BY <1>1 DEF Init
  <2>2. /\ chat \in Seq(Texts) /\ messageId \in 0 .. Len(chat) /\ chain \in Nat
        /\ \A i \in 1 .. Len(chat) : Len(chat[i]) \in 1 .. MaxLength
    BY <2>1, <1>1
  <2>3. truncated \in BOOLEAN /\ timer \in BOOLEAN /\ cli \in Clis /\ streaming \in BOOLEAN
    BY Zenon DEF Init
  <2>4. /\ lastText \in Words /\ merged \in Words /\ buffer \in Words /\ lastStreamed \in Words
        /\ edited \in Words /\ said \in Words /\ answer \in Texts /\ toSend \in Texts
    BY <1>1 DEF Init
  <2>5. phase \in {"running", "dead", "flushing", "flushed", "sending", "rendering", "done"}
    BY DEF Init
  <2> QED  BY <2>2, <2>3, <2>4, <2>5, Zenon DEF TypeInv
<1>3. RequestInv
  <2>1. IsPrefix(<<>>, <<>>)
    BY <1>1, PrefixSlice, Whole
  <2> QED  BY <2>1 DEF RequestInv, Init
<1>4. MessageInv
  BY DEF MessageInv, Init
<1>5. PhaseInv
  BY DEF PhaseInv, TimerInv, NewsInv, StreamInv, AnswerInv, Pending, Init
<1>6. OrderInv /\ DeliverInv
  BY DEF OrderInv, DeliverInv, Pending, Init
<1> QED  BY <1>2, <1>3, <1>4, <1>5, <1>6 DEF IInv, FlushInv

-----------------------------------------------------------------------------
(* Types.                                                                  *)

LEMMA FlushType ==
  ASSUME NEW b, NEW armed \in BOOLEAN, NEW excused, chain \in Nat, Flush(b, armed, excused)
  PROVE  /\ timer' \in BOOLEAN /\ chain' \in Nat
         /\ UNCHANGED <<lastStreamed, edited, truncated, messageId>>
<1>1. UNCHANGED <<lastStreamed, edited, truncated, messageId>>
  BY DEF Flush
<1>2. \/ timer' = FALSE /\ chain' = chain
      \/ timer' = armed /\ chain' = chain + 1
  BY Zenon DEF Flush
<1>3. chain' \in Nat
  BY <1>2
<1>4. timer' \in BOOLEAN
  BY <1>2, Zenon
<1> QED  BY <1>1, <1>3, <1>4

LEMMA HearType ==
  ASSUME TypeInv, NEW t \in Words, Hear(t)
  PROVE  /\ said' \in Words /\ merged' \in Words /\ buffer' \in Words
         /\ timer' \in BOOLEAN /\ chain' \in Nat
         /\ UNCHANGED <<lastStreamed, edited, truncated, messageId>>
         /\ UNCHANGED <<cli, streaming, phase, answer, toSend, chat>>
<1>1. said' \in Words /\ merged' \in Words
  BY WordsConcat DEF Hear, TypeInv
<1>2. Joined(buffer, t) \in Words
  BY WordsConcat DEF TypeInv
<1>3. UNCHANGED <<cli, streaming, phase, answer, toSend, chat>>
  BY DEF Hear
<1>a. chain \in Nat /\ timer \in BOOLEAN
  BY DEF TypeInv
<1>4. CASE streaming /\ Buffer(t)
  <2>1. buffer' \in Words
    BY <1>2, <1>4 DEF Buffer
  <2>2. CASE \E excused : Flush(buffer', timer, excused)
    <3>1. timer' \in BOOLEAN /\ chain' \in Nat /\ UNCHANGED <<lastStreamed, edited, truncated, messageId>>
      BY <2>2, <1>a, FlushType
    <3> QED  BY <3>1, <2>1, <1>1, <1>3
  <2>3. CASE timer' = TRUE /\ UNCHANGED <<lastStreamed, edited, truncated, messageId, chain>>
    BY <2>3, <2>1, <1>1, <1>3, <1>a
  <2>4. \/ \E excused : Flush(buffer', timer, excused)
        \/ timer' = TRUE /\ UNCHANGED <<lastStreamed, edited, truncated, messageId, chain>>
    BY <1>4 DEF Buffer
  <2> QED  BY <2>2, <2>3, <2>4
<1>5. CASE UNCHANGED bufferVars
  BY <1>5, <1>1, <1>3, <1>a DEF bufferVars, TypeInv
<1> QED  BY <1>4, <1>5 DEF Hear

\* What a request carries.
LEMMA RequestFacts ==
  ASSUME TypeInv, RequestInv, NEW r \in requests
  PROVE  \E held \in Words :
           /\ IsPrefix(lastStreamed, held) /\ IsPrefix(held, buffer) /\ ~IsBlank(held)
           /\ r.text = FirstChunk(Trim(held)) /\ r.text \in Words /\ Len(r.text) \in 1 .. MaxLength
           /\ r.truncated = (Len(Trim(held)) > MaxLength) /\ r.truncated \in BOOLEAN
           /\ r.id = messageId
           /\ InTime => held = buffer
<1>1. PICK held \in Prefixes(buffer) :
        /\ IsPrefix(lastStreamed, held) /\ ~IsBlank(held)
        /\ r = Request(held)
        /\ InTime => held = buffer
  BY DEF RequestInv
<1>2. held \in Words /\ IsPrefix(held, buffer)
  BY <1>1, PrefixesFacts DEF TypeInv
<1>3. /\ r.text = FirstChunk(Trim(held)) /\ r.id = messageId
      /\ r.truncated = (Len(Trim(held)) > MaxLength)
  BY <1>1, Zenon DEF Request
<1>4. r.truncated \in BOOLEAN
  <2>1. (Len(Trim(held)) > MaxLength) \in BOOLEAN
    OBVIOUS
  <2> QED  BY <2>1, <1>3, Zenon
<1>5. FirstChunk(Trim(held)) \in Words /\ Len(FirstChunk(Trim(held))) \in 1 .. MaxLength
  BY <1>1, <1>2, TrimmedChunk
<1> QED  BY <1>1, <1>2, <1>3, <1>4, <1>5, Zenon

\* The messages of the chat, sent, edited, or neither.
LEMMA ChatType ==
  ASSUME TypeInv, NEW text \in Texts, Len(text) \in 1 .. MaxLength
  PROVE  /\ Append(chat, text) \in Seq(Texts) /\ Len(Append(chat, text)) = Len(chat) + 1
         /\ \A i \in 1 .. Len(chat) + 1 : Len(Append(chat, text)[i]) \in 1 .. MaxLength
         /\ \A i \in 1 .. Len(chat) : Append(chat, text)[i] = chat[i]
         /\ Append(chat, text)[Len(chat) + 1] = text
         /\ messageId # 0 =>
              LET edit == [chat EXCEPT ![messageId] = text]
              IN  /\ edit \in Seq(Texts) /\ Len(edit) = Len(chat)
                  /\ edit[messageId] = text
                  /\ \A i \in 1 .. Len(chat) : i # messageId => edit[i] = chat[i]
                  /\ \A i \in 1 .. Len(chat) : Len(edit[i]) \in 1 .. MaxLength
<1>1. chat \in Seq(Texts) /\ Len(chat) \in Nat /\ messageId \in 0 .. Len(chat)
  BY DEF TypeInv
<1>2. \A i \in 1 .. Len(chat) : Len(chat[i]) \in 1 .. MaxLength
  BY DEF TypeInv
<1>3. /\ Append(chat, text) \in Seq(Texts) /\ Len(Append(chat, text)) = Len(chat) + 1
      /\ \A i \in 1 .. Len(chat) : Append(chat, text)[i] = chat[i]
      /\ Append(chat, text)[Len(chat) + 1] = text
  BY <1>1
<1>4. \A i \in 1 .. Len(chat) + 1 : Len(Append(chat, text)[i]) \in 1 .. MaxLength
  <2> TAKE i \in 1 .. Len(chat) + 1
  <2>1. CASE i = Len(chat) + 1
    BY <2>1, <1>3
  <2>2. CASE i \in 1 .. Len(chat)
    BY <2>2, <1>3, <1>2
  <2> QED  BY <2>1, <2>2, <1>1
<1>5. ASSUME messageId # 0
      PROVE  LET edit == [chat EXCEPT ![messageId] = text]
             IN  /\ edit \in Seq(Texts) /\ Len(edit) = Len(chat)
                 /\ edit[messageId] = text
                 /\ \A i \in 1 .. Len(chat) : i # messageId => edit[i] = chat[i]
                 /\ \A i \in 1 .. Len(chat) : Len(edit[i]) \in 1 .. MaxLength
  <2> DEFINE edit == [chat EXCEPT ![messageId] = text]
  <2>1. messageId \in 1 .. Len(chat)
    BY <1>5, <1>1
  <2>2. edit \in Seq(Texts) /\ Len(edit) = Len(chat)
    BY <2>1, <1>1
  <2>3. edit[messageId] = text /\ \A i \in 1 .. Len(chat) : i # messageId => edit[i] = chat[i]
    BY <2>1, <1>1
  <2> HIDE DEF edit
  <2>4. \A i \in 1 .. Len(chat) : Len(edit[i]) \in 1 .. MaxLength
    BY <2>3, <1>2
  <2> QED  BY <2>2, <2>3, <2>4 DEF edit
<1> QED  BY <1>3, <1>4, <1>5

LEMMA LandedType ==
  ASSUME TypeInv, RequestInv, NEW r, NEW ok \in BOOLEAN, Landed(r, ok)
  PROVE  /\ lastStreamed' \in Words /\ edited' \in Words /\ truncated' \in BOOLEAN
         /\ chat' \in Seq(Texts) /\ messageId' \in 0 .. Len(chat')
         /\ \A i \in 1 .. Len(chat') : Len(chat'[i]) \in 1 .. MaxLength
<1>1. r \in requests
  BY DEF Landed
<1>2. PICK held \in Words :
        /\ r.text \in Words /\ Len(r.text) \in 1 .. MaxLength
        /\ r.truncated \in BOOLEAN /\ r.id = messageId
  BY <1>1, RequestFacts, Zenon
<1>3. lastStreamed' = buffer /\ edited' = r.text /\ truncated' = r.truncated
  BY DEF Landed
<1>4. lastStreamed' \in Words /\ edited' \in Words /\ truncated' \in BOOLEAN
  BY <1>2, <1>3, Zenon DEF TypeInv
<1>5. r.text \in Texts
  BY <1>2, WordsTexts
<1>6. chat \in Seq(Texts) /\ Len(chat) \in Nat /\ messageId \in 0 .. Len(chat)
      /\ \A i \in 1 .. Len(chat) : Len(chat[i]) \in 1 .. MaxLength
  BY DEF TypeInv
<1>7. CASE ~ok
  <2>1. chat' = chat /\ messageId' = messageId
    BY <1>7, <1>2, Zenon DEF Landed
  <2> QED  BY <2>1, <1>4, <1>6
<1>8. CASE ok /\ messageId = 0
  <2>1. chat' = Append(chat, r.text) /\ messageId' = Len(chat')
    BY <1>8, <1>2, Zenon DEF Landed
  <2>2. messageId' \in 0 .. Len(chat')
    BY <2>1, <1>6
  <2>3. chat' \in Seq(Texts) /\ \A i \in 1 .. Len(chat') : Len(chat'[i]) \in 1 .. MaxLength
    BY <2>1, <1>2, <1>5, ChatType
  <2> QED  BY <2>2, <2>3, <1>4
<1>9. CASE ok /\ messageId # 0
  <2>1. chat' = [chat EXCEPT ![messageId] = r.text] /\ messageId' = messageId
    BY <1>9, <1>2, Zenon DEF Landed
  <2>2. /\ chat' \in Seq(Texts) /\ Len(chat') = Len(chat)
        /\ \A i \in 1 .. Len(chat) : Len(chat'[i]) \in 1 .. MaxLength
    BY <2>1, <1>2, <1>5, <1>9, ChatType
  <2>3. messageId' \in 0 .. Len(chat') /\ \A i \in 1 .. Len(chat') : Len(chat'[i]) \in 1 .. MaxLength
    BY <2>1, <2>2, <1>6
  <2> QED  BY <2>2, <2>3, <1>4
<1> QED  BY <1>7, <1>8, <1>9

LEMMA DeliverType ==
  ASSUME TypeInv
  PROVE  Rest \in Texts /\ Normalized \in Texts
<1>1. answer \in Texts /\ edited \in Texts /\ merged \in Texts
  BY WordsTexts DEF TypeInv
<1>2. <<>> \in Texts
  BY InkEmpty
<1>3. Trim(answer) \in Texts
  BY <1>1, InkTrim
<1>4. ASSUME IsPrefix(edited, Trim(answer))
      PROVE  Trim(SubSeq(Trim(answer), Len(edited) + 1, Len(Trim(answer)))) \in Texts
  <2>1. SubSeq(Trim(answer), Len(edited) + 1, Len(Trim(answer))) \in Texts
    BY <1>1, <1>3, <1>4, PrefixRest
  <2> QED  BY <2>1, InkTrim
<1>5. Rest \in Texts
  BY <1>1, <1>2, <1>3, <1>4, Zenon DEF Rest
<1>6. Normalized \in Texts
  <2>1. Joined(merged, answer) \in Texts
    BY <1>1, JoinedFacts
  <2> QED  BY <2>1, InkTrim DEF Normalized
<1> QED  BY <1>5, <1>6

\* What is sent, and what is left to send then.
LEMMA ToldType ==
  ASSUME TypeInv, NEW ok \in BOOLEAN, Told(ok)
  PROVE  /\ toSend \in Texts /\ FirstChunk(toSend) \in Texts /\ AfterFirst(toSend) \in Texts
         /\ Len(FirstChunk(toSend)) \in 1 .. MaxLength
         /\ chat' \in Seq(Texts) /\ Len(chat') \in Nat /\ Len(chat') >= Len(chat)
         /\ \A i \in 1 .. Len(chat) : chat'[i] = chat[i]
         /\ \A i \in 1 .. Len(chat') : Len(chat'[i]) \in 1 .. MaxLength
<1>1. toSend \in Texts /\ toSend # <<>>
  BY DEF TypeInv, Told
<1>2. /\ FirstChunk(toSend) \in Texts /\ AfterFirst(toSend) \in Texts
      /\ Len(FirstChunk(toSend)) \in 1 .. MaxLength
  BY <1>1, ChunkFacts
<1>3. chat \in Seq(Texts) /\ Len(chat) \in Nat /\ \A i \in 1 .. Len(chat) : Len(chat[i]) \in 1 .. MaxLength
  BY DEF TypeInv
<1>4. CASE chat' = chat
  BY <1>1, <1>2, <1>3, <1>4
<1>5. CASE chat' = Append(chat, FirstChunk(toSend))
  <2>1. /\ chat' \in Seq(Texts) /\ Len(chat') = Len(chat) + 1
        /\ \A i \in 1 .. Len(chat) : chat'[i] = chat[i]
        /\ \A i \in 1 .. Len(chat) + 1 : Len(chat'[i]) \in 1 .. MaxLength
    BY <1>5, <1>2, ChatType
  <2>2. Len(chat') \in Nat /\ Len(chat') >= Len(chat)
    BY <2>1, <1>3
  <2> QED  BY <2>1, <2>2, <1>1, <1>2
<1> QED  BY <1>4, <1>5 DEF Told

LEMMA TypeStep ==
  ASSUME TypeInv, RequestInv, [Next]_vars
  PROVE  TypeInv'
<1> USE DEF TypeInv
<1>1. ASSUME NEW t \in Pieces, SaysBlock(t) \/ SaysDelta(t)
      PROVE  TypeInv'
  <2>1. t \in Words
    BY AnswerStreamAssumption DEF Words
  <2>2. Hear(t)
    BY <1>1 DEF SaysBlock, SaysDelta
  <2>3. lastText' \in Words
    <3>1. lastText' = t \/ lastText' = lastText \o t
      BY <1>1, Zenon DEF SaysBlock, SaysDelta
    <3>2. lastText \o t \in Words
      BY <2>1, WordsConcat
    <3> QED  BY <2>1, <3>1, <3>2
  <2>4. /\ said' \in Words /\ merged' \in Words /\ buffer' \in Words
        /\ timer' \in BOOLEAN /\ chain' \in Nat
        /\ UNCHANGED <<lastStreamed, edited, truncated, messageId>>
        /\ UNCHANGED <<cli, streaming, phase, answer, toSend, chat>>
    <3> HIDE DEF TypeInv
    <3> QED  BY <2>1, <2>2, HearType
  <2> QED  BY <2>3, <2>4
<1>2. ASSUME NextMessage
      PROVE  TypeInv'
  BY <1>2 DEF NextMessage, bufferVars, Words
<1>3. ASSUME NEW a \in Answers, Completed(a)
      PROVE  TypeInv'
  <2>1. a \in Texts
    <3>1. lastText \in Texts
      BY WordsTexts
    <3>2. Pieces \subseteq Texts
      BY AnswerStreamAssumption, WordsTexts DEF Words
    <3>3. <<NoResponse>> \in Texts
      BY DEF Texts, Marks
    <3>4. cli = "claude" \/ cli = "codex" \/ cli = "pi"
      BY AnswerStreamAssumption
    <3>5. a = lastText \/ a \in Pieces \/ a = <<NoResponse>>
      BY <3>4 DEF Answers
    <3> QED  BY <3>1, <3>2, <3>3, <3>5
  <2>2. answer' = a /\ phase' \in {"flushing", "flushed"}
    BY <1>3 DEF Completed
  <2>3. UNCHANGED <<cli, lastText, merged, streaming, buffer, toSend, chat, said>>
    BY <1>3 DEF Completed
  <2>4. /\ timer' \in BOOLEAN /\ chain' \in Nat
        /\ UNCHANGED <<lastStreamed, edited, truncated, messageId>>
    <3>1. chain \in Nat
      OBVIOUS
    <3> HIDE DEF TypeInv
    <3>2. CASE Flush(buffer, FALSE, excuses)
      BY <3>1, <3>2, FlushType
    <3>3. CASE timer' = FALSE /\ UNCHANGED <<lastStreamed, edited, truncated, messageId, chain>>
      BY <3>1, <3>3
    <3> QED  BY <1>3, <3>2, <3>3 DEF Completed
  <2> QED  BY <2>1, <2>2, <2>3, <2>4
<1>4. ASSUME Dies
      PROVE  TypeInv'
  BY <1>4 DEF Dies, bufferVars
<1>5. ASSUME NEW r \in requests, NEW ok \in BOOLEAN, Flushed(r, ok)
      PROVE  TypeInv'
  <2>1. UNCHANGED <<cli, lastText, merged, streaming, buffer, phase, answer, toSend, said>>
    BY <1>5 DEF Flushed, Landed
  <2>2. chain' \in Nat
    BY <1>5 DEF Flushed
  <2>3. timer' \in BOOLEAN
    <3>1. timer' = (timer /\ chain = 0)
      BY <1>5 DEF Flushed
    <3> QED  BY <3>1
  <2>4. /\ lastStreamed' \in Words /\ edited' \in Words /\ truncated' \in BOOLEAN
        /\ chat' \in Seq(Texts) /\ messageId' \in 0 .. Len(chat')
        /\ \A i \in 1 .. Len(chat') : Len(chat'[i]) \in 1 .. MaxLength
    <3> HIDE DEF TypeInv
    <3> QED  BY <1>5, LandedType DEF Flushed
  <2> QED  BY <2>1, <2>2, <2>3, <2>4
<1>6. ASSUME NEW ok \in BOOLEAN, Send(ok) \/ Render(ok)
      PROVE  TypeInv'
  <2>1. Told(ok) /\ (toSend' = AfterFirst(toSend) \/ toSend' = <<>>)
    BY <1>6 DEF Send, Render
  <2>2. UNCHANGED <<cli, lastText, merged, streaming, bufferVars, phase, answer, said>>
    BY <2>1 DEF Told
  <2>3. /\ chat' \in Seq(Texts) /\ Len(chat') \in Nat /\ Len(chat') >= Len(chat)
        /\ \A i \in 1 .. Len(chat') : Len(chat'[i]) \in 1 .. MaxLength
        /\ AfterFirst(toSend) \in Texts
    <3> HIDE DEF TypeInv
    <3> QED  BY <2>1, ToldType
  <2>4. toSend' \in Texts
    BY <2>1, <2>3, InkEmpty
  <2>5. messageId' \in 0 .. Len(chat')
    BY <2>2, <2>3 DEF bufferVars
  <2> QED  BY <2>2, <2>3, <2>4, <2>5 DEF bufferVars
<1>7. ASSUME TimerFires
      PROVE  TypeInv'
  <2>1. UNCHANGED <<cli, lastText, merged, streaming, buffer, phase, answer, toSend, chat, said>>
    BY <1>7 DEF TimerFires
  <2>2. /\ timer' \in BOOLEAN /\ chain' \in Nat
        /\ UNCHANGED <<lastStreamed, edited, truncated, messageId>>
    <3>1. chain \in Nat
      OBVIOUS
    <3> HIDE DEF TypeInv
    <3> QED  BY <1>7, <3>1, FlushType DEF TimerFires
  <2> QED  BY <2>1, <2>2
<1>8. ASSUME Deliver
      PROVE  TypeInv'
  <2>1. UNCHANGED <<cli, lastText, merged, streaming, bufferVars, answer, chat, said>>
    BY <1>8 DEF Deliver
  <2>2. phase' \in {"sending", "rendering"} /\ (toSend' = Rest \/ toSend' = Normalized)
    BY <1>8 DEF Deliver
  <2>3. Rest \in Texts /\ Normalized \in Texts
    <3> HIDE DEF TypeInv
    <3> QED  BY DeliverType
  <2> QED  BY <2>1, <2>2, <2>3 DEF bufferVars
<1>9. ASSUME Done
      PROVE  TypeInv'
  BY <1>9 DEF Done, bufferVars
<1>10. ASSUME Toggle
       PROVE  TypeInv'
  BY <1>10 DEF Toggle, bufferVars
<1>11. ASSUME UNCHANGED vars
       PROVE  TypeInv'
  BY <1>11 DEF vars, bufferVars
<1> HIDE DEF TypeInv
<1>12. CASE CliPrints
  BY <1>12, <1>1, <1>2, <1>3, <1>4 DEF CliPrints
<1>13. CASE GatewayAnswers
  BY <1>13, <1>5, <1>6 DEF GatewayAnswers
<1> QED  BY <1>7, <1>8, <1>9, <1>10, <1>11, <1>12, <1>13 DEF Next

-----------------------------------------------------------------------------
(* The steps, for what they do to the streamed message.                    *)

\* More may be in the buffer, and a request may start.
Streams ==
  /\ buffer' \in Words /\ IsPrefix(buffer, buffer')
  /\ UNCHANGED <<lastStreamed, edited, truncated, messageId, chat>>
  /\ Unrefused' = Unrefused
  /\ \/ requests = {} /\ requests' = {Request(buffer')} /\ ~IsBlank(buffer')
     \/ /\ requests' = requests
        /\ InTime' => InTime
        /\ requests # {} /\ InTime' => buffer' = buffer

\* Nothing happens to it, but messages may follow it.
Quiet ==
  /\ UNCHANGED <<buffer, lastStreamed, edited, truncated, messageId, requests>>
  /\ Len(chat') \in Nat /\ Len(chat') >= Len(chat)
  /\ \A i \in 1 .. Len(chat) : chat'[i] = chat[i]
  /\ Unrefused' => Unrefused
  /\ InTime' = InTime

\* Text that is news is not blank.
LEMMA NewsFacts ==
  ASSUME TypeInv, NEW b \in Words, HasNews(b)
  PROVE  ~IsBlank(b)
<1>1. b \in Texts /\ lastStreamed \in Texts
  BY WordsTexts DEF TypeInv
<1>2. Len(b) \in Nat /\ Len(lastStreamed) \in Nat
  BY <1>1, TextFacts
<1>3. ~IsBlank(SubSeq(b, Len(lastStreamed) + 1, Len(b)))
  BY DEF HasNews
<1>4. PICK i \in 1 .. Len(SubSeq(b, Len(lastStreamed) + 1, Len(b))) :
        SubSeq(b, Len(lastStreamed) + 1, Len(b))[i] # Break
  BY <1>3, BlankMarks
<1>5. /\ Len(lastStreamed) + i \in 1 .. Len(b)
      /\ SubSeq(b, Len(lastStreamed) + 1, Len(b))[i] = b[Len(lastStreamed) + i]
  <2>1. CASE Len(lastStreamed) <= Len(b)
    <3>1. /\ Len(SubSeq(b, Len(lastStreamed) + 1, Len(b))) = Len(b) - (Len(lastStreamed) + 1) + 1
          /\ \A j \in 1 .. Len(b) - (Len(lastStreamed) + 1) + 1 :
               SubSeq(b, Len(lastStreamed) + 1, Len(b))[j] = b[Len(lastStreamed) + 1 + j - 1]
      <4>1. Len(lastStreamed) + 1 \in 1 .. Len(b) + 1 /\ Len(b) \in Len(lastStreamed) + 1 - 1 .. Len(b)
        BY <2>1, <1>2
      <4> QED  BY <4>1, <1>1, Slice
    <3> QED  BY <3>1, <2>1, <1>2, <1>4
  <2>2. CASE Len(lastStreamed) > Len(b)
    <3>1. Len(SubSeq(b, Len(lastStreamed) + 1, Len(b))) = 0
      BY <2>2, <1>1, <1>2 DEF Texts
    <3> QED  BY <3>1, <1>4
  <2> QED  BY <2>1, <2>2, <1>2
<1> QED  BY <1>4, <1>5, BlankMarks

LEMMA FlushStreams ==
  ASSUME TypeInv, NEW armed, NEW excused, Flush(buffer', armed, excused),
         buffer' \in Words, IsPrefix(buffer, buffer'), chat' = chat,
         "refused" \in excused <=> "refused" \in excuses,
         "late" \in excuses => "late" \in excused,
         "late" \in excused /\ "late" \notin excuses => requests # {},
         requests # {} /\ "late" \notin excused => buffer' = buffer
  PROVE  Streams
<1>1. UNCHANGED <<lastStreamed, edited, truncated, messageId>>
  BY DEF Flush
<1>2. excuses' = excused \/ excuses' = excused \ {"late"}
  BY DEF Flush
<1>3. Unrefused' = Unrefused
  BY <1>2 DEF Unrefused
<1>4. CASE requests = {} /\ requests' = {Request(buffer')} /\ HasNews(buffer')
  BY <1>1, <1>3, <1>4, NewsFacts DEF Streams
<1>5. CASE requests' = requests /\ excuses' = excused
  <2>1. InTime' => InTime
    BY <1>5 DEF InTime
  <2>2. requests # {} /\ InTime' => buffer' = buffer
    BY <1>5 DEF InTime
  <2> QED  BY <1>1, <1>3, <1>5, <2>1, <2>2 DEF Streams
<1> QED  BY <1>4, <1>5 DEF Flush

LEMMA HearStreams ==
  ASSUME TypeInv, NEW t \in Words, streaming /\ Buffer(t), chat' = chat
  PROVE  Streams
<1> DEFINE excused == excuses \cup (IF requests # {} THEN {"late"} ELSE {})
<1>1. buffer' = Joined(buffer, t)
  BY DEF Buffer
<1>2. buffer' \in Words /\ IsPrefix(buffer, buffer')
  BY <1>1, WordsConcat, WordsTexts, JoinedFacts DEF TypeInv
<1>3. /\ "refused" \in excused <=> "refused" \in excuses
      /\ "late" \in excuses => "late" \in excused
      /\ "late" \in excused /\ "late" \notin excuses => requests # {}
      /\ requests # {} => "late" \in excused
  OBVIOUS
<1>4. \/ Flush(buffer', timer, excused)
      \/ /\ excuses' = excused
         /\ UNCHANGED <<lastStreamed, edited, truncated, messageId, requests>>
  BY DEF Buffer
<1> HIDE DEF excused
<1>5. CASE Flush(buffer', timer, excused)
  BY <1>2, <1>3, <1>5, FlushStreams
<1>6. CASE excuses' = excused /\ UNCHANGED <<lastStreamed, edited, truncated, messageId, requests>>
  <2>1. Unrefused' = Unrefused /\ (InTime' => InTime) /\ (requests # {} => ~InTime')
    BY <1>3, <1>6 DEF Unrefused, InTime
  <2> QED  BY <2>1, <1>2, <1>6 DEF Streams
<1> QED  BY <1>4, <1>5, <1>6

\* A flush of the buffer as it is.
LEMMA SameBufferStreams ==
  ASSUME TypeInv, NEW armed, Flush(buffer, armed, excuses), buffer' = buffer, chat' = chat
  PROVE  Streams
<1>1. buffer' \in Words /\ IsPrefix(buffer, buffer')
  <2>1. buffer \in Words /\ buffer \in Texts
    BY WordsTexts DEF TypeInv
  <2>2. IsPrefix(buffer, buffer)
    BY <2>1, PrefixSlice, Whole, TextFacts
  <2> QED  BY <2>1, <2>2
<1>2. Flush(buffer', armed, excuses)
  <2>1. ASSUME NEW b, b = buffer
        PROVE  Flush(b, armed, excuses)
    BY <2>1
  <2> QED  BY <2>1
<1> QED  BY <1>1, <1>2, FlushStreams

LEMMA ChatStays ==
  ASSUME TypeInv, chat' = chat, UNCHANGED bufferVars,
         Unrefused' => Unrefused, InTime' = InTime
  PROVE  Quiet
<1>1. Len(chat) \in Nat
  BY DEF TypeInv
<1> QED  BY <1>1 DEF Quiet, bufferVars

LEMMA StepKinds ==
  ASSUME TypeInv, [Next]_vars
  PROVE  Streams \/ Quiet \/ \E r, ok : ok \in BOOLEAN /\ Landed(r, ok)
<1> USE DEF Unrefused, InTime
<1>1. ASSUME NEW t \in Pieces, SaysBlock(t) \/ SaysDelta(t)
      PROVE  Streams \/ Quiet
  <2>1. t \in Words
    BY AnswerStreamAssumption DEF Words
  <2>2. Hear(t)
    BY <1>1 DEF SaysBlock, SaysDelta
  <2>3. chat' = chat
    BY <2>2 DEF Hear
  <2>4. CASE streaming /\ Buffer(t)
    BY <2>1, <2>3, <2>4, HearStreams
  <2>5. CASE UNCHANGED <<bufferVars, excuses>>
    BY <2>3, <2>5, ChatStays
  <2> QED  BY <2>2, <2>4, <2>5 DEF Hear
<1>2. ASSUME NextMessage \/ Dies \/ Deliver \/ Done \/ UNCHANGED vars
      PROVE  Quiet
  <2>1. chat' = chat /\ UNCHANGED <<bufferVars, excuses>>
    BY <1>2, Zenon DEF NextMessage, Dies, Deliver, Done, vars, bufferVars
  <2> QED  BY <2>1, ChatStays
<1>3. ASSUME NEW a \in Answers, Completed(a)
      PROVE  Streams \/ Quiet
  <2>1. buffer' = buffer /\ chat' = chat
    BY <1>3 DEF Completed
  <2>2. CASE Flush(buffer, FALSE, excuses)
    BY <2>1, <2>2, SameBufferStreams
  <2>3. CASE UNCHANGED <<lastStreamed, edited, truncated, messageId, chain, requests, excuses>>
    <3>1. Len(chat) \in Nat
      BY DEF TypeInv
    <3> QED  BY <2>1, <2>3, <3>1 DEF Quiet
  <2> QED  BY <1>3, <2>2, <2>3 DEF Completed
<1>4. ASSUME NEW r \in requests, NEW ok \in BOOLEAN, Flushed(r, ok)
      PROVE  Landed(r, ok)
  BY <1>4 DEF Flushed
<1>5. ASSUME NEW ok \in BOOLEAN, Send(ok) \/ Render(ok)
      PROVE  Quiet
  <2>1. Told(ok)
    BY <1>5 DEF Send, Render
  <2>2. UNCHANGED bufferVars /\ (excuses' = excuses \/ excuses' = excuses \cup {"refused"})
    BY <2>1 DEF Told
  <2>3. (Unrefused' => Unrefused) /\ InTime' = InTime
    BY <2>2
  <2>4. /\ Len(chat') \in Nat /\ Len(chat') >= Len(chat)
        /\ \A i \in 1 .. Len(chat) : chat'[i] = chat[i]
    BY <2>1, ToldType
  <2> QED  BY <2>2, <2>3, <2>4 DEF Quiet, bufferVars
<1>6. ASSUME TimerFires
      PROVE  Streams
  BY <1>6, SameBufferStreams DEF TimerFires
<1>7. ASSUME Toggle
      PROVE  Quiet
  <2>1. chat' = chat /\ UNCHANGED bufferVars /\ excuses' = excuses \cup {"toggled"}
    BY <1>7 DEF Toggle
  <2>2. (Unrefused' => Unrefused) /\ InTime' = InTime
    BY <2>1
  <2> QED  BY <2>1, <2>2, ChatStays
<1>8. CASE CliPrints
  BY <1>8, <1>1, <1>2, <1>3 DEF CliPrints
<1>9. CASE GatewayAnswers
  <2>1. CASE \E r \in requests, ok \in BOOLEAN : Flushed(r, ok)
    BY <2>1, <1>4
  <2>2. CASE \E ok \in BOOLEAN : Send(ok) \/ Render(ok)
    BY <2>2, <1>5
  <2> QED  BY <1>9, <2>1, <2>2 DEF GatewayAnswers
<1> QED  BY <1>2, <1>6, <1>7, <1>8, <1>9 DEF Next

-----------------------------------------------------------------------------
(* Requests and the streamed message.                                      *)

\* What the streamed message shows.
LEMMA MessageFacts ==
  ASSUME TypeInv, MessageInv, messageId # 0
  PROVE  \E held \in Words :
           /\ IsPrefix(held, lastStreamed) /\ ~IsBlank(held)
           /\ chat[messageId] = FirstChunk(Trim(held))
           /\ Unrefused => /\ edited = chat[messageId]
                           /\ truncated = (Len(Trim(held)) > MaxLength)
                           /\ InTime /\ requests = {} => held = lastStreamed
<1>1. PICK held \in Prefixes(lastStreamed) :
        /\ ~IsBlank(held)
        /\ chat[messageId] = FirstChunk(Trim(held))
        /\ Unrefused => /\ edited = chat[messageId]
                        /\ truncated = (Len(Trim(held)) > MaxLength)
                        /\ InTime /\ requests = {} => held = lastStreamed
  BY DEF MessageInv
<1>2. held \in Words /\ IsPrefix(held, lastStreamed)
  BY <1>1, PrefixesFacts DEF TypeInv
<1> QED  BY <1>1, <1>2

LEMMA RequestStreams ==
  ASSUME TypeInv, RequestInv, Streams
  PROVE  RequestInv'
<1>0. /\ lastStreamed \in Words /\ lastStreamed \in Texts /\ buffer \in Texts
      /\ buffer' \in Texts /\ buffer \in Words /\ buffer' \in Words
  BY WordsTexts DEF TypeInv, Streams
<1>1. IsPrefix(lastStreamed, buffer) /\ IsPrefix(buffer, buffer') /\ UNCHANGED <<lastStreamed, messageId>>
  BY DEF RequestInv, Streams
<1>2. IsPrefix(lastStreamed, buffer')
  BY <1>0, <1>1, PrefixOfPrefix
<1>3. buffer' \in Prefixes(buffer')
  <2>1. IsPrefix(buffer', buffer')
    BY <1>0, PrefixSlice, Whole, TextFacts
  <2> QED  BY <2>1, <1>0, PrefixesFacts
<1>4. ASSUME NEW b
      PROVE  Request(b)' = Request(b)
  BY <1>1, Zenon DEF Request
<1>5. \A r, q \in requests' : r = q
  BY DEF Streams, RequestInv
<1>6. ASSUME NEW r \in requests'
      PROVE  \E held \in Prefixes(buffer') :
               /\ IsPrefix(lastStreamed', held) /\ ~IsBlank(held)
               /\ r = Request(held)'
               /\ InTime' => held = buffer'
  <2>1. CASE requests' = {Request(buffer')} /\ ~IsBlank(buffer')
    BY <1>1, <1>2, <1>3, <1>4, <1>6, <2>1
  <2>2. CASE /\ requests' = requests
             /\ InTime' => InTime
             /\ requests # {} /\ InTime' => buffer' = buffer
    <3>1. PICK held \in Prefixes(buffer) :
            /\ IsPrefix(lastStreamed, held) /\ ~IsBlank(held)
            /\ r = Request(held)
            /\ InTime => held = buffer
      BY <2>2, <1>6 DEF RequestInv
    <3>2. held \in Words /\ held \in Texts /\ IsPrefix(held, buffer)
      BY <1>0, <3>1, PrefixesFacts, WordsTexts
    <3>3. IsPrefix(held, buffer')
      BY <3>2, <1>0, <1>1, PrefixOfPrefix
    <3>4. held \in Prefixes(buffer')
      BY <3>2, <3>3, <1>0, PrefixesFacts
    <3>5. InTime' => held = buffer'
      BY <2>2, <1>6, <3>1
    <3> QED  BY <3>1, <3>4, <3>5, <1>1, <1>4
  <2> QED  BY <2>1, <2>2 DEF Streams
<1> QED  BY <1>1, <1>2, <1>5, <1>6 DEF RequestInv

LEMMA RequestQuiet ==
  ASSUME RequestInv, Quiet
  PROVE  RequestInv'
BY DEF RequestInv, Quiet, Request

LEMMA MessageStreams ==
  ASSUME MessageInv, Streams
  PROVE  MessageInv'
<1> SUFFICES ASSUME messageId' # 0
             PROVE  \E held \in Prefixes(lastStreamed') :
                      /\ ~IsBlank(held)
                      /\ chat'[messageId'] = FirstChunk(Trim(held))
                      /\ Unrefused' =>
                           /\ edited' = chat'[messageId']
                           /\ truncated' = (Len(Trim(held)) > MaxLength)
                           /\ InTime' /\ requests' = {} => held = lastStreamed'
    BY DEF MessageInv
<1>1. UNCHANGED <<lastStreamed, edited, truncated, messageId, chat>> /\ Unrefused' = Unrefused
  BY DEF Streams
<1>2. PICK held \in Prefixes(lastStreamed) :
        /\ ~IsBlank(held)
        /\ chat[messageId] = FirstChunk(Trim(held))
        /\ Unrefused => /\ edited = chat[messageId]
                        /\ truncated = (Len(Trim(held)) > MaxLength)
                        /\ InTime /\ requests = {} => held = lastStreamed
  BY <1>1 DEF MessageInv
<1>3. InTime' /\ requests' = {} => InTime /\ requests = {}
  BY DEF Streams
<1> QED  BY <1>1, <1>2, <1>3

LEMMA MessageQuiet ==
  ASSUME TypeInv, MessageInv, Quiet
  PROVE  MessageInv'
<1> SUFFICES ASSUME messageId' # 0
             PROVE  \E held \in Prefixes(lastStreamed') :
                      /\ ~IsBlank(held)
                      /\ chat'[messageId'] = FirstChunk(Trim(held))
                      /\ Unrefused' =>
                           /\ edited' = chat'[messageId']
                           /\ truncated' = (Len(Trim(held)) > MaxLength)
                           /\ InTime' /\ requests' = {} => held = lastStreamed'
    BY DEF MessageInv
<1>1. /\ UNCHANGED <<lastStreamed, edited, truncated, messageId, requests>>
      /\ (Unrefused' => Unrefused) /\ InTime' = InTime
  BY DEF Quiet
<1>2. chat'[messageId'] = chat[messageId]
  <2>1. messageId \in 1 .. Len(chat)
    BY <1>1 DEF TypeInv
  <2> QED  BY <2>1, <1>1 DEF Quiet
<1>3. PICK held \in Prefixes(lastStreamed) :
        /\ ~IsBlank(held)
        /\ chat[messageId] = FirstChunk(Trim(held))
        /\ Unrefused => /\ edited = chat[messageId]
                        /\ truncated = (Len(Trim(held)) > MaxLength)
                        /\ InTime /\ requests = {} => held = lastStreamed
  BY <1>1 DEF MessageInv
<1> QED  BY <1>1, <1>2, <1>3

\* What the answer to a request does to the chat.
LEMMA LandedFacts ==
  ASSUME TypeInv, RequestInv, NEW r, NEW ok \in BOOLEAN, Landed(r, ok)
  PROVE  /\ r \in requests /\ requests' = {}
         /\ buffer' = buffer /\ lastStreamed' = buffer
         /\ edited' = r.text /\ truncated' = r.truncated
         /\ InTime' = InTime
         /\ Unrefused' <=> Unrefused /\ ok
         /\ ~ok => messageId' = messageId /\ chat' = chat
         /\ ok /\ messageId = 0 =>
              /\ chat' = Append(chat, r.text) /\ messageId' = Len(chat') /\ Len(chat') = Len(chat) + 1
              /\ \A i \in 1 .. Len(chat) : chat'[i] = chat[i]
              /\ chat'[messageId'] = r.text
         /\ ok /\ messageId # 0 =>
              /\ messageId' = messageId /\ Len(chat') = Len(chat)
              /\ \A i \in 1 .. Len(chat) : i # messageId => chat'[i] = chat[i]
              /\ chat'[messageId'] = r.text
<1>1. r \in requests /\ requests' = requests \ {r}
  BY DEF Landed
<1>2. requests' = {}
  BY <1>1 DEF RequestInv
<1>3. /\ buffer' = buffer /\ lastStreamed' = buffer
      /\ edited' = r.text /\ truncated' = r.truncated
      /\ excuses' = IF ok THEN excuses ELSE excuses \cup {"refused"}
  BY DEF Landed
<1>4. InTime' = InTime /\ (Unrefused' <=> Unrefused /\ ok)
  BY <1>3 DEF InTime, Unrefused
<1>5. r.id = messageId /\ r.text \in Words /\ Len(r.text) \in 1 .. MaxLength
  BY <1>1, RequestFacts, Zenon
<1>6. r.text \in Texts
  BY <1>5, WordsTexts
<1>7. ASSUME ~ok
      PROVE  messageId' = messageId /\ chat' = chat
  BY <1>7, <1>5, Zenon DEF Landed
<1>8. ASSUME ok, messageId = 0
      PROVE  /\ chat' = Append(chat, r.text) /\ messageId' = Len(chat') /\ Len(chat') = Len(chat) + 1
             /\ \A i \in 1 .. Len(chat) : chat'[i] = chat[i]
             /\ chat'[messageId'] = r.text
  <2>1. chat' = Append(chat, r.text) /\ messageId' = Len(chat')
    BY <1>8, <1>5, Zenon DEF Landed
  <2> QED  BY <2>1, <1>5, <1>6, ChatType
<1>9. ASSUME ok, messageId # 0
      PROVE  /\ messageId' = messageId /\ Len(chat') = Len(chat)
             /\ \A i \in 1 .. Len(chat) : i # messageId => chat'[i] = chat[i]
             /\ chat'[messageId'] = r.text
  <2>1. chat' = [chat EXCEPT ![messageId] = r.text] /\ messageId' = messageId
    BY <1>9, <1>5, Zenon DEF Landed
  <2> QED  BY <2>1, <1>5, <1>6, <1>9, ChatType
<1> QED  BY <1>1, <1>2, <1>3, <1>4, <1>7, <1>8, <1>9, Zenon

LEMMA RequestLanded ==
  ASSUME TypeInv, RequestInv, NEW r, NEW ok \in BOOLEAN, Landed(r, ok)
  PROVE  RequestInv'
<1>1. requests' = {} /\ buffer' = buffer /\ lastStreamed' = buffer
  BY LandedFacts
<1>2. buffer \in Texts
  BY WordsTexts DEF TypeInv
<1>3. IsPrefix(buffer, buffer)
  BY <1>2, PrefixSlice, Whole, TextFacts
<1> QED  BY <1>1, <1>3 DEF RequestInv

LEMMA MessageLanded ==
  ASSUME TypeInv, RequestInv, MessageInv, NEW r, NEW ok \in BOOLEAN, Landed(r, ok)
  PROVE  MessageInv'
<1> SUFFICES ASSUME messageId' # 0
             PROVE  \E held \in Prefixes(lastStreamed') :
                      /\ ~IsBlank(held)
                      /\ chat'[messageId'] = FirstChunk(Trim(held))
                      /\ Unrefused' =>
                           /\ edited' = chat'[messageId']
                           /\ truncated' = (Len(Trim(held)) > MaxLength)
                           /\ InTime' /\ requests' = {} => held = lastStreamed'
    BY DEF MessageInv
<1>1. /\ r \in requests /\ requests' = {}
      /\ buffer' = buffer /\ lastStreamed' = buffer
      /\ edited' = r.text /\ truncated' = r.truncated
      /\ InTime' = InTime
      /\ Unrefused' <=> Unrefused /\ ok
      /\ ~ok => messageId' = messageId /\ chat' = chat
      /\ ok => chat'[messageId'] = r.text
  BY LandedFacts
<1>2. buffer \in Words /\ buffer \in Texts /\ lastStreamed \in Words /\ lastStreamed \in Texts
  BY WordsTexts DEF TypeInv
<1>3. CASE ok
  <2>1. PICK held \in Words :
           /\ IsPrefix(lastStreamed, held) /\ IsPrefix(held, buffer) /\ ~IsBlank(held)
           /\ r.text = FirstChunk(Trim(held))
           /\ r.truncated = (Len(Trim(held)) > MaxLength)
           /\ InTime => held = buffer
    BY <1>1, RequestFacts, Zenon
  <2>2. held \in Prefixes(lastStreamed')
    BY <1>1, <1>2, <2>1, PrefixesFacts
  <2>3. /\ chat'[messageId'] = FirstChunk(Trim(held)) /\ edited' = chat'[messageId']
        /\ truncated' = (Len(Trim(held)) > MaxLength)
        /\ InTime' => held = lastStreamed'
    BY <1>1, <1>3, <2>1, Zenon
  <2> QED  BY <2>1, <2>2, <2>3
<1>4. CASE ~ok
  <2>1. messageId # 0 /\ ~Unrefused'
    BY <1>1, <1>4
  <2>2. PICK held \in Words :
          /\ IsPrefix(held, lastStreamed) /\ ~IsBlank(held)
          /\ chat[messageId] = FirstChunk(Trim(held))
    BY <2>1, MessageFacts
  <2>3. held \in Texts /\ IsPrefix(lastStreamed, buffer)
    BY <2>2, WordsTexts DEF RequestInv
  <2>4. IsPrefix(held, buffer)
    BY <1>2, <2>2, <2>3, PrefixOfPrefix
  <2>5. held \in Prefixes(lastStreamed')
    BY <1>1, <1>2, <2>2, <2>4, PrefixesFacts
  <2> QED  BY <1>1, <1>4, <2>1, <2>2, <2>5
<1> QED  BY <1>3, <1>4

LEMMA FlushInvStep ==
  ASSUME FlushInv, [Next]_vars
  PROVE  FlushInv'
<1>0. TypeInv /\ RequestInv /\ MessageInv
  BY DEF FlushInv
<1>1. TypeInv'
  BY <1>0, TypeStep
<1>2. RequestInv' /\ MessageInv'
  <2>1. CASE Streams
    BY <1>0, <2>1, RequestStreams, MessageStreams
  <2>2. CASE Quiet
    BY <1>0, <2>2, RequestQuiet, MessageQuiet
  <2>3. CASE \E r, ok : ok \in BOOLEAN /\ Landed(r, ok)
    BY <1>0, <2>3, RequestLanded, MessageLanded
  <2> QED  BY <1>0, <2>1, <2>2, <2>3, StepKinds
<1> QED  BY <1>1, <1>2 DEF FlushInv

\* The step of ShownOnlyGrows.
Grows ==
  /\ Len(chat') >= Len(chat)
  /\ \A i \in 1 .. Len(chat) :
       \/ IsPrefix(chat[i], chat'[i])
       \/ /\ ~truncated \/ "refused" \in excuses
          /\ truncated'
          /\ IsPrefix(chat'[i], chat[i])

LEMMA SameGrows ==
  ASSUME TypeInv, Len(chat') >= Len(chat), \A i \in 1 .. Len(chat) : chat'[i] = chat[i]
  PROVE  Grows
<1> SUFFICES ASSUME NEW i \in 1 .. Len(chat)
             PROVE  IsPrefix(chat[i], chat'[i])
    BY DEF Grows
<1>1. chat[i] \in Texts
  BY DEF TypeInv
<1>2. IsPrefix(chat[i], chat[i])
  BY <1>1, PrefixSlice, Whole, TextFacts
<1> QED  BY <1>2

LEMMA LandedGrows ==
  ASSUME FlushInv, NEW r, NEW ok \in BOOLEAN, Landed(r, ok)
  PROVE  Grows
<1>0. TypeInv /\ RequestInv /\ MessageInv
  BY DEF FlushInv
<1>a. Len(chat) \in Nat /\ messageId \in 0 .. Len(chat)
  BY <1>0 DEF TypeInv
<1>1. CASE ~ok
  <2>1. chat' = chat
    BY <1>0, <1>1, LandedFacts
  <2> QED  BY <1>0, <1>a, <2>1, SameGrows
<1>2. CASE ok /\ messageId = 0
  <2>1. Len(chat') = Len(chat) + 1 /\ \A i \in 1 .. Len(chat) : chat'[i] = chat[i]
    BY <1>0, <1>2, LandedFacts
  <2> QED  BY <1>0, <1>a, <2>1, SameGrows
<1>3. CASE ok /\ messageId # 0
  <2>1. /\ r \in requests /\ truncated' = r.truncated
        /\ Len(chat') = Len(chat)
        /\ \A i \in 1 .. Len(chat) : i # messageId => chat'[i] = chat[i]
        /\ chat'[messageId] = r.text
    BY <1>0, <1>3, LandedFacts
  <2>2. PICK old \in Words :
          /\ IsPrefix(old, lastStreamed) /\ ~IsBlank(old)
          /\ chat[messageId] = FirstChunk(Trim(old))
          /\ Unrefused => truncated = (Len(Trim(old)) > MaxLength)
    BY <1>0, <1>3, MessageFacts
  <2>3. PICK new \in Words :
          /\ IsPrefix(lastStreamed, new) /\ ~IsBlank(new)
          /\ r.text = FirstChunk(Trim(new))
          /\ r.truncated = (Len(Trim(new)) > MaxLength)
    BY <1>0, <2>1, RequestFacts, Zenon
  <2>4. old \in Texts /\ new \in Texts /\ lastStreamed \in Texts
    BY <1>0, WordsTexts DEF TypeInv
  <2>5. IsPrefix(old, new)
    BY <2>2, <2>3, <2>4, PrefixOfPrefix
  <2>6. IsPrefix(Trim(old), Trim(new)) /\ Trim(old) \in Texts /\ Trim(new) \in Texts
    BY <2>2, <2>4, <2>5, TrimPrefix, InkTrim
  <2>7. CASE IsPrefix(FirstChunk(Trim(old)), FirstChunk(Trim(new)))
    <3> SUFFICES ASSUME NEW i \in 1 .. Len(chat)
                 PROVE  IsPrefix(chat[i], chat'[i])
        BY <2>1, <1>a DEF Grows
    <3>1. CASE i = messageId
      BY <3>1, <2>1, <2>2, <2>3, <2>7
    <3>2. CASE i # messageId
      <4>1. chat[i] \in Texts
        BY <1>0 DEF TypeInv
      <4>2. IsPrefix(chat[i], chat[i])
        BY <4>1, PrefixSlice, Whole, TextFacts
      <4> QED  BY <3>2, <4>2, <2>1
    <3> QED  BY <3>1, <3>2
  <2>8. CASE /\ Len(Trim(old)) <= MaxLength /\ Len(Trim(new)) > MaxLength
             /\ IsPrefix(FirstChunk(Trim(new)), FirstChunk(Trim(old)))
    <3>1. ~(Len(Trim(old)) > MaxLength)
      <4>1. Len(Trim(old)) \in Nat /\ MaxLength \in Nat
        BY <2>6, TextFacts, AnswerStreamAssumption
      <4> QED  BY <2>8, <4>1
    <3>2. ~truncated \/ "refused" \in excuses
      BY <2>2, <3>1 DEF Unrefused
    <3>3. truncated'
      BY <2>1, <2>3, <2>8, Zenon
    <3> SUFFICES ASSUME NEW i \in 1 .. Len(chat)
                 PROVE  IsPrefix(chat[i], chat'[i]) \/ IsPrefix(chat'[i], chat[i])
        BY <2>1, <1>a, <3>2, <3>3 DEF Grows
    <3>4. CASE i = messageId
      BY <3>4, <2>1, <2>2, <2>3, <2>8
    <3>5. CASE i # messageId
      <4>1. chat[i] \in Texts
        BY <1>0 DEF TypeInv
      <4>2. IsPrefix(chat[i], chat[i])
        BY <4>1, PrefixSlice, Whole, TextFacts
      <4> QED  BY <3>5, <4>2, <2>1
    <3> QED  BY <3>4, <3>5
  <2> QED  BY <2>6, <2>7, <2>8, FirstChunkGrows
<1> QED  BY <1>1, <1>2, <1>3

LEMMA GrowsStep ==
  ASSUME FlushInv, [Next]_vars
  PROVE  Grows
<1>0. TypeInv /\ Len(chat) \in Nat
  BY DEF FlushInv, TypeInv
<1>1. CASE Streams
  <2>1. chat' = chat
    BY <1>1 DEF Streams
  <2> QED  BY <1>0, <2>1, SameGrows
<1>2. CASE Quiet
  BY <1>0, <1>2, SameGrows DEF Quiet
<1>3. CASE \E r, ok : ok \in BOOLEAN /\ Landed(r, ok)
  BY <1>3, LandedGrows
<1> QED  BY <1>0, <1>1, <1>2, <1>3, StepKinds

-----------------------------------------------------------------------------
(* The handler of the completed event.                                     *)

\* A flush that armed no timer, and one that found nothing new.
LEMMA FlushFacts ==
  ASSUME NEW b, NEW armed, NEW excused, Flush(b, armed, excused)
  PROVE  /\ timer' = FALSE \/ timer' = armed
         /\ requests' = {} => requests = {} /\ ~HasNews(b)
         /\ UNCHANGED <<lastStreamed, edited, truncated, messageId>>
         /\ excuses' = excused \/ excuses' = excused \ {"late"}
  BY Zenon DEF Flush

LEMMA TimerStep ==
  ASSUME TypeInv, TimerInv, [Next]_vars
  PROVE  TimerInv'
<1>1. CASE CliPrints
  <2>1. ASSUME NEW a \in Answers, Completed(a)
        PROVE  TimerInv'
    <3>1. timer' = FALSE
      BY <2>1, FlushFacts DEF Completed
    <3> QED  BY <3>1 DEF TimerInv
  <2>2. ASSUME phase' \in {"running", "dead"}
        PROVE  TimerInv'
    BY <2>2 DEF TimerInv
  <2> QED  BY <1>1, <2>1, <2>2 DEF CliPrints, SaysBlock, SaysDelta, Hear, NextMessage, Dies
<1>2. CASE \E r \in requests, ok \in BOOLEAN : Flushed(r, ok)
  <2>1. phase' = phase /\ timer' = (timer /\ chain = 0)
    BY <1>2 DEF Flushed, Landed
  <2> QED  BY <2>1 DEF TimerInv
<1>3. CASE TimerFires
  <2>1. timer' = FALSE
    BY <1>3, FlushFacts DEF TimerFires
  <2> QED  BY <2>1 DEF TimerInv
<1>4. CASE Deliver
  <2>1. phase \in {"flushing", "flushed"} /\ timer' = timer
    BY <1>4 DEF Deliver, bufferVars
  <2> QED  BY <2>1 DEF TimerInv
<1>5. CASE Done
  <2>1. phase \in {"sending", "rendering"} /\ timer' = timer
    BY <1>5 DEF Done, bufferVars
  <2> QED  BY <2>1 DEF TimerInv
<1>6. CASE UNCHANGED <<phase, timer>>
  BY <1>6 DEF TimerInv
<1>7. (\E ok \in BOOLEAN : Send(ok) \/ Render(ok)) \/ Toggle \/ UNCHANGED vars => UNCHANGED <<phase, timer>>
  BY DEF Send, Render, Told, Toggle, vars, bufferVars
<1> QED  BY <1>1, <1>2, <1>3, <1>4, <1>5, <1>6, <1>7 DEF Next, GatewayAnswers

LEMMA NewsStep ==
  ASSUME TypeInv, RequestInv, TimerInv, NewsInv, [Next]_vars
  PROVE  NewsInv'
<1> SUFFICES ASSUME phase' = "flushing", requests' = {}
             PROVE  ~HasNews(buffer)'
    BY DEF NewsInv
<1>1. ASSUME UNCHANGED <<buffer, lastStreamed, messageId, edited>>, ~HasNews(buffer)
      PROVE  ~HasNews(buffer)'
  BY <1>1 DEF HasNews
<1>2. CASE CliPrints
  <2>1. PICK a \in Answers : Completed(a)
    BY <1>2 DEF CliPrints, SaysBlock, SaysDelta, Hear, NextMessage, Dies
  <2>2. Flush(buffer, FALSE, excuses) /\ buffer' = buffer
    BY <2>1 DEF Completed
  <2>3. ~HasNews(buffer) /\ UNCHANGED <<lastStreamed, messageId, edited>>
    BY <2>2, FlushFacts
  <2> QED  BY <1>1, <2>2, <2>3
<1>3. CASE \E r \in requests, ok \in BOOLEAN : Flushed(r, ok)
  <2>1. buffer' = buffer /\ lastStreamed' = buffer
    BY <1>3 DEF Flushed, Landed
  <2>2. buffer \in Texts /\ Len(buffer) \in Nat
    BY WordsTexts, TextFacts DEF TypeInv
  <2>3. Len(SubSeq(buffer, Len(buffer) + 1, Len(buffer))) = 0
    BY <2>2, Slice
  <2>4. IsBlank(SubSeq(buffer, Len(buffer) + 1, Len(buffer)))
    BY <2>3 DEF IsBlank, Inked
  <2> QED  BY <2>1, <2>4 DEF HasNews
<1>4. CASE TimerFires
  BY <1>4 DEF TimerFires, TimerInv
<1>5. CASE UNCHANGED <<phase, bufferVars>>
  <2>1. UNCHANGED <<buffer, lastStreamed, messageId, edited>> /\ phase = "flushing" /\ requests = {}
    BY <1>5 DEF bufferVars
  <2> QED  BY <2>1, <1>1 DEF NewsInv
<1>6. ~Deliver /\ ~Done
  BY DEF Deliver, Done
<1>7. (\E ok \in BOOLEAN : Send(ok) \/ Render(ok)) \/ Toggle \/ UNCHANGED vars => UNCHANGED <<phase, bufferVars>>
  BY DEF Send, Render, Told, Toggle, vars
<1> QED  BY <1>2, <1>3, <1>4, <1>5, <1>6, <1>7 DEF Next, GatewayAnswers

LEMMA AnswerStep ==
  ASSUME TypeInv, AnswerInv, [Next]_vars
  PROVE  AnswerInv'
<1>1. CASE CliPrints
  <2>1. ASSUME NEW a \in Answers, Completed(a)
        PROVE  AnswerInv'
    <3>1. /\ phase = "running" /\ phase' \in {"flushing", "flushed"} /\ answer' = a
          /\ UNCHANGED <<cli, lastText, toSend>>
      BY <2>1 DEF Completed
    <3>2. cli = "pi" => a # <<>>
      BY AnswerStreamAssumption DEF Answers
    <3> QED  BY <3>1, <3>2 DEF AnswerInv
  <2>2. ASSUME phase = "running", phase' \in {"running", "dead"}, UNCHANGED <<answer, toSend>>
        PROVE  AnswerInv'
    BY <2>2 DEF AnswerInv
  <2> QED  BY <1>1, <2>1, <2>2 DEF CliPrints, SaysBlock, SaysDelta, Hear, NextMessage, Dies
<1>2. CASE \E ok \in BOOLEAN : Send(ok) \/ Render(ok)
  <2>1. phase \in {"sending", "rendering"} /\ UNCHANGED <<cli, lastText, phase, answer>>
    BY <1>2 DEF Send, Render, Told
  <2> QED  BY <2>1 DEF AnswerInv
<1>3. CASE Deliver
  <2>1. /\ phase \in {"flushing", "flushed"} /\ phase' \in {"sending", "rendering"}
        /\ UNCHANGED <<cli, lastText, answer>>
    BY <1>3 DEF Deliver
  <2> QED  BY <2>1 DEF AnswerInv
<1>4. CASE Done
  <2>1. /\ phase \in {"sending", "rendering"} /\ phase' = "done" /\ toSend = <<>>
        /\ UNCHANGED <<cli, lastText, answer, toSend>>
    BY <1>4 DEF Done
  <2> QED  BY <2>1 DEF AnswerInv
<1>5. CASE UNCHANGED <<cli, lastText, answer, toSend, phase>>
  BY <1>5 DEF AnswerInv
<1>6. (\E r \in requests, ok \in BOOLEAN : Flushed(r, ok)) \/ TimerFires \/ Toggle \/ UNCHANGED vars
        => UNCHANGED <<cli, lastText, answer, toSend, phase>>
  BY DEF Flushed, Landed, TimerFires, Toggle, vars
<1> QED  BY <1>1, <1>2, <1>3, <1>4, <1>5, <1>6 DEF Next, GatewayAnswers

LEMMA StreamStep ==
  ASSUME FlushInv, TimerInv, StreamInv, [Next]_vars
  PROVE  StreamInv'
<1>0. /\ TypeInv /\ RequestInv /\ Len(chat) \in Nat
      /\ phase \in {"running", "dead", "flushing", "flushed", "sending", "rendering", "done"}
  BY DEF FlushInv, TypeInv
<1>1. CASE CliPrints
  <2>0. phase = "running" /\ ~Pending
    BY <1>1 DEF CliPrints, SaysBlock, SaysDelta, NextMessage, Completed, Dies, Pending
  <2>1. ASSUME NEW t \in Pieces, SaysBlock(t) \/ SaysDelta(t)
        PROVE  StreamInv'
    <3>1. Hear(t)
      BY <2>1 DEF SaysBlock, SaysDelta
    <3>2. merged' = Joined(merged, t) /\ UNCHANGED <<streaming, phase, chat>>
      BY <3>1 DEF Hear
    <3>3. CASE streaming /\ Buffer(t)
      <4>a. PICK excused :
              /\ excused = excuses \cup (IF requests # {} THEN {"late"} ELSE {})
              /\ buffer' = Joined(buffer, t)
              /\ \/ Flush(buffer', timer, excused)
                 \/ excuses' = excused /\ UNCHANGED <<lastStreamed, messageId>>
        BY <3>3 DEF Buffer
      <4>b. /\ UNCHANGED <<lastStreamed, messageId>>
            /\ excuses' = excused \/ excuses' = excused \ {"late"}
        BY <4>a, FlushFacts
      <4>1. buffer' = Joined(buffer, t) /\ UNCHANGED <<lastStreamed, messageId>>
        BY <4>a, <4>b
      <4>2. (Untoggled' => Untoggled) /\ (Unrefused' => Unrefused)
        BY <4>a, <4>b DEF Untoggled, Unrefused
      <4> QED  BY <2>0, <3>2, <3>3, <4>1, <4>2 DEF StreamInv, Pending
    <3>4. CASE ~streaming /\ UNCHANGED <<bufferVars, excuses>>
      <4>1. UNCHANGED <<buffer, requests, messageId, timer, excuses>>
        BY <3>4 DEF bufferVars
      <4> QED  BY <2>0, <3>2, <3>4, <4>1 DEF StreamInv, Pending, Untoggled, Unrefused
    <3> QED  BY <3>1, <3>3, <3>4 DEF Hear
  <2>2. ASSUME NextMessage \/ Dies
        PROVE  StreamInv'
    <3>1. /\ phase' \in {"running", "dead"}
          /\ UNCHANGED <<merged, streaming, buffer, lastStreamed, requests, messageId, timer, chat, excuses>>
      BY <2>0, <2>2 DEF NextMessage, Dies, bufferVars
    <3> QED  BY <2>0, <3>1 DEF StreamInv, Pending, Untoggled, Unrefused
  <2>3. ASSUME NEW a \in Answers, Completed(a)
        PROVE  StreamInv'
    <3>1. UNCHANGED <<merged, streaming, buffer, chat>>
      BY <2>3 DEF Completed
    <3>2. CASE streaming /\ phase' = "flushing" /\ Flush(buffer, FALSE, excuses)
      <4>1. UNCHANGED <<lastStreamed, messageId>> /\ (Untoggled' => Untoggled) /\ (Unrefused' => Unrefused)
        BY <3>2, FlushFacts DEF Untoggled, Unrefused
      <4> QED  BY <2>0, <3>1, <3>2, <4>1 DEF StreamInv, Pending
    <3>3. CASE /\ ~streaming /\ phase' = "flushed" /\ timer' = FALSE
               /\ UNCHANGED <<lastStreamed, edited, truncated, messageId, chain, requests, excuses>>
      BY <2>0, <3>1, <3>3 DEF StreamInv, Pending, Untoggled, Unrefused
    <3> QED  BY <2>3, <3>2, <3>3 DEF Completed
  <2> QED  BY <1>1, <2>1, <2>2, <2>3 DEF CliPrints
<1>2. ASSUME NEW r \in requests, NEW ok \in BOOLEAN, Flushed(r, ok)
      PROVE  StreamInv'
  <2>1. Landed(r, ok) /\ UNCHANGED <<merged, streaming, phase>>
    BY <1>2 DEF Flushed, Landed
  <2>2. SUFFICES ASSUME Untoggled'
                 PROVE  StreamInv'
    BY DEF StreamInv
  <2>3. Untoggled
    BY <2>1, <2>2 DEF Landed, Untoggled
  <2>4. /\ buffer' = buffer /\ requests' = {}
        /\ Unrefused' => Unrefused /\ ok
        /\ ok /\ messageId = 0 => Len(chat') = Len(chat) + 1 /\ messageId' = Len(chat')
        /\ ok /\ messageId # 0 => Len(chat') = Len(chat) /\ messageId' = messageId
    BY <1>0, <2>1, LandedFacts
  <2>5. streaming /\ ~Pending /\ phase \notin {"flushed", "rendering"}
    BY <1>2, <2>3 DEF StreamInv
  <2>6. buffer = merged
    BY <2>3, <2>5 DEF StreamInv
  <2>7. ASSUME Unrefused'
        PROVE  messageId' = 1 /\ Len(chat') = 1
    <3>1. Unrefused /\ ok
      BY <2>4, <2>7
    <3>2. \/ messageId = 0 /\ chat = <<>>
          \/ ~(messageId = 0) /\ messageId = 1 /\ Len(chat) = 1
      BY <2>3, <2>5, <3>1, Zenon DEF StreamInv
    <3>3. chat = <<>> => Len(chat) = 0
      BY InkEmpty
    <3>4. CASE messageId = 0 /\ chat = <<>>
      <4>1. Len(chat') = Len(chat) + 1 /\ messageId' = Len(chat') /\ Len(chat) = 0
        BY <2>4, <3>1, <3>3, <3>4
      <4> QED  BY <4>1
    <3>5. CASE ~(messageId = 0) /\ messageId = 1 /\ Len(chat) = 1
      BY <2>4, <3>1, <3>5, Zenon
    <3> QED  BY <3>2, <3>4, <3>5
  <2>8. streaming' /\ ~Pending' /\ phase' \notin {"flushed", "rendering"} /\ buffer' = merged'
    BY <2>1, <2>4, <2>5, <2>6 DEF Pending
  <2>9. Unrefused' => ~(messageId' = 0) /\ messageId' = 1 /\ Len(chat') = 1
    BY <2>7
  <2> QED  BY <2>4, <2>8, <2>9, Zenon DEF StreamInv
<1>3. ASSUME NEW ok \in BOOLEAN, Send(ok) \/ Render(ok)
      PROVE  StreamInv'
  <2>1. /\ phase \in {"sending", "rendering"}
        /\ UNCHANGED <<merged, streaming, phase, buffer, lastStreamed, requests, messageId, timer>>
        /\ Untoggled' => Untoggled
    BY <1>3 DEF Send, Render, Told, bufferVars, Untoggled
  <2> QED  BY <2>1 DEF StreamInv, Pending
<1>4. ASSUME TimerFires
      PROVE  StreamInv'
  <2>1. /\ phase \in {"running", "dead"} /\ timer
        /\ UNCHANGED <<merged, streaming, phase, buffer, lastStreamed, messageId, chat>>
        /\ Untoggled' => Untoggled
        /\ Unrefused' => Unrefused
    BY <1>4, FlushFacts DEF TimerFires, TimerInv, Untoggled, Unrefused
  <2> QED  BY <2>1 DEF StreamInv, Pending
<1>5. ASSUME Deliver
      PROVE  StreamInv'
  <2>1. /\ UNCHANGED <<merged, streaming, buffer, lastStreamed, requests, messageId, timer, chat, excuses>>
        /\ \/ phase = "flushing" /\ requests = {}
           \/ phase = "flushed"
        /\ \/ phase' = "sending"
           \/ ~streaming /\ phase' = "rendering"
    BY <1>5 DEF Deliver, bufferVars
  <2> QED  BY <2>1 DEF StreamInv, Pending, Untoggled, Unrefused
<1>6. ASSUME Done
      PROVE  StreamInv'
  <2>1. /\ UNCHANGED <<merged, streaming, buffer, lastStreamed, requests, messageId, timer, excuses>>
        /\ phase \in {"sending", "rendering"} /\ phase' = "done"
    BY <1>6 DEF Done, bufferVars
  <2> QED  BY <2>1 DEF StreamInv, Pending, Untoggled, Unrefused
<1>7. ASSUME Toggle
      PROVE  StreamInv'
  BY <1>7 DEF Toggle, StreamInv, Untoggled
<1>8. ASSUME UNCHANGED vars
      PROVE  StreamInv'
  BY <1>8 DEF vars, bufferVars, StreamInv, Pending, Untoggled, Unrefused
<1>9. CASE GatewayAnswers
  <2>1. CASE \E r \in requests, ok \in BOOLEAN : Flushed(r, ok)
    BY <2>1, <1>2
  <2>2. CASE \E ok \in BOOLEAN : Send(ok) \/ Render(ok)
    BY <2>2, <1>3
  <2> QED  BY <1>9, <2>1, <2>2 DEF GatewayAnswers
<1> QED  BY <1>1, <1>4, <1>5, <1>6, <1>7, <1>8, <1>9 DEF Next

-----------------------------------------------------------------------------
(* The delivery.                                                           *)

LEMMA InkPrefix ==
  ASSUME NEW s \in Texts, NEW t \in Texts, IsPrefix(s, t)
  PROVE  IsPrefix(Ink(s), Ink(t))
<1>1. PICK u \in Texts : t = s \o u
  BY PrefixRest
<1>2. Ink(t) = Ink(s) \o Ink(u)
  BY <1>1, InkConcat
<1>3. Ink(s) \in Texts /\ Ink(u) \in Texts
  BY InkType
<1> QED  BY <1>2, <1>3, PrefixConcat

LEMMA ShownType ==
  ASSUME TypeInv
  PROVE  Shown \in Texts /\ Ink(Shown) \in Texts
<1>1. Shown \in Texts
  BY TogetherType DEF TypeInv, Shown
<1> QED  BY <1>1, InkType

\* Nothing is shown of an empty chat.
LEMMA ShownNothing ==
  ASSUME chat = <<>>
  PROVE  Shown = <<>> /\ Ink(Shown) = <<>>
BY TogetherEmpty, InkEmpty DEF Shown

\* While nothing went wrong the chat of a streamed answer is one message.
LEMMA StreamedFacts ==
  ASSUME FlushInv, StreamInv, Untoggled, Unrefused, streaming, ~Pending, messageId # 0
  PROVE  \E held \in Words :
           /\ IsPrefix(held, lastStreamed) /\ IsPrefix(held, merged) /\ ~IsBlank(held)
           /\ Shown = edited /\ edited = FirstChunk(Trim(held))
           /\ truncated = (Len(Trim(held)) > MaxLength)
           /\ InTime /\ requests = {} => held = lastStreamed
<1>0. TypeInv /\ RequestInv /\ MessageInv
  BY DEF FlushInv
<1>1. PICK held \in Words :
        /\ IsPrefix(held, lastStreamed) /\ ~IsBlank(held)
        /\ chat[messageId] = FirstChunk(Trim(held))
        /\ edited = chat[messageId]
        /\ truncated = (Len(Trim(held)) > MaxLength)
        /\ InTime /\ requests = {} => held = lastStreamed
  BY <1>0, MessageFacts
<1>2. messageId = 1 /\ Len(chat) = 1
  BY DEF StreamInv
<1>3. chat = <<chat[1]>> /\ chat[1] \in Texts
  <2>1. chat \in Seq(Texts) /\ Len(chat) = 1
    BY <1>0, <1>2 DEF TypeInv
  <2>2. chat[1] \in Texts
    BY <2>1
  <2>3. <<chat[1]>> \in Seq(Texts) /\ Len(<<chat[1]>>) = 1 /\ <<chat[1]>>[1] = chat[1]
    BY <2>2
  <2>4. \A i \in 1 .. Len(chat) : chat[i] = <<chat[1]>>[i]
    BY <2>1, <2>3
  <2> QED  BY <2>1, <2>2, <2>3, <2>4, SeqEqual
<1>4. Shown = chat[1]
  <2>1. Together(<<chat[1]>>) = chat[1]
    BY <1>3, TogetherOne
  <2> QED  BY <1>3, <2>1, Zenon DEF Shown
<1>5. IsPrefix(held, merged)
  <2>1. held \in Texts /\ lastStreamed \in Texts /\ buffer \in Texts
    BY <1>0, WordsTexts DEF TypeInv
  <2>2. IsPrefix(lastStreamed, buffer) /\ buffer = merged
    BY <1>0 DEF RequestInv, StreamInv
  <2> QED  BY <1>1, <2>1, <2>2, PrefixOfPrefix
<1> QED  BY <1>1, <1>2, <1>4, <1>5

\* Until the answer is delivered the chat shows the beginning of what there
\* is to show.
LEMMA ShownFirst ==
  ASSUME FlushInv, StreamInv, Untoggled, Unrefused, ~Pending
  PROVE  IsPrefix(Ink(Shown), Ink(merged))
<1>0. TypeInv /\ merged \in Texts /\ Ink(merged) \in Texts
  BY WordsTexts, InkType DEF FlushInv, TypeInv
<1>1. CASE chat = <<>>
  <2>1. Ink(Shown) = <<>>
    BY <1>1, ShownNothing
  <2>2. IsPrefix(<<>>, <<>> \o Ink(merged)) /\ <<>> \o Ink(merged) = Ink(merged)
    BY <1>0, InkEmpty, PrefixConcat, Concat
  <2> QED  BY <2>1, <2>2
<1>2. CASE streaming /\ messageId # 0
  <2>1. PICK held \in Words :
          IsPrefix(held, merged) /\ ~IsBlank(held) /\ Shown = FirstChunk(Trim(held))
    BY <1>2, StreamedFacts
  <2>2. /\ held \in Texts /\ FirstChunk(Trim(held)) \in Texts
        /\ IsPrefix(Ink(FirstChunk(Trim(held))), Ink(held))
    BY <2>1, TrimmedChunk
  <2>3. IsPrefix(Ink(held), Ink(merged))
    BY <1>0, <2>1, <2>2, InkPrefix
  <2>4. Ink(held) \in Texts /\ Ink(FirstChunk(Trim(held))) \in Texts
    BY <2>2, InkType
  <2>5. IsPrefix(Ink(FirstChunk(Trim(held))), Ink(merged))
    BY <1>0, <2>2, <2>3, <2>4, PrefixOfPrefix
  <2> QED  BY <2>1, <2>5
<1>3. chat = <<>> \/ (streaming /\ messageId # 0)
  BY Zenon DEF StreamInv
<1> QED  BY <1>1, <1>2, <1>3

\* The last flush leaves no ink that is not streamed.
LEMMA NoNewsFacts ==
  ASSUME TypeInv, RequestInv, ~HasNews(buffer)
  PROVE  \/ Ink(buffer) = Ink(lastStreamed)
         \/ Ink(buffer) = Ink(edited)
<1>1. buffer \in Texts /\ lastStreamed \in Texts /\ IsPrefix(lastStreamed, buffer)
  BY WordsTexts DEF TypeInv, RequestInv
<1>2. CASE IsBlank(SubSeq(buffer, Len(lastStreamed) + 1, Len(buffer)))
  <2> DEFINE new == SubSeq(buffer, Len(lastStreamed) + 1, Len(buffer))
  <2>1. new \in Texts /\ buffer = lastStreamed \o new /\ IsBlank(new)
    BY <1>1, <1>2, PrefixRest
  <2> HIDE DEF new
  <2>2. Ink(new) = <<>>
    BY <2>1, InkBlank
  <2>3. Ink(buffer) = Ink(lastStreamed) \o Ink(new)
    BY <1>1, <2>1, InkConcat
  <2>4. Ink(lastStreamed) \in Texts
    BY <1>1, InkType
  <2>5. Ink(lastStreamed) \o <<>> = Ink(lastStreamed)
    BY <2>4, InkEmpty, Concat
  <2> QED  BY <2>2, <2>3, <2>5
<1>3. CASE Trim(buffer) = edited
  BY <1>1, <1>3, InkTrim
<1> QED  BY <1>2, <1>3 DEF HasNews

\* What the remainder adds to a message that is cut.
LEMMA RestFacts ==
  ASSUME NEW s \in Texts, NEW t \in Texts, IsPrefix(s, Trim(t))
  PROVE  LET rest == Trim(SubSeq(Trim(t), Len(s) + 1, Len(Trim(t))))
         IN  rest \in Texts /\ Ink(s) \o Ink(rest) = Ink(t)
<1>1. Trim(t) \in Texts /\ Ink(Trim(t)) = Ink(t)
  BY InkTrim
<1> DEFINE after == SubSeq(Trim(t), Len(s) + 1, Len(Trim(t)))
<1>2. after \in Texts /\ Trim(t) = s \o after
  BY <1>1, PrefixRest
<1> HIDE DEF after
<1>3. Trim(after) \in Texts /\ Ink(Trim(after)) = Ink(after)
  BY <1>2, InkTrim
<1>4. Ink(Trim(t)) = Ink(s) \o Ink(after)
  BY <1>2, InkConcat
<1>5. Ink(s) \o Ink(Trim(after)) = Ink(t)
  BY <1>1, <1>3, <1>4
<1> QED  BY <1>3, <1>5 DEF after

\* The completed answer and what was streamed of it, or what it is normalised
\* with, hold all of it.
LEMMA DeliverShows ==
  ASSUME FlushInv, NewsInv, StreamInv, Deliver, excuses = {}, Heard
  PROVE  Ink(answer) \in SubSeqs(Ink(Shown) \o Ink(toSend'))
<1>0. /\ TypeInv /\ RequestInv /\ answer \in Texts /\ Ink(answer) \in Texts
      /\ Shown \in Texts /\ Ink(Shown) \in Texts
      /\ merged \in Texts /\ buffer \in Texts /\ edited \in Texts
      /\ Rest \in Texts /\ Normalized \in Texts
  BY InkType, ShownType, DeliverType, WordsTexts DEF FlushInv, TypeInv
<1>1. toSend' \in Texts /\ Ink(toSend') \in Texts
  BY <1>0, InkType DEF Deliver
<1>2. ASSUME Ink(answer) \in SubSeqs(Ink(toSend'))
      PROVE  Ink(answer) \in SubSeqs(Ink(Shown) \o Ink(toSend'))
  BY <1>0, <1>1, <1>2, InsideConcat
<1>3. ASSUME Ink(answer) = Ink(toSend')
      PROVE  Ink(answer) \in SubSeqs(Ink(Shown) \o Ink(toSend'))
  BY <1>0, <1>1, <1>2, <1>3, InsideItself
<1>4. CASE toSend' = Normalized
  <2>1. answer \in SubSeqs(Joined(merged, answer)) /\ Joined(merged, answer) \in Texts
    BY <1>0, JoinedFacts
  <2>2. Ink(answer) \in SubSeqs(Ink(Joined(merged, answer)))
    BY <1>0, <2>1, InkInside
  <2>3. Ink(Normalized) = Ink(Joined(merged, answer))
    BY <2>1, InkTrim DEF Normalized
  <2> QED  BY <1>2, <1>4, <2>2, <2>3
<1>5. CASE toSend' = Rest
  <2>1. CASE Rest = answer
    BY <1>3, <1>5, <2>1
  <2>2. CASE IsBlank(answer)
    <3>1. Ink(answer) = <<>>
      BY <1>0, <2>2, InkBlank
    <3> QED  BY <1>1, <1>2, <3>1, InsideItself
  <2>3. CASE Rest = Trim(answer)
    BY <1>0, <1>3, <1>5, <2>3, InkTrim
  <2>4. CASE /\ streaming /\ ~IsBlank(answer) /\ messageId # 0
             /\ \/ ~truncated /\ Rest = <<>>
                \/ /\ IsPrefix(edited, Trim(answer))
                   /\ Rest = Trim(SubSeq(Trim(answer), Len(edited) + 1, Len(Trim(answer))))
    <3>1. Untoggled /\ Unrefused /\ InTime
      BY DEF Untoggled, Unrefused, InTime
    <3>2. phase = "flushing" /\ requests = {} /\ ~Pending
      BY <2>4, <3>1 DEF Deliver, StreamInv, Pending
    <3>3. PICK held \in Words :
            /\ ~IsBlank(held)
            /\ Shown = edited /\ edited = FirstChunk(Trim(held))
            /\ truncated = (Len(Trim(held)) > MaxLength)
            /\ held = lastStreamed
      BY <2>4, <3>1, <3>2, StreamedFacts
    <3>4. CASE ~truncated
      <4>1. ~ (Len(Trim(held)) > MaxLength)
        BY <3>3, <3>4, Zenon
      <4>2. Ink(Shown) = Ink(lastStreamed)
        <5>1. Ink(FirstChunk(Trim(held))) = Ink(held)
          BY <3>3, <4>1, TrimmedChunk
        <5> QED  BY <3>3, <5>1
      <4>3. Ink(buffer) = Ink(Shown)
        <5>1. ~HasNews(buffer)
          BY <3>2 DEF NewsInv
        <5> QED  BY <1>0, <3>3, <4>2, <5>1, NoNewsFacts
      <4>4. answer \in SubSeqs(buffer)
        BY <2>4 DEF Heard
      <4>5. Ink(answer) \in SubSeqs(Ink(buffer))
        BY <1>0, <4>4, InkInside
      <4> QED  BY <1>0, <1>1, <4>3, <4>5, InsideConcat
    <3>5. CASE /\ IsPrefix(edited, Trim(answer))
               /\ Rest = Trim(SubSeq(Trim(answer), Len(edited) + 1, Len(Trim(answer))))
      <4>1. Ink(edited) \o Ink(Rest) = Ink(answer)
        BY <1>0, <3>5, RestFacts
      <4>2. Ink(answer) = Ink(Shown) \o Ink(toSend')
        BY <1>5, <3>3, <4>1
      <4> QED  BY <1>0, <4>2, InsideItself
    <3> QED  BY <2>4, <3>4, <3>5
  <2> QED  BY <2>1, <2>2, <2>3, <2>4 DEF Rest
<1> QED  BY <1>4, <1>5 DEF Deliver

\* When it is one message of Pi's, they are no more than it.
LEMMA DeliverOrder ==
  ASSUME FlushInv, StreamInv, AnswerInv, Deliver,
         cli = "pi", said = lastText, merged = said, Untoggled,
         ~Unrefused => phase' = "rendering", answer \in {<<>>, said}
  PROVE  IsPrefix(Ink(Shown) \o Ink(toSend'), Ink(said))
<1>0. /\ TypeInv /\ said \in Texts /\ Ink(said) \in Texts
      /\ Shown \in Texts /\ Ink(Shown) \in Texts /\ edited \in Texts
      /\ Rest \in Texts /\ Normalized \in Texts
  BY InkType, ShownType, DeliverType, WordsTexts DEF FlushInv, TypeInv
<1>1. toSend' \in Texts /\ Ink(toSend') \in Texts
  BY <1>0, InkType DEF Deliver
<1>2. answer = said
  BY DEF Deliver, AnswerInv
<1>3. ~Pending
  BY DEF Deliver, Pending
<1>4. IsPrefix(said, said) /\ IsPrefix(Ink(said), Ink(said))
  BY <1>0, PrefixSlice, Whole, TextFacts
<1>5. ASSUME chat = <<>>, Ink(toSend') = Ink(said)
      PROVE  IsPrefix(Ink(Shown) \o Ink(toSend'), Ink(said))
  <2>1. Ink(Shown) \o Ink(toSend') = Ink(said)
    BY <1>0, <1>5, ShownNothing, Concat
  <2> QED  BY <2>1, <1>4
<1>6. ASSUME Unrefused, Ink(toSend') = <<>>
      PROVE  IsPrefix(Ink(Shown) \o Ink(toSend'), Ink(said))
  <2>1. Ink(Shown) \o Ink(toSend') = Ink(Shown)
    BY <1>0, <1>6, Concat
  <2>2. IsPrefix(Ink(Shown), Ink(merged))
    BY <1>3, <1>6, ShownFirst
  <2> QED  BY <2>1, <2>2
<1>7. CASE ~streaming
  <2>1. chat = <<>>
    BY <1>3, <1>7 DEF StreamInv
  <2>2. CASE toSend' = Rest
    <3>1. toSend' = said
      BY <1>2, <1>7, <2>2 DEF Rest
    <3> QED  BY <1>5, <2>1, <3>1
  <2>3. CASE toSend' = Normalized
    <3>1. Joined(merged, answer) = said
      BY <1>2, <1>4 DEF Joined
    <3>2. toSend' = Trim(said)
      BY <2>3, <3>1 DEF Normalized
    <3>3. Ink(toSend') = Ink(said)
      BY <1>0, <3>2, InkTrim
    <3> QED  BY <1>5, <2>1, <3>3
  <2> QED  BY <2>2, <2>3 DEF Deliver
<1>8. CASE streaming
  <2>0. phase' = "sending" /\ toSend' = Rest /\ Unrefused /\ phase = "flushing" /\ requests = {}
    BY <1>8 DEF Deliver, StreamInv
  <2>1. CASE Rest = <<>>
    BY <1>6, <2>0, <2>1, InkEmpty
  <2>2. CASE messageId = 0 /\ Rest = answer
    <3>1. chat = <<>>
      BY <1>3, <1>8, <2>0, <2>2, Zenon DEF StreamInv
    <3> QED  BY <1>2, <1>5, <2>0, <2>2, <3>1
  <2>3. CASE messageId # 0 /\ truncated /\ Rest =
               IF IsPrefix(edited, Trim(answer))
                 THEN Trim(SubSeq(Trim(answer), Len(edited) + 1, Len(Trim(answer))))
               ELSE Trim(answer)
    <3>1. PICK held \in Words :
            /\ IsPrefix(held, merged) /\ ~IsBlank(held)
            /\ Shown = edited /\ edited = FirstChunk(Trim(held))
      BY <1>3, <1>8, <2>0, <2>3, StreamedFacts
    <3>2. held \in Texts /\ Trim(held) \in Texts /\ Trim(said) \in Texts
      BY <1>0, <3>1, WordsTexts, InkTrim
    <3>3. IsPrefix(edited, Trim(held))
      BY <3>1, <3>2, ChunkFacts
    <3>4. IsPrefix(Trim(held), Trim(said))
      BY <1>0, <3>1, <3>2, TrimPrefix
    <3>5. IsPrefix(edited, Trim(answer))
      BY <1>0, <1>2, <3>2, <3>3, <3>4, PrefixOfPrefix
    <3>6. Ink(edited) \o Ink(Rest) = Ink(said)
      BY <1>0, <1>2, <2>3, <3>5, RestFacts
    <3> QED  BY <1>4, <2>0, <3>1, <3>6
  <2>4. \/ Rest = <<>>
        \/ messageId = 0 /\ Rest = answer
        \/ /\ messageId # 0 /\ truncated
           /\ Rest = IF IsPrefix(edited, Trim(answer))
                       THEN Trim(SubSeq(Trim(answer), Len(edited) + 1, Len(Trim(answer))))
                     ELSE Trim(answer)
    BY <1>8 DEF Rest
  <2> QED  BY <2>1, <2>2, <2>3, <2>4
<1> QED  BY <1>7, <1>8

\* A message that is sent takes from what is to be sent what it shows.
LEMMA ToldShows ==
  ASSUME TypeInv, NEW ok \in BOOLEAN, Told(ok)
  PROVE  /\ ToShow \in Texts /\ Ink(Shown) \in Texts /\ IsPrefix(Ink(Shown), ToShow)
         /\ ok => Ink(Shown') \o Ink(AfterFirst(toSend)) = ToShow
         /\ ~ok => Shown' = Shown
<1>0. /\ Shown \in Texts /\ Ink(Shown) \in Texts /\ toSend \in Texts /\ Ink(toSend) \in Texts
      /\ FirstChunk(toSend) \in Texts /\ AfterFirst(toSend) \in Texts
      /\ Ink(FirstChunk(toSend)) \in Texts /\ Ink(AfterFirst(toSend)) \in Texts
  BY ShownType, ToldType, InkType
<1>1. ToShow \in Texts /\ IsPrefix(Ink(Shown), ToShow)
  BY <1>0, Concat, PrefixConcat DEF ToShow
<1>2. ASSUME ~ok
      PROVE  Shown' = Shown
  BY <1>2 DEF Told, Shown
<1>3. ASSUME ok
      PROVE  Ink(Shown') \o Ink(AfterFirst(toSend)) = ToShow
  <2>1. chat' = Append(chat, FirstChunk(toSend)) /\ chat \in Seq(Texts)
    BY <1>3 DEF Told, TypeInv
  <2>2. Shown' = Shown \o FirstChunk(toSend)
    BY <1>0, <2>1, TogetherAppend DEF Shown
  <2>3. Ink(Shown') = Ink(Shown) \o Ink(FirstChunk(toSend))
    BY <1>0, <2>2, InkConcat
  <2>4. (Ink(Shown) \o Ink(FirstChunk(toSend))) \o Ink(AfterFirst(toSend))
          = Ink(Shown) \o (Ink(FirstChunk(toSend)) \o Ink(AfterFirst(toSend)))
    <3>1. Ink(Shown) \in Texts /\ Ink(FirstChunk(toSend)) \in Texts /\ Ink(AfterFirst(toSend)) \in Texts
      BY <1>0
    <3>2. Then(Then(Ink(Shown), Ink(FirstChunk(toSend))), Ink(AfterFirst(toSend)))
            = Then(Ink(Shown), Then(Ink(FirstChunk(toSend)), Ink(AfterFirst(toSend))))
      BY <3>1, ThenAssociative
    <3> QED  BY <3>2 DEF Then
  <2>5. Ink(FirstChunk(toSend)) \o Ink(AfterFirst(toSend)) = Ink(toSend)
    BY <1>0, ChunkFacts
  <2> QED  BY <2>3, <2>4, <2>5 DEF ToShow
<1> QED  BY <1>0, <1>1, <1>2, <1>3

LEMMA DeliverStep ==
  ASSUME FlushInv, PhaseInv, DeliverInv, [Next]_vars
  PROVE  DeliverInv'
<1> SUFFICES ASSUME Pending', excuses' = {}, Heard'
             PROVE  Ink(answer') \in SubSeqs(ToShow')
    BY DEF DeliverInv
<1>0. TypeInv /\ TimerInv /\ NewsInv /\ StreamInv
  BY DEF FlushInv, PhaseInv
<1>1. ASSUME Pending, excuses = {}, UNCHANGED <<streaming, answer, buffer, messageId>>
      PROVE  Ink(answer') \in SubSeqs(ToShow)
  BY <1>1 DEF DeliverInv, Heard
<1>2. CASE CliPrints
  BY <1>2 DEF CliPrints, SaysBlock, SaysDelta, Hear, NextMessage, Completed, Dies, Pending
<1>3. ASSUME NEW r \in requests, NEW ok \in BOOLEAN, Flushed(r, ok)
      PROVE  FALSE
  <2>1. Pending /\ Untoggled
    BY <1>3 DEF Flushed, Landed, Pending, Untoggled
  <2> QED  BY <1>0, <1>3, <2>1 DEF StreamInv
<1>4. ASSUME NEW ok \in BOOLEAN, Send(ok) \/ Render(ok)
      PROVE  Ink(answer') \in SubSeqs(ToShow')
  <2>1. Told(ok) /\ Pending /\ UNCHANGED <<streaming, answer, buffer, messageId>>
    BY <1>4 DEF Send, Render, Told, Pending, bufferVars
  <2>2. ok /\ excuses = {}
    BY <2>1 DEF Told
  <2>3. toSend' = AfterFirst(toSend)
    BY <1>4, <2>2 DEF Send, Render
  <2>4. ToShow' = ToShow
    BY <1>0, <2>1, <2>2, <2>3, ToldShows DEF ToShow
  <2> QED  BY <1>1, <2>1, <2>2, <2>4
<1>5. CASE TimerFires
  <2>1. phase \in {"running", "dead"} /\ phase' = phase
    BY <1>0, <1>5 DEF TimerFires, TimerInv
  <2> QED  BY <2>1 DEF Pending
<1>6. CASE Deliver
  <2>1. UNCHANGED <<streaming, answer, buffer, messageId, chat, excuses>>
    BY <1>6 DEF Deliver, bufferVars
  <2>2. excuses = {} /\ Heard
    BY <2>1 DEF Heard
  <2>3. Ink(answer) \in SubSeqs(Ink(Shown) \o Ink(toSend'))
    BY <1>0, <1>6, <2>2, DeliverShows
  <2>4. Shown' = Shown
    BY <2>1 DEF Shown
  <2> QED  BY <2>1, <2>3, <2>4 DEF ToShow
<1>7. CASE UNCHANGED <<streaming, answer, buffer, messageId, chat, toSend, excuses>> /\ Pending
  <2>1. ToShow' = ToShow
    BY <1>7 DEF ToShow, Shown
  <2> QED  BY <1>1, <1>7, <2>1
<1>8. Done \/ UNCHANGED vars =>
        UNCHANGED <<streaming, answer, buffer, messageId, chat, toSend, excuses>> /\ Pending
  BY DEF Done, vars, bufferVars, Pending
<1>9. ~Toggle
  BY DEF Toggle
<1>10. CASE GatewayAnswers
  <2>1. CASE \E r \in requests, ok \in BOOLEAN : Flushed(r, ok)
    BY <2>1, <1>3
  <2>2. CASE \E ok \in BOOLEAN : Send(ok) \/ Render(ok)
    BY <2>2, <1>4
  <2> QED  BY <1>10, <2>1, <2>2 DEF GatewayAnswers
<1> QED  BY <1>2, <1>5, <1>6, <1>7, <1>8, <1>9, <1>10 DEF Next

LEMMA OrderStep ==
  ASSUME FlushInv, PhaseInv, OrderInv, [Next]_vars
  PROVE  OrderInv'
<1> SUFFICES ASSUME Pending', InOrder'
             PROVE  IsPrefix(ToShow', Ink(said'))
    BY DEF OrderInv
<1>0. TypeInv /\ TimerInv /\ StreamInv /\ AnswerInv
  BY DEF FlushInv, PhaseInv
<1>a. said \in Texts /\ Ink(said) \in Texts
  BY <1>0, InkType, WordsTexts DEF TypeInv
<1>2. CASE CliPrints
  BY <1>2 DEF CliPrints, SaysBlock, SaysDelta, Hear, NextMessage, Completed, Dies, Pending
<1>3. ASSUME NEW r \in requests, NEW ok \in BOOLEAN, Flushed(r, ok)
      PROVE  FALSE
  <2>1. Pending /\ Untoggled
    BY <1>3 DEF Flushed, Landed, Pending, InOrder, Untoggled
  <2> QED  BY <1>0, <1>3, <2>1 DEF StreamInv
<1>4. ASSUME NEW ok \in BOOLEAN, Send(ok) \/ Render(ok)
      PROVE  IsPrefix(ToShow', Ink(said'))
  <2>1. Told(ok) /\ Pending /\ UNCHANGED <<cli, lastText, merged, phase, answer, said>>
    BY <1>4 DEF Send, Render, Told, Pending
  <2>2. InOrder
    <3>1. Untoggled /\ (~Unrefused => ~Unrefused')
      BY <2>1 DEF Told, InOrder, Untoggled, Unrefused
    <3> QED  BY <2>1, <3>1 DEF InOrder
  <2>3. IsPrefix(ToShow, Ink(said))
    BY <2>1, <2>2 DEF OrderInv
  <2>4. CASE ok
    <3>1. toSend' = AfterFirst(toSend)
      BY <1>4, <2>4 DEF Send, Render
    <3>2. ToShow' = ToShow
      BY <1>0, <2>1, <2>4, <3>1, ToldShows DEF ToShow
    <3> QED  BY <2>1, <2>3, <3>2
  <2>5. CASE ~ok
    <3>1. phase = "rendering"
      BY <2>1, <2>5 DEF Told, InOrder, Unrefused
    <3>2. toSend' = <<>>
      BY <1>4, <2>5, <3>1 DEF Send, Render
    <3>3. ToShow \in Texts /\ Ink(Shown) \in Texts /\ IsPrefix(Ink(Shown), ToShow) /\ Shown' = Shown
      BY <1>0, <2>1, <2>5, ToldShows
    <3>4. ToShow' = Ink(Shown)
      <4>1. Ink(Shown) \o <<>> = Ink(Shown) /\ Ink(<<>>) = <<>>
        BY <3>3, Concat, InkEmpty
      <4> QED  BY <3>2, <3>3, <4>1 DEF ToShow
    <3>5. IsPrefix(Ink(Shown), Ink(said))
      BY <1>a, <2>3, <3>3, PrefixOfPrefix
    <3> QED  BY <2>1, <3>4, <3>5
  <2> QED  BY <2>4, <2>5
<1>5. CASE TimerFires
  <2>1. phase \in {"running", "dead"} /\ phase' = phase
    BY <1>0, <1>5 DEF TimerFires, TimerInv
  <2> QED  BY <2>1 DEF Pending
<1>6. CASE Deliver
  <2>1. UNCHANGED <<cli, lastText, merged, answer, said, chat, excuses>>
    BY <1>6 DEF Deliver
  <2>2. /\ cli = "pi" /\ said = lastText /\ merged = said /\ Untoggled
        /\ ~Unrefused => phase' = "rendering"
        /\ answer \in {<<>>, said}
    BY <2>1 DEF InOrder, Untoggled, Unrefused
  <2>3. IsPrefix(Ink(Shown) \o Ink(toSend'), Ink(said))
    BY <1>0, <1>6, <2>2, DeliverOrder
  <2>4. Shown' = Shown
    BY <2>1 DEF Shown
  <2> QED  BY <2>1, <2>3, <2>4 DEF ToShow
<1>7. CASE /\ UNCHANGED <<cli, lastText, merged, answer, said, chat, toSend, excuses>> /\ Pending
           /\ phase = "rendering" \/ phase' # "rendering"
  <2>1. ToShow' = ToShow
    BY <1>7 DEF ToShow, Shown
  <2>2. InOrder
    BY <1>7 DEF InOrder, Untoggled, Unrefused
  <2> QED  BY <1>7, <2>1, <2>2 DEF OrderInv
<1>8. Done \/ UNCHANGED vars =>
        /\ UNCHANGED <<cli, lastText, merged, answer, said, chat, toSend, excuses>> /\ Pending
        /\ phase = "rendering" \/ phase' # "rendering"
  BY DEF Done, vars, Pending
<1>9. ~Toggle
  BY DEF Toggle, InOrder, Untoggled
<1>10. CASE GatewayAnswers
  <2>1. CASE \E r \in requests, ok \in BOOLEAN : Flushed(r, ok)
    BY <2>1, <1>3
  <2>2. CASE \E ok \in BOOLEAN : Send(ok) \/ Render(ok)
    BY <2>2, <1>4
  <2> QED  BY <1>10, <2>1, <2>2 DEF GatewayAnswers
<1> QED  BY <1>2, <1>5, <1>6, <1>7, <1>8, <1>9, <1>10 DEF Next

-----------------------------------------------------------------------------
(* The theorems.                                                           *)

LEMMA IInvStep ==
  ASSUME IInv, [Next]_vars
  PROVE  IInv'
<1>1. /\ FlushInv /\ PhaseInv /\ OrderInv /\ DeliverInv
      /\ TypeInv /\ RequestInv /\ TimerInv /\ NewsInv /\ StreamInv /\ AnswerInv
  BY DEF IInv, FlushInv, PhaseInv
<1>2. FlushInv'
  BY <1>1, FlushInvStep
<1>3. TimerInv' /\ NewsInv' /\ StreamInv' /\ AnswerInv'
  BY <1>1, TimerStep, NewsStep, StreamStep, AnswerStep
<1>4. OrderInv' /\ DeliverInv'
  BY <1>1, OrderStep, DeliverStep
<1> QED  BY <1>2, <1>3, <1>4 DEF IInv, PhaseInv

\* The invariant that holds the requests, the streamed message, the phases of
\* the completed handler and the delivery together.
THEOREM InvariantHolds == Spec => []IInv
<1>1. Init => IInv
  BY InitInv
<1>2. IInv /\ [Next]_vars => IInv'
  BY IInvStep
<1> QED  BY <1>1, <1>2, PTL DEF Spec

\* No message is empty or too long for the gateway, whatever the CLI says and
\* wherever its texts are split, and the streamed message is one of the chat's.
THEOREM TypeIsCorrect == Spec => []TypeOK
<1>1. IInv => TypeOK
  <2> SUFFICES ASSUME IInv
               PROVE  TypeOK
      OBVIOUS
  <2>1. TypeInv /\ RequestInv
    BY DEF IInv, FlushInv
  <2>2. ASSUME NEW r \in requests
        PROVE  r.id \in 0 .. Len(chat)
    <3>1. r.id = messageId
      BY <2>1, RequestFacts, Zenon
    <3> QED  BY <2>1, <3>1 DEF TypeInv
  <2> QED  BY <2>1, <2>2 DEF TypeOK, TypeInv, Words, Texts, Marks
<1> QED  BY <1>1, InvariantHolds, PTL

\* A streamed message only grows, until it is cut at the length of a message,
\* whatever the order of the flushes, the timer and the gateway's answers.
THEOREM MessagesOnlyGrow == Spec => ShownOnlyGrows
<1>1. IInv /\ [Next]_vars => Grows
  <2>1. IInv => FlushInv
    BY DEF IInv
  <2> QED  BY <2>1, GrowsStep
<1>2. IInv /\ [Next]_vars => [Grows]_vars
  BY <1>1
<1> QED  BY <1>2, InvariantHolds, PTL DEF Spec, ShownOnlyGrows, Grows

\* What is shown of one message of Pi's is a beginning of it, at every moment
\* of the stream, of the remainder that is sent in chunks and of the rendering.
THEOREM AnswersKeepTheirOrder == Spec => []ShownInOrder
<1>1. IInv => ShownInOrder
  <2> SUFFICES ASSUME IInv, InOrder
               PROVE  IsPrefix(Ink(Shown), Ink(said))
      BY DEF ShownInOrder, InOrder, Untoggled, Unrefused
  <2>1. FlushInv /\ StreamInv /\ OrderInv /\ TypeInv
    BY DEF IInv, FlushInv, PhaseInv
  <2>2. CASE Pending
    <3>1. IsPrefix(ToShow, Ink(said))
      BY <2>1, <2>2 DEF OrderInv
    <3>2. said \in Texts /\ Ink(said) \in Texts /\ Ink(Shown) \in Texts /\ Ink(toSend) \in Texts
      BY <2>1, InkType, ShownType, WordsTexts DEF TypeInv
    <3>3. ToShow \in Texts /\ IsPrefix(Ink(Shown), ToShow)
      BY <3>2, Concat, PrefixConcat DEF ToShow
    <3> QED  BY <3>1, <3>2, <3>3, PrefixOfPrefix
  <2>3. CASE ~Pending
    <3>1. Untoggled /\ Unrefused /\ merged = said
      BY <2>3 DEF InOrder, Pending
    <3> QED  BY <2>1, <2>3, <3>1, ShownFirst
  <2> QED  BY <2>2, <2>3
<1> QED  BY <1>1, InvariantHolds, PTL

\* All of the answer is in the chat in the end, streamed, sent as a remainder,
\* sent as a whole or rendered, unless one of the named excuses applies.
THEOREM AnswersAreShown == Spec => []AnswerShownUnlessExcused
<1>1. IInv => AnswerShownUnlessExcused
  <2> SUFFICES ASSUME IInv, phase = "done", excuses = {}, Heard
               PROVE  Ink(answer) \in SubSeqs(Ink(Shown))
      BY DEF AnswerShownUnlessExcused, Shows
  <2>1. TypeInv /\ DeliverInv /\ AnswerInv
    BY DEF IInv, FlushInv, PhaseInv
  <2>2. Ink(answer) \in SubSeqs(ToShow)
    BY <2>1 DEF DeliverInv, Pending
  <2>3. toSend = <<>>
    BY <2>1 DEF AnswerInv
  <2>4. ToShow = Ink(Shown)
    BY <2>1, <2>3, ShownType, InkEmpty, Concat DEF ToShow
  <2> QED  BY <2>2, <2>4
<1> QED  BY <1>1, InvariantHolds, PTL

=============================================================================
