----------------------------- MODULE PrintfProofs -----------------------------
(* Proofs about the output of printf.c and vasprintf.c (Printf).            *)
(*                                                                          *)
(* What a call has written so far is one sequence, the texts of the         *)
(* directives it is past, and every sink is a function of it: a buffer      *)
(* holds the part of it below maxlen and nothing else, a function has been  *)
(* given all of it but its NULs.  That is the inductive invariant.  The     *)
(* texts are joined by FlattenSeq, which is recursive, so that the first    *)
(* lemmas say what it does to a sequence with one more text; they argue     *)
(* with the least number at which they would fail.                          *)
(* A number is followed through _ntoa_format and _ftoa as its digits in the *)
(* buffer, last one first; turned round they are what C says.               *)
EXTENDS Printf, NaturalOrder, SequenceTheorems, FiniteSetTheorems

----------------------------------------------------------------------------
(* Joining sequences. *)

\* f holds the first n partial results of FlattenSeq(s).
Partial(s, n, f) == f = [k \in 1 .. n |-> IF k = 1 THEN s[k] ELSE f[k - 1] \o s[k]]

LEMMA PartialStep ==
    ASSUME NEW s, NEW n, NEW f, Partial(s, n, f), NEW k \in 1 .. n
    PROVE  f[k] = IF k = 1 THEN s[k] ELSE f[k - 1] \o s[k]
BY DEF Partial

LEMMA PartialTop ==
    ASSUME NEW s, NEW n \in Nat \ {0, 1}, NEW f, Partial(s, n, f)
    PROVE  f[n] = f[n - 1] \o s[n]
<1>1. n \in 1 .. n /\ n # 1 OBVIOUS
<1>2. ASSUME NEW k \in 1 .. n, k # 1 PROVE f[k] = f[k - 1] \o s[k] BY <1>2 DEF Partial
<1> QED BY <1>1, <1>2

\* There are partial results for every sequence.
LEMMA PartialExists ==
    ASSUME NEW s, NEW n \in Nat
    PROVE  \E f : Partial(s, n, f)
<1> DEFINE Bad == {k \in 0 .. n : ~ \E f : Partial(s, k, f)}
<1>1. SUFFICES Bad = {}
  <2>1. n \in 0 .. n OBVIOUS
  <2> QED BY <2>1
<1>2. SUFFICES ASSUME Bad # {} PROVE FALSE OBVIOUS
<1>3. PICK p \in Bad : \A q \in Bad : p <= q
  <2>1. Bad \in SUBSET Nat OBVIOUS
  <2> HIDE DEF Bad
  <2> QED BY <1>2, <2>1, LeastExists
<1>4. p # 0
  <2>1. Partial(s, 0, [k \in 1 .. 0 |-> 0]) BY DEF Partial
  <2> QED BY <2>1
<1>5. PICK f : Partial(s, p - 1, f)
  <2>1. p - 1 \in 0 .. n /\ ~(p <= p - 1) BY <1>4
  <2>2. p - 1 \notin Bad BY <2>1, <1>3
  <2> QED BY <2>1, <2>2
<1> DEFINE g == [k \in 1 .. p |-> IF k = p THEN IF p = 1 THEN s[1] ELSE f[p - 1] \o s[p] ELSE f[k]]
<1>6. ASSUME NEW k \in 1 .. p PROVE g[k] = IF k = 1 THEN s[k] ELSE g[k - 1] \o s[k]
  <2>1. CASE k = p
    <3>1. k # 1 => k - 1 \in 1 .. p /\ k - 1 # p /\ g[k - 1] = f[k - 1] BY <2>1
    <3> QED BY <2>1, <3>1
  <2>2. CASE k # p
    <3>1. k \in 1 .. p - 1 BY <2>2
    <3>2. f[k] = IF k = 1 THEN s[k] ELSE f[k - 1] \o s[k] BY <3>1, <1>5 DEF Partial
    <3>3. k # 1 => k - 1 \in 1 .. p /\ k - 1 # p /\ g[k - 1] = f[k - 1] BY <3>1
    <3>4. g[k] = f[k] BY <2>2
    <3> QED BY <3>2, <3>3, <3>4
  <2> QED BY <2>1, <2>2
<1>7. Partial(s, p, g)
  <2>1. g = [k \in 1 .. p |-> g[k]] OBVIOUS
  <2> HIDE DEF g
  <2> QED BY <2>1, <1>6 DEF Partial
<1> QED BY <1>7, <1>3

\* Two sequences that begin alike have the same partial results there.
LEMMA PartialUnique ==
    ASSUME NEW s, NEW t, NEW m \in Nat, NEW n \in Nat, n <= m, NEW f, NEW g,
           Partial(s, n, f), Partial(t, m, g), \A k \in 1 .. n : s[k] = t[k]
    PROVE  \A k \in 1 .. n : f[k] = g[k]
<1> DEFINE Bad == {k \in 1 .. n : f[k] # g[k]}
<1>1. SUFFICES ASSUME Bad # {} PROVE FALSE OBVIOUS
<1>2. Bad \in SUBSET Nat OBVIOUS
<1>3. PICK p \in Bad : \A q \in Bad : p <= q
  <2> HIDE DEF Bad
  <2> QED BY <1>1, <1>2, LeastExists
<1>4. p \in 1 .. n /\ p \in 1 .. m OBVIOUS
<1>5. f[p] = IF p = 1 THEN s[p] ELSE f[p - 1] \o s[p] BY <1>4 DEF Partial
<1>6. g[p] = IF p = 1 THEN t[p] ELSE g[p - 1] \o t[p] BY <1>4 DEF Partial
<1>7. p # 1 => f[p - 1] = g[p - 1]
  <2>1. p # 1 => p - 1 \in 1 .. n /\ ~(p <= p - 1) BY <1>4
  <2> QED BY <2>1, <1>3
<1>8. f[p] = g[p] BY <1>4, <1>5, <1>6, <1>7
<1> QED BY <1>8, <1>3

\* Every partial result is a sequence of the same elements.
LEMMA PartialType ==
    ASSUME NEW S, NEW s \in Seq(Seq(S)), NEW f, Partial(s, Len(s), f)
    PROVE  \A k \in 1 .. Len(s) : f[k] \in Seq(S)
<1> DEFINE Bad == {k \in 1 .. Len(s) : f[k] \notin Seq(S)}
<1>1. SUFFICES ASSUME Bad # {} PROVE FALSE OBVIOUS
<1>2. Bad \in SUBSET Nat OBVIOUS
<1>3. PICK p \in Bad : \A q \in Bad : p <= q
  <2> HIDE DEF Bad
  <2> QED BY <1>1, <1>2, LeastExists
<1>4. p \in 1 .. Len(s) OBVIOUS
<1>5. f[p] = IF p = 1 THEN s[p] ELSE f[p - 1] \o s[p] BY <1>4 DEF Partial
<1>6. p # 1 => f[p - 1] \in Seq(S)
  <2>1. p # 1 => p - 1 \in 1 .. Len(s) /\ ~(p <= p - 1) BY <1>4
  <2> QED BY <2>1, <1>3
<1>7. s[p] \in Seq(S) BY <1>4
<1>8. f[p] \in Seq(S) BY <1>5, <1>6, <1>7
<1> QED BY <1>8, <1>3

\* FlattenSeq is the last partial result.
LEMMA FlattenLast ==
    ASSUME NEW s, Len(s) \in Nat \ {0}, NEW f, Partial(s, Len(s), f)
    PROVE  FlattenSeq(s) = f[Len(s)]
<1> DEFINE g == CHOOSE h : Partial(s, Len(s), h)
<1>1. Partial(s, Len(s), g) BY Zenon
<1>2. FlattenSeq(s) = g[Len(s)] BY Zenon DEF FlattenSeq, Partial
<1>3. f[Len(s)] = g[Len(s)]
  <2> HIDE DEF g
  <2>1. Len(s) \in 1 .. Len(s) OBVIOUS
  <2>2. \A k \in 1 .. Len(s) : f[k] = g[k] BY <1>1, PartialUnique
  <2> QED BY <2>1, <2>2
<1> QED BY <1>2, <1>3

\* Nothing is joined to nothing; one more text goes behind the others.
LEMMA FlattenNone == FlattenSeq(<<>>) = <<>>
BY DEF FlattenSeq

LEMMA FlattenStep ==
    ASSUME NEW s, NEW u, NEW m \in Nat \ {0, 1}, Len(s) = m - 1, Len(u) = m,
           \A k \in 1 .. m - 1 : s[k] = u[k]
    PROVE  FlattenSeq(u) = FlattenSeq(s) \o u[m]
<1>1. m - 1 \in Nat \ {0} /\ m \in Nat \ {0} /\ m - 1 \in 1 .. m - 1 /\ m - 1 <= m OBVIOUS
<1>2. PICK f : Partial(s, m - 1, f) BY <1>1, PartialExists
<1>3. PICK g : Partial(u, m, g) BY PartialExists
<1>4. FlattenSeq(s) = f[m - 1] BY <1>1, <1>2, FlattenLast
<1>5. FlattenSeq(u) = g[m] BY <1>1, <1>3, FlattenLast
<1>6. g[m] = g[m - 1] \o u[m] BY <1>3, PartialTop
<1>7. f[m - 1] = g[m - 1]
  <2>1. \A k \in 1 .. m - 1 : f[k] = g[k] BY <1>1, <1>2, <1>3, PartialUnique
  <2> QED BY <1>1, <2>1
<1> QED BY <1>4, <1>5, <1>6, <1>7, Zenon

LEMMA FlattenOne ==
    ASSUME NEW u, Len(u) = 1
    PROVE  FlattenSeq(u) = u[1]
<1>1. PICK g : Partial(u, 1, g) BY PartialExists
<1>2. FlattenSeq(u) = g[1] BY <1>1, FlattenLast
<1>3. g[1] = u[1] BY <1>1, PartialStep
<1> QED BY <1>2, <1>3

LEMMA FlattenMore ==
    ASSUME NEW S, NEW s \in Seq(Seq(S)), NEW t \in Seq(S)
    PROVE  /\ FlattenSeq(s) \in Seq(S)
           /\ FlattenSeq(s \o <<t>>) = FlattenSeq(s) \o t
<1> DEFINE u == s \o <<t>>
<1>1. u[Len(s) + 1] = t /\ Len(u) = Len(s) + 1 /\ \A k \in 1 .. Len(s) : s[k] = u[k]
  OBVIOUS
<1> HIDE DEF u
<1>2. CASE Len(s) = 0
  <2>1. FlattenSeq(s) = <<>>
    <3>1. s = <<>> BY <1>2
    <3> QED BY <3>1, FlattenNone
  <2>2. FlattenSeq(u) = t
    <3>1. Len(u) = 1 /\ u[1] = t BY <1>1, <1>2
    <3> QED BY <3>1, FlattenOne
  <2>3. FlattenSeq(s) \in Seq(S) /\ FlattenSeq(s) \o t = t BY <2>1
  <2> QED BY <2>2, <2>3 DEF u
<1>3. CASE Len(s) # 0
  <2>1. Len(s) \in Nat \ {0} /\ Len(s) \in 1 .. Len(s) BY <1>3
  <2>2. FlattenSeq(u) = FlattenSeq(s) \o u[Len(u)]
    <3>1. Len(u) \in Nat \ {0, 1} /\ Len(s) = Len(u) - 1
          /\ \A k \in 1 .. Len(u) - 1 : s[k] = u[k]
      BY <1>1, <2>1
    <3> QED BY <3>1, FlattenStep
  <2>3. PICK f : Partial(s, Len(s), f) BY <2>1, PartialExists
  <2>4. FlattenSeq(s) = f[Len(s)] BY <2>1, <2>3, FlattenLast
  <2>5. \A k \in 1 .. Len(s) : f[k] \in Seq(S) BY <2>3, PartialType
  <2> QED BY <1>1, <2>1, <2>2, <2>4, <2>5 DEF u
<1> QED BY <1>2, <1>3

\* Joining two sequences of texts one behind the other.
LEMMA FlattenBoth ==
    ASSUME NEW S, NEW a \in Seq(Seq(S)), NEW b \in Seq(Seq(S))
    PROVE  FlattenSeq(a \o b) = FlattenSeq(a) \o FlattenSeq(b)
<1> DEFINE Joins(k) == FlattenSeq(a \o SubSeq(b, 1, k)) = FlattenSeq(a) \o FlattenSeq(SubSeq(b, 1, k))
           Bad == {k \in 0 .. Len(b) : ~Joins(k)}
<1>1. SUFFICES ASSUME Bad # {} PROVE FALSE
  <2>1. SubSeq(b, 1, Len(b)) = b /\ Len(b) \in 0 .. Len(b) BY SubSeqFull
  <2> QED BY <2>1
<1>2. PICK p \in Bad : \A q \in Bad : p <= q
  <2>1. Bad \in SUBSET Nat OBVIOUS
  <2> HIDE DEF Bad
  <2> QED BY <1>1, <2>1, LeastExists
<1>3. p \in 0 .. Len(b) /\ ~Joins(p) OBVIOUS
<1>4. FlattenSeq(a) \in Seq(S)
  <2>1. <<>> \in Seq(S) OBVIOUS
  <2> QED BY <2>1, FlattenMore
<1>5. p # 0
  <2>1. SubSeq(b, 1, 0) = <<>> BY SubSeqEmpty
  <2>2. a \o <<>> = a /\ FlattenSeq(a) \o <<>> = FlattenSeq(a) BY <1>4, ConcatEmptySeq
  <2>3. Joins(0) BY <2>1, <2>2, FlattenNone, Zenon
  <2> QED BY <2>3, <1>3, Zenon
<1>6. Joins(p - 1)
  <2>1. p - 1 \in 0 .. Len(b) /\ ~(p <= p - 1) BY <1>3, <1>5
  <2>2. p - 1 \notin Bad BY <2>1, <1>2
  <2> QED BY <2>1, <2>2
<1> DEFINE c == SubSeq(b, 1, p - 1)
           e == b[p]
<1> HIDE DEF Bad
<1>7. p \in 1 .. Len(b) /\ 1 \in 1 .. Len(b) BY <1>3, <1>5
<1>8. c \in Seq(Seq(S)) /\ e \in Seq(S) /\ <<e>> \in Seq(Seq(S)) BY <1>7
<1>9. SubSeq(b, 1, p) = c \o <<e>> BY <1>7, SubSeqRecursiveSecond
<1>10. FlattenSeq(a \o c) = FlattenSeq(a) \o FlattenSeq(c) BY <1>6
<1> HIDE DEF c, e, Joins
<1>11. a \o c \in Seq(Seq(S)) /\ a \o (c \o <<e>>) = (a \o c) \o <<e>>
  BY <1>8, ConcatAssociative, ConcatProperties
<1>12. FlattenSeq((a \o c) \o <<e>>) = FlattenSeq(a \o c) \o e BY <1>8, <1>11, FlattenMore
<1>13. FlattenSeq(c) \in Seq(S) /\ FlattenSeq(c \o <<e>>) = FlattenSeq(c) \o e
  BY <1>8, FlattenMore
<1>14. (FlattenSeq(a) \o FlattenSeq(c)) \o e = FlattenSeq(a) \o (FlattenSeq(c) \o e)
  <2>1. \A x, y, z \in Seq(S) : (x \o y) \o z = x \o (y \o z) BY ConcatAssociative
  <2> QED BY <2>1, <1>4, <1>8, <1>13, Zenon
<1>15. FlattenSeq(a \o SubSeq(b, 1, p)) = (FlattenSeq(a) \o FlattenSeq(c)) \o e
  BY <1>9, <1>10, <1>11, <1>12
<1>16. Joins(p) BY <1>9, <1>13, <1>14, <1>15, Zenon DEF Joins
<1> QED BY <1>3, <1>16

----------------------------------------------------------------------------
(* Texts. *)

\* Strings, and the characters that Printf names, which the provers do not know
\* to be strings.
Chars == STRING \cup {"0", "1", "2", "3", "4", "5", "6", "7", "8", "9", "a", "b", "c", "d", "e", "f",
                       "x", "-", "+", " ", ".", "n", "i", "NUL", "newline", "old"}

LEMMA ShortSeqs == ASSUME NEW S PROVE <<>> \in Seq(S) /\ \A c \in S : <<c>> \in Seq(S)
OBVIOUS

LEMMA MinTwo == ASSUME NEW a \in Int, NEW b \in Int
                PROVE  Min({a, b}) = IF a <= b THEN a ELSE b
BY DEF Min

LEMMA MaxTwo == ASSUME NEW a \in Int, NEW b \in Int
                PROVE  Max({a, b}) = IF a <= b THEN b ELSE a
BY DEF Max

LEMMA RepeatTyped == ASSUME NEW c \in Chars, NEW n \in Int PROVE Repeat(c, n) \in Seq(Chars)
<1> DEFINE m == Max({0, n})
<1>1. m \in Nat BY MaxTwo
<1> HIDE DEF m
<1>2. [k \in 1 .. m |-> c] \in Seq(Chars) BY <1>1
<1> QED BY <1>2, Zenon DEF Repeat, m

LEMMA ConcatTyped ==
    ASSUME NEW a \in Seq(Chars), NEW b \in Seq(Chars)
    PROVE  a \o b \in Seq(Chars) /\ Len(a) \in Nat /\ Len(a \o b) = Len(a) + Len(b)
OBVIOUS

LEMMA FrontTyped ==
    ASSUME NEW a \in Seq(Chars), NEW n \in Int, n <= Len(a)
    PROVE  SubSeq(a, 1, n) \in Seq(Chars)
OBVIOUS

LEMMA PutTyped ==
    ASSUME NEW a \in Seq(Chars), NEW b \in Seq(Chars)
    PROVE  Put(a, b) \in Seq(Chars)
<1>1. BufferSize \in Nat BY PrintfTextAssumption
<1>2. a \o b \in Seq(Chars) /\ Len(a \o b) = Len(a) + Len(b) /\ Len(a) + Len(b) \in Nat OBVIOUS
<1> DEFINE n == Min({BufferSize, Len(a) + Len(b)})
<1>3. n \in Int /\ n <= Len(a \o b) BY <1>1, <1>2, MinTwo
<1> HIDE DEF n
<1>4. SubSeq(a \o b, 1, n) \in Seq(Chars) BY <1>2, <1>3, FrontTyped
<1> QED BY <1>4 DEF Put, n

LEMMA FillTyped == ASSUME NEW a \in Seq(Chars), NEW n \in Int PROVE Fill(a, n) \in Seq(Chars)
<1>1. n - Len(a) \in Int OBVIOUS
<1>2. Repeat("0", n - Len(a)) \in Seq(Chars) BY <1>1, RepeatTyped DEF Chars
<1> QED BY <1>2, PutTyped DEF Fill

LEMMA ReverseTyped == ASSUME NEW a \in Seq(Chars) PROVE Reverse(a) \in Seq(Chars)
BY DEF Reverse

LEMMA OutRevTyped ==
    ASSUME NEW b \in Seq(Chars), NEW width \in Int, NEW flags
    PROVE  OutRev(b, width, flags) \in Seq(Chars)
<1> DEFINE pad == Repeat(" ", width - Len(b))
<1>1. width - Len(b) \in Int OBVIOUS
<1>2. pad \in Seq(Chars) BY <1>1, RepeatTyped DEF Chars
<1>3. Reverse(b) \in Seq(Chars) BY ReverseTyped
<1>4. OutRev(b, width, flags) \in {Reverse(b) \o pad, Reverse(b), pad \o Reverse(b)} BY Zenon DEF OutRev
<1> HIDE DEF pad
<1>5. Reverse(b) \o pad \in Seq(Chars) /\ pad \o Reverse(b) \in Seq(Chars) BY <1>2, <1>3, ConcatTyped
<1> QED BY <1>3, <1>4, <1>5

LEMMA SignTyped == ASSUME NEW neg, NEW flags PROVE Sign(neg, flags) \in Seq(Chars)
<1>1. <<"-">> \in Seq(Chars) /\ <<"+">> \in Seq(Chars) /\ <<" ">> \in Seq(Chars) /\ <<>> \in Seq(Chars)
  BY ShortSeqs DEF Chars
<1> QED BY <1>1, Zenon DEF Sign

----------------------------------------------------------------------------
(* Digits of a number. *)

\* f holds the digits of the numbers up to n.
DigitsUpto(n, base, f) ==
    f = [x \in 0 .. n |-> IF x < base THEN <<Digit(x)>>
                          ELSE <<Digit(x % base)>> \o f[x \div base]]

LEMMA Quotient ==
    ASSUME NEW x \in Nat, NEW b \in {2, 8, 10, 16}, ~(x < b)
    PROVE  x \div b \in 0 .. x - 1 /\ x % b \in 0 .. b - 1
OBVIOUS

LEMMA DigitsExist ==
    ASSUME NEW n \in Nat, NEW b \in {2, 8, 10, 16}
    PROVE  \E f : DigitsUpto(n, b, f)
<1> DEFINE Bad == {k \in 0 .. n : ~ \E f : DigitsUpto(k, b, f)}
<1>1. SUFFICES Bad = {}
  <2>1. n \in 0 .. n OBVIOUS
  <2> QED BY <2>1
<1>2. SUFFICES ASSUME Bad # {} PROVE FALSE OBVIOUS
<1>3. PICK p \in Bad : \A q \in Bad : p <= q
  <2>1. Bad \in SUBSET Nat OBVIOUS
  <2> HIDE DEF Bad
  <2> QED BY <1>2, <2>1, LeastExists
<1>4. p # 0
  <2>1. DigitsUpto(0, b, [x \in 0 .. 0 |-> <<Digit(x)>>]) BY DEF DigitsUpto
  <2> QED BY <2>1
<1>5. PICK f : DigitsUpto(p - 1, b, f)
  <2>1. p - 1 \in 0 .. n /\ ~(p <= p - 1) BY <1>4
  <2>2. p - 1 \notin Bad BY <2>1, <1>3
  <2> QED BY <2>1, <2>2
<1> DEFINE g == [x \in 0 .. p |-> IF x < b THEN <<Digit(x)>> ELSE <<Digit(x % b)>> \o f[x \div b]]
<1>6. p \in Nat OBVIOUS
<1>7. ASSUME NEW x \in 0 .. p - 1 PROVE g[x] = f[x]
  <2>1. x \in 0 .. p BY <1>6
  <2>2. f[x] = IF x < b THEN <<Digit(x)>> ELSE <<Digit(x % b)>> \o f[x \div b]
    BY <1>5 DEF DigitsUpto
  <2> QED BY <2>1, <2>2
<1>8. ASSUME NEW x \in 0 .. p
      PROVE  g[x] = IF x < b THEN <<Digit(x)>> ELSE <<Digit(x % b)>> \o g[x \div b]
  <2>1. CASE x < b BY <2>1
  <2>2. CASE ~(x < b)
    <3>1. x \div b \in 0 .. x - 1 BY <2>2, <1>6, Quotient
    <3>2. x \div b \in 0 .. p - 1 BY <3>1, <1>6
    <3>3. g[x \div b] = f[x \div b] BY <3>2, <1>7
    <3>4. g[x] = <<Digit(x % b)>> \o f[x \div b] BY <2>2
    <3> HIDE DEF g
    <3> QED BY <2>2, <3>3, <3>4
  <2> QED BY <2>1, <2>2
<1>9. DigitsUpto(p, b, g)
  <2>1. g = [x \in 0 .. p |-> g[x]] OBVIOUS
  <2> HIDE DEF g
  <2> QED BY <2>1, <1>8 DEF DigitsUpto
<1> QED BY <1>9, <1>3

LEMMA DigitsUnique ==
    ASSUME NEW n \in Nat, NEW m \in Nat, n <= m, NEW b \in {2, 8, 10, 16},
           NEW f, NEW g, DigitsUpto(n, b, f), DigitsUpto(m, b, g)
    PROVE  \A x \in 0 .. n : f[x] = g[x]
<1> DEFINE Bad == {x \in 0 .. n : f[x] # g[x]}
<1>1. SUFFICES ASSUME Bad # {} PROVE FALSE OBVIOUS
<1>2. PICK p \in Bad : \A q \in Bad : p <= q
  <2>1. Bad \in SUBSET Nat OBVIOUS
  <2> HIDE DEF Bad
  <2> QED BY <1>1, <2>1, LeastExists
<1>3. p \in 0 .. n /\ p \in 0 .. m /\ p \in Nat OBVIOUS
<1>4. f[p] = IF p < b THEN <<Digit(p)>> ELSE <<Digit(p % b)>> \o f[p \div b]
  BY <1>3 DEF DigitsUpto
<1>5. g[p] = IF p < b THEN <<Digit(p)>> ELSE <<Digit(p % b)>> \o g[p \div b]
  BY <1>3 DEF DigitsUpto
<1>6. ~(p < b) => f[p \div b] = g[p \div b]
  <2>1. SUFFICES ASSUME ~(p < b) PROVE f[p \div b] = g[p \div b] OBVIOUS
  <2>2. p \div b \in 0 .. p - 1 BY <2>1, <1>3, Quotient
  <2>3. p \div b \in 0 .. n /\ ~(p <= p \div b) BY <2>2, <1>3
  <2>4. p \div b \notin Bad BY <2>3, <1>2
  <2> QED BY <2>3, <2>4
<1>7. f[p] = g[p] BY <1>4, <1>5, <1>6
<1> QED BY <1>7, <1>2

LEMMA DigitTyped == ASSUME NEW v \in 0 .. 15 PROVE Digit(v) \in Chars
<1>1. \A k \in 1 .. 16 :
         <<"0", "1", "2", "3", "4", "5", "6", "7", "8", "9", "a", "b", "c", "d", "e", "f">>[k]
         \in {"0", "1", "2", "3", "4", "5", "6", "7", "8", "9", "a", "b", "c", "d", "e", "f"}
  OBVIOUS
<1>2. v + 1 \in 1 .. 16 OBVIOUS
<1>3. Digit(v) \in {"0", "1", "2", "3", "4", "5", "6", "7", "8", "9", "a", "b", "c", "d", "e", "f"}
  BY <1>1, <1>2 DEF Digit
<1> QED BY <1>3 DEF Chars

\* The digits of a number, told by the number alone.
LEMMA DigitsIs ==
    ASSUME NEW b \in {2, 8, 10, 16}, NEW v \in Nat
    PROVE  Digits(v, b) = IF v < b THEN <<Digit(v)>> ELSE <<Digit(v % b)>> \o Digits(v \div b, b)
<1> DEFINE Upto(x) == CHOOSE f : DigitsUpto(x, b, f)
           F == [x \in Nat |-> Upto(x)[x]]
           Is(f) == f = [x \in Nat |-> IF x < b THEN <<Digit(x)>> ELSE <<Digit(x % b)>> \o f[x \div b]]
           ds == CHOOSE f : Is(f)
<1>1. ASSUME NEW x \in Nat PROVE DigitsUpto(x, b, Upto(x)) BY DigitsExist, Zenon
<1> HIDE DEF Upto
<1>2. ASSUME NEW x \in Nat
      PROVE  F[x] = IF x < b THEN <<Digit(x)>> ELSE <<Digit(x % b)>> \o F[x \div b]
  <2>1. DigitsUpto(x, b, Upto(x)) /\ x \in 0 .. x BY <1>1
  <2>2. Upto(x)[x] = IF x < b THEN <<Digit(x)>> ELSE <<Digit(x % b)>> \o Upto(x)[x \div b]
    BY <2>1 DEF DigitsUpto
  <2>3. CASE x < b BY <2>2, <2>3
  <2>4. CASE ~(x < b)
    <3>1. PICK y \in Nat : y = x \div b /\ y \in 0 .. x - 1
      <4>1. x \div b \in 0 .. x - 1 BY <2>4, Quotient
      <4> QED BY <4>1
    <3>2. DigitsUpto(y, b, Upto(y)) /\ y <= x /\ y \in 0 .. y BY <3>1, <1>1
    <3>3. \A z \in 0 .. y : Upto(y)[z] = Upto(x)[z] BY <2>1, <3>2, DigitsUnique
    <3>4. Upto(y)[y] = Upto(x)[y] BY <3>2, <3>3
    <3>5. F[y] = Upto(y)[y] /\ F[x] = Upto(x)[x] OBVIOUS
    <3> HIDE DEF F
    <3> QED BY <2>2, <2>4, <3>1, <3>4, <3>5
  <2> QED BY <2>3, <2>4
<1>3. Is(F)
  <2>1. F = [x \in Nat |-> F[x]] OBVIOUS
  <2> HIDE DEF F
  <2> QED BY <2>1, <1>2
<1>4. Is(ds) BY <1>3, Zenon
<1>5. ASSUME NEW x PROVE Digits(x, b) = ds[x] BY Zenon DEF Digits
<1> HIDE DEF ds, F
<1>6. ds[v] = IF v < b THEN <<Digit(v)>> ELSE <<Digit(v % b)>> \o ds[v \div b] BY <1>4
<1> QED BY <1>5, <1>6, Zenon

LEMMA DigitsTyped ==
    ASSUME NEW v \in Nat, NEW b \in {2, 8, 10, 16}
    PROVE  Digits(v, b) \in Seq(Chars) /\ Len(Digits(v, b)) >= 1
<1> DEFINE Fine(x) == Digits(x, b) \in Seq(Chars) /\ Len(Digits(x, b)) >= 1
           Bad == {x \in Nat : ~Fine(x)}
<1>1. SUFFICES ASSUME Bad # {} PROVE FALSE OBVIOUS
<1>2. PICK p \in Bad : \A q \in Bad : p <= q
  <2>1. Bad \in SUBSET Nat OBVIOUS
  <2> HIDE DEF Bad
  <2> QED BY <1>1, <2>1, LeastExists
<1>3. p \in Nat /\ ~Fine(p) OBVIOUS
<1>4. Digits(p, b) = IF p < b THEN <<Digit(p)>> ELSE <<Digit(p % b)>> \o Digits(p \div b, b)
  BY <1>3, DigitsIs
<1>5. CASE p < b
  <2>1. p \in 0 .. 15 BY <1>3, <1>5
  <2>2. Digit(p) \in Chars BY <2>1, DigitTyped
  <2>3. <<Digit(p)>> \in Seq(Chars) /\ Len(<<Digit(p)>>) >= 1 BY <2>2
  <2> QED BY <1>3, <1>4, <1>5, <2>3
<1>6. CASE ~(p < b)
  <2>1. p \div b \in 0 .. p - 1 /\ p % b \in 0 .. b - 1 BY <1>3, <1>6, Quotient
  <2>2. PICK q \in Nat : q = p \div b /\ ~(p <= q) BY <2>1, <1>3
  <2>3. Fine(q)
    <3>1. q \notin Bad BY <2>2, <1>2
    <3> QED BY <3>1, <2>2
  <2>4. PICK c \in Chars : c = Digit(p % b)
    <3>1. p % b \in 0 .. 15 BY <2>1
    <3> QED BY <3>1, DigitTyped
  <2>5. <<c>> \in Seq(Chars) /\ Len(<<c>>) = 1 OBVIOUS
  <2>6. <<c>> \o Digits(q, b) \in Seq(Chars)
        /\ Len(<<c>> \o Digits(q, b)) = 1 + Len(Digits(q, b)) /\ Len(Digits(q, b)) \in Nat
    BY <2>3, <2>5, ConcatTyped
  <2>7. Digits(p, b) = <<c>> \o Digits(q, b) BY <1>4, <1>6, <2>2, <2>4
  <2>8. Fine(p) BY <2>6, <2>7
  <2> QED BY <2>8, <1>3
<1> QED BY <1>5, <1>6

----------------------------------------------------------------------------
(* What a directive writes is a sequence of characters. *)

LEMMA NtoaFormatTyped ==
    ASSUME NEW b \in Seq(Chars), NEW neg, NEW base, NEW dot, NEW prec \in Int,
           NEW width0 \in Int, NEW flags
    PROVE  NtoaFormat(b, neg, base, dot, prec, width0, flags) \in Seq(Chars)
<1> DEFINE width == IF "-" \in flags THEN width0 ELSE RoomForSign(width0, neg, flags)
           fill == IF "0" \in flags THEN width ELSE 0
           b1 == IF "-" \in flags THEN b ELSE Fill(Fill(b, prec), fill)
           drop == IF ~dot /\ b1 # <<>> /\ Len(b1) \in {prec, width}
                   THEN IF base = 16 THEN Min({2, Len(b1)}) ELSE 1 ELSE 0
           mark == CASE base = 16 -> <<"x">> [] base = 2 -> <<"b">> [] OTHER -> <<>>
           front == SubSeq(b1, 1, Len(b1) - drop)
           b2 == IF "#" \in flags THEN Put(Put(front, mark), <<"0">>) ELSE b1
           sign == Sign(neg, flags)
<1>1. NtoaFormat(b, neg, base, dot, prec, width0, flags) = OutRev(Put(b2, sign), width, flags)
  BY Zenon DEF NtoaFormat
<1>2. width \in Int BY DEF RoomForSign
<1>3. fill \in Int BY <1>2
<1> HIDE DEF width, fill
<1>4. b1 \in Seq(Chars) BY <1>3, FillTyped
<1> HIDE DEF b1
<1>5. front \in Seq(Chars)
  <2>1. Len(b1) \in Nat BY <1>4
  <2>2. drop \in Nat BY <2>1, MinTwo
  <2> HIDE DEF drop
  <2>3. Len(b1) - drop \in Int /\ Len(b1) - drop <= Len(b1) BY <2>1, <2>2
  <2> QED BY <2>3, <1>4, FrontTyped
<1>6. mark \in Seq(Chars) /\ <<"0">> \in Seq(Chars)
  <2>1. <<"x">> \in Seq(Chars) /\ <<"b">> \in Seq(Chars) /\ <<"0">> \in Seq(Chars)
    BY ShortSeqs DEF Chars
  <2> QED BY <2>1, ShortSeqs
<1>7. sign \in Seq(Chars) BY SignTyped
<1> HIDE DEF front, mark, sign
<1>8. b2 \in Seq(Chars) BY <1>4, <1>5, <1>6, PutTyped
<1> HIDE DEF b2
<1>9. Put(b2, sign) \in Seq(Chars) BY <1>7, <1>8, PutTyped
<1> QED BY <1>1, <1>2, <1>9, OutRevTyped

LEMMA NtoaTyped ==
    ASSUME NEW v \in Nat, NEW neg, NEW base \in {2, 8, 10, 16}, NEW dot, NEW prec \in Int,
           NEW width \in Int, NEW flags
    PROVE  Ntoa(v, neg, base, dot, prec, width, flags) \in Seq(Chars)
<1> DEFINE b == IF dot /\ v = 0 THEN <<>> ELSE Put(<<>>, Digits(v, base))
           kept == IF v = 0 THEN flags \ {"#"} ELSE flags
<1>1. b \in Seq(Chars)
  <2>1. Put(<<>>, Digits(v, base)) \in Seq(Chars) BY DigitsTyped, ShortSeqs, PutTyped
  <2> QED BY <2>1, ShortSeqs
<1>2. Ntoa(v, neg, base, dot, prec, width, flags)
      = NtoaFormat(b, neg, base, dot, prec, width, kept)
  BY Zenon DEF Ntoa
<1> HIDE DEF b, kept
<1> QED BY <1>1, <1>2, NtoaFormatTyped

LEMMA DirectiveTyped ==
    ASSUME NEW d \in Directives
    PROVE  /\ d.conv \in STRING /\ d.width \in Int /\ d.prec \in Int /\ d.n \in Int
           /\ d.frac \in Nat /\ d.s \in Seq(STRING)
           /\ d.conv = "f" => d.n \in Nat /\ d.frac < Scale(FloatPrec(d))
           /\ d.conv = "f" => d.rest \in {"zero", "below", "half", "above", "nan", "inf"}
           /\ d.flags \subseteq {"0", "-", "+", " ", "#"}
           /\ d.dot \in BOOLEAN /\ d.neg \in BOOLEAN
<1>1. d \in [conv : STRING, flags : SUBSET {"0", "-", "+", " ", "#"}, width : Int,
            dot : BOOLEAN, prec : Int, len : STRING, n : Int, neg : BOOLEAN,
            frac : Nat, rest : STRING, s : Seq(STRING)]
      /\ (d.conv = "f" => /\ d.n \in 0 .. Pow10[10] - 1 /\ d.frac < Scale(FloatPrec(d))
                          /\ d.rest \in {"zero", "below", "half", "above", "nan", "inf"})
  BY Zenon DEF Directives
<1>2. d.conv \in STRING /\ d.s \in Seq(STRING) BY <1>1, Zenon
<1>3. d.width \in Int BY <1>1
<1>4. d.prec \in Int BY <1>1
<1>5. d.n \in Int BY <1>1
<1>6. d.frac \in Nat BY <1>1
<1>7. d.conv = "f" => d.n \in Nat /\ d.frac < Scale(FloatPrec(d))
  <2>1. d.conv = "f" => d.n \in 0 .. Pow10[10] - 1 /\ d.frac < Scale(FloatPrec(d)) BY <1>1, Zenon
  <2>2. \A m, k : k \in 0 .. m => k \in Nat OBVIOUS
  <2> QED BY <2>1, <2>2, Zenon
<1>8. d.conv = "f" => d.rest \in {"zero", "below", "half", "above", "nan", "inf"} BY <1>1, Zenon
<1>9. d.flags \subseteq {"0", "-", "+", " ", "#"} /\ d.dot \in BOOLEAN /\ d.neg \in BOOLEAN
  BY <1>1, Zenon
<1> QED BY <1>2, <1>3, <1>4, <1>5, <1>6, <1>7, <1>8, <1>9

LEMMA WidthTyped ==
    ASSUME NEW d \in Directives
    PROVE  /\ WidthOf(d) \in Int /\ PrecOf(d) \in Int
           /\ WidthOf(d) >= 0 /\ PrecOf(d) >= 0
<1>1. d.width \in Int /\ d.prec \in Int BY DirectiveTyped
<1>2. WidthOf(d) \in Int /\ WidthOf(d) >= 0 BY <1>1 DEF WidthOf
<1>3. PrecOf(d) \in Int /\ PrecOf(d) >= 0
  <2>1. 0 \in Int /\ 0 >= 0 /\ \A n \in Int : n > 0 => n >= 0 OBVIOUS
  <2> QED BY <1>1, <2>1, Zenon DEF PrecOf
<1> QED BY <1>2, <1>3

LEMMA ArgumentTyped == ASSUME NEW d \in Directives PROVE Argument(d) \in Int
<1> DEFINE m == ValuesOf(d.len)
<1>1. m \in Nat \ {0} BY PrintfTextAssumption DEF ValuesOf
<1>2. Argument(d) = IF d.conv = "d" /\ d.len # "hh"
                    THEN ((d.n + m \div 2) % m) - m \div 2 ELSE d.n % m
  BY Zenon DEF Argument
<1>3. d.n \in Int BY DirectiveTyped
<1> HIDE DEF m
<1>4. d.n + m \div 2 \in Int /\ m \div 2 \in Int BY <1>1, <1>3
<1>5. \A x \in Int : x % m \in Int BY <1>1
<1> QED BY <1>2, <1>3, <1>4, <1>5

LEMMA IntTextTyped == ASSUME NEW d \in Directives PROVE IntText(d) \in Seq(Chars)
<1> DEFINE v == Argument(d)
           w == IF v < 0 THEN -v ELSE v
           neg == v < 0
<1>1. w \in Nat BY ArgumentTyped
<1>2. Base(d.conv) \in {2, 8, 10, 16} BY DEF Base
<1>3. IntText(d) = Ntoa(w, neg, Base(d.conv), d.dot, PrecOf(d), WidthOf(d), IntFlags(d))
  BY Zenon DEF IntText
<1> HIDE DEF w, neg
<1> QED BY <1>1, <1>2, <1>3, WidthTyped, NtoaTyped

LEMMA PointerTextTyped == ASSUME NEW d \in Directives PROVE PointerText(d) \in Seq(Chars)
<1> DEFINE v == d.n % LongValues
           flags == FlagsOf(d) \cup {"0"}
<1>1. LongValues \in Nat \ {0} /\ PointerDigits \in Int
  <2>1. LongValues \in Nat \ {0} BY PrintfTextAssumption, Zenon
  <2>2. PointerDigits \in Int BY PrintfTextAssumption
  <2> QED BY <2>1, <2>2
<1>2. v \in Nat
  <2>1. d.n \in Int BY DirectiveTyped
  <2>2. \A m \in Nat \ {0} : \A x \in Int : x % m \in Nat OBVIOUS
  <2> QED BY <1>1, <2>1, <2>2
<1>3. PointerText(d) = Ntoa(v, FALSE, 16, d.dot, PrecOf(d), PointerDigits, flags)
  BY Zenon DEF PointerText
<1> HIDE DEF v, flags
<1> QED BY <1>1, <1>2, <1>3, WidthTyped, NtoaTyped

LEMMA FiniteTextTyped ==
    ASSUME NEW d \in Directives, d.conv = "f"
    PROVE  FiniteText(d) \in Seq(Chars)
<1> DEFINE prec  == FloatPrec(d)
           p     == Min({prec, 9})
           roll  == d.rest = "above" /\ d.frac + 1 >= Scale(prec)
           up    == d.rest = "above" \/ (d.rest = "half" /\ (d.frac = 0 \/ d.frac % 2 = 1))
           frac  == IF roll THEN 0 ELSE IF up THEN d.frac + 1 ELSE d.frac
           odd   == roll \/ (p = 0 /\ d.rest = "half" /\ d.n % 2 = 1)
           whole == IF odd THEN d.n + 1 ELSE d.n
           ds    == Digits(frac, 10)
           b1    == Put(<<>>, Repeat("0", prec - p) \o ds)
           b2    == IF Len(ds) > p THEN Fill(b1, BufferSize) ELSE Fill(b1, prec)
           b3    == IF p = 0 THEN <<>> ELSE Put(b2, <<".">>)
           b4    == Put(b3, Digits(whole, 10))
           flags == FlagsOf(d)
           room  == RoomForSign(WidthOf(d), Negative(d), flags)
           b5    == IF "0" \in flags /\ "-" \notin flags THEN Fill(b4, room) ELSE b4
           sign  == Sign(Negative(d), flags)
<1>1. FiniteText(d) = OutRev(Put(b5, sign), WidthOf(d), flags) BY Zenon DEF FiniteText
<1>2. d.frac \in Nat /\ d.n \in Nat /\ BufferSize \in Int
  <2>1. d.frac \in Nat /\ d.n \in Nat BY DirectiveTyped, Zenon
  <2>2. BufferSize \in Int BY PrintfTextAssumption
  <2> QED BY <2>1, <2>2
<1>3. prec \in Int
  <2>1. 6 \in Int OBVIOUS
  <2> QED BY <2>1, WidthTyped, Zenon DEF FloatPrec
<1> HIDE DEF prec
<1>4. p \in Int
  <2>1. 9 \in Int OBVIOUS
  <2> QED BY <2>1, <1>3, MinTwo
<1> HIDE DEF p, roll, up, odd
<1>5. frac \in Nat
  <2>1. d.frac + 1 \in Nat /\ 0 \in Nat BY <1>2
  <2> QED BY <1>2, <2>1, Zenon
<1>6. whole \in Nat
  <2>1. d.n + 1 \in Nat BY <1>2
  <2> QED BY <1>2, <2>1, Zenon
<1>7. room \in Int
  <2>1. \A w \in Int : w - 1 \in Int OBVIOUS
  <2> QED BY <2>1, WidthTyped, Zenon DEF RoomForSign
<1> HIDE DEF frac, whole, room, flags
<1>8. ds \in Seq(Chars) /\ Digits(whole, 10) \in Seq(Chars) BY <1>5, <1>6, DigitsTyped
<1> HIDE DEF ds
<1>9. "0" \in Chars /\ "." \in Chars BY DEF Chars
<1>10. b1 \in Seq(Chars)
  <2>1. prec - p \in Int BY <1>3, <1>4
  <2>2. Repeat("0", prec - p) \in Seq(Chars) BY <2>1, <1>9, RepeatTyped
  <2>3. Repeat("0", prec - p) \o ds \in Seq(Chars) BY <2>2, <1>8, ConcatTyped
  <2> QED BY <2>3, ShortSeqs, PutTyped
<1> HIDE DEF b1
<1>11. b2 \in Seq(Chars) BY <1>2, <1>3, <1>10, FillTyped
<1> HIDE DEF b2
<1>12. b3 \in Seq(Chars)
  <2>1. <<".">> \in Seq(Chars) BY <1>9, ShortSeqs
  <2>2. Put(b2, <<".">>) \in Seq(Chars) BY <2>1, <1>11, PutTyped
  <2> QED BY <2>2, ShortSeqs
<1> HIDE DEF b3
<1>13. b4 \in Seq(Chars) BY <1>8, <1>12, PutTyped
<1> HIDE DEF b4
<1>14. b5 \in Seq(Chars) BY <1>7, <1>13, FillTyped
<1>15. sign \in Seq(Chars) BY SignTyped
<1> HIDE DEF b5, sign
<1>16. Put(b5, sign) \in Seq(Chars) BY <1>14, <1>15, PutTyped
<1> QED BY <1>1, <1>16, WidthTyped, OutRevTyped

LEMMA FloatTextTyped ==
    ASSUME NEW d \in Directives, d.conv = "f"
    PROVE  FloatText(d) \in Seq(Chars)
<1> DEFINE nan  == <<"n", "a", "n">>
           inf  == <<"f", "n", "i">>
           sign == IF d.neg THEN <<"-">> ELSE IF "+" \in d.flags THEN <<"+">> ELSE <<>>
<1>1. nan \in Seq(Chars) /\ inf \in Seq(Chars) BY DEF Chars
<1>2. sign \in Seq(Chars)
  <2>1. <<"-">> \in Seq(Chars) /\ <<"+">> \in Seq(Chars) BY ShortSeqs DEF Chars
  <2> QED BY <2>1, ShortSeqs
<1>3. FloatText(d) = CASE d.rest = "nan" -> OutRev(nan, WidthOf(d), FlagsOf(d))
                       [] d.rest = "inf" -> OutRev(inf \o sign, WidthOf(d), FlagsOf(d))
                       [] OTHER -> FiniteText(d)
  BY Zenon DEF FloatText
<1> HIDE DEF nan, inf, sign
<1>4. inf \o sign \in Seq(Chars) BY <1>1, <1>2, ConcatTyped
<1>5. CASE d.rest = "nan"
  <2>1. FloatText(d) = OutRev(nan, WidthOf(d), FlagsOf(d)) BY <1>3, <1>5
  <2> QED BY <2>1, <1>1, WidthTyped, OutRevTyped
<1>6. CASE d.rest = "inf"
  <2>1. FloatText(d) = OutRev(inf \o sign, WidthOf(d), FlagsOf(d)) BY <1>3, <1>6
  <2> QED BY <2>1, <1>4, WidthTyped, OutRevTyped
<1>7. CASE d.rest # "nan" /\ d.rest # "inf"
  <2>1. FloatText(d) = FiniteText(d) BY <1>3, <1>7
  <2> QED BY <2>1, FiniteTextTyped
<1> QED BY <1>5, <1>6, <1>7

LEMMA PaddedTextTyped ==
    ASSUME NEW d \in Directives, NEW text \in Seq(Chars)
    PROVE  PaddedText(text, d) \in Seq(Chars)
<1> DEFINE pad == Repeat(" ", WidthOf(d) - Len(text))
<1>1. WidthOf(d) - Len(text) \in Int
  <2>1. Len(text) \in Nat OBVIOUS
  <2> QED BY <2>1, WidthTyped
<1>2. pad \in Seq(Chars)
  <2>1. " " \in Chars BY DEF Chars
  <2> QED BY <2>1, <1>1, RepeatTyped
<1>3. PaddedText(text, d) = IF "-" \in FlagsOf(d) THEN text \o pad ELSE pad \o text
  BY Zenon DEF PaddedText
<1> HIDE DEF pad
<1>4. text \o pad \in Seq(Chars) /\ pad \o text \in Seq(Chars) BY <1>2, ConcatTyped
<1> QED BY <1>3, <1>4

LEMMA TextTyped == ASSUME NEW d \in Directives PROVE Text(d) \in Seq(Chars)
<1>1. d.conv \in Chars /\ d.s \in Seq(Chars)
  <2>1. STRING \subseteq Chars BY DEF Chars
  <2>2. d.conv \in STRING /\ d.s \in Seq(STRING) BY DirectiveTyped
  <2> QED BY <2>1, <2>2, SeqMonotonic
<1>2. CASE d.conv \in {"d", "u", "x", "o", "b"}
  <2>1. Text(d) = IntText(d) BY <1>2 DEF Text
  <2> QED BY <2>1, IntTextTyped
<1>3. CASE d.conv = "f"
  <2>1. Text(d) = FloatText(d) BY <1>3 DEF Text
  <2> QED BY <2>1, <1>3, FloatTextTyped
<1>4. CASE d.conv = "p"
  <2>1. Text(d) = PointerText(d) BY <1>4 DEF Text
  <2> QED BY <2>1, PointerTextTyped
<1>5. CASE d.conv = "s"
  <2> DEFINE n == Min({PrecOf(d), Len(d.s)})
             shown == IF d.dot THEN SubSeq(d.s, 1, n) ELSE d.s
  <2>1. Text(d) = StringText(d) BY <1>5 DEF Text
  <2>2. StringText(d) = PaddedText(shown, d) BY Zenon DEF StringText
  <2>3. n \in Int /\ n <= Len(d.s)
    <3>1. Len(d.s) \in Int BY <1>1
    <3> QED BY <3>1, WidthTyped, MinTwo
  <2> HIDE DEF n
  <2>4. shown \in Seq(Chars) BY <1>1, <2>3, FrontTyped
  <2> HIDE DEF shown
  <2> QED BY <2>1, <2>2, <2>4, PaddedTextTyped
<1>6. CASE d.conv = "c"
  <2>1. Text(d) = PaddedText(d.s, d) BY <1>6 DEF Text
  <2> QED BY <2>1, <1>1, PaddedTextTyped
<1>7. CASE d.conv = "lit"
  <2>1. Text(d) = d.s BY <1>7 DEF Text
  <2> QED BY <2>1, <1>1
<1>8. CASE d.conv \notin {"d", "u", "x", "o", "b", "f", "p", "s", "c", "lit"}
  <2>1. Text(d) = <<d.conv>> BY <1>8 DEF Text
  <2> QED BY <2>1, <1>1, ShortSeqs
<1> QED BY <1>2, <1>3, <1>4, <1>5, <1>6, <1>7, <1>8

----------------------------------------------------------------------------
(* What the operators on texts do, as equations. *)

LEMMA RepeatIs ==
    ASSUME NEW c \in Chars, NEW n \in Int
    PROVE  /\ Repeat(c, n) \in Seq(Chars)
           /\ Len(Repeat(c, n)) = IF n <= 0 THEN 0 ELSE n
           /\ \A k \in 1 .. Len(Repeat(c, n)) : Repeat(c, n)[k] = c
           /\ n <= 0 => Repeat(c, n) = <<>>
<1> DEFINE m == Max({0, n})
<1>1. m = IF n <= 0 THEN 0 ELSE n BY MaxTwo
<1>2. Repeat(c, n) = [k \in 1 .. m |-> c] BY DEF Repeat
<1> HIDE DEF m
<1> QED BY <1>1, <1>2

LEMMA SameTexts ==
    ASSUME NEW a \in Seq(Chars), NEW b \in Seq(Chars), Len(a) = Len(b),
           \A k \in 1 .. Len(a) : a[k] = b[k]
    PROVE  a = b
BY SeqEqual

LEMMA ConcatIs ==
    ASSUME NEW a \in Seq(Chars), NEW b \in Seq(Chars)
    PROVE  /\ a \o b \in Seq(Chars) /\ Len(a \o b) = Len(a) + Len(b)
           /\ \A k \in 1 .. Len(a) + Len(b) :
                 (a \o b)[k] = IF k <= Len(a) THEN a[k] ELSE b[k - Len(a)]
OBVIOUS

LEMMA EmptyText == <<>> \in Seq(Chars) /\ \A a \in Seq(Chars) : a \o <<>> = a /\ <<>> \o a = a
BY ConcatEmptySeq

LEMMA Rejoin ==
    ASSUME NEW a \in Seq(Chars), NEW b \in Seq(Chars), NEW c \in Seq(Chars)
    PROVE  (a \o b) \o c = a \o (b \o c)
BY ConcatAssociative

LEMMA RepeatMore ==
    ASSUME NEW c \in Chars, NEW m \in Nat, NEW n \in Nat
    PROVE  Repeat(c, m) \o Repeat(c, n) = Repeat(c, m + n)
<1> DEFINE a == Repeat(c, m)
           b == Repeat(c, n)
           e == Repeat(c, m + n)
<1>1. a \in Seq(Chars) /\ Len(a) = m /\ \A k \in 1 .. m : a[k] = c BY RepeatIs
<1>2. b \in Seq(Chars) /\ Len(b) = n /\ \A k \in 1 .. n : b[k] = c BY RepeatIs
<1>3. e \in Seq(Chars) /\ Len(e) = m + n /\ \A k \in 1 .. m + n : e[k] = c
  <2>1. m + n \in Int /\ (m + n <= 0 => m + n = 0) OBVIOUS
  <2> QED BY <2>1, RepeatIs
<1> HIDE DEF a, b, e
<1>4. a \o b \in Seq(Chars) /\ Len(a \o b) = m + n BY <1>1, <1>2, ConcatIs
<1>5. ASSUME NEW k \in 1 .. m + n PROVE (a \o b)[k] = e[k]
  <2>1. (a \o b)[k] = IF k <= m THEN a[k] ELSE b[k - m] BY <1>1, <1>2, ConcatIs
  <2>2. k <= m => k \in 1 .. m OBVIOUS
  <2>3. ~(k <= m) => k - m \in 1 .. n OBVIOUS
  <2> QED BY <2>1, <2>2, <2>3, <1>1, <1>2, <1>3
<1> QED BY <1>3, <1>4, <1>5, SameTexts DEF a, b, e

LEMMA ReverseIs ==
    ASSUME NEW a \in Seq(Chars)
    PROVE  /\ Reverse(a) \in Seq(Chars) /\ Len(Reverse(a)) = Len(a)
           /\ \A k \in 1 .. Len(a) : Reverse(a)[k] = a[Len(a) - k + 1]
BY DEF Reverse

LEMMA ReverseBoth ==
    ASSUME NEW a \in Seq(Chars), NEW b \in Seq(Chars)
    PROVE  Reverse(a \o b) = Reverse(b) \o Reverse(a)
<1> DEFINE e == a \o b
           r == Reverse(a)
           s == Reverse(b)
<1>1. PICK m \in Nat, n \in Nat : m = Len(a) /\ n = Len(b) OBVIOUS
<1>2. e \in Seq(Chars) /\ Len(e) = m + n
      /\ \A k \in 1 .. m + n : e[k] = IF k <= m THEN a[k] ELSE b[k - m]
  BY <1>1, ConcatIs
<1>3. r \in Seq(Chars) /\ Len(r) = m /\ \A k \in 1 .. m : r[k] = a[m - k + 1] BY <1>1, ReverseIs
<1>4. s \in Seq(Chars) /\ Len(s) = n /\ \A k \in 1 .. n : s[k] = b[n - k + 1] BY <1>1, ReverseIs
<1> HIDE DEF e, r, s
<1>5. Reverse(e) \in Seq(Chars) /\ Len(Reverse(e)) = m + n
      /\ \A k \in 1 .. m + n : Reverse(e)[k] = e[m + n - k + 1]
  <2>1. /\ Reverse(e) \in Seq(Chars) /\ Len(Reverse(e)) = Len(e)
        /\ \A k \in 1 .. Len(e) : Reverse(e)[k] = e[Len(e) - k + 1]
    BY <1>2, ReverseIs, Zenon
  <2>2. Len(e) = m + n BY <1>2, Zenon
  <2>3. ASSUME NEW l, l = m + n, Len(e) = l
        PROVE  \A k \in 1 .. l : Reverse(e)[k] = e[l - k + 1]
    BY <2>1, <2>3, Zenon
  <2> QED BY <2>1, <2>2, <2>3
<1>6. s \o r \in Seq(Chars) /\ Len(s \o r) = m + n
      /\ \A k \in 1 .. m + n : (s \o r)[k] = IF k <= n THEN s[k] ELSE r[k - n]
  <2>1. s \o r \in Seq(Chars) /\ Len(s \o r) = n + m
        /\ \A k \in 1 .. n + m : (s \o r)[k] = IF k <= n THEN s[k] ELSE r[k - n]
    BY <1>3, <1>4, ConcatIs
  <2>2. n + m = m + n OBVIOUS
  <2> QED BY <2>1, <2>2
<1>7. ASSUME NEW k \in 1 .. m + n PROVE Reverse(e)[k] = (s \o r)[k]
  <2>1. PICK j \in 1 .. m + n : j = m + n - k + 1 OBVIOUS
  <2>2. Reverse(e)[k] = e[j] BY <1>5, <2>1
  <2>3. e[j] = IF j <= m THEN a[j] ELSE b[j - m] BY <1>2
  <2>4. CASE k <= n
    <3>1. ~(j <= m) /\ j - m = n - k + 1 /\ k \in 1 .. n BY <2>1, <2>4
    <3> QED BY <3>1, <2>2, <2>3, <1>4, <1>6
  <2>5. CASE ~(k <= n)
    <3>1. PICK i \in 1 .. m : i = k - n /\ j <= m /\ j = m - i + 1 BY <2>1, <2>5
    <3>2. (s \o r)[k] = r[i] BY <3>1, <2>5, <1>6
    <3>3. r[i] = a[j] BY <3>1, <1>3
    <3> QED BY <3>1, <3>2, <3>3, <2>2, <2>3
  <2> QED BY <2>4, <2>5
<1>8. Reverse(e) = s \o r BY <1>5, <1>6, <1>7, SameTexts
<1> QED BY <1>8 DEF e, r, s

LEMMA ReverseShort ==
    /\ Reverse(<<>>) = <<>>
    /\ \A c \in Chars : Reverse(<<c>>) = <<c>>
<1>1. Reverse(<<>>) = <<>> BY DEF Reverse
<1>2. ASSUME NEW c \in Chars PROVE Reverse(<<c>>) = <<c>>
  <2>1. <<c>> \in Seq(Chars) /\ Len(<<c>>) = 1 OBVIOUS
  <2> DEFINE a == <<c>>
  <2>2. Reverse(a) \in Seq(Chars) /\ Len(Reverse(a)) = 1 /\ Reverse(a)[1] = a[1]
    <3>1. \A k \in 1 .. 1 : Reverse(a)[k] = a[1 - k + 1] BY <2>1, ReverseIs
    <3>2. 1 \in 1 .. 1 /\ 1 - 1 + 1 = 1 OBVIOUS
    <3>3. Reverse(a)[1] = a[1] BY <3>1, <3>2
    <3> QED BY <2>1, <3>3, ReverseIs
  <2> HIDE DEF a
  <2>3. \A k \in 1 .. 1 : Reverse(a)[k] = a[k] BY <2>2
  <2> QED BY <2>1, <2>2, <2>3, SameTexts DEF a
<1> QED BY <1>1, <1>2

LEMMA ReverseRepeat ==
    ASSUME NEW c \in Chars, NEW n \in Int
    PROVE  Reverse(Repeat(c, n)) = Repeat(c, n)
<1> DEFINE a == Repeat(c, n)
<1>1. PICK m \in Nat : m = Len(a)
  <2>1. a \in Seq(Chars) BY RepeatIs
  <2> HIDE DEF a
  <2> QED BY <2>1
<1>2. a \in Seq(Chars) /\ \A k \in 1 .. m : a[k] = c BY <1>1, RepeatIs
<1> HIDE DEF a
<1>3. Reverse(a) \in Seq(Chars) /\ Len(Reverse(a)) = m
      /\ \A k \in 1 .. m : Reverse(a)[k] = a[m - k + 1]
  BY <1>1, <1>2, ReverseIs
<1>4. ASSUME NEW k \in 1 .. m PROVE Reverse(a)[k] = a[k]
  <2>1. m - k + 1 \in 1 .. m OBVIOUS
  <2> QED BY <2>1, <1>2, <1>3
<1> QED BY <1>1, <1>2, <1>3, <1>4, SameTexts DEF a

\* A buffer that has room for a text takes all of it.
LEMMA PutAll ==
    ASSUME NEW a \in Seq(Chars), NEW b \in Seq(Chars), Len(a) + Len(b) <= BufferSize
    PROVE  Put(a, b) = a \o b
<1>1. BufferSize \in Nat BY PrintfTextAssumption
<1>2. a \o b \in Seq(Chars) /\ Len(a \o b) = Len(a) + Len(b) /\ Len(a) + Len(b) \in Nat
  BY ConcatIs
<1>3. Min({BufferSize, Len(a) + Len(b)}) = Len(a \o b) BY <1>1, <1>2, MinTwo
<1>4. SubSeq(a \o b, 1, Len(a \o b)) = a \o b BY <1>2, SubSeqFull
<1> QED BY <1>3, <1>4 DEF Put

LEMMA FillAll ==
    ASSUME NEW a \in Seq(Chars), NEW n \in Int, Len(a) <= BufferSize, n <= BufferSize
    PROVE  Fill(a, n) = a \o Repeat("0", n - Len(a))
<1>1. PICK m \in Nat : m = Len(a) OBVIOUS
<1>2. "0" \in Chars /\ n - m \in Int
  <2>1. "0" \in Chars BY DEF Chars
  <2> QED BY <2>1
<1>3. Repeat("0", n - m) \in Seq(Chars)
      /\ Len(Repeat("0", n - m)) = IF n - m <= 0 THEN 0 ELSE n - m
  BY <1>2, RepeatIs
<1>4. m + Len(Repeat("0", n - m)) <= BufferSize
  <2>1. BufferSize \in Nat BY PrintfTextAssumption
  <2> QED BY <2>1, <1>1, <1>3
<1>5. Put(a, Repeat("0", n - m)) = a \o Repeat("0", n - m) BY <1>1, <1>3, <1>4, PutAll
<1> QED BY <1>1, <1>5 DEF Fill

\* Taking back the last characters of a text.
LEMMA FrontIs ==
    ASSUME NEW a \in Seq(Chars), NEW b \in Seq(Chars)
    PROVE  SubSeq(a \o b, 1, Len(a)) = a
<1>1. 1 \in 1 .. Len(a) + 1 /\ Len(a) \in 1 - 1 .. Len(a) OBVIOUS
<1>2. SubSeq(a \o b, 1, Len(a)) = SubSeq(a, 1, Len(a)) BY <1>1, SubSeqOfConcat1
<1> QED BY <1>2, SubSeqFull

\* What is left to do once a number stands in the buffer: zeros to the width, the
\* sign, and the buffer turned round with its spaces.
Padded(core, neg, w, width, flags) ==
    OutRev(Put(IF "0" \in flags /\ "-" \notin flags THEN Fill(core, RoomForSign(width, neg, flags))
               ELSE core, Sign(neg, flags)), w, flags)

LEMMA SignIs ==
    ASSUME NEW neg, NEW flags
    PROVE  /\ Sign(neg, flags) \in Seq(Chars)
           /\ Reverse(Sign(neg, flags)) = Sign(neg, flags)
           /\ Len(Sign(neg, flags)) = IF neg \/ flags \cap {"+", " "} # {} THEN 1 ELSE 0
<1>1. Sign(neg, flags) \in Seq(Chars) BY SignTyped
<1>2. "-" \in Chars /\ "+" \in Chars /\ " " \in Chars BY DEF Chars
<1>3. CASE neg \/ flags \cap {"+", " "} # {}
  <2>1. PICK c \in Chars : Sign(neg, flags) = <<c>> BY <1>2, <1>3, Zenon DEF Sign
  <2>2. Len(<<c>>) = 1 /\ Reverse(<<c>>) = <<c>> BY ReverseShort
  <2> QED BY <1>1, <1>3, <2>1, <2>2, Zenon
<1>4. CASE ~(neg \/ flags \cap {"+", " "} # {})
  <2>1. Sign(neg, flags) = <<>> BY <1>4, Zenon DEF Sign
  <2>2. Len(Sign(neg, flags)) = 0 BY <2>1
  <2>3. Reverse(Sign(neg, flags)) = Sign(neg, flags) BY <2>1, ReverseShort
  <2> QED BY <1>1, <1>4, <2>2, <2>3, Zenon
<1> QED BY <1>3, <1>4, Zenon

LEMMA OutRevIs ==
    ASSUME NEW b, NEW width, NEW flags
    PROVE  /\ "-" \in flags => OutRev(b, width, flags) = Reverse(b) \o Repeat(" ", width - Len(b))
           /\ "-" \notin flags /\ "0" \in flags => OutRev(b, width, flags) = Reverse(b)
           /\ "-" \notin flags /\ "0" \notin flags
              => OutRev(b, width, flags) = Repeat(" ", width - Len(b)) \o Reverse(b)
BY Zenon DEF OutRev

Laid(sign, digits, pad, flags) ==
    IF "-" \in flags THEN sign \o digits \o Repeat(" ", pad)
    ELSE IF "0" \in flags THEN sign \o Repeat("0", pad) \o digits
    ELSE Repeat(" ", pad) \o sign \o digits

LEMMA PaddedIs ==
    ASSUME NEW core \in Seq(Chars), NEW neg, NEW flags, NEW width \in Nat, NEW w,
           "0" \in flags /\ "-" \notin flags => width <= BufferSize,
           ~("0" \in flags /\ "-" \notin flags) => w = width,
           Len(Sign(neg, flags)) + Len(core) <= BufferSize
    PROVE  Padded(core, neg, w, width, flags)
           = Laid(Sign(neg, flags), Reverse(core), width - (Len(Sign(neg, flags)) + Len(core)), flags)
<1> DEFINE sign == Sign(neg, flags)
           room == RoomForSign(width, neg, flags)
<1>1. sign \in Seq(Chars) /\ Reverse(sign) = sign BY SignIs
<1>2. PICK n \in Nat, m \in {0, 1} : n = Len(core) /\ m = Len(sign)
      /\ m = IF neg \/ flags \cap {"+", " "} # {} THEN 1 ELSE 0
  <2>1. Len(sign) = IF neg \/ flags \cap {"+", " "} # {} THEN 1 ELSE 0 BY SignIs
  <2>2. Len(sign) \in {0, 1} BY <2>1, Zenon
  <2>3. Len(core) \in Nat OBVIOUS
  <2> QED BY <2>1, <2>2, <2>3, Zenon
<1>3. PICK size \in Nat : size = m + n /\ m + n <= BufferSize /\ size = Len(sign) + Len(core)
  <2>1. Len(sign) + Len(core) <= BufferSize OBVIOUS
  <2>2. m + n <= BufferSize BY <2>1, <1>2
  <2>3. m + n = Len(sign) + Len(core) BY <1>2
  <2> QED BY <2>2, <2>3
<1>4. BufferSize \in Nat BY PrintfTextAssumption
<1>5. Reverse(core) \in Seq(Chars) /\ Len(Reverse(core)) = n BY <1>2, ReverseIs
<1>6. "0" \in Chars /\ " " \in Chars BY DEF Chars
<1> HIDE DEF sign
<1>7. CASE ~("0" \in flags /\ "-" \notin flags)
  <2>1. Put(core, sign) = core \o sign
    <3>1. Len(core) + Len(sign) <= BufferSize
      <4>1. n + m <= BufferSize BY <1>3, <1>4
      <4> QED BY <4>1, <1>2
    <3> QED BY <3>1, <1>1, PutAll
  <2>2. Reverse(core \o sign) = sign \o Reverse(core) BY <1>1, ReverseBoth
  <2>3. Len(core \o sign) = size /\ w = width
    <3>1. Len(core \o sign) = Len(core) + Len(sign) BY <1>1, ConcatIs
    <3>2. n + m = m + n OBVIOUS
    <3> QED BY <3>1, <3>2, <1>2, <1>3, <1>7, Zenon
  <2>4. Padded(core, neg, w, width, flags) = OutRev(core \o sign, width, flags)
    BY <1>7, <2>1, <2>3, Zenon DEF Padded, sign
  <2>5. CASE "-" \in flags
    <3>1. OutRev(core \o sign, width, flags) = (sign \o Reverse(core)) \o Repeat(" ", width - size)
      BY <2>2, <2>3, <2>5, OutRevIs
    <3> QED BY <2>4, <2>5, <3>1, <1>3, Zenon DEF sign, Laid
  <2>6. CASE "-" \notin flags
    <3>1. OutRev(core \o sign, width, flags) = Repeat(" ", width - size) \o (sign \o Reverse(core))
      BY <2>2, <2>3, <2>6, <1>7, OutRevIs, Zenon
    <3>2. Repeat(" ", width - size) \in Seq(Chars)
      <4>1. width - size \in Int BY <1>3
      <4> QED BY <4>1, <1>6, RepeatIs
    <3>3. Repeat(" ", width - size) \o (sign \o Reverse(core))
          = (Repeat(" ", width - size) \o sign) \o Reverse(core)
      BY <3>2, <1>1, <1>5, Rejoin, Zenon
    <3> QED BY <2>4, <2>6, <1>7, <3>1, <3>3, <1>3, Zenon DEF sign, Laid
  <2> QED BY <2>5, <2>6
<1>8. CASE "0" \in flags /\ "-" \notin flags
  <2> DEFINE zeros == Repeat("0", room - n)
             full == core \o zeros
  <2>1. width <= BufferSize BY <1>8
  <2>2. room \in Int /\ room = IF width > 0 /\ m = 1 THEN width - 1 ELSE width
    <3>1. 1 # 0 OBVIOUS
    <3>2. m = 1 <=> (neg \/ flags \cap {"+", " "} # {}) BY <3>1, <1>2, Zenon
    <3>3. RoomForSign(width, neg, flags) = IF width > 0 /\ m = 1 THEN width - 1 ELSE width
      BY <3>2, <1>8, Zenon DEF RoomForSign
    <3> QED BY <3>3
  <2>3. room <= BufferSize BY <2>1, <2>2, <1>4
  <2> HIDE DEF room
  <2>4. room - n \in Int BY <2>2
  <2>5. zeros \in Seq(Chars) /\ Len(zeros) = IF room - n <= 0 THEN 0 ELSE room - n
    BY <2>4, <1>6, RepeatIs
  <2>6. zeros = Repeat("0", width - size)
    <3>1. CASE room - n = width - size BY <3>1
    <3>2. CASE room - n # width - size
      <4>1. room - n <= 0 /\ width - size <= 0 /\ width - size \in Int BY <3>2, <2>2, <1>3
      <4> QED BY <4>1, <2>4, <1>6, RepeatIs
    <3> QED BY <3>1, <3>2
  <2>7. Fill(core, room) = full
    <3>1. n <= BufferSize BY <1>3, <1>4
    <3> QED BY <3>1, <2>2, <2>3, <1>2, FillAll
  <2>8. Reverse(full) = zeros \o Reverse(core)
    <3>1. Reverse(zeros) = zeros BY <2>4, <1>6, ReverseRepeat
    <3> HIDE DEF zeros
    <3> QED BY <3>1, <2>5, ReverseBoth
  <2>9. full \in Seq(Chars) /\ Len(full) + m <= BufferSize
    <3> HIDE DEF zeros
    <3>1. full \in Seq(Chars) /\ Len(full) = n + Len(zeros) BY <2>5, <1>2, ConcatIs
    <3>2. n + Len(zeros) + m <= BufferSize BY <2>1, <2>2, <2>5, <1>3, <1>4
    <3> QED BY <3>1, <3>2
  <2> HIDE DEF full
  <2>10. Put(full, sign) = full \o sign BY <2>9, <1>1, <1>2, PutAll
  <2>11. Reverse(full \o sign) = sign \o Reverse(full) BY <2>9, <1>1, ReverseBoth
  <2>12. Padded(core, neg, w, width, flags) = Reverse(full \o sign)
    <3>1. Padded(core, neg, w, width, flags) = OutRev(full \o sign, w, flags)
      BY <1>8, <2>7, <2>10, Zenon DEF Padded, sign, room
    <3> QED BY <3>1, <1>8, OutRevIs
  <2>13. sign \o (zeros \o Reverse(core)) = (sign \o zeros) \o Reverse(core)
    <3> HIDE DEF zeros
    <3> QED BY <2>5, <1>1, <1>5, Rejoin
  <2>14. Padded(core, neg, w, width, flags) = (sign \o zeros) \o Reverse(core)
    BY <2>8, <2>11, <2>12, <2>13, Zenon
  <2> HIDE DEF zeros
  <2> QED BY <2>6, <2>14, <1>8, <1>3, Zenon DEF sign, Laid
<1> QED BY <1>7, <1>8

LEMMA PowersOfTen ==
    /\ \A k \in 1 .. 10 : Pow10[k] \in Nat \ {0}
    /\ \A k \in 1 .. 9 : Pow10[k + 1] = 10 * Pow10[k]
    /\ Pow10[1] = 1
BY DEF Pow10

\* A number below a power of ten has no more digits than the power.
LEMMA DigitsShort ==
    ASSUME NEW p \in 1 .. 9, NEW v \in Nat, v < Pow10[p + 1]
    PROVE  Len(Digits(v, 10)) <= p
<1> DEFINE Short(q) == \A x \in Nat : x < Pow10[q + 1] => Len(Digits(x, 10)) <= q
           Bad == {q \in 1 .. 9 : ~Short(q)}
<1>1. SUFFICES ASSUME Bad # {} PROVE FALSE OBVIOUS
<1>2. PICK q \in Bad : \A r \in Bad : q <= r
  <2>1. Bad \in SUBSET Nat OBVIOUS
  <2> HIDE DEF Bad
  <2> QED BY <1>1, <2>1, LeastExists
<1>3. q \in 1 .. 9 /\ ~Short(q) OBVIOUS
<1>4. PICK x \in Nat : x < Pow10[q + 1] /\ ~(Len(Digits(x, 10)) <= q) BY <1>3
<1>5. Digits(x, 10) = IF x < 10 THEN <<Digit(x)>> ELSE <<Digit(x % 10)>> \o Digits(x \div 10, 10)
  BY DigitsIs
<1>6. ~(x < 10)
  <2>1. x < 10 => Len(Digits(x, 10)) = 1 BY <1>5
  <2>2. q \in 1 .. 9 => 1 <= q OBVIOUS
  <2>3. 1 <= q BY <2>2, <1>3, Zenon
  <2> QED BY <2>1, <2>3, <1>4
<1>7. PICK y \in Nat : y = x \div 10 /\ 10 * y <= x OBVIOUS
<1>8. PICK g \in Nat, h \in Nat : g = Pow10[q] /\ h = Pow10[q + 1] /\ h = 10 * g
  <2>1. q \in 1 .. 10 /\ q + 1 \in 1 .. 10 BY <1>3
  <2>2. Pow10[q] \in Nat /\ Pow10[q + 1] \in Nat BY <2>1, PowersOfTen
  <2> QED BY <2>2, <1>3, PowersOfTen
<1>9. y < g BY <1>4, <1>7, <1>8
<1>10. q # 1
  <2>1. q = 1 => g = 1 BY <1>8, PowersOfTen
  <2> QED BY <2>1, <1>6, <1>7, <1>9
<1>11. PICK r \in 1 .. 9 : r = q - 1 BY <1>3, <1>10
<1>12. Short(r)
  <2>1. ~(q <= r) BY <1>3, <1>11
  <2>2. r \notin Bad BY <2>1, <1>2
  <2> QED BY <2>2
<1>13. Len(Digits(y, 10)) <= r
  <2>1. r + 1 = q BY <1>3, <1>11
  <2>2. y < Pow10[r + 1] BY <2>1, <1>8, <1>9
  <2> QED BY <2>2, <1>12
<1>14. Len(Digits(x, 10)) = 1 + Len(Digits(y, 10))
  <2>1. x % 10 \in 0 .. 15 OBVIOUS
  <2>2. PICK c \in Chars : c = Digit(x % 10) BY <2>1, DigitTyped
  <2>4. <<c>> \in Seq(Chars) /\ Len(<<c>>) = 1 OBVIOUS
  <2>3. Digits(y, 10) \in Seq(Chars) BY DigitsTyped
  <2>5. Len(<<c>> \o Digits(y, 10)) = 1 + Len(Digits(y, 10)) BY <2>3, <2>4, ConcatIs
  <2>6. Digits(x, 10) = <<c>> \o Digits(y, 10) BY <2>2, <1>5, <1>6, <1>7
  <2> QED BY <2>5, <2>6
<1>15. Len(Digits(y, 10)) \in Nat
  <2>1. Digits(y, 10) \in Seq(Chars) BY DigitsTyped
  <2> QED BY <2>1
<1> QED BY <1>4, <1>11, <1>13, <1>14, <1>15, <1>3

\* A number as C pads it is no shorter than its parts and its width.
LEMMA StdPadLong ==
    ASSUME NEW sign \in Seq(Chars), NEW prefix \in Seq(Chars), NEW digits \in Seq(Chars),
           NEW d, WidthOf(d) \in Int, NEW zeros
    PROVE  /\ Len(StdPad(sign, prefix, digits, d, zeros)) >= Len(sign) + Len(prefix) + Len(digits)
           /\ Len(StdPad(sign, prefix, digits, d, zeros)) >= WidthOf(d)
           /\ Len(StdPad(sign, prefix, digits, d, zeros)) \in Int
<1> DEFINE size == Len(sign) + Len(prefix) + Len(digits)
           pad == WidthOf(d) - size
           text == StdPad(sign, prefix, digits, d, zeros)
<1>1. text = IF "-" \in FlagsOf(d) THEN sign \o prefix \o digits \o Repeat(" ", pad)
             ELSE IF zeros THEN sign \o prefix \o Repeat("0", pad) \o digits
             ELSE Repeat(" ", pad) \o sign \o prefix \o digits
  BY Zenon DEF StdPad
<1>2. PICK a \in Nat, b \in Nat, c \in Nat : a = Len(sign) /\ b = Len(prefix) /\ c = Len(digits)
  OBVIOUS
<1>3. PICK w \in Int : w = WidthOf(d) OBVIOUS
<1>4. size = a + b + c /\ pad = w - size /\ pad \in Int BY <1>2, <1>3
<1>5. sign \o prefix \in Seq(Chars) /\ Len(sign \o prefix) = a + b BY <1>2, ConcatIs
<1>6. ASSUME NEW k \in {"0", " "}
      PROVE  Repeat(k, pad) \in Seq(Chars) /\ Len(Repeat(k, pad)) = IF pad <= 0 THEN 0 ELSE pad
  <2>1. k \in Chars BY <1>6 DEF Chars
  <2> QED BY <2>1, <1>4, RepeatIs
<1> HIDE DEF pad, text, size
<1>7. ASSUME NEW z \in Seq(Chars), Len(z) = IF pad <= 0 THEN 0 ELSE pad
      PROVE  /\ Len(sign \o prefix \o digits \o z) = a + b + c + Len(z)
             /\ Len(sign \o prefix \o z \o digits) = a + b + c + Len(z)
             /\ Len(z \o sign \o prefix \o digits) = a + b + c + Len(z)
  <2>1. (sign \o prefix) \o digits \in Seq(Chars) /\ Len((sign \o prefix) \o digits) = a + b + c
    BY <1>2, <1>5, ConcatIs
  <2>2. (sign \o prefix) \o z \in Seq(Chars) /\ Len((sign \o prefix) \o z) = a + b + Len(z)
    BY <1>2, <1>5, ConcatIs
  <2>3. z \o sign \in Seq(Chars) /\ Len(z \o sign) = Len(z) + a BY <1>2, ConcatIs
  <2>4. (z \o sign) \o prefix \in Seq(Chars) /\ Len((z \o sign) \o prefix) = Len(z) + a + b
    BY <2>3, <1>2, ConcatIs
  <2>5. Len(z) \in Nat OBVIOUS
  <2>6. Len(((sign \o prefix) \o digits) \o z) = a + b + c + Len(z) BY <2>1, ConcatIs
  <2>7. Len(((sign \o prefix) \o z) \o digits) = a + b + Len(z) + c BY <2>2, <1>2, ConcatIs
  <2>8. Len(((z \o sign) \o prefix) \o digits) = Len(z) + a + b + c BY <2>4, <1>2, ConcatIs
  <2>9. ASSUME NEW n \in Nat, n = Len(z)
        PROVE  n + a + b + c = a + b + c + n /\ a + b + n + c = a + b + c + n
    OBVIOUS
  <2> QED BY <2>5, <2>6, <2>7, <2>8, <2>9
<1>8. Len(text) = a + b + c + (IF pad <= 0 THEN 0 ELSE pad)
  <2>1. CASE "-" \in FlagsOf(d) BY <2>1, <1>1, <1>6, <1>7
  <2>2. CASE "-" \notin FlagsOf(d) /\ zeros
    <3>1. text = sign \o prefix \o Repeat("0", pad) \o digits BY <2>2, <1>1, Zenon
    <3> QED BY <3>1, <1>6, <1>7
  <2>3. CASE "-" \notin FlagsOf(d) /\ ~zeros
    <3>1. text = Repeat(" ", pad) \o sign \o prefix \o digits BY <2>3, <1>1, Zenon
    <3> QED BY <3>1, <1>6, <1>7
  <2> QED BY <2>1, <2>2, <2>3, Zenon
<1>9. Len(text) >= size /\ Len(text) >= w /\ Len(text) \in Int BY <1>4, <1>8
<1> QED BY <1>3, <1>9, Zenon DEF text, size

\* A number padded by the code reads as C pads it, when its prefix and digits do
\* and no zeros come between the two.
PadsAlike(core, prefix, digits, d, neg, w, flags, zeros) ==
    /\ core \in Seq(Chars) /\ prefix \in Seq(Chars) /\ digits \in Seq(Chars)
    /\ Reverse(core) = prefix \o digits
    /\ WidthOf(d) \in Nat
    /\ "-" \in flags <=> "-" \in FlagsOf(d)
    /\ "-" \notin flags => ("0" \in flags <=> zeros)
    /\ ~("0" \in flags /\ "-" \notin flags) => w = WidthOf(d)
    /\ "0" \in flags /\ "-" \notin flags
       => /\ WidthOf(d) <= BufferSize
          /\ prefix = <<>> \/ WidthOf(d) <= Len(Sign(neg, flags)) + Len(prefix) + Len(digits)
    /\ Len(Sign(neg, flags)) + Len(prefix) + Len(digits) <= BufferSize

LEMMA PaddedIsStd ==
    ASSUME NEW core, NEW prefix, NEW digits, NEW d, NEW neg, NEW flags, NEW w, NEW zeros,
           PadsAlike(core, prefix, digits, d, neg, w, flags, zeros)
    PROVE  Padded(core, neg, w, WidthOf(d), flags) = StdPad(Sign(neg, flags), prefix, digits, d, zeros)
<1>0. /\ core \in Seq(Chars) /\ prefix \in Seq(Chars) /\ digits \in Seq(Chars)
      /\ Reverse(core) = prefix \o digits
      /\ WidthOf(d) \in Nat
      /\ "-" \in flags <=> "-" \in FlagsOf(d)
      /\ "-" \notin flags => ("0" \in flags <=> zeros)
      /\ ~("0" \in flags /\ "-" \notin flags) => w = WidthOf(d)
      /\ "0" \in flags /\ "-" \notin flags
         => /\ WidthOf(d) <= BufferSize
            /\ prefix = <<>> \/ WidthOf(d) <= Len(Sign(neg, flags)) + Len(prefix) + Len(digits)
      /\ Len(Sign(neg, flags)) + Len(prefix) + Len(digits) <= BufferSize
  BY Zenon DEF PadsAlike
<1> USE <1>0
<1> DEFINE sign == Sign(neg, flags)
           size == Len(sign) + Len(prefix) + Len(digits)
           pad == WidthOf(d) - size
           text == StdPad(sign, prefix, digits, d, zeros)
           code == Padded(core, neg, w, WidthOf(d), flags)
           rev == Reverse(core)
<1>1. sign \in Seq(Chars) BY SignIs
<1>2. PICK a \in Nat, b \in Nat, c \in Nat : a = Len(sign) /\ b = Len(prefix) /\ c = Len(digits)
  BY <1>1
<1>3. size = a + b + c /\ pad \in Int BY <1>2
<1>4. Len(core) = b + c
  <2>1. Len(rev) = Len(core) BY ReverseIs
  <2> QED BY <2>1, <1>2, ConcatIs
<1>5. code = Laid(sign, rev, pad, flags)
  <2>1. size = Len(sign) + Len(core) BY <1>2, <1>3, <1>4
  <2>2. Len(sign) + Len(core) <= BufferSize
    <3>1. size <= BufferSize OBVIOUS
    <3> HIDE DEF size
    <3> QED BY <2>1, <3>1, Zenon
  <2> HIDE DEF size
  <2>3. ASSUME NEW W, W = WidthOf(d)
        PROVE  Padded(core, neg, w, W, flags) = Laid(sign, rev, W - (Len(sign) + Len(core)), flags)
    <3>1. core \in Seq(Chars) /\ W \in Nat BY <2>3
    <3>2. "0" \in flags /\ "-" \notin flags => W <= BufferSize BY <2>3, Zenon
    <3>3. ~("0" \in flags /\ "-" \notin flags) => w = W BY <2>3, Zenon
    <3> QED BY ONLY <3>1, <3>2, <3>3, <2>2, PaddedIs
  <2> QED BY <2>1, <2>3, Zenon
<1>6. text = IF "-" \in FlagsOf(d) THEN sign \o prefix \o digits \o Repeat(" ", pad)
             ELSE IF zeros THEN sign \o prefix \o Repeat("0", pad) \o digits
             ELSE Repeat(" ", pad) \o sign \o prefix \o digits
  BY Zenon DEF StdPad
<1>7. Repeat("0", pad) \in Seq(Chars) /\ Repeat(" ", pad) \in Seq(Chars)
      /\ (pad <= 0 => Repeat("0", pad) = <<>>)
  <2>1. "0" \in Chars /\ " " \in Chars BY DEF Chars
  <2> HIDE DEF pad
  <2> QED BY <2>1, <1>3, RepeatIs
<1>8. sign \o rev = (sign \o prefix) \o digits
  <2>1. (sign \o prefix) \o digits = sign \o (prefix \o digits) BY <1>1, Rejoin
  <2>2. rev = prefix \o digits OBVIOUS
  <2> QED BY <2>1, <2>2, Zenon
<1> HIDE DEF sign, size
<1>9. CASE "-" \in flags
  <2>1. code = (sign \o rev) \o Repeat(" ", pad) BY <1>5, <1>9, Zenon DEF Laid
  <2>2. text = ((sign \o prefix) \o digits) \o Repeat(" ", pad) BY <1>6, <1>9, Zenon
  <2> QED BY <2>1, <2>2, <1>8, Zenon DEF sign
<1>10. CASE "-" \notin flags /\ "0" \in flags
  <2>1. code = (sign \o Repeat("0", pad)) \o rev BY <1>5, <1>10, Zenon DEF Laid
  <2>2. text = ((sign \o prefix) \o Repeat("0", pad)) \o digits BY <1>6, <1>10, Zenon
  <2>3. CASE prefix = <<>>
    <3>1. sign \o prefix = sign BY <2>3, <1>1, EmptyText
    <3>2. rev = digits BY <2>3, EmptyText
    <3> QED BY <2>1, <2>2, <3>1, <3>2, Zenon DEF sign
  <2>4. CASE WidthOf(d) <= size
    <3>1. Repeat("0", pad) = <<>>
      <4>1. pad <= 0
        <5>1. size \in Nat BY <1>3
        <5>2. WidthOf(d) <= size BY <2>4 DEF size, sign
        <5> QED BY <5>1, <5>2
      <4> QED BY <4>1, <1>7, Zenon
    <3>2. sign \o <<>> = sign BY <1>1, EmptyText
    <3>3. (sign \o prefix) \o <<>> = sign \o prefix BY <1>1, ConcatIs, EmptyText
    <3> QED BY <2>1, <2>2, <3>1, <3>2, <3>3, <1>8, Zenon DEF sign
  <2>5. prefix = <<>> \/ WidthOf(d) <= size BY <1>10 DEF size, sign
  <2> QED BY <2>3, <2>4, <2>5
<1>11. CASE "-" \notin flags /\ "0" \notin flags
  <2>1. code = (Repeat(" ", pad) \o sign) \o rev BY <1>5, <1>11, Zenon DEF Laid
  <2>2. text = ((Repeat(" ", pad) \o sign) \o prefix) \o digits BY <1>6, <1>11, Zenon
  <2>3. Repeat(" ", pad) \o sign \in Seq(Chars) BY <1>1, <1>7, ConcatIs
  <2>4. (Repeat(" ", pad) \o sign) \o (prefix \o digits) = ((Repeat(" ", pad) \o sign) \o prefix) \o digits
    <3> HIDE DEF pad
    <3> QED BY <2>3, Rejoin
  <2> QED BY <2>1, <2>2, <2>4, Zenon DEF sign
<1> QED BY <1>9, <1>10, <1>11, Zenon

\* The parts of a whole number as C writes it.
Magnitude(v) == IF v < 0 THEN -v ELSE v
Stated(d) == d.dot /\ d.prec >= 0
Hashed(d) == "#" \in d.flags /\ StdValue(d) # 0
Octal(d) == "#" \in d.flags /\ d.conv = "o"
StdSign(d) == IF d.conv = "d" THEN Sign(StdValue(d) < 0, d.flags) ELSE <<>>
StdBare(d) == IF StdValue(d) = 0 /\ Stated(d) /\ d.prec = 0 THEN <<>>
              ELSE Reverse(Digits(Magnitude(StdValue(d)), Base(d.conv)))
StdLeast(d) == Max({IF Stated(d) THEN d.prec ELSE 0,
                    IF Octal(d) THEN IF StdValue(d) = 0 THEN 1 ELSE Len(StdBare(d)) + 1 ELSE 0})
StdDigits(d) == AtLeast(StdBare(d), StdLeast(d))
StdPrefix(d) == CASE Hashed(d) /\ d.conv = "x" -> <<"0", "x">>
                  [] Hashed(d) /\ d.conv = "b" -> <<"0", "b">> [] OTHER -> <<>>
StdSize(d) == Len(StdSign(d)) + Len(StdPrefix(d)) + Len(StdDigits(d))

\* The width takes no part in them.
LEMMA StdIntIs ==
    ASSUME NEW d, NEW e, e.conv = d.conv, e.flags = d.flags, e.dot = d.dot, e.prec = d.prec,
           e.len = d.len, e.n = d.n
    PROVE  StdInt(e) = StdPad(StdSign(d), StdPrefix(d), StdDigits(d), e, "0" \in d.flags /\ ~Stated(d))
<1>1. StdValue(e) = StdValue(d) BY Zenon DEF StdValue
<1> QED BY <1>1, Zenon DEF StdInt, StdSign, StdPrefix, StdDigits, StdLeast, StdBare, Octal, Hashed, Stated, Magnitude

IntConvs == {"d", "u", "x", "o", "b"}

LEMMA StdParts ==
    ASSUME NEW d \in Directives, d.conv \in IntConvs
    PROVE  /\ StdValue(d) \in Int /\ Magnitude(StdValue(d)) \in Nat
           /\ d.conv # "d" => StdValue(d) >= 0
           /\ Base(d.conv) \in {2, 8, 10, 16}
           /\ Digits(Magnitude(StdValue(d)), Base(d.conv)) \in Seq(Chars)
           /\ StdSign(d) \in Seq(Chars) /\ StdPrefix(d) \in Seq(Chars)
           /\ StdBare(d) \in Seq(Chars) /\ StdLeast(d) \in Nat /\ StdDigits(d) \in Seq(Chars)
<1> DEFINE m == ValuesOf(d.len)
<1>1. m \in Nat \ {0} BY PrintfTextAssumption DEF ValuesOf
<1>2. d.n \in Int /\ d.prec \in Int BY DirectiveTyped
<1>3. StdValue(d) = IF d.conv = "d" THEN ((d.n + m \div 2) % m) - m \div 2 ELSE d.n % m
  BY Zenon DEF StdValue
<1> HIDE DEF m
<1>4. StdValue(d) \in Int /\ (d.conv # "d" => StdValue(d) >= 0)
  <2>1. ((d.n + m \div 2) % m) - m \div 2 \in Int
    <3>1. PICK h \in Int : h = m \div 2 BY <1>1
    <3>2. PICK y \in Int : y = d.n + h BY <1>2
    <3>3. y % m \in Int BY <1>1
    <3> QED BY <3>1, <3>2, <3>3
  <2>2. d.n % m \in Int /\ d.n % m >= 0 BY <1>1, <1>2
  <2> QED BY <1>3, <2>1, <2>2
<1>5. Magnitude(StdValue(d)) \in Nat BY <1>4 DEF Magnitude
<1>6. Base(d.conv) \in {2, 8, 10, 16} BY DEF Base
<1>7. Digits(Magnitude(StdValue(d)), Base(d.conv)) \in Seq(Chars) BY <1>5, <1>6, DigitsTyped
<1>8. StdSign(d) \in Seq(Chars) BY SignTyped, ShortSeqs, Zenon DEF StdSign
<1>9. StdPrefix(d) \in Seq(Chars)
  <2>1. <<"0", "x">> \in Seq(Chars) /\ <<"0", "b">> \in Seq(Chars) BY DEF Chars
  <2> QED BY <2>1, ShortSeqs, Zenon DEF StdPrefix
<1>10. StdBare(d) \in Seq(Chars)
  <2>1. Reverse(Digits(Magnitude(StdValue(d)), Base(d.conv))) \in Seq(Chars) BY <1>7, ReverseIs
  <2> QED BY <2>1, ShortSeqs, Zenon DEF StdBare
<1>11. StdLeast(d) \in Nat
  <2> DEFINE a == IF Stated(d) THEN d.prec ELSE 0
             b == IF Octal(d) THEN IF StdValue(d) = 0 THEN 1 ELSE Len(StdBare(d)) + 1 ELSE 0
  <2>1. a \in Int
    <3>1. 0 \in Int OBVIOUS
    <3> QED BY <3>1, <1>2, Zenon
  <2>2. b \in Nat
    <3>1. Len(StdBare(d)) + 1 \in Nat /\ 0 \in Nat /\ 1 \in Nat BY <1>10
    <3> QED BY <3>1, Zenon
  <2>3. StdLeast(d) = Max({a, b}) BY Zenon DEF StdLeast
  <2> HIDE DEF a, b
  <2> QED BY <2>1, <2>2, <2>3, MaxTwo
<1>12. StdDigits(d) \in Seq(Chars)
  <2>1. PICK n \in Nat : n = Len(StdBare(d)) BY <1>10
  <2>2. StdLeast(d) - n \in Int BY <1>11
  <2>3. "0" \in Chars BY DEF Chars
  <2>4. Repeat("0", StdLeast(d) - n) \in Seq(Chars) BY <2>2, <2>3, RepeatIs
  <2>5. Repeat("0", StdLeast(d) - n) \o StdBare(d) \in Seq(Chars) BY <2>4, <1>10, ConcatIs
  <2> QED BY <2>1, <2>5 DEF StdDigits, AtLeast
<1> QED BY <1>4, <1>5, <1>6, <1>7, <1>8, <1>9, <1>10, <1>11, <1>12

LEMMA SameRecord ==
    ASSUME NEW d \in Directives, NEW w \in Int
    PROVE  LET e == [d EXCEPT !.width = w]
           IN  /\ e.conv = d.conv /\ e.flags = d.flags /\ e.dot = d.dot /\ e.prec = d.prec
               /\ e.len = d.len /\ e.n = d.n /\ e.neg = d.neg /\ e.frac = d.frac /\ e.rest = d.rest
               /\ e.width = w /\ WidthOf(e) \in Int
<1>1. d \in [conv : STRING, flags : SUBSET {"0", "-", "+", " ", "#"}, width : Int,
            dot : BOOLEAN, prec : Int, len : STRING, n : Int, neg : BOOLEAN,
            frac : Nat, rest : STRING, s : Seq(STRING)]
  BY Zenon DEF Directives
<1> DEFINE e == [d EXCEPT !.width = w]
<1>2. /\ e.conv = d.conv /\ e.flags = d.flags /\ e.dot = d.dot /\ e.prec = d.prec
      /\ e.len = d.len /\ e.n = d.n /\ e.neg = d.neg /\ e.frac = d.frac /\ e.rest = d.rest
      /\ e.width = w
  BY <1>1
<1> HIDE DEF e
<1>3. WidthOf(e) \in Int BY <1>2 DEF WidthOf
<1>4. SUFFICES /\ e.conv = d.conv /\ e.flags = d.flags /\ e.dot = d.dot /\ e.prec = d.prec
               /\ e.len = d.len /\ e.n = d.n /\ e.neg = d.neg /\ e.frac = d.frac /\ e.rest = d.rest
               /\ e.width = w /\ WidthOf(e) \in Int
  BY Zenon DEF e
<1> QED BY <1>2, <1>3

\* A text that fits has room for every part of it.
LEMMA IntFits ==
    ASSUME NEW d \in Directives, d.conv \in IntConvs, ~TooLong(d)
    PROVE  /\ StdSize(d) <= BufferSize
           /\ "0" \in d.flags /\ "-" \notin FlagsOf(d) => WidthOf(d) <= BufferSize
<1> DEFINE zeros == "0" \in d.flags /\ "-" \notin FlagsOf(d)
           w == IF zeros THEN d.width ELSE 0
           e == [d EXCEPT !.width = w]
           text == StdInt(e)
<1>1. d.width \in Int /\ d.conv # "f"
  <2>1. d.conv # "f" BY DEF IntConvs
  <2> QED BY <2>1, DirectiveTyped
<1>2. w \in Int
  <2>1. 0 \in Int OBVIOUS
  <2> QED BY <2>1, <1>1, Zenon
<1>3. TooLong(d) <=> \E t \in Std(e) : Len(t) > BufferSize BY Zenon DEF TooLong
<1> HIDE DEF w
<1>4. /\ e.conv = d.conv /\ e.flags = d.flags /\ e.dot = d.dot /\ e.prec = d.prec
      /\ e.len = d.len /\ e.n = d.n /\ e.width = w /\ WidthOf(e) \in Int
  BY <1>2, SameRecord, Zenon
<1> HIDE DEF e
<1>5. Std(e) = {text} BY <1>1, <1>4, Zenon DEF Std
<1>6. ~(Len(text) > BufferSize) BY <1>3, <1>5, Zenon
<1>7. text = StdPad(StdSign(d), StdPrefix(d), StdDigits(d), e, "0" \in d.flags /\ ~Stated(d))
  BY <1>4, StdIntIs
<1>8. StdSign(d) \in Seq(Chars) /\ StdPrefix(d) \in Seq(Chars) /\ StdDigits(d) \in Seq(Chars)
  BY StdParts
<1>9. Len(text) >= Len(StdSign(d)) + Len(StdPrefix(d)) + Len(StdDigits(d)) /\ Len(text) >= WidthOf(e)
  BY <1>4, <1>7, <1>8, StdPadLong
<1>11. zeros => WidthOf(e) = WidthOf(d) BY <1>4, Zenon DEF w, WidthOf
<1>12. BufferSize \in Nat BY PrintfTextAssumption
<1>13. PICK a \in Nat : a = Len(StdSign(d)) + Len(StdPrefix(d)) + Len(StdDigits(d)) BY <1>8
<1> QED BY <1>4, <1>6, <1>9, <1>11, <1>12, <1>13 DEF StdSize

\* The number of digits that the code begins with, and that C counts from.
Figures(d) == IF d.dot /\ StdValue(d) = 0 THEN <<>>
              ELSE Digits(Magnitude(StdValue(d)), Base(d.conv))
Core(d) == IF "-" \in FlagsOf(d) THEN Figures(d)
           ELSE Figures(d) \o Repeat("0", PrecOf(d) - Len(Figures(d)))
Kept(d) == IF StdValue(d) = 0 THEN IntFlags(d) \ {"#"} ELSE IntFlags(d)

\* The cases left when a whole number does not deviate.
LEMMA IntSound ==
    ASSUME NEW d \in Directives, d.conv \in IntConvs, ~IntDeviates(d)
    PROVE  LET v == StdValue(d)
               n == Len(Figures(d))
               hash == "#" \in d.flags /\ d.conv \in {"x", "o", "b"} /\ v # 0
               zeros == "0" \in d.flags /\ "-" \notin FlagsOf(d)
           IN  /\ Argument(d) = v
               /\ d.dot /\ d.prec < 0 => v # 0 /\ "0" \notin d.flags /\ ~hash
               /\ "-" \in FlagsOf(d) /\ d.dot => ~(d.prec > n)
               /\ hash /\ ~d.dot => WidthOf(d) # n
               /\ hash /\ ~d.dot /\ zeros /\ d.conv = "x" => WidthOf(d) # n + 1
               /\ hash /\ ~d.dot /\ zeros /\ d.conv = "b" => ~(WidthOf(d) > n + 1)
               /\ hash /\ d.dot /\ d.conv = "o" => ~(d.prec > n)
               /\ Octal(d) /\ v = 0 /\ d.dot => d.prec # 0
<1> DEFINE v == StdValue(d)
           n == IF v = 0 THEN (IF d.dot THEN 0 ELSE 1) ELSE Len(Digits(Magnitude(v), Base(d.conv)))
           hash == "#" \in d.flags /\ d.conv \in {"x", "o", "b"} /\ v # 0
           zeros == "0" \in d.flags /\ "-" \notin FlagsOf(d)
           w == WidthOf(d)
<1>1. ~ \/ d.dot /\ d.prec < 0 /\ (v = 0 \/ "0" \in d.flags \/ hash)
        \/ Argument(d) # v
        \/ "-" \in FlagsOf(d) /\ d.dot /\ d.prec > n
        \/ hash /\ ~d.dot /\ w = n
        \/ hash /\ ~d.dot /\ zeros /\ d.conv = "x" /\ w = n + 1
        \/ hash /\ ~d.dot /\ zeros /\ d.conv = "b" /\ w > n + 1
        \/ hash /\ d.dot /\ d.conv = "o" /\ d.prec > n
        \/ Octal(d) /\ v = 0 /\ d.dot /\ d.prec = 0
  BY Zenon DEF IntDeviates, Magnitude, Octal
<1>2. hash \/ d.dot => n = Len(Figures(d))
  <2>1. Len(<<>>) = 0 OBVIOUS
  <2>2. CASE d.dot /\ v = 0 BY <2>1, <2>2, Zenon DEF Figures
  <2>3. CASE v # 0 BY <2>3, Zenon DEF Figures
  <2> QED BY <2>2, <2>3, Zenon
<1> HIDE DEF n, w
<1>3. PICK m : m = Len(Figures(d)) OBVIOUS
<1>4. hash \/ d.dot => n = m BY <1>2, <1>3, Zenon
<1> QED BY <1>1, <1>3, <1>4, Zenon DEF w

LEMMA FiguresTyped ==
    ASSUME NEW d \in Directives, d.conv \in IntConvs
    PROVE  /\ Figures(d) \in Seq(Chars) /\ Len(Figures(d)) \in Nat
           /\ StdValue(d) # 0 => Len(Figures(d)) >= 1
<1>1. Digits(Magnitude(StdValue(d)), Base(d.conv)) \in Seq(Chars)
      /\ Len(Digits(Magnitude(StdValue(d)), Base(d.conv))) >= 1
  BY StdParts, DigitsTyped
<1>2. Figures(d) \in Seq(Chars) BY <1>1, ShortSeqs, Zenon DEF Figures
<1>3. StdValue(d) # 0 => Figures(d) = Digits(Magnitude(StdValue(d)), Base(d.conv)) BY Zenon DEF Figures
<1> QED BY <1>1, <1>2, <1>3

\* The digit of 0.
LEMMA ZeroBare ==
    ASSUME NEW d \in Directives, d.conv \in IntConvs, StdValue(d) = 0, ~(Stated(d) /\ d.prec = 0)
    PROVE  StdBare(d) = <<"0">>
<1>1. StdBare(d) = Reverse(Digits(Magnitude(0), Base(d.conv))) BY Zenon DEF StdBare
<1>2. Magnitude(0) = 0 BY DEF Magnitude
<1>3. Base(d.conv) \in {2, 8, 10, 16} BY StdParts
<1>4. Digits(0, Base(d.conv)) = <<Digit(0)>>
  <2>1. 0 \in Nat /\ 0 < Base(d.conv) BY <1>3
  <2> QED BY <2>1, <1>3, DigitsIs
<1>5. Digit(0) = "0" /\ "0" \in Chars BY DEF Digit, Chars
<1> QED BY <1>1, <1>2, <1>4, <1>5, ReverseShort

\* Where no number but 0 has the flag '#' of octal, the precision alone gives zeros.
LEMMA PrecisionAlone ==
    ASSUME NEW d \in Directives, d.conv \in IntConvs, ~IntDeviates(d), ~(Hashed(d) /\ d.conv = "o")
    PROVE  StdDigits(d) = Repeat("0", PrecOf(d) - Len(StdBare(d))) \o StdBare(d)
<1> DEFINE g == IF Stated(d) THEN d.prec ELSE 0
<1>1. d.prec \in Int BY DirectiveTyped
<1>2. PrecOf(d) \in Nat BY WidthTyped
<1>3. PrecOf(d) = IF d.dot /\ d.prec > 0 THEN d.prec ELSE 0 BY Zenon DEF PrecOf
<1>4. g = PrecOf(d)
  <2>1. CASE d.dot
    <3>1. g = IF d.prec >= 0 THEN d.prec ELSE 0 BY <2>1, Zenon DEF Stated
    <3> HIDE DEF g
    <3> QED BY <3>1, <2>1, <1>1, <1>3
  <2>2. CASE ~d.dot BY <2>2, <1>3, Zenon DEF Stated
  <2> QED BY <2>1, <2>2, Zenon
<1>5. StdDigits(d) = Repeat("0", StdLeast(d) - Len(StdBare(d))) \o StdBare(d)
  BY Zenon DEF StdDigits, AtLeast
<1>6. CASE ~Octal(d)
  <2>1. StdLeast(d) = Max({g, 0}) BY <1>6, Zenon DEF StdLeast
  <2> HIDE DEF g
  <2>2. StdLeast(d) = PrecOf(d) BY <2>1, <1>2, <1>4, MaxTwo
  <2> QED BY <2>2, <1>5, Zenon
<1>7. CASE Octal(d)
  <2>1. StdValue(d) = 0 BY <1>7, Zenon DEF Octal, Hashed
  <2>2. StdLeast(d) = Max({g, 1}) BY <1>7, <2>1, Zenon DEF StdLeast
  <2>3. CASE d.dot
    <3>1. ~(d.prec < 0) /\ d.prec # 0 BY <1>7, <2>1, <2>3, IntSound, Zenon
    <3>2. PrecOf(d) >= 1 BY <3>1, <1>1, <1>3, <2>3
    <3> HIDE DEF g
    <3>3. StdLeast(d) = PrecOf(d) BY <2>2, <3>2, <1>2, <1>4, MaxTwo
    <3> QED BY <3>3, <1>5, Zenon
  <2>4. CASE ~d.dot
    <3>1. StdBare(d) = <<"0">> BY <2>1, <2>4, ZeroBare, Zenon DEF Stated
    <3>2. PrecOf(d) = 0 BY <2>4, <1>3, Zenon
    <3> HIDE DEF g
    <3>3. StdLeast(d) = 1 BY <2>2, <3>2, <1>4, MaxTwo
    <3>4. "0" \in Chars BY DEF Chars
    <3>5. PICK z \in Int : z = StdLeast(d) - Len(StdBare(d)) /\ z <= 0 BY <3>1, <3>3
    <3>6. PICK y \in Int : y = PrecOf(d) - Len(StdBare(d)) /\ y <= 0 BY <3>1, <3>2
    <3>7. Repeat("0", z) = <<>> /\ Repeat("0", y) = <<>> BY <3>4, <3>5, <3>6, RepeatIs
    <3> QED BY <1>5, <3>5, <3>6, <3>7, Zenon
  <2> QED BY <2>3, <2>4
<1> QED BY <1>6, <1>7

\* The digits and the zeros of the precision, the wrong way round.
LEMMA CoreReads ==
    ASSUME NEW d \in Directives, d.conv \in IntConvs, ~IntDeviates(d), ~(Hashed(d) /\ d.conv = "o")
    PROVE  Core(d) \in Seq(Chars) /\ Reverse(Core(d)) = StdDigits(d) /\ Len(Core(d)) = Len(StdDigits(d))
<1> DEFINE b == Figures(d)
           v == StdValue(d)
<1>1. PICK P \in Nat : P = PrecOf(d) /\ (P > 0 => d.dot /\ P = d.prec)
  <2>1. d.prec \in Int BY DirectiveTyped
  <2>2. PrecOf(d) \in Nat BY WidthTyped
  <2>3. PrecOf(d) = IF d.dot /\ d.prec > 0 THEN d.prec ELSE 0 BY Zenon DEF PrecOf
  <2> QED BY <2>2, <2>3
<1>2. b \in Seq(Chars) /\ Len(b) \in Nat BY FiguresTyped
<1>3. "0" \in Chars BY DEF Chars
<1>4. StdDigits(d) = Repeat("0", P - Len(StdBare(d))) \o StdBare(d) BY <1>1, PrecisionAlone
<1>5. Reverse(b) \in Seq(Chars) /\ Len(Reverse(b)) = Len(b) BY <1>2, ReverseIs
<1>6. "-" \in FlagsOf(d) => P <= Len(b)
  <2>1. SUFFICES ASSUME "-" \in FlagsOf(d) PROVE P <= Len(b) OBVIOUS
  <2>2. d.dot => ~(d.prec > Len(b)) BY <2>1, IntSound
  <2>3. P > 0 => ~(P > Len(b)) BY <2>2, <1>1
  <2> HIDE DEF b
  <2> QED BY <2>3, <1>2
<1> HIDE DEF b
<1> DEFINE zeros == Repeat("0", P - Len(b))
<1>7. zeros \in Seq(Chars) /\ Reverse(zeros) = zeros /\ (P <= Len(b) => zeros = <<>>)
  <2>1. P - Len(b) \in Int /\ (P <= Len(b) => P - Len(b) <= 0) BY <1>2
  <2> QED BY <2>1, <1>3, RepeatIs, ReverseRepeat
<1> HIDE DEF zeros
<1>8. Core(d) = b \o zeros
  <2>1. CASE "-" \in FlagsOf(d)
    <3>1. Core(d) = b BY <2>1, Zenon DEF Core, b
    <3>2. zeros = <<>> BY <2>1, <1>6, <1>7
    <3>3. b \o <<>> = b BY <1>2, EmptyText
    <3> QED BY <3>1, <3>2, <3>3, Zenon
  <2>2. CASE "-" \notin FlagsOf(d) BY <2>2, <1>1, Zenon DEF Core, b, zeros
  <2> QED BY <2>1, <2>2
<1>9. b \o zeros \in Seq(Chars) /\ Reverse(b \o zeros) = zeros \o Reverse(b)
      /\ Len(b \o zeros) = Len(Reverse(b \o zeros))
  <2>1. b \o zeros \in Seq(Chars) BY <1>2, <1>7, ConcatIs
  <2>2. Reverse(b \o zeros) = Reverse(zeros) \o Reverse(b) BY <1>2, <1>7, ReverseBoth
  <2> QED BY <2>1, <2>2, <1>7, ReverseIs
<1>10. zeros \o Reverse(b) = StdDigits(d)
  <2>1. CASE ~(d.dot /\ v = 0)
    <3>1. b = Digits(Magnitude(v), Base(d.conv)) BY <2>1, Zenon DEF b, Figures
    <3>2. StdBare(d) = Reverse(b) BY <2>1, <3>1, Zenon DEF StdBare, Stated
    <3> QED BY <3>2, <1>4, <1>5, Zenon DEF zeros
  <2>2. CASE d.dot /\ v = 0
    <3>1. b = <<>> BY <2>2, Zenon DEF b, Figures
    <3>2. ~(d.prec < 0) BY <2>2, IntSound
    <3>3. d.prec \in Int BY DirectiveTyped
    <3>4. Stated(d) BY <2>2, <3>2, <3>3 DEF Stated
    <3>5. P = d.prec BY <1>1, <2>2, <3>2, <3>3 DEF PrecOf
    <3>6. Reverse(b) = <<>> /\ zeros = Repeat("0", P)
      <4>1. Len(<<>>) = 0 /\ P - 0 = P OBVIOUS
      <4> QED BY <3>1, <4>1, ReverseShort DEF zeros
    <3>7. zeros \o Reverse(b) = Repeat("0", P) BY <3>6, <1>7, EmptyText
    <3>8. CASE P = 0
      <4>1. StdBare(d) = <<>> BY <2>2, <3>4, <3>5, <3>8, Zenon DEF StdBare
      <4>2. P - Len(<<>>) = P OBVIOUS
      <4>3. StdDigits(d) = Repeat("0", P) \o <<>> BY <1>4, <4>1, <4>2
      <4>4. Repeat("0", P) \in Seq(Chars) BY <1>3, RepeatIs
      <4> QED BY <3>7, <4>3, <4>4, EmptyText
    <3>9. CASE P # 0
      <4>6. StdBare(d) = <<"0">> BY <2>2, <3>5, <3>9, ZeroBare
      <4>7. <<"0">> = Repeat("0", 1)
        <5>1. PICK one \in Int : one = 1 OBVIOUS
        <5>2. /\ Repeat("0", one) \in Seq(Chars)
              /\ Len(Repeat("0", one)) = IF one <= 0 THEN 0 ELSE one
              /\ \A k \in 1 .. Len(Repeat("0", one)) : Repeat("0", one)[k] = "0"
          BY <1>3, RepeatIs, Zenon
        <5>3. Repeat("0", 1) \in Seq(Chars) /\ Len(Repeat("0", 1)) = 1
              /\ \A k \in 1 .. 1 : Repeat("0", 1)[k] = "0"
          BY <5>1, <5>2
        <5>4. <<"0">> \in Seq(Chars) /\ Len(<<"0">>) = 1 /\ \A k \in 1 .. 1 : <<"0">>[k] = "0"
          BY <1>3
        <5> QED BY <5>3, <5>4, SameTexts
      <4>8. PICK q \in Nat : q = P - 1 /\ q + 1 = P BY <3>9
      <4>9. StdDigits(d) = Repeat("0", q) \o Repeat("0", 1)
        <5>1. Len(<<"0">>) = 1 OBVIOUS
        <5> QED BY <5>1, <1>4, <4>6, <4>7, <4>8
      <4>10. Repeat("0", q) \o Repeat("0", 1) = Repeat("0", q + 1) BY <1>3, RepeatMore
      <4> QED BY <3>7, <4>8, <4>9, <4>10
    <3> QED BY <3>8, <3>9
  <2> QED BY <2>1, <2>2
<1>11. Len(Core(d)) = Len(StdDigits(d)) BY <1>8, <1>9, <1>10
<1> QED BY <1>8, <1>9, <1>10, <1>11

\* The digits with the zeros of the precision, and the places up to the width.
CoreOf(b, prec, flags) == IF "-" \in flags THEN b ELSE b \o Repeat("0", prec - Len(b))
PlacesOf(width, neg, flags) == IF "-" \in flags THEN width ELSE RoomForSign(width, neg, flags)

\* The code without '#': digits, zeros and sign.
LEMMA NtoaPlain ==
    ASSUME NEW b \in Seq(Chars), NEW neg, NEW base, NEW dot, NEW prec \in Nat, NEW width0 \in Nat,
           NEW flags, "#" \notin flags, CoreOf(b, prec, flags) \in Seq(Chars),
           Len(b) <= BufferSize, prec <= BufferSize, Len(CoreOf(b, prec, flags)) <= BufferSize
    PROVE  NtoaFormat(b, neg, base, dot, prec, width0, flags)
           = Padded(CoreOf(b, prec, flags), neg, PlacesOf(width0, neg, flags), width0, flags)
<1> DEFINE core == CoreOf(b, prec, flags)
           width == IF "-" \in flags THEN width0 ELSE RoomForSign(width0, neg, flags)
           fill == IF "0" \in flags THEN width ELSE 0
           b1 == IF "-" \in flags THEN b ELSE Fill(Fill(b, prec), fill)
           sign == Sign(neg, flags)
<1>1. NtoaFormat(b, neg, base, dot, prec, width0, flags) = OutRev(Put(b1, sign), width, flags)
  BY Zenon DEF NtoaFormat
<1>2. b1 = IF "0" \in flags /\ "-" \notin flags THEN Fill(core, RoomForSign(width0, neg, flags)) ELSE core
  <2>1. CASE "-" \in flags BY <2>1, Zenon DEF CoreOf
  <2>2. CASE "-" \notin flags
    <3>1. Fill(b, prec) = core
      <4>1. prec \in Int OBVIOUS
      <4>2. Fill(b, prec) = b \o Repeat("0", prec - Len(b)) BY <4>1, FillAll
      <4> QED BY <4>2, <2>2, Zenon DEF CoreOf
    <3>2. Fill(core, 0) = core
      <4>1. BufferSize \in Nat BY PrintfTextAssumption
      <4>2. 0 \in Int /\ 0 <= BufferSize BY <4>1
      <4>3. Fill(core, 0) = core \o Repeat("0", 0 - Len(core)) BY <4>2, FillAll
      <4>4. 0 - Len(core) \in Int /\ 0 - Len(core) <= 0
        <5>1. Len(core) \in Nat OBVIOUS
        <5> QED BY <5>1
      <4>5. "0" \in Chars BY DEF Chars
      <4>6. Repeat("0", 0 - Len(core)) = <<>> BY <4>4, <4>5, RepeatIs
      <4>7. core \o <<>> = core BY EmptyText
      <4> QED BY <4>3, <4>6, <4>7, Zenon
    <3> QED BY <3>1, <3>2, <2>2, Zenon
  <2> QED BY <2>1, <2>2
<1> HIDE DEF b1
<1> QED BY <1>1, <1>2, Zenon DEF Padded, PlacesOf

Mark(base) == CASE base = 16 -> <<"x">> [] base = 2 -> <<"b">> [] OTHER -> <<>>

\* No sign is asked for.
NoSign(flags) == flags \cap {"+", " "} = {}

\* No digit is taken for one that padding wrote.
Undropped(core, dot, prec, width) == dot \/ (Len(core) # width /\ Len(core) # prec)

\* The code with '#' where no digit is taken back.
MarksAlone(b, neg, base, dot, prec, width, flags) ==
    /\ b \in Seq(Chars) /\ neg = FALSE /\ base \in {2, 8, 16} /\ prec \in Nat /\ width \in Nat
    /\ "#" \in flags /\ NoSign(flags)
    /\ CoreOf(b, prec, flags) \in Seq(Chars) /\ Len(b) <= BufferSize /\ prec <= BufferSize
    /\ "0" \in flags /\ "-" \notin flags
       => width <= BufferSize /\ width <= Len(CoreOf(b, prec, flags))
    /\ Undropped(CoreOf(b, prec, flags), dot, prec, width)
    /\ Len(CoreOf(b, prec, flags)) + Len(Mark(base)) + 1 <= BufferSize

LEMMA NtoaMarked ==
    ASSUME NEW b, NEW neg, NEW base, NEW dot, NEW prec, NEW width, NEW flags,
           MarksAlone(b, neg, base, dot, prec, width, flags)
    PROVE  NtoaFormat(b, neg, base, dot, prec, width, flags)
           = Padded(CoreOf(b, prec, flags) \o Mark(base) \o <<"0">>, neg, width, width, flags)
<1>0. /\ b \in Seq(Chars) /\ neg = FALSE /\ base \in {2, 8, 16} /\ prec \in Nat /\ width \in Nat
      /\ "#" \in flags /\ NoSign(flags)
      /\ CoreOf(b, prec, flags) \in Seq(Chars) /\ Len(b) <= BufferSize /\ prec <= BufferSize
      /\ "0" \in flags /\ "-" \notin flags
         => width <= BufferSize /\ width <= Len(CoreOf(b, prec, flags))
      /\ Undropped(CoreOf(b, prec, flags), dot, prec, width)
      /\ Len(CoreOf(b, prec, flags)) + Len(Mark(base)) + 1 <= BufferSize
  BY Zenon DEF MarksAlone
<1> USE <1>0
<1> DEFINE core == CoreOf(b, prec, flags)
           room == IF "-" \in flags THEN width ELSE RoomForSign(width, neg, flags)
           fill == IF "0" \in flags THEN room ELSE 0
           b1 == IF "-" \in flags THEN b ELSE Fill(Fill(b, prec), fill)
           drop == IF ~dot /\ b1 # <<>> /\ Len(b1) \in {prec, room}
                   THEN IF base = 16 THEN Min({2, Len(b1)}) ELSE 1 ELSE 0
           mark == Mark(base)
           marked == core \o mark \o <<"0">>
           front == SubSeq(b1, 1, Len(b1) - drop)
           b2 == Put(Put(front, mark), <<"0">>)
           sign == Sign(neg, flags)
<1>1. NtoaFormat(b, neg, base, dot, prec, width, flags) = OutRev(Put(b2, sign), room, flags)
  BY Zenon DEF NtoaFormat, Mark
<1>2. room = width BY Zenon DEF RoomForSign, NoSign
<1>3. BufferSize \in Nat /\ "0" \in Chars
  <2>1. "0" \in Chars BY DEF Chars
  <2> QED BY <2>1, PrintfTextAssumption
<1>4. mark \in Seq(Chars) /\ <<"0">> \in Seq(Chars)
  <2>1. <<"x">> \in Seq(Chars) /\ <<"b">> \in Seq(Chars) /\ <<"0">> \in Seq(Chars)
    BY ShortSeqs DEF Chars
  <2> QED BY <2>1, ShortSeqs, Zenon DEF Mark
<1> HIDE DEF mark, room
<1>5. core \o mark \in Seq(Chars) /\ Len(core \o mark) = Len(core) + Len(mark)
      /\ Len(marked) = Len(core) + Len(mark) + 1 /\ marked \in Seq(Chars)
      /\ Len(core) \in Nat /\ Len(mark) \in Nat
  <2>1. core \o mark \in Seq(Chars) /\ Len(core \o mark) = Len(core) + Len(mark) BY <1>4, ConcatIs
  <2>2. marked = (core \o mark) \o <<"0">> OBVIOUS
  <2>3. Len(<<"0">>) = 1 OBVIOUS
  <2>4. marked \in Seq(Chars) /\ Len(marked) = Len(core \o mark) + Len(<<"0">>)
    BY <2>1, <2>2, <1>4, ConcatIs
  <2>5. Len(core) \in Nat /\ Len(mark) \in Nat BY <1>4
  <2> QED BY <2>1, <2>3, <2>4, <2>5
<1>6. PICK n \in Nat, m \in Nat : n = Len(core) /\ m = Len(mark) /\ n + m + 1 <= BufferSize
  BY <1>5 DEF mark
<1> HIDE DEF marked
<1>7. ASSUME NEW k \in Nat, k <= n, k <= BufferSize PROVE Fill(core, k) = core
  <2>1. Fill(core, k) = core \o Repeat("0", k - n)
    <3>1. n <= BufferSize /\ k \in Int BY <1>3, <1>6
    <3> QED BY <3>1, <1>6, <1>7, FillAll
  <2>2. k - n \in Int /\ k - n <= 0 BY <1>7
  <2>3. Repeat("0", k - n) = <<>> BY <2>2, <1>3, RepeatIs
  <2> QED BY <2>1, <2>3, EmptyText
<1>8. b1 = core
  <2>1. CASE "-" \in flags BY <2>1, Zenon DEF CoreOf
  <2>2. CASE "-" \notin flags
    <3>1. Fill(b, prec) = core
      <4>1. prec \in Int OBVIOUS
      <4>2. Fill(b, prec) = b \o Repeat("0", prec - Len(b)) BY <4>1, FillAll
      <4> QED BY <4>2, <2>2, Zenon DEF CoreOf
    <3>2. Fill(core, fill) = core
      <4>1. CASE "0" \in flags
        <5>1. width <= n /\ width <= BufferSize BY <4>1, <2>2, <1>6
        <5>2. Fill(core, width) = core BY <5>1, <1>7
        <5> QED BY <5>2, <4>1, <1>2, Zenon
      <4>2. CASE "0" \notin flags
        <5>1. 0 \in Nat /\ 0 <= n /\ 0 <= BufferSize BY <1>3
        <5>2. Fill(core, 0) = core BY <5>1, <1>7
        <5> QED BY <5>2, <4>2, Zenon
      <4> QED BY <4>1, <4>2
    <3> QED BY <3>1, <3>2, <2>2, Zenon
  <2> QED BY <2>1, <2>2
<1>9. drop = 0
  <2>1. dot \/ ~(Len(b1) \in {prec, room}) BY <1>2, <1>8, Zenon DEF Undropped
  <2> HIDE DEF b1
  <2> QED BY <2>1, Zenon
<1>10. front = core
  <2>1. Len(core) - 0 = Len(core) BY <1>5
  <2>2. SubSeq(core, 1, Len(core)) = core BY SubSeqFull
  <2> HIDE DEF b1, drop
  <2> QED BY <2>1, <2>2, <1>8, <1>9, Zenon
<1> HIDE DEF front
<1>11. b2 = marked
  <2>1. Put(core, mark) = core \o mark
    <3>1. Len(core) + Len(mark) <= BufferSize BY <1>3, <1>6
    <3> QED BY <3>1, <1>4, PutAll
  <2>2. Put(core \o mark, <<"0">>) = (core \o mark) \o <<"0">>
    <3>1. Len(<<"0">>) = 1 OBVIOUS
    <3>2. Len(core \o mark) + Len(<<"0">>) <= BufferSize BY <3>1, <1>5, <1>6
    <3> QED BY <3>2, <1>4, <1>5, PutAll
  <2>3. marked = (core \o mark) \o <<"0">> BY DEF marked
  <2> QED BY <2>1, <2>2, <2>3, <1>10, Zenon
<1> HIDE DEF b2
<1>12. Padded(marked, neg, width, width, flags) = OutRev(Put(marked, sign), width, flags)
  <2>1. CASE "0" \in flags /\ "-" \notin flags
    <3>1. RoomForSign(width, neg, flags) = width BY Zenon DEF RoomForSign, NoSign
    <3>2. Fill(marked, width) = marked
      <4>1. width <= BufferSize /\ width <= n BY <2>1, <1>6
      <4>2. width \in Int /\ width - Len(marked) \in Int /\ width - Len(marked) <= 0
        <5>1. Len(marked) = n + m + 1 BY <1>5, <1>6
        <5> QED BY <5>1, <4>1
      <4>3. Fill(marked, width) = marked \o Repeat("0", width - Len(marked))
        <5>1. Len(marked) <= BufferSize /\ width \in Int BY <4>2, <1>5, <1>6
        <5> QED BY <4>1, <5>1, <1>5, FillAll
      <4>4. Repeat("0", width - Len(marked)) = <<>> BY <4>2, <1>3, RepeatIs
      <4> QED BY <4>3, <4>4, <1>5, EmptyText
    <3> QED BY <2>1, <3>1, <3>2, Zenon DEF Padded
  <2>2. CASE ~("0" \in flags /\ "-" \notin flags) BY <2>2, Zenon DEF Padded
  <2> QED BY <2>1, <2>2
<1> QED BY <1>1, <1>2, <1>11, <1>12, Zenon DEF marked, mark

\* The code with '#' where zeros filled the width: as many of them as the prefix
\* has characters, and for a binary number one less, are taken back.
MarksFilled(b, neg, base, dot, prec, width, flags, drop, zeros) ==
    /\ b \in Seq(Chars) /\ neg = FALSE /\ base \in {2, 8, 16} /\ ~dot /\ prec = 0 /\ width \in Nat
    /\ "#" \in flags /\ "0" \in flags /\ "-" \notin flags /\ NoSign(flags)
    /\ Len(b) >= 1 /\ width > Len(b) /\ width <= BufferSize
    /\ drop \in {1, 2} /\ drop = (IF base = 16 THEN 2 ELSE 1) /\ Len(b) + drop <= width
    /\ width - drop + Len(Mark(base)) + 1 <= BufferSize
    /\ zeros = Repeat("0", width - Len(b) - drop)

LEMMA NtoaDropped ==
    ASSUME NEW b, NEW neg, NEW base, NEW dot, NEW prec, NEW width, NEW flags, NEW drop,
           NEW zeros,
           MarksFilled(b, neg, base, dot, prec, width, flags, drop, zeros)
    PROVE  NtoaFormat(b, neg, base, dot, prec, width, flags)
           = <<"0">> \o (Mark(base) \o (zeros \o Reverse(b)))
<1>0. /\ b \in Seq(Chars) /\ neg = FALSE /\ base \in {2, 8, 16} /\ ~dot /\ prec = 0 /\ width \in Nat
      /\ "#" \in flags /\ "0" \in flags /\ "-" \notin flags /\ NoSign(flags)
      /\ Len(b) >= 1 /\ width > Len(b) /\ width <= BufferSize
      /\ drop \in {1, 2} /\ drop = (IF base = 16 THEN 2 ELSE 1) /\ Len(b) + drop <= width
      /\ width - drop + Len(Mark(base)) + 1 <= BufferSize
      /\ zeros = Repeat("0", width - Len(b) - drop)
  BY Zenon DEF MarksFilled
<1> USE <1>0
<1> DEFINE room == RoomForSign(width, neg, flags)
           b1 == Fill(Fill(b, prec), room)
           drop0 == IF ~dot /\ b1 # <<>> /\ Len(b1) \in {prec, room}
                    THEN IF base = 16 THEN Min({2, Len(b1)}) ELSE 1 ELSE 0
           mark == Mark(base)
           front == SubSeq(b1, 1, Len(b1) - drop0)
           b2 == Put(Put(front, mark), <<"0">>)
           sign == Sign(neg, flags)
           zero == <<"0">>
<1>1. NtoaFormat(b, neg, base, dot, prec, width, flags) = OutRev(Put(b2, sign), room, flags)
  BY Zenon DEF NtoaFormat, Mark
<1>2. room = width BY Zenon DEF RoomForSign, NoSign
<1>3. BufferSize \in Nat /\ "0" \in Chars
  <2>1. "0" \in Chars BY DEF Chars
  <2> QED BY <2>1, PrintfTextAssumption
<1>4. mark \in Seq(Chars) /\ zero \in Seq(Chars) /\ Len(zero) = 1 /\ Reverse(zero) = zero
      /\ Reverse(mark) = mark
  <2>1. "x" \in Chars /\ "b" \in Chars BY DEF Chars
  <2>2. mark \in {<<"x">>, <<"b">>, <<>>} BY Zenon DEF Mark
  <2>3. zero \in Seq(Chars) /\ Len(zero) = 1 /\ Reverse(zero) = zero BY <1>3, ReverseShort
  <2>4. <<"x">> \in Seq(Chars) /\ <<"b">> \in Seq(Chars) BY <2>1, ShortSeqs
  <2> HIDE DEF zero
  <2> QED BY <2>1, <2>2, <2>3, <2>4, ShortSeqs, ReverseShort, Zenon
<1>5. sign = <<>> BY Zenon DEF Sign, NoSign
<1> HIDE DEF mark, room, sign, zero
<1>6. PICK n \in Nat, m \in Nat : n = Len(b) /\ m = Len(mark)
  BY <1>4
<1>7. n >= 1 /\ width > n /\ n + drop <= width /\ width - drop + m + 1 <= BufferSize
  <2>1. m = Len(Mark(base)) BY <1>6 DEF mark
  <2> QED BY <2>1, <1>6
<1>8. PICK k \in Nat : k = width - n - drop
  <2>1. drop \in Nat /\ n + drop <= width BY <1>7
  <2>2. width - n - drop \in Nat BY ONLY <2>1, n \in Nat, width \in Nat
  <2> QED BY <2>2
<1>9. b1 = b \o Repeat("0", width - n)
  <2>1. Fill(b, prec) = b
    <3>1. 0 \in Int /\ 0 <= BufferSize /\ n <= BufferSize BY <1>3, <1>7
    <3>2. Fill(b, prec) = b \o Repeat("0", 0 - n) BY <3>1, <1>6, FillAll
    <3>3. 0 - n \in Int /\ 0 - n <= 0 BY <1>7
    <3>4. Repeat("0", 0 - n) = <<>> BY <3>3, <1>3, RepeatIs
    <3> QED BY <3>2, <3>4, EmptyText
  <2>2. n <= BufferSize /\ width \in Int BY <1>3, <1>7
  <2> QED BY <2>1, <2>2, <1>2, <1>6, FillAll
<1>10. Repeat("0", width - n) = zeros \o Repeat("0", drop)
  <2>1. Repeat("0", k) \o Repeat("0", drop) = Repeat("0", k + drop) BY <1>3, RepeatMore
  <2>2. k + drop = width - n BY <1>8, <1>7
  <2> QED BY <2>1, <2>2, <1>6, <1>8
<1>11. zeros \in Seq(Chars) /\ Len(zeros) = k /\ Reverse(zeros) = zeros
       /\ Repeat("0", drop) \in Seq(Chars) /\ Len(Repeat("0", drop)) = drop
  <2>1. k \in Int /\ (k <= 0 => k = 0) /\ drop \in Int /\ drop > 0 OBVIOUS
  <2>2. zeros = Repeat("0", k) BY <1>6, <1>8
  <2>3. zeros \in Seq(Chars) /\ Len(zeros) = k BY <2>1, <2>2, <1>3, RepeatIs
  <2>4. Reverse(zeros) = zeros BY <2>1, <2>2, <1>3, ReverseRepeat
  <2>5. Repeat("0", drop) \in Seq(Chars) /\ Len(Repeat("0", drop)) = IF drop <= 0 THEN 0 ELSE drop
    BY <2>1, <1>3, RepeatIs, Zenon
  <2>6. ~(drop <= 0) BY <2>1
    <2> QED BY <2>3, <2>4, <2>5, <2>6, Zenon
<1> DEFINE c == b \o zeros
<1>12. c \in Seq(Chars) /\ Len(c) = n + k /\ Reverse(c) = zeros \o Reverse(b)
  <2>1. c \in Seq(Chars) /\ Len(c) = n + k BY <1>6, <1>11, ConcatIs
  <2>2. Reverse(c) = Reverse(zeros) \o Reverse(b) BY <1>11, ReverseBoth
  <2> QED BY <2>1, <2>2, <1>11
<1>13. b1 = c \o Repeat("0", drop) /\ Len(b1) = width
  <2>1. b \o (zeros \o Repeat("0", drop)) = c \o Repeat("0", drop)
    <3>1. PICK r \in Seq(Chars) : r = Repeat("0", drop) BY <1>11
    <3>2. (b \o zeros) \o r = b \o (zeros \o r)
      <4>1. zeros \in Seq(Chars) BY <1>11
      <4> QED BY ONLY <4>1, b \in Seq(Chars), r \in Seq(Chars), Rejoin
    <3> QED BY <3>1, <3>2, Zenon
  <2>2. b1 = c \o Repeat("0", drop) BY <1>9, <1>10, <2>1, Zenon
  <2> HIDE DEF b1, c
  <2>3. Len(b1) = n + k + drop BY <1>11, <1>12, <2>2, ConcatIs
  <2>4. n + k + drop = width BY <1>8
  <2> QED BY <2>2, <2>3, <2>4
<1>14. drop0 = drop
  <2>1. b1 # <<>>
    <3>1. Len(<<>>) = 0 /\ width # 0 BY <1>7
    <3> HIDE DEF b1
    <3> QED BY <3>1, <1>13, Zenon
  <2>2. Min({2, width}) = 2 /\ (base = 16 => width >= 2)
    <3>1. base = 16 => drop = 2 OBVIOUS
    <3>2. width >= 2 BY <1>7
    <3> QED BY <3>2, MinTwo
  <2> HIDE DEF b1
  <2> QED BY <2>1, <2>2, <1>2, <1>13, Zenon
<1> HIDE DEF drop0
<1>15. front = c
  <2>1. Len(b1) - drop0 = Len(c) BY <1>8, <1>12, <1>13, <1>14
  <2>2. SubSeq(c \o Repeat("0", drop), 1, Len(c)) = c BY <1>11, <1>12, FrontIs
  <2> HIDE DEF b1, c
  <2> QED BY <2>1, <2>2, <1>13, Zenon
<1> HIDE DEF front, b1, c
<1>16. b2 = (c \o mark) \o zero
  <2>0. c \o mark \in Seq(Chars) /\ Len(c \o mark) = Len(c) + Len(mark) BY <1>4, <1>12, ConcatIs
  <2>1. c \o mark \in Seq(Chars) /\ Len(c \o mark) = n + k + m BY <2>0, <1>6, <1>12, Zenon
  <2>2. n + k + m <= BufferSize /\ n + k + m + 1 <= BufferSize BY <1>3, <1>7, <1>8
  <2>3. Len(c) + Len(mark) <= BufferSize /\ Len(c \o mark) + Len(zero) <= BufferSize
    BY <2>1, <2>2, <1>4, <1>6, <1>12
  <2>4. Put(c, mark) = c \o mark BY <2>3, <1>4, <1>12, PutAll
  <2>5. Put(c \o mark, zero) = (c \o mark) \o zero BY <2>1, <2>3, <1>4, PutAll
  <2> QED BY <2>4, <2>5, <1>15, Zenon DEF zero
<1>17. c \o mark \in Seq(Chars) /\ b2 \in Seq(Chars) /\ Len(b2) <= BufferSize
  <2>1. c \o mark \in Seq(Chars) /\ Len(c \o mark) = Len(c) + Len(mark) BY <1>4, <1>12, ConcatIs
  <2>4. (c \o mark) \o zero \in Seq(Chars) /\ Len((c \o mark) \o zero) = Len(c \o mark) + Len(zero)
    BY <2>1, <1>4, ConcatIs
  <2>2. (c \o mark) \o zero \in Seq(Chars) /\ Len((c \o mark) \o zero) = n + k + m + 1
    BY <2>1, <2>4, <1>4, <1>6, <1>12
  <2>3. n + k + m + 1 <= BufferSize BY <1>3, <1>7, <1>8
  <2> QED BY <2>1, <2>2, <2>3, <1>16
<1>18. Put(b2, <<>>) = b2
  <2>1. Len(<<>>) = 0 /\ <<>> \in Seq(Chars) /\ Len(b2) \in Nat BY <1>17
  <2>2. Len(b2) + Len(<<>>) <= BufferSize BY <2>1, <1>17
  <2> HIDE DEF b2
  <2>3. Put(b2, <<>>) = b2 \o <<>> BY <2>1, <2>2, <1>17, PutAll
  <2> QED BY <2>3, <1>17, EmptyText
<1> HIDE DEF b2
<1>19. OutRev(b2, room, flags) = Reverse(b2) BY OutRevIs
<1>20. Reverse(b2) = zero \o (mark \o (zeros \o Reverse(b)))
  <2>1. Reverse((c \o mark) \o zero) = Reverse(zero) \o Reverse(c \o mark) BY <1>4, <1>17, ReverseBoth
  <2>2. Reverse(c \o mark) = Reverse(mark) \o Reverse(c) BY <1>4, <1>12, ReverseBoth
  <2> QED BY <2>1, <2>2, <1>4, <1>12, <1>16, Zenon
<1> QED BY <1>1, <1>5, <1>18, <1>19, <1>20, Zenon DEF zero, mark

\* The flags _ntoa_format is given.
LEMMA KeptIs ==
    ASSUME NEW d \in Directives, d.conv \in IntConvs
    PROVE  /\ "-" \in Kept(d) <=> "-" \in FlagsOf(d)
           /\ "0" \in Kept(d) <=> "0" \in d.flags /\ ~d.dot
           /\ "#" \in Kept(d) <=> "#" \in d.flags /\ d.conv \in {"x", "o", "b"} /\ StdValue(d) # 0
           /\ Sign(StdValue(d) < 0, Kept(d)) = StdSign(d)
           /\ d.conv # "d" => NoSign(Kept(d))
<1>1. "-" \in Kept(d) <=> "-" \in FlagsOf(d) BY Zenon DEF Kept, IntFlags
<1>2. "0" \in Kept(d) <=> "0" \in d.flags /\ ~d.dot BY Zenon DEF Kept, IntFlags, FlagsOf
<1>3. "#" \in Kept(d) <=> "#" \in d.flags /\ d.conv \in {"x", "o", "b"} /\ StdValue(d) # 0
  BY Zenon DEF Kept, IntFlags, FlagsOf, IntConvs
<1>4. d.conv # "d" => NoSign(Kept(d))
  <2>1. SUFFICES ASSUME d.conv # "d", NEW c \in {"+", " "}, c \in Kept(d) PROVE FALSE
    BY Zenon DEF NoSign
  <2> QED BY <2>1, Zenon DEF Kept, IntFlags
<1>5. Sign(StdValue(d) < 0, Kept(d)) = StdSign(d)
  <2>1. CASE d.conv = "d"
    <3>1. "+" \in Kept(d) <=> "+" \in d.flags BY <2>1, Zenon DEF Kept, IntFlags, FlagsOf
    <3>2. " " \in Kept(d) <=> " " \in d.flags BY <2>1, Zenon DEF Kept, IntFlags, FlagsOf
    <3> QED BY <2>1, <3>1, <3>2, Zenon DEF Sign, StdSign
  <2>2. CASE d.conv # "d"
    <3>1. ~(StdValue(d) < 0)
      <4>1. StdValue(d) \in Int /\ StdValue(d) >= 0 BY <2>2, StdParts
      <4> QED BY <4>1
    <3>2. "+" \notin Kept(d) /\ " " \notin Kept(d) BY <1>4, <2>2, Zenon DEF NoSign
    <3> QED BY <2>2, <3>1, <3>2, Zenon DEF Sign, StdSign
  <2> QED BY <2>1, <2>2
<1> QED BY <1>1, <1>2, <1>3, <1>4, <1>5

\* What fits of a whole number that is not too long.
LEMMA PartsFit ==
    ASSUME NEW d \in Directives, d.conv \in IntConvs, ~TooLong(d)
    PROVE  /\ Len(Figures(d)) <= BufferSize /\ PrecOf(d) <= BufferSize
           /\ Len(StdPrefix(d)) + Len(StdDigits(d)) <= BufferSize
           /\ Len(StdSign(d)) + Len(StdDigits(d)) <= BufferSize
<1>1. StdBare(d) \in Seq(Chars) /\ StdLeast(d) \in Nat /\ StdDigits(d) \in Seq(Chars)
      /\ StdPrefix(d) \in Seq(Chars) /\ StdSign(d) \in Seq(Chars)
  BY StdParts
<1>2. PICK n \in Nat, m \in Nat, k \in Nat, a \in Nat, l \in Nat :
         /\ n = Len(StdBare(d)) /\ m = StdLeast(d) /\ k = Len(StdDigits(d))
         /\ a = Len(StdPrefix(d)) /\ l = Len(StdSign(d))
  BY <1>1
<1>3. l + a + k <= BufferSize
  <2>1. Len(StdSign(d)) + Len(StdPrefix(d)) + Len(StdDigits(d)) <= BufferSize BY IntFits DEF StdSize
  <2> QED BY <2>1, <1>2
<1>4. BufferSize \in Nat BY PrintfTextAssumption
<1>5. k >= n /\ k >= m
  <2>1. m - n \in Int OBVIOUS
  <2>2. "0" \in Chars BY DEF Chars
  <2> DEFINE zeros == Repeat("0", m - n)
  <2>3. zeros \in Seq(Chars) /\ Len(zeros) = IF m - n <= 0 THEN 0 ELSE m - n BY <2>1, <2>2, RepeatIs
  <2>4. StdDigits(d) = zeros \o StdBare(d) BY <1>2, Zenon DEF StdDigits, AtLeast
  <2> HIDE DEF zeros
  <2>5. k = Len(zeros) + n BY <2>3, <2>4, <1>1, <1>2, ConcatIs
  <2> QED BY <2>3, <2>5
<1>6. Len(Figures(d)) <= BufferSize
  <2>1. CASE d.dot /\ StdValue(d) = 0
    <3>1. Figures(d) = <<>> BY <2>1, Zenon DEF Figures
    <3>2. Len(<<>>) = 0 OBVIOUS
    <3> QED BY <3>1, <3>2, <1>4
  <2>2. CASE ~(d.dot /\ StdValue(d) = 0)
    <3>1. StdBare(d) = Reverse(Figures(d)) BY <2>2, Zenon DEF StdBare, Figures, Stated
    <3>2. Figures(d) \in Seq(Chars) BY FiguresTyped
    <3>3. n = Len(Figures(d)) BY <1>2, <3>1, <3>2, ReverseIs
    <3>4. n <= BufferSize BY <1>3, <1>4, <1>5
    <3> QED BY <3>3, <3>4
  <2> QED BY <2>1, <2>2
<1>7. PrecOf(d) <= m
  <2> DEFINE x == IF Stated(d) THEN d.prec ELSE 0
             y == IF Octal(d) THEN IF StdValue(d) = 0 THEN 1 ELSE Len(StdBare(d)) + 1 ELSE 0
  <2>1. d.prec \in Int BY DirectiveTyped
  <2>2. x \in Int /\ PrecOf(d) = IF d.dot /\ d.prec > 0 THEN d.prec ELSE 0
    <3>1. 0 \in Int OBVIOUS
    <3>2. x \in Int BY <2>1, <3>1, Zenon
    <3> QED BY <3>2, Zenon DEF PrecOf
  <2>3. PrecOf(d) <= x \/ (x >= 0 /\ PrecOf(d) = 0)
    <3>1. CASE d.dot /\ d.prec > 0
      <4>1. d.prec >= 0 BY <2>1, <3>1
      <4>2. x = d.prec /\ PrecOf(d) = d.prec BY <3>1, <4>1, <2>2, Zenon DEF Stated
      <4> HIDE DEF x
      <4> QED BY <4>2, <2>1
    <3>2. CASE ~(d.dot /\ d.prec > 0)
      <4>1. PrecOf(d) = 0 BY <3>2, <2>2, Zenon
      <4>2. x >= 0
        <5>1. Stated(d) => d.prec >= 0 BY Zenon DEF Stated
        <5>2. 0 >= 0 OBVIOUS
        <5> QED BY <5>1, <5>2, Zenon
      <4> QED BY <4>1, <4>2
    <3> QED BY <3>1, <3>2
  <2>4. y \in Int
    <3>1. Len(StdBare(d)) + 1 \in Int /\ 0 \in Int /\ 1 \in Int BY <1>1
    <3> QED BY <3>1, Zenon
  <2>5. StdLeast(d) = Max({x, y}) BY Zenon DEF StdLeast
  <2>6. PrecOf(d) \in Int BY WidthTyped
  <2> HIDE DEF x, y
  <2>7. Max({x, y}) \in Int /\ Max({x, y}) >= x BY <2>2, <2>4, MaxTwo
  <2>8. m = Max({x, y}) BY <2>5, <1>2
  <2>9. CASE PrecOf(d) <= x BY <2>9, <2>2, <2>6, <2>7, <2>8
  <2>10. CASE x >= 0 /\ PrecOf(d) = 0 BY <2>10, <1>2
  <2> QED BY <2>3, <2>9, <2>10
<1>8. PrecOf(d) <= BufferSize
  <2>1. PrecOf(d) \in Int BY WidthTyped
  <2>2. m <= BufferSize BY <1>3, <1>4, <1>5
  <2> QED BY <2>1, <2>2, <1>7, <1>4
<1>9. a + k <= BufferSize /\ l + k <= BufferSize BY <1>3, <1>4
<1> QED BY <1>2, <1>6, <1>8, <1>9

\* The call of _ntoa_format.
LEMMA IntTextIs ==
    ASSUME NEW d \in Directives, d.conv \in IntConvs, ~TooLong(d), Argument(d) = StdValue(d)
    PROVE  IntText(d) = NtoaFormat(Figures(d), StdValue(d) < 0, Base(d.conv), d.dot, PrecOf(d),
                                   WidthOf(d), Kept(d))
<1> DEFINE v == StdValue(d)
           a == Magnitude(v)
           base == Base(d.conv)
           b == IF d.dot /\ a = 0 THEN <<>> ELSE Put(<<>>, Digits(a, base))
           kept == IF a = 0 THEN IntFlags(d) \ {"#"} ELSE IntFlags(d)
<1>1. IntText(d) = NtoaFormat(b, v < 0, base, d.dot, PrecOf(d), WidthOf(d), kept)
  BY Zenon DEF IntText, Ntoa, Magnitude
<1>2. a = 0 <=> v = 0
  <2>1. v \in Int BY StdParts
  <2> HIDE DEF v
  <2> QED BY <2>1 DEF Magnitude
<1>3. kept = Kept(d) BY <1>2, Zenon DEF Kept
<1>4. b = Figures(d)
  <2>1. CASE d.dot /\ v = 0 BY <2>1, <1>2, Zenon DEF Figures
  <2>2. CASE ~(d.dot /\ v = 0)
    <3>1. Figures(d) = Digits(a, base) BY <2>2, Zenon DEF Figures
    <3>2. Figures(d) \in Seq(Chars) /\ Len(Figures(d)) <= BufferSize /\ Len(Figures(d)) \in Nat
      BY FiguresTyped, PartsFit
    <3>3. Len(<<>>) + Len(Figures(d)) <= BufferSize
      <4>1. Len(<<>>) = 0 OBVIOUS
      <4> QED BY <4>1, <3>2
    <3>4. <<>> \in Seq(Chars) OBVIOUS
    <3>5. Put(<<>>, Figures(d)) = <<>> \o Figures(d) BY <3>2, <3>3, <3>4, PutAll
    <3>6. Put(<<>>, Figures(d)) = Figures(d) BY <3>2, <3>5, EmptyText
    <3> QED BY <2>2, <3>1, <3>6, <1>2, Zenon
  <2> QED BY <2>1, <2>2
<1> QED BY <1>1, <1>3, <1>4, Zenon

\* A number without '#' reads as C says.
LEMMA PlainReads ==
    ASSUME NEW d \in Directives, d.conv \in IntConvs, ~TooLong(d), ~IntDeviates(d), "#" \notin Kept(d)
    PROVE  IntText(d) = StdInt(d)
<1> DEFINE K == Kept(d)
           W == WidthOf(d)
           P == PrecOf(d)
           b == Figures(d)
           neg == StdValue(d) < 0
           w == PlacesOf(W, neg, K)
           zeros == "0" \in d.flags /\ ~Stated(d)
<1>1. Argument(d) = StdValue(d) BY IntSound
<1>2. W \in Nat /\ P \in Nat BY WidthTyped
<1>3. b \in Seq(Chars) /\ Len(b) <= BufferSize /\ P <= BufferSize BY FiguresTyped, PartsFit
<1>4. ~(Hashed(d) /\ d.conv \in {"x", "o", "b"}) BY KeptIs, Zenon DEF Hashed
<1>5. Core(d) \in Seq(Chars) /\ Reverse(Core(d)) = StdDigits(d) /\ Len(Core(d)) = Len(StdDigits(d))
  BY <1>4, CoreReads
<1>6. "-" \in K <=> "-" \in FlagsOf(d) BY KeptIs
<1>7. Core(d) = CoreOf(b, P, K) BY <1>6, Zenon DEF Core, CoreOf
<1>8. StdDigits(d) \in Seq(Chars) /\ StdSign(d) \in Seq(Chars)
      /\ Len(StdSign(d)) + Len(StdDigits(d)) <= BufferSize
  BY StdParts, PartsFit
<1>9. Len(Core(d)) <= BufferSize
  <2>1. BufferSize \in Nat BY PrintfTextAssumption
  <2>2. PICK s \in Nat, t \in Nat : s = Len(StdSign(d)) /\ t = Len(StdDigits(d)) BY <1>8
  <2>3. t <= BufferSize BY <2>1, <2>2, <1>8
  <2> QED BY <2>2, <2>3, <1>5
<1>10. IntText(d) = NtoaFormat(b, neg, Base(d.conv), d.dot, P, W, K) BY <1>1, IntTextIs
<1> HIDE DEF b, P
<1>11. NtoaFormat(b, neg, Base(d.conv), d.dot, P, W, K) = Padded(Core(d), neg, w, W, K)
  <2> HIDE DEF W, K, neg
  <2>1. "#" \notin K BY DEF K
  <2>2. Core(d) \in Seq(Chars) BY <1>5
  <2>3. b \in Seq(Chars) /\ P \in Nat /\ W \in Nat BY <1>2, <1>3
  <2>5. Len(b) <= BufferSize /\ P <= BufferSize /\ Len(Core(d)) <= BufferSize BY <1>3, <1>9
  <2>6. NtoaFormat(b, neg, Base(d.conv), d.dot, P, W, K)
        = Padded(Core(d), neg, w, W, K)
    BY <2>1, <2>2, <2>3, <2>5, <1>7, NtoaPlain
  <2> QED BY <2>6
<1>12. Sign(neg, K) = StdSign(d) BY KeptIs
<1>13. "-" \notin K => ("0" \in K <=> zeros)
  <2>1. "0" \in K <=> "0" \in d.flags /\ ~d.dot BY KeptIs
  <2>2. d.dot /\ "0" \in d.flags => Stated(d)
    <3>1. SUFFICES ASSUME d.dot, "0" \in d.flags PROVE d.prec >= 0 BY Zenon DEF Stated
    <3>2. ~(d.prec < 0) BY <3>1, IntSound
    <3>3. d.prec \in Int BY DirectiveTyped
    <3> QED BY <3>2, <3>3
  <2> QED BY <2>1, <2>2, Zenon DEF Stated
<1>14. "0" \in K /\ "-" \notin K => W <= BufferSize
  <2>1. "0" \in K => "0" \in d.flags BY KeptIs, Zenon
  <2> QED BY <2>1, <1>6, IntFits, Zenon
<1>15. ~("0" \in K /\ "-" \notin K) => w = W
  BY Zenon DEF RoomForSign, PlacesOf
<1>16. StdInt(d) = StdPad(StdSign(d), StdPrefix(d), StdDigits(d), d, zeros) BY StdIntIs
<1>17. StdPrefix(d) = <<>> BY <1>4, Zenon DEF StdPrefix
<1>18. <<>> \in Seq(Chars) /\ Len(<<>>) = 0 /\ Reverse(Core(d)) = <<>> \o StdDigits(d)
  BY <1>5, <1>8, EmptyText
<1>19. Len(Sign(neg, K)) + Len(<<>>) + Len(StdDigits(d)) <= BufferSize
  <2>1. PICK s \in Nat : s = Len(Sign(neg, K)) BY <1>8, <1>12
  <2>2. s + 0 + Len(StdDigits(d)) = s + Len(StdDigits(d))
    <3>1. Len(StdDigits(d)) \in Nat BY <1>8
    <3> QED BY <3>1
  <2> QED BY <2>1, <2>2, <1>8, <1>12, <1>18
<1> HIDE DEF w, zeros, neg, K
<1>20. Padded(Core(d), neg, w, W, K) = StdPad(Sign(neg, K), <<>>, StdDigits(d), d, zeros)
  <2> USE DEF W
  <2>1. Core(d) \in Seq(Chars) /\ <<>> \in Seq(Chars) /\ StdDigits(d) \in Seq(Chars)
        /\ WidthOf(d) \in Nat
    BY <1>2, <1>5, <1>8, <1>18
  <2>2. Reverse(Core(d)) = <<>> \o StdDigits(d) BY <1>18
  <2>3. "-" \in K <=> "-" \in FlagsOf(d) BY <1>6
  <2>4. "-" \notin K => ("0" \in K <=> zeros) BY <1>13
  <2>5. ~("0" \in K /\ "-" \notin K) => w = WidthOf(d) BY <1>15, Zenon
  <2>6. "0" \in K /\ "-" \notin K => WidthOf(d) <= BufferSize BY <1>14, Zenon
  <2>7. Len(Sign(neg, K)) + Len(<<>>) + Len(StdDigits(d)) <= BufferSize BY <1>19
  <2>8. "0" \in K /\ "-" \notin K
        => <<>> = <<>> \/ WidthOf(d) <= Len(Sign(neg, K)) + Len(<<>>) + Len(StdDigits(d))
    OBVIOUS
  <2>9. PadsAlike(Core(d), <<>>, StdDigits(d), d, neg, w, K, zeros)
    BY <2>1, <2>2, <2>3, <2>4, <2>5, <2>6, <2>7, <2>8, Zenon DEF PadsAlike
  <2>10. Padded(Core(d), neg, w, WidthOf(d), K) = StdPad(Sign(neg, K), <<>>, StdDigits(d), d, zeros)
    BY <2>9, PaddedIsStd
  <2> QED BY <2>10, Zenon
<1> QED BY <1>10, <1>11, <1>12, <1>16, <1>17, <1>20, Zenon

LEMMA OneZero == Repeat("0", 1) = <<"0">>
<1>1. "0" \in Chars BY DEF Chars
<1>2. PICK one \in Int : one = 1 OBVIOUS
<1>3. /\ Repeat("0", one) \in Seq(Chars)
      /\ Len(Repeat("0", one)) = IF one <= 0 THEN 0 ELSE one
      /\ \A k \in 1 .. Len(Repeat("0", one)) : Repeat("0", one)[k] = "0"
  BY <1>1, RepeatIs, Zenon
<1>4. Repeat("0", 1) \in Seq(Chars) /\ Len(Repeat("0", 1)) = 1
      /\ \A k \in 1 .. 1 : Repeat("0", 1)[k] = "0"
  BY <1>2, <1>3
<1>5. <<"0">> \in Seq(Chars) /\ Len(<<"0">>) = 1 /\ \A k \in 1 .. 1 : <<"0">>[k] = "0"
  BY <1>1
<1> QED BY <1>4, <1>5, SameTexts

\* The digits with what '#' adds to them, the wrong way round.
Marked(d) == Core(d) \o Mark(Base(d.conv)) \o <<"0">>

LEMMA MarkIs ==
    /\ Mark(16) = <<"x">> /\ Mark(8) = <<>> /\ Mark(2) = <<"b">>
    /\ Base("x") = 16 /\ Base("o") = 8 /\ Base("b") = 2
<1>1. 8 # 16 /\ 8 # 2 /\ 16 # 2 OBVIOUS
<1>2. Mark(16) = <<"x">> /\ Mark(8) = <<>> /\ Mark(2) = <<"b">> BY <1>1, Zenon DEF Mark
<1> QED BY <1>2, Zenon DEF Base

\* With '#' the value is not 0, and an octal number has no zeros but that of '#'.
LEMMA MarkParts ==
    ASSUME NEW d \in Directives, d.conv \in IntConvs, ~IntDeviates(d), "#" \in Kept(d)
    PROVE  /\ d.conv \in {"x", "o", "b"} /\ Hashed(d) /\ StdValue(d) # 0 /\ "#" \in d.flags
           /\ (StdValue(d) < 0) = FALSE /\ StdSign(d) = <<>> /\ NoSign(Kept(d))
           /\ Len(Figures(d)) >= 1
           /\ ~d.dot => PrecOf(d) = 0 /\ Core(d) = Figures(d)
           /\ d.conv = "o" => Core(d) = Figures(d) /\ StdDigits(d) = <<"0">> \o Reverse(Figures(d))
<1> DEFINE b == Figures(d)
<1>1. d.conv \in {"x", "o", "b"} /\ StdValue(d) # 0 /\ "#" \in d.flags BY KeptIs
<1>2. Hashed(d) BY <1>1, Zenon DEF Hashed
<1>3. (StdValue(d) < 0) = FALSE /\ StdSign(d) = <<>> /\ NoSign(Kept(d))
  <2>1. d.conv # "d" BY <1>1
  <2>2. StdValue(d) \in Int /\ StdValue(d) >= 0 BY <2>1, StdParts
  <2>3. ~(StdValue(d) < 0) BY <2>2
  <2>4. (StdValue(d) < 0) = FALSE BY <2>2
  <2>5. StdSign(d) = <<>> BY <2>1, Zenon DEF StdSign
  <2>6. NoSign(Kept(d)) BY <2>1, KeptIs
  <2> QED BY <2>4, <2>5, <2>6
<1>4. b \in Seq(Chars) /\ Len(b) \in Nat /\ Len(b) >= 1 BY <1>1, FiguresTyped
<1>5. d.prec \in Int /\ PrecOf(d) \in Nat /\ "0" \in Chars
  <2>1. "0" \in Chars BY DEF Chars
  <2>2. d.prec \in Int BY DirectiveTyped
  <2>3. PrecOf(d) \in Nat BY WidthTyped
  <2> QED BY <2>1, <2>2, <2>3
<1>6. PrecOf(d) = IF d.dot /\ d.prec > 0 THEN d.prec ELSE 0 BY Zenon DEF PrecOf
<1> HIDE DEF b
<1>7. ASSUME PrecOf(d) <= Len(b) PROVE Core(d) = b
  <2>1. Repeat("0", PrecOf(d) - Len(b)) = <<>>
    <3>1. PrecOf(d) - Len(b) \in Int /\ PrecOf(d) - Len(b) <= 0 BY <1>4, <1>5, <1>7
    <3> QED BY <3>1, <1>5, RepeatIs
  <2>2. b \o <<>> = b BY <1>4, EmptyText
  <2> QED BY <2>1, <2>2, Zenon DEF Core, b
<1>8. ~d.dot => PrecOf(d) = 0 /\ Core(d) = b
  <2>1. SUFFICES ASSUME ~d.dot PROVE PrecOf(d) = 0 /\ Core(d) = b OBVIOUS
  <2>2. PrecOf(d) = 0 BY <2>1, <1>6, Zenon
  <2> QED BY <2>2, <1>4, <1>7
<1>9. d.conv = "o" => Core(d) = b /\ StdDigits(d) = <<"0">> \o Reverse(b)
  <2>1. SUFFICES ASSUME d.conv = "o" PROVE Core(d) = b /\ StdDigits(d) = <<"0">> \o Reverse(b)
    OBVIOUS
  <2>2. d.dot => ~(d.prec > Len(b)) BY <2>1, <1>1, IntSound, Zenon DEF b
  <2>3. PrecOf(d) <= Len(b)
    <3>1. CASE d.dot /\ d.prec > 0 BY <3>1, <2>2, <1>4, <1>5, <1>6
    <3>2. CASE ~(d.dot /\ d.prec > 0)
      <4>1. PrecOf(d) = 0 BY <3>2, <1>6, Zenon
      <4> QED BY <4>1, <1>4
    <3> QED BY <3>1, <3>2
  <2>4. StdBare(d) = Reverse(b) /\ Len(Reverse(b)) = Len(b) /\ Reverse(b) \in Seq(Chars)
    <3>1. StdBare(d) = Reverse(b) BY <1>1, Zenon DEF StdBare, b, Figures
    <3> QED BY <3>1, <1>4, ReverseIs
  <2> DEFINE x == IF Stated(d) THEN d.prec ELSE 0
  <2>5. x \in Int /\ ~(x > Len(b))
    <3>1. CASE Stated(d)
      <4>1. x = d.prec /\ d.dot BY <3>1, Zenon DEF Stated
      <4> QED BY <4>1, <2>2, <1>5
    <3>2. CASE ~Stated(d)
      <4>1. x = 0 BY <3>2, Zenon
      <4> QED BY <4>1, <1>4
    <3> QED BY <3>1, <3>2
  <2>6. StdLeast(d) = Max({x, Len(StdBare(d)) + 1})
    BY <2>1, <1>1, <1>2, Zenon DEF StdLeast, Octal, Hashed
  <2> HIDE DEF x
  <2>7. StdLeast(d) - Len(StdBare(d)) = 1
    <3>1. Len(StdBare(d)) = Len(b) BY <2>4
    <3>2. Max({x, Len(b) + 1}) = Len(b) + 1
      <4>1. Len(b) + 1 \in Int BY <1>4
      <4>2. x <= Len(b) + 1 BY <2>5, <1>4
      <4> QED BY <4>1, <4>2, <2>5, MaxTwo
    <3> QED BY <3>1, <3>2, <2>6, <1>4
  <2>8. StdDigits(d) = Repeat("0", 1) \o Reverse(b) BY <2>4, <2>7 DEF StdDigits, AtLeast
  <2>9. Repeat("0", 1) = <<"0">> BY OneZero
  <2> QED BY <2>3, <2>8, <2>9, <1>7
<1> QED BY <1>1, <1>2, <1>3, <1>4, <1>8, <1>9 DEF b

LEMMA TwoChars == ASSUME NEW x \in Chars, NEW y \in Chars PROVE <<x>> \o <<y>> = <<x, y>>
<1>1. <<x>> \in Seq(Chars) /\ <<y>> \in Seq(Chars) /\ <<x, y>> \in Seq(Chars)
      /\ Len(<<x>>) = 1 /\ Len(<<y>>) = 1 /\ Len(<<x, y>>) = 2
      /\ <<x>>[1] = x /\ <<y>>[1] = y /\ <<x, y>>[1] = x /\ <<x, y>>[2] = y
  OBVIOUS
<1> DEFINE a == <<x>>
           b == <<y>>
           c == <<x, y>>
<1> HIDE DEF a, b, c
<1>2. a \in Seq(Chars) /\ b \in Seq(Chars) /\ c \in Seq(Chars)
      /\ Len(a) = 1 /\ Len(b) = 1 /\ Len(c) = 2
      /\ a[1] = x /\ b[1] = y /\ c[1] = x /\ c[2] = y
  BY <1>1 DEF a, b, c
<1>3. a \o b \in Seq(Chars) /\ Len(a \o b) = 2 /\ (a \o b)[1] = x /\ (a \o b)[2] = y
  <2>1. /\ a \o b \in Seq(Chars) /\ Len(a \o b) = Len(a) + Len(b)
        /\ \A k \in 1 .. Len(a) + Len(b) : (a \o b)[k] = IF k <= Len(a) THEN a[k] ELSE b[k - Len(a)]
    BY <1>2, ConcatIs
  <2>2. Len(a) + Len(b) = 2 /\ 1 \in 1 .. 2 /\ 2 \in 1 .. 2 BY <1>2
  <2>3. \A k \in 1 .. 2 : (a \o b)[k] = IF k <= 1 THEN a[k] ELSE b[k - 1] BY <2>1, <2>2, <1>2
  <2>4. (a \o b)[1] = a[1] BY <2>2, <2>3
  <2>5. (a \o b)[2] = b[1]
    <3>1. (a \o b)[2] = b[2 - 1] BY <2>2, <2>3
    <3>2. 2 - 1 = 1 OBVIOUS
    <3> QED BY <3>1, <3>2, Zenon
  <2> QED BY <2>1, <2>2, <2>4, <2>5, <1>2
<1>4. \A k \in 1 .. 2 : (a \o b)[k] = c[k] BY <1>2, <1>3
<1>5. a \o b = c BY <1>2, <1>3, <1>4, SameTexts
<1> QED BY <1>5, Zenon DEF a, b, c

\* The number with its '#', were it not padded.
LEMMA MarkReads ==
    ASSUME NEW d \in Directives, d.conv \in IntConvs, ~IntDeviates(d), "#" \in Kept(d)
    PROVE  /\ Core(d) \in Seq(Chars) /\ Marked(d) \in Seq(Chars)
           /\ Reverse(Marked(d)) = StdPrefix(d) \o StdDigits(d)
           /\ Len(Core(d)) + Len(Mark(Base(d.conv))) + 1 = Len(StdPrefix(d)) + Len(StdDigits(d))
<1> DEFINE core == Core(d)
           mark == Mark(Base(d.conv))
           zero == <<"0">>
<1>1. d.conv \in {"x", "o", "b"} /\ Hashed(d) BY MarkParts
<1>2. /\ zero \in Seq(Chars) /\ Reverse(zero) = zero /\ Len(zero) = 1
      /\ mark \in Seq(Chars) /\ Reverse(mark) = mark
  <2>1. "0" \in Chars /\ "x" \in Chars /\ "b" \in Chars BY DEF Chars
  <2>2. mark \in {<<"x">>, <<"b">>, <<>>} BY Zenon DEF Mark
  <2>3. zero \in Seq(Chars) /\ Len(zero) = 1 /\ Reverse(zero) = zero BY <2>1, ReverseShort
  <2>4. <<"x">> \in Seq(Chars) /\ <<"b">> \in Seq(Chars) BY <2>1, ShortSeqs
  <2> HIDE DEF zero
  <2> QED BY <2>1, <2>2, <2>3, <2>4, ShortSeqs, ReverseShort, Zenon
<1>3. core \in Seq(Chars) /\ Reverse(core) \in Seq(Chars) /\ Len(Reverse(core)) = Len(core)
  <2>1. CASE d.conv = "o"
    <3>1. core = Figures(d) BY <2>1, MarkParts
    <3> QED BY <3>1, FiguresTyped, ReverseIs
  <2>2. CASE d.conv # "o" BY <2>2, CoreReads, ReverseIs
  <2> QED BY <2>1, <2>2
<1>4. StdPrefix(d) \in Seq(Chars) /\ StdDigits(d) \in Seq(Chars) BY StdParts
<1> HIDE DEF core, mark, zero
<1>5. /\ core \o mark \in Seq(Chars) /\ (core \o mark) \o zero \in Seq(Chars)
      /\ Len((core \o mark) \o zero) = Len(core) + Len(mark) + 1
      /\ Reverse((core \o mark) \o zero) = zero \o (mark \o Reverse(core))
  <2>1. core \o mark \in Seq(Chars) /\ Len(core \o mark) = Len(core) + Len(mark)
    BY <1>2, <1>3, ConcatIs
  <2>2. (core \o mark) \o zero \in Seq(Chars)
        /\ Len((core \o mark) \o zero) = Len(core \o mark) + Len(zero)
    BY <2>1, <1>2, ConcatIs
  <2>3. Reverse((core \o mark) \o zero) = Reverse(zero) \o Reverse(core \o mark)
    BY <2>1, <1>2, ReverseBoth
  <2>4. Reverse(core \o mark) = Reverse(mark) \o Reverse(core) BY <1>2, <1>3, ReverseBoth
  <2> QED BY <2>1, <2>2, <2>3, <2>4, <1>2
<1>6. zero \o (mark \o Reverse(core)) = StdPrefix(d) \o StdDigits(d)
  <2>1. (zero \o mark) \o Reverse(core) = zero \o (mark \o Reverse(core)) BY <1>2, <1>3, Rejoin
  <2>2. CASE d.conv = "o"
    <3>1. mark = <<>> BY <2>2, MarkIs, Zenon DEF mark
    <3>2. StdPrefix(d) = <<>>
      <4>1. d.conv # "x" /\ d.conv # "b" BY <2>2
      <4> QED BY <4>1, Zenon DEF StdPrefix
    <3>3. StdDigits(d) = zero \o Reverse(core) BY <2>2, MarkParts, Zenon DEF core, zero
    <3>4. mark \o Reverse(core) = Reverse(core) BY <3>1, <1>3, EmptyText
    <3>5. StdPrefix(d) \o StdDigits(d) = StdDigits(d) BY <3>2, <1>4, EmptyText
    <3> QED BY <3>3, <3>4, <3>5, Zenon
  <2>3. CASE d.conv = "x"
    <3>1. mark = <<"x">> BY <2>3, MarkIs, Zenon DEF mark
    <3>2. StdPrefix(d) = <<"0", "x">> BY <2>3, <1>1, Zenon DEF StdPrefix
    <3>3. Reverse(core) = StdDigits(d) BY <2>3, CoreReads DEF core
    <3>4. <<"0">> \o <<"x">> = <<"0", "x">>
      <4>1. "0" \in Chars /\ "x" \in Chars BY DEF Chars
      <4> QED BY <4>1, TwoChars, Zenon
    <3> QED BY <3>1, <3>2, <3>3, <3>4, <2>1, Zenon DEF zero
  <2>4. CASE d.conv = "b"
    <3>1. mark = <<"b">> BY <2>4, MarkIs, Zenon DEF mark
    <3>2. StdPrefix(d) = <<"0", "b">>
      <4>1. d.conv # "x" BY <2>4
      <4> QED BY <4>1, <2>4, <1>1, Zenon DEF StdPrefix
    <3>3. Reverse(core) = StdDigits(d) BY <2>4, CoreReads DEF core
    <3>4. <<"0">> \o <<"b">> = <<"0", "b">>
      <4>1. "0" \in Chars /\ "b" \in Chars BY DEF Chars
      <4> QED BY <4>1, TwoChars, Zenon
    <3> QED BY <3>1, <3>2, <3>3, <3>4, <2>1, Zenon DEF zero
  <2> QED BY <2>2, <2>3, <2>4, <1>1
<1>7. Marked(d) = (core \o mark) \o zero BY Zenon DEF Marked, core, mark, zero
<1>8. Len(core) + Len(mark) + 1 = Len(StdPrefix(d)) + Len(StdDigits(d))
  <2>1. Len(Reverse((core \o mark) \o zero)) = Len((core \o mark) \o zero) BY <1>5, ReverseIs
  <2>2. Len(StdPrefix(d) \o StdDigits(d)) = Len(StdPrefix(d)) + Len(StdDigits(d)) BY <1>4, ConcatIs
  <2> QED BY <2>1, <2>2, <1>5, <1>6, Zenon
<1> QED BY <1>3, <1>5, <1>6, <1>7, <1>8, Zenon DEF core, mark

LEMMA MarkTyped == ASSUME NEW base PROVE Mark(base) \in Seq(Chars)
<1>1. "x" \in Chars /\ "b" \in Chars BY DEF Chars
<1>2. Mark(base) \in {<<"x">>, <<"b">>, <<>>} BY Zenon DEF Mark
<1>3. <<"x">> \in Seq(Chars) /\ <<"b">> \in Seq(Chars) BY <1>1, ShortSeqs
<1> QED BY <1>2, <1>3, ShortSeqs, Zenon

\* The flag '0' as the code and as C take it.
LEMMA ZerosAlike ==
    ASSUME NEW d \in Directives, d.conv \in IntConvs, ~TooLong(d), ~IntDeviates(d)
    PROVE  /\ "0" \in Kept(d) <=> "0" \in d.flags /\ ~Stated(d)
           /\ "0" \in Kept(d) /\ "-" \notin Kept(d) => WidthOf(d) <= BufferSize
<1>1. "0" \in Kept(d) <=> "0" \in d.flags /\ ~d.dot BY KeptIs
<1>2. d.dot /\ "0" \in d.flags => Stated(d)
  <2>1. SUFFICES ASSUME d.dot, "0" \in d.flags PROVE d.prec >= 0 BY Zenon DEF Stated
  <2>2. ~(d.prec < 0) BY <2>1, IntSound
  <2>3. d.prec \in Int BY DirectiveTyped
  <2> QED BY <2>2, <2>3
<1>3. "-" \in Kept(d) <=> "-" \in FlagsOf(d) BY KeptIs
<1> QED BY <1>1, <1>2, <1>3, IntFits, Zenon DEF Stated

\* A number with '#' and no zeros up to the width reads as C says.
LEMMA MarkedReads ==
    ASSUME NEW d \in Directives, d.conv \in IntConvs, ~TooLong(d), ~IntDeviates(d), "#" \in Kept(d),
           "0" \in Kept(d) /\ "-" \notin Kept(d) => WidthOf(d) <= Len(Figures(d))
    PROVE  IntText(d) = StdInt(d)
<1> DEFINE K == Kept(d)
           W == WidthOf(d)
           P == PrecOf(d)
           b == Figures(d)
           base == Base(d.conv)
           zeros == "0" \in d.flags /\ ~Stated(d)
<1>1. Argument(d) = StdValue(d) BY IntSound
<1>2. W \in Nat /\ P \in Nat BY WidthTyped
<1>3. b \in Seq(Chars) /\ Len(b) <= BufferSize /\ P <= BufferSize /\ Len(b) \in Nat
  BY FiguresTyped, PartsFit
<1>4. /\ d.conv \in {"x", "o", "b"} /\ (StdValue(d) < 0) = FALSE /\ StdSign(d) = <<>> /\ NoSign(K)
      /\ Len(b) >= 1
  BY MarkParts
<1>5. "-" \in K <=> "-" \in FlagsOf(d) BY KeptIs
<1>6. Core(d) = CoreOf(b, P, K) BY <1>5, Zenon DEF Core, CoreOf
<1>7. /\ Core(d) \in Seq(Chars) /\ Marked(d) \in Seq(Chars)
      /\ Reverse(Marked(d)) = StdPrefix(d) \o StdDigits(d)
      /\ Len(Core(d)) + Len(Mark(base)) + 1 = Len(StdPrefix(d)) + Len(StdDigits(d))
  BY MarkReads
<1>8. Len(StdPrefix(d)) + Len(StdDigits(d)) <= BufferSize BY PartsFit
<1>9. "0" \in K /\ "-" \notin K => W <= BufferSize BY ZerosAlike
<1>10. base \in {2, 8, 16}
  <2>1. d.conv = "x" \/ d.conv = "o" \/ d.conv = "b" BY <1>4
  <2> QED BY <2>1, MarkIs
<1>11. IntText(d) = NtoaFormat(b, FALSE, base, d.dot, P, W, K)
  <2>1. IntText(d) = NtoaFormat(b, StdValue(d) < 0, base, d.dot, P, W, K) BY <1>1, IntTextIs
  <2> QED BY <2>1, <1>4, Zenon
<1>12. ~d.dot => P = 0 /\ Core(d) = b BY MarkParts
<1>13. Len(b) <= Len(Core(d))
  <2>1. CASE "-" \in K
    <3>1. Core(d) = b BY <2>1, <1>6, Zenon DEF CoreOf
    <3> QED BY <3>1, <1>3
  <2>2. CASE "-" \notin K
    <3>1. Core(d) = b \o Repeat("0", P - Len(b)) BY <2>2, <1>6, Zenon DEF CoreOf
    <3>2. "0" \in Chars BY DEF Chars
    <3>3. P - Len(b) \in Int BY <1>2, <1>3
    <3>4. PICK r \in Seq(Chars) : r = Repeat("0", P - Len(b)) BY <3>2, <3>3, RepeatIs
    <3> HIDE DEF b
    <3>5. Len(Core(d)) = Len(b) + Len(r) BY <3>1, <3>4, <1>3, ConcatIs
    <3> QED BY <3>5, <3>4, <1>3
  <2> QED BY <2>1, <2>2
<1>14. ~d.dot => Len(b) # W
  <2>1. "#" \in d.flags /\ StdValue(d) # 0 BY MarkParts
  <2> QED BY <2>1, <1>4, IntSound
<1>15. d.dot \/ (Len(Core(d)) # W /\ Len(Core(d)) # P)
  <2> HIDE DEF W, P, b
  <2> QED BY <1>12, <1>14, <1>4, <1>3
<1>16. "#" \in K OBVIOUS
<1>17. "0" \in K /\ "-" \notin K => W <= Len(Core(d))
  <2>1. "0" \in K /\ "-" \notin K => W <= Len(b) OBVIOUS
  <2>2. Len(Core(d)) \in Nat BY <1>7
  <2> HIDE DEF W, b, K
  <2> QED BY <2>1, <2>2, <1>2, <1>3, <1>13
<1>18. Sign(FALSE, K) = <<>> BY <1>4, Zenon DEF Sign, NoSign
<1>19. StdInt(d) = StdPad(<<>>, StdPrefix(d), StdDigits(d), d, zeros)
  <2>1. StdInt(d) = StdPad(StdSign(d), StdPrefix(d), StdDigits(d), d, zeros) BY StdIntIs
  <2> QED BY <2>1, <1>4, Zenon
<1>20. "0" \in K <=> zeros BY ZerosAlike
<1>21. StdPrefix(d) \in Seq(Chars) /\ StdDigits(d) \in Seq(Chars) BY StdParts
<1> HIDE DEF K, P, b, base, zeros
<1>22. Marked(d) = CoreOf(b, P, K) \o Mark(base) \o <<"0">> BY <1>6, Zenon DEF Marked, base
<1>23. NtoaFormat(b, FALSE, base, d.dot, P, W, K) = Padded(Marked(d), FALSE, W, W, K)
  <2> HIDE DEF W
  <2>1. CoreOf(b, P, K) \in Seq(Chars) BY <1>6, <1>7
  <2>2. Len(CoreOf(b, P, K)) + Len(Mark(base)) + 1 <= BufferSize BY <1>6, <1>7, <1>8 DEF base
  <2>3. Undropped(CoreOf(b, P, K), d.dot, P, W) BY <1>6, <1>15, Zenon DEF Undropped
  <2>4. "0" \in K /\ "-" \notin K => W <= BufferSize /\ W <= Len(CoreOf(b, P, K))
    BY <1>6, <1>9, <1>17
  <2>5. MarksAlone(b, FALSE, base, d.dot, P, W, K)
    BY <1>2, <1>3, <1>4, <1>10, <1>16, <2>1, <2>2, <2>3, <2>4, Zenon DEF MarksAlone
  <2>6. PICK no : no = FALSE OBVIOUS
  <2>7. MarksAlone(b, no, base, d.dot, P, W, K) BY <2>5, <2>6, Zenon
  <2>8. NtoaFormat(b, no, base, d.dot, P, W, K)
        = Padded(CoreOf(b, P, K) \o Mark(base) \o <<"0">>, no, W, W, K)
    BY <2>7, NtoaMarked
  <2> QED BY <2>6, <2>8, <1>22, Zenon
<1>24. PadsAlike(Marked(d), StdPrefix(d), StdDigits(d), d, FALSE, W, K, zeros)
  <2>1. Len(Sign(FALSE, K)) + Len(StdPrefix(d)) + Len(StdDigits(d))
        = Len(StdPrefix(d)) + Len(StdDigits(d))
    <3>1. PICK l \in Nat, m \in Nat : l = Len(StdPrefix(d)) /\ m = Len(StdDigits(d)) BY <1>21
    <3>2. Len(<<>>) = 0 OBVIOUS
    <3>3. 0 + l + m = l + m OBVIOUS
    <3> QED BY <1>18, <3>1, <3>2, <3>3
  <2>2. "0" \in K /\ "-" \notin K
        => W <= Len(Sign(FALSE, K)) + Len(StdPrefix(d)) + Len(StdDigits(d))
    <3>1. PICK l \in Nat, m \in Nat : l = Len(Core(d)) /\ m = Len(Mark(base))
      <4>1. Mark(base) \in Seq(Chars) BY MarkTyped
      <4> QED BY <4>1, <1>7
    <3>2. l + m + 1 = Len(StdPrefix(d)) + Len(StdDigits(d)) BY <3>1, <1>7 DEF base
    <3> HIDE DEF W
    <3>3. "0" \in K /\ "-" \notin K => W <= l BY <3>1, <1>17, Zenon
    <3>4. W <= l => W <= l + m + 1 BY <1>2
    <3> QED BY <2>1, <3>2, <3>3, <3>4, Zenon
  <2>3. WidthOf(d) \in Nat BY <1>2
  <2>4. Len(Sign(FALSE, K)) + Len(StdPrefix(d)) + Len(StdDigits(d)) <= BufferSize
    BY <2>1, <1>8, Zenon
  <2> QED BY <1>5, <1>7, <1>9, <1>20, <1>21, <2>2, <2>3, <2>4, Zenon DEF PadsAlike
<1>25. Padded(Marked(d), FALSE, W, W, K) = StdPad(Sign(FALSE, K), StdPrefix(d), StdDigits(d), d, zeros)
  <2>1. PICK no : no = FALSE OBVIOUS
  <2>2. PadsAlike(Marked(d), StdPrefix(d), StdDigits(d), d, no, W, K, zeros) BY <1>24, <2>1, Zenon
  <2>3. Padded(Marked(d), no, W, W, K) = StdPad(Sign(no, K), StdPrefix(d), StdDigits(d), d, zeros)
    BY <2>2, PaddedIsStd
  <2> QED BY <2>1, <2>3, Zenon
<1> QED BY <1>11, <1>18, <1>19, <1>23, <1>25, Zenon DEF base

\* A number with '#' and zeros up to the width reads as C says.
LEMMA FilledReads ==
    ASSUME NEW d \in Directives, d.conv \in IntConvs, ~TooLong(d), ~IntDeviates(d), "#" \in Kept(d),
           "0" \in Kept(d), "-" \notin Kept(d), WidthOf(d) > Len(Figures(d))
    PROVE  IntText(d) = StdInt(d)
<1> DEFINE K == Kept(d)
           W == WidthOf(d)
           b == Figures(d)
           n == Len(b)
           base == Base(d.conv)
           rev == Reverse(b)
<1>1. Argument(d) = StdValue(d) BY IntSound
<1>2. W \in Nat BY WidthTyped
<1>3. b \in Seq(Chars) /\ n \in Nat /\ rev \in Seq(Chars) /\ Len(rev) = n
  <2>1. b \in Seq(Chars) /\ n \in Nat BY FiguresTyped
  <2> HIDE DEF b
  <2> QED BY <2>1, ReverseIs
<1>4. /\ d.conv \in {"x", "o", "b"} /\ (StdValue(d) < 0) = FALSE /\ StdSign(d) = <<>> /\ NoSign(K)
      /\ n >= 1 /\ StdValue(d) # 0 /\ "#" \in d.flags /\ Hashed(d)
  BY MarkParts
<1>5. "0" \in d.flags /\ ~Stated(d) /\ "-" \notin FlagsOf(d) /\ W <= BufferSize /\ ~d.dot
  <2>1. "0" \in d.flags /\ ~d.dot /\ "-" \notin FlagsOf(d) BY KeptIs
  <2>2. ~Stated(d) BY <2>1, Zenon DEF Stated
  <2> QED BY <2>1, <2>2, ZerosAlike
<1>6. PrecOf(d) = 0 /\ Core(d) = b BY <1>5, MarkParts
<1>7. W # n /\ (d.conv = "x" => W # n + 1) /\ (d.conv = "b" => ~(W > n + 1))
  BY <1>4, <1>5, IntSound
<1>8. W > n OBVIOUS
<1>9. Len(StdPrefix(d)) + Len(StdDigits(d)) <= BufferSize BY PartsFit
<1>10. /\ Len(b) + Len(Mark(base)) + 1 = Len(StdPrefix(d)) + Len(StdDigits(d))
  BY <1>6, MarkReads
<1>11. IntText(d) = NtoaFormat(b, FALSE, base, d.dot, 0, W, K)
  <2>1. IntText(d) = NtoaFormat(b, StdValue(d) < 0, base, d.dot, PrecOf(d), W, K) BY <1>1, IntTextIs
  <2> QED BY <2>1, <1>4, <1>6, Zenon
<1>12. StdInt(d) = StdPad(<<>>, StdPrefix(d), StdDigits(d), d, TRUE)
  <2>1. StdInt(d) = StdPad(StdSign(d), StdPrefix(d), StdDigits(d), d, "0" \in d.flags /\ ~Stated(d))
    BY StdIntIs
  <2>2. ("0" \in d.flags /\ ~Stated(d)) = TRUE BY <1>5, Zenon
  <2> QED BY <2>1, <2>2, <1>4, Zenon
<1> DEFINE pad == W - (Len(<<>>) + Len(StdPrefix(d)) + Len(StdDigits(d)))
<1>13. StdInt(d) = <<>> \o StdPrefix(d) \o Repeat("0", pad) \o StdDigits(d)
  BY <1>5, <1>12, Zenon DEF StdPad
<1>14. StdPrefix(d) \in Seq(Chars) /\ StdDigits(d) \in Seq(Chars) /\ <<"0">> \in Seq(Chars)
       /\ Mark(base) \in Seq(Chars) /\ "0" \in Chars
  <2>1. "0" \in Chars BY DEF Chars
  <2> QED BY <2>1, ShortSeqs, StdParts, MarkTyped
<1>15. "#" \in K /\ "0" \in K /\ "-" \notin K OBVIOUS
<1> HIDE DEF K, W, b, n, base, rev
<1>16. PICK m \in Nat : m = Len(Mark(base)) /\ pad \in Int /\ pad = W - (n + m + 1)
                        /\ n + m + 1 <= BufferSize
  <2>1. PICK m \in Nat, i \in Nat, j \in Nat :
            m = Len(Mark(base)) /\ i = Len(StdPrefix(d)) /\ j = Len(StdDigits(d))
    BY <1>14
  <2>2. n + m + 1 = i + j /\ i + j <= BufferSize BY <1>9, <1>10, <2>1 DEF n
  <2>3. Len(<<>>) = 0 OBVIOUS
  <2>4. pad = W - (0 + i + j) BY <2>1, <2>3
  <2> HIDE DEF pad
  <2>5. pad \in Int /\ pad = W - (n + m + 1) BY <2>2, <2>4, <1>2, <1>3
  <2> QED BY <2>1, <2>2, <2>5
<1> HIDE DEF pad
<1>17. ASSUME NEW drop \in {1, 2}, drop = IF base = 16 THEN 2 ELSE 1, n + drop <= W,
              W - drop + m + 1 <= BufferSize, base \in {2, 8, 16}
       PROVE  IntText(d) = <<"0">> \o (Mark(base) \o (Repeat("0", W - n - drop) \o rev))
  <2>1. PICK zeros : zeros = Repeat("0", W - Len(b) - drop) OBVIOUS
  <2>2. PICK no : no = FALSE OBVIOUS
  <2>3. MarksFilled(b, FALSE, base, d.dot, 0, W, K, drop, zeros)
    <3>1. W - drop + Len(Mark(base)) + 1 <= BufferSize BY <1>16, <1>17
    <3>2. Len(b) >= 1 /\ W > Len(b) /\ Len(b) + drop <= W BY <1>4, <1>8, <1>17 DEF n
    <3> QED BY <3>1, <3>2, <2>1, <1>2, <1>3, <1>4, <1>5, <1>15, <1>17, Zenon DEF MarksFilled
  <2>4. MarksFilled(b, no, base, d.dot, 0, W, K, drop, zeros) BY <2>2, <2>3, Zenon
  <2>5. NtoaFormat(b, no, base, d.dot, 0, W, K) = <<"0">> \o (Mark(base) \o (zeros \o Reverse(b)))
    BY <2>4, NtoaDropped
  <2> QED BY <2>1, <2>2, <2>5, <1>11, Zenon DEF n, rev
<1>18. StdPrefix(d) \o Repeat("0", pad) \o StdDigits(d) = StdInt(d)
  <2>1. <<>> \o StdPrefix(d) = StdPrefix(d) BY <1>14, EmptyText
  <2> QED BY <2>1, <1>13, Zenon
<1>19. /\ 16 # 8 /\ 16 # 2 /\ 8 # 2 /\ Len(<<"x">>) = 1 /\ Len(<<"b">>) = 1 /\ Len(<<>>) = 0
  OBVIOUS
<1>20. CASE d.conv = "x"
  <2>1. base = 16 /\ Mark(base) = <<"x">> /\ m = 1 BY <1>16, <1>19, <1>20, MarkIs, Zenon DEF base
  <2>2. n + 2 <= W /\ W - 2 + m + 1 <= BufferSize
    <3>1. W <= BufferSize /\ BufferSize \in Nat BY <1>5, PrintfTextAssumption
    <3> QED BY <3>1, <1>2, <1>3, <1>7, <1>8, <1>20, <2>1
  <2>3. IntText(d) = <<"0">> \o (Mark(base) \o (Repeat("0", W - n - 2) \o rev))
    BY <2>1, <2>2, <1>17
  <2>4. pad = W - n - 2 BY <2>1, <1>2, <1>3, <1>16
  <2>5. StdDigits(d) = rev
    <3>1. d.conv # "o" BY <1>20
    <3> QED BY <3>1, <1>6, CoreReads, Zenon DEF rev, b
  <2>6. StdPrefix(d) = <<"0">> \o <<"x">>
    <3>1. "0" \in Chars /\ "x" \in Chars BY DEF Chars
    <3> QED BY <3>1, <1>4, <1>20, TwoChars, Zenon DEF StdPrefix
  <2>7. PICK z \in Seq(Chars) : z = Repeat("0", pad) BY <1>14, <1>16, RepeatIs
  <2>8. (<<"0">> \o <<"x">>) \o z \o rev = <<"0">> \o (<<"x">> \o (z \o rev))
    <3>1. PICK u \in Seq(Chars), t \in Seq(Chars) : u = <<"0">> /\ t = <<"x">>
      BY <1>14, <2>1
    <3>2. z \o rev \in Seq(Chars) /\ u \o t \in Seq(Chars) BY <1>3, ConcatIs
    <3>3. (u \o t) \o (z \o rev) = u \o (t \o (z \o rev)) BY <3>2, Rejoin
    <3>4. PICK y \in Seq(Chars) : y = u \o t BY <3>2
    <3>5. (y \o z) \o rev = y \o (z \o rev) BY <1>3, Rejoin
    <3> QED BY <3>1, <3>3, <3>4, <3>5, Zenon
  <2> QED BY <2>1, <2>3, <2>4, <2>5, <2>6, <2>7, <2>8, <1>18, Zenon
<1>21. CASE d.conv = "b"
  <2>1. base = 2 /\ Mark(base) = <<"b">> /\ m = 1 BY <1>16, <1>19, <1>21, MarkIs, Zenon DEF base
  <2>2. n + 1 <= W /\ W - 1 + m + 1 <= BufferSize /\ W = n + 1
    <3>1. BufferSize \in Nat BY PrintfTextAssumption
    <3>2. W = n + 1 BY <1>2, <1>3, <1>7, <1>8, <1>21
    <3> QED BY <3>1, <3>2, <1>2, <1>3, <1>16, <2>1
  <2>3. IntText(d) = <<"0">> \o (Mark(base) \o (Repeat("0", W - n - 1) \o rev))
    <3>1. 1 = IF base = 16 THEN 2 ELSE 1 BY <1>19, <2>1, Zenon
    <3> QED BY <3>1, <2>1, <2>2, <1>17
  <2>4. pad <= 0 /\ W - n - 1 \in Int /\ W - n - 1 <= 0 BY <2>1, <2>2, <1>2, <1>3, <1>16
  <2>5. StdDigits(d) = rev
    <3>1. d.conv # "o" BY <1>21
    <3> QED BY <3>1, <1>6, CoreReads, Zenon DEF rev, b
  <2>6. StdPrefix(d) = <<"0">> \o <<"b">> /\ <<"0">> \o <<"b">> = <<"0", "b">>
    <3>1. "0" \in Chars /\ "b" \in Chars /\ d.conv # "x" BY <1>21 DEF Chars
    <3> QED BY <3>1, <1>4, <1>21, TwoChars, Zenon DEF StdPrefix
  <2>7. Repeat("0", pad) = <<>> /\ Repeat("0", W - n - 1) = <<>> BY <2>4, <1>14, <1>16, RepeatIs
  <2>8. StdPrefix(d) \o <<>> = StdPrefix(d) /\ <<>> \o rev = rev BY <1>3, <1>14, EmptyText
  <2>9. (<<"0">> \o <<"b">>) \o rev = <<"0">> \o (<<"b">> \o rev)
    <3>1. PICK u \in Seq(Chars), t \in Seq(Chars) : u = <<"0">> /\ t = <<"b">>
      BY <1>14, <2>1
    <3>2. (u \o t) \o rev = u \o (t \o rev) BY <1>3, Rejoin
    <3> QED BY <3>1, <3>2, Zenon
  <2> QED BY <2>1, <2>3, <2>5, <2>6, <2>7, <2>8, <2>9, <1>18, Zenon
<1>22. CASE d.conv = "o"
  <2>1. base = 8 /\ Mark(base) = <<>> /\ m = 0 BY <1>16, <1>19, <1>22, MarkIs, Zenon DEF base
  <2>2. n + 1 <= W /\ W - 1 + m + 1 <= BufferSize
    <3>1. W <= BufferSize /\ BufferSize \in Nat BY <1>5, PrintfTextAssumption
    <3> QED BY <3>1, <1>2, <1>3, <1>8, <2>1
  <2>3. IntText(d) = <<"0">> \o (Mark(base) \o (Repeat("0", W - n - 1) \o rev))
    <3>1. 1 = IF base = 16 THEN 2 ELSE 1 BY <1>19, <2>1, Zenon
    <3> QED BY <3>1, <2>1, <2>2, <1>17
  <2>4. PICK k \in Nat : k = W - n - 1 /\ pad = k BY <2>1, <2>2, <1>2, <1>3, <1>16
  <2>5. StdDigits(d) = <<"0">> \o rev BY <1>22, MarkParts, Zenon DEF rev, b
  <2>6. StdPrefix(d) = <<>>
    <3>1. d.conv # "x" /\ d.conv # "b" BY <1>22
    <3> QED BY <3>1, Zenon DEF StdPrefix
  <2>7. PICK z \in Seq(Chars), u \in Seq(Chars) :
            z = Repeat("0", k) /\ u = <<"0">> /\ z \o u = u \o z /\ u \o z \in Seq(Chars)
    <3>1. PICK one \in Nat : one = 1 OBVIOUS
    <3>2. Repeat("0", k) \o Repeat("0", one) = Repeat("0", k + one)
          /\ Repeat("0", one) \o Repeat("0", k) = Repeat("0", one + k)
      BY <1>14, RepeatMore
    <3>3. k + one = one + k OBVIOUS
    <3>4. Repeat("0", one) = <<"0">> BY <3>1, OneZero
    <3>5. Repeat("0", k) \in Seq(Chars) BY <1>14, RepeatIs
    <3>6. <<"0">> \o Repeat("0", k) \in Seq(Chars) BY <3>5, <1>14, ConcatIs
    <3> QED BY <3>2, <3>3, <3>4, <3>5, <3>6, <1>14, Zenon
  <2>8. <<>> \o z = z /\ <<>> \o (z \o rev) = z \o rev
    <3>1. z \o rev \in Seq(Chars) BY <1>3, ConcatIs
    <3> QED BY <3>1, EmptyText
  <2>9. z \o (u \o rev) = u \o (z \o rev)
    <3>1. (z \o u) \o rev = z \o (u \o rev) /\ (u \o z) \o rev = u \o (z \o rev)
      BY <1>3, Rejoin
    <3> QED BY <3>1, <2>7, Zenon
  <2> QED BY <2>1, <2>3, <2>4, <2>5, <2>6, <2>7, <2>8, <2>9, <1>18, Zenon
<1> QED BY <1>4, <1>20, <1>21, <1>22

\* A whole number that does not deviate reads as C says.
LEMMA IntReads ==
    ASSUME NEW d \in Directives, d.conv \in IntConvs, ~TooLong(d), ~IntDeviates(d)
    PROVE  IntText(d) = StdInt(d)
<1>1. CASE "#" \notin Kept(d) BY <1>1, PlainReads
<1>2. CASE "#" \in Kept(d) /\ ~("0" \in Kept(d) /\ "-" \notin Kept(d)) BY <1>2, MarkedReads, Zenon
<1>3. CASE "#" \in Kept(d) /\ "0" \in Kept(d) /\ "-" \notin Kept(d)
  <2>1. WidthOf(d) \in Int /\ Len(Figures(d)) \in Int BY WidthTyped, FiguresTyped
  <2>2. WidthOf(d) > Len(Figures(d)) \/ WidthOf(d) <= Len(Figures(d)) BY <2>1
  <2> QED BY <1>3, <2>2, MarkedReads, FilledReads, Zenon
<1> QED BY <1>1, <1>2, <1>3

\* A double as C writes it: the numbers it may be rounded to, and their digits.
Rounds(d, whole, frac) ==
    LET full == d.frac + 1 = Scale(FloatPrec(d))
    IN  \/ d.rest \in {"zero", "below", "half"} /\ whole = d.n /\ frac = d.frac
        \/ d.rest \in {"above", "half"} /\ full /\ whole = d.n + 1 /\ frac = 0
        \/ d.rest \in {"above", "half"} /\ ~full /\ whole = d.n /\ frac = d.frac + 1
FloatTail(frac, prec) ==
    IF prec = 0 THEN <<>>
    ELSE <<".">> \o AtLeast(Reverse(Digits(frac, 10)), Min({prec, 9})) \o Repeat("0", prec - 9)
FloatDigits(whole, frac, prec) == Reverse(Digits(whole, 10)) \o FloatTail(frac, prec)

\* What FloatDeviates leaves of the digits: those behind the ninth are zeros,
\* and no point stands alone.
Exact(d) == /\ FloatPrec(d) <= 9 \/ d.rest = "zero"
            /\ ~("#" \in d.flags /\ FloatPrec(d) = 0)

LEMMA SignAlike ==
    ASSUME NEW d, NEW c, c.flags = d.flags, NEW neg
    PROVE  Sign(neg, FlagsOf(c)) = Sign(neg, d.flags)
<1>1. "+" # "-" /\ " " # "-" BY Zenon
<1>2. "+" \in FlagsOf(c) <=> "+" \in d.flags BY <1>1, Zenon DEF FlagsOf
<1>3. " " \in FlagsOf(c) <=> " " \in d.flags BY <1>1, Zenon DEF FlagsOf
<1> QED BY <1>2, <1>3, Zenon DEF Sign

LEMMA StdFloatIs ==
    ASSUME NEW d, NEW e, e.neg = d.neg, e.flags = d.flags, NEW whole, NEW frac, NEW prec,
           ~("#" \in d.flags /\ prec = 0)
    PROVE  StdFloat(e, whole, frac, prec)
           = StdPad(Sign(d.neg, d.flags), <<>>, FloatDigits(whole, frac, prec), e, "0" \in d.flags)
<1>1. Sign(e.neg, FlagsOf(e)) = Sign(d.neg, d.flags) BY SignAlike, Zenon
<1>2. StdFloat(e, whole, frac, prec)
      = StdPad(Sign(e.neg, FlagsOf(e)), <<>>, FloatDigits(whole, frac, prec), e, "0" \in e.flags)
  <2>1. (IF prec = 0 THEN IF "#" \in e.flags THEN <<".">> ELSE <<>>
         ELSE <<".">> \o AtLeast(Reverse(Digits(frac, 10)), Min({prec, 9})) \o Repeat("0", prec - 9))
        = FloatTail(frac, prec)
    BY Zenon DEF FloatTail
  <2> QED BY <2>1, Zenon DEF StdFloat, FloatDigits
<1> QED BY <1>1, <1>2, Zenon

LEMMA FloatPrecIs ==
    ASSUME NEW d \in Directives, ~(d.dot /\ d.prec < 0)
    PROVE  (IF d.dot /\ d.prec >= 0 THEN d.prec ELSE 6) = FloatPrec(d) /\ FloatPrec(d) \in Nat
<1>1. d.prec \in Int BY DirectiveTyped
<1>2. CASE d.dot
  <2>1. d.prec >= 0 BY <1>1, <1>2
  <2>2. PrecOf(d) = IF d.prec > 0 THEN d.prec ELSE 0 BY <1>2, Zenon DEF PrecOf
  <2>3. PrecOf(d) = d.prec BY <1>1, <2>1, <2>2
  <2>4. FloatPrec(d) = d.prec BY <1>2, <2>3, Zenon DEF FloatPrec
  <2>5. d.prec \in Nat BY <2>1, <1>1
  <2> QED BY <1>2, <2>1, <2>4, <2>5, Zenon
<1>3. CASE ~d.dot
  <2>1. 6 \in Nat OBVIOUS
  <2> QED BY <2>1, <1>3, Zenon DEF FloatPrec
<1> QED BY <1>2, <1>3

LEMMA StdFloatsHas ==
    ASSUME NEW d \in Directives, ~(d.dot /\ d.prec < 0), Exact(d), NEW e, e.dot = d.dot,
           e.prec = d.prec, e.n = d.n, e.frac = d.frac, e.rest = d.rest,
           NEW whole, NEW frac, Rounds(d, whole, frac)
    PROVE  StdFloat(e, whole, frac, FloatPrec(d)) \in StdFloats(e)
<1> DEFINE prec == IF e.dot /\ e.prec >= 0 THEN e.prec ELSE 6
           low == StdFloat(e, e.n, e.frac, prec)
           high == IF e.frac + 1 = Scale(prec) THEN StdFloat(e, e.n + 1, 0, prec)
                   ELSE StdFloat(e, e.n, e.frac + 1, prec)
<1>1. prec = FloatPrec(d) BY FloatPrecIs, Zenon
<1>2. e.rest \in {"zero", "below", "above", "half"} BY Zenon DEF Rounds
<1>3. /\ "zero" # "nan" /\ "zero" # "inf" /\ "below" # "nan" /\ "below" # "inf"
      /\ "above" # "nan" /\ "above" # "inf" /\ "half" # "nan" /\ "half" # "inf"
      /\ "above" # "zero" /\ "above" # "below" /\ "half" # "zero" /\ "half" # "below"
      /\ "half" # "above"
  OBVIOUS
<1>4. /\ e.rest \in {"zero", "below"} => StdFloats(e) = {low}
      /\ e.rest = "above" => StdFloats(e) = {high}
      /\ e.rest = "half" => StdFloats(e) = {low, high}
  <2>1. prec <= 9 \/ e.rest \in {"zero", "nan", "inf"} BY <1>1, Zenon DEF Exact
  <2> QED BY <2>1, <1>3, Zenon DEF StdFloats
<1> HIDE DEF prec
<1>5. CASE d.rest \in {"zero", "below", "half"} /\ whole = d.n /\ frac = d.frac
  <2>1. low = StdFloat(e, whole, frac, FloatPrec(d)) BY <1>1, <1>5, Zenon
  <2> HIDE DEF low, high
  <2> QED BY <2>1, <1>4, <1>5, Zenon
<1>6. CASE d.rest \in {"above", "half"} /\ d.frac + 1 = Scale(FloatPrec(d)) /\ whole = d.n + 1 /\ frac = 0
  <2>1. high = StdFloat(e, e.n + 1, 0, prec) BY <1>1, <1>6, Zenon
  <2>2. high = StdFloat(e, whole, frac, FloatPrec(d)) BY <2>1, <1>1, <1>6, Zenon
  <2> HIDE DEF low, high
  <2> QED BY <2>2, <1>4, <1>6, Zenon
<1>7. CASE /\ d.rest \in {"above", "half"} /\ d.frac + 1 # Scale(FloatPrec(d))
           /\ whole = d.n /\ frac = d.frac + 1
  <2>1. high = StdFloat(e, e.n, e.frac + 1, prec) BY <1>1, <1>7, Zenon
  <2>2. high = StdFloat(e, whole, frac, FloatPrec(d)) BY <2>1, <1>1, <1>7, Zenon
  <2> HIDE DEF low, high
  <2> QED BY <2>2, <1>4, <1>7, Zenon
<1> QED BY <1>5, <1>6, <1>7, Zenon DEF Rounds

LEMMA FloatDigitsTyped ==
    ASSUME NEW whole \in Nat, NEW frac \in Nat, NEW prec \in Nat
    PROVE  /\ FloatTail(frac, prec) \in Seq(Chars) /\ FloatDigits(whole, frac, prec) \in Seq(Chars)
           /\ Reverse(Digits(frac, 10)) \in Seq(Chars) /\ Reverse(Digits(whole, 10)) \in Seq(Chars)
           /\ Len(FloatDigits(whole, frac, prec)) = Len(Digits(whole, 10)) + Len(FloatTail(frac, prec))
<1>1. Digits(whole, 10) \in Seq(Chars) /\ Digits(frac, 10) \in Seq(Chars)
  BY DigitsTyped
<1> DEFINE rw == Reverse(Digits(whole, 10))
           rf == Reverse(Digits(frac, 10))
           p == Min({prec, 9})
           tail == FloatTail(frac, prec)
<1>2. rw \in Seq(Chars) /\ rf \in Seq(Chars) /\ Len(rw) = Len(Digits(whole, 10)) BY <1>1, ReverseIs
<1>3. p \in Int BY MinTwo
<1>4. "0" \in Chars /\ <<".">> \in Seq(Chars) BY ShortSeqs DEF Chars
<1> HIDE DEF rw, rf, p
<1>5. Repeat("0", prec - 9) \in Seq(Chars) /\ Repeat("0", p - Len(rf)) \in Seq(Chars)
  <2>1. prec - 9 \in Int /\ p - Len(rf) \in Int BY <1>2, <1>3
  <2> QED BY <2>1, <1>4, RepeatIs
<1>6. tail \in Seq(Chars)
  <2>1. Repeat("0", p - Len(rf)) \o rf \in Seq(Chars) BY <1>2, <1>5, ConcatIs
  <2>2. <<".">> \o (Repeat("0", p - Len(rf)) \o rf) \in Seq(Chars) BY <2>1, <1>4, ConcatIs
  <2>3. (<<".">> \o (Repeat("0", p - Len(rf)) \o rf)) \o Repeat("0", prec - 9) \in Seq(Chars)
    BY <2>2, <1>5, ConcatIs
  <2> QED BY <2>3, ShortSeqs, Zenon DEF FloatTail, AtLeast, p, rf
<1> HIDE DEF tail
<1>7. rw \o tail \in Seq(Chars) /\ Len(rw \o tail) = Len(rw) + Len(tail) BY <1>2, <1>6, ConcatIs
<1> QED BY <1>2, <1>6, <1>7, Zenon DEF FloatDigits, rw, rf, tail

\* The number it is rounded to has room in the buffer.
LEMMA FloatFits ==
    ASSUME NEW d \in Directives, d.conv = "f", ~TooLong(d), ~(d.dot /\ d.prec < 0), Exact(d),
           NEW whole \in Nat, NEW frac \in Nat, Rounds(d, whole, frac)
    PROVE  /\ Len(Sign(d.neg, d.flags)) + Len(FloatDigits(whole, frac, FloatPrec(d))) <= BufferSize
           /\ "0" \in d.flags /\ "-" \notin FlagsOf(d) => WidthOf(d) <= BufferSize
<1> DEFINE zeros == "0" \in d.flags /\ "-" \notin FlagsOf(d)
           w == IF zeros THEN d.width ELSE 0
           e == [d EXCEPT !.width = w]
           digits == FloatDigits(whole, frac, FloatPrec(d))
           sign == Sign(d.neg, d.flags)
           text == StdFloat(e, whole, frac, FloatPrec(d))
<1>1. w \in Int
  <2>1. 0 \in Int /\ d.width \in Int
    <3>1. d.width \in Int BY DirectiveTyped
    <3> QED BY <3>1
  <2> QED BY <2>1, Zenon
<1>2. TooLong(d) <=> \E t \in Std(e) : Len(t) > BufferSize BY Zenon DEF TooLong
<1> HIDE DEF w
<1>3. /\ e.conv = d.conv /\ e.flags = d.flags /\ e.dot = d.dot /\ e.prec = d.prec
      /\ e.n = d.n /\ e.neg = d.neg /\ e.frac = d.frac /\ e.rest = d.rest
      /\ e.width = w /\ WidthOf(e) \in Int
  BY <1>1, SameRecord, Zenon
<1> HIDE DEF e
<1>4. Std(e) = StdFloats(e) BY <1>3, Zenon DEF Std
<1>5. text \in StdFloats(e) BY <1>3, StdFloatsHas
<1>6. ~(Len(text) > BufferSize) BY <1>2, <1>4, <1>5, Zenon
<1>7. text = StdPad(sign, <<>>, digits, e, "0" \in d.flags)
  <2>1. e.neg = d.neg /\ e.flags = d.flags BY <1>3
  <2>2. ~("#" \in d.flags /\ FloatPrec(d) = 0) BY Zenon DEF Exact
  <2> QED BY <2>1, <2>2, StdFloatIs
<1>8. sign \in Seq(Chars) /\ <<>> \in Seq(Chars) /\ digits \in Seq(Chars)
  <2>1. FloatPrec(d) \in Nat BY FloatPrecIs
  <2> QED BY <2>1, SignTyped, EmptyText, FloatDigitsTyped
<1> HIDE DEF sign, digits, text
<1>9. /\ Len(text) >= Len(sign) + Len(<<>>) + Len(digits) /\ Len(text) >= WidthOf(e)
      /\ Len(text) \in Int
  BY <1>3, <1>7, <1>8, StdPadLong
<1>10. zeros => WidthOf(e) = WidthOf(d) BY <1>3, Zenon DEF w, WidthOf
<1>11. BufferSize \in Nat BY PrintfTextAssumption
<1>12. Len(<<>>) = 0 OBVIOUS
<1>13. PICK a \in Nat, b \in Nat : a = Len(sign) /\ b = Len(digits) BY <1>8
<1>14. a + b <= BufferSize
  <2>1. Len(text) >= a + 0 + b BY <1>9, <1>12, <1>13
  <2> QED BY <2>1, <1>6, <1>9, <1>11
<1>15. WidthOf(e) <= BufferSize BY <1>3, <1>6, <1>9, <1>11
<1> QED BY <1>10, <1>13, <1>14, <1>15, Zenon DEF sign, digits

\* The digits in the buffer of _ftoa.
FloatBuffer(whole, frac, prec) ==
    LET p  == Min({prec, 9})
        ds == Digits(frac, 10)
        b1 == Put(<<>>, Repeat("0", prec - p) \o ds)
        b2 == IF Len(ds) > p THEN Fill(b1, BufferSize) ELSE Fill(b1, prec)
    IN  Put(IF p = 0 THEN <<>> ELSE Put(b2, <<".">>), Digits(whole, 10))

LEMMA FloatBufferIs ==
    ASSUME NEW whole \in Nat, NEW frac \in Nat, NEW prec \in Nat, prec = 0 \/ frac < Scale(prec),
           Len(FloatDigits(whole, frac, prec)) <= BufferSize
    PROVE  /\ FloatBuffer(whole, frac, prec) \in Seq(Chars)
           /\ Reverse(FloatBuffer(whole, frac, prec)) = FloatDigits(whole, frac, prec)
<1> DEFINE p  == Min({prec, 9})
           ds == Digits(frac, 10)
           b1 == Put(<<>>, Repeat("0", prec - p) \o ds)
           b2 == IF Len(ds) > p THEN Fill(b1, BufferSize) ELSE Fill(b1, prec)
           b3 == IF p = 0 THEN <<>> ELSE Put(b2, <<".">>)
           dw == Digits(whole, 10)
           rw == Reverse(dw)
           tail == FloatTail(frac, prec)
           b4 == FloatBuffer(whole, frac, prec)
<1>1. b4 = Put(b3, dw) BY Zenon DEF FloatBuffer
<1>2. /\ dw \in Seq(Chars) /\ ds \in Seq(Chars) /\ Len(ds) \in Nat /\ Len(dw) \in Nat /\ Len(ds) >= 1
      /\ rw \in Seq(Chars) /\ Reverse(ds) \in Seq(Chars) /\ Len(Reverse(ds)) = Len(ds)
  <2>1. dw \in Seq(Chars) /\ ds \in Seq(Chars) /\ Len(ds) >= 1 BY DigitsTyped
  <2> HIDE DEF dw, ds
  <2> QED BY <2>1, ReverseIs
<1>3. FloatDigits(whole, frac, prec) = rw \o tail BY Zenon DEF FloatDigits
<1>4. tail \in Seq(Chars) /\ Len(dw) + Len(tail) <= BufferSize
  <2>1. tail \in Seq(Chars) /\ Len(FloatDigits(whole, frac, prec)) = Len(dw) + Len(tail)
    BY FloatDigitsTyped
  <2> QED BY <2>1
<1>5. BufferSize \in Nat /\ "0" \in Chars /\ <<".">> \in Seq(Chars) /\ Reverse(<<".">>) = <<".">>
      /\ Len(<<".">>) = 1
  <2>1. "0" \in Chars /\ "." \in Chars BY DEF Chars
  <2>2. Len(<<".">>) = 1 OBVIOUS
  <2> QED BY <2>1, <2>2, ShortSeqs, ReverseShort, PrintfTextAssumption
<1>6. p \in Nat /\ p <= prec /\ p <= 9 /\ (p = 0 <=> prec = 0) /\ (prec > 9 => p = 9)
      /\ (prec <= 9 => p = prec)
  <2>1. p = IF prec <= 9 THEN prec ELSE 9 BY MinTwo
  <2> HIDE DEF p
  <2> QED BY <2>1
<1>7. prec # 0 => Len(ds) <= p
  <2>1. SUFFICES ASSUME prec # 0 PROVE Len(ds) <= p OBVIOUS
  <2>2. frac < Pow10[p + 1] BY <2>1, Zenon DEF Scale
  <2> HIDE DEF p
  <2>3. p \in 1 .. 9 BY <2>1, <1>6
  <2> QED BY <2>2, <2>3, DigitsShort
<1> HIDE DEF p, ds, dw, b4, rw
<1>8. CASE prec = 0
  <2>1. b3 = <<>> BY <1>6, <1>8, Zenon
  <2>2. tail = <<>> BY <1>8, Zenon DEF FloatTail
  <2>3. Len(<<>>) = 0 /\ <<>> \in Seq(Chars) OBVIOUS
  <2>4. Len(<<>>) + Len(dw) <= BufferSize BY <2>2, <2>3, <1>2, <1>4
  <2>5. Put(<<>>, dw) = <<>> \o dw BY <2>3, <2>4, <1>2, PutAll
  <2>6. <<>> \o dw = dw /\ rw \o <<>> = rw BY <1>2, EmptyText
  <2>7. b4 = dw BY <2>1, <2>5, <2>6, <1>1, Zenon
  <2> QED BY <2>2, <2>6, <2>7, <1>2, <1>3, Zenon DEF b4, rw
<1>9. CASE prec # 0
  <2> DEFINE z1 == Repeat("0", prec - p)
             z2 == Repeat("0", p - Len(ds))
             rs == Reverse(ds)
  <2>1. z1 \in Seq(Chars) /\ Len(z1) = prec - p /\ Reverse(z1) = z1
    <3>1. prec - p \in Int /\ (prec - p <= 0 => prec - p = 0) BY <1>6
    <3> QED BY <3>1, <1>5, RepeatIs, ReverseRepeat
  <2>2. z2 \in Seq(Chars) /\ Len(z2) = p - Len(ds) /\ Reverse(z2) = z2
    <3>1. p - Len(ds) \in Int /\ (p - Len(ds) <= 0 => p - Len(ds) = 0) BY <1>2, <1>6, <1>7, <1>9
    <3> QED BY <3>1, <1>5, RepeatIs, ReverseRepeat
  <2>3. tail = <<".">> \o (z2 \o rs) \o z1
    <3>1. tail = <<".">> \o (Repeat("0", p - Len(rs)) \o rs) \o Repeat("0", prec - 9)
      BY <1>9, Zenon DEF FloatTail, AtLeast, p, ds
    <3>2. Repeat("0", p - Len(rs)) = z2 BY <1>2
    <3>3. Repeat("0", prec - 9) = z1
      <4>1. CASE prec > 9 BY <4>1, <1>6
      <4>2. CASE ~(prec > 9)
        <5>1. prec - 9 \in Int /\ prec - 9 <= 0 /\ prec - p \in Int /\ prec - p <= 0 BY <4>2, <1>6
        <5> QED BY <5>1, <1>5, RepeatIs
      <4> QED BY <4>1, <4>2
    <3> HIDE DEF z1, z2, rs
    <3> QED BY <3>1, <3>2, <3>3, Zenon
  <2> HIDE DEF z1, z2
  <2>4. PICK n \in Nat : n = Len(ds) /\ n <= p /\ Len(z2) = p - n /\ Len(z1) = prec - p
    BY <2>1, <2>2, <1>2, <1>7, <1>9
  <2>5. rs \in Seq(Chars) /\ Len(rs) = n BY <2>4, <1>2
  <2> HIDE DEF rs
  <2>6. z2 \o rs \in Seq(Chars) /\ Len(z2 \o rs) = p
    <3>1. z2 \o rs \in Seq(Chars) /\ Len(z2 \o rs) = Len(z2) + Len(rs) BY <2>2, <2>5, ConcatIs
    <3>2. (p - n) + n = p BY <1>6
    <3> QED BY <3>1, <3>2, <2>4, <2>5
  <2>7. <<".">> \o (z2 \o rs) \in Seq(Chars) /\ Len(<<".">> \o (z2 \o rs)) = 1 + p
    BY <2>6, <1>5, ConcatIs
  <2>8. Len(tail) = 1 + prec
    <3>1. Len((<<".">> \o (z2 \o rs)) \o z1) = Len(<<".">> \o (z2 \o rs)) + Len(z1)
      BY <2>1, <2>7, ConcatIs
    <3>2. 1 + p + (prec - p) = 1 + prec BY <1>6
    <3> QED BY <3>1, <3>2, <2>3, <2>4, <2>7
  <2>9. Len(dw) + 1 + prec <= BufferSize BY <2>8, <1>2, <1>4
  <2>10. z1 \o ds \in Seq(Chars) /\ Len(z1 \o ds) = prec - p + n
    <3>1. z1 \o ds \in Seq(Chars) /\ Len(z1 \o ds) = Len(z1) + Len(ds) BY <2>1, <1>2, ConcatIs
    <3> QED BY <3>1, <2>4
  <2>11. b1 = z1 \o ds
    <3>1. Len(<<>>) = 0 /\ <<>> \in Seq(Chars) OBVIOUS
    <3>2. prec - p + n <= BufferSize BY <2>4, <2>9, <1>2, <1>5, <1>6
    <3>3. Len(<<>>) + Len(z1 \o ds) <= BufferSize BY <3>1, <3>2, <2>10, <2>4, <1>6
    <3>4. Put(<<>>, z1 \o ds) = <<>> \o (z1 \o ds) BY <3>1, <3>3, <2>10, PutAll
    <3> QED BY <3>4, <2>10, EmptyText, Zenon DEF z1
  <2>12. b2 = (z1 \o ds) \o z2
    <3>1. ~(Len(ds) > p) BY <2>4, <1>6
    <3>2. b2 = Fill(b1, prec) BY <3>1, Zenon
    <3>3. prec \in Int /\ prec <= BufferSize /\ Len(z1 \o ds) <= BufferSize
      BY <2>4, <2>9, <2>10, <1>2, <1>5, <1>6
    <3>4. Fill(z1 \o ds, prec) = (z1 \o ds) \o Repeat("0", prec - Len(z1 \o ds))
      BY <3>3, <2>10, FillAll
    <3>5. prec - Len(z1 \o ds) = p - Len(ds) BY <2>4, <2>10, <1>6
    <3> QED BY <3>2, <3>4, <3>5, <2>11, Zenon DEF z2
  <2> HIDE DEF b1, b2
  <2>13. b2 \in Seq(Chars) /\ Len(b2) = prec /\ Reverse(b2) = (z2 \o rs) \o z1
    <3>1. (z1 \o ds) \o z2 \in Seq(Chars) /\ Len((z1 \o ds) \o z2) = Len(z1 \o ds) + Len(z2)
      BY <2>2, <2>10, ConcatIs
    <3>2. prec - p + n + (p - n) = prec BY <1>6
    <3>3. Reverse((z1 \o ds) \o z2) = Reverse(z2) \o Reverse(z1 \o ds) BY <2>2, <2>10, ReverseBoth
    <3>4. Reverse(z1 \o ds) = Reverse(ds) \o Reverse(z1) BY <2>1, <1>2, ReverseBoth
    <3>5. z2 \o (rs \o z1) = (z2 \o rs) \o z1 BY <2>1, <2>2, <2>5, Rejoin
    <3>6. Reverse(b2) = (z2 \o rs) \o z1 BY <3>3, <3>4, <3>5, <2>1, <2>2, <2>12, Zenon DEF rs
    <3> QED BY <3>1, <3>2, <3>6, <2>4, <2>10, <2>12
  <2>14. b3 = b2 \o <<".">> /\ b2 \o <<".">> \in Seq(Chars) /\ Len(b2 \o <<".">>) = prec + 1
    <3>1. prec + 1 <= BufferSize BY <2>9, <1>2, <1>5
    <3>2. Len(b2) + Len(<<".">>) <= BufferSize BY <3>1, <2>13, <1>5
    <3>3. Put(b2, <<".">>) = b2 \o <<".">> BY <3>2, <2>13, <1>5, PutAll
    <3>4. b3 = Put(b2, <<".">>) BY <1>6, <1>9, Zenon
    <3>5. b2 \o <<".">> \in Seq(Chars) /\ Len(b2 \o <<".">>) = Len(b2) + Len(<<".">>)
      BY <2>13, <1>5, ConcatIs
    <3> QED BY <3>3, <3>4, <3>5, <2>13, <1>5
  <2> HIDE DEF b3
  <2>15. b4 = b3 \o dw /\ b4 \in Seq(Chars) /\ Reverse(b4) = rw \o Reverse(b3)
    <3>1. prec + 1 + Len(dw) <= BufferSize BY <2>9, <1>2, <1>5
    <3>2. b3 \in Seq(Chars) /\ Len(b3) + Len(dw) <= BufferSize BY <3>1, <2>14
    <3>3. Put(b3, dw) = b3 \o dw BY <3>2, <1>2, PutAll
    <3>4. b3 \o dw \in Seq(Chars) BY <3>2, <1>2, ConcatIs
    <3>5. Reverse(b3 \o dw) = Reverse(dw) \o Reverse(b3) BY <3>2, <1>2, ReverseBoth
    <3> QED BY <3>3, <3>4, <3>5, <1>1, Zenon DEF rw
  <2>16. Reverse(b3) = tail
    <3>1. Reverse(b2 \o <<".">>) = Reverse(<<".">>) \o Reverse(b2) BY <2>13, <1>5, ReverseBoth
    <3>2. <<".">> \o ((z2 \o rs) \o z1) = (<<".">> \o (z2 \o rs)) \o z1
      BY <2>1, <2>6, <1>5, Rejoin
    <3> QED BY <3>1, <3>2, <2>3, <2>13, <2>14, <1>5, Zenon
  <2> QED BY <2>15, <2>16, <1>3, Zenon DEF b4
<1> QED BY <1>8, <1>9

\* A double that does not deviate, neither a NaN nor infinite, reads as C says.
LEMMA FiniteReads ==
    ASSUME NEW d \in Directives, d.conv = "f", ~TooLong(d), ~FloatDeviates(d),
           d.rest \notin {"nan", "inf"}
    PROVE  FiniteText(d) \in StdFloats(d)
<1> DEFINE prec  == FloatPrec(d)
           p     == Min({prec, 9})
           roll  == d.rest = "above" /\ d.frac + 1 >= Scale(prec)
           up    == d.rest = "above" \/ (d.rest = "half" /\ (d.frac = 0 \/ d.frac % 2 = 1))
           frac  == IF roll THEN 0 ELSE IF up THEN d.frac + 1 ELSE d.frac
           odd   == roll \/ (p = 0 /\ d.rest = "half" /\ d.n % 2 = 1)
           whole == IF odd THEN d.n + 1 ELSE d.n
           flags == FlagsOf(d)
           room  == RoomForSign(WidthOf(d), d.neg, flags)
           b4    == FloatBuffer(whole, frac, prec)
           sign  == Sign(d.neg, flags)
           W     == WidthOf(d)
           zeros == "0" \in d.flags
<1>1. FiniteText(d) = Padded(b4, d.neg, W, W, flags)
  <2>1. Negative(d) = d.neg
    <3>1. d.neg \in BOOLEAN BY DirectiveTyped
    <3>2. d.neg => Negative(d) BY Zenon DEF FloatDeviates
    <3>3. Negative(d) => d.neg BY Zenon DEF Negative
    <3>4. Negative(d) \in BOOLEAN BY <3>1, Zenon DEF Negative
    <3> QED BY <3>1, <3>2, <3>3, <3>4, Zenon
  <2>2. FiniteText(d) = OutRev(Put(IF "0" \in flags /\ "-" \notin flags
                                   THEN Fill(b4, RoomForSign(WidthOf(d), Negative(d), flags)) ELSE b4,
                                   Sign(Negative(d), flags)), W, flags)
    BY Zenon DEF FiniteText, FloatBuffer
  <2>3. FiniteText(d) = OutRev(Put(IF "0" \in flags /\ "-" \notin flags THEN Fill(b4, room) ELSE b4,
                                   sign), W, flags)
    BY <2>1, <2>2, Zenon
  <2> QED BY <2>3, Zenon DEF Padded
<1>2. /\ ~(d.dot /\ d.prec < 0) /\ ~(d.rest = "half" /\ prec > 0 /\ d.frac + 1 = Scale(prec))
      /\ ~(d.rest \in {"below", "half", "above"} /\ prec > 9) /\ ~("#" \in d.flags /\ prec = 0)
  BY Zenon DEF FloatDeviates
<1>3. prec \in Nat BY <1>2, FloatPrecIs
<1>4. d.frac \in Nat /\ d.n \in Nat /\ d.frac < Scale(prec)
      /\ d.rest \in {"zero", "below", "half", "above"}
  <2>1. d.frac \in Nat /\ d.n \in Nat /\ d.frac < Scale(prec) BY DirectiveTyped, Zenon
  <2>2. d.rest \in {"zero", "below", "half", "above"} BY DirectiveTyped, Zenon
  <2> QED BY <2>1, <2>2
<1>23. Exact(d)
  <2>1. prec <= 9 \/ prec > 9 BY <1>3
  <2> QED BY <2>1, <1>2, <1>4, Zenon DEF Exact
<1> HIDE DEF prec, b4, W, flags, zeros
<1>5. p \in Nat /\ (p = 0 <=> prec = 0)
  <2>1. p = IF prec <= 9 THEN prec ELSE 9 BY <1>3, MinTwo
  <2> HIDE DEF p
  <2> QED BY <2>1, <1>3
<1>6. Scale(prec) \in Nat \ {0} /\ (prec = 0 => Scale(prec) = 1)
  <2>1. Scale(prec) = Pow10[p + 1] BY Zenon DEF Scale
  <2>2. p <= 9
    <3>1. p = IF prec <= 9 THEN prec ELSE 9 BY <1>3, MinTwo
    <3> HIDE DEF p
    <3> QED BY <3>1, <1>3
  <2> HIDE DEF p
  <2>3. p + 1 \in 1 .. 10 BY <2>2, <1>5
  <2>4. prec = 0 => p + 1 = 1 BY <1>5
  <2> QED BY <2>1, <2>3, <2>4, PowersOfTen
<1> HIDE DEF p
<1>7. PICK scale \in Nat \ {0} : scale = Scale(prec) BY <1>6
<1>8. PICK n \in Nat, f \in Nat : n = d.n /\ f = d.frac /\ f < scale BY <1>4, <1>7
<1>9. whole \in Nat /\ frac \in Nat
  <2>1. n + 1 \in Nat /\ f + 1 \in Nat /\ 0 \in Nat OBVIOUS
  <2> HIDE DEF odd, roll, up
  <2> QED BY <2>1, <1>8, Zenon
<1> DEFINE rest == IF prec = 0 THEN 0 ELSE frac
<1>10. rest \in Nat BY <1>9
<1>11. Rounds(d, whole, rest)
  <2>1. CASE d.rest \in {"zero", "below"}
    <3>1. ~roll /\ ~up /\ ~odd BY <2>1
    <3>2. whole = d.n /\ frac = d.frac BY <3>1, Zenon
    <3>3. rest = d.frac
      <4>1. prec = 0 => f = 0 BY <1>6, <1>7, <1>8
      <4> HIDE DEF frac
      <4> QED BY <3>2, <4>1, <1>8, Zenon
    <3> HIDE DEF rest, whole
    <3> QED BY <2>1, <3>2, <3>3, Zenon DEF Rounds
  <2>2. CASE d.rest = "above"
    <3>1. roll <=> f + 1 = scale BY <2>2, <1>7, <1>8
    <3>2. up /\ (odd <=> roll) BY <2>2
    <3>3. CASE roll
      <4>1. whole = d.n + 1 /\ frac = 0 BY <3>2, <3>3, Zenon
      <4>2. rest = 0 BY <4>1, Zenon
      <4>3. d.frac + 1 = Scale(FloatPrec(d)) BY <3>1, <3>3, <1>7, <1>8 DEF prec
      <4> HIDE DEF rest, whole, roll
      <4> QED BY <2>2, <4>1, <4>2, <4>3, Zenon DEF Rounds
    <3>4. CASE ~roll
      <4>1. whole = d.n /\ frac = d.frac + 1 BY <3>2, <3>4, Zenon
      <4>2. prec # 0 BY <3>1, <3>4, <1>6, <1>7, <1>8
      <4>3. rest = d.frac + 1 BY <4>1, <4>2, Zenon
      <4>4. d.frac + 1 # Scale(FloatPrec(d)) BY <3>1, <3>4, <1>7, <1>8 DEF prec
      <4> HIDE DEF rest, whole, roll
      <4> QED BY <2>2, <4>1, <4>3, <4>4, Zenon DEF Rounds
    <3> QED BY <3>3, <3>4
  <2>3. CASE d.rest = "half"
    <3>1. ~roll BY <2>3
    <3>2. CASE prec = 0
      <4>1. f = 0 /\ f + 1 = scale BY <3>2, <1>6, <1>7, <1>8
      <4>2. rest = 0 /\ d.frac = 0 BY <3>2, <4>1, <1>8, Zenon
      <4>3. whole = d.n \/ whole = d.n + 1 BY Zenon
      <4>4. d.frac + 1 = Scale(FloatPrec(d)) BY <4>1, <1>7, <1>8 DEF prec
      <4> HIDE DEF rest, whole
      <4> QED BY <2>3, <4>2, <4>3, <4>4, Zenon DEF Rounds
    <3>3. CASE prec # 0
      <4>1. prec > 0 BY <3>3, <1>3
      <4>2. d.frac + 1 # Scale(FloatPrec(d)) BY <2>3, <4>1, <1>2 DEF prec
      <4>3. ~odd BY <3>1, <3>3, <1>5, Zenon
      <4>4. whole = d.n BY <4>3, Zenon
      <4>5. rest = d.frac \/ rest = d.frac + 1 BY <3>1, <3>3, Zenon
      <4> HIDE DEF rest, whole
      <4> QED BY <2>3, <4>2, <4>4, <4>5, Zenon DEF Rounds
    <3> QED BY <3>2, <3>3
  <2> QED BY <2>1, <2>2, <2>3, <1>4
<1>12. prec = 0 \/ frac < Scale(prec)
  <2>1. SUFFICES ASSUME prec # 0 PROVE frac < Scale(prec) OBVIOUS
  <2>2. rest = frac BY <2>1, Zenon
  <2> HIDE DEF rest
  <2>3. Rounds(d, whole, frac) BY <2>2, <1>11
  <2> HIDE DEF whole, frac
  <2>4. frac = f \/ frac = 0 \/ (frac = f + 1 /\ f + 1 # scale) BY <2>3, <1>7, <1>8 DEF Rounds, prec
  <2> QED BY <2>4, <1>7, <1>8
<1> HIDE DEF whole, frac
<1>13. FloatDigits(whole, frac, prec) = FloatDigits(whole, rest, prec)
  BY Zenon DEF FloatDigits, FloatTail
<1> HIDE DEF rest
<1> DEFINE digits == FloatDigits(whole, frac, prec)
<1>14. Len(Sign(d.neg, d.flags)) + Len(digits) <= BufferSize
       /\ ("0" \in d.flags /\ "-" \notin FlagsOf(d) => W <= BufferSize)
  <2>1. /\ Len(Sign(d.neg, d.flags)) + Len(FloatDigits(whole, rest, FloatPrec(d))) <= BufferSize
        /\ "0" \in d.flags /\ "-" \notin FlagsOf(d) => WidthOf(d) <= BufferSize
    BY <1>2, <1>9, <1>10, <1>11, <1>23, FloatFits
  <2> QED BY <2>1, <1>13, Zenon DEF W, prec
<1>15. digits \in Seq(Chars) /\ Sign(d.neg, d.flags) \in Seq(Chars)
  BY <1>3, <1>9, FloatDigitsTyped, SignTyped
<1>16. Len(digits) <= BufferSize
  <2>1. PICK a \in Nat, b \in Nat : a = Len(Sign(d.neg, d.flags)) /\ b = Len(digits) BY <1>15
  <2>2. BufferSize \in Nat BY PrintfTextAssumption
  <2> QED BY <2>1, <2>2, <1>14
<1>17. b4 \in Seq(Chars) /\ Reverse(b4) = digits
  BY <1>3, <1>9, <1>12, <1>16, FloatBufferIs DEF b4
<1>18. sign = Sign(d.neg, d.flags) BY SignAlike, Zenon DEF flags
<1>19. PadsAlike(b4, <<>>, digits, d, d.neg, W, flags, zeros)
  <2>1. <<>> \in Seq(Chars) /\ Len(<<>>) = 0 /\ <<>> \o digits = digits BY <1>15, EmptyText
  <2>2. WidthOf(d) \in Nat BY WidthTyped
  <2>3. "-" \notin flags => ("0" \in flags <=> zeros) BY Zenon DEF flags, zeros, FlagsOf
  <2>4. Len(sign) + Len(<<>>) + Len(digits) <= BufferSize
    <3>1. PICK a \in Nat, b \in Nat : a = Len(sign) /\ b = Len(digits) BY <1>15, <1>18
    <3>2. a + 0 + b = a + b OBVIOUS
    <3>3. a + b <= BufferSize BY <3>1, <1>14, <1>18
    <3> QED BY <3>1, <3>2, <3>3, <2>1
  <2>5. "0" \in flags /\ "-" \notin flags => WidthOf(d) <= BufferSize
    <3>1. "0" \in flags => "0" \in d.flags BY Zenon DEF flags, FlagsOf
    <3> QED BY <3>1, <1>14, Zenon DEF flags, W
  <2>6. Reverse(b4) = <<>> \o digits BY <2>1, <1>17, Zenon
  <2> HIDE DEF digits
  <2> QED BY <2>1, <2>2, <2>3, <2>4, <2>5, <2>6, <1>15, <1>17, Zenon DEF PadsAlike, W, flags
<1>20. Padded(b4, d.neg, W, W, flags) = StdPad(sign, <<>>, digits, d, zeros)
  <2>1. Padded(b4, d.neg, W, WidthOf(d), flags) = StdPad(Sign(d.neg, flags), <<>>, digits, d, zeros)
    BY <1>19, PaddedIsStd
  <2> QED BY <2>1, Zenon DEF W
<1>21. StdFloat(d, whole, rest, FloatPrec(d)) \in StdFloats(d) BY <1>2, <1>11, <1>23, StdFloatsHas
<1>22. StdFloat(d, whole, rest, prec)
       = StdPad(Sign(d.neg, d.flags), <<>>, FloatDigits(whole, rest, prec), d, zeros)
  <2>1. PICK e : e = d OBVIOUS
  <2>2. e.neg = d.neg /\ e.flags = d.flags BY <2>1, Zenon
  <2>3. StdFloat(e, whole, rest, prec)
        = StdPad(Sign(d.neg, d.flags), <<>>, FloatDigits(whole, rest, prec), e, "0" \in d.flags)
    BY <2>2, <1>2, StdFloatIs
  <2> QED BY <2>1, <2>3, Zenon DEF zeros
<1> QED BY <1>1, <1>13, <1>18, <1>20, <1>21, <1>22, Zenon DEF prec

LEMMA ThreeTurned ==
    ASSUME NEW x \in Chars, NEW y \in Chars, NEW z \in Chars
    PROVE  <<x, y, z>> \in Seq(Chars) /\ Len(<<x, y, z>>) = 3 /\ Reverse(<<x, y, z>>) = <<z, y, x>>
<1> DEFINE a == <<x, y, z>>
           b == <<z, y, x>>
<1>1. /\ a \in Seq(Chars) /\ Len(a) = 3 /\ a[1] = x /\ a[2] = y /\ a[3] = z
      /\ b \in Seq(Chars) /\ Len(b) = 3 /\ b[1] = z /\ b[2] = y /\ b[3] = x
  OBVIOUS
<1> HIDE DEF a, b
<1>2. Reverse(a) \in Seq(Chars) /\ Len(Reverse(a)) = 3
      /\ \A k \in 1 .. 3 : Reverse(a)[k] = a[3 - k + 1]
  BY <1>1, ReverseIs
<1>3. ASSUME NEW k \in 1 .. 3 PROVE Reverse(a)[k] = b[k]
  <2>1. PICK j \in 1 .. 3 : j = 3 - k + 1 BY <1>3
  <2>2. Reverse(a)[k] = a[j] BY <2>1, <1>2
  <2>3. (k = 1 /\ j = 3) \/ (k = 2 /\ j = 2) \/ (k = 3 /\ j = 1) BY <2>1
  <2> QED BY <2>2, <2>3, <1>1
<1>4. Reverse(a) = b
  <2>1. \A k \in 1 .. Len(Reverse(a)) : Reverse(a)[k] = b[k] BY <1>2, <1>3
  <2> QED BY <2>1, <1>1, <1>2, SameTexts
<1> QED BY <1>1, <1>4, Zenon DEF a, b

\* A value without digits, which are never padded with zeros.
LEMMA BarePads ==
    ASSUME NEW d \in Directives, "0" \in d.flags => "-" \in FlagsOf(d),
           NEW b \in Seq(Chars), NEW sign \in Seq(Chars), NEW word \in Seq(Chars),
           Reverse(b) = sign \o word
    PROVE  OutRev(b, WidthOf(d), FlagsOf(d)) = StdPad(sign, <<>>, word, d, FALSE)
<1> DEFINE W == WidthOf(d)
           pad == W - (Len(sign) + Len(<<>>) + Len(word))
           pads == Repeat(" ", pad)
           text == StdPad(sign, <<>>, word, d, FALSE)
           code == OutRev(b, WidthOf(d), FlagsOf(d))
<1>1. text = IF "-" \in FlagsOf(d) THEN sign \o <<>> \o word \o pads
             ELSE pads \o sign \o <<>> \o word
  BY Zenon DEF StdPad
<1>2. W \in Int BY WidthTyped
<1> HIDE DEF W
<1>3. pad = W - Len(b) /\ pad \in Int
  <2>1. Len(Reverse(b)) = Len(b) BY ReverseIs
  <2>2. Len(sign \o word) = Len(sign) + Len(word) BY ConcatIs
  <2>3. Len(<<>>) = 0 OBVIOUS
  <2>4. PICK l \in Nat, m \in Nat : l = Len(sign) /\ m = Len(word) OBVIOUS
  <2>5. Len(b) = l + m BY <2>1, <2>2, <2>4
  <2> QED BY <2>3, <2>4, <2>5, <1>2
<1>4. pads \in Seq(Chars)
  <2>1. " " \in Chars BY DEF Chars
  <2> HIDE DEF pad
  <2> QED BY <2>1, <1>3, RepeatIs
<1>5. sign \o <<>> = sign BY EmptyText
<1>6. CASE "-" \in FlagsOf(d)
  <2>1. code = Reverse(b) \o Repeat(" ", W - Len(b)) BY <1>6, OutRevIs, Zenon DEF W
  <2> QED BY <2>1, <1>1, <1>3, <1>5, <1>6, Zenon
<1>7. CASE "-" \notin FlagsOf(d)
  <2>1. "0" \notin FlagsOf(d) BY <1>7, Zenon DEF FlagsOf
  <2>2. code = Repeat(" ", W - Len(b)) \o Reverse(b) BY <2>1, <1>7, OutRevIs, Zenon DEF W
  <2> HIDE DEF pads
  <2>3. pads \o sign \in Seq(Chars) BY <1>4, ConcatIs
  <2>4. (pads \o sign) \o <<>> = pads \o sign BY <2>3, EmptyText
  <2>5. (pads \o sign) \o word = pads \o (sign \o word) BY <1>4, Rejoin
  <2>6. code = pads \o (sign \o word) BY <2>2, <1>3, Zenon DEF pads
  <2> QED BY <2>4, <2>5, <2>6, <1>1, <1>7, Zenon DEF pads
<1> QED BY <1>6, <1>7

\* A NaN or an infinite value that does not deviate reads as C says.
LEMMA SpecialReads ==
    ASSUME NEW d \in Directives, ~FloatDeviates(d), d.rest \in {"nan", "inf"}
    PROVE  FloatText(d) \in StdFloats(d)
<1>1. "0" \in d.flags => "-" \in FlagsOf(d) BY Zenon DEF FloatDeviates
<1>2. "n" \in Chars /\ "a" \in Chars /\ "i" \in Chars /\ "f" \in Chars BY DEF Chars
<1>3. "nan" # "inf" BY Zenon
<1>4. CASE d.rest = "nan"
  <2> DEFINE word == <<"n", "a", "n">>
  <2>1. word \in Seq(Chars) /\ Reverse(word) = word BY <1>2, ThreeTurned
  <2>2. PICK sign \in Seq(Chars) : sign = <<>> BY EmptyText
  <2> HIDE DEF word
  <2>3. Reverse(word) = sign \o word BY <2>1, <2>2, EmptyText
  <2>4. OutRev(word, WidthOf(d), FlagsOf(d)) = StdPad(sign, <<>>, word, d, FALSE)
    BY <2>1, <2>3, <1>1, BarePads
  <2>5. Sign(FALSE, d.flags) = <<>>
    <3>1. "+" \notin d.flags /\ " " \notin d.flags BY <1>4, Zenon DEF FloatDeviates
    <3> QED BY <3>1, Zenon DEF Sign
  <2>6. FloatText(d) = OutRev(word, WidthOf(d), FlagsOf(d)) BY <1>4, Zenon DEF FloatText, word
  <2>7. StdFloats(d) = {StdPad(Sign(neg, d.flags), <<>>, word, d, FALSE) : neg \in BOOLEAN}
    BY <1>4, Zenon DEF StdFloats, word
  <2>8. FALSE \in BOOLEAN OBVIOUS
  <2> QED BY <2>2, <2>4, <2>5, <2>6, <2>7, <2>8, Zenon
<1>5. CASE d.rest = "inf"
  <2> DEFINE word == <<"i", "n", "f">>
             back == <<"f", "n", "i">>
             sign == Sign(d.neg, d.flags)
  <2>1. word \in Seq(Chars) /\ back \in Seq(Chars) /\ Reverse(back) = word BY <1>2, ThreeTurned
  <2>2. sign \in Seq(Chars) /\ Reverse(sign) = sign BY SignIs
  <2>3. FloatText(d) = OutRev(back \o sign, WidthOf(d), FlagsOf(d))
    <3>1. ~(~d.neg /\ " " \in d.flags /\ "+" \notin d.flags) BY <1>5, Zenon DEF FloatDeviates
    <3>2. (IF d.neg THEN <<"-">> ELSE IF "+" \in d.flags THEN <<"+">> ELSE <<>>) = sign
      BY <3>1, Zenon DEF Sign
    <3>3. FloatText(d) = OutRev(back \o (IF d.neg THEN <<"-">> ELSE IF "+" \in d.flags THEN <<"+">>
                                         ELSE <<>>), WidthOf(d), FlagsOf(d))
      BY <1>3, <1>5, Zenon DEF FloatText
    <3> QED BY <3>2, <3>3, Zenon
  <2> HIDE DEF word, back
  <2>4. StdFloats(d) = {StdPad(sign, <<>>, word, d, FALSE)}
    BY <1>3, <1>5, Zenon DEF StdFloats, word
  <2> HIDE DEF sign
  <2>5. back \o sign \in Seq(Chars) BY <2>1, <2>2, ConcatIs
  <2>6. Reverse(back \o sign) = sign \o word
    <3>1. Reverse(back \o sign) = Reverse(sign) \o Reverse(back) BY <2>1, <2>2, ReverseBoth
    <3> QED BY <3>1, <2>1, <2>2
  <2>7. OutRev(back \o sign, WidthOf(d), FlagsOf(d)) = StdPad(sign, <<>>, word, d, FALSE)
    <3>1. PICK b \in Seq(Chars), w \in Seq(Chars), s \in Seq(Chars) :
              b = back \o sign /\ w = word /\ s = sign
      BY <2>1, <2>2, <2>5
    <3>2. Reverse(b) = s \o w BY <3>1, <2>6
    <3>3. OutRev(b, WidthOf(d), FlagsOf(d)) = StdPad(s, <<>>, w, d, FALSE)
      BY <3>2, <1>1, BarePads
    <3> QED BY <3>1, <3>3, Zenon
  <2> QED BY <2>3, <2>4, <2>7, Zenon
<1> QED BY <1>4, <1>5

\* Whatever its flags, width, precision, type and value, a number reads as C
\* says or is one of the cases of Deviates.
LEMMA NumberReads ==
    ASSUME NEW d \in Directives, d.conv \in {"d", "u", "x", "o", "b", "f"}, ~Deviates(d)
    PROVE  Text(d) \in Std(d)
<1>1. CASE d.conv # "f"
  <2>1. d.conv \in IntConvs BY <1>1 DEF IntConvs
  <2>2. ~TooLong(d) /\ ~IntDeviates(d) BY <1>1, Zenon DEF Deviates
  <2>3. IntText(d) = StdInt(d) BY <2>1, <2>2, IntReads
  <2>4. Text(d) = IntText(d) BY <2>1, Zenon DEF Text, IntConvs
  <2> QED BY <2>3, <2>4, <1>1, Zenon DEF Std
<1>2. CASE d.conv = "f"
  <2>1. ~TooLong(d) /\ ~FloatDeviates(d) BY <1>2, Zenon DEF Deviates
  <2>2. Text(d) = FloatText(d)
    <3>1. d.conv \notin {"d", "u", "x", "o", "b"} BY <1>2
    <3> QED BY <3>1, <1>2, Zenon DEF Text
  <2>3. CASE d.rest \in {"nan", "inf"}
    <3>1. FloatText(d) \in StdFloats(d) BY <2>1, <2>3, SpecialReads
    <3> QED BY <2>2, <3>1, <1>2, Zenon DEF Std
  <2>4. CASE d.rest \notin {"nan", "inf"}
    <3>1. FloatText(d) = FiniteText(d) BY <2>4, Zenon DEF FloatText
    <3>2. FiniteText(d) \in StdFloats(d) BY <2>1, <2>4, <1>2, FiniteReads
    <3> QED BY <2>2, <3>1, <3>2, <1>2, Zenon DEF Std
  <2> QED BY <2>3, <2>4
<1> QED BY <1>1, <1>2

----------------------------------------------------------------------------
(* The texts of a format. *)

Texts(fmt) == [k \in DOMAIN fmt |-> Text(fmt[k])]

\* What the first n directives of a format write.
Prefix(fmt, n) == FlattenSeq(SubSeq(Texts(fmt), 1, n))

LEMMA TextsTyped ==
    ASSUME NEW fmt \in Seq(Directives)
    PROVE  /\ Texts(fmt) \in Seq(Seq(Chars)) /\ Len(Texts(fmt)) = Len(fmt)
           /\ \A k \in 1 .. Len(fmt) : Texts(fmt)[k] = Text(fmt[k])
<1>1. DOMAIN fmt = 1 .. Len(fmt) /\ Len(fmt) \in Nat OBVIOUS
<1>2. \A k \in 1 .. Len(fmt) : Text(fmt[k]) \in Seq(Chars) BY TextTyped
<1> QED BY <1>1, <1>2 DEF Texts

LEMMA PrefixTyped ==
    ASSUME NEW fmt \in Seq(Directives), NEW n \in 0 .. Len(fmt)
    PROVE  Prefix(fmt, n) \in Seq(Chars)
<1>1. SubSeq(Texts(fmt), 1, n) \in Seq(Seq(Chars)) BY TextsTyped
<1>2. <<>> \in Seq(Chars) OBVIOUS
<1> QED BY <1>1, <1>2, FlattenMore DEF Prefix

LEMMA PrefixNone == ASSUME NEW fmt PROVE Prefix(fmt, 0) = <<>>
<1>1. SubSeq(Texts(fmt), 1, 0) = <<>> BY SubSeqEmpty
<1> QED BY <1>1, FlattenNone DEF Prefix

LEMMA PrefixAll ==
    ASSUME NEW fmt \in Seq(Directives)
    PROVE  Prefix(fmt, Len(fmt)) = TextOf(fmt) /\ TextOf(fmt) \in Seq(Chars)
<1>1. SubSeq(Texts(fmt), 1, Len(fmt)) = Texts(fmt) BY TextsTyped, SubSeqFull
<1>2. Prefix(fmt, Len(fmt)) = TextOf(fmt) BY <1>1, Zenon DEF Prefix, Texts, TextOf
<1>3. Len(fmt) \in 0 .. Len(fmt) OBVIOUS
<1> QED BY <1>2, <1>3, PrefixTyped

LEMMA PrefixStep ==
    ASSUME NEW fmt \in Seq(Directives), NEW n \in 1 .. Len(fmt)
    PROVE  Prefix(fmt, n) = Prefix(fmt, n - 1) \o Text(fmt[n])
<1> DEFINE a == SubSeq(Texts(fmt), 1, n - 1)
           t == Text(fmt[n])
<1>1. 1 \in 1 .. Len(Texts(fmt)) /\ n \in 1 .. Len(Texts(fmt)) BY TextsTyped
<1>2. SubSeq(Texts(fmt), 1, n) = a \o <<Texts(fmt)[n]>>
  BY <1>1, TextsTyped, SubSeqRecursiveSecond
<1>3. Texts(fmt)[n] = t /\ t \in Seq(Chars) /\ a \in Seq(Seq(Chars))
  <2>1. fmt[n] \in Directives OBVIOUS
  <2> QED BY <1>1, <2>1, TextsTyped, TextTyped
<1> HIDE DEF a, t
<1>4. FlattenSeq(a \o <<t>>) = FlattenSeq(a) \o t BY <1>3, FlattenMore
<1>5. Prefix(fmt, n) = FlattenSeq(a \o <<t>>) BY <1>2, <1>3, Zenon DEF Prefix
<1>6. Prefix(fmt, n - 1) = FlattenSeq(a) BY DEF Prefix, a
<1> QED BY <1>4, <1>5, <1>6, Zenon DEF t

\* One character as the text that is passed on for it.
Pass(c) == IF c = "NUL" THEN <<>> ELSE <<c>>
Passes(text) == [k \in DOMAIN text |-> Pass(text[k])]

LEMMA PassesTyped ==
    ASSUME NEW text \in Seq(Chars)
    PROVE  Passes(text) \in Seq(Seq(Chars)) /\ Len(Passes(text)) = Len(text)
           /\ Passed(text) = FlattenSeq(Passes(text)) /\ Passed(text) \in Seq(Chars)
<1>1. DOMAIN text = 1 .. Len(text) /\ Len(text) \in Nat OBVIOUS
<1>2. \A k \in 1 .. Len(text) : Pass(text[k]) \in Seq(Chars)
  <2> TAKE k \in 1 .. Len(text)
  <2> DEFINE c == text[k]
  <2>1. c \in Chars OBVIOUS
  <2> HIDE DEF c
  <2>2. <<>> \in Seq(Chars) /\ <<c>> \in Seq(Chars) BY <2>1, ShortSeqs
  <2>3. Pass(c) \in Seq(Chars) BY <2>2, Zenon DEF Pass
  <2> QED BY <2>3 DEF c
<1>3. Passes(text) \in Seq(Seq(Chars)) /\ Len(Passes(text)) = Len(text) BY <1>1, <1>2 DEF Passes
<1>4. Passed(text) = FlattenSeq(Passes(text)) BY Zenon DEF Passed, Passes, Pass
<1>5. <<>> \in Seq(Chars) OBVIOUS
<1> QED BY <1>3, <1>4, <1>5, FlattenMore

LEMMA PassedNone == Passed(<<>>) = <<>>
<1>1. Passes(<<>>) = <<>> BY DEF Passes
<1>2. <<>> \in Seq(Chars) OBVIOUS
<1>3. Passed(<<>>) = FlattenSeq(Passes(<<>>)) BY <1>2, PassesTyped
<1> QED BY <1>1, <1>3, FlattenNone, Zenon

\* A function is given the texts one behind the other.
LEMMA PassedMore ==
    ASSUME NEW a \in Seq(Chars), NEW b \in Seq(Chars)
    PROVE  Passed(a \o b) = Passed(a) \o Passed(b)
<1> DEFINE u == Passes(a \o b)
           v == Passes(a) \o Passes(b)
<1>1. a \o b \in Seq(Chars) /\ Len(a \o b) = Len(a) + Len(b)
      /\ Len(a) \in Nat /\ Len(b) \in Nat
  OBVIOUS
<1>2. u \in Seq(Seq(Chars)) /\ Len(u) = Len(a) + Len(b) BY <1>1, PassesTyped
<1>3. /\ Passes(a) \in Seq(Seq(Chars)) /\ Len(Passes(a)) = Len(a)
      /\ Passes(b) \in Seq(Seq(Chars)) /\ Len(Passes(b)) = Len(b)
  BY PassesTyped
<1>4. v \in Seq(Seq(Chars)) /\ Len(v) = Len(a) + Len(b)
  <2>1. \A x, y \in Seq(Seq(Chars)) : x \o y \in Seq(Seq(Chars)) /\ Len(x \o y) = Len(x) + Len(y)
    BY ConcatProperties
  <2> QED BY <2>1, <1>3
<1>5. ASSUME NEW k \in 1 .. Len(u) PROVE u[k] = v[k]
  <2>1. DOMAIN a = 1 .. Len(a) /\ DOMAIN b = 1 .. Len(b) /\ DOMAIN (a \o b) = 1 .. Len(a) + Len(b)
    BY <1>1
  <2>2. u[k] = Pass((a \o b)[k]) BY <1>2, <2>1 DEF Passes
  <2>3. v[k] = IF k <= Len(a) THEN Passes(a)[k] ELSE Passes(b)[k - Len(a)] BY <1>2, <1>3
  <2>4. (a \o b)[k] = IF k <= Len(a) THEN a[k] ELSE b[k - Len(a)] BY <1>2
  <2>5. CASE k <= Len(a)
    <3>1. Passes(a)[k] = Pass(a[k]) BY <2>1, <2>5, <1>1, <1>2 DEF Passes
    <3> QED BY <2>2, <2>3, <2>4, <2>5, <3>1
  <2>6. CASE ~(k <= Len(a))
    <3>1. k - Len(a) \in 1 .. Len(b) BY <2>6, <1>1, <1>2
    <3>2. Passes(b)[k - Len(a)] = Pass(b[k - Len(a)]) BY <2>1, <3>1 DEF Passes
    <3> QED BY <2>2, <2>3, <2>4, <2>6, <3>2
  <2> QED BY <2>5, <2>6
<1>6. u = v
  <2> HIDE DEF u, v
  <2> QED BY <1>2, <1>4, <1>5, SeqEqual
<1>7. FlattenSeq(u) = FlattenSeq(Passes(a)) \o FlattenSeq(Passes(b))
  BY <1>3, <1>6, FlattenBoth
<1>8. Passed(a \o b) = FlattenSeq(u) BY <1>1, PassesTyped
<1>9. Passed(a) = FlattenSeq(Passes(a)) /\ Passed(b) = FlattenSeq(Passes(b)) BY PassesTyped
<1> QED BY <1>7, <1>8, <1>9, Zenon

\* A text without a NUL is passed on whole.
LEMMA PassedAll ==
    ASSUME NEW text \in Seq(Chars), \A k \in DOMAIN text : text[k] # "NUL"
    PROVE  Passed(text) = text
<1> DEFINE Part(k) == SubSeq(text, 1, k)
           Bad == {k \in 0 .. Len(text) : Passed(Part(k)) # Part(k)}
<1>1. SUFFICES ASSUME Bad # {} PROVE FALSE
  <2>1. Part(Len(text)) = text /\ Len(text) \in 0 .. Len(text) BY SubSeqFull
  <2> QED BY <2>1
<1>2. PICK p \in Bad : \A q \in Bad : p <= q
  <2>1. Bad \in SUBSET Nat OBVIOUS
  <2> HIDE DEF Bad
  <2> QED BY <1>1, <2>1, LeastExists
<1>3. p \in 0 .. Len(text) /\ Passed(Part(p)) # Part(p) OBVIOUS
<1>4. p # 0
  <2>1. Part(0) = <<>> BY SubSeqEmpty
  <2> HIDE DEF Part
  <2> QED BY <2>1, <1>3, PassedNone
<1>5. Passed(Part(p - 1)) = Part(p - 1)
  <2>1. p - 1 \in 0 .. Len(text) /\ ~(p <= p - 1) BY <1>3, <1>4
  <2>2. p - 1 \notin Bad BY <2>1, <1>2
  <2> QED BY <2>1, <2>2
<1> DEFINE c == text[p]
<1>6. p \in 1 .. Len(text) /\ 1 \in 1 .. Len(text) /\ p \in DOMAIN text BY <1>3, <1>4
<1>7. c \in Chars /\ c # "NUL" BY <1>6
<1>8. Part(p) = Part(p - 1) \o <<c>> BY <1>6, SubSeqRecursiveSecond
<1>9. Part(p - 1) \in Seq(Chars) BY <1>6
<1> HIDE DEF Part, c, Bad
<1>10. <<c>> \in Seq(Chars) BY <1>7, ShortSeqs
<1>11. Passed(<<c>>) = <<c>>
  <2>1. Passes(<<c>>) = <<Pass(c)>> BY DEF Passes
  <2>2. Pass(c) = <<c>> BY <1>7, Zenon DEF Pass
  <2>3. FlattenSeq(<<Pass(c)>>) = Pass(c)
    <3>1. Len(<<Pass(c)>>) = 1 /\ <<Pass(c)>>[1] = Pass(c) OBVIOUS
    <3> QED BY <3>1, FlattenOne
  <2>4. Passed(<<c>>) = FlattenSeq(Passes(<<c>>)) BY <1>10, PassesTyped
  <2> QED BY <2>1, <2>2, <2>3, <2>4, Zenon
<1>12. Passed(Part(p - 1) \o <<c>>) = Passed(Part(p - 1)) \o Passed(<<c>>)
  BY <1>9, <1>10, PassedMore
<1>13. Passed(Part(p)) = Part(p) BY <1>5, <1>8, <1>11, <1>12, Zenon
<1> QED BY <1>3, <1>13

----------------------------------------------------------------------------
(* The invariant. *)

\* What the sinks hold when a text has been written and not yet ended.
Held(text) == [p \in 0 .. Room - 1 |-> IF Sink = "buffer" /\ p < Len(text) /\ p < maxlen
                                       THEN text[p + 1] ELSE "old"]
Given(text) == IF Sink = "function" THEN Passed(text) ELSE <<>>

\* A text that ends with its NUL at place end.
EndsAt(text, end) == [p \in 0 .. Room - 1 |-> IF p > end THEN "old"
                                              ELSE IF p = end THEN "NUL" ELSE text[p + 1]]

PrintTyped ==
    /\ pc \in {"idle", "puts", "malloc", "format", "check", "strdup", "done"}
    /\ pos \in Nat /\ idx \in Nat /\ maxlen \in Nat /\ chunks \in Nat /\ ret \in Int
    /\ buf \in [0 .. Room - 1 -> Chars] /\ sent \in Seq(Chars)
    /\ pc # "idle" => call \in Calls
    /\ pc \in {"malloc", "check", "strdup"} => call.api = "asprintf"
    /\ pc = "puts" => call.api = "puts"
    /\ pc = "format" => call.api # "puts" /\ pos \in 1 .. Len(call.fmt) + 1
    /\ pc = "format" /\ call.api # "asprintf" => maxlen <= Huge

\* Before a call and before a block is formatted nothing has been written.
Fresh == /\ pc \in {"idle", "puts"} => buf = Untouched
         /\ pc \in {"idle", "puts", "malloc", "check"} => sent = <<>>
         /\ pc = "idle" => pos = 1 /\ idx = 0

\* Every sink has what the directives so far have written.
WrittenSoFar ==
    pc = "format" => LET text == Prefix(call.fmt, pos - 1)
                     IN  idx = Len(text) /\ buf = Held(text) /\ sent = Given(text)

\* vasprintf has one block while it works, and a text in it that fits is whole.
BlockHeld ==
    /\ pc \in {"idle", "puts", "malloc"} => live = {}
    /\ pc \in {"format", "check", "strdup"} /\ call.api = "asprintf" => live = {"block"}
    /\ pc # "done" => result = "NULL"
    /\ pc \in {"check", "strdup"} =>
          /\ ret = Len(FullText)
          /\ ret < maxlen - 1 => buf = EndsAt(FullText, Len(FullText))
    /\ pc = "strdup" => ret > 0 /\ ret < maxlen - 1

PrintInv == PrintTyped /\ Fresh /\ WrittenSoFar /\ BlockHeld /\ Truncated /\ OwnsResult

----------------------------------------------------------------------------
(* The length of a format, with which vasprintf begins. *)

Sums(s, n, f) == f = [k \in 0 .. n |-> IF k = 0 THEN 0 ELSE f[k - 1] + DirectiveLen(s[k])]

LEMMA SumsExist ==
    ASSUME NEW s, NEW n \in Nat
    PROVE  \E f : Sums(s, n, f)
<1> DEFINE Bad == {k \in 0 .. n : ~ \E f : Sums(s, k, f)}
<1>1. SUFFICES Bad = {}
  <2>1. n \in 0 .. n OBVIOUS
  <2> QED BY <2>1
<1>2. SUFFICES ASSUME Bad # {} PROVE FALSE OBVIOUS
<1>3. PICK p \in Bad : \A q \in Bad : p <= q
  <2>1. Bad \in SUBSET Nat OBVIOUS
  <2> HIDE DEF Bad
  <2> QED BY <1>2, <2>1, LeastExists
<1>4. p # 0
  <2>1. Sums(s, 0, [k \in 0 .. 0 |-> 0]) BY DEF Sums
  <2> QED BY <2>1
<1>5. PICK f : Sums(s, p - 1, f)
  <2>1. p - 1 \in 0 .. n /\ ~(p <= p - 1) BY <1>4
  <2>2. p - 1 \notin Bad BY <2>1, <1>3
  <2> QED BY <2>1, <2>2
<1> DEFINE g == [k \in 0 .. p |-> IF k = p THEN f[p - 1] + DirectiveLen(s[p]) ELSE f[k]]
<1>6. ASSUME NEW k \in 0 .. p PROVE g[k] = IF k = 0 THEN 0 ELSE g[k - 1] + DirectiveLen(s[k])
  <2>1. CASE k = p
    <3>1. k - 1 \in 0 .. p /\ k - 1 # p /\ g[k - 1] = f[k - 1] BY <2>1, <1>4
    <3> QED BY <2>1, <3>1, <1>4
  <2>2. CASE k # p
    <3>1. k \in 0 .. p - 1 BY <2>2
    <3>2. f[k] = IF k = 0 THEN 0 ELSE f[k - 1] + DirectiveLen(s[k]) BY <3>1, <1>5 DEF Sums
    <3>3. k # 0 => k - 1 \in 0 .. p /\ k - 1 # p /\ g[k - 1] = f[k - 1] BY <3>1
    <3>4. g[k] = f[k] BY <2>2
    <3> QED BY <3>2, <3>3, <3>4
  <2> QED BY <2>1, <2>2
<1>7. Sums(s, p, g)
  <2>1. g = [k \in 0 .. p |-> g[k]] OBVIOUS
  <2> HIDE DEF g
  <2> QED BY <2>1, <1>6 DEF Sums
<1> QED BY <1>7, <1>3

LEMMA FiveFinite == ASSUME NEW a, NEW b, NEW c, NEW d, NEW e PROVE IsFiniteSet({a, b, c, d, e})
<1>1. IsFiniteSet({} \cup {a}) BY FS_EmptySet, FS_AddElement, Zenon
<1>2. IsFiniteSet(({} \cup {a}) \cup {b}) BY <1>1, FS_AddElement, Zenon
<1>3. IsFiniteSet((({} \cup {a}) \cup {b}) \cup {c}) BY <1>2, FS_AddElement, Zenon
<1>4. IsFiniteSet(((({} \cup {a}) \cup {b}) \cup {c}) \cup {d}) BY <1>3, FS_AddElement, Zenon
<1>5. IsFiniteSet((((({} \cup {a}) \cup {b}) \cup {c}) \cup {d}) \cup {e})
  BY <1>4, FS_AddElement, Zenon
<1>6. (((({} \cup {a}) \cup {b}) \cup {c}) \cup {d}) \cup {e} = {a, b, c, d, e} OBVIOUS
<1> QED BY <1>5, <1>6

LEMMA DirectiveLenNat == ASSUME NEW d \in Directives PROVE DirectiveLen(d) \in Nat
<1>1. d.flags \subseteq {"0", "-", "+", " ", "#"} BY DEF Directives
<1>2. IsFiniteSet({"0", "-", "+", " ", "#"}) BY FiveFinite
<1>3. Cardinality(d.flags) \in Nat BY <1>1, <1>2, FS_Subset, FS_CardinalityType
<1>4. (CASE d.len = "" -> 0 [] d.len \in {"h", "l"} -> 1 [] OTHER -> 2) \in Nat OBVIOUS
<1>5. (IF d.dot THEN 2 ELSE 0) \in Nat /\ (IF d.width # 0 THEN 1 ELSE 0) \in Nat OBVIOUS
<1> DEFINE a == Cardinality(d.flags)
           b == CASE d.len = "" -> 0 [] d.len \in {"h", "l"} -> 1 [] OTHER -> 2
           x == IF d.dot THEN 2 ELSE 0
           y == IF d.width # 0 THEN 1 ELSE 0
<1>6. DirectiveLen(d) = IF d.conv = "lit" THEN 1 ELSE 2 + a + x + y + b BY Zenon DEF DirectiveLen
<1> HIDE DEF a, b, x, y
<1>7. a \in Nat /\ b \in Nat /\ x \in Nat /\ y \in Nat BY <1>3, <1>4, <1>5 DEF a, b, x, y
<1> QED BY <1>6, <1>7

LEMMA FmtLenNat == ASSUME NEW fmt \in Seq(Directives) PROVE FmtLen(fmt) \in Nat
<1> DEFINE f == CHOOSE g : Sums(fmt, Len(fmt), g)
           Bad == {k \in 0 .. Len(fmt) : f[k] \notin Nat}
<1>1. Sums(fmt, Len(fmt), f)
  <2>1. Len(fmt) \in Nat OBVIOUS
  <2>2. \E g : Sums(fmt, Len(fmt), g) BY <2>1, SumsExist
  <2> QED BY <2>2, Zenon
<1>2. FmtLen(fmt) = f[Len(fmt)] BY Zenon DEF FmtLen, Sums
<1> HIDE DEF f
<1>3. SUFFICES ASSUME Bad # {} PROVE FALSE
  <2>1. Len(fmt) \in 0 .. Len(fmt) OBVIOUS
  <2> QED BY <2>1, <1>2
<1>4. PICK p \in Bad : \A q \in Bad : p <= q
  <2>1. Bad \in SUBSET Nat OBVIOUS
  <2> HIDE DEF Bad
  <2> QED BY <1>3, <2>1, LeastExists
<1>5. p \in 0 .. Len(fmt) /\ f[p] \notin Nat OBVIOUS
<1>6. f[p] = IF p = 0 THEN 0 ELSE f[p - 1] + DirectiveLen(fmt[p]) BY <1>1, <1>5 DEF Sums
<1>7. p # 0 BY <1>5, <1>6
<1>8. f[p - 1] \in Nat
  <2>1. p - 1 \in 0 .. Len(fmt) /\ ~(p <= p - 1) BY <1>5, <1>7
  <2>2. p - 1 \notin Bad BY <2>1, <1>4
  <2> QED BY <2>1, <2>2
<1>9. DirectiveLen(fmt[p]) \in Nat
  <2>1. fmt[p] \in Directives BY <1>5, <1>7
  <2> QED BY <2>1, DirectiveLenNat
<1> QED BY <1>5, <1>6, <1>7, <1>8, <1>9

----------------------------------------------------------------------------
(* What a text does to a sink. *)

LEMMA SinkKinds ==
    /\ Sink \in {"function", "null", "buffer"}
    /\ call.api = "puts" => Sink = "function"
    /\ call.api = "asprintf" => Sink = "buffer"
BY DEF Sink

LEMMA HeldMore ==
    ASSUME NEW text \in Seq(Chars), NEW t \in Seq(Chars), maxlen \in Nat,
           buf = Held(text), Sink = "buffer"
    PROVE  OutBuffer(t, Len(text)) = Held(text \o t)
<1> DEFINE a == Len(text)
           e == Len(text) + Len(t)
<1>1. DOMAIN buf = 0 .. Room - 1 BY DEF Held
<1>2. a \in Nat /\ e \in Nat /\ Len(t) \in Nat /\ Len(text \o t) = e OBVIOUS
<1>3. ASSUME NEW p \in 0 .. Room - 1
      PROVE  (IF p >= a /\ p < e /\ p < maxlen THEN t[p - a + 1] ELSE buf[p])
             = (IF p < e /\ p < maxlen THEN (text \o t)[p + 1] ELSE "old")
  <2>1. buf[p] = IF p < a /\ p < maxlen THEN text[p + 1] ELSE "old" BY DEF Held
  <2>2. p \in Int BY PrintfAssumption
  <2>3. CASE p < a
    <3>1. (text \o t)[p + 1] = text[p + 1]
      <4>1. p + 1 \in 1 .. Len(text) + Len(t) /\ p + 1 <= Len(text) BY <2>2, <2>3, <1>2
      <4> QED BY <4>1, ConcatProperties
    <3>2. p < e /\ ~(p >= a) BY <2>2, <2>3, <1>2
    <3> QED BY <2>1, <2>3, <3>1, <3>2
  <2>4. CASE p >= a /\ p < e
    <3>1. p + 1 \in 1 .. Len(text) + Len(t) /\ ~(p + 1 <= Len(text)) /\ p + 1 - Len(text) = p - a + 1
      BY <2>2, <2>4, <1>2
    <3>2. (text \o t)[p + 1] = t[p + 1 - Len(text)] BY <3>1, ConcatProperties
    <3>3. (text \o t)[p + 1] = t[p - a + 1] BY <3>1, <3>2
    <3>4. ~(p < a) BY <2>2, <2>4, <1>2
    <3> HIDE DEF a, e
    <3> QED BY <2>1, <2>4, <3>3, <3>4
  <2>5. CASE ~(p < e)
    <3>1. ~(p < a) BY <2>2, <2>5, <1>2
    <3> QED BY <2>1, <2>5, <3>1
  <2> HIDE DEF a, e
  <2> QED BY <2>2, <2>3, <2>4, <2>5, <1>2
<1>4. OutBuffer(t, a) = [p \in 0 .. Room - 1 |->
         IF p >= a /\ p < e /\ p < maxlen THEN t[p - a + 1] ELSE buf[p]]
  BY <1>1 DEF OutBuffer
<1>5. Held(text \o t) = [p \in 0 .. Room - 1 |->
         IF p < e /\ p < maxlen THEN (text \o t)[p + 1] ELSE "old"]
  BY <1>2, Zenon DEF Held
<1> HIDE DEF a, e
<1>6. OutBuffer(t, a) = Held(text \o t) BY <1>3, <1>4, <1>5
<1> QED BY <1>6 DEF a

\* A text put to its sink behind all the text before.
LEMMA OutMore ==
    ASSUME NEW text \in Seq(Chars), NEW t \in Seq(Chars), maxlen \in Nat,
           buf = Held(text), sent = Given(text), Out(t, Len(text)), UNCHANGED <<call, maxlen>>
    PROVE  buf' = Held(text \o t)' /\ sent' = Given(text \o t)'
<1>1. Sink' = Sink BY DEF Sink
<1>2. buf' = Held(text \o t)
  <2>1. CASE Sink = "buffer"
    <3>1. buf' = OutBuffer(t, Len(text)) BY <2>1 DEF Out
    <3> QED BY <2>1, <3>1, HeldMore
  <2>2. CASE Sink # "buffer"
    <3>1. buf' = buf BY <2>2 DEF Out
    <3> QED BY <2>2, <3>1 DEF Held
  <2> QED BY <2>1, <2>2
<1>3. sent' = Given(text \o t)
  <2>1. CASE Sink = "function"
    <3>1. sent' = Passed(text) \o Passed(t) BY <2>1 DEF Out, Given
    <3>2. Passed(text \o t) = Passed(text) \o Passed(t) BY PassedMore
    <3> QED BY <2>1, <3>1, <3>2 DEF Given
  <2>2. CASE Sink # "function"
    <3>1. sent' = sent BY <2>2 DEF Out
    <3> QED BY <2>2, <3>1 DEF Given
  <2> QED BY <2>1, <2>2
<1> QED BY <1>1, <1>2, <1>3 DEF Held, Given

LEMMA HeldTyped ==
    ASSUME NEW text \in Seq(Chars), maxlen \in Nat
    PROVE  Held(text) \in [0 .. Room - 1 -> Chars] /\ Given(text) \in Seq(Chars)
<1>1. ASSUME NEW p \in 0 .. Room - 1, p < Len(text) PROVE text[p + 1] \in Chars
  <2>1. p + 1 \in 1 .. Len(text) BY <1>1, PrintfAssumption
  <2> QED BY <2>1
<1>2. "old" \in Chars BY DEF Chars
<1> QED BY <1>1, <1>2, PassesTyped, ShortSeqs DEF Held, Given

----------------------------------------------------------------------------
(* The end of a text. *)

\* The place of the NUL when there is no room for it behind the text.
LEMMA LastPlace ==
    ASSUME NEW m \in Nat, m <= Huge
    PROVE  (m - 1) % (Huge + 1) = IF m = 0 THEN Huge ELSE m - 1
<1>1. Huge \in Nat BY PrintfAssumption
<1>2. ASSUME NEW h \in Nat, NEW x \in Nat, x < h PROVE x % h = x
  <2> DEFINE q == x \div h
             r == x % h
  <2>1. q \in Int /\ r \in 0 .. h - 1 /\ x = h * q + r BY <1>2
  <2> HIDE DEF q, r
  <2>2. ASSUME NEW k \in Int, k >= 1 PROVE h * k >= h BY <2>2
  <2>3. ASSUME NEW k \in Int, k <= -1 PROVE h * k <= -h BY <2>3
  <2>4. q = 0 BY <2>1, <2>2, <2>3, <1>2
  <2>5. r = x BY <2>1, <2>4
  <2> QED BY <2>5 DEF r
<1>3. CASE m = 0
  <2>1. ASSUME NEW h \in Nat \ {0} PROVE (-1) % h = h - 1 OBVIOUS
  <2>2. (-1) % (Huge + 1) = Huge + 1 - 1 BY <1>1, <2>1
  <2> QED BY <1>1, <1>3, <2>2
<1>4. CASE m # 0
  <2>1. Huge + 1 \in Nat /\ m - 1 \in Nat /\ m - 1 < Huge + 1 BY <1>1, <1>4
  <2>2. (m - 1) % (Huge + 1) = m - 1 BY <1>2, <2>1
  <2> QED BY <1>4, <2>2
<1> QED BY <1>3, <1>4

LEMMA NulPassed == Passed(<<"NUL">>) = <<>>
<1>1. Passes(<<"NUL">>) = << <<>> >> BY DEF Passes, Pass
<1>2. <<"NUL">> \in Seq(Chars) BY ShortSeqs DEF Chars
<1>3. FlattenSeq(<< <<>> >>) = <<>>
  <2>1. Len(<< <<>> >>) = 1 /\ << <<>> >>[1] = <<>> OBVIOUS
  <2> QED BY <2>1, FlattenOne
<1> QED BY <1>1, <1>2, <1>3, PassesTyped

\* The NUL in a buffer, and nothing of it in a function.
LEMMA OutNul ==
    ASSUME NEW text \in Seq(Chars), NEW at \in Int, maxlen \in Nat,
           buf = Held(text), sent = Given(text), Out(<<"NUL">>, at)
    PROVE  /\ DOMAIN buf' = 0 .. Room - 1 /\ buf' \in [0 .. Room - 1 -> Chars]
           /\ \A p \in 0 .. Room - 1 :
                 buf'[p] = IF Sink = "buffer" /\ p = at /\ p < maxlen THEN "NUL" ELSE Held(text)[p]
           /\ sent' = Given(text)
<1> DEFINE nul == <<"NUL">>
<1>1. Len(nul) = 1 /\ nul[1] = "NUL" OBVIOUS
<1>2. DOMAIN buf = 0 .. Room - 1 BY DEF Held
<1>3. \A p \in 0 .. Room - 1 : p \in Int BY PrintfAssumption
<1>4. Held(text) \in [0 .. Room - 1 -> Chars] /\ Given(text) \in Seq(Chars) BY HeldTyped
<1>5. buf' = IF Sink = "buffer" THEN OutBuffer(nul, at) ELSE buf BY DEF Out
<1>6. sent' = IF Sink = "function" THEN sent \o Passed(nul) ELSE sent BY DEF Out
<1>7. OutBuffer(nul, at) = [p \in 0 .. Room - 1 |->
         IF p >= at /\ p < at + Len(nul) /\ p < maxlen THEN nul[p - at + 1] ELSE buf[p]]
  BY <1>2, Zenon DEF OutBuffer
<1> HIDE DEF nul
<1>8. ASSUME NEW p \in 0 .. Room - 1
      PROVE  OutBuffer(nul, at)[p] = IF p = at /\ p < maxlen THEN "NUL" ELSE Held(text)[p]
  <2>1. (p >= at /\ p < at + Len(nul)) <=> p = at BY <1>1, <1>3
  <2>2. p = at => p - at + 1 = 1 BY <1>3
  <2>3. OutBuffer(nul, at)[p] = IF p = at /\ p < maxlen THEN nul[p - at + 1] ELSE buf[p]
    BY <1>7, <2>1
  <2> QED BY <2>2, <2>3, <1>1
<1>9. \A p \in 0 .. Room - 1 :
         buf'[p] = IF Sink = "buffer" /\ p = at /\ p < maxlen THEN "NUL" ELSE Held(text)[p]
  BY <1>5, <1>8
<1>10. DOMAIN buf' = 0 .. Room - 1 /\ buf' = [p \in 0 .. Room - 1 |-> buf'[p]]
  BY <1>2, <1>5, <1>7, <1>4
<1>11. \A p \in 0 .. Room - 1 : buf'[p] \in Chars
  <2>1. "NUL" \in Chars BY DEF Chars
  <2> QED BY <1>9, <1>4, <2>1
<1>12. sent' = Given(text)
  <2>1. Passed(nul) = <<>> BY NulPassed DEF nul
  <2>2. Given(text) \o <<>> = Given(text) BY <1>4, ConcatEmptySeq
  <2> QED BY <1>6, <2>1, <2>2
<1> QED BY <1>9, <1>10, <1>11, <1>12

\* What the contents of a buffer are when the NUL has gone to its place.
LEMMA EndOfBuffer ==
    ASSUME NEW text \in Seq(Chars), maxlen \in Nat, maxlen <= Huge, NEW p \in 0 .. Room - 1,
           Sink = "buffer", NEW at,
           at = IF Len(text) < maxlen THEN Len(text) ELSE (maxlen - 1) % (Huge + 1)
    PROVE  (IF p = at /\ p < maxlen THEN "NUL" ELSE Held(text)[p])
           = LET end == Min({Len(text), maxlen - 1})
             IN  IF p > end THEN "old" ELSE IF p = end THEN "NUL" ELSE text[p + 1]
<1> DEFINE len == Len(text)
           end == Min({len, maxlen - 1})
<1>1. len \in Nat /\ maxlen - 1 \in Int OBVIOUS
<1>2. end = IF len <= maxlen - 1 THEN len ELSE maxlen - 1 BY <1>1, MinTwo
<1>3. (maxlen - 1) % (Huge + 1) = IF maxlen = 0 THEN Huge ELSE maxlen - 1 BY LastPlace
<1>4. Held(text)[p] = IF p < len /\ p < maxlen THEN text[p + 1] ELSE "old" BY DEF Held
<1>5. p \in Nat BY PrintfAssumption
<1>6. at = IF len < maxlen THEN len ELSE IF maxlen = 0 THEN Huge ELSE maxlen - 1 BY <1>3
<1>7. SUFFICES (IF p = at /\ p < maxlen THEN "NUL" ELSE Held(text)[p])
               = IF p > end THEN "old" ELSE IF p = end THEN "NUL" ELSE text[p + 1]
  BY Zenon
<1> HIDE DEF len, end
<1>8. CASE len < maxlen BY <1>1, <1>2, <1>4, <1>5, <1>6, <1>8
<1>9. CASE ~(len < maxlen) BY <1>1, <1>2, <1>4, <1>5, <1>6, <1>9
<1> QED BY <1>8, <1>9

LEMMA MinIs ==
    ASSUME NEW S \in SUBSET Nat, NEW m \in S, \A q \in S : m <= q
    PROVE  Min(S) = m
<1>1. \E x \in S : \A y \in S : x =< y OBVIOUS
<1> DEFINE x == Min(S)
<1>2. x \in S /\ \A y \in S : x =< y BY <1>1, Zenon DEF Min
<1> HIDE DEF x
<1>3. x = m BY <1>2
<1> QED BY <1>3 DEF x

\* The string in a block that holds a whole text is the text as a C string.
LEMMA StringHeld ==
    ASSUME NEW text \in Seq(Chars), Len(text) < Room, NEW b, b = EndsAt(text, Len(text)),
           NEW size \in Nat, Len(text) < size - 1
    PROVE  StringIn(b, size) = CString(text)
<1> DEFINE len == Len(text)
           nuls == {p \in 0 .. size - 1 : b[p] = "NUL"}
           marks == {k \in DOMAIN text : text[k] = "NUL"}
<1>1. len \in Nat /\ DOMAIN text = 1 .. len /\ Room \in Nat BY PrintfAssumption
<1>2. ASSUME NEW p \in 0 .. len - 1 PROVE b[p] = text[p + 1]
  <2>1. p \in 0 .. Room - 1 /\ ~(p > len) /\ p # len
    <3>1. len \in Nat /\ Room \in Nat /\ len < Room BY <1>1
    <3> HIDE DEF len
    <3> QED BY <3>1
  <2> QED BY <2>1 DEF EndsAt
<1>3. b[len] = "NUL" /\ len \in nuls
  <2>1. len \in 0 .. Room - 1 /\ ~(len > len) /\ len \in 0 .. size - 1 BY <1>1
  <2>2. b[len] = "NUL" BY <2>1 DEF EndsAt
  <2> QED BY <2>1, <2>2
<1>4. nuls \in SUBSET Nat /\ nuls # {} BY <1>3
<1>5. StringIn(b, size) = [k \in 1 .. Min(nuls) |-> b[k - 1]]
  BY <1>4, Zenon DEF StringIn
<1>6. CASE marks = {}
  <2>1. \A q \in nuls : len <= q
    <3>1. ASSUME NEW q \in nuls, q < len PROVE FALSE
      <4>1. q \in 0 .. len - 1 /\ q + 1 \in 1 .. len BY <3>1, <1>1
      <4>2. text[q + 1] = "NUL" BY <4>1, <1>2
      <4> QED BY <4>1, <4>2, <1>1, <1>6
    <3> QED BY <3>1, <1>1
  <2>2. Min(nuls) = len
    <3> HIDE DEF nuls, len
    <3> QED BY <2>1, <1>3, <1>4, MinIs
  <2>3. \A k \in 1 .. len : b[k - 1] = text[k]
    <3> TAKE k \in 1 .. len
    <3>1. k - 1 \in 0 .. len - 1 /\ k - 1 + 1 = k BY <1>1
    <3> QED BY <3>1, <1>2
  <2>4. [k \in 1 .. len |-> b[k - 1]] = text BY <2>3, <1>1
  <2>5. CString(text) = text BY <1>6, Zenon DEF CString
  <2> QED BY <1>5, <2>2, <2>4, <2>5
<1>7. CASE marks # {}
  <2>1. marks \in SUBSET Nat BY <1>1
  <2>2. PICK j \in marks : \A q \in marks : j <= q
    <3> HIDE DEF marks
    <3> QED BY <2>1, <1>7, LeastExists
  <2>3. Min(marks) = j
    <3> HIDE DEF marks
    <3> QED BY <2>1, <2>2, MinIs
  <2>4. j \in 1 .. len /\ text[j] = "NUL" BY <1>1
  <2>5. j - 1 \in nuls
    <3>1. j - 1 \in 0 .. len - 1 /\ j - 1 + 1 = j /\ j - 1 \in 0 .. size - 1 BY <2>4, <1>1
    <3> QED BY <3>1, <2>4, <1>2
  <2>6. \A q \in nuls : j - 1 <= q
    <3>1. ASSUME NEW q \in nuls, q < j - 1 PROVE FALSE
      <4>1. q \in 0 .. len - 1 /\ q + 1 \in 1 .. len /\ q + 1 < j BY <3>1, <2>4, <1>1
      <4>2. text[q + 1] = "NUL" BY <4>1, <1>2
      <4>3. q + 1 \in marks BY <4>1, <4>2, <1>1
      <4> QED BY <4>1, <4>3, <2>2, <2>4, <1>1
    <3> QED BY <3>1, <2>4
  <2>7. Min(nuls) = j - 1
    <3> HIDE DEF nuls
    <3> QED BY <2>5, <2>6, <1>4, MinIs
  <2>8. SubSeq(text, 1, j - 1) = [k \in 1 .. j - 1 |-> text[k]] BY <2>4, <1>1
  <2>9. \A k \in 1 .. j - 1 : b[k - 1] = text[k]
    <3> TAKE k \in 1 .. j - 1
    <3>1. k - 1 \in 0 .. len - 1 /\ k - 1 + 1 = k BY <1>1, <2>4
    <3> QED BY <3>1, <1>2
  <2>10. [k \in 1 .. j - 1 |-> b[k - 1]] = SubSeq(text, 1, j - 1) BY <2>8, <2>9
  <2>11. CString(text) = SubSeq(text, 1, j - 1) BY <1>7, <2>3, Zenon DEF CString
  <2> QED BY <1>5, <2>7, <2>10, <2>11
<1> QED BY <1>6, <1>7

----------------------------------------------------------------------------
(* The invariant is inductive. *)

LEMMA CallsTyped ==
    ASSUME NEW c \in Calls
    PROVE  /\ c.fmt \in Seq(Directives) /\ c.count \in 0 .. Huge
           /\ c.api \in {"printf", "fctprintf", "sprintf", "snprintf", "count", "puts", "asprintf"}
           /\ TextOf(c.fmt) \in Seq(Chars) /\ Len(TextOf(c.fmt)) \in Nat
<1>1. c.fmt \in Seq(Directives) BY CallsAssumption
<1>2. TextOf(c.fmt) \in Seq(Chars) BY <1>1, PrefixAll
<1>3. Len(TextOf(c.fmt)) \in Nat BY <1>2
<1> QED BY <1>1, <1>2, <1>3, CallsAssumption

LEMMA PrintInitially == Init => PrintInv
<1> SUFFICES ASSUME Init PROVE PrintInv OBVIOUS
<1>1. PrintTyped
  <2>1. Untouched \in [0 .. Room - 1 -> Chars] BY DEF Untouched, Chars
  <2> QED BY <2>1, ShortSeqs DEF Init, PrintTyped
<1>2. Fresh BY DEF Init, Fresh
<1>3. WrittenSoFar BY DEF Init, WrittenSoFar
<1>4. BlockHeld BY DEF Init, BlockHeld
<1>5. Truncated /\ OwnsResult BY DEF Init, Truncated, OwnsResult
<1> QED BY <1>1, <1>2, <1>3, <1>4, <1>5 DEF PrintInv

\* A call is taken up with nothing written.
LEMMA CallStep ==
    ASSUME PrintInv, NEW c \in Calls, Call(c)
    PROVE  PrintInv'
<1> USE DEF Call
<1>1. /\ pc = "idle" /\ pos = 1 /\ idx = 0 /\ buf = Untouched /\ sent = <<>> /\ live = {}
      /\ result = "NULL" /\ maxlen \in Nat /\ chunks \in Nat /\ ret \in Int
      /\ buf \in [0 .. Room - 1 -> Chars]
  BY DEF PrintInv, PrintTyped, Fresh, BlockHeld
<1>2. /\ call' = c /\ pos' = 1 /\ idx' = 0 /\ buf' = Untouched /\ sent' = <<>> /\ live' = {}
      /\ result' = "NULL" /\ ret' \in Int /\ buf' \in [0 .. Room - 1 -> Chars]
  BY <1>1
<1>3. Huge \in Nat /\ Chunk \in Nat /\ Chunk > 0 BY PrintfAssumption
<1>4. CASE c.api = "asprintf"
  <2>1. /\ chunks' = (FmtLen(c.fmt) + 1) \div Chunk + 1 /\ maxlen' = chunks' * Chunk
        /\ pc' = "malloc"
    BY <1>4
  <2>2. chunks' \in Nat /\ maxlen' \in Nat
    <3>1. FmtLen(c.fmt) \in Nat BY CallsTyped, FmtLenNat
    <3>2. \A x \in Nat : x \div Chunk \in Nat BY <1>3
    <3>3. chunks' \in Nat BY <2>1, <3>1, <3>2
    <3>4. \A x \in Nat : x * Chunk \in Nat BY <1>3
    <3> QED BY <2>1, <3>3, <3>4
  <2>3. PrintTyped' BY <1>2, <1>4, <2>1, <2>2, ShortSeqs DEF PrintTyped
  <2>4. (Fresh /\ WrittenSoFar /\ BlockHeld)'
    BY <1>2, <1>4, <2>1 DEF Fresh, WrittenSoFar, BlockHeld
  <2>5. (Truncated /\ OwnsResult)' BY <2>1 DEF Truncated, OwnsResult
  <2> QED BY <2>3, <2>4, <2>5 DEF PrintInv
<1>5. CASE c.api = "puts"
  <2>1. pc' = "puts" /\ maxlen' = maxlen /\ chunks' = chunks BY <1>5
  <2>2. PrintTyped' BY <1>1, <1>2, <1>5, <2>1, ShortSeqs DEF PrintTyped
  <2>3. (Fresh /\ WrittenSoFar /\ BlockHeld)'
    BY <1>2, <1>5, <2>1 DEF Fresh, WrittenSoFar, BlockHeld, Untouched
  <2>4. (Truncated /\ OwnsResult)' BY <2>1 DEF Truncated, OwnsResult
  <2> QED BY <2>2, <2>3, <2>4 DEF PrintInv
<1>6. CASE c.api \notin {"asprintf", "puts"}
  <2>1. /\ pc' = "format" /\ chunks' = chunks
        /\ maxlen' = IF c.api \in {"snprintf", "count"} THEN c.count ELSE Huge
    BY <1>6
  <2>2. maxlen' \in Nat /\ maxlen' <= Huge
    <3>1. c.count \in 0 .. Huge BY CallsTyped
    <3> QED BY <2>1, <3>1, <1>3
  <2>3. 1 \in 1 .. Len(c.fmt) + 1
    <3>1. Len(c.fmt) \in Nat BY CallsTyped
    <3> QED BY <3>1
  <2>4. PrintTyped' BY <1>1, <1>2, <1>6, <2>1, <2>2, <2>3, ShortSeqs DEF PrintTyped
  <2>5. (Fresh /\ BlockHeld)' BY <1>2, <1>6, <2>1 DEF Fresh, BlockHeld
  <2>6. WrittenSoFar'
    <3>1. Prefix(call'.fmt, pos' - 1) = <<>>
      <4>1. pos' - 1 = 0 BY <1>2
      <4> QED BY <4>1, PrefixNone
    <3>2. Held(<<>>)' = Untouched
      <4>1. \A p \in 0 .. Room - 1 : ~(p < 0) BY PrintfAssumption
      <4> QED BY <4>1 DEF Held, Untouched
    <3>3. Given(<<>>)' = <<>> BY PassedNone DEF Given
    <3>4. Len(<<>>) = 0 OBVIOUS
    <3>5. /\ Held(Prefix(call.fmt, pos - 1))' = Held(<<>>)'
          /\ Given(Prefix(call.fmt, pos - 1))' = Given(<<>>)'
      BY <3>1, Zenon DEF Held, Given
    <3> QED BY <1>2, <3>1, <3>2, <3>3, <3>4, <3>5 DEF WrittenSoFar
  <2>7. (Truncated /\ OwnsResult)' BY <2>1 DEF Truncated, OwnsResult
  <2> QED BY <2>4, <2>5, <2>6, <2>7 DEF PrintInv
<1> QED BY <1>4, <1>5, <1>6

\* A directive is written behind those before it.
LEMMA DirectiveStep ==
    ASSUME PrintInv, Directive
    PROVE  PrintInv'
<1>0. PICK text, t : text = Prefix(call.fmt, pos - 1) /\ t = Text(call.fmt[pos]) OBVIOUS
<1>1. /\ pc = "format" /\ pos <= Len(call.fmt) /\ Out(t, idx) /\ idx' = idx + Len(t)
      /\ pos' = pos + 1
      /\ UNCHANGED <<call, pc, chunks, maxlen, live, result, string, ret>>
  BY <1>0 DEF Directive
<1>2. /\ call \in Calls /\ pos \in 1 .. Len(call.fmt) + 1 /\ maxlen \in Nat /\ call.api # "puts"
      /\ idx \in Nat /\ chunks \in Nat /\ ret \in Int /\ pos \in Nat
      /\ idx = Len(text) /\ buf = Held(text) /\ sent = Given(text)
  BY <1>0, <1>1 DEF PrintInv, PrintTyped, WrittenSoFar
<1>3. call.fmt \in Seq(Directives) /\ Len(call.fmt) \in Nat BY <1>2, CallsTyped
<1>4. pos \in 1 .. Len(call.fmt) /\ pos - 1 \in 0 .. Len(call.fmt) BY <1>1, <1>2, <1>3
<1>5. text \in Seq(Chars) /\ t \in Seq(Chars)
  <2>1. call.fmt[pos] \in Directives BY <1>3, <1>4
  <2> QED BY <2>1, <1>0, <1>3, <1>4, PrefixTyped, TextTyped
<1>6. Prefix(call.fmt, pos) = text \o t BY <1>0, <1>3, <1>4, PrefixStep
<1>7. buf' = Held(text \o t)' /\ sent' = Given(text \o t)'
  <2>1. Out(t, Len(text)) BY <1>1, <1>2
  <2> QED BY <2>1, <1>1, <1>2, <1>5, OutMore
<1>8. Prefix(call.fmt, pos - 1)' = text \o t
  <2>1. pos' - 1 = pos /\ call' = call BY <1>1, <1>2
  <2>2. Prefix(call'.fmt, pos' - 1) = Prefix(call.fmt, pos) BY <2>1
  <2> QED BY <2>2, <1>6
<1>9. text \o t \in Seq(Chars) /\ Len(text \o t) = idx + Len(t) /\ Len(t) \in Nat
  BY <1>2, <1>5
<1>10. WrittenSoFar'
  <2>1. /\ Held(Prefix(call.fmt, pos - 1))' = Held(text \o t)'
        /\ Given(Prefix(call.fmt, pos - 1))' = Given(text \o t)'
    BY <1>8, Zenon DEF Held, Given
  <2>2. Len(Prefix(call.fmt, pos - 1))' = idx' BY <1>1, <1>8, <1>9
  <2> QED BY <2>1, <2>2, <1>7, <1>8 DEF WrittenSoFar
<1>11. PrintTyped'
  <2>1. Held(text \o t)' \in [0 .. Room - 1 -> Chars] /\ Given(text \o t)' \in Seq(Chars)
    <3>1. Held(text \o t)' = Held(text \o t) /\ Given(text \o t)' = Given(text \o t)
      BY <1>1 DEF Held, Given, Sink
    <3> QED BY <3>1, <1>2, <1>9, HeldTyped
  <2>2. pos + 1 \in 1 .. Len(call.fmt) + 1 /\ pos + 1 \in Nat /\ idx + Len(t) \in Nat
    BY <1>2, <1>3, <1>4, <1>9
  <2>3. buf' \in [0 .. Room - 1 -> Chars] /\ sent' \in Seq(Chars) BY <2>1, <1>7
  <2>4. call.api # "asprintf" => maxlen <= Huge BY <1>1 DEF PrintInv, PrintTyped
  <2> QED BY <2>2, <2>3, <2>4, <1>1, <1>2 DEF PrintTyped
<1>12. Fresh' BY <1>1 DEF Fresh
<1>13. BlockHeld'
  <2>1. BlockHeld BY DEF PrintInv
  <2> QED BY <2>1, <1>1 DEF BlockHeld
<1>14. (Truncated /\ OwnsResult)' BY <1>1 DEF Truncated, OwnsResult
<1> QED BY <1>10, <1>11, <1>12, <1>13, <1>14 DEF PrintInv

\* The NUL ends the text: in a block of vasprintf, which is still to be checked,
\* or in what the caller gets.
LEMMA TerminateStep ==
    ASSUME PrintInv, Terminate
    PROVE  PrintInv'
<1>0. PICK text : text = TextOf(call.fmt) OBVIOUS
<1>1. PICK at : at = IF idx < maxlen THEN idx ELSE (maxlen - 1) % (Huge + 1) OBVIOUS
<1>2. /\ pc = "format" /\ pos > Len(call.fmt) /\ Out(<<"NUL">>, at) /\ ret' = idx
      /\ pc' = IF call.api = "asprintf" THEN "check" ELSE "done"
      /\ UNCHANGED <<call, pos, idx, chunks, maxlen, live, result, string>>
  BY <1>1 DEF Terminate
<1>3. /\ call \in Calls /\ pos \in 1 .. Len(call.fmt) + 1 /\ maxlen \in Nat /\ call.api # "puts"
      /\ idx \in Nat /\ chunks \in Nat /\ pos \in Nat
      /\ call.api # "asprintf" => maxlen <= Huge
  BY <1>2 DEF PrintInv, PrintTyped
<1>4. call.fmt \in Seq(Directives) /\ Len(call.fmt) \in Nat /\ text \in Seq(Chars)
  BY <1>0, <1>3, CallsTyped
<1>5. Prefix(call.fmt, pos - 1) = text
  <2>1. pos - 1 = Len(call.fmt) BY <1>2, <1>3, <1>4
  <2> QED BY <2>1, <1>0, <1>4, PrefixAll
<1>6. idx = Len(text) /\ buf = Held(text) /\ sent = Given(text)
  <2>1. WrittenSoFar BY DEF PrintInv
  <2> QED BY <2>1, <1>2, <1>5 DEF WrittenSoFar
<1>7. at \in Int
  <2>1. Huge \in Nat BY PrintfAssumption
  <2>2. \A x \in Int : x % (Huge + 1) \in Int BY <2>1
  <2> QED BY <2>2, <1>1, <1>3
<1>8. /\ DOMAIN buf' = 0 .. Room - 1 /\ buf' \in [0 .. Room - 1 -> Chars]
      /\ \A p \in 0 .. Room - 1 :
            buf'[p] = IF Sink = "buffer" /\ p = at /\ p < maxlen THEN "NUL" ELSE Held(text)[p]
      /\ sent' = Given(text)
  BY <1>2, <1>3, <1>4, <1>6, <1>7, OutNul
<1>9. FullText = text /\ FullText' = text /\ Sink' = Sink BY <1>0, <1>2 DEF FullText, Sink
<1>10. PrintTyped'
  <2>1. sent' \in Seq(Chars) BY <1>3, <1>4, <1>8, HeldTyped
  <2> QED BY <2>1, <1>2, <1>3, <1>8 DEF PrintTyped
<1>11. CASE call.api = "asprintf"
  <2>1. pc' = "check" /\ Sink = "buffer" BY <1>2, <1>11, SinkKinds
  <2>2. sent' = <<>> BY <2>1, <1>8 DEF Given
  <2>3. live = {"block"} /\ result = "NULL" BY <1>2, <1>11 DEF PrintInv, BlockHeld
  <2>4. ASSUME ret' < maxlen' - 1 PROVE buf' = EndsAt(text, Len(text))
    <3>1. idx < maxlen - 1 /\ at = idx BY <2>4, <1>1, <1>2, <1>3
    <3>2. ASSUME NEW p \in 0 .. Room - 1 PROVE buf'[p] = EndsAt(text, Len(text))[p]
      <4>1. p \in Int BY PrintfAssumption
      <4>2. buf'[p] = IF p = idx /\ p < maxlen THEN "NUL" ELSE Held(text)[p]
        BY <1>8, <2>1, <3>1
      <4>3. Held(text)[p] = IF p < idx /\ p < maxlen THEN text[p + 1] ELSE "old"
        BY <2>1, <1>6 DEF Held
      <4>4. EndsAt(text, Len(text))[p] = IF p > idx THEN "old" ELSE IF p = idx THEN "NUL" ELSE text[p + 1]
        BY <1>6 DEF EndsAt
      <4> QED BY <4>1, <4>2, <4>3, <4>4, <3>1, <1>3
    <3>3. DOMAIN EndsAt(text, Len(text)) = 0 .. Room - 1
          /\ EndsAt(text, Len(text)) = [p \in 0 .. Room - 1 |-> EndsAt(text, Len(text))[p]]
      BY DEF EndsAt
    <3>4. buf' = [p \in 0 .. Room - 1 |-> buf'[p]] BY <1>8
    <3> QED BY <3>2, <3>3, <3>4
  <2>5. BlockHeld'
    <3>1. EndsAt(FullText, Len(FullText))' = EndsAt(text, Len(text))
      BY <1>9, Zenon DEF EndsAt
    <3>2. ret' = Len(FullText') BY <1>2, <1>6, <1>9
    <3>3. live' = {"block"} /\ result' = "NULL" BY <1>2, <2>3
    <3>4. ret' < maxlen' - 1 => buf' = EndsAt(FullText, Len(FullText))' BY <2>4, <3>1
    <3> QED BY <2>1, <3>2, <3>3, <3>4 DEF BlockHeld
  <2>6. (Fresh /\ WrittenSoFar)' BY <2>1, <2>2 DEF Fresh, WrittenSoFar
  <2>7. (Truncated /\ OwnsResult)' BY <2>1 DEF Truncated, OwnsResult
  <2> QED BY <1>10, <2>5, <2>6, <2>7 DEF PrintInv
<1>12. CASE call.api # "asprintf"
  <2>1. pc' = "done" /\ call'.api # "asprintf" /\ call'.api # "puts" /\ maxlen' = maxlen
    BY <1>2, <1>3, <1>12
  <2>2. (Fresh /\ WrittenSoFar /\ BlockHeld)' BY <2>1 DEF Fresh, WrittenSoFar, BlockHeld
  <2>3. OwnsResult' BY <2>1 DEF OwnsResult
  <2> DEFINE end == Min({Len(text), maxlen - 1})
  <2>4. ASSUME NEW p \in 0 .. Room - 1
        PROVE  buf'[p] = IF Sink # "buffer" \/ p > end THEN "old"
                         ELSE IF p = end THEN "NUL" ELSE text[p + 1]
    <3>1. CASE Sink = "buffer"
      <4>1. maxlen <= Huge BY <1>3, <1>12
      <4>2. at = IF Len(text) < maxlen THEN Len(text) ELSE (maxlen - 1) % (Huge + 1)
        BY <1>1, <1>6
      <4>3. (IF p = at /\ p < maxlen THEN "NUL" ELSE Held(text)[p])
            = IF p > end THEN "old" ELSE IF p = end THEN "NUL" ELSE text[p + 1]
        BY <3>1, <4>1, <4>2, <1>3, <1>4, EndOfBuffer
      <4>4. buf'[p] = IF p = at /\ p < maxlen THEN "NUL" ELSE Held(text)[p] BY <3>1, <1>8
      <4> HIDE DEF end
      <4> QED BY <3>1, <4>3, <4>4
    <3>2. CASE Sink # "buffer"
      <4>1. buf'[p] = Held(text)[p] BY <3>2, <1>8
      <4> HIDE DEF end
      <4> QED BY <3>2, <4>1 DEF Held
    <3> QED BY <3>1, <3>2
  <2>5. sent' = IF Sink # "function" THEN <<>> ELSE Passed(text) \o <<>>
    <3>1. CASE Sink = "function"
      <4>1. Passed(text) \in Seq(Chars) BY <1>4, PassesTyped
      <4>2. Passed(text) \o <<>> = Passed(text) BY <4>1, ConcatEmptySeq
      <4> QED BY <3>1, <4>2, <1>8 DEF Given
    <3>2. CASE Sink # "function" BY <3>2, <1>8 DEF Given
    <3> QED BY <3>1, <3>2
  <2>6. Truncated'
    <3>1. ret' = Len(FullText') BY <1>2, <1>6, <1>9
    <3>2. maxlen' = maxlen /\ call' = call BY <1>2
    <3> HIDE DEF end
    <3>3. ASSUME NEW p \in DOMAIN buf'
          PROVE  buf'[p] = IF Sink' # "buffer" \/ p > end THEN "old"
                           ELSE IF p = end THEN "NUL" ELSE FullText'[p + 1]
      BY <2>4, <1>8, <1>9
    <3>4. sent' = IF Sink' # "function" THEN <<>> ELSE Passed(FullText') \o <<>>
      BY <2>5, <1>9
    <3>5. end = Min({Len(FullText'), maxlen' - 1}) BY <1>9, <3>2 DEF end
    <3> QED BY <2>1, <3>1, <3>3, <3>4, <3>5, Zenon DEF Truncated
  <2> QED BY <1>10, <2>2, <2>3, <2>6 DEF PrintInv
<1> QED BY <1>11, <1>12

\* puts gives its string and a new line to the function.
LEMMA PutsStep ==
    ASSUME PrintInv, Puts
    PROVE  PrintInv'
<1>0. PICK s : s = call.fmt[1].s OBVIOUS
<1>1. /\ pc = "puts" /\ sent' = s \o <<"newline">> /\ ret' = 0 /\ pc' = "done"
      /\ UNCHANGED <<call, pos, idx, buf, chunks, maxlen, live, result, string>>
  BY <1>0 DEF Puts
<1>2. /\ call \in Calls /\ call.api = "puts" /\ buf = Untouched /\ buf \in [0 .. Room - 1 -> Chars]
      /\ pos \in Nat /\ idx \in Nat /\ maxlen \in Nat /\ chunks \in Nat
  BY <1>1 DEF PrintInv, PrintTyped, Fresh
<1>3. /\ call.fmt \in Seq(Directives) /\ Len(call.fmt) = 1 /\ call.fmt[1].conv = "lit"
      /\ \A k \in DOMAIN s : s[k] # "NUL"
  BY <1>0, <1>2, CallsAssumption
<1>4. s \in Seq(Chars)
  <2>1. call.fmt[1] \in Directives BY <1>3
  <2>2. s \in Seq(STRING) BY <2>1, <1>0 DEF Directives
  <2>3. STRING \subseteq Chars BY DEF Chars
  <2> QED BY <2>2, <2>3, SeqMonotonic
<1>5. FullText = s
  <2>1. Text(call.fmt[1]) = s BY <1>0, <1>3, Zenon DEF Text
  <2>2. Len(Texts(call.fmt)) = 1 /\ Texts(call.fmt)[1] = Text(call.fmt[1]) BY <1>3, TextsTyped
  <2>3. FlattenSeq(Texts(call.fmt)) = s BY <2>1, <2>2, FlattenOne
  <2> QED BY <2>3, Zenon DEF FullText, TextOf, Texts
<1>6. Sink = "function" /\ Sink' = Sink /\ FullText' = s /\ call' = call
  BY <1>1, <1>2, <1>5, SinkKinds DEF Sink, FullText
<1>7. Truncated'
  <2>1. Passed(FullText') = s BY <1>3, <1>4, <1>6, PassedAll
  <2>2. sent' = Passed(FullText') \o <<"newline">> BY <2>1, <1>1
  <2>3. ASSUME NEW p \in DOMAIN buf' PROVE buf'[p] = "old" BY <1>1, <1>2 DEF Untouched
  <2> QED BY <2>2, <2>3, <1>1, <1>2, <1>6, Zenon DEF Truncated
<1>8. PrintTyped'
  <2>1. <<"newline">> \in Seq(Chars) BY ShortSeqs DEF Chars
  <2>2. sent' \in Seq(Chars) BY <2>1, <1>1, <1>4, ConcatProperties
  <2> QED BY <2>2, <1>1, <1>2 DEF PrintTyped
<1>9. (Fresh /\ WrittenSoFar /\ BlockHeld)' BY <1>1 DEF Fresh, WrittenSoFar, BlockHeld
<1>10. OwnsResult' BY <1>1, <1>2 DEF OwnsResult
<1> QED BY <1>7, <1>8, <1>9, <1>10 DEF PrintInv

\* A new block is formatted from the start, or none is to be had.
LEMMA MallocStep ==
    ASSUME PrintInv, Malloc
    PROVE  PrintInv'
<1>1. pc = "malloc" /\ UNCHANGED <<call, sent, chunks, maxlen, result, string>> BY DEF Malloc
<1>2. /\ call \in Calls /\ call.api = "asprintf" /\ sent = <<>> /\ live = {} /\ result = "NULL"
      /\ buf \in [0 .. Room - 1 -> Chars] /\ pos \in Nat /\ idx \in Nat /\ maxlen \in Nat
      /\ chunks \in Nat /\ ret \in Int
  BY <1>1 DEF PrintInv, PrintTyped, Fresh, BlockHeld
<1>3. CASE live' = live \cup {"block"} /\ buf' = Untouched /\ pos' = 1 /\ idx' = 0
           /\ pc' = "format" /\ UNCHANGED ret
  <2>1. 1 \in 1 .. Len(call.fmt) + 1
    <3>1. Len(call.fmt) \in Nat BY <1>2, CallsTyped
    <3> QED BY <3>1
  <2>2. Untouched \in [0 .. Room - 1 -> Chars] BY DEF Untouched, Chars
  <2>3. PrintTyped' BY <1>1, <1>2, <1>3, <2>1, <2>2, ShortSeqs DEF PrintTyped
  <2>4. live' = {"block"} BY <1>2, <1>3
  <2>5. (Fresh /\ BlockHeld)' BY <1>1, <1>2, <1>3, <2>4 DEF Fresh, BlockHeld
  <2>6. WrittenSoFar'
    <3>1. Prefix(call'.fmt, pos' - 1) = <<>>
      <4>1. pos' - 1 = 0 BY <1>3
      <4> QED BY <4>1, PrefixNone
    <3>2. Held(<<>>)' = Untouched
      <4>1. \A p \in 0 .. Room - 1 : ~(p < 0) BY PrintfAssumption
      <4> QED BY <4>1 DEF Held, Untouched
    <3>3. Given(<<>>)' = <<>> BY PassedNone DEF Given
    <3>4. Len(<<>>) = 0 OBVIOUS
    <3>5. /\ Held(Prefix(call.fmt, pos - 1))' = Held(<<>>)'
          /\ Given(Prefix(call.fmt, pos - 1))' = Given(<<>>)'
      BY <3>1, Zenon DEF Held, Given
    <3> QED BY <1>1, <1>2, <1>3, <3>1, <3>2, <3>3, <3>4, <3>5 DEF WrittenSoFar
  <2>7. (Truncated /\ OwnsResult)' BY <1>3 DEF Truncated, OwnsResult
  <2> QED BY <2>3, <2>5, <2>6, <2>7 DEF PrintInv
<1>4. CASE ret' = -ENOMEM /\ pc' = "done" /\ UNCHANGED <<live, buf, pos, idx>>
  <2>1. PrintTyped' BY <1>1, <1>2, <1>4, ShortSeqs DEF PrintTyped, ENOMEM
  <2>2. (Fresh /\ WrittenSoFar /\ BlockHeld)' BY <1>4 DEF Fresh, WrittenSoFar, BlockHeld
  <2>3. (Truncated /\ OwnsResult)' BY <1>1, <1>2, <1>4 DEF Truncated, OwnsResult, ENOMEM
  <2> QED BY <2>1, <2>2, <2>3 DEF PrintInv
<1> QED BY <1>3, <1>4 DEF Malloc

\* The block is kept, or given back for a larger one.
LEMMA CheckStep ==
    ASSUME PrintInv, Check
    PROVE  PrintInv'
<1>1. pc = "check" /\ UNCHANGED <<call, pos, idx, buf, sent, result, string, ret>> BY DEF Check
<1>2. /\ call \in Calls /\ call.api = "asprintf" /\ sent = <<>> /\ live = {"block"}
      /\ result = "NULL" /\ ret = Len(FullText)
      /\ ret < maxlen - 1 => buf = EndsAt(FullText, Len(FullText))
      /\ buf \in [0 .. Room - 1 -> Chars] /\ pos \in Nat /\ idx \in Nat /\ maxlen \in Nat
      /\ chunks \in Nat
  BY <1>1 DEF PrintInv, PrintTyped, Fresh, BlockHeld
<1>3. FullText' = FullText /\ FullText \in Seq(Chars) /\ ret \in Nat
  BY <1>1, <1>2, CallsTyped DEF FullText
<1>4. CASE ret < maxlen - 1
  <2>1. pc' = (IF ret > 0 THEN "strdup" ELSE "done") /\ UNCHANGED <<chunks, maxlen, live>>
    BY <1>4 DEF Check
  <2>2. PrintTyped' BY <1>1, <1>2, <1>3, <2>1 DEF PrintTyped
  <2>3. (Fresh /\ WrittenSoFar)' BY <2>1 DEF Fresh, WrittenSoFar
  <2>4. BlockHeld'
    <3>1. EndsAt(FullText, Len(FullText))' = EndsAt(FullText, Len(FullText))
      BY <1>3, Zenon DEF EndsAt
    <3> QED BY <1>1, <1>2, <1>3, <1>4, <2>1, <3>1 DEF BlockHeld
  <2>5. Truncated' BY <1>1, <1>2 DEF Truncated
  <2>6. OwnsResult'
    <3>1. CASE ret > 0 BY <2>1, <3>1 DEF OwnsResult
    <3>2. CASE ~(ret > 0)
      <4>1. ret = 0 /\ FullText = <<>> BY <3>2, <1>2, <1>3
      <4> QED BY <4>1, <1>1, <1>2, <1>3, <2>1 DEF OwnsResult
    <3> QED BY <3>1, <3>2
  <2> QED BY <2>2, <2>3, <2>4, <2>5, <2>6 DEF PrintInv
<1>5. CASE ~(ret < maxlen - 1)
  <2>1. pc' = "malloc" /\ live' = {} /\ Grow
    <3>1. pc' = "malloc" /\ live' = live \ {"block"} /\ Grow BY <1>5 DEF Check
    <3> QED BY <3>1, <1>2
  <2>2. chunks' \in Nat /\ maxlen' \in Nat
    <3>1. Chunk \in Nat BY PrintfAssumption
    <3>2. (chunks + 1) * Chunk \in Nat BY <3>1, <1>2
    <3> QED BY <2>1, <3>2, <1>2, <1>3 DEF Grow
  <2>3. PrintTyped' BY <1>1, <1>2, <1>3, <2>1, <2>2, ShortSeqs DEF PrintTyped
  <2>4. (Fresh /\ WrittenSoFar /\ BlockHeld)'
    BY <1>1, <1>2, <2>1 DEF Fresh, WrittenSoFar, BlockHeld
  <2>5. (Truncated /\ OwnsResult)' BY <2>1 DEF Truncated, OwnsResult
  <2> QED BY <2>3, <2>4, <2>5 DEF PrintInv
<1> QED BY <1>4, <1>5

\* The caller gets a copy or the block, with the string in it.
LEMMA StrdupStep ==
    ASSUME PrintInv, Strdup
    PROVE  PrintInv'
<1>1. /\ pc = "strdup" /\ string' = StringIn(buf, maxlen) /\ pc' = "done"
      /\ \/ live' = {"copy"} /\ result' = "copy"
         \/ result' = "block" /\ live' = live
      /\ UNCHANGED <<call, pos, idx, buf, sent, chunks, maxlen, ret>>
  BY DEF Strdup
<1>2. /\ call \in Calls /\ call.api = "asprintf" /\ live = {"block"} /\ ret = Len(FullText)
      /\ ret < maxlen - 1 /\ buf = EndsAt(FullText, Len(FullText))
      /\ buf \in [0 .. Room - 1 -> Chars] /\ pos \in Nat /\ idx \in Nat /\ maxlen \in Nat
      /\ chunks \in Nat /\ ret \in Int /\ sent \in Seq(Chars)
  BY <1>1 DEF PrintInv, PrintTyped, BlockHeld
<1>3. FullText' = FullText /\ FullText \in Seq(Chars) /\ Len(FullText) < Room
  BY <1>1, <1>2, CallsTyped, RoomAssumption DEF FullText
<1>4. string' = CString(FullText)
  <2>1. Len(FullText) < maxlen - 1 BY <1>2
  <2>2. StringIn(buf, maxlen) = CString(FullText) BY <2>1, <1>2, <1>3, StringHeld
  <2> QED BY <2>2, <1>1
<1>5. PrintTyped' BY <1>1, <1>2 DEF PrintTyped
<1>6. (Fresh /\ WrittenSoFar /\ BlockHeld)' BY <1>1 DEF Fresh, WrittenSoFar, BlockHeld
<1>7. Truncated' BY <1>1, <1>2 DEF Truncated
<1>8. OwnsResult'
  <2>1. CString(FullText)' = CString(FullText) BY <1>3, Zenon DEF CString
  <2>2. live' = {result'} /\ ret' = Len(FullText') /\ string' = CString(FullText)'
    BY <1>1, <1>2, <1>3, <1>4, <2>1
  <2> QED BY <2>2 DEF OwnsResult
<1> QED BY <1>5, <1>6, <1>7, <1>8 DEF PrintInv

LEMMA PrintInductive == PrintInv /\ [Next]_vars => PrintInv'
<1> SUFFICES ASSUME PrintInv, [Next]_vars PROVE PrintInv' OBVIOUS
<1>1. ASSUME NEW c \in Calls, Call(c) PROVE PrintInv' BY <1>1, CallStep
<1>2. CASE Puts BY <1>2, PutsStep
<1>3. CASE Directive BY <1>3, DirectiveStep
<1>4. CASE Terminate BY <1>4, TerminateStep
<1>5. CASE Malloc BY <1>5, MallocStep
<1>6. CASE Check BY <1>6, CheckStep
<1>7. CASE Strdup BY <1>7, StrdupStep
<1>8. CASE UNCHANGED vars
  <2>1. /\ call' = call /\ pc' = pc /\ pos' = pos /\ idx' = idx /\ buf' = buf /\ sent' = sent
        /\ chunks' = chunks /\ maxlen' = maxlen /\ live' = live /\ result' = result
        /\ string' = string /\ ret' = ret
    BY <1>8 DEF vars
  <2>2. FullText' = FullText /\ Sink' = Sink BY <2>1 DEF FullText, Sink
  <2>3. PrintTyped' BY <2>1 DEF PrintInv, PrintTyped
  <2>4. Fresh' BY <2>1 DEF PrintInv, Fresh
  <2>5. WrittenSoFar'
    <3>1. Prefix(call.fmt, pos - 1)' = Prefix(call.fmt, pos - 1) BY <2>1
    <3>2. /\ Held(Prefix(call.fmt, pos - 1))' = Held(Prefix(call.fmt, pos - 1))
          /\ Given(Prefix(call.fmt, pos - 1))' = Given(Prefix(call.fmt, pos - 1))
      BY <3>1, <2>1, <2>2, Zenon DEF Held, Given
    <3> QED BY <3>1, <3>2, <2>1 DEF PrintInv, WrittenSoFar
  <2>6. BlockHeld'
    <3>1. EndsAt(FullText, Len(FullText))' = EndsAt(FullText, Len(FullText))
      BY <2>2, Zenon DEF EndsAt
    <3> QED BY <2>1, <2>2, <3>1 DEF PrintInv, BlockHeld
  <2>7. Truncated' BY <2>1, <2>2, Zenon DEF PrintInv, Truncated
  <2>8. OwnsResult'
    <3>1. CString(FullText)' = CString(FullText) BY <2>2, Zenon DEF CString
    <3> QED BY <2>1, <2>2, <3>1, Zenon DEF PrintInv, OwnsResult
  <2> QED BY <2>3, <2>4, <2>5, <2>6, <2>7, <2>8 DEF PrintInv
<1> QED BY <1>1, <1>2, <1>3, <1>4, <1>5, <1>6, <1>7, <1>8 DEF Next, Work

\* Whatever the format, the arguments and the count, every call but asprintf
\* returns the length of the whole text and leaves just its beginning and a NUL
\* in the buffer, or gives a function all its characters in order (_vsnprintf).
THEOREM TextIsTruncated == Spec => []Truncated
<1>1. PrintInv => Truncated BY DEF PrintInv
<1> QED BY <1>1, PrintInitially, PrintInductive, PTL DEF Spec

\* Whichever allocations fail, the caller of asprintf is left with one block
\* that holds the whole text, or with none (vasprintf).
THEOREM CallerOwnsText == Spec => []OwnsResult
<1>1. PrintInv => OwnsResult BY DEF PrintInv
<1> QED BY <1>1, PrintInitially, PrintInductive, PTL DEF Spec

\* Whatever its flags, width, precision, type and value, a number reads as C
\* says, a double rounded to the nearest, but for the cases of Deviates
\* (_ntoa_format, _ftoa, _out_rev).
THEOREM NumbersAreRead == Spec => []NumbersRead
<1>1. PrintInv => NumbersRead
  <2>1. SUFFICES ASSUME PrintInv, pc = "format", NEW k \in DOMAIN call.fmt,
                        call.fmt[k].conv \in {"d", "u", "x", "o", "b", "f"},
                        ~Deviates(call.fmt[k])
                 PROVE  Text(call.fmt[k]) \in Std(call.fmt[k])
    BY Zenon DEF NumbersRead
  <2>2. call \in Calls BY <2>1 DEF PrintInv, PrintTyped
  <2>3. call.fmt \in Seq(Directives) BY <2>2, CallsAssumption
  <2>4. call.fmt[k] \in Directives BY <2>1, <2>3
  <2> QED BY <2>1, <2>4, NumberReads
<1> QED BY <1>1, PrintInitially, PrintInductive, PTL DEF Spec
=============================================================================
