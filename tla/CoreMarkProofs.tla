--------------------------- MODULE CoreMarkProofs ---------------------------
(* The list of CoreMark, for a block of any size: at every moment the nodes *)
(* allocated form one arrangement w, that the pointers follow from list on. *)
(* The merge sort cuts w in three, the sorted part, the rest of the run at  *)
(* p, and what is behind it; the runs merged, under way and waiting are in  *)
(* the order of the comparison; and the two sorts by index end with the     *)
(* fake head in front, from which iterate starts again.  The blocks of the  *)
(* two other benchmarks are at every moment what main wrote to them.        *)
EXTENDS CoreMark, NaturalOrder, SequenceTheorems, FiniteSetTheorems

\* The element at a place of an arrangement, NULL behind the last one.
At(w, n, k) == IF k \in 1 .. n THEN w[k] ELSE NULL

\* The arrangements of the first n nodes.
Arranged(n) ==
    {w \in [1 .. n -> 0 .. n - 1] :
        /\ \A j, k \in 1 .. n : w[j] = w[k] => j = k
        /\ \A m \in 0 .. n - 1 : \E k \in 1 .. n : w[k] = m}

\* The pointers follow the arrangement, except at some places.
Linked(nx, w, n, cut) == \A k \in (1 .. n) \ cut : nx[w[k]] = At(w, n, k + 1)

\* Element j is moved forward to place t.
Moved(w, n, t, j) ==
    [k \in 1 .. n |-> IF k = t THEN w[j] ELSE IF t < k /\ k <= j THEN w[k - 1] ELSE w[k]]

\* The arrangement turned round.
Turned(w, n) == [k \in 1 .. n |-> w[n + 1 - k]]

----------------------------------------------------------------------------
(* Arrangements. *)

LEMMA MovedArranged ==
    ASSUME NEW n \in Nat, NEW w \in Arranged(n), NEW t \in 1 .. n, NEW j \in 1 .. n, t <= j
    PROVE  Moved(w, n, t, j) \in Arranged(n)
<1> DEFINE src(k) == IF k = t THEN j ELSE IF t < k /\ k <= j THEN k - 1 ELSE k
           dst(k) == IF k = j THEN t ELSE IF t <= k /\ k < j THEN k + 1 ELSE k
           v      == Moved(w, n, t, j)
<1>1. /\ w \in [1 .. n -> 0 .. n - 1]
      /\ \A h, k \in 1 .. n : w[h] = w[k] => h = k
      /\ \A m \in 0 .. n - 1 : \E k \in 1 .. n : w[k] = m
  BY DEF Arranged
<1>2. \A k \in 1 .. n : src(k) \in 1 .. n /\ v[k] = w[src(k)]
  BY DEF Moved
<1>3. \A k \in 1 .. n : dst(k) \in 1 .. n /\ src(dst(k)) = k
  OBVIOUS
<1>4. \A h, k \in 1 .. n : src(h) = src(k) => h = k
  OBVIOUS
<1>5. v \in [1 .. n -> 0 .. n - 1]
  <2>1. \A k \in 1 .. n : w[src(k)] \in 0 .. n - 1
    <3> HIDE DEF src
    <3> QED BY <1>1, <1>2
  <2>2. v = [k \in 1 .. n |-> v[k]] BY DEF Moved
  <2> HIDE DEF src, v
  <2> QED BY <1>2, <2>1, <2>2
<1> HIDE DEF src, dst, v
<1>6. \A h, k \in 1 .. n : v[h] = v[k] => h = k
  BY <1>1, <1>2, <1>4
<1>7. ASSUME NEW m \in 0 .. n - 1 PROVE \E k \in 1 .. n : v[k] = m
  <2>1. PICK k \in 1 .. n : w[k] = m BY <1>1
  <2>2. dst(k) \in 1 .. n /\ v[dst(k)] = m BY <2>1, <1>2, <1>3
  <2> QED BY <2>2
<1>8. v \in Arranged(n)
  BY <1>5, <1>6, <1>7 DEF Arranged
<1> QED BY <1>8 DEF v

LEMMA TurnedArranged ==
    ASSUME NEW n \in Nat, NEW w \in Arranged(n)
    PROVE  Turned(w, n) \in Arranged(n)
<1> DEFINE v == Turned(w, n)
<1>1. /\ w \in [1 .. n -> 0 .. n - 1]
      /\ \A h, k \in 1 .. n : w[h] = w[k] => h = k
      /\ \A m \in 0 .. n - 1 : \E k \in 1 .. n : w[k] = m
  BY DEF Arranged
<1>2. \A k \in 1 .. n : n + 1 - k \in 1 .. n /\ v[k] = w[n + 1 - k] /\ v[n + 1 - k] = w[k]
  BY DEF Turned
<1>3. v \in [1 .. n -> 0 .. n - 1]
  <2>1. v = [k \in 1 .. n |-> v[k]] BY DEF Turned
  <2> HIDE DEF v
  <2>2. \A k \in 1 .. n : v[k] \in 0 .. n - 1
    <3>1. \A k \in 1 .. n : w[k] \in 0 .. n - 1 BY <1>1
    <3> QED BY <3>1, <1>2
  <2> QED BY <2>1, <2>2
<1> HIDE DEF v
<1>4. \A h, k \in 1 .. n : v[h] = v[k] => h = k
  BY <1>1, <1>2
<1>5. ASSUME NEW m \in 0 .. n - 1 PROVE \E k \in 1 .. n : v[k] = m
  <2>1. PICK k \in 1 .. n : w[k] = m BY <1>1
  <2>2. n + 1 - k \in 1 .. n /\ v[n + 1 - k] = m BY <2>1, <1>2
  <2> QED BY <2>2
<1>6. v \in Arranged(n)
  BY <1>3, <1>4, <1>5 DEF Arranged
<1> QED BY <1>6 DEF v

\* The next node, n, is put at the second place.
Grown(w, n) == [k \in 1 .. n + 1 |-> IF k = 1 THEN w[1] ELSE IF k = 2 THEN n ELSE w[k - 1]]

LEMMA GrownArranged ==
    ASSUME NEW n \in Nat \ {0}, NEW w \in Arranged(n)
    PROVE  Grown(w, n) \in Arranged(n + 1)
<1> DEFINE v == Grown(w, n)
<1>1. /\ w \in [1 .. n -> 0 .. n - 1]
      /\ \A h, k \in 1 .. n : w[h] = w[k] => h = k
      /\ \A m \in 0 .. n - 1 : \E k \in 1 .. n : w[k] = m
  BY DEF Arranged
<1>2. /\ v[1] = w[1] /\ v[2] = n
      /\ \A k \in 3 .. n + 1 : v[k] = w[k - 1] /\ k - 1 \in 2 .. n
      /\ \A k \in 2 .. n : v[k + 1] = w[k] /\ k + 1 \in 3 .. n + 1
  BY DEF Grown
<1>3. \A k \in 1 .. n : w[k] \in 0 .. n - 1 /\ w[k] # n
  BY <1>1
<1>4. v \in [1 .. n + 1 -> 0 .. n]
  <2>1. v = [k \in 1 .. n + 1 |-> v[k]] BY DEF Grown
  <2>2. \A k \in 1 .. n + 1 : k = 1 \/ k = 2 \/ k \in 3 .. n + 1 OBVIOUS
  <2> HIDE DEF v
  <2>3. \A k \in 1 .. n + 1 : v[k] \in 0 .. n BY <1>2, <1>3, <2>2
  <2> QED BY <2>1, <2>3
<1> HIDE DEF v
<1>5. ASSUME NEW h \in 1 .. n + 1, NEW k \in 1 .. n + 1, v[h] = v[k] PROVE h = k
  <2> DEFINE b(j) == IF j = 1 THEN 1 ELSE j - 1
  <2>1. \A j \in 1 .. n + 1 : j # 2 => b(j) \in 1 .. n /\ v[j] = w[b(j)] /\ v[j] # n
    <3>1. \A j \in 1 .. n + 1 : j # 2 => b(j) \in 1 .. n /\ v[j] = w[b(j)] BY <1>2
    <3> QED BY <3>1, <1>3
  <2>2. CASE h = 2 \/ k = 2
    <3>1. v[2] = n BY <1>2
    <3>2. h = 2 /\ k = 2 BY <2>1, <2>2, <3>1, <1>5
    <3> QED BY <3>2
  <2>3. CASE h # 2 /\ k # 2
    <3>1. b(h) = b(k) BY <2>1, <2>3, <1>1, <1>5
    <3> QED BY <3>1, <2>3
  <2> QED BY <2>2, <2>3
<1>6. ASSUME NEW m \in 0 .. n PROVE \E k \in 1 .. n + 1 : v[k] = m
  <2>1. CASE m = n BY <2>1, <1>2
  <2>2. CASE m # n
    <3>1. PICK k \in 1 .. n : w[k] = m BY <2>2, <1>1
    <3>2. CASE k = 1 BY <3>1, <3>2, <1>2
    <3>3. CASE k # 1
      <4>1. k + 1 \in 1 .. n + 1 /\ v[k + 1] = m BY <3>1, <3>3, <1>2
      <4> QED BY <4>1
    <3> QED BY <3>2, <3>3
  <2> QED BY <2>1, <2>2
<1>7. v \in Arranged(n + 1)
  <2>1. n + 1 - 1 = n OBVIOUS
  <2>2. v \in [1 .. n + 1 -> 0 .. n + 1 - 1] BY <2>1, <1>4
  <2>3. \A m \in 0 .. n + 1 - 1 : \E k \in 1 .. n + 1 : v[k] = m BY <2>1, <1>6
  <2>4. \A h, k \in 1 .. n + 1 : v[h] = v[k] => h = k BY <1>5
  <2>5. ASSUME NEW r, r = n + 1 PROVE v \in Arranged(r)
    <3>1. v \in [1 .. r -> 0 .. r - 1] BY <2>2, <2>5
    <3>2. \A m \in 0 .. r - 1 : \E k \in 1 .. r : v[k] = m BY <2>3, <2>5
    <3>3. \A h, k \in 1 .. r : v[h] = v[k] => h = k BY <2>4, <2>5
    <3> QED BY <3>1, <3>2, <3>3 DEF Arranged
  <2> QED BY <2>5
<1> QED BY <1>7 DEF v

----------------------------------------------------------------------------
(* The nodes a chain of pointers passes. *)

LEMMA Sizes == /\ Size \in Nat /\ Size >= 4
               /\ Node = 0 .. Size - 1 /\ NULL \notin Node /\ NULL = -1
<1>1. BlkSize \in Nat /\ BlkSize >= 120 BY CoreMarkAssumption, SMT
<1>2. Size \in Nat /\ Size >= 4 BY <1>1, SMT DEF Size
<1>3. Node = 0 .. Size - 1 /\ NULL \notin Node /\ NULL = -1 BY <1>2, SMT DEF Node, NULL
<1> QED BY <1>2, <1>3

Froms(nx, n, f) ==
    f = [k \in 0 .. n |-> [m \in Node \cup {NULL} |->
                              IF k = 0 \/ m = NULL THEN <<>> ELSE <<m>> \o f[k - 1][nx[m]]]]

LEMMA FromsExist ==
    ASSUME NEW nx, NEW n \in Nat
    PROVE  \E f : Froms(nx, n, f)
<1> DEFINE Bad == {k \in 0 .. n : ~ \E f : Froms(nx, k, f)}
<1>1. SUFFICES Bad = {}
  <2>1. n \in 0 .. n OBVIOUS
  <2> QED BY <2>1
<1>2. SUFFICES ASSUME Bad # {} PROVE FALSE OBVIOUS
<1>3. PICK p \in Bad : \A q \in Bad : p <= q
  <2>1. Bad \in SUBSET Nat OBVIOUS
  <2> HIDE DEF Bad
  <2> QED BY <1>2, <2>1, LeastExists
<1> DEFINE Row(k, r) == [m \in Node \cup {NULL} |->
                            IF k = 0 \/ m = NULL THEN <<>> ELSE <<m>> \o r[nx[m]]]
<1>4. PICK f : p # 0 => Froms(nx, p - 1, f)
  <2>1. CASE p = 0 BY <2>1
  <2>2. CASE p # 0
    <3>1. p - 1 \in 0 .. n /\ ~(p <= p - 1) BY <2>2
    <3>2. p - 1 \notin Bad BY <3>1, <1>3
    <3> QED BY <3>1, <3>2
  <2> QED BY <2>1, <2>2
<1>5. \A k \in 0 .. p - 1 : p # 0 => f[k] = Row(k, f[k - 1])
  BY <1>4 DEF Froms
<1> DEFINE g == [k \in 0 .. p |-> IF k = p THEN Row(p, f[p - 1]) ELSE f[k]]
<1>6. ASSUME NEW k \in 0 .. p PROVE g[k] = Row(k, g[k - 1])
  <2>1. CASE k = 0
    <3>1. \A r, s : Row(0, r) = Row(0, s) BY Zenon
    <3>2. g[0] = Row(0, f[0 - 1])
      <4>1. CASE p = 0 BY <4>1
      <4>2. CASE p # 0
        <5>1. 0 \in 0 .. p - 1 BY <4>2
        <5> HIDE DEF Row
        <5> QED BY <5>1, <4>2, <1>5
      <4> QED BY <4>1, <4>2
    <3> HIDE DEF Row
    <3> QED BY <2>1, <3>1, <3>2
  <2>2. CASE k # 0
    <3>1. k - 1 \in 0 .. p /\ k - 1 # p /\ g[k - 1] = f[k - 1] BY <2>2
    <3> HIDE DEF Row
    <3>2. CASE k = p BY <3>1, <3>2
    <3>3. CASE k # p
      <4>1. k \in 0 .. p - 1 /\ p # 0 BY <3>3
      <4>2. g[k] = f[k] BY <3>3
      <4> HIDE DEF g
      <4> QED BY <4>1, <4>2, <3>1, <1>5
    <3> QED BY <3>2, <3>3
  <2> QED BY <2>1, <2>2
<1>7. Froms(nx, p, g)
  <2>1. g = [k \in 0 .. p |-> g[k]] OBVIOUS
  <2> HIDE DEF g
  <2>2. g = [k \in 0 .. p |-> Row(k, g[k - 1])] BY <2>1, <1>6, Zenon
  <2> QED BY <2>2, Zenon DEF Froms
<1> QED BY <1>7, <1>3

\* The elements of w behind place a.
Suffix(w, n, a) == [k \in 1 .. n - a |-> w[a + k]]

LEMMA OneMore ==
    ASSUME NEW S, NEW e \in S, NEW t \in Seq(S), NEW d \in Nat, Len(t) = d
    PROVE  <<e>> \o t \in Seq(S) /\ Len(<<e>> \o t) = d + 1
<1>1. ASSUME NEW u \in Seq(S), Len(u) = 1 PROVE u \o t \in Seq(S) /\ Len(u \o t) = d + 1
  <2>1. u \o t \in Seq(S) /\ Len(u \o t) = Len(u) + Len(t) BY ConcatProperties
  <2> QED BY <1>1, <2>1
<1>2. <<e>> \in Seq(S) /\ Len(<<e>>) = 1 OBVIOUS
<1> QED BY <1>1, <1>2

\* The chain from a place of an arrangement on is what is behind that place.
LEMMA ChainFrom ==
    ASSUME NEW nx \in [Node -> Node \cup {NULL}], NEW n \in 0 .. Size,
           NEW w \in [1 .. n -> Node], NEW a \in 0 .. n,
           \A k \in a + 1 .. n : nx[w[k]] = At(w, n, k + 1)
    PROVE  ChainOf(nx, At(w, n, a + 1)) = Suffix(w, n, a)
<1> USE Sizes
<1> DEFINE f == CHOOSE f : Froms(nx, Size, f)
           Bad == {d \in 0 .. n - a : \E k \in d .. Size :
                       f[k][At(w, n, n - d + 1)] # Suffix(w, n, n - d)}
<1>1. Froms(nx, Size, f)
  <2>1. \E g : Froms(nx, Size, g) BY FromsExist
  <2> QED BY <2>1, Zenon
<1>2. \A m : ChainOf(nx, m) = f[Size][m] BY Zenon DEF ChainOf, Froms
<1> HIDE DEF f
<1>3. SUFFICES ASSUME Bad # {} PROVE FALSE
  <2>1. n - a \in 0 .. n - a /\ Size \in n - a .. Size /\ n - (n - a) = a OBVIOUS
  <2>2. n - a \notin Bad BY <1>3
  <2>3. f[Size][At(w, n, n - (n - a) + 1)] = Suffix(w, n, n - (n - a)) BY <2>1, <2>2
  <2> QED BY <1>2, <2>1, <2>3
<1>4. PICK p \in Bad : \A q \in Bad : p <= q
  <2>1. Bad \in SUBSET Nat OBVIOUS
  <2> HIDE DEF Bad
  <2> QED BY <1>3, <2>1, LeastExists
<1>5. PICK k \in p .. Size : f[k][At(w, n, n - p + 1)] # Suffix(w, n, n - p)
  OBVIOUS
<1>6. p \in 0 .. n - a /\ k \in 0 .. Size OBVIOUS
<1>7. \A m \in Node \cup {NULL} :
         f[k][m] = IF k = 0 \/ m = NULL THEN <<>> ELSE <<m>> \o f[k - 1][nx[m]]
  <2> DEFINE Row(h) == [m \in Node \cup {NULL} |->
                           IF h = 0 \/ m = NULL THEN <<>> ELSE <<m>> \o f[h - 1][nx[m]]]
  <2>1. f = [h \in 0 .. Size |-> Row(h)] BY <1>1, Zenon DEF Froms
  <2> HIDE DEF Row
  <2>2. f[k] = Row(k) BY <2>1, <1>6
  <2> QED BY <2>2, Zenon DEF Row
<1>8. CASE p = 0
  <2>1. At(w, n, n - p + 1) = NULL BY <1>8 DEF At
  <2>2. Suffix(w, n, n - p) = <<>> BY <1>8 DEF Suffix
  <2> QED BY <2>1, <2>2, <1>5, <1>7
<1>9. CASE p # 0
  <2> DEFINE c == n - p + 1
  <2>1. c \in a + 1 .. n /\ c \in 1 .. n /\ n - (p - 1) = c /\ n - p = c - 1 BY <1>6, <1>9
  <2>2. At(w, n, c) = w[c] /\ w[c] \in Node BY <2>1 DEF At
  <2>3. nx[w[c]] = At(w, n, c + 1) BY <2>1
  <2>4. f[k - 1][At(w, n, c + 1)] = Suffix(w, n, c)
    <3>1. p - 1 \in 0 .. n - a /\ ~(p <= p - 1) /\ k - 1 \in p - 1 .. Size BY <1>6, <1>9
    <3>2. p - 1 \notin Bad BY <3>1, <1>4
    <3>3. f[k - 1][At(w, n, n - (p - 1) + 1)] = Suffix(w, n, n - (p - 1)) BY <3>1, <3>2
    <3> QED BY <3>3, <2>1
  <2>5. f[k][w[c]] = <<w[c]>> \o Suffix(w, n, c)
    <3>1. k # 0 /\ w[c] # NULL BY <1>9, <2>2
    <3> QED BY <3>1, <2>2, <2>3, <2>4, <1>7
  <2>6. Suffix(w, n, c) \in Seq(Node) /\ Len(Suffix(w, n, c)) = n - c
    <3>1. n - c \in Nat /\ \A h \in 1 .. n - c : c + h \in 1 .. n BY <2>1
    <3> QED BY <3>1 DEF Suffix
  <2>7. <<w[c]>> \o Suffix(w, n, c) = Suffix(w, n, c - 1)
    <3> DEFINE t == Suffix(w, n, c)
    <3>1. t \in Seq(Node) /\ Len(t) = n - c /\ <<w[c]>> \in Seq(Node) /\ n - c \in Nat
      BY <2>1, <2>2, <2>6
    <3>2. \A h \in 1 .. n - c : t[h] = w[c + h] BY DEF Suffix
    <3> HIDE DEF t, c
    <3>3. \A h \in 1 .. n - c + 1 : (<<w[c]>> \o t)[h] = IF h = 1 THEN w[c] ELSE t[h - 1]
      BY <3>1
    <3>4. \A h \in 1 .. n - c + 1 : (<<w[c]>> \o t)[h] = w[c - 1 + h]
      <4>1. ASSUME NEW h \in 1 .. n - c + 1, h # 1
            PROVE  h - 1 \in 1 .. n - c /\ c + (h - 1) = c - 1 + h
        <5>1. c \in Int /\ n - c \in Int BY <2>1, <3>1
        <5>2. ASSUME NEW x \in Int, NEW y \in 1 .. x + 1, y # 1
              PROVE  y - 1 \in 1 .. x /\ \A z \in Int : z + (y - 1) = z - 1 + y
          BY <5>2
        <5> QED BY <5>1, <5>2, <4>1
      <4>2. c - 1 + 1 = c BY <2>1
      <4>3. ASSUME NEW h \in 1 .. n - c + 1 PROVE (<<w[c]>> \o t)[h] = w[c - 1 + h]
        <5>1. CASE h = 1 BY <5>1, <3>3, <4>2
        <5>2. CASE h # 1
          <6>1. t[h - 1] = w[c + (h - 1)] BY <5>2, <4>1, <3>2
          <6> QED BY <5>2, <6>1, <3>3, <4>1
        <5> QED BY <5>1, <5>2
      <4> QED BY <4>3
    <3>5. <<w[c]>> \o t \in Seq(Node) /\ Len(<<w[c]>> \o t) = n - c + 1 BY <3>1, <2>2, OneMore
    <3>6. <<w[c]>> \o t = [h \in 1 .. n - c + 1 |-> (<<w[c]>> \o t)[h]] BY <3>5
    <3>7. n - (c - 1) = n - c + 1 BY <2>1
    <3>8. <<w[c]>> \o t = [h \in 1 .. n - (c - 1) |-> w[c - 1 + h]] BY <3>4, <3>6, <3>7
    <3> QED BY <3>8 DEF Suffix, t
  <2> QED BY <2>1, <2>2, <2>5, <2>7, <1>5
<1> QED BY <1>8, <1>9

----------------------------------------------------------------------------
(* The indices: only the fake head has index 0. *)

Weighed(b, n, f) ==
    f = [k \in 0 .. n |-> IF k = 0 THEN 0 ELSE f[k - 1] + (IF b[k] THEN Places[k] ELSE 0)]

LEMMA WeighedExists ==
    ASSUME NEW b, NEW n \in Nat
    PROVE  \E f : Weighed(b, n, f)
<1> DEFINE Bad == {k \in 0 .. n : ~ \E f : Weighed(b, k, f)}
           Add(k, x) == IF k = 0 THEN 0 ELSE x + (IF b[k] THEN Places[k] ELSE 0)
<1>1. SUFFICES Bad = {}
  <2>1. n \in 0 .. n OBVIOUS
  <2> QED BY <2>1
<1>2. SUFFICES ASSUME Bad # {} PROVE FALSE OBVIOUS
<1>3. PICK p \in Bad : \A q \in Bad : p <= q
  <2>1. Bad \in SUBSET Nat OBVIOUS
  <2> HIDE DEF Bad
  <2> QED BY <1>2, <2>1, LeastExists
<1>4. p # 0
  <2>1. Weighed(b, 0, [k \in 0 .. 0 |-> 0]) BY DEF Weighed
  <2> QED BY <2>1
<1>5. PICK f : Weighed(b, p - 1, f)
  <2>1. p - 1 \in 0 .. n /\ ~(p <= p - 1) BY <1>4
  <2>2. p - 1 \notin Bad BY <2>1, <1>3
  <2> QED BY <2>1, <2>2
<1>6. \A k \in 0 .. p - 1 : f[k] = Add(k, f[k - 1])
  BY <1>5 DEF Weighed
<1> DEFINE g == [k \in 0 .. p |-> IF k = p THEN Add(p, f[p - 1]) ELSE f[k]]
<1>7. ASSUME NEW k \in 0 .. p PROVE g[k] = Add(k, g[k - 1])
  <2>1. CASE k = 0
    <3>1. 0 \in 0 .. p - 1 /\ 0 # p BY <1>4
    <3> QED BY <2>1, <3>1, <1>6
  <2>2. CASE k # 0
    <3>1. k - 1 \in 0 .. p /\ k - 1 # p /\ g[k - 1] = f[k - 1] BY <2>2
    <3> HIDE DEF Add
    <3>2. CASE k = p BY <3>1, <3>2
    <3>3. CASE k # p
      <4>1. k \in 0 .. p - 1 /\ g[k] = f[k] BY <3>3
      <4> HIDE DEF g
      <4> QED BY <4>1, <3>1, <1>6
    <3> QED BY <3>2, <3>3
  <2> QED BY <2>1, <2>2
<1>8. Weighed(b, p, g)
  <2>1. g = [k \in 0 .. p |-> g[k]] OBVIOUS
  <2> HIDE DEF g
  <2>2. g = [k \in 0 .. p |-> Add(k, g[k - 1])] BY <2>1, <1>7, Zenon
  <2> QED BY <2>2, Zenon DEF Weighed
<1> QED BY <1>8, <1>3

\* What the sixteen places add up to: the two highest, the next twelve, the
\* last two.
AddsUp(b, h, m) ==
    /\ m < 4096
    /\ OfBits(b) = 16384 * h + 4 * m + (IF b[15] THEN 2 ELSE 0) + (IF b[16] THEN 1 ELSE 0)
    /\ b[6] \/ b[7] \/ b[8] => m > 0

LEMMA OfBitsIs == ASSUME NEW b PROVE \E x \in 0 .. 3, y \in Nat : AddsUp(b, x, y)
<1> DEFINE f == CHOOSE f : Weighed(b, 16, f)
           D(k) == IF b[k] THEN Places[k] ELSE 0
<1>1. Weighed(b, 16, f)
  <2>1. \E g : Weighed(b, 16, g) BY WeighedExists
  <2> QED BY <2>1, Zenon
<1>2. OfBits(b) = f[16] BY Zenon DEF OfBits, Weighed
<1> HIDE DEF f
<1>3. f[0] = 0 /\ \A k \in 1 .. 16 : f[k] = f[k - 1] + D(k)
  <2>1. \A k \in 0 .. 16 : f[k] = IF k = 0 THEN 0 ELSE f[k - 1] + D(k) BY <1>1, SMT DEF Weighed
  <2> HIDE DEF D
  <2> QED BY <2>1, SMT
<1>4. /\ D(1) = (IF b[1] THEN 32768 ELSE 0) /\ D(2) = (IF b[2] THEN 16384 ELSE 0)
      /\ D(3) = (IF b[3] THEN 8192 ELSE 0) /\ D(4) = (IF b[4] THEN 4096 ELSE 0)
      /\ D(5) = (IF b[5] THEN 2048 ELSE 0) /\ D(6) = (IF b[6] THEN 1024 ELSE 0)
      /\ D(7) = (IF b[7] THEN 512 ELSE 0) /\ D(8) = (IF b[8] THEN 256 ELSE 0)
  BY SMT DEF Places
<1>5. /\ D(9) = (IF b[9] THEN 128 ELSE 0) /\ D(10) = (IF b[10] THEN 64 ELSE 0)
      /\ D(11) = (IF b[11] THEN 32 ELSE 0) /\ D(12) = (IF b[12] THEN 16 ELSE 0)
      /\ D(13) = (IF b[13] THEN 8 ELSE 0) /\ D(14) = (IF b[14] THEN 4 ELSE 0)
      /\ D(15) = (IF b[15] THEN 2 ELSE 0) /\ D(16) = (IF b[16] THEN 1 ELSE 0)
  BY SMT DEF Places
<1> DEFINE u(k, x) == IF b[k] THEN x ELSE 0
           h == u(1, 2) + u(2, 1)
           m == u(3, 2048) + u(4, 1024) + u(5, 512) + u(6, 256) + u(7, 128) + u(8, 64)
                + u(9, 32) + u(10, 16) + u(11, 8) + u(12, 4) + u(13, 2) + u(14, 1)
<1>6. h \in 0 .. 3 /\ m \in 0 .. 4095 /\ (b[6] \/ b[7] \/ b[8] => m > 0)
  <2>1. \A k \in 1 .. 14, x \in Nat : u(k, x) \in Nat /\ u(k, x) <= x /\ (b[k] => u(k, x) = x) OBVIOUS
  <2> HIDE DEF u
  <2>2. /\ u(1, 2) \in Nat /\ u(1, 2) <= 2 /\ u(2, 1) \in Nat /\ u(2, 1) <= 1
        /\ u(3, 2048) \in Nat /\ u(3, 2048) <= 2048 /\ u(4, 1024) \in Nat /\ u(4, 1024) <= 1024
        /\ u(5, 512) \in Nat /\ u(5, 512) <= 512 /\ u(6, 256) \in Nat /\ u(6, 256) <= 256
        /\ u(7, 128) \in Nat /\ u(7, 128) <= 128 /\ u(8, 64) \in Nat /\ u(8, 64) <= 64
        /\ u(9, 32) \in Nat /\ u(9, 32) <= 32 /\ u(10, 16) \in Nat /\ u(10, 16) <= 16
        /\ u(11, 8) \in Nat /\ u(11, 8) <= 8 /\ u(12, 4) \in Nat /\ u(12, 4) <= 4
        /\ u(13, 2) \in Nat /\ u(13, 2) <= 2 /\ u(14, 1) \in Nat /\ u(14, 1) <= 1
    BY <2>1, SMT
  <2>3. (b[6] => u(6, 256) = 256) /\ (b[7] => u(7, 128) = 128) /\ (b[8] => u(8, 64) = 64)
    BY <2>1, SMT
  <2>4. h \in 0 .. 3 BY <2>2, SMT
  <2>5. m \in Nat BY <2>2, SMT
  <2>6. m <= 4095 BY <2>2, SMT
  <2>7. b[6] \/ b[7] \/ b[8] => m > 0 BY <2>2, <2>3, SMT
  <2> HIDE DEF h, m
  <2> QED BY <2>4, <2>5, <2>6, <2>7, SMT
<1>7. f[2] = 16384 * h
  <2>1. f[1] = f[0] + D(1) /\ f[2] = f[1] + D(2)
    <3> HIDE DEF D
    <3> QED BY <1>3, SMT
  <2> HIDE DEF D
  <2> QED BY <2>1, <1>3, <1>4, SMT
<1>8. f[14] = f[2] + 4 * m
  <2>1. /\ f[3] = f[2] + D(3) /\ f[4] = f[3] + D(4) /\ f[5] = f[4] + D(5) /\ f[6] = f[5] + D(6)
        /\ f[7] = f[6] + D(7) /\ f[8] = f[7] + D(8) /\ f[9] = f[8] + D(9)
        /\ f[10] = f[9] + D(10) /\ f[11] = f[10] + D(11) /\ f[12] = f[11] + D(12)
        /\ f[13] = f[12] + D(13) /\ f[14] = f[13] + D(14)
    <3> HIDE DEF D
    <3> QED BY <1>3, SMT
  <2>2. f[2] \in Int
    <3> HIDE DEF h, m
    <3> QED BY <1>6, <1>7, SMT
  <2>3. /\ D(3) = 4 * u(3, 2048) /\ D(4) = 4 * u(4, 1024) /\ D(5) = 4 * u(5, 512)
        /\ D(6) = 4 * u(6, 256) /\ D(7) = 4 * u(7, 128) /\ D(8) = 4 * u(8, 64)
        /\ D(9) = 4 * u(9, 32) /\ D(10) = 4 * u(10, 16) /\ D(11) = 4 * u(11, 8)
        /\ D(12) = 4 * u(12, 4) /\ D(13) = 4 * u(13, 2) /\ D(14) = 4 * u(14, 1)
    <3> HIDE DEF D
    <3> QED BY <1>4, <1>5, SMT
  <2>4. /\ u(3, 2048) \in Int /\ u(4, 1024) \in Int /\ u(5, 512) \in Int /\ u(6, 256) \in Int
        /\ u(7, 128) \in Int /\ u(8, 64) \in Int /\ u(9, 32) \in Int /\ u(10, 16) \in Int
        /\ u(11, 8) \in Int /\ u(12, 4) \in Int /\ u(13, 2) \in Int /\ u(14, 1) \in Int
    BY SMT
  <2> HIDE DEF D, u
  <2> QED BY <2>1, <2>2, <2>3, <2>4, SMT
<1>9. OfBits(b) = f[14] + u(15, 2) + u(16, 1)
  <2>1. f[15] = f[14] + D(15) /\ f[16] = f[15] + D(16)
    <3> HIDE DEF D
    <3> QED BY <1>3, SMT
  <2> HIDE DEF D
  <2> QED BY <2>1, <1>2, <1>5, SMT
<1> HIDE DEF h, m
<1>10. OfBits(b) = 16384 * h + 4 * m + u(15, 2) + u(16, 1)
  BY <1>6, <1>7, <1>8, <1>9, SMT
<1>11. b[6] \/ b[7] \/ b[8] => m > 0 BY <1>6
<1>12. h \in 0 .. 3 /\ m \in Nat /\ m < 4096 BY <1>6
<1>13. AddsUp(b, h, m) BY <1>10, <1>11, <1>12 DEF AddsUp
<1> QED BY <1>12, <1>13

FirstSeeds == {0, 8, 13333}

LEMMA SeedsAre ==
    ASSUME NEW run \in Runs
    PROVE  /\ Seeds(run).seed1 \in FirstSeeds /\ Seeds(run).find \in Nat
           /\ Seeds(run).seed2 = Seeds(run).seed1
<1> DEFINE given == <<GetSeed(run, 1), GetSeed(run, 2), GetSeed(run, 3)>>
           used  == CASE given = <<0, 0, 0>> -> <<0, 0, 102>>
                      [] given = <<1, 0, 0>> -> <<13333, 13333, 102>>
                      [] OTHER -> given
<1>1. Seeds(run) = [seed1 |-> used[1], seed2 |-> used[2], find |-> used[3]]
  BY SMT DEF Seeds
<1>2. run \in {"VALIDATION_RUN", "PERFORMANCE_RUN", "PROFILE_RUN"} BY CoreMarkAssumption, SMT
<1>3. GetSeed(run, 1) = Volatile(run)[1] /\ GetSeed(run, 2) = Volatile(run)[2]
      /\ GetSeed(run, 3) = Volatile(run)[3]
  BY SMT DEF GetSeed
<1>4. given \in {<<13333, 13333, 102>>, <<0, 0, 102>>, <<8, 8, 8>>}
  <2>1. CASE run = "VALIDATION_RUN" BY <2>1, <1>3, SMT DEF Volatile
  <2>2. CASE run = "PERFORMANCE_RUN" BY <2>2, <1>3, SMT DEF Volatile
  <2>3. CASE run = "PROFILE_RUN" BY <2>3, <1>3, SMT DEF Volatile
  <2> QED BY <2>1, <2>2, <2>3, <1>2
<1> HIDE DEF given
<1>5. used = given BY <1>4, SMT
<1>6. used[1] \in FirstSeeds /\ used[3] \in Nat /\ used[2] = used[1]
  <2> HIDE DEF used
  <2> QED BY <1>4, <1>5, SMT DEF FirstSeeds
<1> HIDE DEF used
<1> QED BY <1>1, <1>6, SMT

LEMMA MaxIdxIs == MaxIdx \in Nat /\ MaxIdx > 16384
BY SMT DEF MaxIdx

LEMMA IndexFits == Size \div 5 <= MaxIdx
<1>1. BlkSize \in Nat /\ BlkSize >= 120 /\ BlkSize \div 100 <= MaxIdx BY CoreMarkAssumption, SMT
<1>2. Size = BlkSize \div 20 - 2 BY SMT DEF Size
<1>3. PICK k \in Nat : k = BlkSize \div 20 /\ k >= 6 BY <1>1, SMT
<1>4. k \div 5 <= MaxIdx BY <1>1, <1>3, MaxIdxIs, SMT
<1> QED BY <1>2, <1>3, <1>4, MaxIdxIs, SMT

LEMMA OrPositive ==
    ASSUME NEW a, NEW y, Bit(a, 6) \/ Bit(a, 7) \/ Bit(a, 8) \/ Bit(y, 15)
    PROVE  Or(a, y) % 16384 \in Nat /\ Or(a, y) % 16384 > 0 /\ Or(a, y) % 16384 < 16384
<1> DEFINE b == [k \in 1 .. 16 |-> Bit(a, k) \/ Bit(y, k)]
<1>1. b[6] \/ b[7] \/ b[8] \/ b[15]
  <2>1. 6 \in 1 .. 16 /\ 7 \in 1 .. 16 /\ 8 \in 1 .. 16 /\ 15 \in 1 .. 16 BY SMT
  <2> QED BY <2>1, Zenon
<1>2. Or(a, y) = OfBits(b) BY Zenon DEF Or
<1> HIDE DEF b
<1>3. PICK h \in 0 .. 3, m \in Nat : AddsUp(b, h, m) BY OfBitsIs, SMT
<1>4. CASE b[15]
  <2>1. OfBits(b) = 16384 * h + 4 * m + 2 + (IF b[16] THEN 1 ELSE 0) /\ m < 4096
    BY <1>3, <1>4, SMT DEF AddsUp
  <2> QED BY <2>1, <1>2, SMT
<1>5. CASE ~b[15]
  <2>1. m > 0 BY <1>1, <1>3, <1>5 DEF AddsUp
  <2>2. OfBits(b) = 16384 * h + 4 * m + (IF b[16] THEN 1 ELSE 0) /\ m < 4096
    BY <1>3, <1>5, SMT DEF AddsUp
  <2> QED BY <2>1, <2>2, <1>2, SMT
<1> QED BY <1>4, <1>5

LEMMA XorSecond ==
    ASSUME NEW a, NEW y, Bit(a, 15), ~Bit(y, 15)
    PROVE  Bit(Xor(a, y), 15)
<1> DEFINE d == [k \in 1 .. 16 |-> Bit(a, k) # Bit(y, k)]
<1>1. d[15]
  <2>1. 15 \in 1 .. 16 BY SMT
  <2> QED BY <2>1, Zenon
<1>2. Xor(a, y) = OfBits(d) BY Zenon DEF Xor
<1> HIDE DEF d
<1>3. PICK h \in 0 .. 3, m \in Nat : AddsUp(d, h, m) BY OfBitsIs, SMT
<1>4. PICK e \in 0 .. 1 : OfBits(d) = 16384 * h + 4 * m + 2 + e
  <2>1. OfBits(d) = 16384 * h + 4 * m + 2 + (IF d[16] THEN 1 ELSE 0) BY <1>1, <1>3, SMT DEF AddsUp
  <2> QED BY <2>1
<1>5. (Xor(a, y) \div 2) % 2 = 1 BY <1>2, <1>4, SMT
<1> QED BY <1>5, SMT DEF Bit, Places

LEMMA ItemIdxIn ==
    ASSUME NEW j \in 1 .. Size, cfg.seed1 \in FirstSeeds
    PROVE  ItemIdx(j) \in Nat /\ ItemIdx(j) > 0 /\ ItemIdx(j) <= MaxIdx
<1>1. CASE j < Size \div 5
  <2>1. ItemIdx(j) = j BY <1>1, SMT DEF ItemIdx
  <2> QED BY <1>1, <2>1, Sizes, IndexFits, MaxIdxIs, SMT
<1>2. CASE ~(j < Size \div 5)
  <2> DEFINE c == (j + 1) % 8
             a == c * 256
             y == Xor(j, cfg.seed1)
  <2>1. ItemIdx(j) = Or(a, y) % 16384 BY <1>2, SMT DEF ItemIdx
  <2>2. j \in Nat /\ c \in 0 .. 7 BY Sizes, SMT
  <2>3. Bit(a, 6) \/ Bit(a, 7) \/ Bit(a, 8) \/ Bit(y, 15)
    <3>1. CASE c # 0
      <4>1. Bit(a, 6) <=> (a \div 1024) % 2 = 1 BY SMT DEF Bit, Places
      <4>2. Bit(a, 7) <=> (a \div 512) % 2 = 1 BY SMT DEF Bit, Places
      <4>3. Bit(a, 8) <=> (a \div 256) % 2 = 1 BY SMT DEF Bit, Places
      <4>4. c \in 1 .. 7 BY <2>2, <3>1, SMT
      <4>5. (c * 256) \div 256 = c /\ (c * 256) \div 512 = c \div 2 /\ (c * 256) \div 1024 = c \div 4
        <5> HIDE DEF c
        <5> QED BY <4>4, SMT
      <4>6. c % 2 = 1 \/ (c \div 2) % 2 = 1 \/ (c \div 4) % 2 = 1
        <5> HIDE DEF c
        <5> QED BY <4>4, SMT
      <4> QED BY <4>1, <4>2, <4>3, <4>5, <4>6
    <3>2. CASE c = 0
      <4>1. (j \div 2) % 2 = 1 BY <2>2, <3>2, SMT
      <4>2. (cfg.seed1 \div 2) % 2 = 0
        <5>1. ASSUME NEW x, x = 0 \/ x = 8 \/ x = 13333 PROVE (x \div 2) % 2 = 0 BY <5>1, SMT
        <5> QED BY <5>1, SMT DEF FirstSeeds
      <4>3. Bit(j, 15) /\ ~Bit(cfg.seed1, 15) BY <4>1, <4>2, SMT DEF Bit, Places
      <4> QED BY <4>3, XorSecond
    <3> QED BY <3>1, <3>2
  <2> HIDE DEF a, y
  <2> QED BY <2>1, <2>3, OrPositive, MaxIdxIs, SMT
<1> QED BY <1>1, <1>2

----------------------------------------------------------------------------
(* The sort, on pointers nx, the n elements of w and the local variables s. *)

Busy(s) == s.psize > 0 \/ (s.qsize > 0 /\ s.q # NULL)

MsTypes ==
    [cmp : {"idx", "complex"}, then : {"inited", "remove", "listdone"},
     head : Node \cup {NULL}, p : Node \cup {NULL}, q : Node \cup {NULL}, tail : Node \cup {NULL},
     insize : Nat, nmerges : Nat, psize : Nat, qsize : Nat]

\* The first a elements are sorted, those up to b are the rest of the run at p,
\* and q is behind.  Only the pointers at the two cuts may be out of date.
Sorted(nx, s, w, n, a, b) ==
    /\ a <= b
    /\ Linked(nx, w, n, {a, b})
    /\ s.tail = At(w, n, a)
    /\ a > 0 => s.head = w[1]
    /\ s.psize = b - a
    /\ a < b => s.p = w[a + 1]
    /\ Busy(s) => s.q = At(w, n, b + 1)
    /\ ~Busy(s) => a = b /\ s.p = At(w, n, a + 1)

Multiple(x, m) == \E c \in Nat : x = c * m

\* How far the merges begun reach, and where the one going on started.
Reach(s) == s.nmerges * (2 * s.insize)
Start(s) == Reach(s) - 2 * s.insize

\* Node 0 leads the run it is in: a sorted one, the one at p, the one at q, or
\* one that waits.
Leads(s, w, n, a, b) ==
    /\ b <= Reach(s)
    /\ b < n => Reach(s) = IF Busy(s) THEN b + s.qsize ELSE b
    /\ \A k \in 1 .. n : w[k] = 0 =>
          /\ k <= a => Multiple(k - 1, 2 * s.insize)
          /\ a < k /\ k <= b => k = a + 1 /\ a = Start(s)
          /\ b < k /\ Busy(s) => \/ k = b + 1 /\ a = Start(s) /\ s.qsize > 0
                                 \/ k > b + s.qsize /\ Multiple(k - 1, s.insize)
          /\ b < k /\ ~Busy(s) => Multiple(k - 1, s.insize)

LEMMA ArrangedNodes ==
    ASSUME NEW n \in 0 .. Size, NEW w \in Arranged(n)
    PROVE  /\ w \in [1 .. n -> Node]
           /\ \A k \in 1 .. n : w[k] \in Node /\ w[k] # NULL /\ w[k] \in 0 .. n - 1
           /\ \A k \in Int : At(w, n, k) \in Node \cup {NULL}
           /\ \A k \in Int : At(w, n, k) = NULL <=> k \notin 1 .. n
<1>1. w \in [1 .. n -> 0 .. n - 1] BY DEF Arranged
<1>2. 0 .. n - 1 \subseteq Node BY Sizes
<1>3. \A k \in 1 .. n : w[k] \in Node /\ w[k] # NULL /\ w[k] \in 0 .. n - 1 BY <1>1, <1>2, Sizes
<1>4. w \in [1 .. n -> Node] BY <1>1, <1>2
<1>5. \A k \in Int : At(w, n, k) \in Node \cup {NULL} BY <1>3 DEF At
<1>6. \A k \in Int : At(w, n, k) = NULL <=> k \notin 1 .. n BY <1>3 DEF At
<1> QED BY <1>3, <1>4, <1>5, <1>6

LEMMA ArrangedOnce ==
    ASSUME NEW n \in 1 .. Size, NEW w \in Arranged(n)
    PROVE  /\ w \in [1 .. n -> Node] /\ \A k \in 1 .. n : w[k] \in Node /\ w[k] # NULL
           /\ \A j, k \in 1 .. n : w[j] = w[k] => j = k
<1>1. n \in 0 .. Size BY Sizes
<1>2. \A j, k \in 1 .. n : w[j] = w[k] => j = k BY DEF Arranged
<1> QED BY <1>1, <1>2, ArrangedNodes

LEMMA NewSort ==
    ASSUME NEW c, NEW t, NEW e
    PROVE  [NoSort EXCEPT !.cmp = c, !.then = t, !.p = e, !.insize = 1]
           = [cmp |-> c, then |-> t, head |-> NULL, p |-> e, q |-> NULL, tail |-> NULL,
              insize |-> 1, nmerges |-> 0, psize |-> 0, qsize |-> 0]
<1>1. ASSUME NEW r, r = [cmp |-> "idx", then |-> "", head |-> NULL, p |-> NULL, q |-> NULL,
                         tail |-> NULL, insize |-> 0, nmerges |-> 0, psize |-> 0, qsize |-> 0],
             NEW s, s = [r EXCEPT !.cmp = c, !.then = t, !.p = e, !.insize = 1]
      PROVE  s = [cmp |-> c, then |-> t, head |-> NULL, p |-> e, q |-> NULL, tail |-> NULL,
                  insize |-> 1, nmerges |-> 0, psize |-> 0, qsize |-> 0]
  BY <1>1
<1>2. NoSort = [cmp |-> "idx", then |-> "", head |-> NULL, p |-> NULL, q |-> NULL,
                tail |-> NULL, insize |-> 0, nmerges |-> 0, psize |-> 0, qsize |-> 0]
  BY DEF NoSort
<1> QED BY <1>1, <1>2

LEMMA SortStarts ==
    ASSUME NEW n \in 1 .. Size, NEW w \in Arranged(n), NEW nx, Linked(nx, w, n, {}),
           NEW c \in {"idx", "complex"}, NEW t \in {"inited", "remove", "listdone"}, NEW s,
           s = [cmp |-> c, then |-> t, head |-> NULL, p |-> w[1], q |-> NULL, tail |-> NULL,
                insize |-> 1, nmerges |-> 0, psize |-> 0, qsize |-> 0]
    PROVE  /\ s \in MsTypes /\ s.insize > 0 /\ s.cmp = c /\ s.then = t
           /\ Sorted(nx, s, w, n, 0, 0) /\ Leads(s, w, n, 0, 0)
<1>1. /\ s.cmp = c /\ s.then = t /\ s.head = NULL /\ s.p = w[1] /\ s.q = NULL /\ s.tail = NULL
      /\ s.insize = 1 /\ s.nmerges = 0 /\ s.psize = 0 /\ s.qsize = 0
  OBVIOUS
<1>2. w[1] \in Node
  <2>1. n \in 0 .. Size /\ 1 \in 1 .. n BY Sizes
  <2> QED BY <2>1, ArrangedNodes
<1>3. s \in MsTypes /\ s.insize > 0 /\ s.cmp = c /\ s.then = t
  <2>1. w[1] \in Node \cup {NULL} /\ NULL \in Node \cup {NULL} BY <1>2
  <2>2. 0 \in Nat /\ 1 \in Nat /\ 1 > 0 OBVIOUS
  <2>3. s \in MsTypes
    <3> QED BY <2>1, <2>2 DEF MsTypes
  <2> QED BY <1>1, <2>3
<1>4. ~Busy(s) BY <1>1 DEF Busy
<1>5. At(w, n, 0) = NULL /\ At(w, n, 1) = w[1] BY DEF At
<1>6. Linked(nx, w, n, {0, 0})
  <2>1. \A k \in 1 .. n : nx[w[k]] = At(w, n, k + 1) BY DEF Linked
  <2> QED BY <2>1, Zenon DEF Linked
<1>7. Sorted(nx, s, w, n, 0, 0)
  <2>1. 0 + 1 = 1 /\ 0 - 0 = 0 /\ 0 <= 0 /\ ~(0 < 0) /\ ~(0 > 0) OBVIOUS
  <2>2. s.tail = NULL /\ s.psize = 0 /\ s.p = w[1] BY <1>1
  <2> QED BY <2>1, <2>2, <1>4, <1>5, <1>6 DEF Sorted
<1>8. Leads(s, w, n, 0, 0)
  <2>1. Reach(s) = 0 BY <1>1 DEF Reach
  <2>2. s.insize = 1 BY <1>1
  <2>3. ASSUME NEW k \in 1 .. n PROVE Multiple(k - 1, s.insize)
    <3>1. k - 1 \in Nat /\ k - 1 = (k - 1) * 1 OBVIOUS
    <3> QED BY <3>1, <2>2 DEF Multiple
  <2> QED BY <2>1, <2>3, <1>4 DEF Leads
<1> QED BY <1>3, <1>7, <1>8

\* The pointers when the next element is linked behind the tail.
Appended(nx, tail, e) == IF tail = NULL THEN nx ELSE [nx EXCEPT ![tail] = e]

\* The next element comes from the run at p.
LEMMA LinkFromP ==
    ASSUME NEW n \in 1 .. Size, NEW w \in Arranged(n), NEW nx \in [Node -> Node \cup {NULL}],
           NEW s \in MsTypes, NEW a \in 0 .. n, NEW b \in 0 .. n,
           Sorted(nx, s, w, n, a, b), a < b, NEW s1, NEW nx1,
           nx1 = Appended(nx, s.tail, s.p),
           s1.tail = s.p, s1.head = (IF s.tail = NULL THEN s.p ELSE s.head),
           s1.psize = s.psize - 1, s1.qsize = s.qsize, s1.q = s.q,
           s1.p = IF s.psize - 1 = 0 /\ (s.qsize = 0 \/ s.q = NULL) THEN s.q ELSE nx[s.p]
    PROVE  nx1 \in [Node -> Node \cup {NULL}] /\ Sorted(nx1, s1, w, n, a + 1, b)
<1>1. /\ w \in [1 .. n -> Node] /\ \A k \in 1 .. n : w[k] \in Node /\ w[k] # NULL
      /\ \A j, k \in 1 .. n : w[j] = w[k] => j = k
  BY ArrangedOnce
<1>2. s.psize = b - a /\ s.p = w[a + 1] /\ Busy(s) /\ s.q = At(w, n, b + 1) /\ a + 1 \in 1 .. n
  BY DEF Sorted, Busy
<1>3. s.tail = At(w, n, a) /\ (s.tail = NULL <=> a = 0) /\ (a > 0 => s.tail = w[a])
  BY <1>1 DEF Sorted, At
<1>4. nx1 \in [Node -> Node \cup {NULL}] BY <1>1, <1>2, <1>3 DEF Appended
<1>5. Linked(nx1, w, n, {a + 1, b})
  <2>1. \A k \in 1 .. n : k # a => nx1[w[k]] = nx[w[k]] BY <1>1, <1>3 DEF Appended
  <2>2. a > 0 => nx1[w[a]] = At(w, n, a + 1) BY <1>1, <1>2, <1>3 DEF At, Appended
  <2>3. \A k \in (1 .. n) \ {a, b} : nx[w[k]] = At(w, n, k + 1) BY DEF Sorted, Linked
  <2> QED BY <2>1, <2>2, <2>3 DEF Linked
<1>6. a + 1 < b => s1.p = w[a + 2]
  <2>1. ASSUME a + 1 < b PROVE nx[w[a + 1]] = At(w, n, a + 2)
    <3>1. a + 1 \in (1 .. n) \ {a, b} /\ a + 1 + 1 = a + 2 BY <2>1, <1>2
    <3> QED BY <3>1 DEF Sorted, Linked
  <2> QED BY <2>1, <1>2 DEF At
<1>7. Busy(s1) <=> ~(s.psize - 1 = 0 /\ (s.qsize = 0 \/ s.q = NULL))
  <2>1. s.psize \in Nat /\ s.qsize \in Nat BY DEF MsTypes
  <2> QED BY <2>1, <1>2 DEF Busy
<1>8. ~Busy(s1) => a + 1 = b /\ s1.p = At(w, n, a + 2)
  BY <1>2, <1>7
<1>9. s1.tail = At(w, n, a + 1) /\ s1.head = w[1]
  BY <1>2, <1>3 DEF At, Sorted
<1>10. a + 1 + 1 = a + 2 /\ a + 1 <= b /\ s1.psize = b - (a + 1) BY <1>2
<1> QED BY <1>2, <1>4, <1>5, <1>6, <1>8, <1>9, <1>10 DEF Sorted

\* The next element comes from the run at q.
LEMMA LinkFromQ ==
    ASSUME NEW n \in 1 .. Size, NEW w \in Arranged(n), NEW nx \in [Node -> Node \cup {NULL}],
           NEW s \in MsTypes, NEW a \in 0 .. n, NEW b \in 0 .. n,
           Sorted(nx, s, w, n, a, b), s.qsize > 0, s.q # NULL, NEW s1, NEW nx1,
           nx1 = Appended(nx, s.tail, s.q),
           s1.tail = s.q, s1.head = (IF s.tail = NULL THEN s.q ELSE s.head),
           s1.psize = s.psize, s1.qsize = s.qsize - 1, s1.q = nx[s.q],
           s1.p = IF s.psize = 0 /\ (s.qsize - 1 = 0 \/ nx[s.q] = NULL) THEN nx[s.q] ELSE s.p
    PROVE  /\ b + 1 \in 1 .. n /\ s.q = w[b + 1]
           /\ nx[s.q] = At(w, n, b + 2)
           /\ nx1 \in [Node -> Node \cup {NULL}]
           /\ Moved(w, n, a + 1, b + 1) \in Arranged(n)
           /\ Sorted(nx1, s1, Moved(w, n, a + 1, b + 1), n, a + 1, b + 1)
<1>1. /\ w \in [1 .. n -> Node] /\ \A k \in 1 .. n : w[k] \in Node /\ w[k] # NULL
      /\ \A j, k \in 1 .. n : w[j] = w[k] => j = k
  BY ArrangedOnce
<1>2. /\ s.psize = b - a /\ Busy(s) /\ s.q = At(w, n, b + 1) /\ a <= b
      /\ a < b => s.p = w[a + 1]
  BY DEF Sorted, Busy
<1>3. b + 1 \in 1 .. n /\ s.q = w[b + 1] /\ a + 1 \in 1 .. n /\ a + 1 <= b + 1
  BY <1>2 DEF At
<1>4. s.tail = At(w, n, a) /\ (s.tail = NULL <=> a = 0) /\ (a > 0 => s.tail = w[a])
  BY <1>1 DEF Sorted, At
<1>5. nx1 \in [Node -> Node \cup {NULL}] BY <1>1, <1>3, <1>4 DEF Appended
<1> DEFINE v == Moved(w, n, a + 1, b + 1)
<1>6. v \in Arranged(n)
  <2>1. ASSUME NEW x \in 1 .. n, NEW y \in 1 .. n, x <= y PROVE Moved(w, n, x, y) \in Arranged(n)
    BY <2>1, MovedArranged
  <2> QED BY <2>1, <1>3
<1>7. /\ \A k \in 1 .. a : v[k] = w[k]
      /\ v[a + 1] = w[b + 1]
      /\ \A k \in a + 2 .. b + 1 : v[k] = w[k - 1]
      /\ \A k \in b + 2 .. n : v[k] = w[k]
  BY <1>3 DEF Moved
<1> HIDE DEF v
<1>8. \A k \in (1 .. n) \ {a, b} : nx[w[k]] = At(w, n, k + 1) BY DEF Sorted, Linked
<1>9. \A k \in 1 .. n : k # a => nx1[w[k]] = nx[w[k]] BY <1>1, <1>4 DEF Appended
<1>10. ASSUME NEW k \in (1 .. n) \ {a + 1, b + 1} PROVE nx1[v[k]] = At(v, n, k + 1)
  <2>1. CASE k < a
    <3>1. v[k] = w[k] /\ k \in (1 .. n) \ {a, b} /\ k + 1 \in 1 .. a /\ k + 1 \in 1 .. n BY <2>1, <1>2, <1>7
    <3>2. v[k + 1] = w[k + 1] BY <3>1, <1>7
    <3> QED BY <3>1, <3>2, <1>8, <1>9 DEF At
  <2>2. CASE k = a
    <3>1. a > 0 /\ v[k] = w[a] /\ nx1[w[a]] = w[b + 1] BY <2>2, <1>1, <1>3, <1>4, <1>7 DEF Appended
    <3> QED BY <3>1, <2>2, <1>3, <1>7 DEF At
  <2>3. CASE k \in a + 2 .. b
    <3>1. v[k] = w[k - 1] /\ k - 1 \in (1 .. n) \ {a, b} /\ k - 1 + 1 = k BY <2>3, <1>7
    <3>2. nx1[v[k]] = w[k] BY <3>1, <1>8, <1>9 DEF At
    <3>3. k + 1 \in a + 2 .. b + 1 /\ k + 1 \in 1 .. n /\ k + 1 - 1 = k BY <2>3, <1>3
    <3>4. v[k + 1] = w[k] BY <3>3, <1>7
    <3> QED BY <3>2, <3>3, <3>4 DEF At
  <2>4. CASE k \in b + 2 .. n
    <3>1. v[k] = w[k] /\ k \in (1 .. n) \ {a, b} BY <2>4, <1>2, <1>7
    <3>2. nx1[v[k]] = At(w, n, k + 1) BY <3>1, <1>8, <1>9
    <3>3. k + 1 \in 1 .. n => k + 1 \in b + 2 .. n BY <2>4
    <3>4. At(w, n, k + 1) = At(v, n, k + 1) BY <3>3, <1>7 DEF At
    <3> QED BY <3>2, <3>4
  <2>5. k < a \/ k = a \/ k \in a + 2 .. b \/ k \in b + 2 .. n BY <1>2
  <2> QED BY <2>1, <2>2, <2>3, <2>4, <2>5
<1>11. nx[s.q] = At(w, n, b + 2) /\ At(w, n, b + 2) = At(v, n, b + 2)
  <2>1. b + 1 \in (1 .. n) \ {a, b} /\ b + 1 + 1 = b + 2 BY <1>2, <1>3
  <2>2. nx[s.q] = At(w, n, b + 2) BY <2>1, <1>3, <1>8
  <2>3. b + 2 \in 1 .. n => b + 2 \in b + 2 .. n OBVIOUS
  <2> QED BY <2>2, <2>3, <1>7 DEF At
<1>12. Busy(s1) <=> ~(s.psize = 0 /\ (s.qsize - 1 = 0 \/ nx[s.q] = NULL))
  <2>1. s.psize \in Nat /\ s.qsize \in Nat BY DEF MsTypes
  <2> QED BY <2>1 DEF Busy
<1>13. Sorted(nx1, s1, v, n, a + 1, b + 1)
  <2>1. a + 1 <= b + 1 /\ s1.psize = b + 1 - (a + 1) BY <1>2
  <2>2. Linked(nx1, v, n, {a + 1, b + 1}) BY <1>10 DEF Linked
  <2>3. s1.tail = At(v, n, a + 1) BY <1>3, <1>7 DEF At
  <2>4. s1.head = v[1]
    <3>1. CASE a = 0 BY <3>1, <1>3, <1>4, <1>7
    <3>2. CASE a # 0
      <4>1. s.head = w[1] /\ s.tail # NULL BY <3>2, <1>4 DEF Sorted
      <4>2. v[1] = w[1] BY <3>2, <1>7
      <4> QED BY <4>1, <4>2
    <3> QED BY <3>1, <3>2
  <2>5. a + 1 < b + 1 => s1.p = v[a + 1 + 1]
    <3>1. ASSUME a < b PROVE s1.p = w[a + 1] BY <3>1, <1>2
    <3>2. ASSUME a < b PROVE v[a + 2] = w[a + 1]
      <4>1. a + 2 \in a + 2 .. b + 1 /\ a + 2 - 1 = a + 1 BY <3>2
      <4> QED BY <4>1, <1>7
    <3>3. a + 1 + 1 = a + 2 /\ (a + 1 < b + 1 <=> a < b) OBVIOUS
    <3> QED BY <3>1, <3>2, <3>3
  <2>6. b + 1 + 1 = b + 2 OBVIOUS
  <2>7. s1.q = At(v, n, b + 1 + 1) BY <2>6, <1>11
  <2>8. ~Busy(s1) => a + 1 = b + 1 /\ s1.p = At(v, n, a + 1 + 1)
    <3>1. ~Busy(s1) => a = b /\ s1.p = nx[s.q] BY <1>2, <1>12
    <3> QED BY <3>1, <2>7
  <2> QED BY <2>1, <2>2, <2>3, <2>4, <2>5, <2>7, <2>8 DEF Sorted
<1>14. nx[s.q] = At(w, n, b + 2) BY <1>11
<1> QED BY <1>3, <1>5, <1>6, <1>13, <1>14 DEF v

----------------------------------------------------------------------------
(* Node 0 leads its run: what the steps of the sort do to that. *)

LEMMA TimesMonotonic ==
    ASSUME NEW c \in Nat, NEW d \in Nat, NEW m \in Nat, c <= d
    PROVE  c * m <= d * m
<1>1. PICK e \in Nat : d = c + e
  <2>1. d - c \in Nat /\ d = c + (d - c) OBVIOUS
  <2> QED BY <2>1
<1>2. d * m = c * m + e * m BY <1>1, SMT
<1>3. e * m \in Nat /\ c * m \in Nat OBVIOUS
<1> QED BY <1>2, <1>3

\* Two multiples are equal, neighbours, or further apart.
LEMMA MultiplesApart ==
    ASSUME NEW c \in Nat, NEW d \in Nat, NEW m \in Nat, m > 0, c * m >= d * m
    PROVE  \/ c * m = d * m
           \/ c * m = d * m + m
           \/ c * m >= d * m + 2 * m
<1>1. c * m \in Nat /\ d * m \in Nat OBVIOUS
<1>2. (d + 1) * m = d * m + m /\ (d + 2) * m = d * m + 2 * m /\ (c + 1) * m = c * m + m BY SMT
<1>3. c >= d
  <2>1. ASSUME c < d PROVE FALSE
    <3>1. (c + 1) * m <= d * m BY <2>1, TimesMonotonic
    <3> QED BY <3>1, <1>1, <1>2
  <2> QED BY <2>1
<1>4. CASE c = d BY <1>4
<1>5. CASE c = d + 1 BY <1>5, <1>2
<1>6. CASE c >= d + 2
  <2>1. (d + 2) * m <= c * m BY <1>6, TimesMonotonic
  <2> QED BY <2>1, <1>1, <1>2
<1> QED BY <1>3, <1>4, <1>5, <1>6

LEMMA StartIsMultiple ==
    ASSUME NEW s \in MsTypes, s.insize > 0, Start(s) >= 0
    PROVE  Multiple(Start(s), 2 * s.insize)
<1>1. s.insize \in Nat /\ s.nmerges \in Nat BY DEF MsTypes
<1>2. s.nmerges # 0
  <2>1. ASSUME s.nmerges = 0 PROVE FALSE
    <3>1. Reach(s) = 0 BY <2>1, <1>1 DEF Reach
    <3> QED BY <3>1, <1>1 DEF Start
  <2> QED BY <2>1
<1>3. ASSUME NEW x \in Nat, NEW m \in Nat, m # 0 PROVE m * x - x = (m - 1) * x BY <1>3, SMT
<1>4. s.nmerges * (2 * s.insize) - 2 * s.insize = (s.nmerges - 1) * (2 * s.insize)
  <2>1. 2 * s.insize \in Nat BY <1>1
  <2> QED BY <1>1, <1>2, <1>3, <2>1
<1>5. s.nmerges - 1 \in Nat BY <1>1, <1>2
<1> QED BY <1>4, <1>5 DEF Multiple, Start, Reach

LEMMA LeadsFromP ==
    ASSUME NEW n \in 1 .. Size, NEW w \in Arranged(n), NEW nx,
           NEW s \in MsTypes, s.insize > 0, NEW a \in 0 .. n, NEW b \in 0 .. n,
           Sorted(nx, s, w, n, a, b), a < b, Leads(s, w, n, a, b),
           s.qsize > 0 /\ s.q # NULL => s.q # 0,
           NEW s1, s1.psize = s.psize - 1, s1.qsize = s.qsize, s1.q = s.q,
           s1.insize = s.insize, s1.nmerges = s.nmerges
    PROVE  Leads(s1, w, n, a + 1, b)
<1>1. Busy(s) /\ s.q = At(w, n, b + 1) /\ s.psize = b - a BY DEF Sorted, Busy
<1>2. Reach(s1) = Reach(s) /\ Start(s1) = Start(s) BY DEF Reach, Start
<1>3. s.qsize \in Nat /\ s.insize \in Nat BY DEF MsTypes
<1>4. b < n => s.q # NULL
  <2>1. \A k \in 1 .. n : w[k] # NULL BY ArrangedOnce
  <2>2. ASSUME b < n PROVE s.q = w[b + 1] /\ b + 1 \in 1 .. n BY <2>2, <1>1 DEF At
  <2> QED BY <2>1, <2>2
<1>5. b < n => Reach(s1) = IF Busy(s1) THEN b + s1.qsize ELSE b
  <2>1. ASSUME b < n PROVE Reach(s) = b + s.qsize BY <2>1, <1>1 DEF Leads
  <2>2. ASSUME b < n, ~Busy(s1) PROVE s.qsize = 0 BY <2>2, <1>3, <1>4 DEF Busy
  <2> QED BY <2>1, <2>2, <1>2
<1>6. ASSUME NEW k \in 1 .. n, w[k] = 0
      PROVE  /\ k <= a + 1 => Multiple(k - 1, 2 * s1.insize)
             /\ a + 1 < k /\ k <= b => k = a + 1 + 1 /\ a + 1 = Start(s1)
             /\ b < k /\ Busy(s1) => \/ k = b + 1 /\ a + 1 = Start(s1) /\ s1.qsize > 0
                                     \/ k > b + s1.qsize /\ Multiple(k - 1, s1.insize)
             /\ b < k /\ ~Busy(s1) => Multiple(k - 1, s1.insize)
  <2>1. /\ k <= a => Multiple(k - 1, 2 * s.insize)
        /\ a < k /\ k <= b => k = a + 1 /\ a = Start(s)
        /\ b < k => \/ k = b + 1 /\ a = Start(s) /\ s.qsize > 0
                    \/ k > b + s.qsize /\ Multiple(k - 1, s.insize)
    BY <1>1, <1>6 DEF Leads
  <2>2. k = a + 1 => Multiple(k - 1, 2 * s.insize)
    <3>1. ASSUME k = a + 1 PROVE k - 1 = Start(s) /\ Start(s) >= 0 BY <3>1, <2>1
    <3> QED BY <3>1, StartIsMultiple
  <2>3. ~(k = b + 1 /\ s.qsize > 0)
    <3>1. ASSUME k = b + 1, s.qsize > 0 PROVE FALSE
      <4>1. s.q = 0 BY <3>1, <1>1, <1>6 DEF At
      <4> QED BY <4>1, <3>1, Sizes
    <3> QED BY <3>1
  <2> QED BY <2>1, <2>2, <2>3
<1>7. b <= Reach(s1) BY <1>2 DEF Leads
<1> QED BY <1>5, <1>6, <1>7 DEF Leads

LEMMA LeadsFromQ ==
    ASSUME NEW n \in 1 .. Size, NEW w \in Arranged(n), NEW nx,
           NEW s \in MsTypes, s.insize > 0, NEW a \in 0 .. n, NEW b \in 0 .. n, b + 1 \in 1 .. n,
           Sorted(nx, s, w, n, a, b), s.qsize > 0, s.q # NULL, Leads(s, w, n, a, b),
           a < b => s.p # 0,
           NEW s1, s1.psize = s.psize, s1.qsize = s.qsize - 1, s1.q = At(w, n, b + 2),
           s1.insize = s.insize, s1.nmerges = s.nmerges
    PROVE  Leads(s1, Moved(w, n, a + 1, b + 1), n, a + 1, b + 1)
<1> DEFINE v == Moved(w, n, a + 1, b + 1)
<1>1. Busy(s) /\ s.q = At(w, n, b + 1) /\ s.psize = b - a /\ a <= b /\ (a < b => s.p = w[a + 1])
  BY DEF Sorted, Busy
<1>2. Reach(s1) = Reach(s) /\ Start(s1) = Start(s) BY DEF Reach, Start
<1>3. s.qsize \in Nat /\ s.insize \in Nat /\ s.psize \in Nat BY DEF MsTypes
<1>4. Reach(s) = b + s.qsize BY <1>1 DEF Leads
<1>5. b + 1 < n => s1.q # NULL
  <2>1. \A k \in 1 .. n : w[k] # NULL BY ArrangedOnce
  <2>2. ASSUME b + 1 < n PROVE s1.q = w[b + 2] /\ b + 2 \in 1 .. n BY <2>2 DEF At
  <2> QED BY <2>1, <2>2
<1>6. b + 1 < n => Reach(s1) = IF Busy(s1) THEN b + 1 + s1.qsize ELSE b + 1
  <2>1. ASSUME b + 1 < n, ~Busy(s1) PROVE s.qsize = 1 BY <2>1, <1>3, <1>5 DEF Busy
  <2>2. b + 1 + s1.qsize = b + s.qsize BY <1>3
  <2> QED BY <2>1, <2>2, <1>2, <1>4
<1>7. /\ \A k \in 1 .. a : v[k] = w[k]
      /\ v[a + 1] = w[b + 1]
      /\ \A k \in a + 2 .. b + 1 : v[k] = w[k - 1]
      /\ \A k \in b + 2 .. n : v[k] = w[k]
  BY <1>1 DEF Moved
<1> HIDE DEF v
<1>8. \A k \in 1 .. n : w[k] = 0 =>
         /\ k <= a => Multiple(k - 1, 2 * s.insize)
         /\ a < k /\ k <= b => k = a + 1 /\ a = Start(s)
         /\ b < k => \/ k = b + 1 /\ a = Start(s) /\ s.qsize > 0
                     \/ k > b + s.qsize /\ Multiple(k - 1, s.insize)
  BY <1>1 DEF Leads
<1>9. ASSUME NEW k \in 1 .. n, v[k] = 0
      PROVE  /\ k <= a + 1 => Multiple(k - 1, 2 * s1.insize)
             /\ a + 1 < k /\ k <= b + 1 => k = a + 1 + 1 /\ a + 1 = Start(s1)
             /\ b + 1 < k /\ Busy(s1) => \/ k = b + 1 + 1 /\ a + 1 = Start(s1) /\ s1.qsize > 0
                                         \/ k > b + 1 + s1.qsize /\ Multiple(k - 1, s1.insize)
             /\ b + 1 < k /\ ~Busy(s1) => Multiple(k - 1, s1.insize)
  <2>1. CASE k <= a
    <3>1. w[k] = 0 BY <2>1, <1>7, <1>9
    <3> QED BY <2>1, <3>1, <1>1, <1>8
  <2>2. CASE k = a + 1
    <3>1. w[b + 1] = 0 BY <2>2, <1>7, <1>9
    <3>2. a = Start(s) BY <3>1, <1>3, <1>8
    <3>3. Multiple(Start(s), 2 * s.insize) BY <3>2, StartIsMultiple
    <3>4. k - 1 = a BY <2>2
    <3> QED BY <2>2, <3>2, <3>3, <3>4, <1>1
  <2>3. CASE k \in a + 2 .. b + 1
    <3>1. w[k - 1] = 0 /\ k - 1 \in 1 .. n /\ a < k - 1 /\ k - 1 <= b BY <2>3, <1>7, <1>9
    <3>2. k - 1 = a + 1 BY <3>1, <1>8
    <3> QED BY <3>1, <3>2, <1>1
  <2>4. CASE k \in b + 2 .. n
    <3>1. w[k] = 0 BY <2>4, <1>7, <1>9
    <3>2. k > b + s.qsize /\ Multiple(k - 1, s.insize) BY <2>4, <3>1, <1>8
    <3>3. k > b + 1 + s1.qsize BY <3>2, <1>3
    <3> QED BY <2>4, <3>2, <3>3, <1>1
  <2>5. k <= a \/ k = a + 1 \/ k \in a + 2 .. b + 1 \/ k \in b + 2 .. n BY <1>1
  <2> QED BY <2>1, <2>2, <2>3, <2>4, <2>5
<1>10. b + 1 <= Reach(s1) BY <1>2, <1>3, <1>4
<1>11. Leads(s1, v, n, a + 1, b + 1) BY <1>6, <1>9, <1>10 DEF Leads
<1> QED BY <1>11 DEF v

\* What is behind a place, as core_list_mergesort counts it from p on.
LEMMA RestOf ==
    ASSUME NEW n \in 1 .. Size, NEW w \in Arranged(n), NEW nx \in [Node -> Node \cup {NULL}],
           NEW a \in 0 .. n, \A k \in a + 1 .. n : nx[w[k]] = At(w, n, k + 1)
    PROVE  /\ ChainOf(nx, At(w, n, a + 1)) = Suffix(w, n, a)
           /\ Len(Suffix(w, n, a)) = n - a
           /\ \A k \in 1 .. n - a : Suffix(w, n, a)[k] = w[a + k]
<1>1. n \in 0 .. Size /\ w \in [1 .. n -> Node] BY Sizes, ArrangedOnce
<1>2. ChainOf(nx, At(w, n, a + 1)) = Suffix(w, n, a) BY <1>1, ChainFrom
<1>3. Len(Suffix(w, n, a)) = n - a
  <2>1. n - a \in Nat /\ \A k \in 1 .. n - a : a + k \in 1 .. n OBVIOUS
  <2>2. \A k \in 1 .. n - a : w[a + k] \in Node BY <1>1, <2>1
  <2>3. Suffix(w, n, a) \in [1 .. n - a -> Node] BY <2>2 DEF Suffix
  <2> HIDE DEF Suffix
  <2> QED BY <2>1, <2>3
<1>4. \A k \in 1 .. n - a : Suffix(w, n, a)[k] = w[a + k] BY DEF Suffix
<1> QED BY <1>2, <1>3, <1>4

\* q is put behind the run at p.
LEMMA RunStarts ==
    ASSUME NEW n \in 1 .. Size, NEW w \in Arranged(n), NEW nx \in [Node -> Node \cup {NULL}],
           NEW s \in MsTypes, s.insize > 0, NEW a \in 0 .. n, NEW b \in 0 .. n,
           Sorted(nx, s, w, n, a, b), ~Busy(s), s.p # NULL,
           NEW run, run = (IF n - a < s.insize THEN n - a ELSE s.insize),
           NEW s1, s1.tail = s.tail, s1.head = s.head, s1.p = s.p, s1.insize = s.insize,
           s1.nmerges = s.nmerges + 1, s1.psize = run, s1.qsize = s.insize,
           s1.q = IF run = n - a THEN NULL ELSE w[a + run + 1]
    PROVE  /\ a = b /\ a < n /\ s.p = w[a + 1] /\ run \in 1 .. n - a
           /\ Sorted(nx, s1, w, n, a, a + run)
           /\ Leads(s, w, n, a, b) => Leads(s1, w, n, a, a + run)
<1>1. a = b /\ s.p = At(w, n, a + 1) /\ a < n /\ s.p = w[a + 1] BY DEF Sorted, At
<1>2. s.insize \in Nat /\ s.nmerges \in Nat BY DEF MsTypes
<1>3. run \in 1 .. n - a /\ a + run \in 1 .. n /\ a < a + run BY <1>1, <1>2
<1>4. Busy(s1) BY <1>3 DEF Busy
<1>5. s1.q = At(w, n, a + run + 1)
  <2>1. run = n - a <=> a + run + 1 \notin 1 .. n BY <1>3
  <2> QED BY <2>1 DEF At
<1>6. Linked(nx, w, n, {a, a + run}) BY <1>1 DEF Sorted, Linked
<1>7. Sorted(nx, s1, w, n, a, a + run)
  <2>1. a + run - a = run /\ a <= a + run BY <1>3
  <2> QED BY <2>1, <1>1, <1>4, <1>5, <1>6 DEF Sorted
<1>8. ASSUME Leads(s, w, n, a, b) PROVE Leads(s1, w, n, a, a + run)
  <2>1. Reach(s) = a BY <1>1, <1>8 DEF Leads
  <2>2. Reach(s1) = Reach(s) + 2 * s.insize
    <3>1. ASSUME NEW x \in Nat, NEW m \in Nat PROVE (m + 1) * x = m * x + x BY SMT
    <3>2. 2 * s.insize \in Nat BY <1>2
    <3> QED BY <3>1, <3>2, <1>2 DEF Reach
  <2>3. Reach(s1) = a + 2 * s.insize /\ Start(s1) = a BY <2>1, <2>2, <1>2 DEF Start
  <2>4. a + run <= Reach(s1) BY <2>3, <1>2
  <2>5. a + run < n => run = s.insize BY <1>1, <1>2
  <2>6. a + run < n => Reach(s1) = a + run + s1.qsize BY <2>3, <2>5, <1>2
  <2>7. ASSUME NEW k \in 1 .. n, w[k] = 0
        PROVE  /\ k <= a => Multiple(k - 1, 2 * s1.insize)
               /\ a < k /\ k <= a + run => k = a + 1 /\ a = Start(s1)
               /\ a + run < k => \/ k = a + run + 1 /\ a = Start(s1) /\ s1.qsize > 0
                                 \/ k > a + run + s1.qsize /\ Multiple(k - 1, s1.insize)
    <3>1. k <= a => Multiple(k - 1, 2 * s.insize) BY <2>7, <1>8 DEF Leads
    <3>2. k > a => Multiple(k - 1, s.insize) BY <2>7, <1>1, <1>8 DEF Leads
    <3>3. k > a => \/ k - 1 = a \/ k - 1 = a + s.insize \/ k - 1 >= a + 2 * s.insize
      <4>1. SUFFICES ASSUME k > a
                     PROVE  \/ k - 1 = a \/ k - 1 = a + s.insize \/ k - 1 >= a + 2 * s.insize
        OBVIOUS
      <4>2. PICK c \in Nat : k - 1 = c * s.insize BY <4>1, <3>2 DEF Multiple
      <4>3. a = (s.nmerges * 2) * s.insize
        <5>1. ASSUME NEW x \in Nat, NEW m \in Nat PROVE m * (2 * x) = (m * 2) * x BY SMT
        <5> QED BY <5>1, <2>1, <1>2 DEF Reach
      <4>4. PICK d \in Nat : a = d * s.insize
        <5>1. s.nmerges * 2 \in Nat BY <1>2
        <5> QED BY <4>3, <5>1
      <4>5. c * s.insize >= d * s.insize BY <4>1, <4>2, <4>4
      <4> QED BY <4>2, <4>4, <4>5, <1>2, MultiplesApart
    <3> QED BY <3>1, <3>2, <3>3, <2>3, <2>5, <1>2, <1>3
  <2> QED BY <2>4, <2>6, <2>7, <1>4 DEF Leads
<1> QED BY <1>1, <1>3, <1>7, <1>8

\* All is sorted, and the last element becomes the end of the list.
Ended(nx, last) == [nx EXCEPT ![last] = NULL]

LEMMA PassEnds ==
    ASSUME NEW n \in 1 .. Size, NEW w \in Arranged(n), NEW nx \in [Node -> Node \cup {NULL}],
           NEW s \in MsTypes, s.insize > 0, NEW a \in 0 .. n, NEW b \in 0 .. n,
           Sorted(nx, s, w, n, a, b), ~Busy(s), s.p = NULL
    PROVE  /\ a = n /\ b = n /\ s.head = w[1] /\ s.tail = w[n]
           /\ Ended(nx, s.tail) \in [Node -> Node \cup {NULL}]
           /\ Linked(Ended(nx, s.tail), w, n, {})
<1>1. /\ w \in [1 .. n -> Node] /\ \A k \in 1 .. n : w[k] \in Node /\ w[k] # NULL
      /\ \A j, k \in 1 .. n : w[j] = w[k] => j = k
  BY ArrangedOnce
<1>2. a = b /\ s.p = At(w, n, a + 1) BY DEF Sorted
<1>3. a = n BY <1>1, <1>2 DEF At
<1>4. s.head = w[1] /\ s.tail = w[n] BY <1>3 DEF Sorted, At
<1> DEFINE nx1 == [nx EXCEPT ![s.tail] = NULL]
<1>5. nx1 \in [Node -> Node \cup {NULL}] BY <1>1, <1>4
<1>6. ASSUME NEW k \in 1 .. n PROVE nx1[w[k]] = At(w, n, k + 1)
  <2>1. CASE k = n BY <2>1, <1>1, <1>4 DEF At
  <2>2. CASE k # n
    <3>1. nx1[w[k]] = nx[w[k]] BY <2>2, <1>1, <1>4
    <3>2. nx[w[k]] = At(w, n, k + 1) BY <2>2, <1>2, <1>3 DEF Sorted, Linked
    <3> QED BY <3>1, <3>2
  <2> QED BY <2>1, <2>2
<1>7. Linked(nx1, w, n, {}) BY <1>6 DEF Linked
<1> QED BY <1>2, <1>3, <1>4, <1>5, <1>7 DEF Ended

\* Another pass.
LEMMA PassStarts ==
    ASSUME NEW n \in 1 .. Size, NEW w \in Arranged(n), NEW nx, Linked(nx, w, n, {}),
           NEW s \in MsTypes, ~Busy(s), s.head = w[1],
           NEW s1, s1.p = s.head, s1.head = NULL, s1.tail = NULL, s1.nmerges = 0,
           s1.insize = 2 * s.insize, s1.psize = s.psize, s1.qsize = s.qsize, s1.q = s.q
    PROVE  /\ Sorted(nx, s1, w, n, 0, 0)
           /\ Leads(s, w, n, n, n) => Leads(s1, w, n, 0, 0)
<1>1. ~Busy(s1) BY DEF Busy
<1>2. s1.psize = 0 /\ s.insize \in Nat
  <2>1. s.psize \in Nat /\ s.insize \in Nat BY DEF MsTypes
  <2> QED BY <2>1 DEF Busy
<1>3. At(w, n, 0) = NULL /\ At(w, n, 1) = w[1] BY DEF At
<1>4. Linked(nx, w, n, {0, 0})
  <2>1. \A k \in 1 .. n : nx[w[k]] = At(w, n, k + 1) BY DEF Linked
  <2> QED BY <2>1, Zenon DEF Linked
<1>5. Sorted(nx, s1, w, n, 0, 0)
  <2>1. 0 + 1 = 1 /\ 0 - 0 = 0 /\ 0 <= 0 /\ ~(0 < 0) /\ ~(0 > 0) OBVIOUS
  <2> QED BY <2>1, <1>1, <1>2, <1>3, <1>4 DEF Sorted
<1>6. ASSUME Leads(s, w, n, n, n) PROVE Leads(s1, w, n, 0, 0)
  <2>1. Reach(s1) = 0 BY <1>2 DEF Reach
  <2>2. \A k \in 1 .. n : w[k] = 0 => Multiple(k - 1, s1.insize) BY <1>6 DEF Leads
  <2> QED BY <2>1, <2>2, <1>1 DEF Leads
<1> QED BY <1>5, <1>6

\* After the last pass node 0 is the head.
LEMMA HeadIsFirst ==
    ASSUME NEW n \in 1 .. Size, NEW w \in Arranged(n), NEW s \in MsTypes, s.insize > 0,
           Leads(s, w, n, n, n), s.nmerges <= 1
    PROVE  w[1] = 0
<1>1. s.insize \in Nat /\ s.nmerges \in Nat BY DEF MsTypes
<1>2. n <= 2 * s.insize
  <2>1. CASE s.nmerges = 0
    <3>1. Reach(s) = 0 BY <2>1, <1>1 DEF Reach
    <3> QED BY <3>1, <1>1 DEF Leads
  <2>2. CASE s.nmerges = 1
    <3>1. Reach(s) = 2 * s.insize BY <2>2, <1>1 DEF Reach
    <3> QED BY <3>1, <1>1 DEF Leads
  <2> QED BY <2>1, <2>2, <1>1
<1>3. PICK k \in 1 .. n : w[k] = 0
  <2>1. 0 \in 0 .. n - 1 OBVIOUS
  <2> QED BY <2>1 DEF Arranged
<1>4. PICK c \in Nat : k - 1 = c * (2 * s.insize)
  <2>1. Multiple(k - 1, 2 * s.insize) BY <1>3 DEF Leads
  <2> QED BY <2>1 DEF Multiple
<1>5. c = 0
  <2>1. ASSUME c >= 1 PROVE FALSE
    <3>1. 2 * s.insize \in Nat BY <1>1
    <3>2. 1 * (2 * s.insize) <= c * (2 * s.insize) BY <2>1, <3>1, TimesMonotonic
    <3> QED BY <3>1, <3>2, <1>2, <1>4
  <2> QED BY <2>1
<1>6. k = 1 BY <1>1, <1>4, <1>5
<1> QED BY <1>3, <1>6

----------------------------------------------------------------------------
(* The order inside the runs, for any relation R of nodes. *)

\* A run may begin between two places: a multiple of its length lies there.
Apart(j, k, m) == \E x \in j .. k - 1 : Multiple(x, m)

\* How far the runs merged and the two being merged reach.
Reaches(s, n, a, b) ==
    /\ Start(s) <= a /\ b <= Reach(s)
    /\ b < n => Reach(s) = IF Busy(s) THEN b + s.qsize ELSE b

\* The elements of one run are in order: of a merged run, of the two runs being
\* merged but for one of p and one of q, and of a run that waits.
Ordered(R, s, w, n, a, b) ==
    \A j, k \in 1 .. n : j < k =>
       /\ k <= Start(s) /\ ~Apart(j, k, 2 * s.insize) => <<w[j], w[k]>> \in R
       /\ Start(s) < j /\ k <= Reach(s) /\ ~(a < j /\ j <= b /\ b < k) => <<w[j], w[k]>> \in R
       /\ Reach(s) < j /\ ~Apart(j, k, s.insize) => <<w[j], w[k]>> \in R

\* What a comparison does to the order: what is in order stays so, and of the
\* two compared the one taken goes first.
Compared(R, R1, p, q, fromP) ==
    /\ R \subseteq R1
    /\ fromP => <<p, q>> \in R1
    /\ ~fromP => <<q, p>> \in R1
Transitive(R) == \A x, y, z : <<x, y>> \in R /\ <<y, z>> \in R => <<x, z>> \in R

LEMMA ReachIs ==
    ASSUME NEW s \in MsTypes
    PROVE  Reach(s) \in Nat /\ Start(s) \in Int
<1>1. s.nmerges \in Nat /\ 2 * s.insize \in Nat BY DEF MsTypes
<1>2. Reach(s) \in Nat
  <2>1. ASSUME NEW x \in Nat, NEW y \in Nat PROVE x * y \in Nat BY SMT
  <2> QED BY <2>1, <1>1 DEF Reach
<1> QED BY <1>1, <1>2 DEF Start

LEMMA ReachesFromP ==
    ASSUME NEW n \in 1 .. Size, NEW w \in Arranged(n), NEW nx,
           NEW s \in MsTypes, NEW a \in 0 .. n, NEW b \in 0 .. n,
           Sorted(nx, s, w, n, a, b), a < b, Reaches(s, n, a, b),
           NEW s1, s1.psize = s.psize - 1, s1.qsize = s.qsize, s1.q = s.q,
           s1.insize = s.insize, s1.nmerges = s.nmerges
    PROVE  Reaches(s1, n, a + 1, b)
<1>1. Busy(s) /\ s.q = At(w, n, b + 1) /\ s.psize = b - a BY DEF Sorted, Busy
<1>2. Reach(s1) = Reach(s) /\ Start(s1) = Start(s) BY DEF Reach, Start
<1>3. s.qsize \in Nat /\ Start(s) \in Int BY ReachIs DEF MsTypes
<1>4. b < n => s.q # NULL
  <2>1. \A k \in 1 .. n : w[k] # NULL BY ArrangedOnce
  <2>2. ASSUME b < n PROVE s.q = w[b + 1] /\ b + 1 \in 1 .. n BY <2>2, <1>1 DEF At
  <2> QED BY <2>1, <2>2
<1>5. b < n => Reach(s1) = IF Busy(s1) THEN b + s1.qsize ELSE b
  <2>1. ASSUME b < n PROVE Reach(s) = b + s.qsize BY <2>1, <1>1 DEF Reaches
  <2>2. ASSUME b < n, ~Busy(s1) PROVE s.qsize = 0 BY <2>2, <1>3, <1>4 DEF Busy
  <2> QED BY <2>1, <2>2, <1>2
<1>6. Start(s1) <= a + 1 /\ b <= Reach(s1) BY <1>2, <1>3 DEF Reaches
<1> QED BY <1>5, <1>6 DEF Reaches

LEMMA OrderedFromP ==
    ASSUME NEW n \in 1 .. Size, NEW w \in Arranged(n), NEW nx,
           NEW s \in MsTypes, NEW a \in 0 .. n, NEW b \in 0 .. n,
           Sorted(nx, s, w, n, a, b), a < b, Reaches(s, n, a, b),
           NEW R, NEW R1, R \subseteq R1, Transitive(R1), Ordered(R, s, w, n, a, b),
           s.qsize > 0 /\ s.q # NULL => <<s.p, s.q>> \in R1,
           NEW s1, s1.insize = s.insize, s1.nmerges = s.nmerges
    PROVE  Ordered(R1, s1, w, n, a + 1, b)
<1>1. Busy(s) /\ s.q = At(w, n, b + 1) /\ s.p = w[a + 1] BY DEF Sorted, Busy
<1>2. Reach(s1) = Reach(s) /\ Start(s1) = Start(s) BY DEF Reach, Start
<1>3. s.qsize \in Nat /\ Start(s) \in Int /\ Reach(s) \in Nat BY ReachIs DEF MsTypes
<1>4. Start(s) <= a /\ (b < n => Reach(s) = b + s.qsize) BY <1>1 DEF Reaches
<1>5. ASSUME NEW j \in 1 .. n, NEW k \in 1 .. n, j < k
      PROVE  /\ k <= Start(s) /\ ~Apart(j, k, 2 * s.insize) => <<w[j], w[k]>> \in R
             /\ Start(s) < j /\ k <= Reach(s) /\ ~(a < j /\ j <= b /\ b < k) => <<w[j], w[k]>> \in R
             /\ Reach(s) < j /\ ~Apart(j, k, s.insize) => <<w[j], w[k]>> \in R
  BY <1>5 DEF Ordered
<1>6. ASSUME NEW k \in 1 .. n, b < k, k <= Reach(s) PROVE <<w[a + 1], w[k]>> \in R1
  <2>1. b + 1 \in 1 .. n /\ s.q = w[b + 1] /\ b < n BY <1>1, <1>6 DEF At
  <2>2. s.q # NULL BY <2>1, ArrangedOnce
  <2>3. s.qsize > 0 BY <2>1, <1>3, <1>4, <1>6
  <2>4. <<w[a + 1], w[b + 1]>> \in R1 BY <2>1, <2>2, <2>3, <1>1
  <2>5. CASE k = b + 1 BY <2>4, <2>5
  <2>6. CASE k # b + 1
    <3>1. b + 1 < k /\ Start(s) < b + 1 /\ ~(b + 1 <= b) BY <2>6, <1>3, <1>4, <1>6
    <3>2. <<w[b + 1], w[k]>> \in R1 BY <3>1, <2>1, <1>5, <1>6
    <3> QED BY <3>2, <2>4 DEF Transitive
  <2> QED BY <2>5, <2>6
<1>7. ASSUME NEW j \in 1 .. n, NEW k \in 1 .. n, j < k,
             Start(s) < j, k <= Reach(s), ~(a + 1 < j /\ j <= b /\ b < k)
      PROVE  <<w[j], w[k]>> \in R1
  <2>1. CASE j = a + 1 /\ b < k BY <2>1, <1>6, <1>7
  <2>2. CASE ~(j = a + 1 /\ b < k)
    <3>1. ~(a < j /\ j <= b /\ b < k) BY <2>2, <1>7
    <3> QED BY <3>1, <1>5, <1>7
  <2> QED BY <2>1, <2>2
<1>8. ASSUME NEW j \in 1 .. n, NEW k \in 1 .. n, j < k
      PROVE  /\ k <= Start(s1) /\ ~Apart(j, k, 2 * s1.insize) => <<w[j], w[k]>> \in R1
             /\ Start(s1) < j /\ k <= Reach(s1) /\ ~(a + 1 < j /\ j <= b /\ b < k)
                   => <<w[j], w[k]>> \in R1
             /\ Reach(s1) < j /\ ~Apart(j, k, s1.insize) => <<w[j], w[k]>> \in R1
  BY <1>2, <1>5, <1>7, <1>8
<1> QED BY <1>8 DEF Ordered

LEMMA ReachesFromQ ==
    ASSUME NEW n \in 1 .. Size, NEW w \in Arranged(n), NEW nx,
           NEW s \in MsTypes, NEW a \in 0 .. n, NEW b \in 0 .. n, b + 1 \in 1 .. n,
           Sorted(nx, s, w, n, a, b), s.qsize > 0, s.q # NULL, Reaches(s, n, a, b),
           NEW s1, s1.psize = s.psize, s1.qsize = s.qsize - 1, s1.q = At(w, n, b + 2),
           s1.insize = s.insize, s1.nmerges = s.nmerges
    PROVE  Reaches(s1, n, a + 1, b + 1)
<1>1. Busy(s) BY DEF Busy
<1>2. Reach(s1) = Reach(s) /\ Start(s1) = Start(s) BY DEF Reach, Start
<1>3. s.qsize \in Nat /\ s.psize \in Nat /\ Start(s) \in Int BY ReachIs DEF MsTypes
<1>4. Reach(s) = b + s.qsize /\ Start(s) <= a BY <1>1 DEF Reaches
<1>5. b + 1 < n => s1.q # NULL
  <2>1. \A k \in 1 .. n : w[k] # NULL BY ArrangedOnce
  <2>2. ASSUME b + 1 < n PROVE s1.q = w[b + 2] /\ b + 2 \in 1 .. n BY <2>2 DEF At
  <2> QED BY <2>1, <2>2
<1>6. b + 1 < n => Reach(s1) = IF Busy(s1) THEN b + 1 + s1.qsize ELSE b + 1
  <2>1. ASSUME b + 1 < n, ~Busy(s1) PROVE s.qsize = 1 BY <2>1, <1>3, <1>5 DEF Busy
  <2>2. b + 1 + s1.qsize = b + s.qsize BY <1>3
  <2> QED BY <2>1, <2>2, <1>2, <1>4
<1>7. Start(s1) <= a + 1 /\ b + 1 <= Reach(s1) BY <1>2, <1>3, <1>4
<1> QED BY <1>6, <1>7 DEF Reaches

LEMMA OrderedFromQ ==
    ASSUME NEW n \in 1 .. Size, NEW w \in Arranged(n), NEW nx,
           NEW s \in MsTypes, NEW a \in 0 .. n, NEW b \in 0 .. n, b + 1 \in 1 .. n,
           Sorted(nx, s, w, n, a, b), s.qsize > 0, s.q # NULL, Reaches(s, n, a, b),
           NEW R, NEW R1, R \subseteq R1, Transitive(R1), Ordered(R, s, w, n, a, b),
           s.psize > 0 => <<s.q, s.p>> \in R1,
           NEW s1, s1.insize = s.insize, s1.nmerges = s.nmerges
    PROVE  Ordered(R1, s1, Moved(w, n, a + 1, b + 1), n, a + 1, b + 1)
<1> DEFINE v == Moved(w, n, a + 1, b + 1)
<1>1. /\ Busy(s) /\ s.q = At(w, n, b + 1) /\ s.psize = b - a /\ a <= b
      /\ (a < b => s.p = w[a + 1]) /\ s.q = w[b + 1]
  BY DEF Sorted, Busy, At
<1>2. Reach(s1) = Reach(s) /\ Start(s1) = Start(s) BY DEF Reach, Start
<1>3. s.qsize \in Nat /\ Start(s) \in Int /\ Reach(s) \in Nat BY ReachIs DEF MsTypes
<1>4. Start(s) <= a /\ b + 1 <= Reach(s) BY <1>1, <1>3 DEF Reaches
<1>5. ASSUME NEW j \in 1 .. n, NEW k \in 1 .. n, j < k
      PROVE  /\ k <= Start(s) /\ ~Apart(j, k, 2 * s.insize) => <<w[j], w[k]>> \in R
             /\ Start(s) < j /\ k <= Reach(s) /\ ~(a < j /\ j <= b /\ b < k) => <<w[j], w[k]>> \in R
             /\ Reach(s) < j /\ ~Apart(j, k, s.insize) => <<w[j], w[k]>> \in R
  BY <1>5 DEF Ordered
<1>6. /\ \A k \in 1 .. a : v[k] = w[k]
      /\ v[a + 1] = w[b + 1]
      /\ \A k \in a + 2 .. b + 1 : v[k] = w[k - 1]
      /\ \A k \in b + 2 .. n : v[k] = w[k]
  BY <1>1 DEF Moved
<1> HIDE DEF v
<1>7. ASSUME NEW k \in a + 1 .. b PROVE <<w[b + 1], w[k]>> \in R1
  <2>1. <<w[b + 1], w[a + 1]>> \in R1 /\ a + 1 \in 1 .. n /\ k \in 1 .. n BY <1>1
  <2>2. CASE k = a + 1 BY <2>1, <2>2
  <2>3. CASE k # a + 1
    <3>1. a + 1 < k /\ Start(s) < a + 1 /\ k <= Reach(s) /\ ~(b < k) BY <2>3, <1>3, <1>4
    <3>2. <<w[a + 1], w[k]>> \in R1 BY <3>1, <2>1, <1>5
    <3> QED BY <3>2, <2>1 DEF Transitive
  <2> QED BY <2>2, <2>3
<1>8. ASSUME NEW j \in 1 .. n, NEW k \in 1 .. n, j < k, Start(s) < j, k <= Reach(s),
             ~(a + 1 < j /\ j <= b + 1 /\ b + 1 < k)
      PROVE  <<v[j], v[k]>> \in R1
  <2>1. CASE k <= a
    <3>1. v[j] = w[j] /\ v[k] = w[k] BY <2>1, <1>6, <1>8
    <3> QED BY <3>1, <2>1, <1>5, <1>8
  <2>2. CASE k = a + 1
    <3>1. v[j] = w[j] /\ v[k] = w[b + 1] BY <2>2, <1>6, <1>8
    <3>2. j < b + 1 /\ ~(a < j) BY <2>2, <1>1, <1>8
    <3> QED BY <3>1, <3>2, <1>4, <1>5, <1>8
  <2>3. CASE k \in a + 2 .. b + 1
    <3>1. v[k] = w[k - 1] /\ k - 1 \in 1 .. n /\ k - 1 <= Reach(s) /\ ~(b < k - 1)
      BY <2>3, <1>3, <1>4, <1>6
    <3>2. CASE j <= a
      <4>1. v[j] = w[j] /\ j < k - 1 BY <3>2, <2>3, <1>6
      <4> QED BY <4>1, <3>1, <1>5, <1>8
    <3>3. CASE j = a + 1
      <4>1. v[j] = w[b + 1] /\ k - 1 \in a + 1 .. b BY <3>3, <2>3, <1>6
      <4> QED BY <4>1, <3>1, <1>7
    <3>4. CASE j \in a + 2 .. b + 1
      <4>1. v[j] = w[j - 1] /\ j - 1 \in 1 .. n /\ j - 1 < k - 1 /\ Start(s) < j - 1
        BY <3>4, <1>3, <1>4, <1>6, <1>8
      <4> QED BY <4>1, <3>1, <1>5
    <3> QED BY <3>2, <3>3, <3>4, <2>3, <1>8
  <2>4. CASE k \in b + 2 .. n
    <3>1. v[k] = w[k] /\ b < k BY <2>4, <1>6
    <3>2. CASE j <= a
      <4>1. v[j] = w[j] BY <3>2, <1>6
      <4> QED BY <4>1, <3>1, <3>2, <1>5, <1>8
    <3>3. CASE j = a + 1
      <4>1. v[j] = w[b + 1] /\ b + 1 < k /\ Start(s) < b + 1 /\ ~(b + 1 <= b)
        BY <3>3, <2>4, <1>1, <1>3, <1>4, <1>6
      <4> QED BY <4>1, <3>1, <1>5, <1>8
    <3>4. CASE j \in b + 2 .. n
      <4>1. v[j] = w[j] /\ ~(j <= b) BY <3>4, <1>6
      <4> QED BY <4>1, <3>1, <1>5, <1>8
    <3>5. ~(j \in a + 2 .. b + 1) BY <2>4, <1>8
    <3> QED BY <3>2, <3>3, <3>4, <3>5, <1>1
  <2> QED BY <2>1, <2>2, <2>3, <2>4, <1>1
<1>9. ASSUME NEW j \in 1 .. n, NEW k \in 1 .. n, j < k
      PROVE  /\ k <= Start(s1) /\ ~Apart(j, k, 2 * s1.insize) => <<v[j], v[k]>> \in R1
             /\ Start(s1) < j /\ k <= Reach(s1) /\ ~(a + 1 < j /\ j <= b + 1 /\ b + 1 < k)
                   => <<v[j], v[k]>> \in R1
             /\ Reach(s1) < j /\ ~Apart(j, k, s1.insize) => <<v[j], v[k]>> \in R1
  <2>1. k <= Start(s) => v[j] = w[j] /\ v[k] = w[k] BY <1>3, <1>4, <1>6, <1>9
  <2>2. Reach(s) < j => v[j] = w[j] /\ v[k] = w[k] BY <1>3, <1>4, <1>6, <1>9
  <2> QED BY <2>1, <2>2, <1>2, <1>5, <1>8, <1>9
<1> QED BY <1>9 DEF Ordered, v

\* Behind a multiple of m, two places within the next m are not apart.
LEMMA SameRun ==
    ASSUME NEW m \in Nat, m > 0, NEW u \in Nat, Multiple(u, m), NEW j \in Nat, NEW k \in Nat,
           u < j, k <= u + m
    PROVE  ~Apart(j, k, m)
<1> SUFFICES ASSUME NEW x \in j .. k - 1, Multiple(x, m) PROVE FALSE BY DEF Apart
<1>1. PICK c \in Nat : x = c * m BY DEF Multiple
<1>2. PICK d \in Nat : u = d * m BY DEF Multiple
<1>3. x \in Nat /\ u < x /\ x < u + m OBVIOUS
<1>4. c * m >= d * m BY <1>1, <1>2, <1>3
<1> HIDE DEF Multiple
<1>5. x = u \/ x = u + m \/ x >= u + 2 * m BY <1>1, <1>2, <1>4, MultiplesApart
<1> QED BY <1>3, <1>5

LEMMA ReachMultiple ==
    ASSUME NEW s \in MsTypes
    PROVE  Multiple(Reach(s), s.insize)
<1>1. s.nmerges \in Nat /\ s.insize \in Nat BY DEF MsTypes
<1>2. ASSUME NEW x \in Nat, NEW m \in Nat PROVE m * (2 * x) = (m * 2) * x BY SMT
<1>3. Reach(s) = (s.nmerges * 2) * s.insize /\ s.nmerges * 2 \in Nat BY <1>1, <1>2 DEF Reach
<1> QED BY <1>3 DEF Multiple

\* The merges begun, all finished, have merged what they reach.
LEMMA MergedRuns ==
    ASSUME NEW n \in 1 .. Size, NEW w, NEW s \in MsTypes, s.insize > 0, NEW a \in 0 .. n,
           NEW R, Ordered(R, s, w, n, a, a),
           NEW j \in 1 .. n, NEW k \in 1 .. n, j < k, k <= Reach(s), ~Apart(j, k, 2 * s.insize)
    PROVE  <<w[j], w[k]>> \in R
<1>1. Start(s) \in Int BY ReachIs
<1>2. /\ k <= Start(s) /\ ~Apart(j, k, 2 * s.insize) => <<w[j], w[k]>> \in R
      /\ Start(s) < j /\ k <= Reach(s) /\ ~(a < j /\ j <= a /\ a < k) => <<w[j], w[k]>> \in R
  BY DEF Ordered
<1>3. ~(j <= Start(s) /\ Start(s) < k)
  <2> SUFFICES ASSUME j <= Start(s), Start(s) < k PROVE FALSE OBVIOUS
  <2>1. Start(s) >= 0 /\ Start(s) \in j .. k - 1 BY <1>1
  <2>2. Multiple(Start(s), 2 * s.insize) BY <2>1, StartIsMultiple
  <2> QED BY <2>1, <2>2 DEF Apart
<1> QED BY <1>1, <1>2, <1>3

LEMMA OrderedRunStarts ==
    ASSUME NEW n \in 1 .. Size, NEW w \in Arranged(n),
           NEW s \in MsTypes, s.insize > 0, NEW a \in 0 .. n, a < n, ~Busy(s), Reaches(s, n, a, a),
           NEW run, run = (IF n - a < s.insize THEN n - a ELSE s.insize),
           NEW R, Ordered(R, s, w, n, a, a),
           NEW s1, s1.insize = s.insize, s1.nmerges = s.nmerges + 1, s1.psize = run,
           s1.qsize = s.insize
    PROVE  Reaches(s1, n, a, a + run) /\ Ordered(R, s1, w, n, a, a + run)
<1>1. s.insize \in Nat /\ s.nmerges \in Nat BY DEF MsTypes
<1>2. run \in 1 .. n - a /\ run <= s.insize /\ (a + run < n => run = s.insize) BY <1>1
<1>3. Reach(s) = a BY DEF Reaches
<1>4. Reach(s1) = a + 2 * s.insize /\ Start(s1) = a
  <2>1. ASSUME NEW x \in Nat, NEW m \in Nat PROVE (m + 1) * x = m * x + x BY SMT
  <2>2. 2 * s.insize \in Nat BY <1>1
  <2>3. Reach(s1) = Reach(s) + 2 * s.insize BY <2>1, <2>2, <1>1 DEF Reach
  <2> QED BY <2>3, <1>1, <1>3 DEF Start
<1>5. Reaches(s1, n, a, a + run)
  <2>1. Busy(s1) BY <1>2 DEF Busy
  <2>2. a + run <= Reach(s1) /\ (a + run < n => Reach(s1) = a + run + s1.qsize)
    BY <1>1, <1>2, <1>4
  <2> QED BY <2>1, <2>2, <1>4 DEF Reaches
<1>6. Multiple(a, s.insize) BY <1>3, ReachMultiple
<1>7. ASSUME NEW j \in 1 .. n, NEW k \in 1 .. n, j < k, a < j, k <= a + 2 * s.insize,
             ~(j <= a + run /\ a + run < k)
      PROVE  <<w[j], w[k]>> \in R
  <2>1. ~Apart(j, k, s.insize)
    <3>1. CASE k <= a + run
      <4>1. k <= a + s.insize BY <3>1, <1>1, <1>2
      <4> QED BY <4>1, <1>1, <1>6, <1>7, SameRun
    <3>2. CASE ~(k <= a + run)
      <4>1. a + s.insize < j /\ k <= a + s.insize + s.insize BY <3>2, <1>1, <1>2, <1>7
      <4>2. Multiple(a + s.insize, s.insize)
        <5>1. PICK c \in Nat : a = c * s.insize BY <1>6 DEF Multiple
        <5>2. ASSUME NEW x \in Nat, NEW m \in Nat PROVE (m + 1) * x = m * x + x BY SMT
        <5>3. (c + 1) * s.insize = c * s.insize + s.insize BY <5>2, <1>1
        <5>4. a + s.insize = (c + 1) * s.insize /\ c + 1 \in Nat BY <5>1, <5>3
        <5> QED BY <5>4 DEF Multiple
      <4>3. a + s.insize \in Nat BY <1>1
      <4> QED BY <4>1, <4>2, <4>3, <1>1, SameRun
    <3> QED BY <3>1, <3>2
  <2> QED BY <2>1, <1>3, <1>7 DEF Ordered
<1>8. ASSUME NEW j \in 1 .. n, NEW k \in 1 .. n, j < k
      PROVE  /\ k <= a /\ ~Apart(j, k, 2 * s1.insize) => <<w[j], w[k]>> \in R
             /\ a < j /\ k <= a + 2 * s.insize /\ ~(a < j /\ j <= a + run /\ a + run < k)
                   => <<w[j], w[k]>> \in R
             /\ a + 2 * s.insize < j /\ ~Apart(j, k, s1.insize) => <<w[j], w[k]>> \in R
  <2>1. k <= a /\ ~Apart(j, k, 2 * s.insize) => <<w[j], w[k]>> \in R BY <1>3, <1>8, MergedRuns
  <2>2. a + 2 * s.insize < j /\ ~Apart(j, k, s.insize) => <<w[j], w[k]>> \in R
    <3>1. a + 2 * s.insize < j => Reach(s) < j BY <1>1, <1>3
    <3> QED BY <3>1, <1>8 DEF Ordered
  <2> QED BY <2>1, <2>2, <1>7, <1>8
<1>9. Ordered(R, s1, w, n, a, a + run) BY <1>4, <1>8 DEF Ordered
<1> QED BY <1>5, <1>9

\* The runs of the next pass are those merged.
LEMMA OrderedPassStarts ==
    ASSUME NEW n \in 1 .. Size, NEW w \in Arranged(n), NEW s \in MsTypes, s.insize > 0, ~Busy(s),
           Reaches(s, n, n, n), NEW R, Ordered(R, s, w, n, n, n),
           NEW s1, s1.nmerges = 0, s1.insize = 2 * s.insize,
           s1.psize = s.psize, s1.qsize = s.qsize, s1.q = s.q
    PROVE  Reaches(s1, n, 0, 0) /\ Ordered(R, s1, w, n, 0, 0)
<1>1. s.insize \in Nat BY DEF MsTypes
<1>2. Reach(s1) = 0 /\ Start(s1) < 0 /\ Start(s1) \in Int BY <1>1 DEF Reach, Start
<1>3. ~Busy(s1) BY DEF Busy
<1>4. Reaches(s1, n, 0, 0) BY <1>2, <1>3 DEF Reaches
<1>5. Reach(s) \in Nat /\ n <= Reach(s) BY ReachIs DEF Reaches
<1>6. ASSUME NEW j \in 1 .. n, NEW k \in 1 .. n, j < k
      PROVE  /\ k <= Start(s1) /\ ~Apart(j, k, 2 * s1.insize) => <<w[j], w[k]>> \in R
             /\ Start(s1) < j /\ k <= Reach(s1) /\ ~(0 < j /\ j <= 0 /\ 0 < k) => <<w[j], w[k]>> \in R
             /\ Reach(s1) < j /\ ~Apart(j, k, s1.insize) => <<w[j], w[k]>> \in R
  <2>1. ~Apart(j, k, s1.insize) => <<w[j], w[k]>> \in R
    <3>1. n \in 0 .. n /\ k <= Reach(s) BY <1>5
    <3> QED BY <3>1, <1>6, MergedRuns
  <2> QED BY <2>1, <1>2
<1>7. Ordered(R, s1, w, n, 0, 0) BY <1>6 DEF Ordered
<1> QED BY <1>4, <1>7

\* A pass of one merge leaves everything in order.
LEMMA OrderedEnds ==
    ASSUME NEW n \in 1 .. Size, NEW w \in Arranged(n), NEW s \in MsTypes, s.insize > 0,
           Reaches(s, n, n, n), NEW R, Ordered(R, s, w, n, n, n), s.nmerges <= 1
    PROVE  \A j, k \in 1 .. n : j < k => <<w[j], w[k]>> \in R
<1>1. s.insize \in Nat /\ s.nmerges \in Nat BY DEF MsTypes
<1>2. n <= Reach(s) /\ Start(s) <= 0
  <2>1. CASE s.nmerges = 0
    <3>1. Reach(s) = 0 BY <2>1, <1>1 DEF Reach
    <3> QED BY <3>1, <1>1 DEF Reaches
  <2>2. CASE s.nmerges = 1
    <3>1. Reach(s) = 2 * s.insize BY <2>2, <1>1 DEF Reach
    <3> QED BY <3>1, <1>1 DEF Reaches, Start
  <2> QED BY <2>1, <2>2, <1>1
<1>3. Reach(s) \in Nat /\ Start(s) \in Int BY ReachIs
<1>4. ASSUME NEW j \in 1 .. n, NEW k \in 1 .. n, j < k PROVE <<w[j], w[k]>> \in R
  <2>1. Start(s) < j /\ k <= Reach(s) /\ ~(n < j /\ j <= n /\ n < k) BY <1>2, <1>3
  <2> QED BY <2>1, <1>4 DEF Ordered
<1> QED BY <1>4

\* At the start of a sort each element is a run of its own.
LEMMA OrderedStarts ==
    ASSUME NEW n \in 1 .. Size, NEW w, NEW R, NEW s,
           s.insize = 1, s.nmerges = 0, s.psize = 0, s.qsize = 0
    PROVE  Reaches(s, n, 0, 0) /\ Ordered(R, s, w, n, 0, 0)
<1>1. Reach(s) = 0 /\ Start(s) = -2 /\ ~Busy(s) BY DEF Reach, Start, Busy
<1>2. Reaches(s, n, 0, 0) BY <1>1 DEF Reaches
<1>3. ASSUME NEW j \in 1 .. n, NEW k \in 1 .. n, j < k PROVE Apart(j, k, s.insize)
  <2>1. j \in Nat /\ j = j * 1 /\ j \in j .. k - 1 BY <1>3
  <2> QED BY <2>1 DEF Apart, Multiple
<1>4. Ordered(R, s, w, n, 0, 0) BY <1>1, <1>3 DEF Ordered
<1> QED BY <1>2, <1>4

\* Whether a comparison has been at a datum, which it leaves rebuilt or cached;
\* and what it compares.
Known(c, d) == IF c = "idx" THEN d.lo = d.hi ELSE d.lo >= 128
Key(c, d) == IF c = "idx" THEN d.idx ELSE d.lo

\* The pairs of nodes whose data have been compared with and are in order.
InOrder(c, dt) ==
    {r \in Node \X Node : /\ Known(c, dt[r[1]]) /\ Known(c, dt[r[2]])
                          /\ Key(c, dt[r[1]]) <= Key(c, dt[r[2]])}

LEMMA InOrderPair ==
    ASSUME NEW c, NEW dt, NEW x \in Node, NEW y \in Node
    PROVE  <<x, y>> \in InOrder(c, dt) <=>
              Known(c, dt[x]) /\ Known(c, dt[y]) /\ Key(c, dt[x]) <= Key(c, dt[y])
<1>1. <<x, y>> \in Node \X Node /\ <<x, y>>[1] = x /\ <<x, y>>[2] = y OBVIOUS
<1> QED BY <1>1, Zenon DEF InOrder

LEMMA InOrderTransitive ==
    ASSUME NEW c, NEW dt \in [Node -> Datum]
    PROVE  Transitive(InOrder(c, dt))
<1> SUFFICES ASSUME NEW x, NEW y, NEW z, <<x, y>> \in InOrder(c, dt), <<y, z>> \in InOrder(c, dt)
             PROVE  <<x, z>> \in InOrder(c, dt)
  BY DEF Transitive
<1>1. x \in Node /\ y \in Node /\ z \in Node BY DEF InOrder
<1>2. \A n \in Node : Key(c, dt[n]) \in Nat
  <2>1. ASSUME NEW d \in Datum PROVE Key(c, d) \in Nat BY MaxIdxIs DEF Key, Datum
  <2> QED BY <2>1
<1>3. /\ Known(c, dt[x]) /\ Known(c, dt[y]) /\ Known(c, dt[z])
      /\ Key(c, dt[x]) <= Key(c, dt[y]) /\ Key(c, dt[y]) <= Key(c, dt[z])
  BY <1>1, InOrderPair
<1>4. Key(c, dt[x]) <= Key(c, dt[z]) BY <1>1, <1>2, <1>3
<1> QED BY <1>1, <1>3, <1>4, InOrderPair

----------------------------------------------------------------------------
(* The list between the sorts. *)

Listed(w) == w \in Arranged(free) /\ Linked(next, w, free, {}) /\ list = w[1]

LEMMA ListChain ==
    ASSUME free \in 1 .. Size, next \in [Node -> Node \cup {NULL}], NEW w, Listed(w)
    PROVE  Chain(list) = w /\ Len(w) = free /\ DOMAIN w = 1 .. free
<1>1. w \in Arranged(free) /\ \A k \in 1 .. free : next[w[k]] = At(w, free, k + 1)
  BY DEF Listed, Linked
<1>2. free \in Nat /\ free >= 1 BY Sizes
<1>3. At(w, free, 0 + 1) = list BY <1>2 DEF Listed, At
<1>4. ChainOf(next, At(w, free, 0 + 1)) = Suffix(w, free, 0)
  <2>1. 0 \in 0 .. free /\ \A k \in 0 + 1 .. free : next[w[k]] = At(w, free, k + 1) BY <1>1, <1>2
  <2> QED BY <2>1, <1>1, RestOf
<1>5. w \in [1 .. free -> Node] BY <1>1, ArrangedOnce
<1>6. Suffix(w, free, 0) = w
  <2>1. free - 0 = free /\ \A k \in 1 .. free : 0 + k = k BY <1>2
  <2>2. w = [k \in 1 .. free |-> w[k]] BY <1>5
  <2> QED BY <2>1, <2>2 DEF Suffix
<1>7. Len(w) = free BY <1>2, <1>5
<1> QED BY <1>3, <1>4, <1>5, <1>6, <1>7 DEF Chain

LEMMA ReversedIs ==
    ASSUME free \in 1 .. Size, next \in [Node -> Node \cup {NULL}], NEW w, Listed(w)
    PROVE  /\ Reversed \in [Node -> Node \cup {NULL}]
           /\ \A k \in 1 .. free : Reversed[w[k]] = IF k = 1 THEN NULL ELSE w[k - 1]
<1>1. /\ w \in [1 .. free -> Node] /\ \A k \in 1 .. free : w[k] \in Node /\ w[k] # NULL
      /\ \A j, k \in 1 .. free : w[j] = w[k] => j = k
  BY ArrangedOnce DEF Listed
<1>2. Chain(list) = w /\ DOMAIN w = 1 .. free BY ListChain
<1> DEFINE Ix(m) == CHOOSE k \in 1 .. free : w[k] = m
<1>3. Reversed = [m \in Node |-> IF \A k \in 1 .. free : w[k] # m THEN next[m]
                                 ELSE IF Ix(m) = 1 THEN NULL ELSE w[Ix(m) - 1]]
  <2> DEFINE R(c, D) == [m \in Node |->
                 IF \A k \in D : c[k] # m THEN next[m]
                 ELSE IF (CHOOSE k \in D : c[k] = m) = 1 THEN NULL
                 ELSE c[(CHOOSE k \in D : c[k] = m) - 1]]
  <2>1. Reversed = R(Chain(list), DOMAIN Chain(list)) BY Zenon DEF Reversed
  <2>2. R(w, 1 .. free) = [m \in Node |-> IF \A k \in 1 .. free : w[k] # m THEN next[m]
                                 ELSE IF Ix(m) = 1 THEN NULL ELSE w[Ix(m) - 1]]
    BY Zenon
  <2> HIDE DEF R, Ix
  <2> QED BY <2>1, <2>2, <1>2, Zenon
<1>4. \A k \in 1 .. free : Ix(w[k]) = k BY <1>1
<1> HIDE DEF Ix
<1>5. ASSUME NEW k \in 1 .. free PROVE Reversed[w[k]] = IF k = 1 THEN NULL ELSE w[k - 1]
  BY <1>1, <1>3, <1>4
<1>6. ASSUME NEW m \in Node PROVE Reversed[m] \in Node \cup {NULL}
  <2>1. CASE \A k \in 1 .. free : w[k] # m BY <2>1, <1>3
  <2>2. CASE \E k \in 1 .. free : w[k] = m
    <3>1. PICK k \in 1 .. free : w[k] = m BY <2>2
    <3>2. k # 1 => k - 1 \in 1 .. free BY Sizes
    <3> QED BY <3>1, <3>2, <1>1, <1>5
  <2> QED BY <2>1, <2>2
<1>7. Reversed = [m \in Node |-> Reversed[m]] BY <1>3, Zenon
<1> QED BY <1>5, <1>6, <1>7

LEMMA TurnedLinked ==
    ASSUME free \in 1 .. Size, next \in [Node -> Node \cup {NULL}], NEW w, Listed(w)
    PROVE  /\ Turned(w, free) \in Arranged(free) /\ Linked(Reversed, Turned(w, free), free, {})
           /\ Turned(w, free)[1] = w[free]
<1>1. free \in Nat /\ free >= 1 /\ w \in Arranged(free) BY Sizes DEF Listed
<1>2. \A k \in 1 .. free : Turned(w, free)[k] = w[free + 1 - k] /\ free + 1 - k \in 1 .. free
  BY <1>1 DEF Turned
<1>3. ASSUME NEW k \in 1 .. free
      PROVE  Reversed[Turned(w, free)[k]] = At(Turned(w, free), free, k + 1)
  <2>1. Reversed[w[free + 1 - k]] = IF free + 1 - k = 1 THEN NULL ELSE w[free + 1 - k - 1]
    BY <1>2, ReversedIs
  <2>2. CASE k = free BY <2>1, <2>2, <1>1, <1>2 DEF At
  <2>3. CASE k # free
    <3>1. k + 1 \in 1 .. free /\ free + 1 - (k + 1) = free + 1 - k - 1 /\ free + 1 - k # 1
      BY <2>3, <1>1
    <3> QED BY <3>1, <2>1, <1>2 DEF At
  <2> QED BY <2>2, <2>3
<1>4. Turned(w, free)[1] = w[free]
  <2>1. 1 \in 1 .. free /\ free + 1 - 1 = free BY <1>1
  <2> QED BY <2>1, <1>2
<1>5. Turned(w, free) \in Arranged(free) BY <1>1, TurnedArranged
<1> QED BY <1>3, <1>4, <1>5 DEF Linked

\* What core_bench_list does to the pointers, to move the element f behind the
\* one found to the second place.
Second(r, this, f, head) ==
    LET r1 == [r EXCEPT ![this] = r[f]]
        r2 == [r1 EXCEPT ![f] = r1[head]]
    IN  [r2 EXCEPT ![head] = f]

LEMMA SecondLinked ==
    ASSUME NEW n \in 1 .. Size, NEW t \in Arranged(n), NEW r \in [Node -> Node \cup {NULL}],
           Linked(r, t, n, {}), NEW m \in 1 .. n - 1
    PROVE  /\ Second(r, t[m], t[m + 1], t[1]) \in [Node -> Node \cup {NULL}]
           /\ Moved(t, n, 2, m + 1) \in Arranged(n)
           /\ Moved(t, n, 2, m + 1)[1] = t[1]
           /\ Linked(Second(r, t[m], t[m + 1], t[1]), Moved(t, n, 2, m + 1), n, {})
<1>a. PICK r1 : r1 = [r EXCEPT ![t[m]] = r[t[m + 1]]] OBVIOUS
<1>b. PICK r2 : r2 = [r1 EXCEPT ![t[m + 1]] = r1[t[1]]] OBVIOUS
<1>c. PICK r3 : r3 = [r2 EXCEPT ![t[1]] = t[m + 1]] OBVIOUS
<1>d. r3 = Second(r, t[m], t[m + 1], t[1]) BY <1>a, <1>b, <1>c, Zenon DEF Second
<1>1. /\ t \in [1 .. n -> Node] /\ \A k \in 1 .. n : t[k] \in Node /\ t[k] # NULL
      /\ \A j, k \in 1 .. n : t[j] = t[k] => j = k
  BY ArrangedOnce
<1>2. n \in Nat /\ 1 \in 1 .. n /\ 2 \in 1 .. n /\ m \in 1 .. n /\ m + 1 \in 1 .. n /\ 2 <= m + 1
  BY Sizes
<1>3. \A k \in 1 .. n : r[t[k]] = At(t, n, k + 1) BY DEF Linked
<1>4. r1 \in [Node -> Node \cup {NULL}] BY <1>1, <1>2, <1>a
<1>5. r2 \in [Node -> Node \cup {NULL}] BY <1>1, <1>2, <1>4, <1>b
<1>6. r3 \in [Node -> Node \cup {NULL}] BY <1>1, <1>2, <1>5, <1>c
<1>7. /\ r3[t[1]] = t[m + 1]
      /\ r3[t[m + 1]] = r1[t[1]]
      /\ m # 1 => r3[t[m]] = At(t, n, m + 2) /\ r1[t[1]] = t[2]
      /\ m = 1 => r1[t[1]] = At(t, n, 3)
      /\ \A k \in 1 .. n : k \notin {1, m, m + 1} => r3[t[k]] = At(t, n, k + 1)
  <2>1. r[t[m + 1]] = At(t, n, m + 2) /\ r[t[1]] = t[2]
    <3>1. m + 1 + 1 = m + 2 /\ 1 + 1 = 2 OBVIOUS
    <3> QED BY <3>1, <1>2, <1>3 DEF At
  <2>2. t[1] # t[m + 1] /\ t[m] # t[m + 1] /\ (m # 1 => t[1] # t[m]) BY <1>1, <1>2
  <2>3. r1[t[m]] = At(t, n, m + 2) /\ (m # 1 => r1[t[1]] = t[2]) BY <2>1, <2>2, <1>1, <1>2, <1>a
  <2>4. m = 1 => r1[t[1]] = At(t, n, 3)
    <3>1. m = 1 => m + 2 = 3 OBVIOUS
    <3> QED BY <3>1, <2>3
  <2>5. r3[t[1]] = t[m + 1] /\ r3[t[m + 1]] = r1[t[1]] BY <2>2, <1>1, <1>2, <1>4, <1>5, <1>b, <1>c
  <2>6. m # 1 => r3[t[m]] = At(t, n, m + 2) BY <2>2, <2>3, <1>1, <1>2, <1>4, <1>5, <1>b, <1>c
  <2>7. ASSUME NEW k \in 1 .. n, k \notin {1, m, m + 1} PROVE r3[t[k]] = At(t, n, k + 1)
    <3>1. t[k] # t[1] /\ t[k] # t[m] /\ t[k] # t[m + 1] BY <2>7, <1>1, <1>2
    <3>2. r3[t[k]] = r[t[k]] BY <3>1, <1>1, <1>4, <1>5, <1>a, <1>b, <1>c
    <3> QED BY <3>2, <1>3
  <2> QED BY <2>3, <2>4, <2>5, <2>6, <2>7
<1> DEFINE v == Moved(t, n, 2, m + 1)
<1>8. v \in Arranged(n)
  <2>1. ASSUME NEW x \in 1 .. n, NEW y \in 1 .. n, x <= y PROVE Moved(t, n, x, y) \in Arranged(n)
    BY <2>1, <1>2, MovedArranged
  <2> QED BY <2>1, <1>2
<1>9. /\ v[1] = t[1] /\ v[2] = t[m + 1]
      /\ \A k \in 3 .. m + 1 : v[k] = t[k - 1]
      /\ \A k \in m + 2 .. n : v[k] = t[k]
  BY <1>2 DEF Moved
<1> HIDE DEF v
<1>10. \A k \in m + 1 .. n : At(t, n, k + 1) = At(v, n, k + 1)
  BY <1>2, <1>9 DEF At
<1>11. ASSUME NEW k \in 1 .. n PROVE r3[v[k]] = At(v, n, k + 1)
  <2>1. CASE k = 1
    <3>1. k + 1 = 2 BY <2>1
    <3> QED BY <3>1, <2>1, <1>2, <1>7, <1>9 DEF At
  <2>2. CASE k = 2 /\ m = 1
    <3>1. k \in m + 1 .. n /\ k + 1 = 3 BY <2>2
    <3>2. r3[v[2]] = At(t, n, 3) BY <2>2, <1>7, <1>9
    <3> QED BY <3>1, <3>2, <2>2, <1>10
  <2>3. CASE k = 2 /\ m # 1
    <3>1. k + 1 = 3 /\ 3 \in 3 .. m + 1 /\ 3 \in 1 .. n /\ 3 - 1 = 2 BY <2>3, <1>2
    <3>2. v[3] = t[2] BY <3>1, <1>9
    <3> QED BY <3>1, <3>2, <2>3, <1>7, <1>9 DEF At
  <2>4. CASE k \in 3 .. m
    <3>1. v[k] = t[k - 1] /\ k - 1 \in 1 .. n /\ k - 1 \notin {1, m, m + 1} /\ k - 1 + 1 = k
      BY <2>4, <1>9
    <3>2. r3[v[k]] = t[k] BY <3>1, <1>7 DEF At
    <3>3. k + 1 \in 3 .. m + 1 /\ k + 1 - 1 = k /\ k + 1 \in 1 .. n BY <2>4, <1>2
    <3>4. v[k + 1] = t[k] BY <3>3, <1>9
    <3> QED BY <3>2, <3>3, <3>4 DEF At
  <2>5. CASE k = m + 1 /\ m # 1
    <3>1. k \in 3 .. m + 1 /\ k - 1 = m /\ k + 1 = m + 2 /\ k \in m + 1 .. n BY <2>5, <1>2
    <3>2. r3[v[k]] = At(t, n, m + 2) BY <3>1, <2>5, <1>7, <1>9
    <3> QED BY <3>1, <3>2, <1>10
  <2>6. CASE k \in m + 2 .. n
    <3>1. v[k] = t[k] /\ k \notin {1, m, m + 1} /\ k \in m + 1 .. n BY <2>6, <1>9
    <3> QED BY <3>1, <1>7, <1>10
  <2>7. k = 1 \/ k = 2 \/ k \in 3 .. m \/ (k = m + 1 /\ m # 1) \/ k \in m + 2 .. n
    BY <1>2
  <2> QED BY <2>1, <2>2, <2>3, <2>4, <2>5, <2>6, <2>7
<1>12. Linked(r3, v, n, {}) BY <1>11 DEF Linked
<1> QED BY <1>6, <1>8, <1>9, <1>12, <1>d DEF v

LEMMA FindIs ==
    ASSUME free \in 1 .. Size, next \in [Node -> Node \cup {NULL}], NEW w, Listed(w),
           NEW idx, NEW dat
    PROVE  Find(idx, dat) = NULL \/ \E k \in 1 .. free : Find(idx, dat) = w[k]
<1> DEFINE hits == {k \in 1 .. free : IF idx >= 0 THEN data[info[w[k]]].idx = idx
                                      ELSE data[info[w[k]]].lo = dat}
           F(c, D) == LET h == {k \in D : IF idx >= 0 THEN data[info[c[k]]].idx = idx
                                         ELSE data[info[c[k]]].lo = dat}
                      IN  IF h = {} THEN NULL ELSE c[CHOOSE k \in h : \A j \in h : k <= j]
<1>1. Chain(list) = w /\ DOMAIN w = 1 .. free BY ListChain
<1>2. Find(idx, dat) = F(Chain(list), DOMAIN Chain(list)) BY Zenon DEF Find
<1>3. F(w, 1 .. free) = IF hits = {} THEN NULL ELSE w[CHOOSE k \in hits : \A j \in hits : k <= j]
  BY Zenon
<1>4. hits \in SUBSET Nat /\ hits \subseteq 1 .. free BY Sizes
<1> HIDE DEF F, hits
<1>5. CASE hits = {} BY <1>1, <1>2, <1>3, <1>5
<1>6. CASE hits # {}
  <2>1. \E k \in hits : \A j \in hits : k <= j BY <1>4, <1>6, LeastExists
  <2>2. (CHOOSE k \in hits : \A j \in hits : k <= j) \in hits BY <2>1
  <2> QED BY <1>1, <1>2, <1>3, <1>4, <1>6, <2>2
<1> QED BY <1>5, <1>6

----------------------------------------------------------------------------
(* The inductive invariant. *)

Types == TypeOK /\ cfg.seed1 \in FirstSeeds /\ cfg.find \in Nat

\* Only the fake head has index 0.
Indices == data[0].idx = 0 /\ \A n \in 1 .. free - 1 : data[n].idx > 0

Early == pc \in {"insert", "index", "inited"} \/ (pc = "sort" /\ ms.then = "inited")

\* What each stage of the program has reached.
Stage ==
    /\ pc = "insert" => /\ i \in -1 .. Size - 1
                        /\ free = (IF i + 2 < Size - 1 THEN i + 2 ELSE Size - 1)
    /\ pc # "insert" => free = Size - 1
    /\ pc = "find" => i \in 0 .. cfg.find
    /\ pc # "end" => iter < Iterations
    /\ pc # "undo" => info = [n \in Node |-> n]
    /\ resList = IF Early THEN NULL ELSE 0
    /\ pc \in {"insert", "index", "inited", "listdone", "end"} => list = 0

\* Between remove and undo the third element is out of the list and has the
\* datum of the second one.
Unlinked(w) ==
    /\ w \in Arranged(free) /\ list = w[1] /\ remover = w[3]
    /\ Linked(next, w, free, {2, 3}) /\ next[w[2]] = At(w, free, 4) /\ next[w[3]] = NULL
    /\ info = [n \in Node |-> IF n = w[2] THEN w[3] ELSE IF n = w[3] THEN w[2] ELSE n]

\* The runs are as long as the passes so far make them, and each in order.
Ranked(dt, s, w, n, a, b) ==
    Reaches(s, n, a, b) /\ Ordered(InOrder(s.cmp, dt), s, w, n, a, b)

Sorting(w, a, b) ==
    /\ w \in Arranged(free) /\ a \in 0 .. free /\ b \in 0 .. free
    /\ ms \in MsTypes /\ ms.insize > 0 /\ (ms.cmp = "idx" <=> ms.then # "remove")
    /\ Sorted(next, ms, w, free, a, b)
    /\ ms.cmp = "idx" => Leads(ms, w, free, a, b)
    /\ Ranked(data, ms, w, free, a, b)

Shape ==
    /\ pc \notin {"sort", "undo"} => \E w : Listed(w)
    /\ pc = "undo" => \E w : Unlinked(w)
    /\ pc = "sort" => \E w, a, b : Sorting(w, a, b)

IInv == Types /\ Indices /\ Stage /\ Shape

LEMMA TypedState ==
    ASSUME TypeOK
    PROVE  /\ next \in [Node -> Node \cup {NULL}] /\ info \in [Node -> Node]
           /\ free \in 1 .. Size - 1 /\ free \in 1 .. Size /\ list \in Node
           /\ resList \in Node \cup {NULL} /\ remover \in Node \cup {NULL}
           /\ arg \in {-1, 1} /\ iter \in 0 .. Iterations /\ i \in -1 .. Size + cfg.find
           /\ pc \in {"insert", "index", "sort", "inited", "find", "remove", "undo", "listdone", "end"}
           /\ data \in [Node -> Datum]
<1>1. free \in 1 .. Size - 1 BY SMT DEF TypeOK
<1>2. free \in 1 .. Size BY <1>1, Sizes
<1> QED BY <1>1, <1>2, Zenon DEF TypeOK

LEMMA InitIInv == Init => IInv
<1> SUFFICES ASSUME Init PROVE IInv OBVIOUS
<1>1. PICK run \in Runs : cfg = Seeds(run) BY DEF Init
<1>2. cfg.seed1 \in FirstSeeds /\ cfg.find \in Nat BY <1>1, SeedsAre
<1>3. \A n \in Node : data[n] = FakeHead BY DEF Init
<1>4. FakeHead \in Datum /\ FakeHead.idx = 0 BY MaxIdxIs DEF FakeHead, Datum
<1>5. data \in [Node -> Datum] BY <1>4 DEF Init
<1>6. 0 \in Node /\ Size \in Nat /\ Size >= 4 BY Sizes
<1>7. TypeOK
  <2>1. next \in [Node -> Node \cup {NULL}] /\ info \in [Node -> Node] BY DEF Init
  <2>3. free \in 1 .. Size - 1 /\ list \in Node BY <1>6, SMT DEF Init
  <2>4. {resList, remover} \subseteq Node \cup {NULL} BY DEF Init
  <2>5. iter \in 0 .. Iterations
    <3>1. Iterations \in Nat BY CoreMarkAssumption, SMT
    <3>2. iter = 0 BY DEF Init
    <3> QED BY <3>1, <3>2
  <2>6. i \in -1 .. Size + cfg.find
    <3>1. i = -1 BY Zenon DEF Init
    <3>2. Size + cfg.find \in Nat BY <1>2, <1>6
    <3> QED BY <3>1, <3>2
  <2>7. arg \in {-1, 1} BY DEF Init
  <2>8. pc \in {"insert", "index", "sort", "inited", "find", "remove", "undo", "listdone", "end"}
    BY Zenon DEF Init
  <2> QED BY <1>5, <2>1, <2>3, <2>4, <2>5, <2>6, <2>7, <2>8, Zenon DEF TypeOK
<1>8. Types BY <1>2, <1>7, Zenon DEF Types
<1>9. Indices BY <1>3, <1>4, <1>6, SMT DEF Indices, Init
<1>10. Stage
  <2>1. pc = "insert" /\ i = -1 /\ free = 1 /\ iter = 0 /\ resList = NULL /\ list = 0
        /\ info = [n \in Node |-> n]
    BY DEF Init
  <2>2. 0 < Iterations BY CoreMarkAssumption, SMT
  <2>3. i \in -1 .. Size - 1 /\ free = (IF i + 2 < Size - 1 THEN i + 2 ELSE Size - 1)
    BY <2>1, <1>6
  <2>4. Early BY <2>1 DEF Early
  <2> QED BY <2>1, <2>2, <2>3, <2>4 DEF Stage
<1>11. Listed([k \in 1 .. 1 |-> 0])
  <2> DEFINE w == [k \in 1 .. 1 |-> 0]
  <2>1. free = 1 /\ list = 0 /\ next[0] = NULL BY <1>6 DEF Init
  <2>2. w \in Arranged(1)
    <3>1. w \in [1 .. 1 -> 0 .. 1 - 1] OBVIOUS
    <3>2. \A j, k \in 1 .. 1 : w[j] = w[k] => j = k OBVIOUS
    <3>3. \A m \in 0 .. 1 - 1 : \E k \in 1 .. 1 : w[k] = m OBVIOUS
    <3> HIDE DEF w
    <3> QED BY <3>1, <3>2, <3>3, Zenon DEF Arranged
  <2>3. Linked(next, w, 1, {}) BY <2>1 DEF Linked, At
  <2> QED BY <2>1, <2>2, <2>3 DEF Listed
<1>12. Shape
  <2>1. pc = "insert" BY DEF Init
  <2>2. \E w : Listed(w) BY <1>11, Zenon
  <2> QED BY <2>1, <2>2 DEF Shape
<1> QED BY <1>8, <1>9, <1>10, <1>12 DEF IInv

----------------------------------------------------------------------------
(* The invariant is inductive. *)

\* The type invariant and the seeds after a step, put together.
LEMMA TypesNext ==
    ASSUME Types, cfg' = cfg,
           next' \in [Node -> Node \cup {NULL}], info' \in [Node -> Node], data' \in [Node -> Datum],
           free' \in 1 .. Size - 1, list' \in Node, resList' \in Node \cup {NULL},
           remover' \in Node \cup {NULL}, arg' \in {-1, 1}, iter' \in 0 .. Iterations,
           i' \in -1 .. Size + cfg.find,
           pc' \in {"insert", "index", "sort", "inited", "find", "remove", "undo", "listdone", "end"}
    PROVE  Types'
<1>1. (cfg.seed1 \in FirstSeeds)' /\ (cfg.find \in Nat)' BY DEF Types
<1>2. {resList', remover'} \subseteq Node \cup {NULL} OBVIOUS
<1>3. i' \in -1 .. Size + cfg'.find OBVIOUS
<1>4. TypeOK' BY <1>2, <1>3, Zenon DEF TypeOK
<1> QED BY <1>1, <1>4 DEF Types

LEMMA BeginStep == IInv /\ Begin => IInv'
<1> SUFFICES ASSUME IInv, Begin PROVE IInv' OBVIOUS
<1>1. /\ pc = "inited" /\ resList' = list /\ pc' = "find" /\ i' = 0
      /\ cfg' = cfg /\ next' = next /\ info' = info /\ data' = data /\ free' = free
      /\ list' = list /\ remover' = remover /\ arg' = arg /\ iter' = iter /\ ms' = ms
  BY DEF Begin, heap
<1>2. Types /\ Indices /\ Stage /\ Shape BY DEF IInv
<1>3. cfg.find \in Nat BY <1>2 DEF Types
<1>4. Types'
  <2>1. i' \in -1 .. Size + cfg.find BY <1>1, <1>3, Sizes
  <2>2. TypeOK BY <1>2 DEF Types
  <2> QED BY <2>1, <2>2, <1>1, <1>2, TypedState, TypesNext
<1>5. Indices' BY <1>1, <1>2 DEF Indices
<1>6. Stage'
  <2>1. free = Size - 1 /\ iter < Iterations /\ info = [n \in Node |-> n] /\ list = 0
    BY <1>1, <1>2 DEF Stage
  <2>2. ~Early' BY <1>1 DEF Early
  <2>3. i' \in 0 .. cfg.find BY <1>1, <1>3
  <2> QED BY <2>1, <2>2, <2>3, <1>1 DEF Stage
<1>7. Shape'
  <2>1. PICK w : Listed(w) BY <1>1, <1>2 DEF Shape
  <2>2. Listed(w)' BY <2>1, <1>1 DEF Listed
  <2> QED BY <2>2, <1>1 DEF Shape
<1> QED BY <1>4, <1>5, <1>6, <1>7 DEF IInv

\* A sort begins with nothing sorted yet.
LEMMA SortingStarts ==
    ASSUME free' \in 1 .. Size, NEW w, Listed(w)',
           NEW c \in {"idx", "complex"}, NEW t \in {"inited", "remove", "listdone"},
           c = "idx" <=> t # "remove", StartSort(c, t, list')
    PROVE  Shape' /\ pc' = "sort" /\ ms'.then = t
<1> DEFINE s == [cmp |-> c, then |-> t, head |-> NULL, p |-> w[1], q |-> NULL, tail |-> NULL,
                 insize |-> 1, nmerges |-> 0, psize |-> 0, qsize |-> 0]
<1>1. pc' = "sort" /\ list' = w[1] /\ w \in Arranged(free') /\ Linked(next', w, free', {})
  BY DEF StartSort, Listed
<1>2. ms' = s
  <2>1. ms' = [NoSort EXCEPT !.cmp = c, !.then = t, !.p = w[1], !.insize = 1]
    BY <1>1, Zenon DEF StartSort
  <2> QED BY <2>1, NewSort
<1> HIDE DEF s
<1>3. /\ ms' \in MsTypes /\ ms'.insize > 0 /\ ms'.cmp = c /\ ms'.then = t
      /\ Sorted(next', ms', w, free', 0, 0) /\ Leads(ms', w, free', 0, 0)
      /\ Ranked(data', ms', w, free', 0, 0)
  <2>1. ASSUME NEW n \in 1 .. Size, w \in Arranged(n), NEW nx, Linked(nx, w, n, {}), NEW r, r = s
        PROVE  /\ r \in MsTypes /\ r.insize > 0 /\ r.cmp = c /\ r.then = t
               /\ Sorted(nx, r, w, n, 0, 0) /\ Leads(r, w, n, 0, 0)
    BY <2>1, SortStarts DEF s
  <2>2. ASSUME NEW n \in 1 .. Size, NEW r, r = s, NEW dt PROVE Ranked(dt, r, w, n, 0, 0)
    BY <2>2, OrderedStarts DEF s, Ranked
  <2> QED BY <2>1, <2>2, <1>1, <1>2
<1>4. Sorting(w, 0, 0)'
  <2>1. 0 \in 0 .. free' OBVIOUS
  <2>2. ms'.cmp = "idx" <=> ms'.then # "remove" BY <1>3
  <2> QED BY <1>1, <1>3, <2>1, <2>2, Zenon DEF Sorting
<1>5. \E x, a, b : Sorting(x, a, b)' BY <1>4, Zenon
<1> QED BY <1>1, <1>3, <1>5 DEF Shape

LEMMA SortDataStep == IInv /\ SortData => IInv'
<1> SUFFICES ASSUME IInv, SortData PROVE IInv' OBVIOUS
<1>1. /\ pc = "find" /\ pc' \in {"sort", "remove"} /\ i' = i
      /\ cfg' = cfg /\ next' = next /\ info' = info /\ data' = data /\ free' = free
      /\ list' = list /\ resList' = resList /\ remover' = remover /\ arg' = arg /\ iter' = iter
      /\ pc' = "sort" => StartSort("complex", "remove", list)
  BY DEF SortData, heap, StartSort
<1>2. Types /\ Indices /\ Stage /\ Shape BY DEF IInv
<1>3. TypeOK BY <1>2 DEF Types
<1>4. Types' BY <1>1, <1>2, <1>3, TypedState, TypesNext
<1>5. Indices' BY <1>1, <1>2 DEF Indices
<1>6. Shape' /\ (pc' = "sort" => ms'.then = "remove")
  <2>1. PICK w : Listed(w) BY <1>1, <1>2 DEF Shape
  <2>2. Listed(w)' BY <2>1, <1>1 DEF Listed
  <2>3. CASE pc' = "sort"
    <3>1. free' \in 1 .. Size BY <1>1, <1>3, TypedState
    <3>2. StartSort("complex", "remove", list') BY <2>3, <1>1
    <3> QED BY <2>2, <3>1, <3>2, SortingStarts
  <2>4. CASE pc' = "remove" BY <2>2, <2>4 DEF Shape
  <2> QED BY <2>3, <2>4, <1>1
<1>7. Stage'
  <2>1. free = Size - 1 /\ iter < Iterations /\ info = [n \in Node |-> n] BY <1>1, <1>2 DEF Stage
  <2>2. resList = 0 BY <1>1, <1>2 DEF Stage, Early
  <2>3. ~Early' BY <1>1, <1>6 DEF Early
  <2> QED BY <2>1, <2>2, <2>3, <1>1 DEF Stage
<1> QED BY <1>4, <1>5, <1>6, <1>7 DEF IInv

LEMMA ReturnStep == IInv /\ Return => IInv'
<1> SUFFICES ASSUME IInv, Return PROVE IInv' OBVIOUS
<1>1. /\ pc = "listdone" /\ pc' = (IF iter' = Iterations THEN "end" ELSE "find") /\ i' = 0
      /\ cfg' = cfg /\ next' = next /\ info' = info /\ data' = data /\ free' = free
      /\ list' = resList /\ resList' = resList /\ remover' = remover
      /\ arg' = -arg /\ iter' = (IF arg = 1 THEN iter ELSE iter + 1)
  BY DEF Return, heap
<1>2. Types /\ Indices /\ Stage /\ Shape BY DEF IInv
<1>3. TypeOK /\ cfg.find \in Nat BY <1>2 DEF Types
<1>4. /\ free = Size - 1 /\ iter < Iterations /\ info = [n \in Node |-> n]
      /\ resList = 0 /\ list = 0
  BY <1>1, <1>2 DEF Stage, Early
<1>5. iter' \in 0 .. Iterations /\ Iterations \in Nat
  <2>1. iter \in 0 .. Iterations BY <1>3, TypedState
  <2>2. Iterations \in Nat BY CoreMarkAssumption, SMT
  <2> QED BY <2>1, <2>2, <1>1, <1>4
<1>6. Types'
  <2>1. i' \in -1 .. Size + cfg.find BY <1>1, <1>3, Sizes
  <2>2. arg' \in {-1, 1}
    <3>1. arg \in {-1, 1} BY <1>3, TypedState
    <3> QED BY <3>1, <1>1
  <2> QED BY <2>1, <2>2, <1>1, <1>2, <1>3, <1>5, <1>4, TypedState, TypesNext
<1>7. Indices' BY <1>1, <1>2 DEF Indices
<1>8. Stage'
  <2>1. ~Early' BY <1>1 DEF Early
  <2>2. pc' # "end" => iter' < Iterations BY <1>1, <1>5
  <2>3. i' \in 0 .. cfg.find BY <1>1, <1>3
  <2>4. pc' \in {"end", "find"} BY <1>1
  <2> QED BY <2>1, <2>2, <2>3, <2>4, <1>1, <1>4 DEF Stage
<1>9. Shape'
  <2>1. PICK w : Listed(w) BY <1>1, <1>2 DEF Shape
  <2>2. Listed(w)' BY <2>1, <1>1, <1>4 DEF Listed
  <2>3. pc' \in {"end", "find"} BY <1>1
  <2> QED BY <2>2, <2>3 DEF Shape
<1> QED BY <1>6, <1>7, <1>8, <1>9 DEF IInv

LEMMA StutterStep == IInv /\ UNCHANGED vars => IInv'
<1> SUFFICES ASSUME IInv, UNCHANGED vars PROVE IInv' OBVIOUS
<1>1. /\ cfg' = cfg /\ next' = next /\ info' = info /\ data' = data /\ free' = free
      /\ list' = list /\ resList' = resList /\ remover' = remover /\ arg' = arg /\ iter' = iter
      /\ ms' = ms /\ pc' = pc /\ i' = i
  BY DEF vars, heap
<1>2. Types' /\ Indices' BY <1>1 DEF IInv, Types, TypeOK, Indices
<1>3. Stage' BY <1>1 DEF IInv, Stage, Early
<1>4. (\A w : Listed(w) => Listed(w)') /\ (\A w : Unlinked(w) => Unlinked(w)')
  BY <1>1 DEF Listed, Unlinked
<1>5. \A w, a, b : Sorting(w, a, b) => Sorting(w, a, b)' BY <1>1 DEF Sorting
<1>6. Shape' BY <1>1, <1>4, <1>5 DEF IInv, Shape
<1> QED BY <1>2, <1>3, <1>6 DEF IInv

\* core_list_insert_new puts the next free node behind the head.
LEMMA GrownLinked ==
    ASSUME NEW n \in 1 .. Size - 1, NEW w \in Arranged(n), NEW nx \in [Node -> Node \cup {NULL}],
           Linked(nx, w, n, {}), w[1] = 0,
           NEW nx1, nx1 = [nx EXCEPT ![n] = nx[0], ![0] = n]
    PROVE  /\ nx1 \in [Node -> Node \cup {NULL}]
           /\ Grown(w, n) \in Arranged(n + 1) /\ Grown(w, n)[1] = 0
           /\ Linked(nx1, Grown(w, n), n + 1, {})
<1> DEFINE v == Grown(w, n)
<1>1. n \in 1 .. Size /\ n \in Nat \ {0} /\ n \in Node /\ 0 \in Node /\ n # 0 BY Sizes
<1>2. /\ w \in [1 .. n -> Node] /\ \A k \in 1 .. n : w[k] \in Node /\ w[k] # NULL
      /\ \A j, k \in 1 .. n : w[j] = w[k] => j = k
  BY <1>1, ArrangedOnce
<1>3. \A k \in 1 .. n : w[k] # n BY DEF Arranged
<1>4. v \in Arranged(n + 1) BY <1>1, GrownArranged
<1>5. nx1 \in [Node -> Node \cup {NULL}] BY <1>1
<1>6. /\ v[1] = 0 /\ v[2] = n /\ \A k \in 3 .. n + 1 : v[k] = w[k - 1] /\ k - 1 \in 2 .. n
  BY <1>1 DEF Grown
<1> HIDE DEF v
<1>7. \A k \in 1 .. n : nx[w[k]] = At(w, n, k + 1) BY DEF Linked
<1>8. nx1[0] = n /\ nx1[n] = nx[0] /\ \A k \in 2 .. n : nx1[w[k]] = nx[w[k]]
  <2>1. \A k \in 2 .. n : w[k] # 0 /\ w[k] # n /\ w[k] \in Node
    <3>1. 1 \in 1 .. n /\ \A k \in 2 .. n : k \in 1 .. n /\ k # 1 BY <1>1
    <3> QED BY <3>1, <1>2, <1>3
  <2> QED BY <2>1, <1>1
<1>9. \A k \in 2 .. n + 1 : At(w, n, k) = At(v, n + 1, k + 1)
  <2>1. \A k \in 2 .. n + 1 : k + 1 \in 3 .. n + 1 <=> k \in 2 .. n BY <1>1
  <2>2. \A k \in 2 .. n : v[k + 1] = w[k]
    <3>1. \A k \in 2 .. n : k + 1 \in 3 .. n + 1 /\ k + 1 - 1 = k BY <1>1
    <3> QED BY <3>1, <1>6
  <2>3. \A k \in 2 .. n + 1 : k + 1 \in 1 .. n + 1 <=> k \in 1 .. n BY <1>1
  <2>4. \A k \in 2 .. n + 1 : k \in 1 .. n <=> k \in 2 .. n BY <1>1
  <2> QED BY <2>2, <2>3, <2>4 DEF At
<1>10. ASSUME NEW k \in 1 .. n + 1 PROVE nx1[v[k]] = At(v, n + 1, k + 1)
  <2>1. CASE k = 1
    <3>1. k + 1 = 2 /\ 2 \in 1 .. n + 1 BY <2>1, <1>1
    <3> QED BY <3>1, <2>1, <1>6, <1>8 DEF At
  <2>2. CASE k = 2
    <3>1. nx[0] = At(w, n, 2)
      <4>1. 1 \in 1 .. n /\ 1 + 1 = 2 BY <1>1
      <4> QED BY <4>1, <1>7
    <3>2. 2 \in 2 .. n + 1 BY <1>1
    <3> QED BY <3>1, <3>2, <2>2, <1>6, <1>8, <1>9
  <2>3. CASE k \in 3 .. n + 1
    <3>1. v[k] = w[k - 1] /\ k - 1 \in 2 .. n /\ k - 1 \in 1 .. n /\ k - 1 + 1 = k /\ k \in 2 .. n + 1
      BY <2>3, <1>6
    <3> QED BY <3>1, <1>7, <1>8, <1>9
  <2> QED BY <2>1, <2>2, <2>3
<1>11. Linked(nx1, v, n + 1, {}) BY <1>10 DEF Linked
<1> QED BY <1>4, <1>5, <1>6, <1>11 DEF v

LEMMA XorIsNat == \A x, y : Xor(x, y) \in Nat
<1> SUFFICES ASSUME NEW x, NEW y PROVE Xor(x, y) \in Nat OBVIOUS
<1> DEFINE d == [k \in 1 .. 16 |-> Bit(x, k) # Bit(y, k)]
<1>1. Xor(x, y) = OfBits(d) BY Zenon DEF Xor
<1> HIDE DEF d
<1>2. PICK h \in 0 .. 3, m \in Nat : AddsUp(d, h, m) BY OfBitsIs, SMT
<1> QED BY <1>1, <1>2, SMT DEF AddsUp

\* What core_list_init puts in: an index that is not negative, not 0, and bytes.
NewDatum(d) == d \in Datum /\ d.idx > 0

LEMMA ItemIsNew == i \in Int => NewDatum(Item)
<1> SUFFICES ASSUME i \in Int PROVE NewDatum(Item) OBVIOUS
<1> DEFINE dat == ((Xor(cfg.seed1, i) % 16) * 8) + (i % 8)
           item == [idx |-> MaxIdx, hi |-> dat, lo |-> dat]
<1>1. Item = IF i = -1 THEN FakeTail ELSE item BY SMT DEF Item
<1>2. NewDatum(FakeTail) BY MaxIdxIs DEF NewDatum, FakeTail, Datum
<1>3. dat \in 0 .. 255
  <2>1. Xor(cfg.seed1, i) \in Nat BY XorIsNat
  <2>2. ASSUME NEW x \in Nat PROVE (x % 16) * 8 + (i % 8) \in 0 .. 255 BY <2>2, SMT
  <2> QED BY <2>1, <2>2
<1> HIDE DEF dat
<1>4. NewDatum(item) BY <1>3, MaxIdxIs DEF NewDatum, Datum
<1> HIDE DEF item
<1> QED BY <1>1, <1>2, <1>4

LEMMA InsertStep == IInv /\ Insert => IInv'
<1> SUFFICES ASSUME IInv, Insert PROVE IInv' OBVIOUS
<1>1. /\ pc = "insert" /\ i' = i + 1 /\ pc' = (IF i' = Size THEN "index" ELSE "insert")
      /\ cfg' = cfg /\ list' = list /\ resList' = resList /\ remover' = remover
      /\ arg' = arg /\ iter' = iter
  BY Zenon DEF Insert
<1>2. Types /\ Indices /\ Stage /\ Shape BY DEF IInv
<1>3. TypeOK BY <1>2 DEF Types
<1>4. /\ i \in -1 .. Size - 1 /\ free = (IF i + 2 < Size - 1 THEN i + 2 ELSE Size - 1)
      /\ iter < Iterations /\ info = [n \in Node |-> n] /\ resList = NULL /\ list = 0
  BY <1>1, <1>2 DEF Stage, Early
<1>5. PICK d : NewDatum(d) /\ InsertNew(d)
  <2>1. i \in Int BY <1>4
  <2>2. InsertNew(Item) BY Zenon DEF Insert
  <2> QED BY <2>1, <2>2, ItemIsNew, Zenon
<1>6. PICK w : Listed(w) BY <1>1, <1>2 DEF Shape
<1>7. w \in Arranged(free) /\ Linked(next, w, free, {}) /\ w[1] = 0 BY <1>4, <1>6 DEF Listed
<1>8. /\ next \in [Node -> Node \cup {NULL}] /\ data \in [Node -> Datum] /\ free \in 1 .. Size - 1
      /\ free \in Node /\ free # 0
  BY <1>3, TypedState, Sizes
<1>9. /\ next' \in [Node -> Node \cup {NULL}] /\ data' \in [Node -> Datum]
      /\ info' = [n \in Node |-> n] /\ Indices' /\ (\E v : Listed(v)')
      /\ free' = (IF i' + 2 < Size - 1 THEN i' + 2 ELSE Size - 1)
  <2>1. CASE free + 1 >= Size
    <3>1. next' = next /\ info' = info /\ data' = data /\ free' = free BY <1>5, <2>1 DEF InsertNew, heap
    <3>2. free' = (IF i' + 2 < Size - 1 THEN i' + 2 ELSE Size - 1)
      BY <2>1, <3>1, <1>1, <1>4, <1>8, Sizes
    <3>3. Listed(w)' BY <3>1, <1>1, <1>6 DEF Listed
    <3>4. Indices' BY <3>1, <1>2 DEF Indices
    <3> QED BY <3>1, <3>2, <3>3, <3>4, <1>4, <1>8
  <2>2. CASE ~(free + 1 >= Size)
    <3>1. /\ next' = [next EXCEPT ![free] = next[0], ![0] = free]
          /\ info' = [info EXCEPT ![free] = free]
          /\ data' = [data EXCEPT ![free] = d] /\ free' = free + 1
      BY <1>5, <2>2 DEF InsertNew
    <3>2. free' = (IF i' + 2 < Size - 1 THEN i' + 2 ELSE Size - 1)
      BY <2>2, <3>1, <1>1, <1>4, <1>8, Sizes
    <3>3. /\ next' \in [Node -> Node \cup {NULL}]
          /\ Grown(w, free) \in Arranged(free + 1) /\ Grown(w, free)[1] = 0
          /\ Linked(next', Grown(w, free), free + 1, {})
      BY <3>1, <1>7, <1>8, GrownLinked
    <3>4. PICK v : v = Grown(w, free) OBVIOUS
    <3>5. data' \in [Node -> Datum] BY <3>1, <1>5, <1>8 DEF NewDatum
    <3>6. Indices'
      <4>1. data'[0] = data[0] /\ data'[free].idx > 0 BY <3>1, <1>5, <1>8, Sizes DEF NewDatum
      <4>2. \A n \in 1 .. free - 1 : data'[n] = data[n] BY <3>1, <1>8, Sizes
      <4>3. \A n \in 1 .. free' - 1 : n = free \/ n \in 1 .. free - 1 BY <3>1, <1>8
      <4> QED BY <4>1, <4>2, <4>3, <1>2 DEF Indices
    <3>7. info' = [n \in Node |-> n] BY <3>1, <1>4, <1>8
    <3>8. Listed(v)' BY <3>1, <3>3, <3>4, <1>1, <1>4 DEF Listed
    <3> QED BY <3>2, <3>3, <3>5, <3>6, <3>7, <3>8
  <2> QED BY <2>1, <2>2
<1>10. free' \in 1 .. Size - 1 /\ i' \in 0 .. Size BY <1>1, <1>4, <1>9, Sizes
<1>11. Types'
  <2>1. i' \in -1 .. Size + cfg.find
    <3>1. cfg.find \in Nat BY <1>2 DEF Types
    <3> QED BY <3>1, <1>10, Sizes
  <2>2. info' \in [Node -> Node] BY <1>9
  <2>3. pc' \in {"insert", "index", "sort", "inited", "find", "remove", "undo", "listdone", "end"}
    BY <1>1
  <2>4. /\ list' \in Node /\ resList' \in Node \cup {NULL} /\ remover' \in Node \cup {NULL}
        /\ arg' \in {-1, 1} /\ iter' \in 0 .. Iterations
    BY <1>1, <1>3, TypedState
  <2>5. next' \in [Node -> Node \cup {NULL}] /\ data' \in [Node -> Datum] BY <1>9
  <2>6. cfg' = cfg BY <1>1
  <2> QED BY <2>1, <2>2, <2>3, <2>4, <2>5, <2>6, <1>2, <1>10, TypesNext, Zenon
<1>12. Stage'
  <2>1. Early' /\ pc' \in {"index", "insert"} BY <1>1 DEF Early
  <2>2. pc' = "insert" => i' \in -1 .. Size - 1 BY <1>1, <1>10, Sizes
  <2>3. pc' = "index" => free' = Size - 1 BY <1>1, <1>9, <1>10
  <2> QED BY <2>1, <2>2, <2>3, <1>1, <1>4, <1>9 DEF Stage
<1>13. Shape'
  <2>1. pc' \in {"index", "insert"} BY <1>1
  <2> QED BY <2>1, <1>9 DEF Shape
<1> QED BY <1>9, <1>11, <1>12, <1>13 DEF IInv

LEMMA IndexedDatum ==
    ASSUME NEW d \in Datum, NEW x \in Nat, x > 0, x <= MaxIdx
    PROVE  NewDatum([d EXCEPT !.idx = x])
<1>1. x \in 0 .. MaxIdx BY MaxIdxIs
<1>2. ASSUME NEW S, NEW T, NEW r \in [idx : S, hi : T, lo : T], x \in S
      PROVE  [r EXCEPT !.idx = x] \in [idx : S, hi : T, lo : T] /\ [r EXCEPT !.idx = x].idx = x
  <2>1. [r EXCEPT !.idx = x] = [idx |-> x, hi |-> r.hi, lo |-> r.lo] OBVIOUS
  <2> QED BY <1>2, <2>1
<1> QED BY <1>1, <1>2 DEF NewDatum, Datum

\* core_list_init gives indices to all but the first and the last of the list.
LEMMA IndexStep == IInv /\ Index => IInv'
<1> SUFFICES ASSUME IInv, Index PROVE IInv' OBVIOUS
<1> DEFINE New(c, L) == [n \in Node |->
                            IF \E k \in 2 .. L - 1 : info[c[k]] = n
                            THEN [data[n] EXCEPT !.idx =
                                     ItemIdx((CHOOSE k \in 2 .. L - 1 : info[c[k]] = n) - 1)]
                            ELSE data[n]]
<1>1. /\ pc = "index" /\ StartSort("idx", "inited", list)
      /\ cfg' = cfg /\ next' = next /\ info' = info /\ free' = free
      /\ list' = list /\ resList' = resList /\ remover' = remover /\ i' = i
      /\ arg' = arg /\ iter' = iter
  BY Zenon DEF Index
<1>2. data' = New(Chain(list), Len(Chain(list))) BY Zenon DEF Index
<1>3. Types /\ Indices /\ Stage /\ Shape BY DEF IInv
<1>4. TypeOK /\ cfg.seed1 \in FirstSeeds BY <1>3 DEF Types
<1>5. free = Size - 1 /\ iter < Iterations /\ info = [n \in Node |-> n] /\ resList = NULL /\ list = 0
  BY <1>1, <1>3 DEF Stage, Early
<1>6. PICK w : Listed(w) BY <1>1, <1>3 DEF Shape
<1>7. next \in [Node -> Node \cup {NULL}] /\ data \in [Node -> Datum] /\ free \in 1 .. Size
  BY <1>4, TypedState
<1>8. Chain(list) = w /\ Len(w) = free BY <1>6, <1>7, ListChain
<1>9. /\ \A k \in 1 .. free : w[k] \in Node /\ \A j \in 1 .. free : w[j] = w[k] => j = k
      /\ w[1] = 0
  BY <1>5, <1>6, <1>7, ArrangedOnce DEF Listed
<1>10. data' = New(w, free) BY <1>2, <1>8, Zenon
<1> DEFINE at(n) == CHOOSE k \in 2 .. free - 1 : info[w[k]] = n
<1>11. \A n \in Node : data'[n] = IF \E k \in 2 .. free - 1 : info[w[k]] = n
                                  THEN [data[n] EXCEPT !.idx = ItemIdx(at(n) - 1)]
                                  ELSE data[n]
  BY <1>10, Zenon
<1>12. data' = [n \in Node |-> data'[n]] BY <1>10, Zenon
<1>13. ASSUME NEW n \in Node, \E k \in 2 .. free - 1 : info[w[k]] = n
       PROVE  NewDatum([data[n] EXCEPT !.idx = ItemIdx(at(n) - 1)]) /\ n # 0
  <2>1. at(n) \in 2 .. free - 1 /\ info[w[at(n)]] = n BY <1>13, Zenon
  <2> HIDE DEF at
  <2>2. at(n) - 1 \in 1 .. Size /\ at(n) \in 1 .. free /\ at(n) # 1 /\ 1 \in 1 .. free
    BY <2>1, <1>7, Sizes
  <2>3. ItemIdx(at(n) - 1) \in Nat /\ ItemIdx(at(n) - 1) > 0 /\ ItemIdx(at(n) - 1) <= MaxIdx
    <3>1. ASSUME NEW j \in 1 .. Size
          PROVE  ItemIdx(j) \in Nat /\ ItemIdx(j) > 0 /\ ItemIdx(j) <= MaxIdx
      BY <1>4, ItemIdxIn, SMT
    <3> QED BY <2>2, <3>1, SMT
  <2>4. data[n] \in Datum BY <1>7
  <2>5. NewDatum([data[n] EXCEPT !.idx = ItemIdx(at(n) - 1)])
    <3>1. ASSUME NEW d \in Datum, NEW x \in Nat, x > 0, x <= MaxIdx
          PROVE  NewDatum([d EXCEPT !.idx = x])
      BY <3>1, IndexedDatum, SMT
    <3> QED BY <2>3, <2>4, <3>1, SMT
  <2>6. w[at(n)] # 0 BY <2>2, <1>9
  <2> QED BY <2>1, <2>2, <2>5, <2>6, <1>5, <1>9
<1> HIDE DEF New, at
<1>14. ASSUME NEW n \in Node PROVE data'[n] = data[n] \/ (NewDatum(data'[n]) /\ n # 0)
  <2>1. CASE \E k \in 2 .. free - 1 : info[w[k]] = n
    <3>1. data'[n] = [data[n] EXCEPT !.idx = ItemIdx(at(n) - 1)] BY <2>1, <1>11, Zenon
    <3>2. NewDatum(data'[n]) /\ n # 0 BY <2>1, <3>1, <1>13, Zenon
    <3> QED BY <3>2, Zenon
  <2>2. CASE ~ \E k \in 2 .. free - 1 : info[w[k]] = n BY <2>2, <1>11, Zenon
  <2> QED BY <2>1, <2>2
<1>15. data' \in [Node -> Datum]
  <2>1. \A n \in Node : data'[n] \in Datum BY <1>7, <1>14 DEF NewDatum
  <2> QED BY <2>1, <1>12
<1>16. Indices'
  <2>1. data'[0] = data[0] BY <1>14, Sizes
  <2>2. \A n \in 1 .. free - 1 : n \in Node BY <1>7, Sizes
  <2> QED BY <2>1, <2>2, <1>1, <1>3, <1>14 DEF Indices, NewDatum
<1>17. Shape' /\ pc' = "sort" /\ ms'.then = "inited"
  <2>1. Listed(w)' BY <1>1, <1>6 DEF Listed
  <2>2. free' \in 1 .. Size /\ StartSort("idx", "inited", list') BY <1>1, <1>7
  <2> QED BY <2>1, <2>2, SortingStarts
<1>18. Types' BY <1>1, <1>3, <1>4, <1>15, <1>17, TypedState, TypesNext
<1>19. Stage'
  <2>1. Early' BY <1>17 DEF Early
  <2> QED BY <2>1, <1>1, <1>5, <1>17 DEF Stage
<1> QED BY <1>16, <1>17, <1>18, <1>19 DEF IInv

\* core_list_find and core_list_reverse, and what was found to the second place.
LEMMA FindStepListed ==
    ASSUME FindStep, free \in 1 .. Size, next \in [Node -> Node \cup {NULL}], NEW w, Listed(w)
    PROVE  /\ next' \in [Node -> Node \cup {NULL}] /\ list' \in Node
           /\ \E v : v \in Arranged(free) /\ Linked(next', v, free, {}) /\ list' = v[1]
<1> DEFINE t == Turned(w, free)
           After(r, this, f, head) == IF f = NULL THEN r ELSE Second(r, this, f, head)
           found == Find(IF arg > 0 THEN arg + i ELSE -1, i % 256)
           last  == Chain(list)[Len(Chain(list))]
<1>0. /\ list' = last
      /\ next' = After(Reversed, found, IF found = NULL THEN NULL ELSE Reversed[found], last)
  BY Zenon DEF FindStep, Second
<1> HIDE DEF After, found
<1>1. PICK this : this = found OBVIOUS
<1>2. Chain(list) = w /\ Len(w) = free BY ListChain
<1>3. list' = w[free] /\ last = w[free] BY <1>0, <1>2
<1>4. /\ t \in Arranged(free) /\ Linked(Reversed, t, free, {}) /\ t[1] = w[free]
  BY TurnedLinked
<1>5. /\ Reversed \in [Node -> Node \cup {NULL}]
      /\ \A k \in 1 .. free : Reversed[w[k]] = IF k = 1 THEN NULL ELSE w[k - 1]
  BY ReversedIs
<1>6. \A k \in 1 .. free : t[k] = w[free + 1 - k] BY DEF Turned
<1>7. w[free] \in Node
  <2>1. free \in 1 .. free BY Sizes
  <2> QED BY <2>1, ArrangedOnce DEF Listed
<1>8. PICK f : f = IF this = NULL THEN NULL ELSE Reversed[this] OBVIOUS
<1>9. PICK r : r = Reversed OBVIOUS
<1> HIDE DEF t, last
<1>10. next' = After(r, this, f, t[1]) BY <1>0, <1>1, <1>3, <1>4, <1>8, <1>9, Zenon
<1>11. CASE f = NULL
  <2>1. next' = r BY <1>10, <1>11, Zenon DEF After
  <2> QED BY <2>1, <1>3, <1>4, <1>5, <1>7, <1>9
<1>12. CASE f # NULL
  <2>1. this # NULL /\ f = r[this] BY <1>8, <1>9, <1>12
  <2>2. PICK j \in 1 .. free : this = w[j]
    <3>1. PICK idx, dat : found = Find(idx, dat) BY Zenon DEF found
    <3>2. Find(idx, dat) = NULL \/ \E k \in 1 .. free : Find(idx, dat) = w[k] BY FindIs
    <3> QED BY <3>1, <3>2, <2>1, <1>1, Zenon
  <2>3. j # 1 /\ f = w[j - 1] BY <2>1, <2>2, <1>5, <1>9, <1>12
  <2>4. PICK m \in 1 .. free - 1 : m = free + 1 - j
    <3>1. free + 1 - j \in 1 .. free - 1 BY <2>3
    <3> QED BY <3>1
  <2>5. t[m] = this /\ t[m + 1] = f
    <3>1. m \in 1 .. free /\ m + 1 \in 1 .. free /\ free + 1 - m = j /\ free + 1 - (m + 1) = j - 1
      BY <2>4
    <3> QED BY <3>1, <2>2, <2>3, <1>6
  <2>6. next' = Second(r, t[m], t[m + 1], t[1]) BY <1>10, <1>12, <2>5, Zenon DEF After
  <2>7. r \in [Node -> Node \cup {NULL}] /\ Linked(r, t, free, {}) BY <1>4, <1>5, <1>9
  <2>8. /\ next' \in [Node -> Node \cup {NULL}]
        /\ Moved(t, free, 2, m + 1) \in Arranged(free)
        /\ Moved(t, free, 2, m + 1)[1] = t[1]
        /\ Linked(next', Moved(t, free, 2, m + 1), free, {})
    BY <2>6, <2>7, <1>4, SecondLinked
  <2> QED BY <2>8, <1>3, <1>4, <1>7
<1> QED BY <1>11, <1>12

LEMMA FindStepStep == IInv /\ FindStep => IInv'
<1> SUFFICES ASSUME IInv, FindStep PROVE IInv' OBVIOUS
<1>1. /\ pc = "find" /\ i < cfg.find /\ pc' = pc /\ i' = i + 1
      /\ cfg' = cfg /\ info' = info /\ data' = data /\ free' = free
      /\ resList' = resList /\ remover' = remover /\ arg' = arg /\ iter' = iter
  BY Zenon DEF FindStep
<1>2. Types /\ Indices /\ Stage /\ Shape BY DEF IInv
<1>3. TypeOK /\ cfg.find \in Nat BY <1>2 DEF Types
<1>4. /\ free = Size - 1 /\ iter < Iterations /\ info = [n \in Node |-> n] /\ resList = 0
      /\ i \in 0 .. cfg.find
  BY <1>1, <1>2 DEF Stage, Early
<1>5. PICK w : Listed(w) BY <1>1, <1>2 DEF Shape
<1>6. /\ next' \in [Node -> Node \cup {NULL}] /\ list' \in Node
      /\ \E v : v \in Arranged(free) /\ Linked(next', v, free, {}) /\ list' = v[1]
  BY <1>3, <1>5, TypedState, FindStepListed
<1>7. i' \in 0 .. cfg.find BY <1>1, <1>3, <1>4
<1>8. Types'
  <2>1. i' \in -1 .. Size + cfg.find BY <1>3, <1>7, Sizes
  <2>2. pc' \in {"insert", "index", "sort", "inited", "find", "remove", "undo", "listdone", "end"}
    BY <1>1
  <2> QED BY <2>1, <2>2, <1>1, <1>2, <1>3, <1>6, TypedState, TypesNext
<1>9. Indices' BY <1>1, <1>2 DEF Indices
<1>10. Stage'
  <2>1. ~Early' BY <1>1 DEF Early
  <2> QED BY <2>1, <1>1, <1>4, <1>7 DEF Stage
<1>11. Shape'
  <2>1. PICK v : v \in Arranged(free) /\ Linked(next', v, free, {}) /\ list' = v[1] BY <1>6
  <2>2. Listed(v)' BY <2>1, <1>1 DEF Listed
  <2> QED BY <2>2, <1>1 DEF Shape
<1> QED BY <1>8, <1>9, <1>10, <1>11 DEF IInv

\* The second and the third element of the list.
LEMMA FirstThree ==
    ASSUME TypeOK, free = Size - 1, NEW w \in Arranged(free)
    PROVE  /\ {1, 2, 3} \subseteq 1 .. free
           /\ w[2] \in Node /\ w[3] \in Node /\ w[2] # w[3] /\ w[2] # NULL /\ w[3] # NULL
           /\ \A k \in 1 .. free : /\ w[k] \in Node
                                   /\ (w[k] = w[2] => k = 2) /\ (w[k] = w[3] => k = 3)
           /\ At(w, free, 2) = w[2] /\ At(w, free, 3) = w[3] /\ At(w, free, 4) \in Node \cup {NULL}
<1>1. free \in 1 .. Size /\ free \in 0 .. Size /\ {1, 2, 3} \subseteq 1 .. free
  BY TypedState, Sizes
<1>2. /\ w \in [1 .. free -> Node] /\ \A k \in 1 .. free : w[k] \in Node /\ w[k] # NULL
      /\ \A j, k \in 1 .. free : w[j] = w[k] => j = k
  BY <1>1, ArrangedOnce
<1>3. At(w, free, 4) \in Node \cup {NULL} BY <1>1, ArrangedNodes
<1>4. At(w, free, 2) = w[2] /\ At(w, free, 3) = w[3] BY <1>1 DEF At
<1> QED BY <1>1, <1>2, <1>3, <1>4

\* core_list_remove of the second element.
LEMMA RemoveStep == IInv /\ Remove => IInv'
<1> SUFFICES ASSUME IInv, Remove PROVE IInv' OBVIOUS
<1> DEFINE item == next[list]
           ret  == next[item]
<1>1. /\ pc = "remove" /\ pc' = "undo" /\ remover' = ret
      /\ info' = [info EXCEPT ![item] = info[ret], ![ret] = info[item]]
      /\ next' = [next EXCEPT ![item] = next[ret], ![ret] = NULL]
      /\ cfg' = cfg /\ data' = data /\ free' = free /\ list' = list /\ resList' = resList
      /\ i' = i /\ arg' = arg /\ iter' = iter
  BY DEF Remove
<1>2. Types /\ Indices /\ Stage /\ Shape BY DEF IInv
<1>3. TypeOK BY <1>2 DEF Types
<1>4. /\ free = Size - 1 /\ iter < Iterations /\ info = [n \in Node |-> n] /\ resList = 0
  BY <1>1, <1>2 DEF Stage, Early
<1>5. PICK w : Listed(w) BY <1>1, <1>2 DEF Shape
<1>6. w \in Arranged(free) /\ list = w[1] /\ \A k \in 1 .. free : next[w[k]] = At(w, free, k + 1)
  BY <1>5 DEF Listed, Linked
<1>7. /\ {1, 2, 3} \subseteq 1 .. free
      /\ w[2] \in Node /\ w[3] \in Node /\ w[2] # w[3] /\ w[2] # NULL /\ w[3] # NULL
      /\ \A k \in 1 .. free : w[k] \in Node /\ (w[k] = w[2] => k = 2) /\ (w[k] = w[3] => k = 3)
      /\ At(w, free, 2) = w[2] /\ At(w, free, 3) = w[3] /\ At(w, free, 4) \in Node \cup {NULL}
  BY <1>3, <1>4, <1>6, FirstThree
<1>8. next \in [Node -> Node \cup {NULL}] BY <1>3, TypedState
<1>9. item = w[2] /\ ret = w[3] /\ next[ret] = At(w, free, 4)
  <2>1. 1 + 1 = 2 /\ 2 + 1 = 3 /\ 3 + 1 = 4 OBVIOUS
  <2> QED BY <2>1, <1>6, <1>7
<1> HIDE DEF item, ret
<1>10. next' = [next EXCEPT ![w[2]] = At(w, free, 4), ![w[3]] = NULL] BY <1>1, <1>9
<1>11. next' \in [Node -> Node \cup {NULL}] BY <1>7, <1>8, <1>10
<1>12. info' = [n \in Node |-> IF n = w[2] THEN w[3] ELSE IF n = w[3] THEN w[2] ELSE n]
  <2>1. info' = [info EXCEPT ![w[2]] = w[3], ![w[3]] = w[2]] BY <1>1, <1>4, <1>7, <1>9
  <2> QED BY <2>1, <1>4, <1>7
<1>13. info' \in [Node -> Node] BY <1>7, <1>12
<1>14. Unlinked(w)'
  <2>1. next'[w[2]] = At(w, free, 4) /\ next'[w[3]] = NULL BY <1>7, <1>8, <1>10
  <2>2. \A k \in (1 .. free) \ {2, 3} : next'[w[k]] = At(w, free, k + 1)
    <3>1. \A k \in (1 .. free) \ {2, 3} : next'[w[k]] = next[w[k]] BY <1>7, <1>8, <1>10
    <3> QED BY <3>1, <1>6
  <2> QED BY <2>1, <2>2, <1>1, <1>6, <1>9, <1>12 DEF Unlinked, Linked
<1>15. Types'
  <2>1. remover' \in Node \cup {NULL} BY <1>1, <1>7, <1>9
  <2> QED BY <2>1, <1>1, <1>2, <1>3, <1>11, <1>13, TypedState, TypesNext
<1>16. Indices' BY <1>1, <1>2 DEF Indices
<1>17. Stage'
  <2>1. ~Early' BY <1>1 DEF Early
  <2> QED BY <2>1, <1>1, <1>4 DEF Stage
<1>18. Shape' BY <1>1, <1>14 DEF Shape
<1> QED BY <1>15, <1>16, <1>17, <1>18 DEF IInv

\* core_list_undo_remove puts it back where it was.
LEMMA UndoRemoveStep == IInv /\ UndoRemove => IInv'
<1> SUFFICES ASSUME IInv, UndoRemove PROVE IInv' OBVIOUS
<1> DEFINE item == next[list]
<1>1. /\ pc = "undo" /\ remover' = NULL /\ StartSort("idx", "listdone", list)
      /\ info' = [info EXCEPT ![item] = info[remover], ![remover] = info[item]]
      /\ next' = [next EXCEPT ![remover] = next[item], ![item] = remover]
      /\ cfg' = cfg /\ data' = data /\ free' = free /\ list' = list /\ resList' = resList
      /\ i' = i /\ arg' = arg /\ iter' = iter
  BY DEF UndoRemove
<1>2. Types /\ Indices /\ Stage /\ Shape BY DEF IInv
<1>3. TypeOK BY <1>2 DEF Types
<1>4. free = Size - 1 /\ iter < Iterations /\ resList = 0
  BY <1>1, <1>2 DEF Stage, Early
<1>5. PICK w : Unlinked(w) BY <1>1, <1>2 DEF Shape
<1>6. /\ w \in Arranged(free) /\ list = w[1] /\ remover = w[3]
      /\ \A k \in (1 .. free) \ {2, 3} : next[w[k]] = At(w, free, k + 1)
      /\ next[w[2]] = At(w, free, 4)
      /\ info = [n \in Node |-> IF n = w[2] THEN w[3] ELSE IF n = w[3] THEN w[2] ELSE n]
  BY <1>5 DEF Unlinked, Linked
<1>7. /\ {1, 2, 3} \subseteq 1 .. free
      /\ w[2] \in Node /\ w[3] \in Node /\ w[2] # w[3] /\ w[2] # NULL /\ w[3] # NULL
      /\ \A k \in 1 .. free : w[k] \in Node /\ (w[k] = w[2] => k = 2) /\ (w[k] = w[3] => k = 3)
      /\ At(w, free, 2) = w[2] /\ At(w, free, 3) = w[3] /\ At(w, free, 4) \in Node \cup {NULL}
  BY <1>3, <1>4, <1>6, FirstThree
<1>8. next \in [Node -> Node \cup {NULL}] BY <1>3, TypedState
<1>9. item = w[2]
  <2>1. 1 + 1 = 2 /\ 1 \in (1 .. free) \ {2, 3} BY <1>7
  <2> QED BY <2>1, <1>6, <1>7
<1> HIDE DEF item
<1>10. next' = [next EXCEPT ![w[3]] = At(w, free, 4), ![w[2]] = w[3]] BY <1>1, <1>6, <1>9
<1>11. next' \in [Node -> Node \cup {NULL}] BY <1>7, <1>8, <1>10
<1>12. info' = [n \in Node |-> n]
  <2>1. info[w[2]] = w[3] /\ info[w[3]] = w[2] BY <1>6, <1>7
  <2>2. info' = [info EXCEPT ![w[2]] = w[2], ![w[3]] = w[3]] BY <2>1, <1>1, <1>6, <1>9
  <2> QED BY <2>2, <1>6, <1>7
<1>13. Listed(w)'
  <2>1. ASSUME NEW k \in 1 .. free PROVE next'[w[k]] = At(w, free, k + 1)
    <3>1. CASE k = 2
      <4>1. k + 1 = 3 BY <3>1
      <4> QED BY <3>1, <4>1, <1>7, <1>8, <1>10
    <3>2. CASE k = 3
      <4>1. k + 1 = 4 BY <3>2
      <4> QED BY <3>2, <4>1, <1>7, <1>8, <1>10
    <3>3. CASE k \notin {2, 3}
      <4>1. next'[w[k]] = next[w[k]] BY <3>3, <1>7, <1>8, <1>10
      <4> QED BY <3>3, <4>1, <1>6
    <3> QED BY <3>1, <3>2, <3>3
  <2> QED BY <2>1, <1>1, <1>6 DEF Listed, Linked
<1>14. Shape' /\ pc' = "sort" /\ ms'.then = "listdone"
  <2>1. free' \in 1 .. Size /\ StartSort("idx", "listdone", list') BY <1>1, <1>3, TypedState
  <2> QED BY <2>1, <1>13, SortingStarts
<1>15. Types'
  <2>1. info' \in [Node -> Node] BY <1>12
  <2> QED BY <2>1, <1>1, <1>2, <1>3, <1>11, <1>14, TypedState, TypesNext
<1>16. Indices' BY <1>1, <1>2 DEF Indices
<1>17. Stage'
  <2>1. ~Early' BY <1>14 DEF Early
  <2> QED BY <2>1, <1>1, <1>4, <1>12, <1>14 DEF Stage
<1> QED BY <1>14, <1>15, <1>16, <1>17 DEF IInv

\* A step inside the sort leaves the rest of the state as it is.
LEMMA StillSorting ==
    ASSUME IInv, pc = "sort", pc' = "sort", ms'.then = ms.then,
           cfg' = cfg, info' = info, free' = free, list' = list, resList' = resList,
           remover' = remover, i' = i, arg' = arg, iter' = iter,
           next' \in [Node -> Node \cup {NULL}], data' \in [Node -> Datum], Indices',
           \E v, x, y : Sorting(v, x, y)'
    PROVE  IInv'
<1>1. Types /\ Stage /\ TypeOK BY DEF IInv, Types
<1>2. Types' BY <1>1, TypedState, TypesNext
<1>3. Stage' BY <1>1 DEF Stage, Early
<1>4. Shape' BY DEF Shape
<1> QED BY <1>2, <1>3, <1>4 DEF IInv

\* The next two runs to merge.
LEMMA NextMergeStep == IInv /\ NextMerge => IInv'
<1> SUFFICES ASSUME IInv, NextMerge PROVE IInv' OBVIOUS
<1> DEFINE Run(L)  == IF L < ms.insize THEN L ELSE ms.insize
           Q(c, L) == IF Run(L) = L THEN NULL ELSE c[Run(L) + 1]
           New(r, x) == [ms EXCEPT !.nmerges = ms.nmerges + 1, !.psize = r, !.qsize = ms.insize,
                                   !.q = x]
<1>1. /\ pc = "sort" /\ pc' = pc /\ ~Busy(ms) /\ ms.p # NULL
      /\ cfg' = cfg /\ next' = next /\ info' = info /\ data' = data /\ free' = free
      /\ list' = list /\ resList' = resList /\ remover' = remover /\ i' = i
      /\ arg' = arg /\ iter' = iter
  BY Zenon DEF NextMerge, Merging, Busy, heap
<1>2. ms' = New(Run(Len(Chain(ms.p))), Q(Chain(ms.p), Len(Chain(ms.p)))) BY Zenon DEF NextMerge
<1> HIDE DEF New
<1>3. TypeOK /\ Indices BY DEF IInv, Types
<1>4. next \in [Node -> Node \cup {NULL}] /\ data \in [Node -> Datum] /\ free \in 1 .. Size
  BY <1>3, TypedState
<1>5. PICK w, a, b : Sorting(w, a, b) BY <1>1 DEF IInv, Shape
<1>6. /\ w \in Arranged(free) /\ a \in 0 .. free /\ b \in 0 .. free
      /\ ms \in MsTypes /\ ms.insize > 0 /\ (ms.cmp = "idx" <=> ms.then # "remove")
      /\ Sorted(next, ms, w, free, a, b)
      /\ ms.cmp = "idx" => Leads(ms, w, free, a, b)
      /\ Ranked(data, ms, w, free, a, b)
  BY <1>5 DEF Sorting
<1>7. /\ Chain(ms.p) = Suffix(w, free, a) /\ Len(Chain(ms.p)) = free - a
      /\ \A k \in 1 .. free - a : Chain(ms.p)[k] = w[a + k]
  <2>1. a = b /\ ms.p = At(w, free, a + 1) BY <1>1, <1>6 DEF Sorted
  <2>2. \A k \in a + 1 .. free : next[w[k]] = At(w, free, k + 1)
    <3>1. \A k \in a + 1 .. free : k \in (1 .. free) \ {a, b} BY <2>1, <1>6
    <3> QED BY <3>1, <1>6 DEF Sorted, Linked
  <2>3. /\ ChainOf(next, At(w, free, a + 1)) = Suffix(w, free, a)
        /\ Len(Suffix(w, free, a)) = free - a
        /\ \A k \in 1 .. free - a : Suffix(w, free, a)[k] = w[a + k]
    BY <2>2, <1>4, <1>6, RestOf
  <2> QED BY <2>1, <2>3 DEF Chain
<1>8. PICK run : run = IF free - a < ms.insize THEN free - a ELSE ms.insize OBVIOUS
<1>9. PICK q : q = IF run = free - a THEN NULL ELSE w[a + run + 1] OBVIOUS
<1>10. /\ a = b /\ a < free /\ run \in 1 .. free - a
  <2>1. a = b /\ a < free BY <1>1, <1>4, <1>6 DEF Sorted, At
  <2>2. ms.insize \in Nat /\ ms.insize > 0 BY <1>6 DEF MsTypes
  <2>3. a \in Nat /\ free \in Nat BY <1>4, <1>6
  <2> QED BY <2>1, <2>2, <2>3, <1>8
<1>11. ms' = New(run, q)
  <2>1. run # free - a => Chain(ms.p)[run + 1] = w[a + run + 1]
    <3>1. run # free - a => run + 1 \in 1 .. free - a /\ a + (run + 1) = a + run + 1
      BY <1>4, <1>6, <1>10
    <3> QED BY <3>1, <1>7
  <2>2. run = Run(free - a) BY <1>8
  <2>3. q = Q(Chain(ms.p), free - a) BY <2>1, <2>2, <1>9
  <2>4. Len(Chain(ms.p)) = free - a BY <1>7
  <2> HIDE DEF Run, Q
  <2>5. ms' = New(Run(free - a), Q(Chain(ms.p), free - a)) BY <2>4, <1>2, Zenon
  <2> QED BY <2>2, <2>3, <2>5, Zenon
<1> HIDE DEF Run, Q
<1>12. q \in Node \cup {NULL}
  <2>1. run # free - a => a + run + 1 \in 1 .. free BY <1>4, <1>6, <1>10
  <2> QED BY <2>1, <1>4, <1>6, <1>9, ArrangedOnce
<1>13. /\ ms' \in MsTypes /\ ms'.tail = ms.tail /\ ms'.head = ms.head /\ ms'.p = ms.p /\ ms'.q = q
       /\ ms'.psize = run /\ ms'.qsize = ms.insize /\ ms'.cmp = ms.cmp /\ ms'.then = ms.then
       /\ ms'.insize = ms.insize /\ ms'.nmerges = ms.nmerges + 1
  <2>1. run \in Nat BY <1>10
  <2>2. ms.insize \in Nat /\ ms.nmerges + 1 \in Nat BY <1>6 DEF MsTypes
  <2>3. ms' = [ms EXCEPT !.nmerges = ms.nmerges + 1, !.psize = run, !.qsize = ms.insize, !.q = q]
    BY <1>11 DEF New
  <2>4. ms \in MsTypes BY <1>6
  <2> QED BY <2>1, <2>2, <2>3, <2>4, <1>12 DEF MsTypes
<1>14. /\ Sorted(next, ms', w, free, a, a + run)
       /\ Leads(ms, w, free, a, b) => Leads(ms', w, free, a, a + run)
       /\ Ranked(data', ms', w, free, a, a + run)
  <2>1. ASSUME NEW s1, s1 = ms'
        PROVE  /\ Sorted(next, s1, w, free, a, a + run)
               /\ Leads(ms, w, free, a, b) => Leads(s1, w, free, a, a + run)
    <3>1. /\ s1.tail = ms.tail /\ s1.head = ms.head /\ s1.p = ms.p /\ s1.insize = ms.insize
          /\ s1.nmerges = ms.nmerges + 1 /\ s1.psize = run /\ s1.qsize = ms.insize /\ s1.q = q
      BY <2>1, <1>13
    <3> QED BY <3>1, <1>1, <1>4, <1>6, <1>8, <1>9, RunStarts
  <2>2. ASSUME NEW s1, s1 = ms', NEW dt, dt = data' PROVE Ranked(dt, s1, w, free, a, a + run)
    <3>1. /\ s1.insize = ms.insize /\ s1.nmerges = ms.nmerges + 1 /\ s1.psize = run
          /\ s1.qsize = ms.insize /\ s1.cmp = ms.cmp /\ dt = data
      BY <2>2, <1>1, <1>13
    <3>2. Reaches(ms, free, a, a) /\ Ordered(InOrder(ms.cmp, data), ms, w, free, a, a)
      BY <1>6, <1>10 DEF Ranked
    <3>3. PICK R : R = InOrder(ms.cmp, data) OBVIOUS
    <3>4. Reaches(s1, free, a, a + run) /\ Ordered(R, s1, w, free, a, a + run)
      BY <3>1, <3>2, <3>3, <1>1, <1>4, <1>6, <1>8, <1>10, OrderedRunStarts
    <3> QED BY <3>1, <3>3, <3>4 DEF Ranked
  <2> QED BY <2>1, <2>2
<1>15. Sorting(w, a, a + run)'
  <2>1. a + run \in 0 .. free BY <1>4, <1>6, <1>10
  <2> QED BY <2>1, <1>1, <1>6, <1>13, <1>14 DEF Sorting
<1>16. Indices' BY <1>1, <1>3 DEF Indices
<1>17. \E v, x, y : Sorting(v, x, y)' BY <1>15, Zenon
<1> QED BY <1>1, <1>4, <1>13, <1>16, <1>17, StillSorting

\* The end of a pass, and of the sort.
LEMMA EndPassStep == IInv /\ EndPass => IInv'
<1> SUFFICES ASSUME IInv, EndPass PROVE IInv' OBVIOUS
<1>1. /\ pc = "sort" /\ ~Busy(ms) /\ ms.p = NULL
      /\ next' = [next EXCEPT ![ms.tail] = NULL]
      /\ cfg' = cfg /\ info' = info /\ data' = data /\ free' = free
      /\ resList' = resList /\ remover' = remover /\ i' = i /\ arg' = arg /\ iter' = iter
  BY Zenon DEF EndPass, Merging, Busy
<1>2. ms.nmerges <= 1 => list' = ms.head /\ pc' = ms.then
  BY Zenon DEF EndPass
<1>3. ~(ms.nmerges <= 1) =>
         /\ ms' = [ms EXCEPT !.p = ms.head, !.head = NULL, !.tail = NULL,
                             !.nmerges = 0, !.insize = 2 * ms.insize]
         /\ list' = list /\ pc' = pc
  BY Zenon DEF EndPass
<1>4. Types /\ Indices /\ Stage /\ TypeOK BY DEF IInv, Types
<1>5. next \in [Node -> Node \cup {NULL}] /\ data \in [Node -> Datum] /\ free \in 1 .. Size
  BY <1>4, TypedState
<1>6. PICK w, a, b : Sorting(w, a, b) BY <1>1 DEF IInv, Shape
<1>7. /\ w \in Arranged(free) /\ a \in 0 .. free /\ b \in 0 .. free
      /\ ms \in MsTypes /\ ms.insize > 0 /\ (ms.cmp = "idx" <=> ms.then # "remove")
      /\ Sorted(next, ms, w, free, a, b)
      /\ ms.cmp = "idx" => Leads(ms, w, free, a, b)
      /\ Ranked(data, ms, w, free, a, b)
  BY <1>6 DEF Sorting
<1>8. /\ a = free /\ b = free /\ ms.head = w[1]
      /\ next' \in [Node -> Node \cup {NULL}] /\ Linked(next', w, free, {})
  <2>1. next' = Ended(next, ms.tail) BY <1>1 DEF Ended
  <2>2. /\ w \in Arranged(free) /\ ms \in MsTypes /\ ms.insize > 0 /\ a \in 0 .. free /\ b \in 0 .. free
        /\ Sorted(next, ms, w, free, a, b) /\ ~Busy(ms) /\ ms.p = NULL
    BY <1>1, <1>7
  <2> QED BY <2>1, <2>2, <1>5, PassEnds
<1>9. w[1] \in Node
  <2>1. 1 \in 1 .. free BY <1>5, Sizes
  <2> QED BY <2>1, <1>5, <1>7, ArrangedOnce
<1>10. Indices' BY <1>1, <1>4 DEF Indices
<1>11. CASE ms.nmerges <= 1
  <2>1. list' = w[1] /\ pc' = ms.then /\ pc' \in {"inited", "remove", "listdone"}
    BY <1>2, <1>7, <1>8, <1>11 DEF MsTypes
  <2>2. pc' # "remove" => list' = 0
    <3>1. ms.cmp = "idx" => w[1] = 0 BY <1>5, <1>7, <1>8, <1>11, HeadIsFirst
    <3> QED BY <2>1, <3>1, <1>7
  <2>3. Listed(w)' BY <2>1, <1>1, <1>7, <1>8 DEF Listed
  <2>4. Shape' BY <2>1, <2>3 DEF Shape
  <2>5. Types' BY <2>1, <1>1, <1>4, <1>8, <1>9, TypedState, TypesNext
  <2>6. Stage'
    <3>1. Early <=> Early' BY <2>1, <1>1 DEF Early
    <3>2. free = Size - 1 /\ iter < Iterations /\ info = [n \in Node |-> n]
          /\ resList = IF Early THEN NULL ELSE 0
      BY <1>1, <1>4 DEF Stage
    <3> QED BY <2>1, <2>2, <3>1, <3>2, <1>1 DEF Stage
  <2> QED BY <2>4, <2>5, <2>6, <1>10 DEF IInv
<1>12. CASE ~(ms.nmerges <= 1)
  <2>1. ms.head \in Node \cup {NULL} /\ 2 * ms.insize \in Nat /\ ms.insize \in Nat
    BY <1>7 DEF MsTypes
  <2>2. /\ ms' \in MsTypes /\ ms'.tail = NULL /\ ms'.head = NULL /\ ms'.p = ms.head
        /\ ms'.q = ms.q /\ ms'.psize = ms.psize /\ ms'.qsize = ms.qsize /\ ms'.cmp = ms.cmp
        /\ ms'.then = ms.then /\ ms'.insize = 2 * ms.insize /\ ms'.nmerges = 0
    <3>1. ASSUME NEW size \in Nat, NEW p \in Node \cup {NULL},
                 ms' = [ms EXCEPT !.p = p, !.head = NULL, !.tail = NULL, !.nmerges = 0, !.insize = size]
          PROVE  /\ ms' \in MsTypes /\ ms'.tail = NULL /\ ms'.head = NULL /\ ms'.p = p
                 /\ ms'.q = ms.q /\ ms'.psize = ms.psize /\ ms'.qsize = ms.qsize /\ ms'.cmp = ms.cmp
                 /\ ms'.then = ms.then /\ ms'.insize = size /\ ms'.nmerges = 0
      <4>1. ms \in MsTypes BY <1>7
      <4>2. NULL \in Node \cup {NULL} /\ 0 \in Nat OBVIOUS
      <4> QED BY <3>1, <4>1, <4>2 DEF MsTypes
    <3> QED BY <2>1, <3>1, <1>3, <1>12, Zenon
  <2>3. /\ Sorted(next', ms', w, free, 0, 0)
        /\ Leads(ms, w, free, free, free) => Leads(ms', w, free, 0, 0)
        /\ Ranked(data', ms', w, free, 0, 0)
    <3>1. ASSUME NEW s1, s1 = ms', NEW nx, nx = next'
          PROVE  /\ Sorted(nx, s1, w, free, 0, 0)
                 /\ Leads(ms, w, free, free, free) => Leads(s1, w, free, 0, 0)
      <4>1. /\ s1.p = ms.head /\ s1.head = NULL /\ s1.tail = NULL /\ s1.nmerges = 0
            /\ s1.insize = 2 * ms.insize /\ s1.psize = ms.psize /\ s1.qsize = ms.qsize /\ s1.q = ms.q
        BY <2>2, <3>1
      <4>2. Linked(nx, w, free, {}) BY <1>8, <3>1
      <4> QED BY <4>1, <4>2, <1>1, <1>5, <1>7, <1>8, PassStarts
    <3>2. ASSUME NEW s1, s1 = ms', NEW dt, dt = data' PROVE Ranked(dt, s1, w, free, 0, 0)
      <4>1. /\ s1.nmerges = 0 /\ s1.insize = 2 * ms.insize /\ s1.psize = ms.psize
            /\ s1.qsize = ms.qsize /\ s1.q = ms.q /\ s1.cmp = ms.cmp /\ dt = data
        BY <3>2, <2>2, <1>1
      <4>2. Reaches(ms, free, free, free) /\ Ordered(InOrder(ms.cmp, data), ms, w, free, free, free)
        BY <1>7, <1>8 DEF Ranked
      <4>3. PICK R : R = InOrder(ms.cmp, data) OBVIOUS
      <4>4. Reaches(s1, free, 0, 0) /\ Ordered(R, s1, w, free, 0, 0)
        BY <4>1, <4>2, <4>3, <1>1, <1>5, <1>7, OrderedPassStarts
      <4> QED BY <4>1, <4>3, <4>4 DEF Ranked
    <3> QED BY <3>1, <3>2
  <2>4. Sorting(w, 0, 0)'
    <3>1. 0 \in 0 .. free /\ ms'.insize > 0 BY <2>1, <2>2, <1>5, <1>7
    <3> QED BY <2>2, <2>3, <3>1, <1>1, <1>7, <1>8 DEF Sorting
  <2>5. \E v, x, y : Sorting(v, x, y)' BY <2>4, Zenon
  <2>6. pc' = "sort" /\ list' = list BY <1>1, <1>3, <1>12
  <2> QED BY <2>2, <2>5, <2>6, <1>1, <1>5, <1>8, <1>10, StillSorting
<1> QED BY <1>11, <1>12

\* The comparisons write the low bytes of two data and leave the indices alone.
LowBytes(f, x, y, u, v) == [f EXCEPT ![x].lo = u, ![y].lo = v]

LEMMA LowByte ==
    ASSUME NEW d \in Datum, NEW v \in 0 .. 255
    PROVE  [d EXCEPT !.lo = v] \in Datum /\ [d EXCEPT !.lo = v].idx = d.idx
<1>1. ASSUME NEW S, NEW T, NEW r \in [idx : S, hi : T, lo : T], v \in T
      PROVE  [r EXCEPT !.lo = v] \in [idx : S, hi : T, lo : T] /\ [r EXCEPT !.lo = v].idx = r.idx
  <2>1. [r EXCEPT !.lo = v] = [idx |-> r.idx, hi |-> r.hi, lo |-> v] OBVIOUS
  <2> QED BY <1>1, <2>1
<1> QED BY <1>1 DEF Datum

LowSet(f, x, v) == [f EXCEPT ![x] = [f[x] EXCEPT !.lo = v]]

SameIdx(f, g) == \A n \in Node : g[n].idx = f[n].idx

LEMMA OneLowByte ==
    ASSUME NEW f \in [Node -> Datum], NEW x \in Node, NEW v \in 0 .. 255
    PROVE  LowSet(f, x, v) \in [Node -> Datum] /\ SameIdx(f, LowSet(f, x, v))
<1>1. [f[x] EXCEPT !.lo = v] \in Datum /\ [f[x] EXCEPT !.lo = v].idx = f[x].idx BY LowByte
<1>2. PICK d : d = [f[x] EXCEPT !.lo = v] OBVIOUS
<1>3. d \in Datum /\ d.idx = f[x].idx /\ LowSet(f, x, v) = [f EXCEPT ![x] = d]
  BY <1>1, <1>2 DEF LowSet
<1> QED BY <1>3 DEF SameIdx

LEMMA LowBytesOnly ==
    ASSUME NEW f \in [Node -> Datum], NEW x \in Node, NEW y \in Node,
           NEW u \in 0 .. 255, NEW v \in 0 .. 255
    PROVE  LowBytes(f, x, y, u, v) \in [Node -> Datum] /\ SameIdx(f, LowBytes(f, x, y, u, v))
<1>1. PICK h : h = LowSet(f, x, u) OBVIOUS
<1>2. PICK g : g = LowSet(h, y, v) OBVIOUS
<1>3. g = LowBytes(f, x, y, u, v) BY <1>1, <1>2 DEF LowBytes, LowSet
<1>4. h \in [Node -> Datum] /\ SameIdx(f, h) BY <1>1, OneLowByte
<1>5. g \in [Node -> Datum] /\ SameIdx(h, g) BY <1>2, <1>4, OneLowByte
<1>6. SameIdx(f, g) BY <1>4, <1>5 DEF SameIdx
<1> QED BY <1>3, <1>5, <1>6

LEMMA ResultsAre ==
    ASSUME NEW d \in Datum, NEW v \in Results(d)
    PROVE  v \in 0 .. 127 /\ (d.lo >= 128 => 128 + v = d.lo)
<1>1. d.lo \in 0 .. 255 BY DEF Datum
<1>2. Vals \subseteq 0 .. 127 BY CoreMarkAssumption, SMT
<1>3. CASE d.lo >= 128
  <2>1. v = d.lo - 128 BY <1>3, Zenon DEF Results, Cached
  <2> QED BY <2>1, <1>1, <1>3
<1>4. CASE ~(d.lo >= 128)
  <2>1. v \in Vals \/ v = d.lo BY <1>4, Zenon DEF Results, Cached
  <2>2. v \in Vals => v \in 0 .. 127 BY <1>2
  <2> QED BY <2>1, <2>2, <1>1, <1>4
<1> QED BY <1>3, <1>4

LEMMA ComparesOnly ==
    ASSUME data \in [Node -> Datum], NEW x \in Node, NEW y \in Node, NEW leq \in BOOLEAN,
           Compare(x, y, leq)
    PROVE  /\ data' \in [Node -> Datum] /\ SameIdx(data, data')
           /\ ms.cmp = "idx" => leq = (data[x].idx <= data[y].idx)
<1>1. CASE ms.cmp = "idx"
  <2>1. /\ leq = (data[x].idx <= data[y].idx)
        /\ data' = LowBytes(data, x, y, data[x].hi, data[y].hi)
    BY <1>1, Zenon DEF Compare, CmpIdx, LowBytes
  <2>2. data[x].hi \in 0 .. 255 /\ data[y].hi \in 0 .. 255
    <3>1. data[x] \in Datum /\ data[y] \in Datum OBVIOUS
    <3> QED BY <3>1 DEF Datum
  <2>3. PICK u \in 0 .. 255, v \in 0 .. 255 : data' = LowBytes(data, x, y, u, v) BY <2>1, <2>2, Zenon
  <2>4. data' \in [Node -> Datum] /\ SameIdx(data, data') BY <2>3, LowBytesOnly
  <2> QED BY <2>1, <2>4, Zenon
<1>2. CASE ms.cmp # "idx"
  <2>1. PICK va \in Results(data[x]), vb \in Results(data[y]) :
           data' = LowBytes(data, x, y, 128 + va, 128 + vb)
    BY <1>2, Zenon DEF Compare, CmpComplex, LowBytes
  <2>2. 128 + va \in 0 .. 255 /\ 128 + vb \in 0 .. 255
    <3>1. data[x] \in Datum /\ data[y] \in Datum OBVIOUS
    <3>2. va \in 0 .. 127 /\ vb \in 0 .. 127 BY <3>1, ResultsAre
    <3> QED BY <3>2
  <2>3. PICK u \in 0 .. 255, v \in 0 .. 255 : data' = LowBytes(data, x, y, u, v) BY <2>1, <2>2, Zenon
  <2> QED BY <2>3, <1>2, LowBytesOnly
<1> QED BY <1>1, <1>2

\* Two low bytes are written, the rest stays.
LEMMA LowBytesAre ==
    ASSUME NEW f \in [Node -> Datum], NEW x \in Node, NEW y \in Node, x # y, NEW u, NEW v,
           NEW g, g = LowBytes(f, x, y, u, v)
    PROVE  /\ g[x].lo = u /\ g[y].lo = v
           /\ \A n \in Node : g[n].idx = f[n].idx /\ g[n].hi = f[n].hi
           /\ \A n \in Node \ {x, y} : g[n] = f[n]
<1>1. ASSUME NEW d \in Datum, NEW e, NEW t, e = [d EXCEPT !.lo = t]
      PROVE  e.lo = t /\ e.idx = d.idx /\ e.hi = d.hi
  BY <1>1 DEF Datum
<1>2. PICK dx, dy : dx = [f[x] EXCEPT !.lo = u] /\ dy = [f[y] EXCEPT !.lo = v] OBVIOUS
<1>3. g = [f EXCEPT ![x] = dx, ![y] = dy]
  <2>1. g = [f EXCEPT ![x].lo = u, ![y].lo = v] BY DEF LowBytes
  <2> QED BY <2>1, <1>2
<1>4. g[x] = dx /\ g[y] = dy /\ \A n \in Node \ {x, y} : g[n] = f[n] BY <1>3
<1>5. /\ dx.lo = u /\ dx.idx = f[x].idx /\ dx.hi = f[x].hi
      /\ dy.lo = v /\ dy.idx = f[y].idx /\ dy.hi = f[y].hi
  BY <1>1, <1>2
<1> QED BY <1>4, <1>5

LEMMA CompareOrders ==
    ASSUME data \in [Node -> Datum], NEW x \in Node, NEW y \in Node, x # y, NEW leq \in BOOLEAN,
           Compare(x, y, leq)
    PROVE  Compared(InOrder(ms.cmp, data), InOrder(ms.cmp, data'), x, y, leq)
<1> DEFINE R == InOrder(ms.cmp, data)
           R1 == InOrder(ms.cmp, data')
<1>1. PICK u, v : /\ data' = LowBytes(data, x, y, u, v)
                  /\ ms.cmp = "idx" => /\ u = data[x].hi /\ v = data[y].hi
                                       /\ leq = (data[x].idx <= data[y].idx)
                  /\ ms.cmp # "idx" => \E va \in Results(data[x]), vb \in Results(data[y]) :
                                          u = 128 + va /\ v = 128 + vb /\ leq = (va <= vb)
  <2>1. CASE ms.cmp = "idx"
    <3>1. /\ leq = (data[x].idx <= data[y].idx)
          /\ data' = LowBytes(data, x, y, data[x].hi, data[y].hi)
      BY <2>1, Zenon DEF Compare, CmpIdx, LowBytes
    <3> QED BY <2>1, <3>1, Zenon
  <2>2. CASE ms.cmp # "idx"
    <3>1. PICK va \in Results(data[x]), vb \in Results(data[y]) :
             leq = (va <= vb) /\ data' = LowBytes(data, x, y, 128 + va, 128 + vb)
      BY <2>2, Zenon DEF Compare, CmpComplex, LowBytes
    <3> QED BY <2>2, <3>1, Zenon
  <2> QED BY <2>1, <2>2
<1>2. /\ data'[x].lo = u /\ data'[y].lo = v
      /\ \A n \in Node : data'[n].idx = data[n].idx /\ data'[n].hi = data[n].hi
      /\ \A n \in Node \ {x, y} : data'[n] = data[n]
  BY <1>1, LowBytesAre
<1>3. /\ \A n \in Node : Known(ms.cmp, data[n]) =>
            Known(ms.cmp, data'[n]) /\ Key(ms.cmp, data'[n]) = Key(ms.cmp, data[n])
      /\ Known(ms.cmp, data'[x]) /\ Known(ms.cmp, data'[y])
      /\ leq => Key(ms.cmp, data'[x]) <= Key(ms.cmp, data'[y])
      /\ ~leq => Key(ms.cmp, data'[y]) <= Key(ms.cmp, data'[x])
  <2>1. CASE ms.cmp = "idx"
    <3>1. \A d : Known(ms.cmp, d) <=> d.lo = d.hi BY <2>1 DEF Known
    <3>2. \A d : Key(ms.cmp, d) = d.idx BY <2>1 DEF Key
    <3>3. u = data[x].hi /\ v = data[y].hi BY <2>1, <1>1
    <3>4. \A n \in Node : data[n].lo = data[n].hi => data'[n].lo = data'[n].hi
      <4>1. ASSUME NEW n \in Node, data[n].lo = data[n].hi PROVE data'[n].lo = data'[n].hi
        <5>1. CASE n = x BY <5>1, <3>3, <1>2
        <5>2. CASE n = y BY <5>2, <3>3, <1>2
        <5>3. CASE n \notin {x, y} BY <5>3, <4>1, <1>2
        <5> QED BY <5>1, <5>2, <5>3
      <4> QED BY <4>1
    <3>5. data'[x].lo = data'[x].hi /\ data'[y].lo = data'[y].hi BY <3>3, <1>2
    <3>6. leq => data[x].idx <= data[y].idx BY <2>1, <1>1, Zenon
    <3>7. ~leq => data[y].idx <= data[x].idx
      <4>1. ASSUME ~leq PROVE ~(data[x].idx <= data[y].idx) BY <4>1, <2>1, <1>1, Zenon
      <4>2. ASSUME NEW d \in Datum, NEW e \in Datum, ~(d.idx <= e.idx) PROVE e.idx <= d.idx
        BY <4>2, MaxIdxIs DEF Datum
      <4> QED BY <4>1, <4>2
    <3> QED BY <3>1, <3>2, <3>4, <3>5, <3>6, <3>7, <1>2
  <2>2. CASE ms.cmp # "idx"
    <3>1. \A d : Known(ms.cmp, d) <=> d.lo >= 128 BY <2>2 DEF Known
    <3>2. \A d : Key(ms.cmp, d) = d.lo BY <2>2 DEF Key
    <3>3. PICK va \in Results(data[x]), vb \in Results(data[y]) :
             u = 128 + va /\ v = 128 + vb /\ leq = (va <= vb)
      BY <2>2, <1>1
    <3>4. va \in 0 .. 127 /\ vb \in 0 .. 127
      <4>1. ASSUME NEW d \in Datum, NEW r \in Results(d) PROVE r \in 0 .. 127
        BY ResultsAre
      <4> QED BY <4>1
    <3>5. \A n \in Node : data[n].lo >= 128 => data'[n].lo >= 128 /\ data'[n].lo = data[n].lo
      <4>1. ASSUME NEW n \in Node, data[n].lo >= 128
            PROVE  data'[n].lo >= 128 /\ data'[n].lo = data[n].lo
        <5>1. ASSUME NEW d \in Datum, d.lo >= 128, NEW r \in Results(d) PROVE 128 + r = d.lo
          BY <5>1, ResultsAre
        <5>2. CASE n = x BY <5>1, <5>2, <4>1, <3>3, <1>2
        <5>3. CASE n = y BY <5>1, <5>3, <4>1, <3>3, <1>2
        <5>4. CASE n \notin {x, y} BY <5>4, <4>1, <1>2
        <5> QED BY <5>2, <5>3, <5>4
      <4> QED BY <4>1
    <3>6. u >= 128 /\ v >= 128 /\ (va <= vb => u <= v) /\ (~(va <= vb) => v <= u) BY <3>3, <3>4
    <3>7. (leq => u <= v) /\ (~leq => v <= u) BY <3>3, <3>6, Zenon
    <3> QED BY <3>1, <3>2, <3>5, <3>6, <3>7, <1>2
  <2> QED BY <2>1, <2>2
<1>4. R \subseteq R1
  <2> SUFFICES ASSUME NEW r \in R PROVE r \in R1 OBVIOUS
  <2>1. PICK m \in Node, n \in Node : r = <<m, n>> BY DEF InOrder
  <2>2. Known(ms.cmp, data[m]) /\ Known(ms.cmp, data[n]) /\ Key(ms.cmp, data[m]) <= Key(ms.cmp, data[n])
    BY <2>1, InOrderPair
  <2>3. /\ Known(ms.cmp, data'[m]) /\ Known(ms.cmp, data'[n])
        /\ Key(ms.cmp, data'[m]) <= Key(ms.cmp, data'[n])
    BY <2>2, <1>3
  <2> QED BY <2>1, <2>3, InOrderPair
<1>5. leq => <<x, y>> \in R1 BY <1>3, InOrderPair
<1>6. ~leq => <<y, x>> \in R1 BY <1>3, InOrderPair
<1> QED BY <1>4, <1>5, <1>6 DEF Compared

\* The next element is linked, from p or from q.
LEMMA LinkStep ==
    ASSUME IInv, pc = "sort", NEW fromP \in BOOLEAN, Link(fromP),
           data' \in [Node -> Datum], Indices',
           fromP => ms.psize > 0, ~fromP => ms.qsize > 0 /\ ms.q # NULL,
           ms.cmp = "idx" /\ fromP /\ ms.qsize > 0 /\ ms.q # NULL => ms.q # 0,
           ms.cmp = "idx" /\ ~fromP /\ ms.psize > 0 => ms.p # 0,
           InOrder(ms.cmp, data) \subseteq InOrder(ms.cmp, data'),
           fromP /\ ms.qsize > 0 /\ ms.q # NULL => <<ms.p, ms.q>> \in InOrder(ms.cmp, data'),
           ~fromP /\ ms.psize > 0 => <<ms.q, ms.p>> \in InOrder(ms.cmp, data')
    PROVE  IInv'
<1> DEFINE e    == IF fromP THEN ms.p ELSE ms.q
           p1   == IF fromP THEN next[ms.p] ELSE ms.p
           q1   == IF fromP THEN ms.q ELSE next[ms.q]
           ps   == IF fromP THEN ms.psize - 1 ELSE ms.psize
           qs   == IF fromP THEN ms.qsize ELSE ms.qsize - 1
           over == ps = 0 /\ (qs = 0 \/ q1 = NULL)
           head == IF ms.tail = NULL THEN e ELSE ms.head
           p2   == IF over THEN q1 ELSE p1
<1>1. /\ cfg' = cfg /\ info' = info /\ free' = free /\ list' = list /\ resList' = resList
      /\ remover' = remover /\ i' = i /\ arg' = arg /\ iter' = iter /\ pc' = pc
  BY Zenon DEF Link
<1>2. ms' = [ms EXCEPT !.tail = e, !.head = head, !.p = p2, !.q = q1, !.psize = ps, !.qsize = qs]
  BY Zenon DEF Link
<1>3. next' = Appended(next, ms.tail, e) BY Zenon DEF Link, Appended
<1>4. next \in [Node -> Node \cup {NULL}] /\ free \in 1 .. Size
  BY TypedState DEF IInv, Types
<1>5. PICK w, a, b : Sorting(w, a, b) BY DEF IInv, Shape
<1>6. /\ w \in Arranged(free) /\ a \in 0 .. free /\ b \in 0 .. free
      /\ ms \in MsTypes /\ ms.insize > 0 /\ (ms.cmp = "idx" <=> ms.then # "remove")
      /\ Sorted(next, ms, w, free, a, b)
      /\ ms.cmp = "idx" => Leads(ms, w, free, a, b)
      /\ Ranked(data, ms, w, free, a, b)
  BY <1>5 DEF Sorting
<1>7. /\ ms.psize \in Nat /\ ms.qsize \in Nat
      /\ {ms.head, ms.p, ms.q, ms.tail} \subseteq Node \cup {NULL}
  BY <1>6 DEF MsTypes
<1>8. ASSUME e \in Node \cup {NULL}, p2 \in Node \cup {NULL}, q1 \in Node \cup {NULL},
             ps \in Nat, qs \in Nat
      PROVE  /\ ms' \in MsTypes /\ ms'.tail = e /\ ms'.head = head /\ ms'.p = p2 /\ ms'.q = q1
             /\ ms'.psize = ps /\ ms'.qsize = qs /\ ms'.cmp = ms.cmp /\ ms'.then = ms.then
             /\ ms'.insize = ms.insize /\ ms'.nmerges = ms.nmerges
  <2>1. head \in Node \cup {NULL} BY <1>7, <1>8
  <2>2. ms \in MsTypes BY <1>6
  <2> HIDE DEF e, head, p2, q1, ps, qs
  <2> QED BY <2>1, <2>2, <1>2, <1>8 DEF MsTypes
<1>9. PICK R, R1 : R = InOrder(ms.cmp, data) /\ R1 = InOrder(ms.cmp, data') OBVIOUS
<1>10. /\ Reaches(ms, free, a, b) /\ Ordered(R, ms, w, free, a, b)
       /\ R \subseteq R1 /\ Transitive(R1)
       /\ fromP /\ ms.qsize > 0 /\ ms.q # NULL => <<ms.p, ms.q>> \in R1
       /\ ~fromP /\ ms.psize > 0 => <<ms.q, ms.p>> \in R1
  BY <1>6, <1>9, InOrderTransitive DEF Ranked
<1>11. CASE fromP
  <2>1. e = ms.p /\ p1 = next[ms.p] /\ q1 = ms.q /\ ps = ms.psize - 1 /\ qs = ms.qsize
        /\ over = (ms.psize - 1 = 0 /\ (ms.qsize = 0 \/ ms.q = NULL))
    BY <1>11
  <2>2. a < b /\ ms.p = w[a + 1] /\ ms.p \in Node
    <3>1. a < b BY <1>6, <1>7, <1>11 DEF Sorted
    <3>2. a + 1 \in 1 .. free BY <3>1, <1>4, <1>6
    <3> QED BY <3>1, <3>2, <1>4, <1>6, ArrangedOnce DEF Sorted
  <2>3. /\ ms' \in MsTypes /\ ms'.tail = ms.p /\ ms'.head = (IF ms.tail = NULL THEN ms.p ELSE ms.head)
        /\ ms'.p = (IF ms.psize - 1 = 0 /\ (ms.qsize = 0 \/ ms.q = NULL) THEN ms.q ELSE next[ms.p])
        /\ ms'.q = ms.q /\ ms'.psize = ms.psize - 1 /\ ms'.qsize = ms.qsize /\ ms'.cmp = ms.cmp
        /\ ms'.then = ms.then /\ ms'.insize = ms.insize /\ ms'.nmerges = ms.nmerges
    <3>1. next[ms.p] \in Node \cup {NULL} BY <2>2, <1>4
    <3>2. ps \in Nat /\ qs \in Nat /\ e \in Node \cup {NULL} /\ q1 \in Node \cup {NULL}
      BY <2>1, <1>7, <1>11
    <3>3. p2 \in Node \cup {NULL} BY <2>1, <3>1, <1>7
    <3>4. /\ ms' \in MsTypes /\ ms'.tail = e /\ ms'.head = head /\ ms'.p = p2 /\ ms'.q = q1
          /\ ms'.psize = ps /\ ms'.qsize = qs /\ ms'.cmp = ms.cmp /\ ms'.then = ms.then
          /\ ms'.insize = ms.insize /\ ms'.nmerges = ms.nmerges
      BY <3>2, <3>3, <1>8
    <3>5. head = (IF ms.tail = NULL THEN ms.p ELSE ms.head) BY <2>1
    <3>6. p2 = (IF ms.psize - 1 = 0 /\ (ms.qsize = 0 \/ ms.q = NULL) THEN ms.q ELSE next[ms.p])
      BY <2>1
    <3> HIDE DEF e, head, p2, q1, ps, qs
    <3> QED BY <2>1, <3>4, <3>5, <3>6
  <2>4. next' \in [Node -> Node \cup {NULL}] /\ Sorted(next', ms', w, free, a + 1, b)
    <3>1. next' = Appended(next, ms.tail, ms.p) BY <2>1, <1>3
    <3>2. ASSUME NEW s1, s1 = ms' PROVE next' \in [Node -> Node \cup {NULL}] /\ Sorted(next', s1, w, free, a + 1, b)
      <4>1. /\ s1.tail = ms.p /\ s1.head = (IF ms.tail = NULL THEN ms.p ELSE ms.head)
            /\ s1.psize = ms.psize - 1 /\ s1.qsize = ms.qsize /\ s1.q = ms.q
            /\ s1.p = IF ms.psize - 1 = 0 /\ (ms.qsize = 0 \/ ms.q = NULL) THEN ms.q ELSE next[ms.p]
        BY <3>2, <2>3
      <4>2. Sorted(next, ms, w, free, a, b) /\ ms \in MsTypes BY <1>6
      <4> QED BY <4>1, <4>2, <3>1, <2>2, <1>4, <1>6, LinkFromP
    <3> QED BY <3>2
  <2>5. ms.cmp = "idx" => Leads(ms', w, free, a + 1, b)
    <3>1. ASSUME ms.cmp = "idx", NEW s1, s1 = ms' PROVE Leads(s1, w, free, a + 1, b)
      <4>1. /\ s1.psize = ms.psize - 1 /\ s1.qsize = ms.qsize /\ s1.q = ms.q
            /\ s1.insize = ms.insize /\ s1.nmerges = ms.nmerges
        BY <3>1, <2>3
      <4>2. Sorted(next, ms, w, free, a, b) /\ ms \in MsTypes /\ ms.insize > 0
            /\ Leads(ms, w, free, a, b)
        BY <3>1, <1>6
      <4>3. ms.qsize > 0 /\ ms.q # NULL => ms.q # 0 BY <3>1, <1>11
      <4> QED BY <4>1, <4>2, <4>3, <2>2, <1>4, <1>6, LeadsFromP
    <3> QED BY <3>1
  <2>6. Ranked(data', ms', w, free, a + 1, b)
    <3>1. ASSUME NEW s1, s1 = ms' PROVE Reaches(s1, free, a + 1, b) /\ Ordered(R1, s1, w, free, a + 1, b)
      <4>1. /\ s1.psize = ms.psize - 1 /\ s1.qsize = ms.qsize /\ s1.q = ms.q
            /\ s1.insize = ms.insize /\ s1.nmerges = ms.nmerges
        BY <3>1, <2>3
      <4>2. Sorted(next, ms, w, free, a, b) /\ ms \in MsTypes BY <1>6
      <4>3. Reaches(s1, free, a + 1, b) BY <4>1, <4>2, <2>2, <1>4, <1>6, <1>10, ReachesFromP
      <4>4. Ordered(R1, s1, w, free, a + 1, b)
        BY <4>1, <4>2, <2>2, <1>4, <1>6, <1>11, <1>10, OrderedFromP
      <4> QED BY <4>3, <4>4
    <3>2. ms'.cmp = ms.cmp BY <2>3
    <3> QED BY <3>1, <3>2, <1>9 DEF Ranked
  <2>7. Sorting(w, a + 1, b)'
    <3>1. a + 1 \in 0 .. free BY <2>2, <1>4, <1>6
    <3> QED BY <3>1, <2>3, <2>4, <2>5, <2>6, <1>1, <1>6 DEF Sorting
  <2>8. \E v, x, y : Sorting(v, x, y)' BY <2>7, Zenon
  <2>9. pc' = "sort" BY <1>1
  <2> QED BY <2>3, <2>4, <2>8, <2>9, <1>1, StillSorting
<1>12. CASE ~fromP
  <2>1. e = ms.q /\ p1 = ms.p /\ q1 = next[ms.q] /\ ps = ms.psize /\ qs = ms.qsize - 1
        /\ over = (ms.psize = 0 /\ (ms.qsize - 1 = 0 \/ next[ms.q] = NULL))
    BY <1>12
  <2>2. ms.q \in Node /\ next[ms.q] \in Node \cup {NULL} BY <1>4, <1>7, <1>12
  <2>3. /\ ms' \in MsTypes /\ ms'.tail = ms.q /\ ms'.head = (IF ms.tail = NULL THEN ms.q ELSE ms.head)
        /\ ms'.p = (IF ms.psize = 0 /\ (ms.qsize - 1 = 0 \/ next[ms.q] = NULL) THEN next[ms.q] ELSE ms.p)
        /\ ms'.q = next[ms.q] /\ ms'.psize = ms.psize /\ ms'.qsize = ms.qsize - 1 /\ ms'.cmp = ms.cmp
        /\ ms'.then = ms.then /\ ms'.insize = ms.insize /\ ms'.nmerges = ms.nmerges
    <3>1. ps \in Nat /\ qs \in Nat /\ e \in Node \cup {NULL} /\ q1 \in Node \cup {NULL}
      BY <2>1, <2>2, <1>7, <1>12
    <3>2. p2 \in Node \cup {NULL} BY <2>1, <2>2, <1>7
    <3>3. /\ ms' \in MsTypes /\ ms'.tail = e /\ ms'.head = head /\ ms'.p = p2 /\ ms'.q = q1
          /\ ms'.psize = ps /\ ms'.qsize = qs /\ ms'.cmp = ms.cmp /\ ms'.then = ms.then
          /\ ms'.insize = ms.insize /\ ms'.nmerges = ms.nmerges
      BY <3>1, <3>2, <1>8
    <3>4. head = (IF ms.tail = NULL THEN ms.q ELSE ms.head) BY <2>1
    <3>5. p2 = (IF ms.psize = 0 /\ (ms.qsize - 1 = 0 \/ next[ms.q] = NULL) THEN next[ms.q] ELSE ms.p)
      BY <2>1
    <3> HIDE DEF e, head, p2, q1, ps, qs
    <3> QED BY <2>1, <3>3, <3>4, <3>5
  <2>4. PICK v : v = Moved(w, free, a + 1, b + 1) OBVIOUS
  <2>5. /\ b + 1 \in 1 .. free /\ next[ms.q] = At(w, free, b + 2)
        /\ next' \in [Node -> Node \cup {NULL}] /\ v \in Arranged(free)
        /\ Sorted(next', ms', v, free, a + 1, b + 1)
    <3>1. next' = Appended(next, ms.tail, ms.q) BY <2>1, <1>3
    <3>2. ASSUME NEW s1, s1 = ms'
          PROVE  /\ b + 1 \in 1 .. free /\ next[ms.q] = At(w, free, b + 2)
                 /\ next' \in [Node -> Node \cup {NULL}] /\ v \in Arranged(free)
                 /\ Sorted(next', s1, v, free, a + 1, b + 1)
      <4>1. /\ s1.tail = ms.q /\ s1.head = (IF ms.tail = NULL THEN ms.q ELSE ms.head)
            /\ s1.psize = ms.psize /\ s1.qsize = ms.qsize - 1 /\ s1.q = next[ms.q]
            /\ s1.p = IF ms.psize = 0 /\ (ms.qsize - 1 = 0 \/ next[ms.q] = NULL) THEN next[ms.q] ELSE ms.p
        BY <3>2, <2>3
      <4>2. Sorted(next, ms, w, free, a, b) /\ ms \in MsTypes BY <1>6
      <4> QED BY <4>1, <4>2, <3>1, <2>4, <1>4, <1>6, <1>12, LinkFromQ
    <3> QED BY <3>2
  <2>6. ms.cmp = "idx" => Leads(ms', v, free, a + 1, b + 1)
    <3>1. ASSUME ms.cmp = "idx", NEW s1, s1 = ms' PROVE Leads(s1, v, free, a + 1, b + 1)
      <4>1. /\ s1.psize = ms.psize /\ s1.qsize = ms.qsize - 1 /\ s1.q = At(w, free, b + 2)
            /\ s1.insize = ms.insize /\ s1.nmerges = ms.nmerges
        BY <3>1, <2>3, <2>5
      <4>2. Sorted(next, ms, w, free, a, b) /\ ms \in MsTypes /\ ms.insize > 0
            /\ Leads(ms, w, free, a, b)
        BY <3>1, <1>6
      <4>3. a < b => ms.p # 0 BY <3>1, <1>6, <1>7, <1>12 DEF Sorted
      <4> QED BY <4>1, <4>2, <4>3, <2>4, <2>5, <1>4, <1>6, <1>12, LeadsFromQ
    <3> QED BY <3>1
  <2>7. Ranked(data', ms', v, free, a + 1, b + 1)
    <3>1. ASSUME NEW s1, s1 = ms'
          PROVE  Reaches(s1, free, a + 1, b + 1) /\ Ordered(R1, s1, v, free, a + 1, b + 1)
      <4>1. /\ s1.psize = ms.psize /\ s1.qsize = ms.qsize - 1 /\ s1.q = At(w, free, b + 2)
            /\ s1.insize = ms.insize /\ s1.nmerges = ms.nmerges
        BY <3>1, <2>3, <2>5
      <4>2. Sorted(next, ms, w, free, a, b) /\ ms \in MsTypes BY <1>6
      <4>3. Reaches(s1, free, a + 1, b + 1)
        BY <4>1, <4>2, <2>5, <1>4, <1>6, <1>12, <1>10, ReachesFromQ
      <4>4. Ordered(R1, s1, v, free, a + 1, b + 1)
        BY <4>1, <4>2, <2>4, <2>5, <1>4, <1>6, <1>12, <1>10, OrderedFromQ
      <4> QED BY <4>3, <4>4
    <3>2. ms'.cmp = ms.cmp BY <2>3
    <3> QED BY <3>1, <3>2, <1>9 DEF Ranked
  <2>8. Sorting(v, a + 1, b + 1)'
    <3>1. a + 1 \in 0 .. free /\ b + 1 \in 0 .. free
      <4>1. a <= b BY <1>6 DEF Sorted
      <4> QED BY <4>1, <2>5, <1>4, <1>6
    <3> QED BY <3>1, <2>3, <2>5, <2>6, <2>7, <1>1, <1>6 DEF Sorting
  <2>9. \E u, x, y : Sorting(u, x, y)' BY <2>8, Zenon
  <2>10. pc' = "sort" BY <1>1
  <2> QED BY <2>3, <2>5, <2>9, <2>10, <1>1, StillSorting
<1> QED BY <1>11, <1>12

LEMMA MergeStepStep == IInv /\ MergeStep => IInv'
<1> SUFFICES ASSUME IInv, MergeStep PROVE IInv' OBVIOUS
<1>1. pc = "sort" /\ Merging BY DEF MergeStep
<1>2. Types /\ Indices /\ Stage /\ Shape BY DEF IInv
<1>3. /\ data \in [Node -> Datum] /\ free \in 1 .. Size /\ free - 1 < Size
      /\ info = [n \in Node |-> n]
  BY <1>1, <1>2, TypedState, Sizes DEF Types, Stage
<1>4. PICK w, a, b : Sorting(w, a, b) BY <1>1, <1>2 DEF Shape
<1>5. /\ w \in Arranged(free) /\ a \in 0 .. free /\ b \in 0 .. free /\ ms \in MsTypes
      /\ Sorted(next, ms, w, free, a, b)
  BY <1>4 DEF Sorting
<1>6. /\ ms.psize \in Nat /\ ms.qsize \in Nat /\ ms.q \in Node \cup {NULL}
      /\ Merging <=> Busy(ms)
  BY <1>5 DEF MsTypes, Merging, Busy
<1>7. CASE ms.psize > 0 /\ ms.qsize > 0 /\ ms.q # NULL
  <2>1. PICK leq \in BOOLEAN : Compare(info[ms.p], info[ms.q], leq) /\ Link(leq)
    BY <1>7, Zenon DEF MergeStep
  <2>2. /\ ms.p \in Node /\ ms.q \in Node /\ ms.p # ms.q
        /\ ms.p \in 0 .. free - 1 /\ ms.q \in 0 .. free - 1
    <3>1. a < b /\ ms.p = w[a + 1] /\ ms.q = At(w, free, b + 1) /\ Busy(ms)
      BY <1>1, <1>5, <1>6, <1>7 DEF Sorted
    <3>2. b + 1 \in 1 .. free /\ ms.q = w[b + 1] BY <3>1, <1>7 DEF At
    <3>3. a + 1 \in 1 .. free /\ a + 1 # b + 1 BY <3>1, <1>3, <1>5
    <3>4. free \in 0 .. Size BY <1>3
    <3>5. w[a + 1] # w[b + 1] BY <3>2, <3>3, <1>3, <1>5, ArrangedOnce
    <3>6. /\ w[a + 1] \in Node /\ w[b + 1] \in Node
          /\ w[a + 1] \in 0 .. free - 1 /\ w[b + 1] \in 0 .. free - 1
      BY <3>2, <3>3, <3>4, <1>5, ArrangedNodes
    <3> QED BY <3>1, <3>2, <3>5, <3>6
  <2>3. Compare(ms.p, ms.q, leq) BY <2>1, <2>2, <1>3
  <2>4. /\ data' \in [Node -> Datum] /\ SameIdx(data, data')
        /\ ms.cmp = "idx" => leq = (data[ms.p].idx <= data[ms.q].idx)
    BY <2>2, <2>3, <1>3, ComparesOnly
  <2>5. free' = free BY <2>1, Zenon DEF Link
  <2>6. Indices'
    <3>1. \A n \in 0 .. free - 1 : n \in Node BY <1>3, Sizes
    <3>2. 0 \in 0 .. free - 1 /\ \A n \in 1 .. free - 1 : n \in 0 .. free - 1 BY <1>3
    <3>3. \A n \in 0 .. free - 1 : data'[n].idx = data[n].idx BY <3>1, <2>4 DEF SameIdx
    <3> QED BY <3>2, <3>3, <2>5, <1>2 DEF Indices
  <2>7. /\ data[0].idx = 0 /\ \A n \in 1 .. free - 1 : data[n].idx > 0
        /\ data[ms.p].idx \in Nat /\ data[ms.q].idx \in Nat
    <3>1. data[ms.p] \in Datum /\ data[ms.q] \in Datum BY <2>2, <1>3
    <3>2. \A d \in Datum : d.idx \in Nat BY MaxIdxIs DEF Datum
    <3> QED BY <3>1, <3>2, <1>2 DEF Indices
  <2>8. ms.cmp = "idx" /\ leq => ms.q # 0
    <3> SUFFICES ASSUME ms.cmp = "idx", leq, ms.q = 0 PROVE FALSE OBVIOUS
    <3>1. data[ms.p].idx <= data[ms.q].idx BY <2>4, Zenon
    <3>2. data[ms.p].idx > 0
      <4>1. ms.p \in 1 .. free - 1 BY <2>2, <1>3
      <4> QED BY <4>1, <2>7
    <3> QED BY <3>1, <3>2, <2>7
  <2>9. ms.cmp = "idx" /\ ~leq => ms.p # 0
    <3> SUFFICES ASSUME ms.cmp = "idx", ~leq, ms.p = 0 PROVE FALSE OBVIOUS
    <3>1. ~(data[ms.p].idx <= data[ms.q].idx) BY <2>4, Zenon
    <3> QED BY <3>1, <2>7
  <2>10. Compared(InOrder(ms.cmp, data), InOrder(ms.cmp, data'), ms.p, ms.q, leq)
    BY <2>2, <2>3, <1>3, CompareOrders
  <2>11. /\ InOrder(ms.cmp, data) \subseteq InOrder(ms.cmp, data')
         /\ leq => <<ms.p, ms.q>> \in InOrder(ms.cmp, data')
         /\ ~leq => <<ms.q, ms.p>> \in InOrder(ms.cmp, data')
    BY <2>10, Zenon DEF Compared
  <2> QED BY <2>1, <2>4, <2>6, <2>8, <2>9, <2>11, <1>1, <1>7, LinkStep
<1>8. CASE ~(ms.psize > 0 /\ ms.qsize > 0 /\ ms.q # NULL)
  <2>1. Link(ms.psize > 0) /\ data' = data BY <1>8, Zenon DEF MergeStep
  <2>2. free' = free BY <2>1, Zenon DEF Link
  <2>3. Indices' BY <2>1, <2>2, <1>2 DEF Indices
  <2>4. PICK fromP \in BOOLEAN : fromP = (ms.psize > 0)
    <3>1. (ms.psize > 0) \in BOOLEAN OBVIOUS
    <3> QED BY <3>1, Zenon
  <2>5. ~fromP => ms.qsize > 0 /\ ms.q # NULL BY <2>4, <1>1, <1>6 DEF Busy
  <2>6. data' \in [Node -> Datum] /\ Link(fromP) BY <2>1, <2>4, <1>3
  <2>7. InOrder(ms.cmp, data) \subseteq InOrder(ms.cmp, data') BY <2>1
  <2>8. ~(fromP /\ ms.qsize > 0 /\ ms.q # NULL) /\ ~(~fromP /\ ms.psize > 0) BY <2>4, <1>8
  <2> QED BY <2>3, <2>4, <2>5, <2>6, <2>7, <2>8, <1>1, LinkStep
<1> QED BY <1>7, <1>8

\* Every step of the program keeps the invariant.
LEMMA NextIInv == IInv /\ [Next]_vars => IInv'
<1> SUFFICES ASSUME IInv, [Next]_vars PROVE IInv' OBVIOUS
<1>1. \/ Insert \/ Index \/ MergeStep \/ NextMerge \/ EndPass \/ Begin \/ FindStep
      \/ SortData \/ Remove \/ UndoRemove \/ Return \/ UNCHANGED vars
  BY Zenon DEF Next
<1> QED BY <1>1, InsertStep, IndexStep, MergeStepStep, NextMergeStep, EndPassStep, BeginStep,
           FindStepStep, SortDataStep, RemoveStep, UndoRemoveStep, ReturnStep, StutterStep

----------------------------------------------------------------------------
(* What the invariant says of the list. *)

\* An item is put aside from core_list_remove to core_list_undo_remove only.
Aside == pc # "undo" => remover = NULL

LEMMA InitAside == Init => Aside
BY DEF Init, Aside

LEMMA NextAside == Aside /\ [Next]_vars => Aside'
<1> SUFFICES ASSUME Aside, [Next]_vars PROVE Aside' OBVIOUS
<1>1. CASE Remove BY <1>1 DEF Remove, Aside
<1>2. CASE UndoRemove BY <1>2 DEF UndoRemove, Aside
<1>3. CASE UNCHANGED vars BY <1>3 DEF vars, Aside
<1>4. ASSUME pc # "undo", remover' = remover PROVE Aside' BY <1>4 DEF Aside
<1>5. CASE Insert
  <2>1. pc # "undo" /\ remover' = remover BY <1>5, Zenon DEF Insert
  <2> QED BY <2>1, <1>4
<1>6. CASE Index
  <2>1. pc # "undo" /\ remover' = remover BY <1>6, Zenon DEF Index
  <2> QED BY <2>1, <1>4
<1>7. CASE MergeStep
  <2>1. remover' = remover
    <3>1. \E fromP : Link(fromP) BY <1>7, Zenon DEF MergeStep
    <3> QED BY <3>1, Zenon DEF Link
  <2>2. pc # "undo" BY <1>7 DEF MergeStep
  <2> QED BY <2>1, <2>2, <1>4
<1>8. CASE NextMerge
  <2>1. pc # "undo" /\ remover' = remover BY <1>8, Zenon DEF NextMerge
  <2> QED BY <2>1, <1>4
<1>9. CASE EndPass
  <2>1. pc # "undo" /\ remover' = remover BY <1>9, Zenon DEF EndPass
  <2> QED BY <2>1, <1>4
<1>10. CASE Begin
  <2>1. pc # "undo" /\ remover' = remover BY <1>10, Zenon DEF Begin
  <2> QED BY <2>1, <1>4
<1>11. CASE FindStep
  <2>1. pc # "undo" /\ remover' = remover BY <1>11, Zenon DEF FindStep
  <2> QED BY <2>1, <1>4
<1>12. CASE SortData
  <2>1. pc # "undo" /\ remover' = remover BY <1>12, Zenon DEF SortData
  <2> QED BY <2>1, <1>4
<1>13. CASE Return
  <2>1. pc # "undo" /\ remover' = remover BY <1>13, Zenon DEF Return
  <2> QED BY <2>1, <1>4
<1> QED BY <1>1, <1>2, <1>3, <1>5, <1>6, <1>7, <1>8, <1>9, <1>10, <1>11, <1>12, <1>13 DEF Next

\* The pointers follow the n different nodes of v from list to NULL.
Thread(v, n) ==
    /\ v \in [1 .. n -> Node] /\ v[1] = list
    /\ \A k \in 1 .. n : next[v[k]] = At(v, n, k + 1)
    /\ \A j, k \in 1 .. n : v[j] = v[k] => j = k

Members(v, n, S) == \A x : x \in S <=> \E k \in 1 .. n : x = v[k]

\* Pointers that follow a sequence of different nodes from list to NULL make a
\* chain of just these nodes, each once.
LEMMA ChainCounts ==
    ASSUME next \in [Node -> Node \cup {NULL}], NEW n \in 1 .. Size, NEW v, Thread(v, n),
           NEW S, Members(v, n, S)
    PROVE  /\ {Chain(list)[k] : k \in DOMAIN Chain(list)} = S
           /\ Len(Chain(list)) = Cardinality(S)
<1> USE DEF Thread, Members
<1>1. n \in Nat /\ n \in 0 .. Size /\ 0 \in 0 .. n /\ 1 \in 1 .. n BY Sizes
<1>2. Chain(list) = v
  <2>1. At(v, n, 0 + 1) = list BY <1>1 DEF At
  <2>2. ChainOf(next, At(v, n, 0 + 1)) = Suffix(v, n, 0)
    <3>1. \A k \in 0 + 1 .. n : next[v[k]] = At(v, n, k + 1) OBVIOUS
    <3> QED BY <3>1, <1>1, ChainFrom
  <2>3. Suffix(v, n, 0) = v
    <3>1. n - 0 = n /\ \A k \in 1 .. n : 0 + k = k BY <1>1
    <3>2. v = [k \in 1 .. n |-> v[k]] OBVIOUS
    <3> QED BY <3>1, <3>2 DEF Suffix
  <2> QED BY <2>1, <2>2, <2>3 DEF Chain
<1>3. DOMAIN v = 1 .. n /\ Len(v) = n BY <1>1
<1>4. Cardinality(S) = n
  <2>1. v \in Bijection(1 .. n, S)
    <3>1. v \in [1 .. n -> S]
      <4>1. v = [k \in 1 .. n |-> v[k]] OBVIOUS
      <4> QED BY <4>1
    <3>2. v \in Injection(1 .. n, S)
      <4>1. \A j, k \in 1 .. n : v[j] = v[k] => j = k BY DEF Thread
      <4>2. IsInjective(v) BY <4>1, <3>1 DEF IsInjective
      <4> QED BY <3>1, <4>2, Zenon DEF Injection
    <3>3. \A x \in S : \E k \in 1 .. n : v[k] = x OBVIOUS
    <3>4. v \in Surjection(1 .. n, S) BY <3>1, <3>3 DEF Surjection
    <3> QED BY <3>2, <3>4 DEF Bijection
  <2>2. ExistsBijection(1 .. n, S) BY <2>1 DEF ExistsBijection
  <2> QED BY <2>2, <1>1, FS_CountingElements
<1>5. {v[k] : k \in 1 .. n} = S OBVIOUS
<1> QED BY <1>2, <1>3, <1>4, <1>5

LEMMA ListIsWhole == IInv /\ Aside => ListWhole
<1> SUFFICES ASSUME IInv, Aside, pc \notin {"sort", "end"}
             PROVE  /\ {Chain(list)[k] : k \in DOMAIN Chain(list)} = (0 .. free - 1) \ {remover}
                    /\ Len(Chain(list)) = Cardinality((0 .. free - 1) \ {remover})
                    /\ \A m, n \in 0 .. free - 1 : info[m] = info[n] => m = n
  BY Zenon DEF ListWhole
<1>1. Types /\ Stage /\ Shape /\ TypeOK BY DEF IInv, Types
<1>2. next \in [Node -> Node \cup {NULL}] /\ free \in 1 .. Size /\ free \in 0 .. Size
  BY <1>1, TypedState
<1>3. \A n \in 0 .. free - 1 : n \in Node BY <1>2, Sizes
<1>4. CASE pc # "undo"
  <2>1. PICK w : Listed(w) BY <1>1, <1>4 DEF Shape
  <2>2. w \in Arranged(free) /\ w[1] = list /\ \A k \in 1 .. free : next[w[k]] = At(w, free, k + 1)
    BY <2>1 DEF Listed, Linked
  <2>3. w \in [1 .. free -> Node] /\ \A j, k \in 1 .. free : w[j] = w[k] => j = k
    BY <2>2, <1>2, ArrangedOnce
  <2>4. (0 .. free - 1) \ {remover} = 0 .. free - 1
    <3>1. remover = NULL BY <1>4 DEF Aside
    <3> QED BY <3>1, <1>2, Sizes
  <2>5. \A x : x \in 0 .. free - 1 <=> \E k \in 1 .. free : x = w[k] BY <2>2 DEF Arranged
  <2>6. \A m, n \in 0 .. free - 1 : info[m] = info[n] => m = n BY <1>1, <1>3, <1>4 DEF Stage
  <2>7. PICK S : S = (0 .. free - 1) \ {remover} OBVIOUS
  <2>8. /\ {Chain(list)[k] : k \in DOMAIN Chain(list)} = S
        /\ Len(Chain(list)) = Cardinality(S)
    <3>1. Thread(w, free) BY <2>2, <2>3 DEF Thread
    <3>2. Members(w, free, S) BY <2>4, <2>5, <2>7 DEF Members
    <3> QED BY <3>1, <3>2, <1>2, ChainCounts
  <2> QED BY <2>6, <2>7, <2>8
<1>5. CASE pc = "undo"
  <2>1. PICK w : Unlinked(w) BY <1>1, <1>5 DEF Shape
  <2>2. /\ w \in Arranged(free) /\ list = w[1] /\ remover = w[3]
        /\ next[w[2]] = At(w, free, 4)
        /\ \A k \in (1 .. free) \ {2, 3} : next[w[k]] = At(w, free, k + 1)
        /\ info = [n \in Node |-> IF n = w[2] THEN w[3] ELSE IF n = w[3] THEN w[2] ELSE n]
    BY <2>1 DEF Unlinked, Linked
  <2>3. /\ w \in [1 .. free -> Node]
        /\ \A j, k \in 1 .. free : w[j] = w[k] => j = k
        /\ \A x : x \in 0 .. free - 1 <=> \E k \in 1 .. free : x = w[k]
    <3>1. \A x : x \in 0 .. free - 1 <=> \E k \in 1 .. free : x = w[k] BY <2>2 DEF Arranged
    <3> QED BY <3>1, <2>2, <1>2, ArrangedOnce
  <2>4. free = Size - 1 /\ free >= 3 BY <1>1, <1>5, Sizes DEF Stage
  <2> DEFINE at(k) == IF k <= 2 THEN k ELSE k + 1
             v     == [k \in 1 .. free - 1 |-> w[at(k)]]
  <2>5. /\ \A k \in 1 .. free - 1 : at(k) \in 1 .. free /\ at(k) # 3
        /\ \A j, k \in 1 .. free - 1 : at(j) = at(k) => j = k
        /\ \A k \in (1 .. free) \ {3} : \E j \in 1 .. free - 1 : at(j) = k
    <3>1. ASSUME NEW k \in (1 .. free) \ {3} PROVE \E j \in 1 .. free - 1 : at(j) = k
      <4>1. CASE k <= 2
        <5>1. k \in 1 .. free - 1 /\ at(k) = k BY <4>1, <2>4
        <5> QED BY <5>1
      <4>2. CASE ~(k <= 2)
        <5>1. k - 1 \in 1 .. free - 1 /\ at(k - 1) = k BY <4>2, <2>4
        <5> QED BY <5>1
      <4> QED BY <4>1, <4>2
    <3>2. \A k \in 1 .. free - 1 : at(k) \in 1 .. free /\ at(k) # 3 BY <1>2, <2>4
    <3>3. \A j, k \in 1 .. free - 1 : at(j) = at(k) => j = k BY <1>2, <2>4
    <3> QED BY <3>1, <3>2, <3>3
  <2>6. at(1) = 1 /\ at(2) = 2 /\ \A k \in 3 .. free : at(k) = k + 1 BY <1>2, <2>4
  <2>7. free - 1 \in 1 .. Size /\ 1 \in 1 .. free - 1 /\ 2 \in 1 .. free - 1 BY <1>2, <2>4, Sizes
  <2> HIDE DEF at
  <2>8. /\ v \in [1 .. free - 1 -> Node] /\ v[1] = list
        /\ \A k \in 1 .. free - 1 : v[k] = w[at(k)]
    <3>1. \A k \in 1 .. free - 1 : v[k] = w[at(k)] OBVIOUS
    <3>2. v[1] = list BY <3>1, <2>2, <2>6, <2>7
    <3>3. v \in [1 .. free - 1 -> Node] BY <2>3, <2>5
    <3> QED BY <3>1, <3>2, <3>3
  <2> HIDE DEF v
  <2>9. \A j, k \in 1 .. free - 1 : v[j] = v[k] => j = k BY <2>3, <2>5, <2>8
  <2>10. ASSUME NEW k \in 1 .. free - 1 PROVE next[v[k]] = At(v, free - 1, k + 1)
    <3>1. At(v, free - 1, k + 1) = At(w, free, at(k + 1))
      <4>1. CASE k + 1 \in 1 .. free - 1 BY <4>1, <2>5, <2>8 DEF At
      <4>2. CASE k + 1 \notin 1 .. free - 1
        <5>1. k + 1 = free /\ at(k + 1) \notin 1 .. free
          <6>1. k + 1 = free /\ k + 1 \in 3 .. free BY <4>2, <2>4, <1>2
          <6>2. at(k + 1) = free + 1 BY <6>1, <2>6
          <6> QED BY <6>1, <6>2, <1>2
        <5> QED BY <5>1, <4>2 DEF At
      <4> QED BY <4>1, <4>2
    <3>2. CASE k = 1
      <4>1. at(k) = 1 /\ at(k + 1) = 2 /\ 1 \in (1 .. free) \ {2, 3} BY <3>2, <2>4, <2>6
      <4>2. next[w[1]] = At(w, free, 2)
        <5>1. 1 + 1 = 2 OBVIOUS
        <5> QED BY <4>1, <5>1, <2>2
      <4> QED BY <4>1, <4>2, <3>1, <2>8
    <3>3. CASE k = 2
      <4>1. at(k) = 2 /\ at(k + 1) = 4
        <5>1. k + 1 = 3 /\ 3 \in 3 .. free /\ 3 + 1 = 4 BY <3>3, <2>4
        <5> QED BY <3>3, <5>1, <2>6
      <4> QED BY <4>1, <3>1, <2>2, <2>8
    <3>4. CASE k \notin {1, 2}
      <4>1. k \in 3 .. free /\ k + 1 \in 3 .. free /\ k + 1 \in (1 .. free) \ {2, 3}
        BY <3>4, <2>4
      <4>2. at(k) = k + 1 /\ at(k + 1) = (k + 1) + 1 BY <4>1, <2>6
      <4> QED BY <4>1, <4>2, <3>1, <2>2, <2>8
    <3> QED BY <3>2, <3>3, <3>4
  <2>11. \A x : x \in (0 .. free - 1) \ {remover} <=> \E k \in 1 .. free - 1 : x = v[k]
    <3>1. ASSUME NEW x, x \in 0 .. free - 1, x # w[3] PROVE \E k \in 1 .. free - 1 : x = v[k]
      <4>1. PICK j \in 1 .. free : x = w[j] BY <3>1, <2>3
      <4>2. PICK k \in 1 .. free - 1 : at(k) = j BY <3>1, <4>1, <2>5
      <4> QED BY <4>1, <4>2, <2>8
    <3>2. ASSUME NEW k \in 1 .. free - 1 PROVE v[k] \in 0 .. free - 1 /\ v[k] # w[3]
      <4>1. v[k] = w[at(k)] /\ at(k) \in 1 .. free /\ at(k) # 3 /\ 3 \in 1 .. free
        BY <2>4, <2>5, <2>8
      <4> QED BY <4>1, <2>3
    <3> QED BY <3>1, <3>2, <2>2
  <2>12. \A m, n \in 0 .. free - 1 : info[m] = info[n] => m = n
    <3>1. \A n \in Node : info[n] = IF n = w[2] THEN w[3] ELSE IF n = w[3] THEN w[2] ELSE n
      BY <2>2
    <3> QED BY <3>1, <1>3
  <2>13. PICK n \in 1 .. Size : n = free - 1 BY <2>7
  <2>14. PICK S : S = (0 .. free - 1) \ {remover} OBVIOUS
  <2>15. /\ {Chain(list)[k] : k \in DOMAIN Chain(list)} = S
         /\ Len(Chain(list)) = Cardinality(S)
    <3>1. Thread(v, n) BY <2>8, <2>9, <2>10, <2>13 DEF Thread
    <3>2. Members(v, n, S) BY <2>11, <2>13, <2>14 DEF Members
    <3> QED BY <3>1, <3>2, <1>2, ChainCounts
  <2> QED BY <2>12, <2>14, <2>15
<1> QED BY <1>4, <1>5

----------------------------------------------------------------------------
(* What the sorts leave. *)

\* Every element of w is in order with all those behind it.
InRow(w, c) == \A j, k \in 1 .. free : j < k => <<w[j], w[k]>> \in InOrder(c, data)

\* The order that each of the two sorts of an iteration leaves behind.
Rows ==
    /\ pc = "remove" /\ arg = 1 => \E w : Listed(w) /\ InRow(w, "complex")
    /\ pc = "listdone" => \E w : Listed(w) /\ InRow(w, "idx")

LEMMA InitRows == Init => Rows
<1> SUFFICES ASSUME Init PROVE Rows OBVIOUS
<1>1. pc = "insert" BY DEF Init
<1> QED BY <1>1 DEF Rows

LEMMA EndPassRows == IInv /\ EndPass => Rows'
<1> SUFFICES ASSUME IInv, EndPass PROVE Rows' OBVIOUS
<1>1. /\ pc = "sort" /\ ~Busy(ms) /\ ms.p = NULL
      /\ next' = [next EXCEPT ![ms.tail] = NULL] /\ data' = data /\ free' = free
  BY Zenon DEF EndPass, Merging, Busy
<1>2. ms.nmerges <= 1 => list' = ms.head /\ pc' = ms.then BY Zenon DEF EndPass
<1>3. ~(ms.nmerges <= 1) => pc' = pc BY Zenon DEF EndPass
<1>4. next \in [Node -> Node \cup {NULL}] /\ free \in 1 .. Size
  BY TypedState DEF IInv, Types
<1>5. PICK w, a, b : Sorting(w, a, b) BY <1>1 DEF IInv, Shape
<1>6. /\ w \in Arranged(free) /\ a \in 0 .. free /\ b \in 0 .. free
      /\ ms \in MsTypes /\ ms.insize > 0 /\ (ms.cmp = "idx" <=> ms.then # "remove")
      /\ Sorted(next, ms, w, free, a, b)
      /\ Reaches(ms, free, a, b) /\ Ordered(InOrder(ms.cmp, data), ms, w, free, a, b)
  BY <1>5 DEF Sorting, Ranked
<1>7. a = free /\ b = free /\ ms.head = w[1] /\ Linked(next', w, free, {})
  <2>1. next' = Ended(next, ms.tail) BY <1>1 DEF Ended
  <2>2. /\ w \in Arranged(free) /\ ms \in MsTypes /\ ms.insize > 0 /\ a \in 0 .. free /\ b \in 0 .. free
        /\ Sorted(next, ms, w, free, a, b) /\ ~Busy(ms) /\ ms.p = NULL
    BY <1>1, <1>6
  <2> QED BY <2>1, <2>2, <1>4, PassEnds
<1>8. CASE ms.nmerges <= 1
  <2>1. Listed(w)' BY <1>1, <1>2, <1>6, <1>7, <1>8 DEF Listed
  <2>2. InRow(w, ms.cmp)
    <3>1. PICK R : R = InOrder(ms.cmp, data) OBVIOUS
    <3>2. Reaches(ms, free, free, free) /\ Ordered(R, ms, w, free, free, free) BY <3>1, <1>6, <1>7
    <3>3. \A j, k \in 1 .. free : j < k => <<w[j], w[k]>> \in R
      BY <3>2, <1>4, <1>6, <1>8, OrderedEnds
    <3> QED BY <3>1, <3>3 DEF InRow
  <2>3. pc' = "remove" => ms.cmp = "complex" BY <1>2, <1>6, <1>8 DEF MsTypes
  <2>4. pc' = "listdone" => ms.cmp = "idx" BY <1>2, <1>6, <1>8
  <2>5. InRow(w, "complex") => InRow(w, "complex")' BY <1>1 DEF InRow
  <2>6. InRow(w, "idx") => InRow(w, "idx")' BY <1>1 DEF InRow
  <2>7. pc' = "remove" => Listed(w)' /\ InRow(w, "complex")' BY <2>1, <2>2, <2>3, <2>5
  <2>8. pc' = "listdone" => Listed(w)' /\ InRow(w, "idx")' BY <2>1, <2>2, <2>4, <2>6
  <2> QED BY <2>7, <2>8, Zenon DEF Rows
<1>9. CASE ~(ms.nmerges <= 1)
  <2>1. pc' = "sort" BY <1>1, <1>3, <1>9
  <2> QED BY <2>1 DEF Rows
<1> QED BY <1>8, <1>9

\* The program comes to these two places by a sort only, or with a negative
\* finder index, which leaves the sort by content out.
LEMMA NextRows == IInv /\ Rows /\ [Next]_vars => Rows'
<1> SUFFICES ASSUME IInv, Rows, [Next]_vars PROVE Rows' OBVIOUS
<1>1. CASE EndPass BY <1>1, EndPassRows
<1>2. ASSUME pc' \notin {"remove", "listdone"} PROVE Rows' BY <1>2 DEF Rows
<1>3. CASE UNCHANGED vars
  <2>1. /\ pc' = pc /\ arg' = arg /\ next' = next /\ list' = list /\ free' = free /\ data' = data
    BY <1>3 DEF vars, heap
  <2>2. ASSUME NEW w, Listed(w) PROVE Listed(w)' BY <2>1, <2>2 DEF Listed
  <2>3. ASSUME NEW w, InRow(w, "complex") PROVE InRow(w, "complex")' BY <2>1, <2>3 DEF InRow
  <2>4. ASSUME NEW w, InRow(w, "idx") PROVE InRow(w, "idx")' BY <2>1, <2>4 DEF InRow
  <2> QED BY <2>1, <2>2, <2>3, <2>4, Zenon DEF Rows
<1>4. CASE SortData
  <2>1. arg > 0 => pc' = "sort" BY <1>4, Zenon DEF SortData, StartSort
  <2>2. ~(arg > 0) => pc' = "remove" BY <1>4, Zenon DEF SortData
  <2>3. arg' = arg BY <1>4, Zenon DEF SortData
  <2>4. arg' = 1 => pc' = "sort" BY <2>1, <2>3
  <2>5. pc' # "listdone" BY <2>1, <2>2
  <2> QED BY <2>4, <2>5 DEF Rows
<1>5. CASE Insert
  <2>1. pc' \in {"index", "insert"} BY <1>5 DEF Insert
  <2> QED BY <2>1, <1>2
<1>6. CASE Index
  <2>1. pc' = "sort" BY <1>6, Zenon DEF Index, StartSort
  <2> QED BY <2>1, <1>2
<1>7. CASE MergeStep
  <2>1. \E fromP : Link(fromP) BY <1>7, Zenon DEF MergeStep
  <2>2. pc' = pc /\ pc = "sort" BY <2>1, <1>7, Zenon DEF Link, MergeStep
  <2> QED BY <2>2, <1>2
<1>8. CASE NextMerge
  <2>1. pc' = pc /\ pc = "sort" BY <1>8, Zenon DEF NextMerge
  <2> QED BY <2>1, <1>2
<1>9. CASE Begin
  <2>1. pc' = "find" BY <1>9, Zenon DEF Begin
  <2> QED BY <2>1, <1>2
<1>10. CASE FindStep
  <2>1. pc' = pc /\ pc = "find" BY <1>10, Zenon DEF FindStep
  <2> QED BY <2>1, <1>2
<1>11. CASE Remove
  <2>1. pc' = "undo" BY <1>11, Zenon DEF Remove
  <2> QED BY <2>1, <1>2
<1>12. CASE UndoRemove
  <2>1. pc' = "sort" BY <1>12, Zenon DEF UndoRemove, StartSort
  <2> QED BY <2>1, <1>2
<1>13. CASE Return
  <2>1. pc' \in {"end", "find"} BY <1>13 DEF Return
  <2> QED BY <2>1, <1>2
<1> QED BY <1>1, <1>3, <1>4, <1>5, <1>6, <1>7, <1>8, <1>9, <1>10, <1>11, <1>12, <1>13 DEF Next

\* The chain of a list in a row, with every datum at its own node: every datum
\* is known to the comparison, and each two neighbours are in order.
LEMMA RowChain ==
    ASSUME IInv, pc \notin {"insert", "undo"}, NEW c, NEW w, Listed(w), InRow(w, c)
    PROVE  /\ Chain(list) = w /\ DOMAIN w = 1 .. free /\ Len(w) = free
           /\ \A k \in 1 .. free : w[k] \in Node /\ info[w[k]] = w[k]
           /\ \A k \in 1 .. free : Known(c, data[w[k]])
           /\ \A k \in 1 .. free - 1 : Key(c, data[w[k]]) <= Key(c, data[w[k + 1]])
<1>1. Types /\ Stage /\ TypeOK BY DEF IInv, Types
<1>2. next \in [Node -> Node \cup {NULL}] /\ free \in 1 .. Size BY <1>1, TypedState
<1>3. free = Size - 1 /\ info = [n \in Node |-> n] BY <1>1 DEF Stage
<1>4. free >= 3 BY <1>3, Sizes
<1>5. Chain(list) = w /\ Len(w) = free /\ DOMAIN w = 1 .. free BY <1>2, ListChain
<1>6. \A k \in 1 .. free : w[k] \in Node BY <1>2, ArrangedOnce DEF Listed
<1>7. \A k \in 1 .. free : info[w[k]] = w[k] BY <1>3, <1>6
<1>8. ASSUME NEW j \in 1 .. free, NEW k \in 1 .. free, j < k
      PROVE  /\ Known(c, data[w[j]]) /\ Known(c, data[w[k]])
             /\ Key(c, data[w[j]]) <= Key(c, data[w[k]])
  <2>1. <<w[j], w[k]>> \in InOrder(c, data) BY <1>8 DEF InRow
  <2>2. w[j] \in Node /\ w[k] \in Node BY <1>6
  <2> QED BY <2>1, <2>2, InOrderPair
<1>9. ASSUME NEW k \in 1 .. free PROVE Known(c, data[w[k]])
  <2>1. CASE k < free
    <3>1. free \in 1 .. free BY <1>2
    <3> QED BY <2>1, <3>1, <1>8
  <2>2. CASE ~(k < free)
    <3>1. 1 \in 1 .. free /\ 1 < k BY <2>2, <1>2, <1>4
    <3> QED BY <3>1, <1>8
  <2> QED BY <2>1, <2>2
<1>10. ASSUME NEW k \in 1 .. free - 1 PROVE Key(c, data[w[k]]) <= Key(c, data[w[k + 1]])
  <2>1. k \in 1 .. free /\ k + 1 \in 1 .. free /\ k < k + 1 BY <1>2
  <2> QED BY <2>1, <1>8
<1> QED BY <1>5, <1>6, <1>7, <1>9, <1>10

LEMMA RowSortOrders == IInv /\ Rows => SortOrders
<1> SUFFICES ASSUME IInv, Rows, pc = "remove", arg = 1
             PROVE  /\ \A k \in DOMAIN Chain(list) : data[info[Chain(list)[k]]].lo >= 128
                    /\ \A k \in 1 .. Len(Chain(list)) - 1 :
                          data[info[Chain(list)[k]]].lo <= data[info[Chain(list)[k + 1]]].lo
  BY Zenon DEF SortOrders
<1>1. PICK w : Listed(w) /\ InRow(w, "complex") BY DEF Rows
<1>2. pc \notin {"insert", "undo"} OBVIOUS
<1>3. /\ Chain(list) = w /\ DOMAIN w = 1 .. free /\ Len(w) = free
      /\ \A k \in 1 .. free : w[k] \in Node /\ info[w[k]] = w[k]
      /\ \A k \in 1 .. free : Known("complex", data[w[k]])
      /\ \A k \in 1 .. free - 1 : Key("complex", data[w[k]]) <= Key("complex", data[w[k + 1]])
  BY <1>1, <1>2, RowChain
<1>4. free \in 1 .. Size BY TypedState DEF IInv, Types
<1>5. \A k \in 1 .. free : data[w[k]].lo >= 128 BY <1>3 DEF Known
<1>6. \A k \in 1 .. free - 1 : data[w[k]].lo <= data[w[k + 1]].lo BY <1>3 DEF Key
<1>7. \A k \in 1 .. free - 1 : k \in 1 .. free /\ k + 1 \in 1 .. free BY <1>4
<1> QED BY <1>3, <1>5, <1>6, <1>7

\* What core_bench_list promises, but that items of equal index may change places.
BackInOrder ==
    pc = "listdone" =>
       LET c == Chain(list)
       IN  /\ list = resList
           /\ \A n \in 0 .. free - 1 : info[n] = n /\ data[n].lo = data[n].hi
           /\ \A k \in 1 .. Len(c) - 1 : data[info[c[k]]].idx <= data[info[c[k + 1]]].idx

\* No two items have the same index. core_list_init keeps only some bits of an
\* item's number and seed1: enough for the 31 nodes of core_portme.h's blocks
\* (ShortIdx), but not for lists of any length.
DistinctIdx == \A m, n \in 0 .. free - 1 : data[m].idx = data[n].idx => m = n

LEMMA RowRestored == IInv /\ Rows => BackInOrder /\ (DistinctIdx => ListRestored)
<1> SUFFICES ASSUME IInv, Rows, pc = "listdone"
             PROVE  /\ list = resList
                    /\ \A n \in 0 .. free - 1 : info[n] = n /\ data[n].lo = data[n].hi
                    /\ \A k \in 1 .. Len(Chain(list)) - 1 :
                          data[info[Chain(list)[k]]].idx <= data[info[Chain(list)[k + 1]]].idx
                    /\ DistinctIdx =>
                          \A k \in 1 .. Len(Chain(list)) - 1 :
                             data[info[Chain(list)[k]]].idx < data[info[Chain(list)[k + 1]]].idx
  BY Zenon DEF BackInOrder, ListRestored
<1>1. PICK w : Listed(w) /\ InRow(w, "idx") BY DEF Rows
<1>2. pc \notin {"insert", "undo"} OBVIOUS
<1>3. /\ Chain(list) = w /\ DOMAIN w = 1 .. free /\ Len(w) = free
      /\ \A k \in 1 .. free : w[k] \in Node /\ info[w[k]] = w[k]
      /\ \A k \in 1 .. free : Known("idx", data[w[k]])
      /\ \A k \in 1 .. free - 1 : Key("idx", data[w[k]]) <= Key("idx", data[w[k + 1]])
  BY <1>1, <1>2, RowChain
<1>4. free \in 1 .. Size /\ data \in [Node -> Datum] BY TypedState DEF IInv, Types
<1>5. list = resList
  <2>1. ~Early BY DEF Early
  <2> QED BY <2>1 DEF IInv, Stage
<1>6. ASSUME NEW n \in 0 .. free - 1 PROVE info[n] = n /\ data[n].lo = data[n].hi
  <2>1. PICK k \in 1 .. free : w[k] = n BY <1>1 DEF Listed, Arranged
  <2> QED BY <2>1, <1>3 DEF Known
<1>7. \A k \in 1 .. free - 1 : data[w[k]].idx <= data[w[k + 1]].idx BY <1>3 DEF Key
<1>8. ASSUME DistinctIdx, NEW k \in 1 .. free - 1 PROVE data[w[k]].idx < data[w[k + 1]].idx
  <2>1. k \in 1 .. free /\ k + 1 \in 1 .. free /\ k # k + 1 BY <1>4
  <2>2. free \in 0 .. Size BY <1>4
  <2>3. /\ w[k] \in 0 .. free - 1 /\ w[k + 1] \in 0 .. free - 1
        /\ w[k] \in Node /\ w[k + 1] \in Node
    BY <2>1, <2>2, <1>1, ArrangedNodes DEF Listed
  <2>4. w[k] # w[k + 1] BY <2>1, <1>1, <1>4, ArrangedOnce DEF Listed
  <2>5. data[w[k]].idx # data[w[k + 1]].idx BY <2>3, <2>4, <1>8 DEF DistinctIdx
  <2>6. data[w[k]].idx \in Nat /\ data[w[k + 1]].idx \in Nat
    <3>1. \A d \in Datum : d.idx \in Nat BY MaxIdxIs DEF Datum
    <3>2. data[w[k]] \in Datum /\ data[w[k + 1]] \in Datum BY <2>3, <1>4
    <3> QED BY <3>1, <3>2
  <2> QED BY <2>5, <2>6, <1>7
<1>9. \A k \in 1 .. free - 1 : k \in 1 .. free /\ k + 1 \in 1 .. free BY <1>4
<1> QED BY <1>3, <1>5, <1>6, <1>7, <1>8, <1>9

----------------------------------------------------------------------------
(* The numbers of the text: bits, bytes and ^. *)

\* What holds of 0 and goes from each number to the next holds up to N.
LEMMA Climb ==
    ASSUME NEW N \in Nat, NEW S, 0 \in S, \A k \in 0 .. N - 1 : k \in S => k + 1 \in S
    PROVE  \A k \in 0 .. N : k \in S
<1> DEFINE Bad == {k \in 0 .. N : k \notin S}
<1>1. SUFFICES ASSUME Bad # {} PROVE FALSE OBVIOUS
<1>2. PICK p \in Bad : \A q \in Bad : p <= q
  <2>1. Bad \in SUBSET Nat OBVIOUS
  <2> HIDE DEF Bad
  <2> QED BY <1>1, <2>1, LeastExists
<1>3. p \in 0 .. N /\ p \notin S /\ p # 0 OBVIOUS
<1>4. p - 1 \in 0 .. N - 1 /\ ~(p <= p - 1) /\ p - 1 + 1 = p BY <1>3
<1>5. p - 1 \in S
  <2>1. p - 1 \in 0 .. N BY <1>4
  <2>2. p - 1 \notin Bad BY <1>2, <1>4
  <2> QED BY <2>1, <2>2
<1> QED BY <1>3, <1>4, <1>5

\* The number of bits of which the first eight are clear.
LEMMA ByteOfBits ==
    ASSUME NEW b, \A k \in 1 .. 8 : ~b[k]
    PROVE  OfBits(b) = (IF b[9] THEN 128 ELSE 0) + (IF b[10] THEN 64 ELSE 0)
                       + (IF b[11] THEN 32 ELSE 0) + (IF b[12] THEN 16 ELSE 0)
                       + (IF b[13] THEN 8 ELSE 0) + (IF b[14] THEN 4 ELSE 0)
                       + (IF b[15] THEN 2 ELSE 0) + (IF b[16] THEN 1 ELSE 0)
<1> DEFINE f == CHOOSE f : Weighed(b, 16, f)
           D(k) == IF b[k] THEN Places[k] ELSE 0
<1>1. Weighed(b, 16, f)
  <2>1. \E g : Weighed(b, 16, g) BY WeighedExists
  <2> QED BY <2>1, Zenon
<1>2. OfBits(b) = f[16] BY Zenon DEF OfBits, Weighed
<1> HIDE DEF f
<1>3. f[0] = 0 /\ \A k \in 1 .. 16 : f[k] = f[k - 1] + D(k)
  <2>1. \A k \in 0 .. 16 : f[k] = IF k = 0 THEN 0 ELSE f[k - 1] + D(k) BY <1>1, SMT DEF Weighed
  <2> HIDE DEF D
  <2> QED BY <2>1, SMT
<1>4. \A k \in 1 .. 8 : D(k) = 0 BY SMT
<1>5. /\ D(9) = (IF b[9] THEN 128 ELSE 0) /\ D(10) = (IF b[10] THEN 64 ELSE 0)
      /\ D(11) = (IF b[11] THEN 32 ELSE 0) /\ D(12) = (IF b[12] THEN 16 ELSE 0)
      /\ D(13) = (IF b[13] THEN 8 ELSE 0) /\ D(14) = (IF b[14] THEN 4 ELSE 0)
      /\ D(15) = (IF b[15] THEN 2 ELSE 0) /\ D(16) = (IF b[16] THEN 1 ELSE 0)
  BY SMT DEF Places
<1> HIDE DEF D
<1>6. f[8] = 0
  <2>1. /\ f[1] = f[0] + D(1) /\ f[2] = f[1] + D(2) /\ f[3] = f[2] + D(3) /\ f[4] = f[3] + D(4)
        /\ f[5] = f[4] + D(5) /\ f[6] = f[5] + D(6) /\ f[7] = f[6] + D(7) /\ f[8] = f[7] + D(8)
    BY <1>3, SMT
  <2>2. D(1) = 0 /\ D(2) = 0 /\ D(3) = 0 /\ D(4) = 0 /\ D(5) = 0 /\ D(6) = 0 /\ D(7) = 0 /\ D(8) = 0
    BY <1>4, SMT
  <2> QED BY <2>1, <2>2, <1>3, SMT
<1>7. /\ f[9] = f[8] + D(9) /\ f[10] = f[9] + D(10) /\ f[11] = f[10] + D(11)
      /\ f[12] = f[11] + D(12) /\ f[13] = f[12] + D(13) /\ f[14] = f[13] + D(14)
      /\ f[15] = f[14] + D(15) /\ f[16] = f[15] + D(16)
  BY <1>3, SMT
<1> QED BY <1>2, <1>5, <1>6, <1>7, SMT

Byte == 0 .. 255

LEMMA ByteBits ==
    ASSUME NEW a \in Byte
    PROVE  /\ \A k \in 1 .. 8 : ~Bit(a, k)
           /\ Bit(a, 9) <=> (a \div 128) % 2 = 1
           /\ Bit(a, 10) <=> (a \div 64) % 2 = 1
           /\ Bit(a, 11) <=> (a \div 32) % 2 = 1
           /\ Bit(a, 12) <=> (a \div 16) % 2 = 1
           /\ Bit(a, 13) <=> (a \div 8) % 2 = 1
           /\ Bit(a, 14) <=> (a \div 4) % 2 = 1
           /\ Bit(a, 15) <=> (a \div 2) % 2 = 1
           /\ Bit(a, 16) <=> a % 2 = 1
<1>1. a \in Nat /\ a < 256 BY SMT DEF Byte
<1>2. ~Bit(a, 1) /\ ~Bit(a, 2) /\ ~Bit(a, 3) /\ ~Bit(a, 4) BY <1>1, SMT DEF Bit, Places
<1>3. ~Bit(a, 5) /\ ~Bit(a, 6) /\ ~Bit(a, 7) /\ ~Bit(a, 8) BY <1>1, SMT DEF Bit, Places
<1>4. (Bit(a, 9) <=> (a \div 128) % 2 = 1) /\ (Bit(a, 10) <=> (a \div 64) % 2 = 1)
  BY <1>1, SMT DEF Bit, Places
<1>5. (Bit(a, 11) <=> (a \div 32) % 2 = 1) /\ (Bit(a, 12) <=> (a \div 16) % 2 = 1)
  BY <1>1, SMT DEF Bit, Places
<1>6. (Bit(a, 13) <=> (a \div 8) % 2 = 1) /\ (Bit(a, 14) <=> (a \div 4) % 2 = 1)
  BY <1>1, SMT DEF Bit, Places
<1>7. (Bit(a, 15) <=> (a \div 2) % 2 = 1) /\ (Bit(a, 16) <=> a % 2 = 1)
  <2>1. a \div 1 = a BY <1>1, SMT
  <2> QED BY <1>1, <2>1, SMT DEF Bit, Places
<1>8. \A k \in 1 .. 8 : k = 1 \/ k = 2 \/ k = 3 \/ k = 4 \/ k = 5 \/ k = 6 \/ k = 7 \/ k = 8 BY SMT
<1>9. \A k \in 1 .. 8 : ~Bit(a, k) BY <1>2, <1>3, <1>8, Zenon
<1> QED BY <1>4, <1>5, <1>6, <1>7, <1>9

\* A byte is the number of its bits.
LEMMA ByteIs ==
    ASSUME NEW a \in Byte, NEW b, \A k \in 1 .. 16 : b[k] <=> Bit(a, k)
    PROVE  OfBits(b) = a
<1>1. a \in Nat /\ a < 256 BY SMT DEF Byte
<1>2. \A k \in 1 .. 8 : ~b[k]
  <2>1. \A k \in 1 .. 8 : k \in 1 .. 16 OBVIOUS
  <2> QED BY <2>1, ByteBits
<1> DEFINE t(x) == IF x % 2 = 1 THEN 1 ELSE 0
<1>3. OfBits(b) = 128 * t(a \div 128) + 64 * t(a \div 64) + 32 * t(a \div 32) + 16 * t(a \div 16)
                  + 8 * t(a \div 8) + 4 * t(a \div 4) + 2 * t(a \div 2) + t(a)
  <2>1. /\ b[9] <=> (a \div 128) % 2 = 1
        /\ b[10] <=> (a \div 64) % 2 = 1
        /\ b[11] <=> (a \div 32) % 2 = 1
        /\ b[12] <=> (a \div 16) % 2 = 1
        /\ b[13] <=> (a \div 8) % 2 = 1
        /\ b[14] <=> (a \div 4) % 2 = 1
        /\ b[15] <=> (a \div 2) % 2 = 1
        /\ b[16] <=> a % 2 = 1
    <3>1. /\ 9 \in 1 .. 16 /\ 10 \in 1 .. 16 /\ 11 \in 1 .. 16 /\ 12 \in 1 .. 16
          /\ 13 \in 1 .. 16 /\ 14 \in 1 .. 16 /\ 15 \in 1 .. 16 /\ 16 \in 1 .. 16
      OBVIOUS
    <3> QED BY <3>1, ByteBits, Zenon
  <2> QED BY <2>1, <1>2, ByteOfBits, SMT
<1>4. \A x \in Nat : x \div 2 \in Nat /\ t(x) = x - 2 * (x \div 2) BY SMT
<1>5. /\ a \div 4 = (a \div 2) \div 2 /\ a \div 8 = (a \div 4) \div 2
      /\ a \div 16 = (a \div 8) \div 2 /\ a \div 32 = (a \div 16) \div 2
      /\ a \div 64 = (a \div 32) \div 2 /\ a \div 128 = (a \div 64) \div 2
      /\ (a \div 128) \div 2 = 0
  BY <1>1, SMT
<1>6. /\ a \div 2 \in Nat /\ a \div 4 \in Nat /\ a \div 8 \in Nat /\ a \div 16 \in Nat
      /\ a \div 32 \in Nat /\ a \div 64 \in Nat /\ a \div 128 \in Nat
  BY <1>1, SMT
<1> HIDE DEF t
<1>7. /\ t(a) = a - 2 * (a \div 2) /\ t(a \div 2) = (a \div 2) - 2 * (a \div 4)
      /\ t(a \div 4) = (a \div 4) - 2 * (a \div 8) /\ t(a \div 8) = (a \div 8) - 2 * (a \div 16)
      /\ t(a \div 16) = (a \div 16) - 2 * (a \div 32) /\ t(a \div 32) = (a \div 32) - 2 * (a \div 64)
      /\ t(a \div 64) = (a \div 64) - 2 * (a \div 128) /\ t(a \div 128) = a \div 128
  BY <1>1, <1>4, <1>5, <1>6, SMT
<1> QED BY <1>1, <1>3, <1>6, <1>7, SMT

\* The bits of a number are those it was made of.
LEMMA BitsOfByte ==
    ASSUME NEW b, \A k \in 1 .. 8 : ~b[k]
    PROVE  OfBits(b) \in Byte /\ \A k \in 1 .. 16 : Bit(OfBits(b), k) <=> b[k]
<1> DEFINE e(k) == IF b[k] THEN 1 ELSE 0
           x1 == e(9)
           x2 == 2 * x1 + e(10)
           x3 == 2 * x2 + e(11)
           x4 == 2 * x3 + e(12)
           x5 == 2 * x4 + e(13)
           x6 == 2 * x5 + e(14)
           x7 == 2 * x6 + e(15)
           x8 == 2 * x7 + e(16)
<1>1. \A k \in 9 .. 16 : e(k) \in 0 .. 1 /\ (e(k) = 1 <=> b[k]) OBVIOUS
<1>2. OfBits(b) = 128 * e(9) + 64 * e(10) + 32 * e(11) + 16 * e(12) + 8 * e(13) + 4 * e(14)
                  + 2 * e(15) + e(16)
  BY ByteOfBits, SMT
<1> HIDE DEF e
<1>3. /\ e(9) \in 0 .. 1 /\ e(10) \in 0 .. 1 /\ e(11) \in 0 .. 1 /\ e(12) \in 0 .. 1
      /\ e(13) \in 0 .. 1 /\ e(14) \in 0 .. 1 /\ e(15) \in 0 .. 1 /\ e(16) \in 0 .. 1
  BY <1>1, SMT
<1>4. OfBits(b) = x8 BY <1>2, <1>3, SMT
<1>5. ASSUME NEW x \in Nat, NEW d \in 0 .. 1
      PROVE  /\ 2 * x + d \in Nat /\ 2 * x + d <= 2 * x + 1
             /\ (2 * x + d) \div 2 = x /\ (2 * x + d) % 2 = d
  BY <1>5, SMT
<1>6. x1 \in Nat /\ x1 <= 1 /\ x1 % 2 = e(9) BY <1>3, SMT
<1>7. x2 \in Nat /\ x2 <= 3 /\ x2 \div 2 = x1 /\ x2 % 2 = e(10)
  <2> HIDE DEF x1
  <2>1. x2 <= 2 * x1 + 1 /\ x2 \in Nat /\ x2 \div 2 = x1 /\ x2 % 2 = e(10)
    BY <1>3, <1>5, <1>6
  <2> HIDE DEF x2
  <2> QED BY <2>1, <1>6
<1>8. x3 \in Nat /\ x3 <= 7 /\ x3 \div 2 = x2 /\ x3 % 2 = e(11)
  <2> HIDE DEF x2
  <2>1. x3 <= 2 * x2 + 1 /\ x3 \in Nat /\ x3 \div 2 = x2 /\ x3 % 2 = e(11)
    BY <1>3, <1>5, <1>7
  <2> HIDE DEF x3
  <2> QED BY <2>1, <1>7
<1>9. x4 \in Nat /\ x4 <= 15 /\ x4 \div 2 = x3 /\ x4 % 2 = e(12)
  <2> HIDE DEF x3
  <2>1. x4 <= 2 * x3 + 1 /\ x4 \in Nat /\ x4 \div 2 = x3 /\ x4 % 2 = e(12)
    BY <1>3, <1>5, <1>8
  <2> HIDE DEF x4
  <2> QED BY <2>1, <1>8
<1>10. x5 \in Nat /\ x5 <= 31 /\ x5 \div 2 = x4 /\ x5 % 2 = e(13)
  <2> HIDE DEF x4
  <2>1. x5 <= 2 * x4 + 1 /\ x5 \in Nat /\ x5 \div 2 = x4 /\ x5 % 2 = e(13)
    BY <1>3, <1>5, <1>9
  <2> HIDE DEF x5
  <2> QED BY <2>1, <1>9
<1>11. x6 \in Nat /\ x6 <= 63 /\ x6 \div 2 = x5 /\ x6 % 2 = e(14)
  <2> HIDE DEF x5
  <2>1. x6 <= 2 * x5 + 1 /\ x6 \in Nat /\ x6 \div 2 = x5 /\ x6 % 2 = e(14)
    BY <1>3, <1>5, <1>10
  <2> HIDE DEF x6
  <2> QED BY <2>1, <1>10
<1>12. x7 \in Nat /\ x7 <= 127 /\ x7 \div 2 = x6 /\ x7 % 2 = e(15)
  <2> HIDE DEF x6
  <2>1. x7 <= 2 * x6 + 1 /\ x7 \in Nat /\ x7 \div 2 = x6 /\ x7 % 2 = e(15)
    BY <1>3, <1>5, <1>11
  <2> HIDE DEF x7
  <2> QED BY <2>1, <1>11
<1>13. x8 \in Nat /\ x8 <= 255 /\ x8 \div 2 = x7 /\ x8 % 2 = e(16)
  <2> HIDE DEF x7
  <2>1. x8 <= 2 * x7 + 1 /\ x8 \in Nat /\ x8 \div 2 = x7 /\ x8 % 2 = e(16)
    BY <1>3, <1>5, <1>12
  <2> HIDE DEF x8
  <2> QED BY <2>1, <1>12
<1> HIDE DEF x1, x2, x3, x4, x5, x6, x7, x8
<1>14. x8 \in Byte BY <1>13, SMT DEF Byte
<1>15. /\ x8 \div 4 = x6 /\ x8 \div 8 = x5 /\ x8 \div 16 = x4 /\ x8 \div 32 = x3
       /\ x8 \div 64 = x2 /\ x8 \div 128 = x1
  <2>1. /\ x8 \div 4 = (x8 \div 2) \div 2 /\ x8 \div 8 = (x8 \div 4) \div 2
        /\ x8 \div 16 = (x8 \div 8) \div 2 /\ x8 \div 32 = (x8 \div 16) \div 2
        /\ x8 \div 64 = (x8 \div 32) \div 2 /\ x8 \div 128 = (x8 \div 64) \div 2
    BY <1>13, SMT
  <2> QED BY <2>1, <1>7, <1>8, <1>9, <1>10, <1>11, <1>12, <1>13
<1>16. /\ \A k \in 1 .. 8 : ~Bit(x8, k)
       /\ Bit(x8, 9) <=> x1 % 2 = 1
       /\ Bit(x8, 10) <=> x2 % 2 = 1
       /\ Bit(x8, 11) <=> x3 % 2 = 1
       /\ Bit(x8, 12) <=> x4 % 2 = 1
       /\ Bit(x8, 13) <=> x5 % 2 = 1
       /\ Bit(x8, 14) <=> x6 % 2 = 1
       /\ Bit(x8, 15) <=> x7 % 2 = 1
       /\ Bit(x8, 16) <=> x8 % 2 = 1
  BY <1>13, <1>14, <1>15, ByteBits
<1>17. /\ Bit(x8, 9) <=> b[9]
       /\ Bit(x8, 10) <=> b[10]
       /\ Bit(x8, 11) <=> b[11]
       /\ Bit(x8, 12) <=> b[12]
       /\ Bit(x8, 13) <=> b[13]
       /\ Bit(x8, 14) <=> b[14]
       /\ Bit(x8, 15) <=> b[15]
       /\ Bit(x8, 16) <=> b[16]
  <2>1. /\ e(9) = 1 <=> b[9]
        /\ e(10) = 1 <=> b[10]
        /\ e(11) = 1 <=> b[11]
        /\ e(12) = 1 <=> b[12]
        /\ e(13) = 1 <=> b[13]
        /\ e(14) = 1 <=> b[14]
        /\ e(15) = 1 <=> b[15]
        /\ e(16) = 1 <=> b[16]
    BY <1>1, SMT
  <2> QED BY <2>1, <1>6, <1>7, <1>8, <1>9, <1>10, <1>11, <1>12, <1>13, <1>16, Zenon
<1>18. ASSUME NEW k \in 9 .. 16 PROVE Bit(x8, k) <=> b[k]
  <2>1. \/ k = 9 \/ k = 10 \/ k = 11 \/ k = 12 \/ k = 13 \/ k = 14 \/ k = 15 \/ k = 16 BY <1>18, SMT
  <2> QED BY <2>1, <1>17, Zenon
<1>19. \A k \in 1 .. 16 : k \in 1 .. 8 \/ k \in 9 .. 16 BY SMT
<1>20. \A k \in 1 .. 16 : Bit(x8, k) <=> b[k] BY <1>16, <1>18, <1>19, Zenon
<1> QED BY <1>4, <1>14, <1>20

\* ^ on bytes, and what undoes it.
LEMMA XorTwice ==
    ASSUME NEW a \in Byte, NEW s \in Byte
    PROVE  Xor(a, s) \in Byte /\ Xor(Xor(a, s), s) = a
<1> DEFINE d == [k \in 1 .. 16 |-> Bit(a, k) # Bit(s, k)]
<1>1. Xor(a, s) = OfBits(d) BY Zenon DEF Xor
<1>2. \A k \in 1 .. 16 : d[k] <=> ~(Bit(a, k) <=> Bit(s, k)) BY Zenon DEF Bit
<1> HIDE DEF d
<1>3. \A k \in 1 .. 8 : ~d[k]
  <2>1. \A k \in 1 .. 8 : k \in 1 .. 16 OBVIOUS
  <2> QED BY <2>1, <1>2, ByteBits, Zenon
<1>4. OfBits(d) \in Byte /\ \A k \in 1 .. 16 : Bit(OfBits(d), k) <=> d[k] BY <1>3, BitsOfByte
<1> DEFINE g == [k \in 1 .. 16 |-> Bit(OfBits(d), k) # Bit(s, k)]
<1>5. Xor(OfBits(d), s) = OfBits(g) BY Zenon DEF Xor
<1>6. \A k \in 1 .. 16 : g[k] <=> ~(Bit(OfBits(d), k) <=> Bit(s, k)) BY Zenon DEF Bit
<1> HIDE DEF g
<1>7. \A k \in 1 .. 16 : g[k] <=> Bit(a, k) BY <1>2, <1>4, <1>6, Zenon
<1>8. OfBits(g) = a BY <1>7, ByteIs
<1> QED BY <1>1, <1>4, <1>5, <1>8

----------------------------------------------------------------------------
(* The text of core_init_state, and its corruption. *)

\* Codes of characters: no '$' and no '9', which ^ with the low byte of a seed
\* would make a comma.
Codes == (1 .. 127) \ {36, 57}

LEMMA PatternRows ==
    ASSUME NEW row \in 1 .. 4
    PROVE  /\ IntPat[row] \in Seq(Codes) /\ Len(IntPat[row]) > 0
           /\ FloatPat[row] \in Seq(Codes) /\ Len(FloatPat[row]) > 0
           /\ SciPat[row] \in Seq(Codes) /\ Len(SciPat[row]) > 0
           /\ ErrPat[row] \in Seq(Codes) /\ Len(ErrPat[row]) > 0
<1>1. row = 1 \/ row = 2 \/ row = 3 \/ row = 4 OBVIOUS
<1>2. ASSUME NEW a, NEW b, NEW c, NEW d, NEW V, a \in V, b \in V, c \in V, d \in V
      PROVE  <<a, b, c, d>>[row] \in V
  BY <1>1, <1>2
<1> DEFINE V == {t \in Seq(Codes) : Len(t) > 0}
<1>3. ASSUME NEW a \in Codes, NEW b \in Codes, NEW c \in Codes, NEW d \in Codes
      PROVE  <<a, b, c, d>> \in V
  OBVIOUS
<1>4. ASSUME NEW a \in Codes, NEW b \in Codes, NEW c \in Codes, NEW d \in Codes,
             NEW e \in Codes, NEW f \in Codes, NEW g \in Codes, NEW h \in Codes
      PROVE  <<a, b, c, d, e, f, g, h>> \in V
  OBVIOUS
<1>5. /\ 43 \in Codes /\ 45 \in Codes /\ 46 \in Codes /\ 48 \in Codes /\ 49 \in Codes
      /\ 50 \in Codes /\ 51 \in Codes /\ 52 \in Codes /\ 53 \in Codes /\ 54 \in Codes
      /\ 55 \in Codes /\ 56 \in Codes /\ 69 \in Codes /\ 70 \in Codes /\ 84 \in Codes
      /\ 94 \in Codes /\ 101 \in Codes /\ 113 \in Codes /\ 122 \in Codes
  BY DEF Codes
<1> HIDE DEF V
<1>6. IntPat[row] \in V
  <2>1. <<53,48,49,50>> \in V BY <1>3, <1>5, Zenon
  <2>2. <<49,50,51,52>> \in V BY <1>3, <1>5, Zenon
  <2>3. <<45,56,55,52>> \in V BY <1>3, <1>5, Zenon
  <2>4. <<43,49,50,50>> \in V BY <1>3, <1>5, Zenon
  <2> QED BY <2>1, <2>2, <2>3, <2>4, <1>2 DEF IntPat
<1>7. FloatPat[row] \in V
  <2>1. <<51,53,46,53,52,52,48,48>> \in V BY <1>4, <1>5, Zenon
  <2>2. <<46,49,50,51,52,53,48,48>> \in V BY <1>4, <1>5, Zenon
  <2>3. <<45,49,49,48,46,55,48,48>> \in V BY <1>4, <1>5, Zenon
  <2>4. <<43,48,46,54,52,52,48,48>> \in V BY <1>4, <1>5, Zenon
  <2> QED BY <2>1, <2>2, <2>3, <2>4, <1>2 DEF FloatPat
<1>8. SciPat[row] \in V
  <2>1. <<53,46,53,48,48,101,43,51>> \in V BY <1>4, <1>5, Zenon
  <2>2. <<45,46,49,50,51,101,45,50>> \in V BY <1>4, <1>5, Zenon
  <2>3. <<45,56,55,101,43,56,51,50>> \in V BY <1>4, <1>5, Zenon
  <2>4. <<43,48,46,54,101,45,49,50>> \in V BY <1>4, <1>5, Zenon
  <2> QED BY <2>1, <2>2, <2>3, <2>4, <1>2 DEF SciPat
<1>9. ErrPat[row] \in V
  <2>1. <<84,48,46,51,101,45,49,70>> \in V BY <1>4, <1>5, Zenon
  <2>2. <<45,84,46,84,43,43,84,113>> \in V BY <1>4, <1>5, Zenon
  <2>3. <<49,84,51,46,52,101,52,122>> \in V BY <1>4, <1>5, Zenon
  <2>4. <<51,52,46,48,101,45,84,94>> \in V BY <1>4, <1>5, Zenon
  <2> QED BY <2>1, <2>2, <2>3, <2>4, <1>2 DEF ErrPat
<1>10. \A t \in V : t \in Seq(Codes) /\ Len(t) > 0 BY DEF V
<1> QED BY <1>6, <1>7, <1>8, <1>9, <1>10

LEMMA PatternIs ==
    ASSUME NEW s \in Nat
    PROVE  Pattern(s) \in Seq(Codes) /\ Len(Pattern(s)) > 0
<1> DEFINE row == ((s \div 8) % 4) + 1
<1>1. row \in 1 .. 4 OBVIOUS
<1>2. s % 8 \in 0 .. 2 \/ s % 8 \in 3 .. 4 \/ s % 8 \in 5 .. 6 \/ s % 8 = 7 OBVIOUS
<1>3. Pattern(s) = CASE s % 8 \in 0 .. 2 -> IntPat[row]   [] s % 8 \in 3 .. 4 -> FloatPat[row]
                     [] s % 8 \in 5 .. 6 -> SciPat[row]   [] s % 8 = 7        -> ErrPat[row]
  BY Zenon DEF Pattern
<1> HIDE DEF row
<1>4. Pattern(s) \in {IntPat[row], FloatPat[row], SciPat[row], ErrPat[row]} BY <1>2, <1>3
<1> QED BY <1>1, <1>4, PatternRows

\* The text core_init_state writes: TextAt tabulates it by the patterns chosen.
TextAt(n, seed, f) ==
    f = [k \in 1 .. n |-> IF k = 1 THEN <<>> ELSE f[k - 1] \o Pattern(seed + k - 1) \o <<Comma>>]

LEMMA TextExists ==
    ASSUME NEW n \in Nat, NEW seed
    PROVE  \E f : TextAt(n, seed, f)
<1> DEFINE More(k, t) == IF k = 1 THEN <<>> ELSE t \o Pattern(seed + k - 1) \o <<Comma>>
           S == {m \in 0 .. n : \E f : TextAt(m, seed, f)}
<1>1. 0 \in S
  <2>1. TextAt(0, seed, [k \in 1 .. 0 |-> <<>>]) BY DEF TextAt
  <2> QED BY <2>1
<1>2. ASSUME NEW m \in 0 .. n - 1, m \in S PROVE m + 1 \in S
  <2>1. PICK f : TextAt(m, seed, f) BY <1>2
  <2> DEFINE g == [k \in 1 .. m + 1 |-> IF k = m + 1 THEN More(k, f[k - 1]) ELSE f[k]]
  <2>2. ASSUME NEW k \in 1 .. m + 1 PROVE g[k] = More(k, g[k - 1])
    <3>1. k # 1 => k - 1 \in 1 .. m + 1 /\ k - 1 # m + 1 /\ g[k - 1] = f[k - 1] BY <2>2
    <3>2. k # m + 1 => f[k] = More(k, f[k - 1])
      <4>1. k # m + 1 => k \in 1 .. m BY <2>2
      <4> QED BY <4>1, <2>1, Zenon DEF TextAt
    <3>3. k # m + 1 => g[k] = f[k] BY <2>2
    <3>4. k = m + 1 => g[k] = More(k, f[k - 1]) BY <2>2, Zenon
    <3>5. k = 1 => More(k, f[k - 1]) = More(k, g[k - 1]) BY Zenon
    <3> HIDE DEF g, More
    <3> QED BY <3>1, <3>2, <3>3, <3>4, <3>5
  <2>3. g = [k \in 1 .. m + 1 |-> g[k]] BY Zenon
  <2> HIDE DEF g
  <2>4. TextAt(m + 1, seed, g) BY <2>2, <2>3, Zenon DEF TextAt
  <2> QED BY <2>4
<1>3. \A k \in 0 .. n : k \in S
  <2> HIDE DEF S
  <2> QED BY <1>1, <1>2, Climb
<1> QED BY <1>3

LEMMA TextGrows ==
    ASSUME NEW n \in Nat, NEW seed \in Nat, NEW f, TextAt(n, seed, f)
    PROVE  /\ n > 0 => f[1] \in Seq(Codes) /\ Len(f[1]) = 0
           /\ \A k \in 1 .. n : f[k] \in Seq(Codes) /\ Len(f[k]) >= k - 1
           /\ \A k \in 1 .. n - 1 : Len(f[k + 1]) = Len(f[k]) + Len(Pattern(seed + k)) + 1
<1> DEFINE Good(k) == f[k] \in Seq(Codes) /\ Len(f[k]) >= k - 1
           S == {k \in 0 .. n : k = 0 \/ Good(k)}
<1>1. \A k \in 1 .. n : f[k] = IF k = 1 THEN <<>> ELSE f[k - 1] \o Pattern(seed + k - 1) \o <<Comma>>
  BY Zenon DEF TextAt
<1>2. ASSUME n > 0 PROVE f[1] \in Seq(Codes) /\ Len(f[1]) = 0
  <2>1. 1 \in 1 .. n BY <1>2
  <2>2. f[1] = <<>> BY <2>1, <1>1
  <2> QED BY <2>2
<1>3. ASSUME NEW t \in Seq(Codes), NEW u \in Seq(Codes), NEW v, v = t \o u \o <<Comma>>
      PROVE  v \in Seq(Codes) /\ Len(v) = Len(t) + Len(u) + 1 /\ Len(v) >= Len(t) + 1
  <2>1. <<Comma>> \in Seq(Codes) /\ Len(<<Comma>>) = 1 BY DEF Codes, Comma
  <2>2. t \o u \in Seq(Codes) /\ Len(t \o u) = Len(t) + Len(u) OBVIOUS
  <2> QED BY <2>1, <2>2, <1>3
<1>4. ASSUME NEW k \in 1 .. n - 1, f[k] \in Seq(Codes)
      PROVE  /\ f[k + 1] \in Seq(Codes) /\ Len(f[k + 1]) >= Len(f[k]) + 1
             /\ Len(f[k + 1]) = Len(f[k]) + Len(Pattern(seed + k)) + 1
  <2>1. k + 1 \in 1 .. n /\ k + 1 # 1 /\ k + 1 - 1 = k /\ seed + (k + 1) - 1 = seed + k
        /\ seed + k \in Nat
    BY <1>4
  <2>2. f[k + 1] = f[k] \o Pattern(seed + k) \o <<Comma>>
    <3>1. PICK j \in 1 .. n : j = k + 1 BY <2>1
    <3>2. f[j] = f[j - 1] \o Pattern(seed + j - 1) \o <<Comma>>
      <4>1. j # 1 BY <3>1, <2>1
      <4> QED BY <4>1, <1>1, Zenon
    <3>3. j - 1 = k /\ seed + j - 1 = seed + k BY <3>1
    <3> QED BY <3>1, <3>2, <3>3, Zenon
  <2>3. Pattern(seed + k) \in Seq(Codes) BY <2>1, PatternIs
  <2> QED BY <2>2, <2>3, <1>3, <1>4
<1>5. ASSUME NEW k \in 0 .. n - 1, k = 0 \/ Good(k) PROVE Good(k + 1)
  <2>1. CASE k = 0
    <3>1. n > 0 /\ k + 1 = 1 BY <2>1, <1>5
    <3>2. f[k + 1] \in Seq(Codes) /\ Len(f[k + 1]) = 0 BY <3>1, <1>2
    <3> QED BY <2>1, <3>2
  <2>2. CASE k # 0
    <3>1. k \in 1 .. n - 1 BY <2>2, <1>5
    <3>2. f[k] \in Seq(Codes) /\ Len(f[k]) >= k - 1 BY <2>2, <1>5
    <3>3. f[k + 1] \in Seq(Codes) /\ Len(f[k + 1]) >= Len(f[k]) + 1 BY <3>1, <3>2, <1>4
    <3>4. PICK x \in Nat : x = Len(f[k]) BY <3>2
    <3>5. PICK y \in Nat : y = Len(f[k + 1]) BY <3>3
    <3>6. y >= k + 1 - 1
      <4>1. x >= k - 1 /\ y >= x + 1 BY <3>2, <3>3, <3>4, <3>5, Zenon
      <4> QED BY <4>1, <3>1
    <3> QED BY <3>3, <3>5, <3>6
  <2> QED BY <2>1, <2>2
<1> HIDE DEF Good
<1>6. \A k \in 0 .. n : k \in S
  <2>1. 0 \in S OBVIOUS
  <2>2. ASSUME NEW k \in 0 .. n - 1, k \in S PROVE k + 1 \in S
    <3>1. k = 0 \/ Good(k) BY <2>2
    <3>2. Good(k + 1) BY <3>1, <1>5
    <3>3. k + 1 \in 0 .. n BY <2>2
    <3> QED BY <3>2, <3>3
  <2> HIDE DEF S
  <2> QED BY <2>1, <2>2, Climb
<1>7. ASSUME NEW k \in 1 .. n PROVE Good(k)
  <2>1. k \in S /\ k # 0 BY <1>6
  <2> QED BY <2>1
<1>8. \A k \in 1 .. n - 1 : Len(f[k + 1]) = Len(f[k]) + Len(Pattern(seed + k)) + 1
  <2>1. \A k \in 1 .. n - 1 : k \in 1 .. n OBVIOUS
  <2> QED BY <2>1, <1>4, <1>7, Zenon DEF Good
<1> QED BY <1>2, <1>7, <1>8, Zenon DEF Good

\* The text leaves the last two bytes of the block free.
LEMMA TextFits ==
    ASSUME NEW size \in Nat, size >= 2, NEW seed \in Nat
    PROVE  InitText(size, seed) \in Seq(Codes) /\ Len(InitText(size, seed)) <= size - 2
<1> DEFINE f == CHOOSE f : TextAt(size, seed, f)
           Goes(k) == Len(f[k]) + Len(Pattern(seed + k)) + 1 < size - 1
           K == CHOOSE k \in 1 .. size : ~Goes(k) /\ \A j \in 1 .. k - 1 : Goes(j)
<1>1. TextAt(size, seed, f)
  <2>1. \E g : TextAt(size, seed, g) BY TextExists
  <2> QED BY <2>1, Zenon
<1>2. InitText(size, seed) = f[K] BY Zenon DEF InitText, TextAt
<1> HIDE DEF f
<1>3. /\ f[1] \in Seq(Codes) /\ Len(f[1]) = 0
      /\ \A k \in 1 .. size : f[k] \in Seq(Codes) /\ Len(f[k]) >= k - 1
      /\ \A k \in 1 .. size - 1 : Len(f[k + 1]) = Len(f[k]) + Len(Pattern(seed + k)) + 1
  <2>1. size > 0 OBVIOUS
  <2> QED BY <2>1, <1>1, TextGrows, Zenon
<1>4. ~Goes(size)
  <2>1. size \in 1 .. size /\ seed + size \in Nat OBVIOUS
  <2>2. f[size] \in Seq(Codes) /\ Len(f[size]) >= size - 1 BY <2>1, <1>3
  <2>3. Pattern(seed + size) \in Seq(Codes) BY <2>1, PatternIs
  <2>4. PICK x \in Nat : x = Len(f[size]) BY <2>2
  <2>5. PICK y \in Nat : y = Len(Pattern(seed + size)) BY <2>3
  <2>6. x >= size - 1 BY <2>2, <2>4, Zenon
  <2>7. ~(x + y + 1 < size - 1) BY <2>6
  <2> QED BY <2>4, <2>5, <2>7, Zenon
<1>5. \E k \in 1 .. size : ~Goes(k) /\ \A j \in 1 .. k - 1 : Goes(j)
  <2> DEFINE Stops == {k \in 1 .. size : ~Goes(k)}
  <2>1. Stops \in SUBSET Nat /\ Stops # {}
    <3>1. size \in 1 .. size OBVIOUS
    <3> HIDE DEF Goes
    <3> QED BY <3>1, <1>4
  <2>2. PICK k \in Stops : \A j \in Stops : k <= j
    <3> HIDE DEF Stops
    <3> QED BY <2>1, LeastExists
  <2>3. \A j \in 1 .. k - 1 : j \in 1 .. size /\ ~(k <= j) OBVIOUS
  <2> HIDE DEF Goes
  <2> QED BY <2>2, <2>3
<1>6. K \in 1 .. size /\ \A j \in 1 .. K - 1 : Goes(j)
  <2> HIDE DEF Goes
  <2> QED BY <1>5, Zenon
<1> HIDE DEF K
<1>7. Len(f[K]) <= size - 2
  <2>1. CASE K = 1
    <3>1. 0 <= size - 2 OBVIOUS
    <3> QED BY <3>1, <2>1, <1>3
  <2>2. CASE K # 1
    <3>1. PICK k \in 1 .. size - 1 : K = k + 1
      <4>1. K - 1 \in 1 .. size - 1 /\ K = (K - 1) + 1 BY <2>2, <1>6
      <4> QED BY <4>1
    <3>2. k \in 1 .. K - 1 /\ k \in 1 .. size BY <3>1
    <3>3. Len(f[k]) + Len(Pattern(seed + k)) + 1 < size - 1 BY <3>2, <1>6, Zenon
    <3>4. Len(f[K]) = Len(f[k]) + Len(Pattern(seed + k)) + 1 BY <3>1, <1>3, Zenon
    <3>5. PICK x \in Nat : x = Len(f[K])
      <4>1. f[K] \in Seq(Codes) BY <1>3, <1>6
      <4> QED BY <4>1
    <3>6. x < size - 1 BY <3>3, <3>4, <3>5, Zenon
    <3>7. x <= size - 2 BY <3>6
    <3> QED BY <3>5, <3>7, Zenon
  <2> QED BY <2>1, <2>2
<1> QED BY <1>2, <1>3, <1>6, <1>7

\* What ^ with the low byte of a seed makes a comma.
LEMMA CommaFrom ==
    /\ Xor(Comma, 0) = Comma
    /\ Xor(Comma, 8) = 36
    /\ Xor(Comma, 21) = 57
<1>1. 44 \in Byte /\ 0 \in Byte /\ 8 \in Byte /\ 21 \in Byte /\ 36 \in Byte /\ 57 \in Byte BY SMT DEF Byte
<1>2. /\ ~Bit(44, 9) /\ ~Bit(44, 10) /\ Bit(44, 11) /\ ~Bit(44, 12)
      /\ Bit(44, 13) /\ Bit(44, 14) /\ ~Bit(44, 15) /\ ~Bit(44, 16)
  BY <1>1, ByteBits, SMT
<1>3. /\ ~Bit(0, 9) /\ ~Bit(0, 10) /\ ~Bit(0, 11) /\ ~Bit(0, 12)
      /\ ~Bit(0, 13) /\ ~Bit(0, 14) /\ ~Bit(0, 15) /\ ~Bit(0, 16)
  BY <1>1, ByteBits, SMT
<1>4. /\ ~Bit(8, 9) /\ ~Bit(8, 10) /\ ~Bit(8, 11) /\ ~Bit(8, 12)
      /\ Bit(8, 13) /\ ~Bit(8, 14) /\ ~Bit(8, 15) /\ ~Bit(8, 16)
  BY <1>1, ByteBits, SMT
<1>5. /\ ~Bit(21, 9) /\ ~Bit(21, 10) /\ ~Bit(21, 11) /\ Bit(21, 12)
      /\ ~Bit(21, 13) /\ Bit(21, 14) /\ ~Bit(21, 15) /\ Bit(21, 16)
  BY <1>1, ByteBits, SMT
<1>6. /\ ~Bit(36, 9) /\ ~Bit(36, 10) /\ Bit(36, 11) /\ ~Bit(36, 12)
      /\ ~Bit(36, 13) /\ Bit(36, 14) /\ ~Bit(36, 15) /\ ~Bit(36, 16)
  BY <1>1, ByteBits, SMT
<1>7. /\ ~Bit(57, 9) /\ ~Bit(57, 10) /\ Bit(57, 11) /\ Bit(57, 12)
      /\ Bit(57, 13) /\ ~Bit(57, 14) /\ ~Bit(57, 15) /\ Bit(57, 16)
  BY <1>1, ByteBits, SMT
<1>8. \A k \in 1 .. 8 : ~Bit(44, k) /\ ~Bit(0, k) /\ ~Bit(8, k) /\ ~Bit(21, k) /\ ~Bit(36, k) /\ ~Bit(57, k)
  BY <1>1, ByteBits, Zenon
<1> DEFINE Eq(s, r, k) == ~(Bit(44, k) <=> Bit(s, k)) <=> Bit(r, k)
<1>9. ASSUME NEW s, NEW r, \A k \in 1 .. 8 : Eq(s, r, k),
             Eq(s, r, 9), Eq(s, r, 10), Eq(s, r, 11), Eq(s, r, 12),
             Eq(s, r, 13), Eq(s, r, 14), Eq(s, r, 15), Eq(s, r, 16)
      PROVE  \A k \in 1 .. 16 : Eq(s, r, k)
  <2>1. \A k \in 1 .. 16 : \/ k \in 1 .. 8 \/ k = 9 \/ k = 10 \/ k = 11 \/ k = 12
                           \/ k = 13 \/ k = 14 \/ k = 15 \/ k = 16
    BY SMT
  <2> HIDE DEF Eq
  <2> QED BY <2>1, <1>9, Zenon
<1>10. ASSUME NEW s, NEW r \in Byte, \A k \in 1 .. 16 : Eq(s, r, k) PROVE Xor(44, s) = r
  <2> DEFINE d == [k \in 1 .. 16 |-> Bit(44, k) # Bit(s, k)]
  <2>1. Xor(44, s) = OfBits(d) BY Zenon DEF Xor
  <2>2. \A k \in 1 .. 16 : d[k] <=> ~(Bit(44, k) <=> Bit(s, k)) BY Zenon DEF Bit
  <2> HIDE DEF d
  <2>3. \A k \in 1 .. 16 : d[k] <=> Bit(r, k) BY <2>2, <1>10, Zenon
  <2> QED BY <2>1, <2>3, ByteIs
<1>11. Xor(44, 0) = 44
  <2>1. \A k \in 1 .. 8 : Eq(0, 44, k) BY <1>8, Zenon
  <2>2. /\ Eq(0, 44, 9) /\ Eq(0, 44, 10) /\ Eq(0, 44, 11) /\ Eq(0, 44, 12)
        /\ Eq(0, 44, 13) /\ Eq(0, 44, 14) /\ Eq(0, 44, 15) /\ Eq(0, 44, 16)
    BY <1>2, <1>3, Zenon
  <2>3. \A k \in 1 .. 16 : Eq(0, 44, k)
    <3> HIDE DEF Eq
    <3> QED BY <2>1, <2>2, <1>9, Zenon
  <2> HIDE DEF Eq
  <2> QED BY <2>3, <1>1, <1>10, Zenon
<1>12. Xor(44, 8) = 36
  <2>1. \A k \in 1 .. 8 : Eq(8, 36, k) BY <1>8, Zenon
  <2>2. /\ Eq(8, 36, 9) /\ Eq(8, 36, 10) /\ Eq(8, 36, 11) /\ Eq(8, 36, 12)
        /\ Eq(8, 36, 13) /\ Eq(8, 36, 14) /\ Eq(8, 36, 15) /\ Eq(8, 36, 16)
    BY <1>2, <1>4, <1>6, Zenon
  <2>3. \A k \in 1 .. 16 : Eq(8, 36, k)
    <3> HIDE DEF Eq
    <3> QED BY <2>1, <2>2, <1>9, Zenon
  <2> HIDE DEF Eq
  <2> QED BY <2>3, <1>1, <1>10, Zenon
<1>13. Xor(44, 21) = 57
  <2>1. \A k \in 1 .. 8 : Eq(21, 57, k) BY <1>8, Zenon
  <2>2. /\ Eq(21, 57, 9) /\ Eq(21, 57, 10) /\ Eq(21, 57, 11) /\ Eq(21, 57, 12)
        /\ Eq(21, 57, 13) /\ Eq(21, 57, 14) /\ Eq(21, 57, 15) /\ Eq(21, 57, 16)
    BY <1>2, <1>5, <1>7, Zenon
  <2>3. \A k \in 1 .. 16 : Eq(21, 57, k)
    <3> HIDE DEF Eq
    <3> QED BY <2>1, <2>2, <1>9, Zenon
  <2> HIDE DEF Eq
  <2> QED BY <2>3, <1>1, <1>10, Zenon
<1> QED BY <1>11, <1>12, <1>13 DEF Comma

LowSeeds == {0, 8, 21}

LEMMA LowSeed == \A seed \in FirstSeeds : seed % 256 \in LowSeeds
BY SMT DEF FirstSeeds, LowSeeds

LEMMA XorCode ==
    ASSUME NEW c \in Codes \cup {0}, c # Comma, NEW s \in LowSeeds
    PROVE  Xor(c, s) # Comma /\ Xor(Xor(c, s), s) = c
<1>1. c \in Byte /\ s \in Byte BY SMT DEF Codes, Byte, LowSeeds
<1>2. Xor(Xor(c, s), s) = c BY <1>1, XorTwice
<1>3. Xor(c, s) = Comma => c = Comma \/ c = 36 \/ c = 57
  <2>1. s = 0 \/ s = 8 \/ s = 21 BY DEF LowSeeds
  <2> QED BY <2>1, <1>2, CommaFrom, Zenon
<1>4. c # 36 /\ c # 57 BY SMT DEF Codes
<1> QED BY <1>2, <1>3, <1>4

\* The corruption undoes itself on a text of these characters.
LEMMA CorruptTwice ==
    ASSUME NEW D, NEW b \in [D -> Codes \cup {0}], NEW seed \in FirstSeeds, NEW step
    PROVE  Corrupt(Corrupt(b, seed, step), seed, step) = b
<1> DEFINE s == seed % 256
           g == [p \in D |-> IF p % step = 0 /\ b[p] # Comma THEN Xor(b[p], s) ELSE b[p]]
           h == [p \in D |-> IF p % step = 0 /\ g[p] # Comma THEN Xor(g[p], s) ELSE g[p]]
<1>1. Corrupt(b, seed, step) = g
  <2>1. DOMAIN b = D OBVIOUS
  <2> QED BY <2>1, Zenon DEF Corrupt
<1>2. Corrupt(g, seed, step) = h
  <2>1. DOMAIN g = D BY Zenon
  <2> HIDE DEF g
  <2> QED BY <2>1, Zenon DEF Corrupt
<1>3. ASSUME NEW p \in D PROVE h[p] = b[p]
  <2>1. /\ g[p] = IF p % step = 0 /\ b[p] # Comma THEN Xor(b[p], s) ELSE b[p]
        /\ h[p] = IF p % step = 0 /\ g[p] # Comma THEN Xor(g[p], s) ELSE g[p]
    <3> HIDE DEF s
    <3> QED BY Zenon
  <2>2. s \in LowSeeds BY LowSeed
  <2> HIDE DEF g, h, s
  <2>3. CASE p % step = 0 /\ b[p] # Comma
    <3>1. g[p] = Xor(b[p], s) BY <2>1, <2>3
    <3>2. b[p] \in Codes \cup {0} OBVIOUS
    <3>3. g[p] # Comma /\ Xor(g[p], s) = b[p] BY <3>1, <3>2, <2>2, <2>3, XorCode
    <3> QED BY <3>3, <2>1, <2>3
  <2>4. CASE ~(p % step = 0 /\ b[p] # Comma)
    <3>1. g[p] = b[p] BY <2>1, <2>4
    <3> QED BY <3>1, <2>1, <2>4
  <2> QED BY <2>3, <2>4
<1>4. h = b
  <2>1. h = [p \in D |-> h[p]] BY Zenon
  <2>2. b = [p \in D |-> b[p]] OBVIOUS
  <2> HIDE DEF h
  <2> QED BY <2>1, <2>2, <1>3, Zenon
<1> HIDE DEF g, h
<1> QED BY <1>1, <1>2, <1>4

\* The block is the text and zeros, two of them at least.
LEMMA BlockIs ==
    ASSUME NEW size \in Nat, size >= 2, NEW seed \in Nat
    PROVE  /\ InitBlock(size, seed) \in [0 .. size - 1 -> Codes \cup {0}]
           /\ InitBlock(size, seed)[size - 1] = 0 /\ InitBlock(size, seed)[size - 2] = 0
<1>1. PICK text : text = InitText(size, seed) OBVIOUS
<1>2. text \in Seq(Codes) /\ Len(text) <= size - 2 BY <1>1, TextFits
<1> DEFINE b == [p \in 0 .. size - 1 |-> IF p < Len(text) THEN text[p + 1] ELSE 0]
<1>3. InitBlock(size, seed) = b BY <1>1, Zenon DEF InitBlock
<1>4. ASSUME NEW p \in 0 .. size - 1 PROVE (IF p < Len(text) THEN text[p + 1] ELSE 0) \in Codes \cup {0}
  <2>1. CASE p < Len(text)
    <3>1. p + 1 \in 1 .. Len(text) BY <2>1, <1>2
    <3> QED BY <2>1, <3>1, <1>2
  <2>2. CASE ~(p < Len(text)) BY <2>2
  <2> QED BY <2>1, <2>2
<1>5. b \in [0 .. size - 1 -> Codes \cup {0}] BY <1>4
<1>6. b[size - 1] = 0 /\ b[size - 2] = 0
  <2>1. Len(text) \in Nat BY <1>2
  <2>2. PICK m \in Nat : m = Len(text) BY <2>1
  <2>3. m <= size - 2 BY <1>2, <2>2
  <2>4. /\ size - 1 \in 0 .. size - 1 /\ ~(size - 1 < m)
        /\ size - 2 \in 0 .. size - 1 /\ ~(size - 2 < m)
    BY <2>3
  <2> QED BY <2>2, <2>4
<1> HIDE DEF b
<1> QED BY <1>3, <1>5, <1>6

----------------------------------------------------------------------------
(* The matrices. *)

\* matrix_test: what is added to a byte is taken away again.
LEMMA MatrixTestKeeps ==
    ASSUME NEW D, NEW A \in [D -> Byte], NEW val \in Byte
    PROVE  MatrixTest(A, val) = A
<1>1. ASSUME NEW a \in Byte PROVE Wrap16(Wrap16(a + val) + Wrap16(-val)) = a
  BY <1>1, SMT DEF Byte, Wrap16
<1> DEFINE B == [k \in D |-> Wrap16(A[k] + val)]
           C == [k \in D |-> Wrap16(B[k] + Wrap16(-val))]
<1>2. AddConst(A, val) = B
  <2>1. DOMAIN A = D OBVIOUS
  <2> QED BY <2>1, Zenon DEF AddConst
<1>3. AddConst(B, Wrap16(-val)) = C
  <2>1. DOMAIN B = D BY Zenon
  <2> HIDE DEF B
  <2> QED BY <2>1, Zenon DEF AddConst
<1>4. ASSUME NEW k \in D PROVE C[k] = A[k]
  <2>1. C[k] = Wrap16(Wrap16(A[k] + val) + Wrap16(-val)) BY Zenon
  <2>2. A[k] \in Byte OBVIOUS
  <2> HIDE DEF B, C
  <2> QED BY <2>1, <2>2, <1>1
<1>5. C = A
  <2>1. C = [k \in D |-> C[k]] BY Zenon
  <2>2. A = [k \in D |-> A[k]] OBVIOUS
  <2> HIDE DEF B, C
  <2> QED BY <2>1, <2>2, <1>4, Zenon
<1> HIDE DEF B, C
<1> QED BY <1>2, <1>3, <1>5, Zenon DEF MatrixTest

\* The matrices have a dimension.
LEMMA DimIs ==
    ASSUME NEW B \in Nat, B > 0
    PROVE  Dim(B) \in Nat /\ Dim(B) * Dim(B) * 8 < B
<1> DEFINE Big == {n \in 0 .. B : (n + 1) * (n + 1) * 8 >= B}
           Fits(n) == n * n * 8 < B /\ (n + 1) * (n + 1) * 8 >= B
<1>1. ASSUME NEW n \in Nat PROVE n * n \in Nat /\ (n + 1) * (n + 1) >= n + 1
  <2>1. n * n \in Nat OBVIOUS
  <2>2. (n + 1) * (n + 1) = n * n + 2 * n + 1 OBVIOUS
  <2> QED BY <2>1, <2>2
<1>2. B \in Big
  <2>1. (B + 1) * (B + 1) >= B + 1 BY <1>1
  <2>2. PICK x \in Int : x = (B + 1) * (B + 1) OBVIOUS
  <2>3. x * 8 >= B BY <2>1, <2>2
  <2> QED BY <2>2, <2>3
<1>3. PICK n \in Big : \A m \in Big : n <= m
  <2>1. Big \in SUBSET Nat /\ Big # {}
    <3>1. \A m \in 0 .. B : m \in Nat OBVIOUS
    <3> QED BY <3>1, <1>2, Zenon
  <2> HIDE DEF Big
  <2> QED BY <2>1, LeastExists
<1>4. n \in 0 .. B /\ (n + 1) * (n + 1) * 8 >= B BY <1>3
<1>5. n * n * 8 < B
  <2>1. CASE n = 0 BY <2>1
  <2>2. CASE n # 0
    <3>1. n - 1 \in 0 .. B /\ ~(n <= n - 1) BY <1>4, <2>2
    <3>2. n - 1 \notin Big BY <3>1, <1>3
    <3>3. ~((n - 1 + 1) * (n - 1 + 1) * 8 >= B) BY <3>1, <3>2
    <3>4. n - 1 + 1 = n BY <1>4
    <3>5. n * n * 8 \in Int BY <1>4
    <3> QED BY <3>3, <3>4, <3>5
  <2> QED BY <2>1, <2>2
<1>6. Fits(n) BY <1>4, <1>5
<1>7. Dim(B) = CHOOSE m \in 0 .. B : Fits(m) BY Zenon DEF Dim
<1> HIDE DEF Fits
<1>8. Dim(B) \in 0 .. B /\ Fits(Dim(B)) BY <1>4, <1>6, <1>7, Zenon
<1> QED BY <1>8 DEF Fits

\* The seeds of the matrices' elements.
Seeded(m, seed, s) ==
    s = [k \in 0 .. m |-> IF k = 0 THEN IF seed = 0 THEN 1 ELSE seed ELSE (k * s[k - 1]) % 65536]

LEMMA SeededExists ==
    ASSUME NEW m \in Nat, NEW seed \in Int
    PROVE  \E s \in [0 .. m -> Int] : Seeded(m, seed, s)
<1> DEFINE S == {n \in 0 .. m : \E s \in [0 .. n -> Int] : Seeded(n, seed, s)}
<1>1. 0 \in S
  <2> DEFINE s == [k \in 0 .. 0 |-> IF seed = 0 THEN 1 ELSE seed]
  <2>1. s \in [0 .. 0 -> Int] OBVIOUS
  <2>2. \A k \in 0 .. 0 : k = 0 OBVIOUS
  <2>3. Seeded(0, seed, s)
    <3>1. \A k \in 0 .. 0 : s[k] = IF k = 0 THEN IF seed = 0 THEN 1 ELSE seed ELSE (k * s[k - 1]) % 65536
      BY <2>2
    <3>2. s = [k \in 0 .. 0 |-> s[k]] BY Zenon
    <3> HIDE DEF s
    <3> QED BY <3>1, <3>2, SMT DEF Seeded
  <2> QED BY <2>1, <2>3
<1>2. ASSUME NEW n \in 0 .. m - 1, n \in S PROVE n + 1 \in S
  <2>1. PICK s \in [0 .. n -> Int] : Seeded(n, seed, s) BY <1>2
  <2> DEFINE Go(k, x) == IF k = 0 THEN IF seed = 0 THEN 1 ELSE seed ELSE (k * x) % 65536
             g == [k \in 0 .. n + 1 |-> IF k = n + 1 THEN ((n + 1) * s[n]) % 65536 ELSE s[k]]
  <2>2. ((n + 1) * s[n]) % 65536 \in Int
    <3>1. s[n] \in Int /\ n + 1 \in Int BY <1>2
    <3>2. (n + 1) * s[n] \in Int BY <3>1
    <3> QED BY <3>2
  <2>3. g \in [0 .. n + 1 -> Int] BY <2>2
  <2>4. \A k \in 0 .. n : s[k] = Go(k, s[k - 1]) BY <2>1, SMT DEF Seeded
  <2>5. ASSUME NEW k \in 0 .. n + 1 PROVE g[k] = Go(k, g[k - 1])
    <3>1. CASE k = n + 1
      <4>1. k - 1 = n /\ k # 0 /\ n \in 0 .. n + 1 /\ n # n + 1 BY <3>1, <1>2
      <4>2. g[n] = s[n] BY <4>1
      <4>3. g[k] = ((n + 1) * s[n]) % 65536 BY <3>1
      <4> HIDE DEF g
      <4> QED BY <4>1, <4>2, <4>3, <3>1
    <3>2. CASE k # n + 1
      <4>1. k \in 0 .. n BY <3>2
      <4>2. k # 0 => k - 1 \in 0 .. n + 1 /\ k - 1 # n + 1 BY <4>1
      <4>3. k # 0 => g[k - 1] = s[k - 1] BY <4>2
      <4>4. g[k] = s[k] BY <3>2
      <4> HIDE DEF g
      <4>5. s[k] = Go(k, s[k - 1]) BY <4>1, <2>4
      <4> QED BY <4>3, <4>4, <4>5
    <3> QED BY <3>1, <3>2
  <2>6. g = [k \in 0 .. n + 1 |-> g[k]] BY <2>3
  <2> HIDE DEF g
  <2>7. Seeded(n + 1, seed, g)
    <3>1. Seeded(n + 1, seed, g) <=> g = [k \in 0 .. n + 1 |-> Go(k, g[k - 1])] BY SMT DEF Seeded
    <3> HIDE DEF Go
    <3>2. g = [k \in 0 .. n + 1 |-> Go(k, g[k - 1])] BY <2>5, <2>6, Zenon
    <3> QED BY <3>1, <3>2
  <2> QED BY <2>3, <2>7
<1>3. \A n \in 0 .. m : n \in S
  <2> HIDE DEF S
  <2> QED BY <1>1, <1>2, Climb
<1>4. m \in S BY <1>3
<1> QED BY <1>4

LEMMA MatrixAIs ==
    ASSUME NEW n \in Nat, NEW seed \in Int
    PROVE  MatrixA(n, seed) \in [1 .. n * n -> Byte]
<1>1. PICK m \in Nat : m = n * n OBVIOUS
<1> DEFINE s == CHOOSE s : Seeded(m, seed, s)
           A == [k \in 1 .. m |-> Wrap16(Wrap16(s[k] + k) + k) % 256]
<1>2. MatrixA(n, seed) = A BY <1>1, SMT DEF MatrixA, Seeded
<1>3. Seeded(m, seed, s)
  <2>1. \E t : Seeded(m, seed, t) BY SeededExists
  <2> QED BY <2>1, Zenon
<1> HIDE DEF s
<1>4. \A k \in 0 .. m : s[k] \in Int
  <2> DEFINE T == {k \in 0 .. m : s[k] \in Int}
  <2>1. s[0] \in Int
    <3>1. s[0] = IF seed = 0 THEN 1 ELSE seed
      <4>1. 0 \in 0 .. m OBVIOUS
      <4> QED BY <4>1, <1>3, SMT DEF Seeded
    <3> QED BY <3>1
  <2>2. ASSUME NEW k \in 0 .. m - 1, s[k] \in Int PROVE k + 1 \in 0 .. m /\ s[k + 1] \in Int
    <3>1. PICK j \in 1 .. m : j = k + 1
      <4>1. k + 1 \in 1 .. m OBVIOUS
      <4> QED BY <4>1
    <3>2. j \in 0 .. m /\ j # 0 /\ j - 1 = k BY <3>1
    <3>3. s[j] = (j * s[j - 1]) % 65536 BY <3>2, <1>3, SMT DEF Seeded
    <3>4. s[j] \in Int
      <4>1. PICK x \in Int : x = s[j - 1] BY <3>2, <2>2
      <4>2. j * x \in Int BY <4>1
      <4> QED BY <4>1, <4>2, <3>3
    <3> QED BY <3>1, <3>4
  <2>3. 0 \in T /\ \A k \in 0 .. m - 1 : k \in T => k + 1 \in T BY <2>1, <2>2
  <2> HIDE DEF T
  <2>4. \A k \in 0 .. m : k \in T BY <2>3, Climb
  <2> QED BY <2>4 DEF T
<1>5. ASSUME NEW k \in 1 .. m PROVE Wrap16(Wrap16(s[k] + k) + k) % 256 \in Byte
  <2>1. ASSUME NEW x \in Int PROVE Wrap16(x) \in Int /\ x % 256 \in Byte BY <2>1 DEF Wrap16, Byte
  <2>2. s[k] + k \in Int
    <3>1. k \in 0 .. m OBVIOUS
    <3> QED BY <3>1, <1>4
  <2>3. Wrap16(s[k] + k) + k \in Int BY <2>1, <2>2
  <2> QED BY <2>1, <2>3
<1> QED BY <1>1, <1>2, <1>5

----------------------------------------------------------------------------
(* What the other benchmarks leave. *)

\* The blocks of the other benchmarks hold what main wrote to them.
BlocksKept ==
    /\ blk = InitBlock(BlkSize, cfg.seed1)
    /\ matA = MatrixA(Dim(BlkSize), cfg.seed1 + 2 ^ 16 * cfg.seed2)

SameSeeds == cfg.seed1 \in FirstSeeds /\ cfg.seed2 = cfg.seed1

LEMMA BlockTypes ==
    ASSUME SameSeeds, BlocksKept
    PROVE  /\ blk \in [0 .. BlkSize - 1 -> Codes \cup {0}]
           /\ matA \in [1 .. Dim(BlkSize) * Dim(BlkSize) -> Byte]
<1>1. BlkSize \in Nat /\ BlkSize >= 120 BY CoreMarkAssumption, SMT
<1>2. cfg.seed1 \in Nat /\ cfg.seed2 \in Nat
  <2>1. \A s \in FirstSeeds : s \in Nat BY DEF FirstSeeds
  <2> QED BY <2>1 DEF SameSeeds
<1>3. blk \in [0 .. BlkSize - 1 -> Codes \cup {0}]
  <2>1. BlkSize >= 2 BY <1>1
  <2> QED BY <2>1, <1>1, <1>2, BlockIs DEF BlocksKept
<1>4. matA \in [1 .. Dim(BlkSize) * Dim(BlkSize) -> Byte]
  <2>1. BlkSize > 0 BY <1>1
  <2>2. Dim(BlkSize) \in Nat BY <2>1, <1>1, DimIs
  <2>3. cfg.seed1 + 2 ^ 16 * cfg.seed2 \in Int
    <3>1. 2 ^ 16 \in Int BY SMT
    <3>2. PICK x \in Int : x = 2 ^ 16 BY <3>1
    <3>3. x * cfg.seed2 \in Int BY <1>2
    <3>4. cfg.seed1 + x * cfg.seed2 \in Int BY <3>3, <1>2
    <3> QED BY <3>2, <3>4, Zenon
  <2>4. MatrixA(Dim(BlkSize), cfg.seed1 + 2 ^ 16 * cfg.seed2) \in [1 .. Dim(BlkSize) * Dim(BlkSize) -> Byte]
    BY <2>2, <2>3, MatrixAIs
  <2> QED BY <2>4, Zenon DEF BlocksKept
<1> QED BY <1>3, <1>4

\* core_bench_state and core_bench_matrix put the blocks back.
LEMMA CalcKeeps ==
    ASSUME SameSeeds, BlocksKept, NEW d \in Datum
    PROVE  CalcState(blk, d) = blk /\ CalcMatrix(matA, d) = matA
<1>1. ASSUME NEW step PROVE BenchState(blk, cfg.seed1, cfg.seed2, step) = blk
  <2>1. Corrupt(Corrupt(blk, cfg.seed1, step), cfg.seed1, step) = blk
    BY BlockTypes, CorruptTwice DEF SameSeeds
  <2>2. cfg.seed2 = cfg.seed1 BY DEF SameSeeds
  <2> QED BY <2>1, <2>2, Zenon DEF BenchState
<1>2. CalcState(blk, d) = blk
  <2>1. BenchState(blk, cfg.seed1, cfg.seed2, IF DType(d) < 34 THEN 34 ELSE DType(d)) = blk BY <1>1
  <2>2. CASE Cached(d) \/ d.lo % 8 # 0 BY <2>2 DEF CalcState
  <2>3. CASE ~(Cached(d) \/ d.lo % 8 # 0) BY <2>1, <2>3 DEF CalcState
  <2> QED BY <2>2, <2>3
<1>3. DType(d) \in Byte
  <2>1. d.lo \in 0 .. 255 BY DEF Datum
  <2>2. (d.lo \div 8) % 16 \in 0 .. 15 BY <2>1
  <2>3. \A x \in 0 .. 15 : x * 17 \in 0 .. 255 BY SMT
  <2> QED BY <2>2, <2>3 DEF DType, Byte
<1>4. MatrixTest(matA, DType(d)) = matA BY <1>3, BlockTypes, MatrixTestKeeps
<1>5. CalcMatrix(matA, d) = matA BY <1>4, Zenon DEF CalcMatrix
<1> QED BY <1>2, <1>5

LEMMA MergedPlaces ==
    ASSUME IInv, pc = "sort", ms.psize > 0, ms.qsize > 0, ms.q # NULL
    PROVE  ms.p \in Node /\ ms.q \in Node
<1>1. PICK w, a, b : Sorting(w, a, b) BY DEF IInv, Shape
<1>2. /\ w \in Arranged(free) /\ a \in 0 .. free /\ b \in 0 .. free /\ ms \in MsTypes
      /\ Sorted(next, ms, w, free, a, b)
  BY <1>1 DEF Sorting
<1>3. free \in 1 .. Size BY TypedState DEF IInv, Types
<1>4. Busy(ms) BY DEF Busy
<1>5. a < b /\ ms.p = w[a + 1] /\ ms.q = At(w, free, b + 1) BY <1>2, <1>4 DEF Sorted
<1>6. b + 1 \in 1 .. free /\ ms.q = w[b + 1] BY <1>5 DEF At
<1>7. a + 1 \in 1 .. free BY <1>5, <1>3, <1>2
<1>8. free \in 0 .. Size BY <1>3
<1> QED BY <1>5, <1>6, <1>7, <1>8, <1>2, ArrangedNodes

LEMMA MergedNodes ==
    ASSUME IInv, pc = "sort", ms.psize > 0, ms.qsize > 0, ms.q # NULL
    PROVE  data[info[ms.p]] \in Datum /\ data[info[ms.q]] \in Datum
<1>1. ms.p \in Node /\ ms.q \in Node BY MergedPlaces
<1>2. data \in [Node -> Datum] /\ info \in [Node -> Node] BY TypedState DEF IInv, Types
<1> QED BY <1>1, <1>2

LEMMA MergeStepKeeps ==
    ASSUME IInv, SameSeeds, BlocksKept, MergeStep
    PROVE  cfg' = cfg /\ blk' = blk /\ matA' = matA
<1>1. cfg' = cfg
  <2>1. \E fromP : Link(fromP) BY Zenon DEF MergeStep
  <2> QED BY <2>1, Zenon DEF Link
<1>2. pc = "sort" BY DEF MergeStep
<1>3. CASE ms.psize > 0 /\ ms.qsize > 0 /\ ms.q # NULL
  <2>1. PICK x, y, leq : Compare(x, y, leq) /\ x = info[ms.p] /\ y = info[ms.q]
    BY <1>3, Zenon DEF MergeStep
  <2>2. data[x] \in Datum /\ data[y] \in Datum BY <2>1, <1>2, <1>3, MergedNodes
  <2>3. CASE ms.cmp = "idx" BY <2>1, <2>3, <1>1, Zenon DEF Compare, CmpIdx
  <2>4. CASE ms.cmp # "idx"
    <3>1. /\ blk' = CalcState(CalcState(blk, data[x]), data[y])
          /\ matA' = CalcMatrix(CalcMatrix(matA, data[x]), data[y])
      BY <2>1, <2>4, Zenon DEF Compare, CmpComplex
    <3>2. CalcState(blk, data[x]) = blk /\ CalcMatrix(matA, data[x]) = matA BY <2>2, CalcKeeps
    <3>3. CalcState(blk, data[y]) = blk /\ CalcMatrix(matA, data[y]) = matA BY <2>2, CalcKeeps
    <3> QED BY <3>1, <3>2, <3>3, <1>1
  <2> QED BY <2>3, <2>4, <1>1
<1>4. CASE ~(ms.psize > 0 /\ ms.qsize > 0 /\ ms.q # NULL)
  <2>1. blk' = blk /\ matA' = matA BY <1>4, Zenon DEF MergeStep
  <2> QED BY <2>1, <1>1
<1> QED BY <1>3, <1>4

LEMMA InitBlocksKept == Init => SameSeeds /\ BlocksKept
<1> SUFFICES ASSUME Init PROVE SameSeeds /\ BlocksKept OBVIOUS
<1>1. PICK run \in Runs : cfg = Seeds(run) BY DEF Init
<1>2. SameSeeds BY <1>1, SeedsAre DEF SameSeeds
<1>3. BlocksKept BY Zenon DEF Init, BlocksKept
<1> QED BY <1>2, <1>3

LEMMA NextBlocksKept ==
    IInv /\ SameSeeds /\ BlocksKept /\ [Next]_vars => SameSeeds' /\ BlocksKept'
<1> SUFFICES ASSUME IInv, SameSeeds, BlocksKept, [Next]_vars PROVE SameSeeds' /\ BlocksKept'
  OBVIOUS
<1>1. cfg' = cfg /\ blk' = blk /\ matA' = matA
  <2>1. CASE MergeStep BY <2>1, MergeStepKeeps
  <2>2. CASE UNCHANGED vars BY <2>2, Zenon DEF vars
  <2>3. CASE Insert BY <2>3, Zenon DEF Insert
  <2>4. CASE Index BY <2>4, Zenon DEF Index
  <2>5. CASE NextMerge BY <2>5, Zenon DEF NextMerge
  <2>6. CASE EndPass BY <2>6, Zenon DEF EndPass
  <2>7. CASE Begin BY <2>7, Zenon DEF Begin
  <2>8. CASE FindStep BY <2>8, Zenon DEF FindStep
  <2>9. CASE SortData BY <2>9, Zenon DEF SortData
  <2>10. CASE Remove BY <2>10, Zenon DEF Remove
  <2>11. CASE UndoRemove BY <2>11, Zenon DEF UndoRemove
  <2>12. CASE Return BY <2>12, Zenon DEF Return
  <2> QED BY <2>1, <2>2, <2>3, <2>4, <2>5, <2>6, <2>7, <2>8, <2>9, <2>10, <2>11, <2>12, Zenon DEF Next
<1> QED BY <1>1, Zenon DEF SameSeeds, BlocksKept

\* The matrices fit the block but for an alignment of 3 bytes at the most.
MatricesFit == 8 * Dim(BlkSize) * Dim(BlkSize) + 3 <= BlkSize

LEMMA MatricesEnd ==
    ASSUME MatricesFit
    PROVE  MatrixEnd(Dim(BlkSize), Base + BlkSize) <= Base + 2 * BlkSize
<1>1. BlkSize \in Nat /\ BlkSize > 0 /\ Base \in Nat
  <2>1. BlkSize \in Nat /\ BlkSize >= 120 /\ Base \in Nat BY CoreMarkAssumption, SMT
  <2> QED BY <2>1
<1>2. Dim(BlkSize) \in Nat BY <1>1, DimIs
<1>3. PICK n \in Nat : n = Dim(BlkSize) BY <1>2
<1>4. PICK s \in Nat : s = n * n
  <2>1. n * n \in Nat OBVIOUS
  <2> QED BY <2>1
<1>5. 8 * s + 3 <= BlkSize /\ 8 * n * n = 8 * s /\ 4 * n * n = 4 * s
  <2>1. 8 * n * n = 8 * s /\ 4 * n * n = 4 * s BY <1>4
  <2>2. 8 * n * n + 3 <= BlkSize BY <1>3 DEF MatricesFit
  <2> QED BY <2>1, <2>2
<1>6. PICK q \in Int : q = (Base + BlkSize - 1) \div 4 BY <1>1
<1>7. Align(Base + BlkSize) = 4 * q + 4 /\ 4 * q <= Base + BlkSize - 1
  <2>1. ASSUME NEW x \in Int PROVE 4 * (x \div 4) <= x BY <2>1, SMT
  <2>2. PICK x \in Int : x = Base + BlkSize - 1 BY <1>1
  <2>3. 4 * q <= x BY <2>1, <2>2, <1>6
  <2>4. Align(Base + BlkSize) = 4 * q + 4 BY <1>1, <1>6 DEF Align
  <2> QED BY <2>2, <2>3, <2>4
<1>8. Align(4 * q + 4 + 4 * s) = 4 * q + 4 + 4 * s
  <2>1. ASSUME NEW x \in Int PROVE Align(4 * x + 4) = 4 * x + 4 BY <2>1 DEF Align
  <2>2. PICK x \in Int : x = q + s OBVIOUS
  <2>3. 4 * q + 4 + 4 * s = 4 * x + 4 BY <2>2
  <2> QED BY <2>1, <2>3
<1>9. MatrixEnd(n, Base + BlkSize) = 4 * q + 4 + 4 * s + 4 * s
  <2>1. MatrixEnd(n, Base + BlkSize) = Align(Align(Base + BlkSize) + 4 * s) + 4 * s
    BY <1>5, Zenon DEF MatrixEnd
  <2> QED BY <2>1, <1>7, <1>8
<1>10. 4 * q + 4 + 4 * s + 4 * s <= Base + 2 * BlkSize BY <1>1, <1>5, <1>7
<1> QED BY <1>3, <1>9, <1>10

LEMMA KeptRestored == BlocksKept /\ MatricesFit => BlocksRestored
BY MatricesEnd, Zenon DEF BlocksKept, BlocksRestored

----------------------------------------------------------------------------
(* The scan of the state machine. *)

\* The tables of ScanEnd from a place lo of the block on.
TokenFrom(b, size, lo, T) ==
    T = [p \in lo .. size |->
            [state \in States |->
                IF p = size \/ state = "INVALID" THEN p
                ELSE IF b[p] = 0 THEN p
                ELSE IF b[p] = Comma THEN p + 1
                ELSE T[p + 1][Transition(state, b[p])]]]

ScanFrom(b, size, T, lo, s) ==
    s = [p \in lo .. size |->
            IF p = size THEN p ELSE IF b[p] = 0 THEN p ELSE s[T[p]["START"]]]

LEMMA TokenExists ==
    ASSUME NEW b, NEW size \in Nat
    PROVE  \E T : TokenFrom(b, size, 0, T)
<1> DEFINE Row(p, t) == [state \in States |->
                            IF p = size \/ state = "INVALID" THEN p
                            ELSE IF b[p] = 0 THEN p
                            ELSE IF b[p] = Comma THEN p + 1
                            ELSE t[Transition(state, b[p])]]
           S == {m \in 0 .. size : \E T : TokenFrom(b, size, size - m, T)}
<1>1. ASSUME NEW t, NEW u PROVE Row(size, t) = Row(size, u) BY Zenon
<1>2. ASSUME NEW lo, NEW T PROVE TokenFrom(b, size, lo, T) <=> T = [p \in lo .. size |-> Row(p, T[p + 1])]
  BY Zenon DEF TokenFrom
<1> HIDE DEF Row
<1>3. 0 \in S
  <2> DEFINE T == [p \in size .. size |-> Row(size, {})]
  <2>1. ASSUME NEW p \in size .. size PROVE T[p] = Row(p, T[p + 1])
    <3>1. p = size BY <2>1
    <3>2. T[p] = Row(size, {}) BY Zenon
    <3> HIDE DEF T
    <3> QED BY <3>1, <3>2, <1>1, Zenon
  <2>2. T = [p \in size .. size |-> T[p]] BY Zenon
  <2> HIDE DEF T
  <2>3. T = [p \in size .. size |-> Row(p, T[p + 1])] BY <2>1, <2>2, Zenon
  <2>4. TokenFrom(b, size, size, T) BY <2>3, <1>2, Zenon
  <2>5. size - 0 = size /\ 0 \in 0 .. size OBVIOUS
  <2> QED BY <2>4, <2>5, Zenon
<1>4. ASSUME NEW m \in 0 .. size - 1, m \in S PROVE m + 1 \in S
  <2>1. PICK lo \in Nat : lo = size - (m + 1) /\ size - m = lo + 1 /\ lo < size
    <3>1. size - (m + 1) \in Nat /\ size - m = size - (m + 1) + 1 /\ size - (m + 1) < size BY <1>4
    <3> QED BY <3>1
  <2>2. PICK T : TokenFrom(b, size, lo + 1, T) BY <1>4, <2>1, Zenon
  <2>3. \A p \in lo + 1 .. size : T[p] = Row(p, T[p + 1])
    <3>1. T = [p \in lo + 1 .. size |-> Row(p, T[p + 1])] BY <2>2, <1>2, Zenon
    <3> QED BY <3>1, Zenon
  <2> DEFINE U == [p \in lo .. size |-> IF p = lo THEN Row(lo, T[lo + 1]) ELSE T[p]]
  <2>4. ASSUME NEW p \in lo .. size PROVE U[p] = Row(p, U[p + 1])
    <3>1. CASE p = lo
      <4>1. p + 1 \in lo .. size /\ p + 1 # lo BY <3>1, <2>1
      <4>2. U[p + 1] = T[lo + 1] BY <4>1, <3>1
      <4>3. U[p] = Row(lo, T[lo + 1]) BY <3>1, Zenon
      <4> HIDE DEF U
      <4> QED BY <4>2, <4>3, <3>1, Zenon
    <3>2. CASE p # lo
      <4>1. p \in lo + 1 .. size BY <3>2
      <4>2. U[p] = T[p] BY <3>2, Zenon
      <4>3. p # size => p + 1 \in lo .. size /\ p + 1 # lo BY <4>1
      <4>4. p # size => U[p + 1] = T[p + 1] BY <4>3, Zenon
      <4> HIDE DEF U
      <4>5. T[p] = Row(p, T[p + 1]) BY <4>1, <2>3
      <4>6. CASE p = size BY <4>2, <4>5, <4>6, <1>1, Zenon
      <4>7. CASE p # size BY <4>2, <4>4, <4>5, <4>7, Zenon
      <4> QED BY <4>6, <4>7
    <3> QED BY <3>1, <3>2
  <2>5. U = [p \in lo .. size |-> U[p]] BY Zenon
  <2> HIDE DEF U
  <2>6. U = [p \in lo .. size |-> Row(p, U[p + 1])] BY <2>4, <2>5, Zenon
  <2>7. TokenFrom(b, size, lo, U) BY <2>6, <1>2, Zenon
  <2>8. m + 1 \in 0 .. size BY <1>4
  <2> QED BY <2>1, <2>7, <2>8, Zenon
<1>5. \A m \in 0 .. size : m \in S
  <2> HIDE DEF S
  <2> QED BY <1>3, <1>4, Climb
<1>6. size \in S /\ size - size = 0 BY <1>5
<1> QED BY <1>6

\* A token ends at the first zero behind its begin, or before.
LEMMA TokenEnds ==
    ASSUME NEW b, NEW size \in Nat, NEW T, TokenFrom(b, size, 0, T),
           NEW z \in 0 .. size, z = size \/ b[z] = 0
    PROVE  /\ \A p \in 0 .. z, state \in States : T[p][state] \in p .. z
           /\ \A p \in 0 .. z : p < z /\ b[p] # 0 => T[p]["START"] \in p + 1 .. z
<1> DEFINE End(p, state) == IF p = size \/ state = "INVALID" THEN p
                            ELSE IF b[p] = 0 THEN p
                            ELSE IF b[p] = Comma THEN p + 1
                            ELSE T[p + 1][Transition(state, b[p])]
<1>1. \A p \in 0 .. size, state \in States : T[p][state] = End(p, state)
  <2>1. T = [p \in 0 .. size |-> [state \in States |-> End(p, state)]] BY DEF TokenFrom
  <2> HIDE DEF End
  <2> QED BY <2>1
<1>2. ASSUME NEW state \in States, state # "INVALID", NEW c PROVE Transition(state, c) \in States
  <2>1. \/ state = "START" \/ state = "S1" \/ state = "INT" \/ state = "FLOAT" \/ state = "S2"
        \/ state = "EXPONENT" \/ state = "SCIENTIFIC"
    BY <1>2 DEF States
  <2> QED BY <2>1, SMT DEF Transition, States
<1> DEFINE Good(p) == \A state \in States : T[p][state] \in p .. z
           S == {m \in 0 .. z : Good(z - m)}
<1>3. Good(z)
  <2>1. ASSUME NEW state \in States PROVE T[z][state] = z BY <1>1, Zenon
  <2> QED BY <2>1
<1>4. ASSUME NEW p \in 0 .. z - 1, Good(p + 1), NEW state \in States, state # "INVALID", b[p] # 0
      PROVE  T[p][state] \in p + 1 .. z
  <2>1. p \in 0 .. size /\ p # size BY <1>4
  <2>2. CASE b[p] = Comma
    <3>1. T[p][state] = p + 1 BY <2>1, <2>2, <1>1, <1>4
    <3> QED BY <3>1
  <2>3. CASE b[p] # Comma
    <3>1. T[p][state] = T[p + 1][Transition(state, b[p])] BY <2>1, <2>3, <1>1, <1>4
    <3>2. Transition(state, b[p]) \in States BY <1>2, <1>4
    <3> QED BY <3>1, <3>2, <1>4, Zenon
  <2> QED BY <2>2, <2>3
<1>5. ASSUME NEW p \in 0 .. z - 1, Good(p + 1) PROVE Good(p)
  <2> SUFFICES ASSUME NEW state \in States PROVE T[p][state] \in p .. z OBVIOUS
  <2>1. p \in 0 .. size BY <1>5
  <2>2. CASE state = "INVALID" \/ b[p] = 0
    <3>1. T[p][state] = p BY <2>1, <2>2, <1>1
    <3> QED BY <3>1
  <2>3. CASE ~(state = "INVALID" \/ b[p] = 0)
    <3>1. T[p][state] \in p + 1 .. z BY <2>3, <1>4, <1>5
    <3> HIDE DEF Good
    <3> QED BY <3>1
  <2> QED BY <2>2, <2>3
<1> HIDE DEF Good
<1>6. \A m \in 0 .. z : m \in S
  <2>1. 0 \in S
    <3>1. z - 0 = z /\ 0 \in 0 .. z OBVIOUS
    <3> QED BY <3>1, <1>3
  <2>2. ASSUME NEW m \in 0 .. z - 1, m \in S PROVE m + 1 \in S
    <3>1. PICK p \in 0 .. z - 1 : p = z - (m + 1) /\ z - m = p + 1
      <4>1. z - (m + 1) \in 0 .. z - 1 /\ z - m = z - (m + 1) + 1 BY <2>2
      <4> QED BY <4>1
    <3>2. Good(p + 1) BY <2>2, <3>1, Zenon
    <3>3. Good(p) BY <3>2, <1>5
    <3>4. m + 1 \in 0 .. z BY <2>2
    <3> QED BY <3>1, <3>3, <3>4
  <2> HIDE DEF S
  <2> QED BY <2>1, <2>2, Climb
<1>7. ASSUME NEW p \in 0 .. z PROVE Good(p)
  <2>1. PICK m \in 0 .. z : z - m = p
    <3>1. z - p \in 0 .. z /\ z - (z - p) = p BY <1>7
    <3> QED BY <3>1
  <2>2. Good(z - m) BY <1>6
  <2> QED BY <2>1, <2>2
<1>8. ASSUME NEW p \in 0 .. z, p < z, b[p] # 0 PROVE T[p]["START"] \in p + 1 .. z
  <2>1. p \in 0 .. z - 1 /\ p + 1 \in 0 .. z BY <1>8
  <2>2. "START" \in States /\ "START" # "INVALID" BY DEF States
  <2>3. Good(p + 1) BY <2>1, <1>7
  <2> QED BY <2>1, <2>2, <2>3, <1>4, <1>8
<1>9. \A p \in 0 .. z, state \in States : T[p][state] \in p .. z BY <1>7, Zenon DEF Good
<1> QED BY <1>8, <1>9

\* The scan goes on from each token, which is not empty, to the next.
LEMMA ScanExists ==
    ASSUME NEW b, NEW size \in Nat, NEW T,
           \A p \in 0 .. size : p < size /\ b[p] # 0 => T[p]["START"] \in p + 1 .. size
    PROVE  \E s : ScanFrom(b, size, T, 0, s)
<1> DEFINE Step(p, s) == IF p = size THEN p ELSE IF b[p] = 0 THEN p ELSE s[T[p]["START"]]
           S == {m \in 0 .. size : \E s : ScanFrom(b, size, T, size - m, s)}
<1>1. ASSUME NEW lo, NEW s PROVE ScanFrom(b, size, T, lo, s) <=> s = [p \in lo .. size |-> Step(p, s)]
  BY Zenon DEF ScanFrom
<1>2. ASSUME NEW r, NEW s PROVE Step(size, r) = Step(size, s) BY Zenon
<1>3. ASSUME NEW p \in 0 .. size, NEW r, NEW s, \A k \in p + 1 .. size : r[k] = s[k]
      PROVE  Step(p, r) = Step(p, s)
  <2>1. CASE p = size BY <2>1, <1>2
  <2>2. CASE p # size
    <3>1. b[p] # 0 => T[p]["START"] \in p + 1 .. size BY <2>2
    <3> QED BY <3>1, <1>3, Zenon
  <2> QED BY <2>1, <2>2
<1> HIDE DEF Step
<1>4. 0 \in S
  <2> DEFINE s == [p \in size .. size |-> Step(size, {})]
  <2>1. ASSUME NEW p \in size .. size PROVE s[p] = Step(p, s)
    <3>1. p = size BY <2>1
    <3>2. s[p] = Step(size, {}) BY Zenon
    <3> HIDE DEF s
    <3> QED BY <3>1, <3>2, <1>2, Zenon
  <2>2. s = [p \in size .. size |-> s[p]] BY Zenon
  <2> HIDE DEF s
  <2>3. s = [p \in size .. size |-> Step(p, s)] BY <2>1, <2>2, Zenon
  <2>4. ScanFrom(b, size, T, size, s) BY <2>3, <1>1, Zenon
  <2>5. size - 0 = size /\ 0 \in 0 .. size OBVIOUS
  <2> QED BY <2>4, <2>5, Zenon
<1>5. ASSUME NEW m \in 0 .. size - 1, m \in S PROVE m + 1 \in S
  <2>1. PICK lo \in Nat : lo = size - (m + 1) /\ size - m = lo + 1 /\ lo < size
    <3>1. size - (m + 1) \in Nat /\ size - m = size - (m + 1) + 1 /\ size - (m + 1) < size BY <1>5
    <3> QED BY <3>1
  <2>2. PICK s : ScanFrom(b, size, T, lo + 1, s) BY <1>5, <2>1, Zenon
  <2>3. \A p \in lo + 1 .. size : s[p] = Step(p, s)
    <3>1. s = [p \in lo + 1 .. size |-> Step(p, s)] BY <2>2, <1>1, Zenon
    <3> QED BY <3>1, Zenon
  <2> DEFINE r == [p \in lo .. size |-> IF p = lo THEN Step(lo, s) ELSE s[p]]
  <2>4. \A k \in lo + 1 .. size : r[k] = s[k]
    <3>1. \A k \in lo + 1 .. size : k \in lo .. size /\ k # lo OBVIOUS
    <3> QED BY <3>1, Zenon
  <2>5. r[lo] = Step(lo, s)
    <3>1. lo \in lo .. size BY <2>1
    <3> QED BY <3>1, Zenon
  <2>6. r = [p \in lo .. size |-> r[p]] BY Zenon
  <2> HIDE DEF r
  <2>7. ASSUME NEW p \in lo .. size PROVE r[p] = Step(p, r)
    <3>1. p \in 0 .. size /\ \A k \in p + 1 .. size : k \in lo + 1 .. size BY <2>7
    <3>2. Step(p, r) = Step(p, s) BY <3>1, <2>4, <1>3
    <3>3. CASE p = lo BY <3>2, <3>3, <2>5, Zenon
    <3>4. CASE p # lo
      <4>1. p \in lo + 1 .. size BY <3>4
      <4> QED BY <4>1, <3>2, <2>3, <2>4, Zenon
    <3> QED BY <3>3, <3>4
  <2>8. r = [p \in lo .. size |-> Step(p, r)] BY <2>6, <2>7, Zenon
  <2>9. ScanFrom(b, size, T, lo, r) BY <2>8, <1>1, Zenon
  <2>10. m + 1 \in 0 .. size BY <1>5
  <2> QED BY <2>1, <2>9, <2>10, Zenon
<1>6. \A m \in 0 .. size : m \in S
  <2> HIDE DEF S
  <2> QED BY <1>4, <1>5, Climb
<1>7. size \in S /\ size - size = 0 BY <1>6
<1> QED BY <1>7

\* The scan meets any zero of the block, or one before it.
LEMMA ScanMeetsZero ==
    ASSUME NEW b, NEW size \in Nat, NEW z \in 0 .. size - 1, b[z] = 0
    PROVE  ScanEnd(b, size) \in 0 .. z
<1> DEFINE T == CHOOSE T : TokenFrom(b, size, 0, T)
<1>1. TokenFrom(b, size, 0, T)
  <2>1. \E t : TokenFrom(b, size, 0, t) BY TokenExists
  <2> QED BY <2>1, Zenon
<1> DEFINE s == CHOOSE s : ScanFrom(b, size, T, 0, s)
<1>2. ScanEnd(b, size) = s[0] BY Zenon DEF ScanEnd, TokenFrom, ScanFrom
<1> HIDE DEF T
<1>3. ScanFrom(b, size, T, 0, s)
  <2>1. \A p \in 0 .. size : p < size /\ b[p] # 0 => T[p]["START"] \in p + 1 .. size
    <3>1. size \in 0 .. size OBVIOUS
    <3> QED BY <3>1, <1>1, TokenEnds
  <2>2. \E t : ScanFrom(b, size, T, 0, t) BY <2>1, ScanExists
  <2> QED BY <2>2, Zenon
<1> HIDE DEF s
<1>4. \A p \in 0 .. z : p < z /\ b[p] # 0 => T[p]["START"] \in p + 1 .. z
  <2>1. z \in 0 .. size OBVIOUS
  <2> QED BY <2>1, <1>1, TokenEnds
<1> DEFINE Stop(p) == IF p = size THEN p ELSE IF b[p] = 0 THEN p ELSE s[T[p]["START"]]
<1>5. \A p \in 0 .. size : s[p] = Stop(p)
  <2>1. s = [p \in 0 .. size |-> Stop(p)] BY <1>3 DEF ScanFrom
  <2> HIDE DEF Stop
  <2> QED BY <2>1
<1> DEFINE S == {m \in 0 .. z : \A p \in z - m .. z : s[p] \in p .. z}
<1>6. 0 \in S
  <2>1. ASSUME NEW p \in z - 0 .. z PROVE s[p] \in p .. z
    <3>1. p = z /\ p \in 0 .. size /\ p # size BY <2>1
    <3>2. s[p] = p BY <3>1, <1>5
    <3> QED BY <3>1, <3>2
  <2> QED BY <2>1
<1>7. ASSUME NEW m \in 0 .. z - 1, m \in S PROVE m + 1 \in S
  <2>1. \A p \in z - m .. z : s[p] \in p .. z BY <1>7
  <2>2. PICK lo \in 0 .. z - 1 : lo = z - (m + 1) /\ z - m = lo + 1
    <3>1. z - (m + 1) \in 0 .. z - 1 /\ z - m = z - (m + 1) + 1 BY <1>7
    <3> QED BY <3>1
  <2>3. s[lo] \in lo .. z
    <3>1. lo \in 0 .. size /\ lo # size /\ lo \in 0 .. z /\ lo < z OBVIOUS
    <3>2. CASE b[lo] = 0
      <4>1. s[lo] = lo BY <3>1, <3>2, <1>5
      <4> QED BY <4>1
    <3>3. CASE b[lo] # 0
      <4>1. PICK q \in lo + 1 .. z : q = T[lo]["START"] BY <3>1, <3>3, <1>4
      <4>2. s[lo] = s[q] BY <4>1, <3>1, <3>3, <1>5, Zenon
      <4>3. s[q] \in q .. z BY <2>1, <2>2
      <4> QED BY <4>2, <4>3
    <3> QED BY <3>2, <3>3
  <2>4. \A p \in lo .. z : p = lo \/ p \in lo + 1 .. z OBVIOUS
  <2>5. \A p \in z - (m + 1) .. z : s[p] \in p .. z BY <2>1, <2>2, <2>3, <2>4, Zenon
  <2>6. m + 1 \in 0 .. z BY <1>7
  <2> QED BY <2>5, <2>6
<1>8. \A m \in 0 .. z : m \in S
  <2> HIDE DEF S
  <2> QED BY <1>6, <1>7, Climb
<1>9. z \in S BY <1>8
<1>10. 0 \in z - z .. z OBVIOUS
<1>11. s[0] \in 0 .. z BY <1>9, <1>10
<1> QED BY <1>2, <1>11

Steps == {34} \cup {17 * k : k \in 2 .. 15}

\* No step takes in two neighbours.
LEMMA NeighboursApart ==
    ASSUME NEW step \in Steps, NEW x \in Int, x % step = 0
    PROVE  (x - 1) % step # 0
<1>1. \/ step = 34 \/ step = 51 \/ step = 68 \/ step = 85 \/ step = 102 \/ step = 119
      \/ step = 136 \/ step = 153 \/ step = 170 \/ step = 187 \/ step = 204 \/ step = 221
      \/ step = 238 \/ step = 255
  <2>1. \A k \in 2 .. 15 : \/ k = 2 \/ k = 3 \/ k = 4 \/ k = 5 \/ k = 6 \/ k = 7 \/ k = 8 \/ k = 9
                           \/ k = 10 \/ k = 11 \/ k = 12 \/ k = 13 \/ k = 14 \/ k = 15
    OBVIOUS
  <2>2. PICK k : step = 34 \/ (k \in 2 .. 15 /\ step = 17 * k) BY DEF Steps
  <2> QED BY <2>1, <2>2
<1>2. CASE step = 34 BY <1>2
<1>3. CASE step = 51 BY <1>3
<1>4. CASE step = 68 BY <1>4
<1>5. CASE step = 85 BY <1>5
<1>6. CASE step = 102 BY <1>6
<1>7. CASE step = 119 BY <1>7
<1>8. CASE step = 136 BY <1>8
<1>9. CASE step = 153 BY <1>9
<1>10. CASE step = 170 BY <1>10
<1>11. CASE step = 187 BY <1>11
<1>12. CASE step = 204 BY <1>12
<1>13. CASE step = 221 BY <1>13
<1>14. CASE step = 238 BY <1>14
<1>15. CASE step = 255 BY <1>15
<1> QED BY <1>1, <1>2, <1>3, <1>4, <1>5, <1>6, <1>7, <1>8, <1>9, <1>10, <1>11, <1>12, <1>13, <1>14, <1>15

\* One of the two zeros at the end of the block is not corrupted.
LEMMA CorruptLeavesZero ==
    ASSUME NEW size \in Nat, size >= 2, NEW b \in [0 .. size - 1 -> Codes \cup {0}],
           b[size - 1] = 0, b[size - 2] = 0, NEW seed, NEW step \in Steps
    PROVE  \E z \in 0 .. size - 1 : Corrupt(b, seed, step)[z] = 0
<1>1. ASSUME NEW z \in 0 .. size - 1, b[z] = 0, z % step # 0 PROVE Corrupt(b, seed, step)[z] = 0
  <2> DEFINE g == [p \in 0 .. size - 1 |-> IF p % step = 0 /\ b[p] # Comma
                                          THEN Xor(b[p], seed % 256) ELSE b[p]]
  <2>1. Corrupt(b, seed, step) = g
    <3>1. DOMAIN b = 0 .. size - 1 OBVIOUS
    <3> QED BY <3>1, Zenon DEF Corrupt
  <2>2. g[z] = b[z] BY <1>1, Zenon
  <2> HIDE DEF g
  <2> QED BY <2>1, <2>2, <1>1
<1>2. size - 1 \in 0 .. size - 1 /\ size - 2 \in 0 .. size - 1 /\ size - 1 \in Int
      /\ size - 2 = size - 1 - 1
  OBVIOUS
<1>3. CASE (size - 1) % step # 0 BY <1>1, <1>2, <1>3, Zenon
<1>4. CASE (size - 1) % step = 0
  <2>1. (size - 1 - 1) % step # 0 BY <1>2, <1>4, NeighboursApart
  <2>2. (size - 2) % step # 0 BY <1>2, <2>1, Zenon
  <2> QED BY <2>2, <1>1, <1>2, Zenon
<1> QED BY <1>3, <1>4

LEMMA KeptStops == SameSeeds /\ BlocksKept => ScanStops
<1> SUFFICES ASSUME SameSeeds, BlocksKept PROVE ScanStops OBVIOUS
<1>1. BlkSize \in Nat /\ BlkSize >= 2
  <2>1. BlkSize \in Nat /\ BlkSize >= 120 BY CoreMarkAssumption, SMT
  <2> QED BY <2>1
<1>2. /\ blk \in [0 .. BlkSize - 1 -> Codes \cup {0}]
      /\ blk[BlkSize - 1] = 0 /\ blk[BlkSize - 2] = 0
  <2>1. cfg.seed1 \in Nat
    <3>1. \A s \in FirstSeeds : s \in Nat BY DEF FirstSeeds
    <3> QED BY <3>1 DEF SameSeeds
  <2> QED BY <2>1, <1>1, BlockIs DEF BlocksKept
<1>3. ASSUME NEW b, NEW z \in 0 .. BlkSize - 1, b[z] = 0 PROVE ScanEnd(b, BlkSize) < BlkSize
  <2>1. ScanEnd(b, BlkSize) \in 0 .. z BY <1>1, <1>3, ScanMeetsZero
  <2> QED BY <2>1, <1>1
<1>4. ScanEnd(blk, BlkSize) < BlkSize
  <2>1. BlkSize - 1 \in 0 .. BlkSize - 1 BY <1>1
  <2> QED BY <2>1, <1>2, <1>3
<1>5. ASSUME NEW step \in Steps PROVE ScanEnd(Corrupt(blk, cfg.seed1, step), BlkSize) < BlkSize
  <2>1. \E z \in 0 .. BlkSize - 1 : Corrupt(blk, cfg.seed1, step)[z] = 0
    BY <1>1, <1>2, CorruptLeavesZero
  <2> QED BY <2>1, <1>3
<1> QED BY <1>4, <1>5, Zenon DEF ScanStops, Steps

----------------------------------------------------------------------------
(* The indices of a short list are distinct. *)

\* The last eight bits of sixteen.
Low(b) == [k \in 1 .. 16 |-> k > 8 /\ b[k]]
EndsAs(r, b) == \A k \in 9 .. 16 : Bit(r, k) <=> b[k]

LEMMA LowIs ==
    ASSUME NEW b, NEW c, c = Low(b)
    PROVE  (\A k \in 1 .. 8 : ~c[k]) /\ \A k \in 9 .. 16 : k \in 1 .. 16 /\ (c[k] <=> b[k])
<1>1. \A k \in 1 .. 8 : k \in 1 .. 16 /\ ~(k > 8) BY SMT
<1>2. \A k \in 9 .. 16 : k \in 1 .. 16 /\ k > 8 BY SMT
<1>3. \A k \in 1 .. 16 : c[k] = (k > 8 /\ b[k]) BY Zenon DEF Low
<1>4. \A k \in 1 .. 16 : c[k] <=> k > 8 /\ b[k] BY <1>3, Zenon
<1> QED BY <1>1, <1>2, <1>4, Zenon

\* A number of sixteen bits from its two highest, the next three, three that
\* count, and its low byte.
LEMMA HighLow ==
    ASSUME NEW b
    PROVE  \E h \in 0 .. 3, x \in 0 .. 7 :
              OfBits(b) = 16384 * h + 2048 * x + (IF b[6] THEN 1024 ELSE 0)
                          + (IF b[7] THEN 512 ELSE 0) + (IF b[8] THEN 256 ELSE 0) + OfBits(Low(b))
<1> DEFINE f == CHOOSE f : Weighed(b, 16, f)
           D(k) == IF b[k] THEN Places[k] ELSE 0
           u(k, x) == IF b[k] THEN x ELSE 0
           h == u(1, 2) + u(2, 1)
           x == u(3, 4) + u(4, 2) + u(5, 1)
           r == u(9, 128) + u(10, 64) + u(11, 32) + u(12, 16) + u(13, 8) + u(14, 4) + u(15, 2) + u(16, 1)
<1>1. Weighed(b, 16, f)
  <2>1. \E g : Weighed(b, 16, g) BY WeighedExists
  <2> QED BY <2>1, Zenon
<1>2. OfBits(b) = f[16] BY Zenon DEF OfBits, Weighed
<1> HIDE DEF f
<1>3. f[0] = 0 /\ \A k \in 1 .. 16 : f[k] = f[k - 1] + D(k)
  <2>1. \A k \in 0 .. 16 : f[k] = IF k = 0 THEN 0 ELSE f[k - 1] + D(k) BY <1>1, SMT DEF Weighed
  <2> HIDE DEF D
  <2> QED BY <2>1, SMT
<1>4. /\ D(1) = u(1, 32768) /\ D(2) = u(2, 16384) /\ D(3) = u(3, 8192) /\ D(4) = u(4, 4096)
      /\ D(5) = u(5, 2048) /\ D(6) = u(6, 1024) /\ D(7) = u(7, 512) /\ D(8) = u(8, 256)
  BY SMT DEF Places
<1>5. /\ D(9) = u(9, 128) /\ D(10) = u(10, 64) /\ D(11) = u(11, 32) /\ D(12) = u(12, 16)
      /\ D(13) = u(13, 8) /\ D(14) = u(14, 4) /\ D(15) = u(15, 2) /\ D(16) = u(16, 1)
  BY SMT DEF Places
<1>6. /\ u(1, 32768) = 16384 * u(1, 2) /\ u(2, 16384) = 16384 * u(2, 1)
      /\ u(3, 8192) = 2048 * u(3, 4) /\ u(4, 4096) = 2048 * u(4, 2) /\ u(5, 2048) = 2048 * u(5, 1)
  BY SMT
<1>7. /\ u(1, 2) \in Nat /\ u(1, 2) <= 2 /\ u(2, 1) \in Nat /\ u(2, 1) <= 1
      /\ u(3, 4) \in Nat /\ u(3, 4) <= 4 /\ u(4, 2) \in Nat /\ u(4, 2) <= 2
      /\ u(5, 1) \in Nat /\ u(5, 1) <= 1
      /\ u(6, 1024) \in Nat /\ u(7, 512) \in Nat /\ u(8, 256) \in Nat
      /\ u(9, 128) \in Nat /\ u(10, 64) \in Nat /\ u(11, 32) \in Nat /\ u(12, 16) \in Nat
      /\ u(13, 8) \in Nat /\ u(14, 4) \in Nat /\ u(15, 2) \in Nat /\ u(16, 1) \in Nat
  BY SMT
<1>8. OfBits(Low(b)) = r
  <2> DEFINE c == Low(b)
  <2>1. \A k \in 1 .. 8 : ~c[k] BY LowIs, Zenon
  <2>2. /\ c[9] <=> b[9]
        /\ c[10] <=> b[10]
        /\ c[11] <=> b[11]
        /\ c[12] <=> b[12]
        /\ c[13] <=> b[13]
        /\ c[14] <=> b[14]
        /\ c[15] <=> b[15]
        /\ c[16] <=> b[16]
    <3>1. /\ 9 \in 9 .. 16 /\ 10 \in 9 .. 16 /\ 11 \in 9 .. 16 /\ 12 \in 9 .. 16
          /\ 13 \in 9 .. 16 /\ 14 \in 9 .. 16 /\ 15 \in 9 .. 16 /\ 16 \in 9 .. 16
      BY SMT
    <3>2. \A k \in 9 .. 16 : c[k] <=> b[k] BY LowIs, Zenon
    <3> HIDE DEF c
    <3> QED BY <3>1, <3>2, Zenon
  <2> HIDE DEF c
  <2>3. OfBits(c) = (IF c[9] THEN 128 ELSE 0) + (IF c[10] THEN 64 ELSE 0)
                    + (IF c[11] THEN 32 ELSE 0) + (IF c[12] THEN 16 ELSE 0)
                    + (IF c[13] THEN 8 ELSE 0) + (IF c[14] THEN 4 ELSE 0)
                    + (IF c[15] THEN 2 ELSE 0) + (IF c[16] THEN 1 ELSE 0)
    BY <2>1, ByteOfBits
  <2> QED BY <2>2, <2>3, SMT DEF c
<1>9. /\ f[1] = f[0] + D(1) /\ f[2] = f[1] + D(2) /\ f[3] = f[2] + D(3) /\ f[4] = f[3] + D(4)
      /\ f[5] = f[4] + D(5) /\ f[6] = f[5] + D(6) /\ f[7] = f[6] + D(7) /\ f[8] = f[7] + D(8)
      /\ f[9] = f[8] + D(9) /\ f[10] = f[9] + D(10) /\ f[11] = f[10] + D(11)
      /\ f[12] = f[11] + D(12) /\ f[13] = f[12] + D(13) /\ f[14] = f[13] + D(14)
      /\ f[15] = f[14] + D(15) /\ f[16] = f[15] + D(16)
  <2> HIDE DEF D
  <2> QED BY <1>3, SMT
<1> HIDE DEF D
<1>10. f[8] = 16384 * h + 2048 * x + u(6, 1024) + u(7, 512) + u(8, 256)
  <2> HIDE DEF u
  <2> QED BY <1>3, <1>4, <1>6, <1>7, <1>9, SMT
<1>11. f[8] \in Int
  <2> HIDE DEF u
  <2> QED BY <1>7, <1>10, SMT
<1>12. f[16] = f[8] + r
  <2> HIDE DEF u
  <2> QED BY <1>5, <1>7, <1>9, <1>11, SMT
<1>13. h \in 0 .. 3 /\ x \in 0 .. 7
  <2>1. \A p, q : p \in Nat /\ p <= 2 /\ q \in Nat /\ q <= 1 => p + q \in 0 .. 3 BY SMT
  <2>2. \A p, q, s : p \in Nat /\ p <= 4 /\ q \in Nat /\ q <= 2 /\ s \in Nat /\ s <= 1
                    => p + q + s \in 0 .. 7
    BY SMT
  <2> HIDE DEF u
  <2>3. h \in 0 .. 3 BY <1>7, <2>1, Zenon
  <2>4. x \in 0 .. 7 BY <1>7, <2>2, Zenon
  <2> QED BY <2>3, <2>4, Zenon
<1>14. OfBits(b) = 16384 * h + 2048 * x + u(6, 1024) + u(7, 512) + u(8, 256) + OfBits(Low(b))
  <2> HIDE DEF h, x, r, u
  <2> QED BY <1>2, <1>8, <1>10, <1>12
<1> HIDE DEF h, x
<1> QED BY <1>13, <1>14

\* The low byte of a number has its last bits.
LEMMA LastBits ==
    ASSUME NEW b, NEW c, c = Low(b)
    PROVE  OfBits(c) \in Byte /\ EndsAs(OfBits(c), b)
<1>1. (\A k \in 1 .. 8 : ~c[k]) /\ \A k \in 9 .. 16 : k \in 1 .. 16 /\ (c[k] <=> b[k])
  BY LowIs, Zenon
<1>2. OfBits(c) \in Byte /\ \A k \in 1 .. 16 : Bit(OfBits(c), k) <=> c[k] BY <1>1, BitsOfByte
<1>3. EndsAs(OfBits(c), b) BY <1>1, <1>2, Zenon DEF EndsAs
<1>4. OfBits(c) \in Byte BY <1>2
<1> QED BY <1>3, <1>4

\* What is above a byte does not show in its bits.
LEMMA BitsBelow ==
    ASSUME NEW y \in Nat, NEW r \in Byte, NEW k \in 9 .. 16
    PROVE  Bit(256 * y + r, k) <=> Bit(r, k)
<1>1. r \in Nat /\ r < 256 BY SMT DEF Byte
<1>2. (Bit(256 * y + r, 9) <=> Bit(r, 9)) /\ (Bit(256 * y + r, 10) <=> Bit(r, 10))
  BY <1>1, SMT DEF Bit, Places
<1>3. (Bit(256 * y + r, 11) <=> Bit(r, 11)) /\ (Bit(256 * y + r, 12) <=> Bit(r, 12))
  BY <1>1, SMT DEF Bit, Places
<1>4. (Bit(256 * y + r, 13) <=> Bit(r, 13)) /\ (Bit(256 * y + r, 14) <=> Bit(r, 14))
  BY <1>1, SMT DEF Bit, Places
<1>5. (Bit(256 * y + r, 15) <=> Bit(r, 15)) /\ (Bit(256 * y + r, 16) <=> Bit(r, 16))
  <2>1. (256 * y + r) \div 1 = 256 * y + r /\ r \div 1 = r BY <1>1, SMT
  <2> QED BY <1>1, <2>1, SMT DEF Bit, Places
<1>6. k = 9 \/ k = 10 \/ k = 11 \/ k = 12 \/ k = 13 \/ k = 14 \/ k = 15 \/ k = 16 BY SMT
<1> DEFINE z == 256 * y + r
<1> HIDE DEF z
<1>7. /\ Bit(z, 9) <=> Bit(r, 9)
      /\ Bit(z, 10) <=> Bit(r, 10)
      /\ Bit(z, 11) <=> Bit(r, 11)
      /\ Bit(z, 12) <=> Bit(r, 12)
      /\ Bit(z, 13) <=> Bit(r, 13)
      /\ Bit(z, 14) <=> Bit(r, 14)
      /\ Bit(z, 15) <=> Bit(r, 15)
      /\ Bit(z, 16) <=> Bit(r, 16)
  BY <1>2, <1>3, <1>4, <1>5 DEF z
<1>8. Bit(z, k) <=> Bit(r, k) BY <1>6, <1>7, Zenon
<1> QED BY <1>8 DEF z

\* A byte is known by its bits.
LEMMA SameByte ==
    ASSUME NEW x \in Byte, NEW y \in Byte, \A k \in 9 .. 16 : Bit(x, k) <=> Bit(y, k)
    PROVE  x = y
<1> DEFINE b == [k \in 1 .. 16 |-> Bit(x, k)]
<1>1. \A k \in 1 .. 16 : b[k] <=> Bit(x, k) BY Zenon
<1>2. \A k \in 1 .. 16 : k \in 1 .. 8 \/ k \in 9 .. 16 BY SMT
<1>3. \A k \in 1 .. 8 : ~Bit(x, k) /\ ~Bit(y, k) BY ByteBits, Zenon
<1>4. \A k \in 1 .. 16 : b[k] <=> Bit(y, k) BY <1>1, <1>2, <1>3, Zenon
<1> HIDE DEF b
<1>5. OfBits(b) = x BY <1>1, ByteIs
<1>6. OfBits(b) = y BY <1>4, ByteIs
<1> QED BY <1>5, <1>6

\* The low byte of a number ^ another, and its sixth bit.
LEMMA XorLow ==
    ASSUME NEW a, NEW s
    PROVE  \E y \in Nat, r \in Byte :
              /\ Xor(a, s) = 256 * y + r
              /\ \A k \in 9 .. 16 : Bit(r, k) <=> ~(Bit(a, k) <=> Bit(s, k))
              /\ (y \div 4) % 2 = 1 <=> ~(Bit(a, 6) <=> Bit(s, 6))
<1> DEFINE d == [k \in 1 .. 16 |-> Bit(a, k) # Bit(s, k)]
<1>1. Xor(a, s) = OfBits(d) BY Zenon DEF Xor
<1>2. \A k \in 1 .. 16 : d[k] <=> ~(Bit(a, k) <=> Bit(s, k)) BY Zenon DEF Bit
<1> HIDE DEF d
<1>3. PICK h \in 0 .. 3, x \in 0 .. 7 :
         OfBits(d) = 16384 * h + 2048 * x + (IF d[6] THEN 1024 ELSE 0)
                     + (IF d[7] THEN 512 ELSE 0) + (IF d[8] THEN 256 ELSE 0) + OfBits(Low(d))
  BY HighLow, SMT
<1>4. PICK low : low = OfBits(Low(d)) /\ low \in Byte /\ EndsAs(low, d) BY LastBits, Zenon
<1>5. PICK r \in Byte : r = OfBits(Low(d)) /\ EndsAs(r, d) BY <1>4
<1>6. PICK e6 \in 0 .. 1, e7 \in 0 .. 1, e8 \in 0 .. 1 :
         /\ e6 = (IF d[6] THEN 1 ELSE 0) /\ e7 = (IF d[7] THEN 1 ELSE 0)
         /\ e8 = (IF d[8] THEN 1 ELSE 0)
  OBVIOUS
<1>7. PICK y \in Nat : y = 64 * h + 8 * x + 4 * e6 + 2 * e7 + e8 OBVIOUS
<1>8. OfBits(d) = 256 * y + r
  <2>1. /\ (IF d[6] THEN 1024 ELSE 0) = 1024 * e6 /\ (IF d[7] THEN 512 ELSE 0) = 512 * e7
        /\ (IF d[8] THEN 256 ELSE 0) = 256 * e8
    BY <1>6, SMT
  <2>2. r \in Int BY SMT DEF Byte
  <2> QED BY <2>1, <2>2, <1>3, <1>5, <1>7, SMT
<1>9. (y \div 4) % 2 = e6 BY <1>7, SMT
<1>10. e6 = 1 <=> d[6] BY <1>6
<1>11. 6 \in 1 .. 16 /\ \A k \in 9 .. 16 : k \in 1 .. 16 OBVIOUS
<1>12. \A k \in 9 .. 16 : Bit(r, k) <=> ~(Bit(a, k) <=> Bit(s, k)) BY <1>2, <1>5, <1>11, Zenon DEF EndsAs
<1>13. (y \div 4) % 2 = 1 <=> ~(Bit(a, 6) <=> Bit(s, 6)) BY <1>2, <1>9, <1>10, <1>11, Zenon
<1> QED BY <1>1, <1>8, <1>12, <1>13, Zenon

\* A mixed index: its low byte is that of the number ^ seed1, and there is more
\* above it unless the number ends in three ones and seed1 has no such bit.
MixedAs(j, m, r) ==
    /\ ItemIdx(j) = 256 * m + r
    /\ \A k \in 9 .. 16 : Bit(r, k) <=> ~(Bit(j, k) <=> Bit(cfg.seed1, k))
    /\ (j + 1) % 8 # 0 \/ cfg.seed1 \notin {0, 8} => m > 0

LEMMA MixedIdx ==
    ASSUME NEW j \in Byte, j >= Size \div 5, cfg.seed1 \in FirstSeeds
    PROVE  \E m \in 0 .. 63, r \in Byte : MixedAs(j, m, r)
<1> DEFINE c == (j + 1) % 8
           a == c * 256
           s == cfg.seed1
<1>1. j \in Nat /\ j < 256 /\ c \in 0 .. 7 BY SMT DEF Byte
<1>2. PICK y \in Nat, r \in Byte :
         /\ Xor(j, s) = 256 * y + r
         /\ \A k \in 9 .. 16 : Bit(r, k) <=> ~(Bit(j, k) <=> Bit(s, k))
         /\ (y \div 4) % 2 = 1 <=> ~(Bit(j, 6) <=> Bit(s, 6))
  BY XorLow
<1> DEFINE z == 256 * y + r
           b == [k \in 1 .. 16 |-> Bit(a, k) \/ Bit(z, k)]
<1>3. ItemIdx(j) = OfBits(b) % 16384
  <2>1. ItemIdx(j) = Or(a, Xor(j, s)) % 16384 BY <1>1, Sizes, SMT DEF ItemIdx
  <2>2. Or(a, z) = OfBits(b)
    <3> HIDE DEF a, z
    <3> QED BY Zenon DEF Or
  <2>3. Xor(j, s) = z BY <1>2
  <2> HIDE DEF a, s, b, z
  <2> QED BY <2>1, <2>2, <2>3
<1>4. \A k \in 1 .. 16 : b[k] <=> Bit(a, k) \/ Bit(z, k)
  <2> HIDE DEF a, z
  <2> QED BY Zenon
<1>5. \A k \in 9 .. 16 : ~Bit(a, k)
  <2>1. 0 \in Byte BY SMT DEF Byte
  <2>2. a = 256 * c + 0 /\ c \in Nat BY <1>1
  <2>3. ASSUME NEW k \in 9 .. 16 PROVE Bit(256 * c + 0, k) <=> Bit(0, k)
    <3> HIDE DEF c
    <3> QED BY <2>1, <2>2, BitsBelow
  <2>4. \A k \in 9 .. 16 : ~Bit(0, k)
    <3>1. ASSUME NEW x \in Nat \ {0} PROVE 0 \div x = 0 BY <3>1, SMT
    <3>2. \A k \in 9 .. 16 : Places[k] \in Nat \ {0} BY SMT DEF Places
    <3> QED BY <3>1, <3>2, SMT DEF Bit
  <2> HIDE DEF a, c
  <2> QED BY <2>2, <2>3, <2>4, Zenon
<1>6. \A k \in 9 .. 16 : b[k] <=> Bit(r, k)
  <2>1. ASSUME NEW k \in 9 .. 16 PROVE Bit(z, k) <=> Bit(r, k) BY BitsBelow
  <2>2. \A k \in 9 .. 16 : k \in 1 .. 16 OBVIOUS
  <2> HIDE DEF a, z, b
  <2> QED BY <2>1, <2>2, <1>4, <1>5, Zenon
<1>7. (j + 1) % 8 # 0 \/ s \notin {0, 8} => b[6] \/ b[7] \/ b[8]
  <2>1. 6 \in 1 .. 16 /\ 7 \in 1 .. 16 /\ 8 \in 1 .. 16 OBVIOUS
  <2>2. CASE c # 0
    <3>1. /\ Bit(a, 6) <=> (a \div 1024) % 2 = 1
          /\ Bit(a, 7) <=> (a \div 512) % 2 = 1
          /\ Bit(a, 8) <=> (a \div 256) % 2 = 1
      BY SMT DEF Bit, Places
    <3>2. a \div 256 = c /\ a \div 512 = c \div 2 /\ a \div 1024 = c \div 4
      <4> HIDE DEF c
      <4> QED BY <1>1, SMT
    <3>3. c % 2 = 1 \/ (c \div 2) % 2 = 1 \/ (c \div 4) % 2 = 1
      <4> HIDE DEF c
      <4> QED BY <1>1, <2>2, SMT
    <3>4. Bit(a, 6) \/ Bit(a, 7) \/ Bit(a, 8) BY <3>1, <3>2, <3>3
    <3>5. b[6] \/ b[7] \/ b[8]
      <4> HIDE DEF a, z, b
      <4> QED BY <3>4, <2>1, <1>4, Zenon
    <3> HIDE DEF a, z, b, c
    <3> QED BY <3>5
  <2>3. CASE s \notin {0, 8}
    <3>1. ~Bit(j, 6) BY <1>1, SMT DEF Bit, Places
    <3>2. Bit(s, 6)
      <4>1. s = 13333 BY <2>3 DEF FirstSeeds
      <4>2. (s \div 1024) % 2 = 1 BY <4>1, SMT
      <4> QED BY <4>2, SMT DEF Bit, Places
    <3>3. (y \div 4) % 2 = 1 BY <3>1, <3>2, <1>2, Zenon
    <3>4. z \div 1024 = y \div 4
      <4>1. r \in Nat /\ r < 256 BY SMT DEF Byte
      <4> QED BY <4>1, SMT
    <3>5. Bit(z, 6) BY <3>3, <3>4, SMT DEF Bit, Places
    <3>6. b[6] \/ b[7] \/ b[8]
      <4> HIDE DEF a, z, b
      <4> QED BY <3>5, <2>1, <1>4, Zenon
    <3> HIDE DEF a, z, b, c
    <3> QED BY <3>6
  <2> QED BY <2>2, <2>3
<1> HIDE DEF a, z, b
<1>8. PICK h \in 0 .. 3, x \in 0 .. 7 :
         OfBits(b) = 16384 * h + 2048 * x + (IF b[6] THEN 1024 ELSE 0)
                     + (IF b[7] THEN 512 ELSE 0) + (IF b[8] THEN 256 ELSE 0) + OfBits(Low(b))
  BY HighLow, SMT
<1>9. OfBits(Low(b)) = r
  <2>1. PICK low : low = OfBits(Low(b)) /\ low \in Byte /\ EndsAs(low, b) BY LastBits, Zenon
  <2>2. \A k \in 9 .. 16 : Bit(low, k) <=> Bit(r, k) BY <2>1, <1>6, Zenon DEF EndsAs
  <2> QED BY <2>1, <2>2, SameByte
<1>10. PICK m \in 0 .. 63 : /\ OfBits(b) = 16384 * h + 256 * m + r
                            /\ b[6] \/ b[7] \/ b[8] => m > 0
  <2> DEFINE t(q, p) == IF b[q] THEN p ELSE 0
             m == 8 * x + t(6, 4) + t(7, 2) + t(8, 1)
  <2>1. /\ t(6, 4) \in 0 .. 4 /\ t(7, 2) \in 0 .. 2 /\ t(8, 1) \in 0 .. 1
        /\ b[6] => t(6, 4) > 0
        /\ b[7] => t(7, 2) > 0
        /\ b[8] => t(8, 1) > 0
        /\ (IF b[6] THEN 1024 ELSE 0) = 256 * t(6, 4) /\ (IF b[7] THEN 512 ELSE 0) = 256 * t(7, 2)
        /\ (IF b[8] THEN 256 ELSE 0) = 256 * t(8, 1)
    BY SMT
  <2>2. r \in Int BY SMT DEF Byte
  <2> HIDE DEF t
  <2>3. m \in 0 .. 63 /\ (b[6] \/ b[7] \/ b[8] => m > 0) BY <2>1, SMT
  <2>4. OfBits(b) = 16384 * h + 256 * m + r BY <1>8, <1>9, <2>1, <2>2, SMT
  <2> HIDE DEF m
  <2> QED BY <2>3, <2>4
<1>11. ItemIdx(j) = 256 * m + r
  <2>1. r \in Nat /\ r < 256 BY SMT DEF Byte
  <2>2. (16384 * h + 256 * m + r) % 16384 = 256 * m + r BY <2>1, SMT
  <2> QED BY <2>2, <1>3, <1>10
<1>12. (j + 1) % 8 # 0 \/ s \notin {0, 8} => m > 0 BY <1>7, <1>10
<1>13. MixedAs(j, m, r) BY <1>2, <1>11, <1>12 DEF MixedAs
<1> QED BY <1>13

\* A list of so many nodes has distinct indices; one of 40 has not under seed 8.
ShortList == Size <= 39

\* An index given in order is never one that was mixed.
LEMMA OrderedOrMixed ==
    ASSUME ShortList, cfg.seed1 \in FirstSeeds,
           NEW j \in 1 .. Size - 3, j < Size \div 5, NEW k \in 1 .. Size - 3, k >= Size \div 5
    PROVE  ItemIdx(j) # ItemIdx(k)
<1> SUFFICES ASSUME ItemIdx(j) = ItemIdx(k) PROVE FALSE OBVIOUS
<1>1. j \in Nat /\ j < 7 /\ j > 0 /\ k \in Nat /\ k < 256 /\ k \in Byte
  BY Sizes, SMT DEF ShortList, Byte
<1>2. ItemIdx(j) = j BY SMT DEF ItemIdx
<1>3. PICK m \in 0 .. 63, r \in Byte : MixedAs(k, m, r) BY <1>1, MixedIdx, Zenon
<1>4. r \in Nat /\ r < 256 BY SMT DEF Byte
<1>5. m = 0 /\ r = j
  <2>1. j = 256 * m + r BY <1>2, <1>3 DEF MixedAs
  <2> QED BY <2>1, <1>1, <1>4
<1>6. (k + 1) % 8 = 0 /\ cfg.seed1 \in {0, 8}
  <2>1. (k + 1) % 8 # 0 \/ cfg.seed1 \notin {0, 8} => m > 0 BY <1>3 DEF MixedAs
  <2> QED BY <2>1, <1>5
<1>7. Bit(k, 14) /\ Bit(k, 15) /\ Bit(k, 16)
  <2>1. (k \div 4) % 2 = 1 /\ (k \div 2) % 2 = 1 /\ k % 2 = 1 BY <1>1, <1>6, SMT
  <2> QED BY <2>1, <1>1, ByteBits, Zenon
<1>8. ~Bit(cfg.seed1, 14) /\ ~Bit(cfg.seed1, 15) /\ ~Bit(cfg.seed1, 16)
  <2>1. cfg.seed1 = 0 \/ cfg.seed1 = 8 BY <1>6
  <2>2. ~Bit(0, 14) /\ ~Bit(0, 15) /\ ~Bit(0, 16) BY SMT DEF Bit, Places
  <2>3. ~Bit(8, 14) /\ ~Bit(8, 15) /\ ~Bit(8, 16) BY SMT DEF Bit, Places
  <2> QED BY <2>1, <2>2, <2>3, Zenon
<1>9. 14 \in 9 .. 16 /\ 15 \in 9 .. 16 /\ 16 \in 9 .. 16 OBVIOUS
<1>10. Bit(r, 14) /\ Bit(r, 15) /\ Bit(r, 16)
  <2>1. \A n \in 9 .. 16 : Bit(r, n) <=> ~(Bit(k, n) <=> Bit(cfg.seed1, n)) BY <1>3 DEF MixedAs
  <2> QED BY <2>1, <1>7, <1>8, <1>9, Zenon
<1>11. (r \div 4) % 2 = 1 /\ (r \div 2) % 2 = 1 /\ r % 2 = 1 BY <1>10, ByteBits, Zenon
<1> QED BY <1>1, <1>5, <1>11, SMT

LEMMA ShortIdx ==
    ASSUME ShortList, cfg.seed1 \in FirstSeeds, NEW j \in 1 .. Size - 3, NEW k \in 1 .. Size - 3,
           ItemIdx(j) = ItemIdx(k)
    PROVE  j = k
<1>1. CASE j < Size \div 5 /\ k < Size \div 5
  <2>1. ItemIdx(j) = j /\ ItemIdx(k) = k BY <1>1, SMT DEF ItemIdx
  <2> QED BY <2>1
<1>2. CASE j < Size \div 5 /\ ~(k < Size \div 5)
  <2>1. k >= Size \div 5 BY <1>2, Sizes
  <2> QED BY <2>1, <1>2, OrderedOrMixed
<1>3. CASE ~(j < Size \div 5) /\ k < Size \div 5
  <2>1. j >= Size \div 5 BY <1>3, Sizes
  <2> QED BY <2>1, <1>3, OrderedOrMixed
<1>4. CASE ~(j < Size \div 5) /\ ~(k < Size \div 5)
  <2>1. j >= Size \div 5 /\ k >= Size \div 5 BY <1>4, Sizes
  <2>2. j \in Byte /\ k \in Byte BY Sizes, SMT DEF ShortList, Byte
  <2>3. PICK m \in 0 .. 63, r \in Byte : MixedAs(j, m, r) BY <2>1, <2>2, MixedIdx, Zenon
  <2>4. PICK p \in 0 .. 63, t \in Byte : MixedAs(k, p, t) BY <2>1, <2>2, MixedIdx, Zenon
  <2>5. r = t
    <3>1. r \in Nat /\ r < 256 /\ t \in Nat /\ t < 256 BY SMT DEF Byte
    <3>2. 256 * m + r = 256 * p + t BY <2>3, <2>4 DEF MixedAs
    <3> QED BY <3>1, <3>2
  <2>6. \A n \in 9 .. 16 : Bit(j, n) <=> Bit(k, n)
    <3>1. \A n \in 9 .. 16 : Bit(r, n) <=> ~(Bit(j, n) <=> Bit(cfg.seed1, n)) BY <2>3 DEF MixedAs
    <3>2. \A n \in 9 .. 16 : Bit(t, n) <=> ~(Bit(k, n) <=> Bit(cfg.seed1, n)) BY <2>4 DEF MixedAs
    <3> QED BY <3>1, <3>2, <2>5, Zenon
  <2> QED BY <2>2, <2>6, SameByte
<1> QED BY <1>1, <1>2, <1>3, <1>4

LEMMA IdxBelowTail ==
    ASSUME ShortList, cfg.seed1 \in FirstSeeds, NEW j \in 1 .. Size - 3
    PROVE  ItemIdx(j) < MaxIdx
<1>1. CASE j < Size \div 5
  <2>1. ItemIdx(j) = j BY <1>1, SMT DEF ItemIdx
  <2> QED BY <2>1, Sizes, MaxIdxIs, SMT DEF ShortList
<1>2. CASE ~(j < Size \div 5)
  <2>1. j >= Size \div 5 BY <1>2, Sizes
  <2>2. j \in Byte BY Sizes, SMT DEF ShortList, Byte
  <2>3. PICK m \in 0 .. 63, r \in Byte : MixedAs(j, m, r) BY <2>1, <2>2, MixedIdx, Zenon
  <2>4. r \in Nat /\ r < 256 BY SMT DEF Byte
  <2>5. ItemIdx(j) = 256 * m + r BY <2>3 DEF MixedAs
  <2> QED BY <2>4, <2>5, MaxIdxIs, SMT
<1> QED BY <1>1, <1>2

\* Until core_list_init gives the indices all but the fake head have the
\* largest; then no two are the same.
Marked ==
    IF pc \in {"insert", "index"} THEN \A n \in 1 .. free - 1 : data[n].idx = MaxIdx
                                  ELSE ShortList => DistinctIdx

LEMMA InitMarked == Init => Marked
<1> SUFFICES ASSUME Init PROVE Marked OBVIOUS
<1>1. pc = "insert" /\ free = 1 BY DEF Init
<1> QED BY <1>1 DEF Marked

LEMMA InsertMarked == IInv /\ Marked /\ Insert => Marked'
<1> SUFFICES ASSUME IInv, Marked, Insert PROVE Marked' OBVIOUS
<1>1. /\ pc = "insert" /\ pc' \in {"insert", "index"} /\ InsertNew(Item)
  <2>1. pc' = IF i' = Size THEN "index" ELSE "insert" BY Zenon DEF Insert
  <2>2. pc = "insert" /\ InsertNew(Item) BY Zenon DEF Insert
  <2> QED BY <2>1, <2>2
<1>2. \A n \in 1 .. free - 1 : data[n].idx = MaxIdx BY <1>1 DEF Marked
<1>3. data \in [Node -> Datum] /\ free \in 1 .. Size - 1 /\ free \in Node
  <2>1. data \in [Node -> Datum] /\ free \in 1 .. Size - 1 BY TypedState DEF IInv, Types
  <2> QED BY <2>1, Sizes
<1>4. Item.idx = MaxIdx
  <2> DEFINE dat == ((Xor(cfg.seed1, i) % 16) * 8) + (i % 8)
             item == [idx |-> MaxIdx, hi |-> dat, lo |-> dat]
  <2>1. Item = IF i = -1 THEN FakeTail ELSE item BY SMT DEF Item
  <2>2. FakeTail.idx = MaxIdx BY DEF FakeTail
  <2> HIDE DEF dat
  <2>3. item.idx = MaxIdx OBVIOUS
  <2> HIDE DEF item
  <2> QED BY <2>1, <2>2, <2>3
<1>5. \A n \in 1 .. free' - 1 : data'[n].idx = MaxIdx
  <2>1. CASE free + 1 >= Size
    <3>1. data' = data /\ free' = free BY <1>1, <2>1 DEF InsertNew, heap
    <3> QED BY <3>1, <1>2
  <2>2. CASE ~(free + 1 >= Size)
    <3>1. data' = [data EXCEPT ![free] = Item] /\ free' = free + 1 BY <1>1, <2>2 DEF InsertNew
    <3>2. data'[free].idx = MaxIdx BY <3>1, <1>3, <1>4
    <3>3. \A n \in 1 .. free - 1 : data'[n] = data[n] BY <3>1, <1>3, Sizes
    <3>4. \A n \in 1 .. free' - 1 : n = free \/ n \in 1 .. free - 1 BY <3>1, <1>3
    <3> QED BY <3>2, <3>3, <3>4, <1>2
  <2> QED BY <2>1, <2>2
<1> QED BY <1>1, <1>5, Zenon DEF Marked

LEMMA IndexMarked == IInv /\ Marked /\ Index => Marked'
<1> SUFFICES ASSUME IInv, Marked, Index, ShortList PROVE Marked'
  <2>1. ~ShortList => ~ShortList' BY DEF ShortList
  <2>2. Index => pc' = "sort" BY Zenon DEF Index, StartSort
  <2>3. Index /\ ~ShortList => Marked' BY <2>1, <2>2 DEF Marked
  <2> QED BY <2>3
<1> DEFINE New(c, L) == [n \in Node |->
                            IF \E k \in 2 .. L - 1 : info[c[k]] = n
                            THEN [data[n] EXCEPT !.idx =
                                     ItemIdx((CHOOSE k \in 2 .. L - 1 : info[c[k]] = n) - 1)]
                            ELSE data[n]]
<1>1. /\ pc = "index" /\ pc' = "sort" /\ free' = free
      /\ data' = New(Chain(list), Len(Chain(list)))
  BY Zenon DEF Index, StartSort
<1>2. TypeOK /\ Indices /\ cfg.seed1 \in FirstSeeds BY DEF IInv, Types
<1>3. free = Size - 1 /\ info = [n \in Node |-> n] /\ list = 0 BY <1>1 DEF IInv, Stage
<1>4. PICK w : Listed(w) BY <1>1 DEF IInv, Shape
<1>5. next \in [Node -> Node \cup {NULL}] /\ data \in [Node -> Datum] /\ free \in 1 .. Size
  BY <1>2, TypedState
<1>6. Chain(list) = w /\ Len(w) = free BY <1>4, <1>5, ListChain
<1>7. /\ w \in Arranged(free) /\ w[1] = 0
      /\ \A k \in 1 .. free : w[k] \in Node
      /\ \A j, k \in 1 .. free : w[j] = w[k] => j = k
  BY <1>3, <1>4, <1>5, ArrangedOnce DEF Listed
<1>8. data' = New(w, free) BY <1>1, <1>6, Zenon
<1> DEFINE at(n) == CHOOSE k \in 2 .. free - 1 : info[w[k]] = n
<1>9. \A n \in Node : data'[n] = IF \E k \in 2 .. free - 1 : info[w[k]] = n
                                 THEN [data[n] EXCEPT !.idx = ItemIdx(at(n) - 1)]
                                 ELSE data[n]
  BY <1>8, Zenon
<1>10. \A k \in 1 .. free : info[w[k]] = w[k] BY <1>3, <1>7
<1>11. ASSUME NEW k \in 2 .. free - 1 PROVE data'[w[k]].idx = ItemIdx(k - 1)
  <2>1. k \in 1 .. free /\ info[w[k]] = w[k] /\ w[k] \in Node BY <1>5, <1>7, <1>10
  <2>2. \A j \in 2 .. free - 1 : info[w[j]] = w[k] => j = k
    <3>1. \A j \in 2 .. free - 1 : j \in 1 .. free BY <1>5
    <3> QED BY <3>1, <2>1, <1>7, <1>10
  <2>3. at(w[k]) = k BY <2>1, <2>2
  <2>4. data'[w[k]] = [data[w[k]] EXCEPT !.idx = ItemIdx(at(w[k]) - 1)] BY <2>1, <1>9, Zenon
  <2>5. data[w[k]] \in Datum BY <2>1, <1>5
  <2>6. ASSUME NEW d \in Datum, NEW x PROVE [d EXCEPT !.idx = x].idx = x BY DEF Datum
  <2> HIDE DEF at, New
  <2> QED BY <2>3, <2>4, <2>5, <2>6
<1> HIDE DEF New, at
<1>12. ASSUME NEW k \in {1, free} PROVE data'[w[k]] = data[w[k]]
  <2>1. k \in 1 .. free /\ w[k] \in Node BY <1>5, <1>7
  <2>2. ~ \E j \in 2 .. free - 1 : info[w[j]] = w[k]
    <3>1. \A j \in 2 .. free - 1 : j \in 1 .. free /\ j # k BY <1>5
    <3> QED BY <3>1, <2>1, <1>7, <1>10
  <2> QED BY <2>1, <2>2, <1>9, Zenon
<1>13. data'[w[1]].idx = 0
  <2>1. data[0].idx = 0 BY <1>2 DEF Indices
  <2> QED BY <2>1, <1>7, <1>12
<1>14. data'[w[free]].idx = MaxIdx
  <2>1. free \in 1 .. free /\ 1 \in 1 .. free /\ free # 1 BY <1>3, Sizes
  <2>2. w[free] # 0 BY <2>1, <1>7
  <2>3. w[free] \in 0 .. free - 1
    <3>1. free \in 0 .. Size BY <1>5
    <3> QED BY <3>1, <2>1, <1>7, ArrangedNodes
  <2>4. w[free] \in 1 .. free - 1 BY <2>2, <2>3
  <2>5. data[w[free]].idx = MaxIdx BY <2>4, <1>1 DEF Marked
  <2> QED BY <2>5, <1>12
<1> DEFINE X(k) == data'[w[k]].idx
<1>15. ASSUME NEW k \in 2 .. free - 1
       PROVE  k - 1 \in 1 .. Size - 3 /\ X(k) = ItemIdx(k - 1) /\ X(k) > 0 /\ X(k) < MaxIdx
  <2>1. k - 1 \in 1 .. Size - 3 /\ k - 1 \in 1 .. Size BY <1>3, Sizes
  <2>2. ItemIdx(k - 1) > 0 BY <2>1, <1>2, ItemIdxIn
  <2>3. ItemIdx(k - 1) < MaxIdx BY <2>1, <1>2, IdxBelowTail
  <2> QED BY <2>1, <2>2, <2>3, <1>11
<1>16. X(1) = 0 /\ X(free) = MaxIdx /\ MaxIdx > 0 /\ MaxIdx \in Nat BY <1>13, <1>14, MaxIdxIs
<1> HIDE DEF X
<1>17. ASSUME NEW j \in 1 .. free, NEW k \in 1 .. free, X(j) = X(k) PROVE j = k
  <2>1. /\ j = 1 \/ j = free \/ j \in 2 .. free - 1
        /\ k = 1 \/ k = free \/ k \in 2 .. free - 1
    BY <1>5
  <2>2. CASE j \in 2 .. free - 1 /\ k \in 2 .. free - 1
    <3>1. ItemIdx(j - 1) = ItemIdx(k - 1) BY <2>2, <1>15, <1>17
    <3>2. j - 1 = k - 1 BY <3>1, <2>2, <1>2, <1>15, ShortIdx
    <3> QED BY <3>2
  <2>3. CASE j \in 2 .. free - 1 /\ k \notin 2 .. free - 1
    <3>1. X(j) > 0 /\ X(j) < MaxIdx BY <2>3, <1>15
    <3> QED BY <3>1, <2>1, <2>3, <1>16, <1>17
  <2>4. CASE j \notin 2 .. free - 1 /\ k \in 2 .. free - 1
    <3>1. X(k) > 0 /\ X(k) < MaxIdx BY <2>4, <1>15
    <3> QED BY <3>1, <2>1, <2>4, <1>16, <1>17
  <2>5. CASE j \notin 2 .. free - 1 /\ k \notin 2 .. free - 1
    BY <2>1, <2>5, <1>16, <1>17
  <2> QED BY <2>2, <2>3, <2>4, <2>5
<1>18. DistinctIdx'
  <2>1. SUFFICES ASSUME NEW m \in 0 .. free - 1, NEW n \in 0 .. free - 1, data'[m].idx = data'[n].idx
                 PROVE  m = n
    BY <1>1 DEF DistinctIdx
  <2>2. PICK j \in 1 .. free : w[j] = m BY <1>7 DEF Arranged
  <2>3. PICK k \in 1 .. free : w[k] = n BY <1>7 DEF Arranged
  <2>4. X(j) = X(k) BY <2>1, <2>2, <2>3 DEF X
  <2>5. j = k BY <2>4, <1>17
  <2> QED BY <2>2, <2>3, <2>5
<1> QED BY <1>1, <1>18 DEF Marked

\* The comparisons write only low bytes.
LEMMA MergeMarked == IInv /\ Marked /\ MergeStep => Marked'
<1> SUFFICES ASSUME IInv, Marked, MergeStep PROVE Marked' OBVIOUS
<1>1. pc = "sort" /\ pc' = pc /\ free' = free
  <2>1. \E fromP : Link(fromP) BY Zenon DEF MergeStep
  <2> QED BY <2>1, Zenon DEF Link, MergeStep
<1>2. data \in [Node -> Datum] /\ info \in [Node -> Node] /\ free \in 1 .. Size
  BY TypedState DEF IInv, Types
<1>3. SameIdx(data, data')
  <2>1. CASE ms.psize > 0 /\ ms.qsize > 0 /\ ms.q # NULL
    <3>1. PICK leq \in BOOLEAN : Compare(info[ms.p], info[ms.q], leq)
      BY <2>1, Zenon DEF MergeStep
    <3>2. ms.p \in Node /\ ms.q \in Node BY <2>1, <1>1, MergedPlaces
    <3>3. info[ms.p] \in Node /\ info[ms.q] \in Node BY <3>2, <1>2
    <3> QED BY <3>1, <3>3, <1>2, ComparesOnly
  <2>2. CASE ~(ms.psize > 0 /\ ms.qsize > 0 /\ ms.q # NULL)
    <3>1. data' = data BY <2>2, Zenon DEF MergeStep
    <3> QED BY <3>1 DEF SameIdx
  <2> QED BY <2>1, <2>2
<1>4. \A n \in 0 .. free - 1 : data'[n].idx = data[n].idx
  <2>1. \A n \in 0 .. free - 1 : n \in Node BY <1>2, Sizes
  <2> QED BY <2>1, <1>3 DEF SameIdx
<1>5. DistinctIdx => DistinctIdx' BY <1>1, <1>4 DEF DistinctIdx
<1>6. ShortList' => ShortList BY DEF ShortList
<1> QED BY <1>1, <1>5, <1>6 DEF Marked

LEMMA NextMarked == IInv /\ Marked /\ [Next]_vars => Marked'
<1> SUFFICES ASSUME IInv, Marked, [Next]_vars PROVE Marked' OBVIOUS
<1>1. ASSUME data' = data, free' = free, pc' \in {"insert", "index"} <=> pc \in {"insert", "index"}
      PROVE  Marked'
  <2>1. DistinctIdx => DistinctIdx' BY <1>1 DEF DistinctIdx
  <2>2. ShortList' => ShortList BY DEF ShortList
  <2> QED BY <1>1, <2>1, <2>2 DEF Marked
<1>2. CASE Insert BY <1>2, InsertMarked
<1>3. CASE Index BY <1>3, IndexMarked
<1>4. CASE MergeStep BY <1>4, MergeMarked
<1>5. CASE UNCHANGED vars BY <1>5, <1>1 DEF vars, heap
<1>6. CASE NextMerge
  <2>1. data' = data /\ free' = free /\ pc' = pc BY <1>6, Zenon DEF NextMerge, heap
  <2> QED BY <2>1, <1>1
<1>7. CASE EndPass
  <2>1. data' = data /\ free' = free /\ pc = "sort" BY <1>7, Zenon DEF EndPass
  <2>2. pc' = pc \/ pc' = ms.then BY <1>7, Zenon DEF EndPass
  <2>3. ms \in MsTypes BY <2>1 DEF IInv, Shape, Sorting
  <2>4. ms.then \in {"inited", "remove", "listdone"} BY <2>3 DEF MsTypes
  <2> QED BY <2>1, <2>2, <2>4, <1>1
<1>8. CASE Begin
  <2>1. data' = data /\ free' = free /\ pc = "inited" /\ pc' = "find" BY <1>8, Zenon DEF Begin, heap
  <2> QED BY <2>1, <1>1
<1>9. CASE FindStep
  <2>1. data' = data /\ free' = free /\ pc' = pc BY <1>9, Zenon DEF FindStep
  <2> QED BY <2>1, <1>1
<1>10. CASE SortData
  <2>1. data' = data /\ free' = free /\ pc = "find" BY <1>10, Zenon DEF SortData, heap
  <2>2. arg > 0 => pc' = "sort" BY <1>10, Zenon DEF SortData, StartSort
  <2>3. ~(arg > 0) => pc' = "remove" BY <1>10, Zenon DEF SortData
  <2> QED BY <2>1, <2>2, <2>3, <1>1
<1>11. CASE Remove
  <2>1. data' = data /\ free' = free /\ pc = "remove" /\ pc' = "undo" BY <1>11, Zenon DEF Remove
  <2> QED BY <2>1, <1>1
<1>12. CASE UndoRemove
  <2>1. data' = data /\ free' = free /\ pc = "undo" /\ pc' = "sort"
    BY <1>12, Zenon DEF UndoRemove, StartSort
  <2> QED BY <2>1, <1>1
<1>13. CASE Return
  <2>1. data' = data /\ free' = free /\ pc = "listdone" BY <1>13, Zenon DEF Return, heap
  <2>2. pc' \in {"end", "find"} BY <1>13 DEF Return
  <2> QED BY <2>1, <2>2, <1>1
<1> QED BY <1>2, <1>3, <1>4, <1>5, <1>6, <1>7, <1>8, <1>9, <1>10, <1>11, <1>12, <1>13 DEF Next

----------------------------------------------------------------------------
(* The theorems. *)

\* At every moment the nodes allocated by core_list_init form one arrangement
\* that the pointers follow, but at the cuts of a sort and of core_list_remove.
THEOREM ListArranged == Spec => []IInv
<1>1. Init => IInv BY InitIInv
<1>2. IInv /\ [Next]_vars => IInv' BY NextIInv
<1> QED BY <1>1, <1>2, PTL DEF Spec

\* No pointer of the list functions leaves the block, no node is used behind
\* the last one, and no index is negative, which core_list_find would take for
\* a search by data.
THEOREM ListTyped == Spec => []TypeOK
<1>1. IInv => TypeOK BY DEF IInv, Types
<1> QED BY <1>1, ListArranged, PTL

\* Inserting, finding, reversing, removing, undoing and sorting lose and double
\* no node and no datum, for a block of any size, whatever the results the
\* comparisons cache: between the sorts, the list is whole.
THEOREM ListStaysWhole == Spec => []ListWhole
<1>1. Init => Aside BY InitAside
<1>2. Aside /\ [Next]_vars => Aside' BY NextAside
<1>3. Spec => []Aside BY <1>1, <1>2, PTL DEF Spec
<1>4. IInv /\ Aside => ListWhole BY ListIsWhole
<1> QED BY <1>3, <1>4, ListArranged, PTL

\* The merge sort by content leaves every datum with a cached result and the
\* results in ascending order, for a list of any length and whatever the other
\* benchmarks return: each pass merges the runs of the one before in pairs.
THEOREM ContentIsSorted == Spec => []SortOrders
<1>1. Init => Rows BY InitRows
<1>2. IInv /\ Rows /\ [Next]_vars => Rows' BY NextRows
<1>3. IInv /\ Rows => SortOrders BY RowSortOrders
<1> QED BY <1>1, <1>2, <1>3, ListArranged, PTL DEF Spec

\* When core_bench_list returns, the list starts at node 0 again and is in order
\* of the indices, each node with its own datum and the result cached in it
\* taken back; and if the indices are distinct, it is just what it was.
THEOREM ListIsRestored == Spec => [](BackInOrder /\ (DistinctIdx => ListRestored))
<1>1. Init => Rows BY InitRows
<1>2. IInv /\ Rows /\ [Next]_vars => Rows' BY NextRows
<1>3. IInv /\ Rows => BackInOrder /\ (DistinctIdx => ListRestored) BY RowRestored
<1> QED BY <1>1, <1>2, <1>3, ListArranged, PTL DEF Spec

\* With the 31 nodes of core_portme.h's blocks, and up to 39, the list is
\* restored to its original order: core_list_init gives no index twice.
THEOREM ShortListRestored == Spec => [](ShortList => ListRestored)
<1>1. Init => Rows /\ Marked BY InitRows, InitMarked
<1>2. IInv /\ Rows /\ Marked /\ [Next]_vars => Rows' /\ Marked' BY NextRows, NextMarked
<1>3. IInv /\ Rows /\ Marked => (ShortList => ListRestored)
  <2>1. ASSUME IInv, Rows, Marked, ShortList PROVE ListRestored
    <3>1. CASE pc = "listdone"
      <4>1. DistinctIdx BY <2>1, <3>1 DEF Marked
      <4> QED BY <4>1, <2>1, RowRestored
    <3>2. CASE pc # "listdone" BY <3>2, Zenon DEF ListRestored
    <3> QED BY <3>1, <3>2
  <2> QED BY <2>1
<1> QED BY <1>1, <1>2, <1>3, ListArranged, PTL DEF Spec

\* The state machine and the matrix benchmark, which the comparisons call in
\* any order and number, leave what they work on as main wrote it, because the
\* corruption undoes itself on every text and every step and the constant added
\* to A is taken away again; and the matrices stay inside their block, unless
\* its size leaves no room for the alignment.
THEOREM BlocksArePutBack == Spec => [](BlocksKept /\ (MatricesFit => BlocksRestored))
<1>1. Init => SameSeeds /\ BlocksKept BY InitBlocksKept
<1>2. IInv /\ SameSeeds /\ BlocksKept /\ [Next]_vars => SameSeeds' /\ BlocksKept' BY NextBlocksKept
<1>3. BlocksKept => BlocksKept /\ (MatricesFit => BlocksRestored) BY KeptRestored
<1> QED BY <1>1, <1>2, <1>3, ListArranged, PTL DEF Spec

\* core_state_transition has no length to stop at, yet the scan never leaves the
\* block, of any size, as written or corrupted: the text leaves two zeros behind
\* it, and no step corrupts both.
THEOREM ScansStop == Spec => []ScanStops
<1>1. Init => SameSeeds /\ BlocksKept BY InitBlocksKept
<1>2. IInv /\ SameSeeds /\ BlocksKept /\ [Next]_vars => SameSeeds' /\ BlocksKept' BY NextBlocksKept
<1>3. SameSeeds /\ BlocksKept => ScanStops BY KeptStops
<1> QED BY <1>1, <1>2, <1>3, ListArranged, PTL DEF Spec
=============================================================================
