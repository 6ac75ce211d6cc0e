--------------------------- MODULE PregPstProofs ----------------------------
(* Theorems about the status table of the integer registers, the rename     *)
(* table and the instructions that go from one to the other, for any number *)
(* of registers, of instructions per edge and of entries of the reorder     *)
(* buffer.                                                                  *)
EXTENDS PregPst, NaturalOrder, FiniteSetTheorems, SequenceTheorems, TLAPS

\* Of a finite set and one element more, an injective function of the set
\* into both leaves out exactly one.
LEMMA OneLeftOut ==
    ASSUME NEW R, IsFiniteSet(R), NEW c, c \notin R,
           NEW f \in [R -> R \cup {c}], \A x, y \in R : f[x] = f[y] => x = y
    PROVE  \E u \in R \cup {c} : (R \cup {c}) \ {f[x] : x \in R} = {u}
<1> DEFINE T == {f[x] : x \in R}
           D == (R \cup {c}) \ T
<1>1. f \in Surjection(R, T) /\ f \in Injection(R, T)
  BY DEF Surjection, Injection, IsInjective
<1>2. IsFiniteSet(T) /\ Cardinality(T) = Cardinality(R)
  BY <1>1, FS_Surjection
<1>3. IsFiniteSet(R \cup {c}) /\ Cardinality(R \cup {c}) = Cardinality(R) + 1
  BY FS_AddElement
<1>4. T = (R \cup {c}) \cap T
  OBVIOUS
<1> HIDE DEF T
<1>5. IsFiniteSet((R \cup {c}) \ T)
      /\ Cardinality((R \cup {c}) \ T)
           = Cardinality(R \cup {c}) - Cardinality((R \cup {c}) \cap T)
  BY <1>3, FS_Difference
<1>6. Cardinality((R \cup {c}) \cap T) = Cardinality(R) /\ Cardinality(R) \in Nat
  BY <1>2, <1>4, FS_CardinalityType
<1>7. Cardinality(D) = 1 /\ IsFiniteSet(D)
  BY <1>3, <1>5, <1>6
<1>8. PICK u : D = {u}
  BY <1>7, FS_Singleton
<1> QED BY <1>8 DEF T

----------------------------------------------------------------------------
(* Instruction ids. *)

NIids == 2 * RobSize

\* The id that is d behind x.
Behind(x, d) == IF x >= d THEN x - d ELSE x + NIids - d

LEMMA Sizes == /\ NSlots \in Nat \ {0} /\ RobSize \in Nat /\ RobSize >= NSlots
               /\ NIids \in Nat \ {0} /\ Iids = 0 .. NIids - 1
  BY PstAssumption DEF Iids, NIids

LEMMA ModOnce ==
    ASSUME NEW m \in Nat \ {0}, NEW x \in 0 .. 2 * m - 1
    PROVE  x % m = IF x < m THEN x ELSE x - m
  OBVIOUS

LEMMA PlusIidIs ==
    ASSUME nextIid \in Iids, NEW k \in 0 .. RobSize
    PROVE  /\ PlusIid(k) = IF nextIid + k < NIids THEN nextIid + k ELSE nextIid + k - NIids
           /\ PlusIid(k) \in Iids
<1>1. NIids \in Nat \ {0} /\ nextIid \in 0 .. NIids - 1 /\ k \in 0 .. NIids - 1
  BY Sizes DEF NIids
<1> DEFINE x == nextIid + k
<1>2. x \in 0 .. 2 * NIids - 1
  BY <1>1
<1>3. PlusIid(k) = x % NIids
  BY DEF PlusIid, NIids
<1> HIDE DEF x
<1>4. x % NIids = IF x < NIids THEN x ELSE x - NIids
  BY <1>1, <1>2, ModOnce
<1> QED BY <1>1, <1>3, <1>4, Sizes DEF x

LEMMA DivOnce ==
    ASSUME NEW m \in Nat \ {0}, NEW x \in 0 .. 2 * m - 1
    PROVE  x \div m = IF x < m THEN 0 ELSE 1
  OBVIOUS

\* Ids and distances move together.
LEMMA BehindPlus ==
    ASSUME nextIid \in Iids, NEW w \in 0 .. RobSize, NEW d \in 0 .. RobSize
    PROVE  /\ d + w <= RobSize => Behind(PlusIid(w), d + w) = Behind(nextIid, d)
           /\ d <= w => Behind(PlusIid(w), w - d) = PlusIid(d)
<1>1. /\ PlusIid(w) = IF nextIid + w < NIids THEN nextIid + w ELSE nextIid + w - NIids
      /\ PlusIid(d) = IF nextIid + d < NIids THEN nextIid + d ELSE nextIid + d - NIids
  BY PlusIidIs
<1>2. /\ nextIid \in 0 .. NIids - 1 /\ NIids = 2 * RobSize /\ RobSize \in Nat
      /\ w \in 0 .. RobSize /\ d \in 0 .. RobSize
  BY Sizes DEF NIids
<1> HIDE DEF NIids
<1>3. ASSUME d + w <= RobSize
      PROVE  Behind(PlusIid(w), d + w) = Behind(nextIid, d)
  BY <1>1, <1>2, <1>3 DEF Behind
<1>4. ASSUME d <= w
      PROVE  Behind(PlusIid(w), w - d) = PlusIid(d)
  BY <1>1, <1>2, <1>4 DEF Behind
<1> QED BY <1>3, <1>4

\* Of two ids of the reorder buffer the one further behind is the older, and
\* they are different.
LEMMA AgeOrder ==
    ASSUME NEW next \in Iids, NEW c \in 1 .. RobSize, NEW d \in 1 .. RobSize
    PROVE  /\ d <= c => ~Older(Behind(next, d), Behind(next, c))
           /\ Behind(next, d) = Behind(next, c) => d = c
           /\ Behind(next, d) \in Iids
<1> DEFINE x == Behind(next, d)
           y == Behind(next, c)
<1>1. /\ next \in 0 .. NIids - 1 /\ NIids = 2 * RobSize /\ RobSize \in Nat \ {0}
      /\ c \in 1 .. RobSize /\ d \in 1 .. RobSize /\ Iids = 0 .. NIids - 1
  BY Sizes DEF NIids
<1>2. /\ x = IF next >= d THEN next - d ELSE next + NIids - d
      /\ y = IF next >= c THEN next - c ELSE next + NIids - c
  BY DEF Behind
<1> HIDE DEF x, y, NIids
<1>3. x \in 0 .. 2 * RobSize - 1 /\ y \in 0 .. 2 * RobSize - 1 /\ (x = y => d = c)
      /\ x \in Iids
  BY <1>1, <1>2
<1>4. /\ x \div RobSize = IF x < RobSize THEN 0 ELSE 1
      /\ y \div RobSize = IF y < RobSize THEN 0 ELSE 1
      /\ x % RobSize = IF x < RobSize THEN x ELSE x - RobSize
      /\ y % RobSize = IF y < RobSize THEN y ELSE y - RobSize
  BY <1>1, <1>3, DivOnce, ModOnce
<1>5. ASSUME d <= c PROVE ~Older(x, y)
  <2> DEFINE qx == x \div RobSize
             qy == y \div RobSize
             rx == x % RobSize
             ry == y % RobSize
  <2>1. Older(x, y) = IF qx = qy THEN rx < ry ELSE rx > ry
    BY DEF Older
  <2> HIDE DEF qx, qy, rx, ry
  <2>2. /\ qx = IF x < RobSize THEN 0 ELSE 1
        /\ qy = IF y < RobSize THEN 0 ELSE 1
        /\ rx = IF x < RobSize THEN x ELSE x - RobSize
        /\ ry = IF y < RobSize THEN y ELSE y - RobSize
    BY <1>4 DEF qx, qy, rx, ry
  <2>3. ~(IF qx = qy THEN rx < ry ELSE rx > ry)
    BY <1>1, <1>2, <1>3, <1>5, <2>2
  <2> QED BY <2>1, <2>3
<1> QED BY <1>3, <1>5 DEF x, y

----------------------------------------------------------------------------
(* Sequences: queues that lose their head and grow at their end, the        *)
(* renamed group, the folding of dispatched instructions.                   *)

\* What is in a queue after n have left it and those of t have joined.
Slid(q, n, t) == SubSeq(q, n + 1, Len(q)) \o t

LEMMA Slide ==
    ASSUME NEW S, NEW q \in Seq(S), NEW n \in 0 .. Len(q), NEW t \in Seq(S)
    PROVE  /\ Slid(q, n, t) \in Seq(S) /\ Len(Slid(q, n, t)) = Len(q) - n + Len(t)
           /\ DOMAIN Slid(q, n, t) = 1 .. Len(Slid(q, n, t))
           /\ \A i \in 1 .. Len(q) - n : Slid(q, n, t)[i] = q[i + n]
           /\ \A i \in 1 .. Len(t) : Slid(q, n, t)[Len(q) - n + i] = t[i]
<1> DEFINE u == SubSeq(q, n + 1, Len(q))
           r == Slid(q, n, t)
<1>0. Len(q) \in Nat /\ Len(t) \in Nat /\ n \in Nat /\ n <= Len(q)
  BY LenProperties
<1>1. \A i \in n + 1 .. Len(q) : q[i] \in S
  BY ElementOfSeq, <1>0
<1>2. u \in Seq(S) /\ \A i \in 1 .. Len(q) - (n + 1) + 1 : u[i] = q[n + 1 + i - 1]
  BY <1>0, <1>1, SubSeqProperties
<1>3. Len(u) = IF n + 1 <= Len(q) THEN Len(q) - (n + 1) + 1 ELSE 0
  BY <1>0, <1>1, SubSeqProperties
<1>4. Len(u) = Len(q) - n
  BY <1>0, <1>3
<1>5. \A i \in 1 .. Len(q) - n : u[i] = q[i + n]
  BY <1>0, <1>2
<1> HIDE DEF u
<1>6. u \o t \in Seq(S) /\ Len(u \o t) = Len(u) + Len(t)
      /\ \A i \in 1 .. Len(u) + Len(t) :
            (u \o t)[i] = IF i <= Len(u) THEN u[i] ELSE t[i - Len(u)]
  BY <1>2, ConcatProperties
<1>7. r = u \o t
  BY DEF u, Slid
<1> HIDE DEF r
<1>8. \A i \in 1 .. Len(q) - n : r[i] = q[i + n]
  BY <1>0, <1>4, <1>5, <1>6, <1>7
<1>9. ASSUME NEW i \in 1 .. Len(t) PROVE r[Len(q) - n + i] = t[i]
  <2>1. Len(u) + i \in 1 .. Len(u) + Len(t) /\ ~(Len(u) + i <= Len(u))
        /\ (Len(u) + i) - Len(u) = i
    BY <1>0, <1>4
  <2>2. r[Len(u) + i] = t[(Len(u) + i) - Len(u)]
    BY <2>1, <1>6, <1>7
  <2> QED BY <2>1, <2>2, <1>4
<1>10. DOMAIN r = 1 .. Len(r)
  BY <1>6, <1>7, LenProperties
<1> QED BY <1>4, <1>6, <1>7, <1>8, <1>9, <1>10 DEF r

\* A group of instructions that leaves IR: their destinations.
Group(g) == /\ g \in Seq(ARegs \cup {None}) /\ DOMAIN g = 1 .. Len(g) /\ Len(g) \in Nat
            /\ Len(g) <= NSlots
            /\ \A i \in DOMAIN g : g[i] # None => slot[i] # None

LEMMA LastWriterIs ==
    ASSUME NEW g, Group(g), NEW i \in DOMAIN g
    PROVE  \/ LastWriter(g, i) = 0 /\ \A j \in 1 .. i - 1 : g[j] # g[i]
           \/ /\ LastWriter(g, i) \in 1 .. i - 1 /\ g[LastWriter(g, i)] = g[i]
              /\ \A j \in 1 .. i - 1 : g[j] = g[i] => j <= LastWriter(g, i)
<1> DEFINE w == {j \in 1 .. i - 1 : g[j] = g[i]}
<1>0. i \in Nat /\ i - 1 \in Nat
  BY DEF Group
<1>1. CASE w = {}
  BY <1>1 DEF LastWriter
<1>2. CASE w # {}
  <2>1. \E j \in w : \A k \in w : k <= j
    BY <1>0, <1>2, GreatestExists
  <2>2. LastWriter(g, i) \in w /\ \A k \in w : k <= LastWriter(g, i)
    BY <2>1, <1>2 DEF LastWriter
  <2> QED BY <2>2
<1> QED BY <1>1, <1>2

LEMMA RenamedTableIs ==
    ASSUME NEW g, Group(g), NEW a \in ARegs
    PROVE  \/ RenamedTable(g)[a] = rt[a] /\ \A i \in DOMAIN g : g[i] # a
           \/ \E i \in DOMAIN g : /\ g[i] = a /\ RenamedTable(g)[a] = slot[i]
                                  /\ \A j \in DOMAIN g : g[j] = a => j <= i
<1> DEFINE w == {i \in DOMAIN g : g[i] = a}
           ch == CHOOSE i \in w : \A k \in w : k <= i
<1>0. RenamedTable(g)[a] = IF w = {} THEN rt[a] ELSE slot[ch]
  BY DEF RenamedTable
<1>1. CASE w = {}
  BY <1>0, <1>1
<1>2. CASE w # {}
  <2>1. \E j \in w : \A k \in w : k <= j
    BY <1>2, GreatestExists DEF Group
  <2>2. ch \in w /\ \A k \in w : k <= ch
    BY <2>1
  <2> QED BY <1>0, <1>2, <2>2
<1> QED BY <1>1, <1>2

\* The entries of dispatched instructions follow one another.
LEMMA FoldingsGrow ==
    ASSUME NEW k \in Nat, NEW e \in Foldings(k), NEW i \in 1 .. k, NEW j \in i .. k
    PROVE  e[i] <= e[j] /\ e[i] \in 0 .. k - 1
<1> DEFINE S == {x \in i .. k : e[x] < e[i]}
<1>0. e \in [1 .. k -> 0 .. k - 1]
      /\ \A x \in 1 .. k - 1 : e[x + 1] \in {e[x], e[x] + 1}
  BY DEF Foldings
<1>1. S \in SUBSET Nat
  OBVIOUS
<1>2. S = {}
  <2> SUFFICES ASSUME S # {} PROVE FALSE
    OBVIOUS
  <2>1. PICK m \in S : \A x \in S : m <= x
    BY <1>1, LeastExists
  <2>2. m # i /\ m \in i .. k /\ e[m] < e[i] /\ e[i] \in Nat
    BY <1>0
  <2>3. m - 1 \in i .. k /\ m - 1 \in 1 .. k - 1
    BY <2>2
  <2>4. m - 1 \notin S
    BY <2>1, <2>3
  <2>5. e[m] \in {e[m - 1], e[m - 1] + 1}
    <3>1. e[(m - 1) + 1] \in {e[m - 1], e[m - 1] + 1}
      BY <1>0, <2>3
    <3>2. (m - 1) + 1 = m
      BY <2>2
    <3> QED BY <3>1, <3>2
  <2>6. e[m - 1] \in Nat /\ e[m - 1] >= e[i]
    BY <1>0, <2>2, <2>3, <2>4
  <2> QED BY <2>2, <2>5, <2>6
<1>3. ~(e[j] < e[i])
  BY <1>2
<1> QED BY <1>0, <1>3

----------------------------------------------------------------------------
(* The invariant. *)

\* The ids of the reorder buffer are consecutive and end before nextIid.
IdsInOrder == \A i \in DOMAIN rob : rob[i].iid = Behind(nextIid, Len(rob) + 1 - i)

\* What waits where while a flush or a misprediction is outstanding.
FlushShape ==
    /\ flush # "IDLE" => rob = <<>>
    /\ is # <<>> => (flush = "IDLE" /\ ~mispredStall) \/ FlushFe

\* What is offered or waits in IS is handed out, and to one only.
HandedOut ==
    /\ \A i \in Slots : slot[i] # None => life[slot[i]] = "WF_ALLOC"
    /\ \A i \in Slots : \A j \in Slots : slot[i] # None /\ slot[i] = slot[j] => i = j
    /\ \A i \in DOMAIN is : is[i].dst = None <=> is[i].preg = None
    /\ \A i \in DOMAIN is : is[i].preg # None =>
           /\ life[is[i].preg] = "WF_ALLOC"
           /\ \A j \in DOMAIN is : is[i].preg = is[j].preg => i = j
           /\ \A j \in Slots : is[i].preg # slot[j]

Live(p) == life[p] \in {"ALLOC", "RETIRE"}

\* Each architectural register has one committed preg.
OneCommitted ==
    /\ \A p \in Pregs : Live(p) => dst[p] \in ARegs
    /\ \A a \in ARegs : \E c \in Pregs : Committed(a) = {c}

\* Whoever replaces a preg is alone in doing so, and writes what it wrote:
\* the writers in flight, then those in IS.
FlightChain ==
    \A p \in Pregs : life[p] = "ALLOC" =>
        /\ rel[p] \in Pregs /\ Live(rel[p]) /\ dst[rel[p]] = dst[p]
        /\ \A q \in Pregs : life[q] = "ALLOC" /\ rel[q] = rel[p] => q = p

IsChain ==
    \A i \in DOMAIN is : is[i].dst # None =>
        /\ is[i].rel \in Pregs
        /\ \/ Live(is[i].rel) /\ dst[is[i].rel] = is[i].dst
           \/ \E j \in DOMAIN is : j < i /\ is[j].preg = is[i].rel /\ is[j].dst = is[i].dst
        /\ \A j \in DOMAIN is : is[j].dst # None /\ is[j].rel = is[i].rel => j = i
        /\ \A p \in Pregs : life[p] = "ALLOC" => rel[p] # is[i].rel

\* A writer in flight is in the reorder buffer, behind the one it replaces
\* or in the same entry.
RobChain ==
    flush = "IDLE" =>
        \A p \in Pregs : life[p] = "ALLOC" =>
            /\ \E i \in DOMAIN rob : rob[i].iid = iid[p]
            /\ life[rel[p]] = "ALLOC" =>
                  \A i \in DOMAIN rob : rob[i].iid = iid[p] =>
                      \E j \in 1 .. i : rob[j].iid = iid[rel[p]]

\* Nobody replaces what the rename table names, and while it is not being
\* recovered it names a writer of the register.
TableHead ==
    \A a \in ARegs :
        /\ life[rt[a]] \in {"WF_ALLOC", "ALLOC", "RETIRE"} /\ rt[a] \notin Offers
        /\ \A p \in Pregs : life[p] = "ALLOC" => rel[p] # rt[a]
        /\ \A i \in DOMAIN is : is[i].dst # None => is[i].rel # rt[a]
        /\ Settled => \/ Live(rt[a]) /\ dst[rt[a]] = a
                      \/ \E i \in DOMAIN is : is[i].preg = rt[a] /\ is[i].dst = a

\* Nothing handed out is lost.
AllAccounted ==
    Settled => \A p \in Pregs : life[p] = "WF_ALLOC" => p \in Offers \cup InIS

IInv == /\ TypeOK /\ IdsInOrder /\ FlushShape /\ MispredOldest
        /\ HandedOut /\ OneCommitted /\ FlightChain /\ IsChain /\ RobChain
        /\ TableHead /\ AllAccounted

----------------------------------------------------------------------------
(* One clock edge. *)

Taken(g)    == {i \in DOMAIN g : g[i] # None}
Create(k)   == {is[i].preg : i \in 1 .. k} \ {None}
Released(n) == {rel[p] : p \in Retiring(n)}

\* A step of Next, its choices named: n entries retire, k instructions are
\* dispatched, folded by e, the group g is renamed, s refills the slots.
Step(n, cause, cancel, k, e, g, s, done) ==
    /\ n \in 0 .. Len(rob) /\ (flush # "IDLE" => n = 0)
    /\ cause \in {"none", "flush", "mispred", "debug"}
    /\ cause \in {"flush", "mispred"} => flush = "IDLE"
    /\ cause = "none" => \A i \in 1 .. n : ~rob[i].mispred
    /\ cause = "mispred" => \E i \in DOMAIN rob : rob[i].mispred
    /\ cancel \in Cancels(n)
    /\ k \in 0 .. Len(is) /\ (k # 0 => Len(rob) + NSlots <= RobSize)
    /\ e \in Foldings(k)
    /\ Group(g) /\ (g # <<>> => Settled)
    /\ s \in RefillsOf(Taken(g))
    /\ done \in SUBSET pend
    /\ Moves(n, cause, cancel, k, e, g, s, done)
    /\ \E empty \in {FALSE, RetiredWb(Retiring(n))} : flush' = NextFlush(cause, empty)
    /\ asyncFlush' = (cause = "debug")
    /\ StallEdge(cause, cancel)

LEMMA GroupsOfIr ==
    ASSUME NEW g \in IrGroups
    PROVE  Group(g) /\ (g # <<>> => Settled)
<1>1. CASE g = <<>>
  <2>1. g \in Seq(ARegs \cup {None}) /\ Len(g) = 0 /\ DOMAIN g = 1 .. 0
    BY <1>1, EmptySeq, LenProperties
  <2>2. DOMAIN g = {}
    BY <2>1
  <2> QED BY <1>1, <2>1, <2>2, Sizes DEF Group
<1>2. CASE g # <<>>
  <2>1. /\ Settled
        /\ g \in UNION {[1 .. m -> Dsts] : m \in 1 .. NSlots}
        /\ \A i \in DOMAIN g : g[i] # None => slot[i] # None
    BY <1>2 DEF IrGroups, Settled
  <2>2. PICK m \in 1 .. NSlots : g \in [1 .. m -> Dsts]
    BY <2>1
  <2>3. m \in Nat /\ m <= NSlots /\ g \in [1 .. m -> ARegs \cup {None}]
    BY <2>2, PstAssumption
  <2>4. g \in Seq(ARegs \cup {None}) /\ Len(g) = m /\ DOMAIN g = 1 .. m
    BY <2>3
  <2> QED BY <2>1, <2>3, <2>4 DEF Group
<1> QED BY <1>1, <1>2

LEMMA EdgeIsStep ==
    ASSUME IInv, NEW n \in 0 .. Len(rob), NEW cause, NEW cancel \in Cancels(n),
           flush # "IDLE" => n = 0,
           cause \in {"none", "flush", "mispred", "debug"},
           cause \in {"flush", "mispred"} => flush = "IDLE",
           cause = "none" => \A i \in 1 .. n : ~rob[i].mispred,
           cause = "mispred" => \E i \in DOMAIN rob : rob[i].mispred,
           Edge(n, cause, cancel)
    PROVE  \E k, e, g, s, done : Step(n, cause, cancel, k, e, g, s, done)
<1>1. PICK k \in DispatchCounts, done \in WrittenBack, g \in IrGroups :
         \E e \in Foldings(k), s \in RefillsOf(Taken(g)) :
            Moves(n, cause, cancel, k, e, g, s, done)
  BY Zenon DEF Edge, Taken
<1>2. PICK e \in Foldings(k), s \in RefillsOf(Taken(g)) :
         Moves(n, cause, cancel, k, e, g, s, done)
  BY <1>1, Zenon
<1>3. \E empty \in {FALSE, RetiredWb(Retiring(n))} : flush' = NextFlush(cause, empty)
  BY Zenon DEF Edge
<1>4. asyncFlush' = (cause = "debug") /\ StallEdge(cause, cancel)
  BY Zenon DEF Edge
<1>5. k \in 0 .. Len(is) /\ (k # 0 => Len(rob) + NSlots <= RobSize)
  <2>1. Len(is) \in Nat
    BY LenProperties DEF IInv, TypeOK
  <2> QED BY <2>1 DEF DispatchCounts
<1>6. done \in SUBSET pend
  BY DEF WrittenBack
<1>7. Group(g) /\ (g # <<>> => Settled)
  BY GroupsOfIr
<1>8. Step(n, cause, cancel, k, e, g, s, done)
  BY <1>2, <1>3, <1>4, <1>5, <1>6, <1>7, Zenon DEF Step
<1> QED BY <1>8

LEMMA NextIsStep ==
    ASSUME IInv, Next
    PROVE  \E n, cause, cancel, k, e, g, s, done : Step(n, cause, cancel, k, e, g, s, done)
<1>0. Len(rob) \in Nat /\ (rob # <<>> => 1 \in 0 .. Len(rob)) /\ 0 \in 0 .. Len(rob)
      /\ (rob = <<>> => Len(rob) = 0) /\ RetireWidth \in Nat
      /\ (flush # "IDLE" => rob = <<>>)
  BY PstAssumption, LenProperties, EmptySeq DEF IInv, TypeOK, FlushShape
<1>1. CASE Run
  <2>1. PICK n \in 0 .. RetireWidth :
           /\ n <= Len(rob) /\ \A i \in 1 .. n : ~rob[i].mispred
           /\ \E c \in Cancels(n) : Edge(n, "none", c)
    BY <1>1, Zenon DEF Run
  <2>2. PICK c \in Cancels(n) : Edge(n, "none", c)
    BY <2>1, Zenon
  <2>3. n \in 0 .. Len(rob) /\ (flush # "IDLE" => n = 0)
    BY <1>0, <2>1
  <2>4. \E k, e, g, s, done : Step(n, "none", c, k, e, g, s, done)
    BY <2>1, <2>2, <2>3, EdgeIsStep
  <2> QED BY <2>4, Zenon
<1>2. CASE RetireMispred
  <2>1. PICK c \in Cancels(1) : Edge(1, "mispred", c)
    BY <1>2, Zenon DEF RetireMispred
  <2>2. flush = "IDLE" /\ 1 \in 0 .. Len(rob) /\ \E i \in DOMAIN rob : rob[i].mispred
    <3>1. 1 \in DOMAIN rob /\ rob[1].mispred
      BY <1>2, LenProperties, EmptySeq DEF RetireMispred, IInv, TypeOK
    <3> QED BY <1>0, <1>2, <3>1 DEF RetireMispred
  <2>3. \E k, e, g, s, done : Step(1, "mispred", c, k, e, g, s, done)
    BY <2>1, <2>2, EdgeIsStep
  <2> QED BY <2>3, Zenon
<1>3. CASE RetireFlush
  <2>1. PICK c \in Cancels(1) : Edge(1, "flush", c)
    BY <1>3, Zenon DEF RetireFlush
  <2>2. flush = "IDLE" /\ 1 \in 0 .. Len(rob)
    BY <1>0, <1>3 DEF RetireFlush
  <2>3. \E k, e, g, s, done : Step(1, "flush", c, k, e, g, s, done)
    BY <2>1, <2>2, EdgeIsStep
  <2> QED BY <2>3, Zenon
<1>4. CASE Fault
  <2>1. PICK c \in Cancels(0) : Edge(0, "flush", c)
    BY <1>4, Zenon DEF Fault
  <2>2. flush = "IDLE" /\ 0 \in 0 .. Len(rob)
    BY <1>0, <1>4 DEF Fault
  <2>3. \E k, e, g, s, done : Step(0, "flush", c, k, e, g, s, done)
    BY <2>1, <2>2, EdgeIsStep
  <2> QED BY <2>3, Zenon
<1>5. CASE AsyncDebug
  <2>1. PICK n \in 0 .. RetireWidth :
           /\ n <= Len(rob) /\ \A i \in 1 .. n : ~rob[i].mispred
           /\ \E c \in Cancels(n) : Edge(n, "debug", c)
    BY <1>5, Zenon DEF AsyncDebug
  <2>2. PICK c \in Cancels(n) : Edge(n, "debug", c)
    BY <2>1, Zenon
  <2>3. n \in 0 .. Len(rob) /\ (flush # "IDLE" => n = 0)
    BY <1>0, <2>1
  <2>4. \E k, e, g, s, done : Step(n, "debug", c, k, e, g, s, done)
    BY <2>1, <2>2, <2>3, EdgeIsStep
  <2> QED BY <2>4, Zenon
<1> QED BY <1>1, <1>2, <1>3, <1>4, <1>5 DEF Next

----------------------------------------------------------------------------
(* What a step does to the reorder buffer, the issue stage and the table. *)

\* Retiring entries take with them whoever their pregs replace.
LEMMA ReleasedRetire ==
    ASSUME IInv, NEW n \in 0 .. Len(rob), flush # "IDLE" => n = 0
    PROVE  /\ \A p \in Retiring(n) : p \in Pregs /\ life[p] = "ALLOC" /\ flush = "IDLE"
           /\ \A p \in Released(n) : /\ p \in Pregs /\ Live(p)
                                     /\ life[p] = "ALLOC" => p \in Retiring(n)
<1>0. Len(rob) \in Nat /\ DOMAIN rob = 1 .. Len(rob)
  BY LenProperties DEF IInv, TypeOK
<1>1. ASSUME NEW q \in Retiring(n)
      PROVE  /\ q \in Pregs /\ life[q] = "ALLOC" /\ flush = "IDLE"
             /\ rel[q] \in Pregs /\ Live(rel[q])
             /\ life[rel[q]] = "ALLOC" => rel[q] \in Retiring(n)
  <2>1. PICK i \in 1 .. n : rob[i].iid = iid[q]
    BY DEF Retiring
  <2>2. q \in Pregs /\ life[q] = "ALLOC"
    BY DEF Retiring
  <2>3. flush = "IDLE"
    BY <2>1
  <2>4. rel[q] \in Pregs /\ Live(rel[q])
    BY <2>2 DEF IInv, FlightChain
  <2>5. ASSUME life[rel[q]] = "ALLOC" PROVE rel[q] \in Retiring(n)
    <3>1. i \in DOMAIN rob
      BY <1>0
    <3>2. PICK j \in 1 .. i : rob[j].iid = iid[rel[q]]
      BY <2>1, <2>2, <2>3, <2>5, <3>1 DEF IInv, RobChain
    <3>3. j \in 1 .. n
      BY <1>0
    <3> QED BY <2>4, <2>5, <3>2, <3>3 DEF Retiring
  <2> QED BY <2>2, <2>3, <2>4, <2>5
<1> QED BY <1>1 DEF Released

\* The reorder buffer loses n entries and gains w.
RobGrows(n, cancel, k, e, w) ==
    /\ w \in 0 .. RobSize /\ Len(rob) + w <= RobSize /\ nextIid' = PlusIid(w)
    /\ Len(rob') = Len(rob) - n + w /\ DOMAIN rob' = 1 .. Len(rob')
    /\ (k = 0 => w = 0) /\ \A m \in 1 .. k : e[m] + 1 \in 1 .. w
    /\ \A i \in 1 .. Len(rob) - n :
          /\ rob'[i].iid = rob[i + n].iid
          /\ rob'[i].mispred = (rob[i + n].mispred \/ i + n \in cancel)
    /\ \A i \in 1 .. w : /\ rob'[Len(rob) - n + i].iid = PlusIid(i - 1)
                         /\ ~rob'[Len(rob) - n + i].mispred

LEMMA RobStep ==
    ASSUME IInv, NEW n, NEW cause, NEW cancel, NEW k, NEW e, NEW g, NEW s, NEW done,
           Step(n, cause, cancel, k, e, g, s, done)
    PROVE  /\ RobFlush(cause) => rob' = <<>> /\ nextIid' = 0
           /\ ~RobFlush(cause) => /\ rob' \in Seq([iid : Iids, mispred : BOOLEAN])
                                 /\ \E w : RobGrows(n, cancel, k, e, w)
<1> DEFINE Entry == [iid : Iids, mispred : BOOLEAN]
           w == IF k = 0 THEN 0 ELSE e[k] + 1
           mark == [i \in DOMAIN rob |-> [rob[i] EXCEPT !.mispred = @ \/ i \in cancel]]
           new == [i \in 1 .. w |-> [iid |-> PlusIid(i - 1), mispred |-> FALSE]]
<1>0. /\ rob \in Seq(Entry) /\ Len(rob) \in Nat /\ DOMAIN rob = 1 .. Len(rob)
      /\ Len(rob) <= RobSize /\ nextIid \in Iids
      /\ Len(is) \in Nat /\ Len(is) <= NSlots /\ NSlots \in Nat /\ RobSize \in Nat
  BY LenProperties, Sizes DEF IInv, TypeOK
<1>1. /\ n \in 0 .. Len(rob) /\ k \in 0 .. Len(is) /\ e \in Foldings(k)
      /\ k # 0 => Len(rob) + NSlots <= RobSize
      /\ RobEdge(n, cause, cancel, k, e)
  BY Zenon DEF Step, Moves
<1>2. CASE RobFlush(cause)
  BY <1>1, <1>2, Zenon DEF RobEdge
<1>3. CASE ~RobFlush(cause)
  <2>1. rob' = SubSeq(mark, n + 1, Len(rob)) \o new /\ nextIid' = PlusIid(w)
    BY <1>1, <1>3, Zenon DEF RobEdge
  <2>2. /\ w \in 0 .. RobSize /\ Len(rob) + w <= RobSize /\ (k = 0 => w = 0)
        /\ \A m \in 1 .. k : e[m] + 1 \in 1 .. w
    <3>1. CASE k = 0
      BY <1>0, <3>1
    <3>2. CASE k # 0
      <4>1. k \in Nat /\ k \in 1 .. k
        BY <1>0, <1>1, <3>2
      <4>2. ASSUME NEW m \in 1 .. k PROVE e[m] <= e[k] /\ e[m] \in 0 .. k - 1
        BY <1>1, <4>1, FoldingsGrow
      <4>3. e[k] \in 0 .. k - 1
        BY <4>1, <4>2
      <4>4. w = e[k] + 1 /\ w \in 1 .. NSlots
        BY <1>0, <1>1, <3>2, <4>3
      <4>5. w \in 0 .. RobSize /\ Len(rob) + w <= RobSize
        BY <1>0, <1>1, <3>2, <4>4
      <4>6. \A m \in 1 .. k : e[m] + 1 \in 1 .. w
        BY <4>2, <4>3, <4>4
      <4> QED BY <4>5, <4>6
    <3> QED BY <3>1, <3>2
  <2> HIDE DEF w
  <2>3. \A i \in 1 .. w : PlusIid(i - 1) \in Iids
    BY <1>0, <2>2, PlusIidIs
  <2>4. new \in Seq(Entry) /\ Len(new) = w
        /\ \A i \in 1 .. w : new[i].iid = PlusIid(i - 1) /\ ~new[i].mispred
    <3>1. new \in [1 .. w -> Entry] /\ w \in Nat
      BY <2>2, <2>3
    <3> QED BY <3>1
  <2>5. /\ mark \in Seq(Entry) /\ Len(mark) = Len(rob)
        /\ \A i \in 1 .. Len(rob) : /\ mark[i].iid = rob[i].iid
                                    /\ mark[i].mispred = (rob[i].mispred \/ i \in cancel)
    <3>1. \A i \in 1 .. Len(rob) : rob[i] \in Entry
      BY <1>0, ElementOfSeq
    <3>2. \A i \in 1 .. Len(rob) :
             /\ [rob[i] EXCEPT !.mispred = @ \/ i \in cancel] \in Entry
             /\ [rob[i] EXCEPT !.mispred = @ \/ i \in cancel].iid = rob[i].iid
             /\ [rob[i] EXCEPT !.mispred = @ \/ i \in cancel].mispred
                  = (rob[i].mispred \/ i \in cancel)
      BY <3>1
    <3>3. mark \in [1 .. Len(rob) -> Entry]
      BY <1>0, <3>2
    <3> QED BY <1>0, <3>2, <3>3
  <2> HIDE DEF mark, new, Entry
  <2>6. /\ mark \in Seq(Entry) /\ new \in Seq(Entry) /\ n \in 0 .. Len(mark)
        /\ rob' = Slid(mark, n, new)
    BY <1>1, <2>1, <2>4, <2>5 DEF Slid
  <2>7. /\ rob' \in Seq(Entry) /\ Len(rob') = Len(mark) - n + Len(new)
        /\ DOMAIN rob' = 1 .. Len(rob')
        /\ \A i \in 1 .. Len(mark) - n : rob'[i] = mark[i + n]
        /\ \A i \in 1 .. Len(new) : rob'[Len(mark) - n + i] = new[i]
    <3>1. /\ Slid(mark, n, new) \in Seq(Entry)
          /\ Len(Slid(mark, n, new)) = Len(mark) - n + Len(new)
      BY <2>6, Slide
    <3>2. DOMAIN Slid(mark, n, new) = 1 .. Len(Slid(mark, n, new))
      BY <2>6, Slide
    <3>3. \A i \in 1 .. Len(mark) - n : Slid(mark, n, new)[i] = mark[i + n]
      BY <2>6, Slide
    <3>4. \A i \in 1 .. Len(new) : Slid(mark, n, new)[Len(mark) - n + i] = new[i]
      BY <2>6, Slide
    <3> QED BY <2>6, <3>1, <3>2, <3>3, <3>4, Zenon
  <2>8. \A i \in 1 .. Len(rob) - n :
           /\ rob'[i].iid = rob[i + n].iid
           /\ rob'[i].mispred = (rob[i + n].mispred \/ i + n \in cancel)
    <3>1. \A i \in 1 .. Len(rob) - n : i + n \in 1 .. Len(rob)
      BY <1>0, <1>1
    <3> QED BY <2>5, <2>7, <3>1
  <2>9. \A i \in 1 .. w : /\ rob'[Len(rob) - n + i].iid = PlusIid(i - 1)
                          /\ ~rob'[Len(rob) - n + i].mispred
    BY <2>4, <2>5, <2>7
  <2>10. Len(rob') = Len(rob) - n + w
    BY <2>4, <2>5, <2>7
  <2>11. RobGrows(n, cancel, k, e, w)
    BY <2>1, <2>2, <2>7, <2>8, <2>9, <2>10 DEF RobGrows
  <2> QED BY <1>3, <2>7, <2>11 DEF Entry
<1> QED BY <1>2, <1>3

LEMMA RenamedIs ==
    ASSUME TypeOK, NEW g, Group(g)
    PROVE  /\ Renamed(g) \in Seq(Insts) /\ Len(Renamed(g)) = Len(g)
           /\ \A i \in DOMAIN g :
                 /\ Renamed(g)[i].dst = g[i]
                 /\ g[i] = None => Renamed(g)[i].preg = None
                 /\ g[i] # None =>
                       /\ Renamed(g)[i].preg = slot[i]
                       /\ Renamed(g)[i].rel = IF LastWriter(g, i) = 0
                                              THEN rt[g[i]] ELSE slot[LastWriter(g, i)]
<1>0. /\ Len(g) \in Nat /\ DOMAIN g = 1 .. Len(g) /\ Len(g) <= NSlots /\ NSlots \in Nat
      /\ slot \in [Slots -> Pregs \cup {None}] /\ rt \in [ARegs -> Pregs]
      /\ \A i \in DOMAIN g : g[i] \in ARegs \cup {None}
  BY Sizes, ElementOfSeq DEF Group, TypeOK
<1>1. \A i \in DOMAIN g : i \in Slots /\ slot[i] \in Pregs \cup {None}
  BY <1>0 DEF Slots
<1>2. ASSUME NEW i \in DOMAIN g, g[i] # None
      PROVE  (IF LastWriter(g, i) = 0 THEN rt[g[i]] ELSE slot[LastWriter(g, i)])
                \in Pregs \cup {None}
  <2>1. g[i] \in ARegs /\ i \in 1 .. Len(g)
    BY <1>0, <1>2
  <2>2. LastWriter(g, i) # 0 => LastWriter(g, i) \in DOMAIN g
    BY <1>0, <2>1, LastWriterIs
  <2> QED BY <1>0, <1>1, <2>1, <2>2
<1>3. ASSUME NEW i \in DOMAIN g
      PROVE  /\ Renamed(g)[i].dst = g[i]
             /\ g[i] = None => Renamed(g)[i].preg = None
             /\ g[i] # None =>
                   /\ Renamed(g)[i].preg = slot[i]
                   /\ Renamed(g)[i].rel = IF LastWriter(g, i) = 0
                                          THEN rt[g[i]] ELSE slot[LastWriter(g, i)]
             /\ Renamed(g)[i] \in Insts
  <2>1. CASE g[i] = None
    <3>1. Renamed(g)[i] = [dst |-> None, preg |-> None, rel |-> None]
      BY <2>1 DEF Renamed
    <3> QED BY <2>1, <3>1 DEF Insts
  <2>2. CASE g[i] # None
    <3> DEFINE r == IF LastWriter(g, i) = 0 THEN rt[g[i]] ELSE slot[LastWriter(g, i)]
    <3>1. Renamed(g)[i] = [dst |-> g[i], preg |-> slot[i], rel |-> r]
      BY <2>2 DEF Renamed
    <3>2. r \in Pregs \cup {None} /\ g[i] \in ARegs \cup {None}
          /\ slot[i] \in Pregs \cup {None}
      BY <1>0, <1>1, <1>2, <2>2
    <3> HIDE DEF r
    <3>3. Renamed(g)[i] \in Insts /\ Renamed(g)[i].dst = g[i]
          /\ Renamed(g)[i].preg = slot[i] /\ Renamed(g)[i].rel = r
      BY <3>1, <3>2 DEF Insts
    <3> QED BY <2>2, <3>3 DEF r
  <2> QED BY <2>1, <2>2
<1>4. Renamed(g) = [i \in 1 .. Len(g) |-> Renamed(g)[i]]
  BY <1>0 DEF Renamed
<1>5. Renamed(g) \in [1 .. Len(g) -> Insts]
  BY <1>0, <1>3, <1>4
<1>6. Renamed(g) \in Seq(Insts) /\ Len(Renamed(g)) = Len(g)
  BY <1>0, <1>5
<1> QED BY <1>3, <1>6

LEMMA IsStep ==
    ASSUME IInv, NEW n, NEW cause, NEW cancel, NEW k, NEW e, NEW g, NEW s, NEW done,
           Step(n, cause, cancel, k, e, g, s, done)
    PROVE  /\ is' \in Seq(Insts) /\ Len(is') <= NSlots
           /\ \/ (FlushFe \/ cancel # {}) /\ is' = <<>>
              \/ /\ ~FlushFe /\ cancel = {}
                 /\ DOMAIN is' = 1 .. Len(is) - k + Len(g)
                 /\ \A i \in 1 .. Len(is) - k : is'[i] = is[i + k]
                 /\ \A i \in 1 .. Len(g) : is'[Len(is) - k + i] = Renamed(g)[i]
<1>0. /\ is \in Seq(Insts) /\ Len(is) \in Nat /\ NSlots \in Nat
      /\ k \in 0 .. Len(is) /\ Group(g) /\ Len(g) \in Nat
      /\ Renamed(g) \in Seq(Insts) /\ Len(Renamed(g)) = Len(g)
  BY LenProperties, Sizes, RenamedIs DEF IInv, TypeOK, Step, Group
<1>1. /\ Len(g) <= NSlots - (Len(is) - k)
      /\ is' = IF FlushFe \/ cancel # {} THEN <<>> ELSE Slid(is, k, Renamed(g))
  BY Zenon DEF Step, Moves, Slid
<1>2. CASE FlushFe \/ cancel # {}
  <2>1. is' = <<>> /\ is' \in Seq(Insts) /\ Len(is') = 0
    BY <1>1, <1>2, EmptySeq
  <2> QED BY <1>0, <1>2, <2>1
<1>3. CASE ~(FlushFe \/ cancel # {})
  <2>1. is' = Slid(is, k, Renamed(g))
    BY <1>1, <1>3, Zenon
  <2>0. is \in Seq(Insts) /\ k \in 0 .. Len(is) /\ Renamed(g) \in Seq(Insts)
    BY <1>0
  <2>2. /\ Slid(is, k, Renamed(g)) \in Seq(Insts)
        /\ Len(Slid(is, k, Renamed(g))) = Len(is) - k + Len(Renamed(g))
    <3>1. Slid(is, k, Renamed(g)) \in Seq(Insts)
      BY <2>0, Slide
    <3>2. Len(Slid(is, k, Renamed(g))) = Len(is) - k + Len(Renamed(g))
      BY <2>0, Slide
    <3> QED BY <3>1, <3>2
  <2>3. DOMAIN Slid(is, k, Renamed(g)) = 1 .. Len(Slid(is, k, Renamed(g)))
    BY <2>0, Slide
  <2>4. \A i \in 1 .. Len(is) - k : Slid(is, k, Renamed(g))[i] = is[i + k]
    BY <2>0, Slide
  <2>5. \A i \in 1 .. Len(Renamed(g)) :
           Slid(is, k, Renamed(g))[Len(is) - k + i] = Renamed(g)[i]
    BY <2>0, Slide
  <2>6. is' \in Seq(Insts) /\ Len(is') = Len(is) - k + Len(g) /\ DOMAIN is' = 1 .. Len(is')
    BY <1>0, <2>1, <2>2, <2>3, Zenon
  <2>7. Len(is') <= NSlots
    BY <1>0, <1>1, <2>6
  <2>8. \A i \in 1 .. Len(is) - k : is'[i] = is[i + k]
    BY <2>1, <2>4, Zenon
  <2>9. \A i \in 1 .. Len(g) : is'[Len(is) - k + i] = Renamed(g)[i]
    BY <1>0, <2>1, <2>5, Zenon
  <2> QED BY <1>3, <2>6, <2>7, <2>8, <2>9, Zenon
<1> QED BY <1>2, <1>3

\* Who is in which state after a step: without a back-end flush what is
\* created, what retires and is not replaced, what is still handed out; with
\* one only what is committed or released.
Grant(s) == {s[i] : i \in Slots} \ {None}

LEMMA LifeStep ==
    ASSUME IInv, NEW n, NEW cause, NEW cancel, NEW k, NEW e, NEW g, NEW s, NEW done,
           Step(n, cause, cancel, k, e, g, s, done)
    PROVE  /\ life' \in [Pregs -> Lives]
           /\ FlushBe => \A p \in Pregs :
                 /\ life'[p] \in {"DEALLOC", "RETIRE", "RELEASE"}
                 /\ life'[p] = "RETIRE" <=> life[p] = "RETIRE"
           /\ ~FlushBe => \A p \in Pregs :
                 /\ life'[p] = "ALLOC" <=>
                       p \in Create(k) \/ (life[p] = "ALLOC" /\ p \notin Retiring(n))
                 /\ life'[p] = "RETIRE" <=>
                       (life[p] = "RETIRE" \/ p \in Retiring(n)) /\ p \notin Released(n)
                 /\ life'[p] = "WF_ALLOC" <=>
                       \/ life[p] = "WF_ALLOC" /\ p \notin Create(k)
                       \/ life[p] = "DEALLOC" /\ p \in Grant(s)
<1>0. /\ n \in 0 .. Len(rob) /\ (flush # "IDLE" => n = 0) /\ k \in 0 .. Len(is)
      /\ PstEdge(n, k, e, Grant(s), done)
  BY Zenon DEF Step, Moves, Grant
<1>1. PICK mask \in SUBSET Leaving(Released(n)) :
         life' = [p \in Pregs |-> NextLife(p, Grant(s), Create(k), Retiring(n), Released(n), mask)]
  BY <1>0, Zenon DEF PstEdge, Create, Released
<1>2. /\ \A p \in Retiring(n) : p \in Pregs /\ life[p] = "ALLOC" /\ flush = "IDLE"
      /\ \A p \in Released(n) : /\ p \in Pregs /\ Live(p)
                                /\ life[p] = "ALLOC" => p \in Retiring(n)
  BY <1>0, ReleasedRetire
<1>3. \A p \in Create(k) : life[p] = "WF_ALLOC"
  <2>1. DOMAIN is = 1 .. Len(is) /\ Len(is) \in Nat
    BY LenProperties DEF IInv, TypeOK
  <2>2. \A i \in 1 .. k : i \in DOMAIN is
    BY <1>0, <2>1
  <2> QED BY <2>2 DEF IInv, HandedOut, Create
<1>4. ASSUME NEW p \in Pregs PROVE life[p] \in Lives
  BY DEF IInv, TypeOK
<1>5. ASSUME NEW p \in Pregs
      PROVE  life'[p] = NextLife(p, Grant(s), Create(k), Retiring(n), Released(n), mask)
  BY <1>1, Zenon
<1>6. FlushBe => Retiring(n) = {} /\ Released(n) = {}
  <2>1. FlushBe => flush # "IDLE"
    BY DEF FlushBe
  <2>2. FlushBe => Retiring(n) = {}
    BY <1>2, <2>1
  <2> QED BY <2>2 DEF Released
<1>7. ASSUME NEW p \in Pregs
      PROVE  /\ life'[p] \in Lives
             /\ FlushBe => /\ life'[p] \in {"DEALLOC", "RETIRE", "RELEASE"}
                           /\ life'[p] = "RETIRE" <=> life[p] = "RETIRE"
             /\ ~FlushBe =>
                 /\ life'[p] = "ALLOC" <=>
                       p \in Create(k) \/ (life[p] = "ALLOC" /\ p \notin Retiring(n))
                 /\ life'[p] = "RETIRE" <=>
                       (life[p] = "RETIRE" \/ p \in Retiring(n)) /\ p \notin Released(n)
                 /\ life'[p] = "WF_ALLOC" <=>
                       \/ life[p] = "WF_ALLOC" /\ p \notin Create(k)
                       \/ life[p] = "DEALLOC" /\ p \in Grant(s)
  <2>1. CASE life[p] = "DEALLOC"
    BY <1>2, <1>3, <1>5, <1>6, <2>1 DEF NextLife, Lives, Live
  <2>2. CASE life[p] = "WF_ALLOC"
    BY <1>2, <1>3, <1>5, <1>6, <2>2 DEF NextLife, Lives, Live
  <2>3. CASE life[p] = "ALLOC"
    BY <1>2, <1>3, <1>5, <1>6, <2>3 DEF NextLife, Lives, Live
  <2>4. CASE life[p] = "RETIRE"
    BY <1>2, <1>3, <1>5, <1>6, <2>4 DEF NextLife, Lives, Live
  <2>5. CASE life[p] = "RELEASE"
    BY <1>2, <1>3, <1>5, <1>6, <2>5 DEF NextLife, Lives, Live
  <2> QED BY <1>4, <2>1, <2>2, <2>3, <2>4, <2>5 DEF Lives
<1>8. life' = [p \in Pregs |-> life'[p]]
  BY <1>1
<1>9. life' \in [Pregs -> Lives]
  BY <1>7, <1>8
<1> QED BY <1>7, <1>9

\* The information registers of the created pregs, and of the others.
LEMMA InfoStep ==
    ASSUME IInv, NEW n, NEW cause, NEW cancel, NEW k, NEW e, NEW g, NEW s, NEW done,
           Step(n, cause, cancel, k, e, g, s, done)
    PROVE  /\ \A m \in 1 .. k : is[m].preg # None =>
                 /\ is[m].preg \in Create(k) /\ is[m].preg \in Pregs
                 /\ iid'[is[m].preg] = PlusIid(e[m])
                 /\ dst'[is[m].preg] = is[m].dst /\ rel'[is[m].preg] = is[m].rel
           /\ \A p \in Create(k) :
                 p \in Pregs /\ life[p] = "WF_ALLOC" /\ \E m \in 1 .. k : is[m].preg = p
           /\ \A p \in Pregs : p \notin Create(k) =>
                 /\ life'[p] = "ALLOC" => iid'[p] = iid[p] /\ rel'[p] = rel[p]
                 /\ life'[p] \in {"ALLOC", "RETIRE"} => dst'[p] = dst[p]
<1> DEFINE inst(p) == CHOOSE i \in 1 .. k : is[i].preg = p
<1>0. /\ k \in 0 .. Len(is) /\ is \in Seq(Insts) /\ Len(is) \in Nat
      /\ DOMAIN is = 1 .. Len(is) /\ PstEdge(n, k, e, Grant(s), done)
  BY LenProperties, Zenon DEF IInv, TypeOK, Step, Moves, Grant
<1>1. /\ iid' = [p \in Pregs |-> IF p \in Create(k) THEN PlusIid(e[inst(p)])
                                 ELSE IF life'[p] = "ALLOC" THEN iid[p] ELSE None]
      /\ dst' = [p \in Pregs |-> IF p \in Create(k) THEN is[inst(p)].dst
                                 ELSE IF life'[p] \in {"ALLOC", "RETIRE"} THEN dst[p] ELSE None]
      /\ rel' = [p \in Pregs |-> IF p \in Create(k) THEN is[inst(p)].rel
                                 ELSE IF life'[p] = "ALLOC" THEN rel[p] ELSE None]
  BY <1>0, Zenon DEF PstEdge, Create
<1>2. ASSUME NEW m \in 1 .. k
      PROVE  m \in DOMAIN is /\ is[m] \in Insts /\ is[m].preg \in Pregs \cup {None}
  <2>1. m \in 1 .. Len(is)
    BY <1>0
  <2>2. is[m] \in Insts
    BY <1>0, <2>1, ElementOfSeq
  <2> QED BY <1>0, <2>1, <2>2 DEF Insts
<1>3. ASSUME NEW m \in 1 .. k, is[m].preg # None
      PROVE  inst(is[m].preg) = m
  <2>1. \A i \in 1 .. k : is[i].preg = is[m].preg => i = m
    BY <1>2, <1>3 DEF IInv, HandedOut
  <2> QED BY <2>1
<1>4. ASSUME NEW m \in 1 .. k, is[m].preg # None
      PROVE  /\ is[m].preg \in Create(k) /\ is[m].preg \in Pregs
             /\ iid'[is[m].preg] = PlusIid(e[m])
             /\ dst'[is[m].preg] = is[m].dst /\ rel'[is[m].preg] = is[m].rel
  <2>1. is[m].preg \in Create(k) /\ is[m].preg \in Pregs
    BY <1>2, <1>4 DEF Create
  <2>2. inst(is[m].preg) = m
    BY <1>3, <1>4
  <2> HIDE DEF inst
  <2> QED BY <1>1, <2>1, <2>2
<1>5. ASSUME NEW p \in Create(k)
      PROVE  p \in Pregs /\ life[p] = "WF_ALLOC" /\ \E m \in 1 .. k : is[m].preg = p
  <2>1. PICK m \in 1 .. k : is[m].preg = p /\ p # None
    BY DEF Create
  <2> QED BY <1>2, <2>1 DEF IInv, HandedOut
<1>6. ASSUME NEW p \in Pregs, p \notin Create(k)
      PROVE  /\ life'[p] = "ALLOC" => iid'[p] = iid[p] /\ rel'[p] = rel[p]
             /\ life'[p] \in {"ALLOC", "RETIRE"} => dst'[p] = dst[p]
  BY <1>1, <1>6
<1> QED BY <1>4, <1>5, <1>6

\* The allocate registers keep what is not taken, and are refilled with
\* free pregs, no two with the same.
LEMMA SlotStep ==
    ASSUME IInv, NEW n, NEW cause, NEW cancel, NEW k, NEW e, NEW g, NEW s, NEW done,
           Step(n, cause, cancel, k, e, g, s, done)
    PROVE  /\ slot' \in [Slots -> Pregs \cup {None}]
           /\ FlushBe => \A i \in Slots : slot'[i] = None
           /\ ~FlushBe => /\ slot' = s
                          /\ \A i \in Slots : s[i] = slot[i] \/ s[i] \in Dealloc \cup {None}
                          /\ \A i \in Slots : slot[i] # None /\ i \notin Taken(g) => s[i] = slot[i]
                          /\ \A i \in Taken(g) : s[i] \in Dealloc \cup {None}
                          /\ \A i \in Slots : \A j \in Slots :
                                s[i] # None /\ s[i] = s[j] => i = j
<1>1. /\ s \in RefillsOf(Taken(g)) /\ Group(g)
      /\ slot' = IF FlushBe THEN [i \in Slots |-> None] ELSE s
  BY Zenon DEF Step, Moves
<1>2. /\ s \in [Slots -> Dealloc \cup Offers \cup {None}]
      /\ \A i \in Slots : IF slot[i] # None /\ i \notin Taken(g)
                          THEN s[i] = slot[i] ELSE s[i] \in Dealloc \cup {None}
      /\ \A i, j \in Slots : i # j /\ s[i] # None => s[i] # s[j]
  BY <1>1 DEF RefillsOf
<1>3. Dealloc \cup Offers \cup {None} \subseteq Pregs \cup {None}
  BY DEF Dealloc, Offers, IInv, TypeOK
<1>4. Taken(g) \subseteq Slots
  BY <1>1, Sizes DEF Group, Taken, Slots
<1>5. slot' \in [Slots -> Pregs \cup {None}]
  BY <1>1, <1>2, <1>3
<1> QED BY <1>1, <1>2, <1>4, <1>5

\* The flush state machine: it leaves IDLE only when the retire unit starts
\* something, and returns to it only after a back-end flush.
LEMMA FlushStep ==
    ASSUME IInv, NEW n, NEW cause, NEW cancel, NEW k, NEW e, NEW g, NEW s, NEW done,
           Step(n, cause, cancel, k, e, g, s, done)
    PROVE  /\ flush' \in FlushStates
           /\ flush' = "IDLE" => cause = "none" /\ (flush = "IDLE" \/ FlushBe)
           /\ cause = "none" /\ flush \in {"IDLE", "IS_BE", "FE_BE", "BE"} => flush' = "IDLE"
           /\ cause \in {"flush", "debug"} => flush' \in {"FE", "FE_BE"}
           /\ flush' \in {"FE", "FE_BE"} => cause \in {"flush", "debug"}
<1>1. /\ cause \in {"none", "flush", "mispred", "debug"}
      /\ cause \in {"flush", "mispred"} => flush = "IDLE"
      /\ flush \in FlushStates
  BY Zenon DEF Step, IInv, TypeOK
<1>2. PICK empty \in BOOLEAN : flush' = NextFlush(cause, empty)
  <2>1. RetiredWb(Retiring(n)) \in BOOLEAN
    BY DEF RetiredWb
  <2> QED BY <2>1, Zenon DEF Step
<1>3. CASE cause = "debug"
  BY <1>1, <1>2, <1>3 DEF NextFlush, FlushBe, FlushStates
<1>4. CASE cause # "debug" /\ flush = "IDLE"
  BY <1>1, <1>2, <1>4 DEF NextFlush, FlushBe, FlushStates
<1>5. CASE cause # "debug" /\ flush \in {"IS", "FE", "WF_EMPTY"}
  BY <1>1, <1>2, <1>5 DEF NextFlush, FlushBe, FlushStates
<1>6. CASE cause # "debug" /\ FlushBe
  BY <1>1, <1>2, <1>6 DEF NextFlush, FlushBe, FlushStates
<1> QED BY <1>1, <1>3, <1>4, <1>5, <1>6 DEF FlushBe, FlushStates

\* The entry of the branch found mispredicted, if there is one.
LEMMA CancelOne ==
    ASSUME IInv, NEW n \in 0 .. Len(rob), NEW cancel \in Cancels(n), cancel # {}
    PROVE  /\ flush = "IDLE"
           /\ \E i \in DOMAIN rob : /\ cancel = {i} /\ i > n
                                    /\ (CHOOSE c \in cancel : TRUE) = i
                                    /\ mispredStall => Older(rob[i].iid, mispredIid)
<1>1. DOMAIN rob = 1 .. Len(rob) /\ Len(rob) \in Nat
  BY LenProperties DEF IInv, TypeOK
<1>2. /\ flush = "IDLE"
      /\ cancel \in {{i} : i \in {j \in (n + 1) .. Len(rob) :
                                    mispredStall => Older(rob[j].iid, mispredIid)}}
  BY DEF Cancels
<1>3. PICK i \in (n + 1) .. Len(rob) :
         cancel = {i} /\ (mispredStall => Older(rob[i].iid, mispredIid))
  BY <1>2, Zenon
<1>4. (CHOOSE c \in cancel : TRUE) = i
  BY <1>3
<1>5. i \in DOMAIN rob /\ i > n
  BY <1>1
<1> QED BY <1>2, <1>3, <1>4, <1>5

----------------------------------------------------------------------------
(* A step preserves each part of the invariant. *)

LEMMA TypeStep ==
    ASSUME IInv, NEW n, NEW cause, NEW cancel, NEW k, NEW e, NEW g, NEW s, NEW done,
           Step(n, cause, cancel, k, e, g, s, done)
    PROVE  TypeOK'
<1>0. /\ TypeOK /\ Len(is) \in Nat /\ DOMAIN is = 1 .. Len(is) /\ Len(rob) \in Nat
      /\ DOMAIN rob = 1 .. Len(rob)
  BY LenProperties DEF IInv, TypeOK
<1>1. /\ n \in 0 .. Len(rob) /\ k \in 0 .. Len(is) /\ e \in Foldings(k) /\ Group(g)
      /\ k # 0 => Len(rob) + NSlots <= RobSize
      /\ cancel \in Cancels(n) /\ done \in SUBSET pend
  BY Zenon DEF Step
<1>2. life' \in [Pregs -> Lives]
  BY LifeStep
<1>3. /\ wb' = [p \in Pregs |-> NextWb(p, Create(k), done)]
      /\ iid' = [p \in Pregs |-> IF p \in Create(k)
                                 THEN PlusIid(e[CHOOSE i \in 1 .. k : is[i].preg = p])
                                 ELSE IF life'[p] = "ALLOC" THEN iid[p] ELSE None]
      /\ dst' = [p \in Pregs |-> IF p \in Create(k)
                                 THEN is[CHOOSE i \in 1 .. k : is[i].preg = p].dst
                                 ELSE IF life'[p] \in {"ALLOC", "RETIRE"} THEN dst[p] ELSE None]
      /\ rel' = [p \in Pregs |-> IF p \in Create(k)
                                 THEN is[CHOOSE i \in 1 .. k : is[i].preg = p].rel
                                 ELSE IF life'[p] = "ALLOC" THEN rel[p] ELSE None]
      /\ pend' = IF asyncFlush THEN {}
                 ELSE {p \in (pend \ done) \cup Create(k) :
                          FlushBe => life'[p] \in {"RETIRE", "RELEASE"}}
  BY Zenon DEF Step, Moves, PstEdge, Create
<1>4. wb' \in [Pregs -> BOOLEAN]
  <2>1. \A p \in Pregs : NextWb(p, Create(k), done) \in BOOLEAN
    BY <1>0 DEF NextWb, TypeOK
  <2> QED BY <1>3, <2>1
<1>5. ASSUME NEW p \in Create(k)
      PROVE  LET i == CHOOSE i \in 1 .. k : is[i].preg = p
             IN  /\ is[i].dst \in ARegs \cup {None} /\ is[i].rel \in Pregs \cup {None}
                 /\ PlusIid(e[i]) \in Iids
  <2> DEFINE i == CHOOSE i \in 1 .. k : is[i].preg = p
  <2>1. i \in 1 .. k
    BY DEF Create
  <2> HIDE DEF i
  <2>2. is[i] \in Insts
    <3>1. i \in 1 .. Len(is)
      BY <1>0, <1>1, <2>1
    <3> QED BY <1>0, <3>1, ElementOfSeq DEF TypeOK
  <2>3. k \in Nat /\ k <= NSlots /\ k >= 1
    BY <1>0, <1>1, <2>1, Sizes DEF TypeOK
  <2>4. e[i] \in 0 .. k - 1
    BY <1>1, <2>1, <2>3, FoldingsGrow
  <2>5. e[i] \in 0 .. RobSize
    BY <2>3, <2>4, Sizes
  <2>6. PlusIid(e[i]) \in Iids
    BY <1>0, <2>5, PlusIidIs DEF TypeOK
  <2> QED BY <2>1, <2>2, <2>6 DEF i, Insts
<1>6. iid' \in [Pregs -> Iids \cup {None}]
  BY <1>0, <1>3, <1>5 DEF TypeOK
<1>7. dst' \in [Pregs -> ARegs \cup {None}] /\ rel' \in [Pregs -> Pregs \cup {None}]
  <2>1. dst' \in [Pregs -> ARegs \cup {None}]
    BY <1>0, <1>3, <1>5 DEF TypeOK
  <2>2. rel' \in [Pregs -> Pregs \cup {None}]
    BY <1>0, <1>3, <1>5 DEF TypeOK
  <2> QED BY <2>1, <2>2
<1>8. slot' \in [Slots -> Pregs \cup {None}]
  BY SlotStep
<1>9. rt' \in [ARegs -> Pregs]
  <2>1. rt' = IF FlushBe THEN RecoverTable ELSE RenamedTable(g)
    BY Zenon DEF Step, Moves
  <2>2. RecoverTable \in [ARegs -> Pregs]
    <3>1. \A a \in ARegs : (CHOOSE p \in Pregs : p \in Committed(a)) \in Pregs
      BY DEF IInv, OneCommitted
    <3> QED BY <3>1 DEF RecoverTable
  <2>3. RenamedTable(g) \in [ARegs -> Pregs]
    <3>1. ASSUME NEW a \in ARegs PROVE RenamedTable(g)[a] \in Pregs
      <4>1. CASE RenamedTable(g)[a] = rt[a]
        BY <1>0, <4>1 DEF TypeOK
      <4>2. ASSUME NEW i \in DOMAIN g, g[i] = a, RenamedTable(g)[a] = slot[i]
            PROVE  RenamedTable(g)[a] \in Pregs
        <5>1. a # None
          BY PstAssumption
        <5>2. slot[i] # None /\ i \in Slots
          BY <1>1, <4>2, <5>1, Sizes DEF Group, Slots
        <5> QED BY <1>0, <4>2, <5>2 DEF TypeOK
      <4> QED BY <1>1, <4>1, <4>2, RenamedTableIs
    <3>2. RenamedTable(g) = [a \in ARegs |-> RenamedTable(g)[a]]
      BY DEF RenamedTable
    <3> QED BY <3>1, <3>2
  <2> QED BY <2>1, <2>2, <2>3
<1>10. is' \in Seq(Insts) /\ Len(is') <= NSlots
  BY IsStep
<1>11. /\ rob' \in Seq([iid : Iids, mispred : BOOLEAN]) /\ Len(rob') <= RobSize
       /\ nextIid' \in Iids
  <2>1. CASE RobFlush(cause) /\ rob' = <<>> /\ nextIid' = 0
    <3>1. rob' \in Seq([iid : Iids, mispred : BOOLEAN]) /\ Len(rob') = 0
      BY <2>1, EmptySeq
    <3>2. 0 \in Iids /\ RobSize \in Nat
      BY Sizes
    <3> QED BY <2>1, <3>1, <3>2
  <2>2. CASE ~RobFlush(cause)
    <3>1. rob' \in Seq([iid : Iids, mispred : BOOLEAN])
      BY <2>2, RobStep
    <3>2. PICK w : RobGrows(n, cancel, k, e, w)
      BY <2>2, RobStep
    <3>3. nextIid' \in Iids
      BY <1>0, <3>2, PlusIidIs DEF TypeOK, RobGrows
    <3>4. Len(rob') <= RobSize
      BY <1>0, <1>1, <3>2, Sizes DEF RobGrows
    <3> QED BY <3>1, <3>3, <3>4
  <2>3. RobFlush(cause) => rob' = <<>> /\ nextIid' = 0
    BY RobStep
  <2> QED BY <2>1, <2>2, <2>3
<1>12. flush' \in FlushStates
  BY FlushStep
<1>13. asyncFlush' \in BOOLEAN /\ mispredStall' \in BOOLEAN
  BY Zenon DEF Step, StallEdge
<1>14. mispredIid' \in Iids \cup {None}
  <2>1. mispredIid' = IF RobFlush(cause) THEN None
                      ELSE IF cancel = {} THEN mispredIid
                      ELSE rob[CHOOSE i \in cancel : TRUE].iid
    BY Zenon DEF Step, StallEdge
  <2>2. ASSUME cancel # {} PROVE rob[CHOOSE i \in cancel : TRUE].iid \in Iids
    <3>1. PICK i \in DOMAIN rob : (CHOOSE c \in cancel : TRUE) = i
      BY <1>1, <2>2, CancelOne
    <3>2. rob[i] \in [iid : Iids, mispred : BOOLEAN]
      BY <1>0, ElementOfSeq DEF TypeOK
    <3> QED BY <3>1, <3>2
  <2> QED BY <1>0, <2>1, <2>2 DEF TypeOK
<1>15. pend' \subseteq Pregs
  <2>1. Create(k) \subseteq Pregs
    BY InfoStep
  <2> QED BY <1>0, <1>1, <1>3, <2>1 DEF TypeOK
<1> QED BY <1>2, <1>4, <1>6, <1>7, <1>8, <1>9, <1>10, <1>11, <1>12, <1>13, <1>14, <1>15
        DEF TypeOK

LEMMA IdsStep ==
    ASSUME IInv, NEW n, NEW cause, NEW cancel, NEW k, NEW e, NEW g, NEW s, NEW done,
           Step(n, cause, cancel, k, e, g, s, done)
    PROVE  IdsInOrder'
<1>0. /\ Len(rob) \in Nat /\ DOMAIN rob = 1 .. Len(rob) /\ Len(rob) <= RobSize
      /\ nextIid \in Iids /\ RobSize \in Nat /\ n \in 0 .. Len(rob)
  BY LenProperties, Sizes DEF IInv, TypeOK, Step
<1>1. CASE RobFlush(cause)
  <2>1. rob' = <<>> /\ DOMAIN <<>> = {}
    BY <1>1, RobStep
  <2> QED BY <2>1 DEF IdsInOrder
<1>2. CASE ~RobFlush(cause)
  <2>1. PICK w : RobGrows(n, cancel, k, e, w)
    BY <1>2, RobStep
  <2>2. /\ w \in 0 .. RobSize /\ Len(rob) + w <= RobSize /\ nextIid' = PlusIid(w)
        /\ Len(rob') = Len(rob) - n + w /\ DOMAIN rob' = 1 .. Len(rob')
        /\ \A i \in 1 .. Len(rob) - n : rob'[i].iid = rob[i + n].iid
        /\ \A i \in 1 .. w : rob'[Len(rob) - n + i].iid = PlusIid(i - 1)
    BY <2>1 DEF RobGrows
  <2>3. ASSUME NEW i \in DOMAIN rob'
        PROVE  rob'[i].iid = Behind(nextIid', Len(rob') + 1 - i)
    <3>0. i \in 1 .. Len(rob) - n + w
      BY <2>2
    <3>1. CASE i <= Len(rob) - n
      <4> DEFINE d == Len(rob) + 1 - (i + n)
      <4>1. i \in 1 .. Len(rob) - n /\ i + n \in DOMAIN rob
        BY <1>0, <3>0, <3>1
      <4>2. rob'[i].iid = Behind(nextIid, d)
        BY <2>2, <4>1 DEF IInv, IdsInOrder
      <4>3. d \in 0 .. RobSize /\ d + w <= RobSize /\ Len(rob') + 1 - i = d + w
        BY <1>0, <2>2, <3>0, <3>1
      <4> HIDE DEF d
      <4>4. Behind(PlusIid(w), d + w) = Behind(nextIid, d)
        BY <1>0, <2>2, <4>3, BehindPlus
      <4> QED BY <2>2, <4>2, <4>3, <4>4
    <3>2. CASE i > Len(rob) - n
      <4> DEFINE j == i - (Len(rob) - n)
                 d == j - 1
      <4>1. j \in 1 .. w /\ i = Len(rob) - n + j /\ d \in 0 .. RobSize /\ d <= w
            /\ Len(rob') + 1 - i = w - d
        BY <1>0, <2>2, <3>0, <3>2
      <4>2. rob'[i].iid = PlusIid(d)
        BY <2>2, <4>1
      <4> HIDE DEF d, j
      <4>3. Behind(PlusIid(w), w - d) = PlusIid(d)
        BY <1>0, <2>2, <4>1, BehindPlus
      <4> QED BY <2>2, <4>1, <4>2, <4>3
    <3> QED BY <1>0, <2>2, <3>0, <3>1, <3>2
  <2> QED BY <2>3 DEF IdsInOrder
<1> QED BY <1>1, <1>2

\* What a step of an outstanding flush leaves of the two queues.
LEMMA FlushEmpties ==
    ASSUME IInv, NEW n, NEW cause, NEW cancel, NEW k, NEW e, NEW g, NEW s, NEW done,
           Step(n, cause, cancel, k, e, g, s, done)
    PROVE  /\ flush # "IDLE" => rob' = <<>>
           /\ FlushBe => is' = <<>>
<1>0. /\ Len(rob) \in Nat /\ DOMAIN rob = 1 .. Len(rob) /\ RobSize \in Nat
      /\ n \in 0 .. Len(rob) /\ k \in 0 .. Len(is) /\ Len(is) \in Nat
      /\ (rob = <<>> => Len(rob) = 0) /\ (is = <<>> => Len(is) = 0)
      /\ flush \in FlushStates /\ (g # <<>> => Settled)
      /\ (g = <<>> => Len(g) = 0)
  BY LenProperties, EmptySeq, Sizes DEF IInv, TypeOK, Step
<1>1. /\ flush # "IDLE" => rob = <<>>
      /\ is # <<>> => (flush = "IDLE" /\ ~mispredStall) \/ FlushFe
  BY DEF IInv, FlushShape
<1>2. ASSUME flush # "IDLE" PROVE rob' = <<>>
  <2>1. CASE RobFlush(cause)
    BY <2>1, RobStep
  <2>2. CASE ~RobFlush(cause)
    <3>1. is = <<>> /\ rob = <<>>
      BY <1>1, <1>2, <2>2 DEF RobFlush, FlushFe
    <3>2. PICK w : RobGrows(n, cancel, k, e, w)
      BY <2>2, RobStep
    <3>3. k = 0 /\ Len(rob) = 0 /\ n = 0
      BY <1>0, <3>1
    <3>4. Len(rob') = 0
      BY <3>2, <3>3 DEF RobGrows
    <3>5. rob' \in Seq([iid : Iids, mispred : BOOLEAN])
      BY <2>2, RobStep
    <3> QED BY <3>4, <3>5, EmptySeq
  <2> QED BY <2>1, <2>2
<1>3. ASSUME FlushBe PROVE is' = <<>>
  <2>0. flush # "IDLE"
    BY <1>3 DEF FlushBe
  <2>1. CASE FlushFe \/ cancel # {}
    BY <2>1, IsStep
  <2>2. CASE ~(FlushFe \/ cancel # {})
    <3>1. is = <<>> /\ g = <<>>
      BY <1>0, <1>1, <2>0, <2>2 DEF Settled
    <3>2. is' \in Seq(Insts)
      BY IsStep
    <3>3. is' # <<>> => DOMAIN is' = 1 .. Len(is) - k + Len(g)
      BY IsStep
    <3>4. Len(is) - k + Len(g) = 0
      BY <1>0, <3>1
    <3>5. is' # <<>> => Len(is') \in Nat \ {0} /\ DOMAIN is' = 1 .. Len(is')
      BY <3>2, EmptySeq, LenProperties
    <3>6. is' # <<>> => 1 \in 1 .. 0
      BY <3>3, <3>4, <3>5
    <3> QED BY <3>6
  <2> QED BY <2>1, <2>2
<1> QED BY <1>2, <1>3

LEMMA ShapeStep ==
    ASSUME IInv, NEW n, NEW cause, NEW cancel, NEW k, NEW e, NEW g, NEW s, NEW done,
           Step(n, cause, cancel, k, e, g, s, done)
    PROVE  FlushShape'
<1>0. /\ Len(is) \in Nat /\ k \in 0 .. Len(is) /\ (is = <<>> => Len(is) = 0)
      /\ (g = <<>> => Len(g) = 0) /\ (g # <<>> => Settled)
      /\ cause \in {"none", "flush", "mispred", "debug"}
      /\ (cause = "mispred" => \E i \in DOMAIN rob : rob[i].mispred)
      /\ (cause \in {"flush", "mispred"} => flush = "IDLE")
  BY LenProperties, EmptySeq DEF IInv, TypeOK, Step
<1>1. ASSUME flush' # "IDLE" PROVE rob' = <<>>
  <2>1. CASE flush = "IDLE"
    <3>1. cause # "none"
      BY <1>1, <2>1, FlushStep
    <3> QED BY <3>1, RobStep DEF RobFlush
  <2>2. CASE flush # "IDLE"
    BY <2>2, FlushEmpties
  <2> QED BY <2>1, <2>2
<1>2. ASSUME is' # <<>>
      PROVE  (flush' = "IDLE" /\ ~mispredStall') \/ flush' \in {"FE", "FE_BE"}
  <2>1. ~FlushFe /\ cancel = {} /\ DOMAIN is' = 1 .. Len(is) - k + Len(g)
    BY <1>2, IsStep
  <2>2. is # <<>> \/ g # <<>>
    <3>1. is' # <<>> => Len(is') \in Nat \ {0} /\ DOMAIN is' = 1 .. Len(is')
      BY IsStep, EmptySeq, LenProperties
    <3>2. 1 \in 1 .. Len(is) - k + Len(g)
      <4>1. 1 \in DOMAIN is'
        BY <1>2, <3>1
      <4> QED BY <2>1, <4>1, Zenon
    <3>3. is = <<>> /\ g = <<>> => Len(is) - k + Len(g) = 0
      BY <1>0
    <3> QED BY <3>2, <3>3
  <2>3. Settled
    BY <1>0, <2>1, <2>2 DEF IInv, FlushShape, Settled
  <2>4. cause # "mispred"
    BY <1>0, <2>3 DEF Settled, IInv, MispredOldest
  <2>5. ~mispredStall'
    <3>1. mispredStall' = (~FlushBe /\ (mispredStall \/ cancel # {}))
      BY Zenon DEF Step, StallEdge
    <3> QED BY <2>1, <2>3, <3>1 DEF Settled
  <2> QED BY <1>0, <2>3, <2>4, <2>5, FlushStep DEF Settled
<1> QED BY <1>1, <1>2 DEF FlushShape, FlushFe

LEMMA MispredStep ==
    ASSUME IInv, NEW n, NEW cause, NEW cancel, NEW k, NEW e, NEW g, NEW s, NEW done,
           Step(n, cause, cancel, k, e, g, s, done)
    PROVE  MispredOldest'
<1> DEFINE marked == {i \in DOMAIN rob : rob[i].mispred}
<1>0. /\ Len(rob) \in Nat /\ DOMAIN rob = 1 .. Len(rob) /\ Len(rob) <= RobSize
      /\ nextIid \in Iids /\ RobSize \in Nat /\ n \in 0 .. Len(rob)
      /\ cancel \in Cancels(n)
      /\ (cause = "none" => \A i \in 1 .. n : ~rob[i].mispred)
      /\ mispredStall' = (~FlushBe /\ (mispredStall \/ cancel # {}))
      /\ mispredIid' = IF RobFlush(cause) THEN None
                       ELSE IF cancel = {} THEN mispredIid
                       ELSE rob[CHOOSE i \in cancel : TRUE].iid
  BY LenProperties, Sizes DEF IInv, TypeOK, Step, StallEdge
<1>1. SUFFICES ASSUME flush' = "IDLE"
      PROVE  LET mk == {i \in DOMAIN rob' : rob'[i].mispred}
             IN  /\ mispredStall' <=> mk # {}
                 /\ mispredStall' => \E i \in mk : /\ rob'[i].iid = mispredIid'
                                                  /\ \A j \in mk : i <= j
  BY Zenon DEF MispredOldest
<1>2. cause = "none" /\ (flush = "IDLE" \/ FlushBe)
  BY <1>1, FlushStep
<1> DEFINE mk == {i \in DOMAIN rob' : rob'[i].mispred}
<1>3. CASE FlushBe
  <2>1. rob' = <<>> /\ DOMAIN <<>> = {}
    BY <1>3, FlushEmpties DEF FlushBe
  <2>2. mk = {}
    BY <2>1
  <2> QED BY <1>0, <1>3, <2>2
<1>4. CASE flush = "IDLE" /\ ~FlushBe
  <2>0. ~RobFlush(cause)
    BY <1>2, <1>4 DEF RobFlush
  <2>1. PICK w : RobGrows(n, cancel, k, e, w)
    BY <2>0, RobStep
  <2>2. \A i \in DOMAIN rob' : rob'[i].mispred =>
           /\ i \in 1 .. Len(rob) - n /\ i + n \in DOMAIN rob
           /\ rob[i + n].mispred \/ i + n \in cancel
    <3>1. ASSUME NEW i \in DOMAIN rob', i > Len(rob) - n PROVE ~rob'[i].mispred
      <4>1. i - (Len(rob) - n) \in 1 .. w /\ i = Len(rob) - n + (i - (Len(rob) - n))
        BY <1>0, <2>1, <3>1 DEF RobGrows
      <4> QED BY <2>1, <4>1 DEF RobGrows
    <3>2. ASSUME NEW i \in DOMAIN rob', rob'[i].mispred
          PROVE  i \in 1 .. Len(rob) - n /\ i + n \in DOMAIN rob
      BY <1>0, <2>1, <3>1, <3>2 DEF RobGrows
    <3> QED BY <2>1, <3>2 DEF RobGrows
  <2>3. \A i \in DOMAIN rob : i > n =>
           /\ i - n \in DOMAIN rob' /\ rob'[i - n].iid = rob[i].iid
           /\ rob'[i - n].mispred = (rob[i].mispred \/ i \in cancel)
    <3>1. ASSUME NEW i \in DOMAIN rob, i > n
          PROVE  i - n \in 1 .. Len(rob) - n /\ i - n \in DOMAIN rob' /\ (i - n) + n = i
      BY <1>0, <2>1, <3>1 DEF RobGrows
    <3> QED BY <2>1, <3>1 DEF RobGrows
  <2>4. /\ mispredStall <=> marked # {}
        /\ mispredStall => \E i \in marked : /\ rob[i].iid = mispredIid
                                            /\ \A j \in marked : i <= j
    BY <1>4, Zenon DEF IInv, MispredOldest
  <2>5. \A i \in marked : i > n
    BY <1>0, <1>2
  <2>6. CASE cancel = {}
    <3>1. mispredStall' = mispredStall /\ mispredIid' = mispredIid
      BY <1>0, <1>4, <2>0, <2>6 DEF IInv, TypeOK
    <3>2. \A i \in mk : i + n \in marked /\ i \in Nat
      BY <1>0, <2>2, <2>6
    <3>3. \A i \in marked : i - n \in mk /\ rob'[i - n].iid = rob[i].iid
      BY <2>3, <2>5
    <3>4. mispredStall <=> mk # {}
      BY <2>4, <3>2, <3>3
    <3>5. ASSUME mispredStall
          PROVE  \E i \in mk : rob'[i].iid = mispredIid /\ \A j \in mk : i <= j
      <4>1. PICK i \in marked : rob[i].iid = mispredIid /\ \A j \in marked : i <= j
        BY <2>4, <3>5
      <4>2. i - n \in mk /\ rob'[i - n].iid = mispredIid
        BY <3>3, <4>1
      <4>3. \A j \in mk : i <= j + n /\ i \in Nat /\ j \in Nat
        BY <1>0, <3>2, <4>1
      <4>4. \A j \in mk : i - n <= j
        BY <1>0, <4>3
      <4> QED BY <4>2, <4>4
    <3> QED BY <3>1, <3>4, <3>5
  <2>7. CASE cancel # {}
    <3>1. PICK c \in DOMAIN rob : /\ cancel = {c} /\ c > n
                                  /\ (CHOOSE x \in cancel : TRUE) = c
                                  /\ mispredStall => Older(rob[c].iid, mispredIid)
      BY <1>0, <2>7, CancelOne
    <3>2. mispredStall' = TRUE /\ mispredIid' = rob[c].iid
      BY <1>0, <1>4, <2>0, <2>7, <3>1
    <3>3. c - n \in mk /\ rob'[c - n].iid = rob[c].iid
      BY <2>3, <3>1
    <3>4. ASSUME NEW j \in marked PROVE c < j
      <4>1. PICK m \in marked : rob[m].iid = mispredIid /\ \A x \in marked : m <= x
        BY <2>4
      <4>2. Older(rob[c].iid, rob[m].iid)
        BY <2>4, <3>1, <4>1
      <4> DEFINE dc == Len(rob) + 1 - c
                 dm == Len(rob) + 1 - m
      <4>3. rob[c].iid = Behind(nextIid, dc) /\ rob[m].iid = Behind(nextIid, dm)
        BY DEF IInv, IdsInOrder
      <4>4. dc \in 1 .. RobSize /\ dm \in 1 .. RobSize
        BY <1>0
      <4>5. (dc <= dm <=> m <= c) /\ c \in Nat /\ m \in Nat
        BY <1>0
      <4> HIDE DEF dc, dm
      <4>6. ~(dc <= dm)
        BY <1>0, <4>2, <4>3, <4>4, AgeOrder
      <4>7. m <= j /\ j \in Nat
        BY <1>0, <4>1
      <4> QED BY <4>5, <4>6, <4>7
    <3>5. \A j \in mk : c <= j + n /\ j \in Nat
      BY <1>0, <2>2, <3>1, <3>4
    <3>6. \A j \in mk : c - n <= j
      BY <1>0, <3>5
    <3> QED BY <3>2, <3>3, <3>6
  <2> QED BY <2>6, <2>7
<1> QED BY <1>2, <1>3, <1>4

\* Where the instructions of IS come from and go to: those not dispatched
\* stay, in order, and the renamed group comes behind them.
Kept(i, j, k) == j \in DOMAIN is /\ j > k /\ i = j - k /\ is'[i] = is[j]
Came(i, m, k, g) ==
    /\ m \in DOMAIN g /\ i = Len(is) - k + m
    /\ is'[i].dst = g[m] /\ (g[m] = None => is'[i].preg = None)
    /\ g[m] # None => /\ m \in Taken(g) /\ m \in Slots /\ slot[m] # None
                      /\ is'[i].preg = slot[m]
                      /\ is'[i].rel = IF LastWriter(g, m) = 0
                                      THEN rt[g[m]] ELSE slot[LastWriter(g, m)]

LEMMA IsMoves ==
    ASSUME IInv, NEW n, NEW cause, NEW cancel, NEW k, NEW e, NEW g, NEW s, NEW done,
           Step(n, cause, cancel, k, e, g, s, done)
    PROVE  /\ \A i \in DOMAIN is' : (\E j : Kept(i, j, k)) \/ (\E m : Came(i, m, k, g))
           /\ ~FlushFe /\ cancel = {} =>
                 /\ \A j \in DOMAIN is : j > k => j - k \in DOMAIN is' /\ Kept(j - k, j, k)
                 /\ \A m \in DOMAIN g : /\ Len(is) - k + m \in DOMAIN is'
                                        /\ Came(Len(is) - k + m, m, k, g)
<1>0. /\ Len(is) \in Nat /\ DOMAIN is = 1 .. Len(is) /\ k \in 0 .. Len(is) /\ Group(g)
      /\ Len(g) \in Nat /\ DOMAIN g = 1 .. Len(g) /\ Len(g) <= NSlots /\ NSlots \in Nat
  BY LenProperties, Sizes DEF IInv, TypeOK, Step, Group
<1>1. CASE FlushFe \/ cancel # {}
  <2>1. is' = <<>> /\ DOMAIN <<>> = {}
    BY <1>1, IsStep
  <2> QED BY <1>1, <2>1
<1>2. CASE ~FlushFe /\ cancel = {}
  <2>1. /\ DOMAIN is' = 1 .. Len(is) - k + Len(g)
        /\ \A i \in 1 .. Len(is) - k : is'[i] = is[i + k]
        /\ \A i \in 1 .. Len(g) : is'[Len(is) - k + i] = Renamed(g)[i]
    BY <1>2, IsStep
  <2>2. ASSUME NEW j \in DOMAIN is, j > k
        PROVE  j - k \in DOMAIN is' /\ Kept(j - k, j, k)
    <3>1. j - k \in 1 .. Len(is) - k /\ (j - k) + k = j /\ j - k \in DOMAIN is'
      BY <1>0, <2>1, <2>2
    <3>2. is'[j - k] = is[j]
      BY <2>1, <3>1
    <3> QED BY <2>2, <3>1, <3>2 DEF Kept
  <2>3. ASSUME NEW m \in DOMAIN g
        PROVE  Len(is) - k + m \in DOMAIN is' /\ Came(Len(is) - k + m, m, k, g)
    <3> DEFINE i == Len(is) - k + m
    <3>1. m \in 1 .. Len(g) /\ i \in DOMAIN is' /\ m \in Slots
      BY <1>0, <2>1 DEF Slots
    <3>2. is'[i] = Renamed(g)[m]
      BY <2>1, <3>1
    <3>3. /\ Renamed(g)[m].dst = g[m]
          /\ g[m] = None => Renamed(g)[m].preg = None
          /\ g[m] # None =>
                /\ Renamed(g)[m].preg = slot[m]
                /\ Renamed(g)[m].rel = IF LastWriter(g, m) = 0
                                       THEN rt[g[m]] ELSE slot[LastWriter(g, m)]
      BY <1>0, RenamedIs DEF IInv
    <3>4. g[m] # None => m \in Taken(g) /\ slot[m] # None
      BY <1>0 DEF Taken, Group
    <3>5. i = Len(is) - k + m
      OBVIOUS
    <3> HIDE DEF i
    <3>6. Came(i, m, k, g)
      BY <3>1, <3>2, <3>3, <3>4, <3>5 DEF Came
    <3> QED BY <3>1, <3>6 DEF i
  <2>4. ASSUME NEW i \in DOMAIN is'
        PROVE  (\E j : Kept(i, j, k)) \/ (\E m : Came(i, m, k, g))
    <3>0. i \in 1 .. Len(is) - k + Len(g)
      BY <2>1
    <3>1. CASE i <= Len(is) - k
      <4>1. i + k \in DOMAIN is /\ i + k > k /\ (i + k) - k = i
        BY <1>0, <3>0, <3>1
      <4>2. Kept((i + k) - k, i + k, k)
        BY <2>2, <4>1
      <4> QED BY <4>1, <4>2
    <3>2. CASE i > Len(is) - k
      <4> DEFINE m == i - (Len(is) - k)
      <4>1. m \in DOMAIN g /\ Len(is) - k + m = i
        BY <1>0, <3>0, <3>2
      <4> HIDE DEF m
      <4>2. Came(Len(is) - k + m, m, k, g)
        BY <2>3, <4>1
      <4> QED BY <4>1, <4>2
    <3> QED BY <1>0, <3>0, <3>1, <3>2
  <2> QED BY <2>2, <2>3, <2>4
<1> QED BY <1>1, <1>2

LEMMA HandedStep ==
    ASSUME IInv, NEW n, NEW cause, NEW cancel, NEW k, NEW e, NEW g, NEW s, NEW done,
           Step(n, cause, cancel, k, e, g, s, done)
    PROVE  HandedOut'
<1>1. CASE FlushBe
  <2>1. is' = <<>> /\ DOMAIN <<>> = {} /\ \A i \in Slots : slot'[i] = None
    BY <1>1, FlushEmpties, SlotStep
  <2> QED BY <2>1 DEF HandedOut
<1>2. CASE ~FlushBe
  <2>1. /\ slot' = s
        /\ \A i \in Slots : s[i] = slot[i] \/ s[i] \in Dealloc \cup {None}
        /\ \A i \in Taken(g) : s[i] \in Dealloc \cup {None}
        /\ \A i \in Slots : \A j \in Slots : s[i] # None /\ s[i] = s[j] => i = j
    BY <1>2, SlotStep
  <2>2. \A p \in Pregs : /\ life[p] = "WF_ALLOC" /\ p \notin Create(k) => life'[p] = "WF_ALLOC"
                         /\ life[p] = "DEALLOC" /\ p \in Grant(s) => life'[p] = "WF_ALLOC"
    BY <1>2, LifeStep
  <2>3. HandedOut /\ slot \in [Slots -> Pregs \cup {None}] /\ k \in 0 .. Len(is)
        /\ DOMAIN is = 1 .. Len(is) /\ Len(is) \in Nat
        /\ \A i \in DOMAIN is : is[i].preg \in Pregs \cup {None}
    <3>1. \A i \in 1 .. Len(is) : is[i] \in Insts
      BY ElementOfSeq DEF IInv, TypeOK
    <3> QED BY <3>1, LenProperties DEF IInv, TypeOK, Step, Insts
  <2>4. \A i \in Slots : slot[i] \notin Create(k)
    BY <2>3 DEF HandedOut, Create
  <2>5. \A j \in DOMAIN is : j > k => is[j].preg \notin Create(k)
    BY <2>3 DEF HandedOut, Create
  <2>6. ASSUME NEW i \in Slots, slot'[i] # None PROVE life'[slot'[i]] = "WF_ALLOC"
    <3>1. CASE s[i] = slot[i]
      BY <2>1, <2>2, <2>3, <2>4, <2>6, <3>1 DEF HandedOut
    <3>2. CASE s[i] \in Dealloc
      BY <2>1, <2>2, <2>6, <3>2 DEF Grant, Dealloc
    <3> QED BY <2>1, <2>6, <3>1, <3>2
  <2>7. ASSUME NEW i \in DOMAIN is'
        PROVE  /\ is'[i].dst = None <=> is'[i].preg = None
               /\ is'[i].preg # None =>
                     /\ life'[is'[i].preg] = "WF_ALLOC"
                     /\ \A j \in DOMAIN is' : is'[i].preg = is'[j].preg => i = j
                     /\ \A j \in Slots : is'[i].preg # slot'[j]
    <3>1. ASSUME NEW x, Kept(i, x, k)
          PROVE  /\ is'[i].dst = None <=> is'[i].preg = None
                 /\ is'[i].preg # None =>
                       /\ life'[is'[i].preg] = "WF_ALLOC"
                       /\ \A j \in DOMAIN is' : is'[i].preg = is'[j].preg => i = j
                       /\ \A j \in Slots : is'[i].preg # slot'[j]
      <4>1. /\ x \in DOMAIN is /\ x > k /\ i = x - k /\ is'[i] = is[x]
        BY <3>1 DEF Kept
      <4>2. is'[i].dst = None <=> is'[i].preg = None
        BY <2>3, <4>1 DEF HandedOut
      <4>3. ASSUME is'[i].preg # None
            PROVE  life'[is'[i].preg] = "WF_ALLOC"
        BY <2>2, <2>3, <2>5, <4>1, <4>3 DEF HandedOut
      <4>4. ASSUME is'[i].preg # None, NEW j \in DOMAIN is', is'[i].preg = is'[j].preg
            PROVE  i = j
        <5>1. ASSUME NEW y, Kept(j, y, k) PROVE i = j
          BY <2>3, <4>1, <4>4, <5>1 DEF HandedOut, Kept
        <5>2. ASSUME NEW m, Came(j, m, k, g) PROVE FALSE
          BY <2>3, <4>1, <4>4, <5>2 DEF HandedOut, Came
        <5> QED BY <5>1, <5>2, IsMoves
      <4>5. ASSUME is'[i].preg # None, NEW j \in Slots PROVE is'[i].preg # slot'[j]
        BY <2>1, <2>3, <4>1, <4>5 DEF HandedOut, Dealloc
      <4> QED BY <4>2, <4>3, <4>4, <4>5
    <3>2. ASSUME NEW x, Came(i, x, k, g)
          PROVE  /\ is'[i].dst = None <=> is'[i].preg = None
                 /\ is'[i].preg # None =>
                       /\ life'[is'[i].preg] = "WF_ALLOC"
                       /\ \A j \in DOMAIN is' : is'[i].preg = is'[j].preg => i = j
                       /\ \A j \in Slots : is'[i].preg # slot'[j]
      <4>1. is'[i].dst = None <=> is'[i].preg = None
        BY <3>2 DEF Came
      <4>2. is'[i].preg # None => /\ x \in Slots /\ is'[i].preg = slot[x] /\ x \in Taken(g)
                                  /\ slot[x] # None
        BY <3>2 DEF Came
      <4>3. ASSUME is'[i].preg # None
            PROVE  life'[is'[i].preg] = "WF_ALLOC"
        BY <2>2, <2>3, <2>4, <4>2, <4>3 DEF HandedOut
      <4>4. ASSUME is'[i].preg # None, NEW j \in DOMAIN is', is'[i].preg = is'[j].preg
            PROVE  i = j
        <5>1. ASSUME NEW y, Kept(j, y, k) PROVE FALSE
          BY <2>3, <4>2, <4>4, <5>1 DEF HandedOut, Kept
        <5>2. ASSUME NEW m, Came(j, m, k, g) PROVE i = j
          BY <2>3, <3>2, <4>2, <4>4, <5>2 DEF HandedOut, Came
        <5> QED BY <5>1, <5>2, IsMoves
      <4>5. ASSUME is'[i].preg # None, NEW j \in Slots PROVE is'[i].preg # slot'[j]
        BY <2>1, <2>3, <4>2, <4>5 DEF HandedOut, Dealloc
      <4> QED BY <4>1, <4>3, <4>4, <4>5
    <3> QED BY <3>1, <3>2, IsMoves
  <2> QED BY <2>1, <2>6, <2>7 DEF HandedOut
<1> QED BY <1>1, <1>2

\* A preg on offer is nobody's replaced preg and not in the rename table.
LEMMA OfferIsFresh ==
    ASSUME IInv, NEW l \in Slots, slot[l] # None
    PROVE  /\ slot[l] \in Pregs
           /\ \A p \in Pregs : life[p] = "ALLOC" => rel[p] # slot[l]
           /\ \A i \in DOMAIN is : is[i].dst # None => is[i].rel # slot[l]
           /\ \A a \in ARegs : rt[a] # slot[l]
<1>1. slot[l] \in Pregs /\ life[slot[l]] = "WF_ALLOC" /\ ~Live(slot[l])
      /\ slot[l] \in Offers
  BY DEF IInv, TypeOK, HandedOut, Live, Offers
<1>2. \A i \in DOMAIN is : is[i].preg # slot[l]
  BY DEF IInv, HandedOut
<1>3. \A p \in Pregs : life[p] = "ALLOC" => rel[p] # slot[l]
  BY <1>1 DEF IInv, FlightChain
<1>4. \A i \in DOMAIN is : is[i].dst # None => is[i].rel # slot[l]
  BY <1>1, <1>2 DEF IInv, IsChain
<1>5. \A a \in ARegs : rt[a] # slot[l]
  BY <1>1 DEF IInv, TableHead
<1> QED BY <1>1, <1>3, <1>4, <1>5

LEMMA TableInjective ==
    ASSUME IInv, Settled, NEW a \in ARegs, NEW b \in ARegs, rt[a] = rt[b]
    PROVE  a = b
<1>1. \A c \in ARegs : \/ Live(rt[c]) /\ dst[rt[c]] = c
                       \/ \E i \in DOMAIN is : is[i].preg = rt[c] /\ is[i].dst = c
  BY DEF IInv, TableHead
<1>2. \A i \in DOMAIN is : \A c \in ARegs :
         is[i].preg = rt[c] => /\ ~Live(rt[c])
                               /\ \A j \in DOMAIN is : is[j].preg = rt[c] => i = j
  <2>1. \A c \in ARegs : rt[c] # None
    BY PstAssumption DEF IInv, TypeOK
  <2> QED BY <2>1 DEF IInv, HandedOut, Live
<1> QED BY <1>1, <1>2

LiveNext(p) == life'[p] \in {"ALLOC", "RETIRE"}

\* A back-end flush leaves what is committed.
LEMMA BackEndStep ==
    ASSUME IInv, NEW n, NEW cause, NEW cancel, NEW k, NEW e, NEW g, NEW s, NEW done,
           Step(n, cause, cancel, k, e, g, s, done), FlushBe
    PROVE  /\ \A p \in Pregs : /\ life'[p] # "ALLOC" /\ life'[p] # "WF_ALLOC"
                               /\ life'[p] = "RETIRE" <=> life[p] = "RETIRE"
                               /\ life[p] = "RETIRE" => dst'[p] = dst[p]
           /\ is' = <<>> /\ DOMAIN is' = {} /\ \A i \in Slots : slot'[i] = None
           /\ rt' = RecoverTable
<1>1. \A p \in Pregs : /\ life'[p] # "ALLOC" /\ life'[p] # "WF_ALLOC"
                       /\ life'[p] = "RETIRE" <=> life[p] = "RETIRE"
  BY LifeStep
<1>2. ASSUME NEW p \in Pregs, life[p] = "RETIRE" PROVE dst'[p] = dst[p]
  <2>1. p \notin Create(k)
    BY <1>2, InfoStep
  <2> QED BY <1>1, <1>2, <2>1, InfoStep
<1>3. is' = <<>> /\ \A i \in Slots : slot'[i] = None
  BY FlushEmpties, SlotStep
<1>4. DOMAIN is' = {}
  <2>1. DOMAIN <<>> = {}
    OBVIOUS
  <2> QED BY <1>3, <2>1
<1>5. rt' = RecoverTable
  BY Zenon DEF Step, Moves
<1> QED BY <1>1, <1>2, <1>3, <1>4, <1>5

\* A writer in flight after any other edge was dispatched at it, or was in
\* flight before and does not retire.
Dispatched(p, m, k, e) ==
    /\ m \in 1 .. k /\ m \in DOMAIN is /\ is[m].preg = p /\ is[m].dst # None
    /\ is[m].dst \in ARegs /\ life[p] = "WF_ALLOC"
    /\ rel'[p] = is[m].rel /\ dst'[p] = is[m].dst /\ iid'[p] = PlusIid(e[m])
Remains(p, n, k) ==
    /\ life[p] = "ALLOC" /\ p \notin Retiring(n) /\ p \notin Create(k)
    /\ rel'[p] = rel[p] /\ dst'[p] = dst[p] /\ iid'[p] = iid[p]

LEMMA FlightStep ==
    ASSUME IInv, NEW n, NEW cause, NEW cancel, NEW k, NEW e, NEW g, NEW s, NEW done,
           Step(n, cause, cancel, k, e, g, s, done), ~FlushBe
    PROVE  /\ \A p \in Pregs : life'[p] = "ALLOC" =>
                 (\E m : Dispatched(p, m, k, e)) \/ Remains(p, n, k)
           /\ \A m \in 1 .. k : is[m].dst # None =>
                 /\ is[m].preg \in Pregs /\ life'[is[m].preg] = "ALLOC"
                 /\ Dispatched(is[m].preg, m, k, e)
           /\ \A p \in Pregs : Live(p) /\ p \notin Released(n) =>
                 LiveNext(p) /\ dst'[p] = dst[p] /\ p \notin Create(k)
           /\ \A p \in Pregs : LiveNext(p) => p \in Create(k) \/ Live(p)
<1>0. /\ \A p \in Pregs :
            /\ life'[p] = "ALLOC" <=>
                  p \in Create(k) \/ (life[p] = "ALLOC" /\ p \notin Retiring(n))
            /\ life'[p] = "RETIRE" <=>
                  (life[p] = "RETIRE" \/ p \in Retiring(n)) /\ p \notin Released(n)
      /\ \A p \in Retiring(n) : p \in Pregs /\ life[p] = "ALLOC"
      /\ \A p \in Released(n) : /\ p \in Pregs /\ Live(p)
                                /\ life[p] = "ALLOC" => p \in Retiring(n)
  <2>1. n \in 0 .. Len(rob) /\ (flush # "IDLE" => n = 0)
    BY Zenon DEF Step
  <2>2. /\ \A p \in Retiring(n) : p \in Pregs /\ life[p] = "ALLOC"
        /\ \A p \in Released(n) : /\ p \in Pregs /\ Live(p)
                                  /\ life[p] = "ALLOC" => p \in Retiring(n)
    BY <2>1, ReleasedRetire
  <2>3. \A p \in Pregs :
            /\ life'[p] = "ALLOC" <=>
                  p \in Create(k) \/ (life[p] = "ALLOC" /\ p \notin Retiring(n))
            /\ life'[p] = "RETIRE" <=>
                  (life[p] = "RETIRE" \/ p \in Retiring(n)) /\ p \notin Released(n)
    BY LifeStep
  <2> QED BY <2>2, <2>3
<1>1. /\ DOMAIN is = 1 .. Len(is) /\ Len(is) \in Nat /\ k \in 0 .. Len(is)
      /\ \A m \in DOMAIN is : /\ is[m].dst \in ARegs \cup {None}
                              /\ is[m].preg \in Pregs \cup {None}
                              /\ is[m].dst = None <=> is[m].preg = None
                              /\ is[m].preg # None => life[is[m].preg] = "WF_ALLOC"
  <2>1. \A m \in 1 .. Len(is) : is[m] \in Insts
    BY ElementOfSeq DEF IInv, TypeOK
  <2>2. DOMAIN is = 1 .. Len(is) /\ Len(is) \in Nat /\ k \in 0 .. Len(is)
    BY LenProperties DEF IInv, TypeOK, Step
  <2> QED BY <2>1, <2>2 DEF Insts, IInv, HandedOut
<1>2. ASSUME NEW m \in 1 .. k, is[m].dst # None
      PROVE  /\ is[m].preg \in Pregs /\ life'[is[m].preg] = "ALLOC"
             /\ Dispatched(is[m].preg, m, k, e)
  <2>1. m \in DOMAIN is /\ is[m].preg # None /\ is[m].preg \in Pregs
        /\ is[m].dst \in ARegs /\ life[is[m].preg] = "WF_ALLOC"
    BY <1>1, <1>2
  <2>2. /\ is[m].preg \in Create(k) /\ iid'[is[m].preg] = PlusIid(e[m])
        /\ dst'[is[m].preg] = is[m].dst /\ rel'[is[m].preg] = is[m].rel
    BY <2>1, InfoStep
  <2>3. life'[is[m].preg] = "ALLOC"
    BY <1>0, <2>1, <2>2
  <2> QED BY <1>2, <2>1, <2>2, <2>3 DEF Dispatched
<1>3. ASSUME NEW p \in Pregs, life'[p] = "ALLOC"
      PROVE  (\E m : Dispatched(p, m, k, e)) \/ Remains(p, n, k)
  <2>1. CASE p \in Create(k)
    <3>1. PICK m \in 1 .. k : is[m].preg = p /\ p # None
      BY <2>1 DEF Create
    <3>2. is[m].dst # None
      BY <1>1, <3>1
    <3> QED BY <1>2, <3>1, <3>2
  <2>2. CASE p \notin Create(k)
    BY <1>0, <1>3, <2>2, InfoStep DEF Remains
  <2> QED BY <2>1, <2>2
<1>4. ASSUME NEW p \in Pregs, Live(p), p \notin Released(n)
      PROVE  LiveNext(p) /\ dst'[p] = dst[p] /\ p \notin Create(k)
  <2>1. p \notin Create(k)
    BY <1>4, InfoStep DEF Live
  <2>2. LiveNext(p)
    BY <1>0, <1>4, <2>1 DEF Live, LiveNext
  <2> QED BY <2>1, <2>2, InfoStep DEF LiveNext
<1>5. \A p \in Pregs : LiveNext(p) => p \in Create(k) \/ Live(p)
  BY <1>0 DEF Live, LiveNext
<1> QED BY <1>2, <1>3, <1>4, <1>5

\* A preg that no writer in flight replaces is not released.
LEMMA NotReleased ==
    ASSUME IInv, NEW n, NEW p, \A q \in Pregs : life[q] = "ALLOC" => rel[q] # p
    PROVE  p \notin Released(n)
BY DEF Released, Retiring

\* The preg an instruction of IS replaces is live once what stands before it
\* has been dispatched.
LEMMA ParentStep ==
    ASSUME IInv, NEW n, NEW cause, NEW cancel, NEW k, NEW e, NEW g, NEW s, NEW done,
           Step(n, cause, cancel, k, e, g, s, done), ~FlushBe,
           NEW i \in DOMAIN is, is[i].dst # None
    PROVE  /\ is[i].rel \in Pregs
           /\ \/ LiveNext(is[i].rel) /\ dst'[is[i].rel] = is[i].dst
              \/ \E j \in DOMAIN is : /\ j > k /\ j < i
                                      /\ is[j].preg = is[i].rel /\ is[j].dst = is[i].dst
<1>1. /\ is[i].rel \in Pregs
      /\ \/ Live(is[i].rel) /\ dst[is[i].rel] = is[i].dst
         \/ \E j \in DOMAIN is : j < i /\ is[j].preg = is[i].rel /\ is[j].dst = is[i].dst
      /\ \A p \in Pregs : life[p] = "ALLOC" => rel[p] # is[i].rel
  BY DEF IInv, IsChain
<1>2. CASE Live(is[i].rel) /\ dst[is[i].rel] = is[i].dst
  <2>1. is[i].rel \notin Released(n)
    BY <1>1, NotReleased
  <2> QED BY <1>1, <1>2, <2>1, FlightStep
<1>3. ASSUME NEW j \in DOMAIN is, j < i, is[j].preg = is[i].rel, is[j].dst = is[i].dst
      PROVE  \/ LiveNext(is[i].rel) /\ dst'[is[i].rel] = is[i].dst
             \/ j > k
  <2>1. DOMAIN is = 1 .. Len(is) /\ Len(is) \in Nat /\ k \in 0 .. Len(is)
    BY LenProperties DEF IInv, TypeOK, Step
  <2>2. CASE j <= k
    <3>1. j \in 1 .. k /\ is[j].dst # None
      BY <1>3, <2>1, <2>2
    <3>2. life'[is[j].preg] = "ALLOC" /\ Dispatched(is[j].preg, j, k, e)
      BY <3>1, FlightStep
    <3> QED BY <1>3, <3>2 DEF Dispatched, LiveNext
  <2> QED BY <2>1, <2>2
<1> QED BY <1>1, <1>2, <1>3

LEMMA FlightChainStep ==
    ASSUME IInv, NEW n, NEW cause, NEW cancel, NEW k, NEW e, NEW g, NEW s, NEW done,
           Step(n, cause, cancel, k, e, g, s, done)
    PROVE  FlightChain'
<1>1. CASE FlushBe
  BY <1>1, BackEndStep DEF FlightChain
<1>2. CASE ~FlushBe
  <2>0. FlightChain /\ IsChain
    BY DEF IInv
  <2>1. \A p \in Pregs : life'[p] = "ALLOC" =>
           (\E m : Dispatched(p, m, k, e)) \/ Remains(p, n, k)
    BY <1>2, FlightStep
  <2>2. ASSUME NEW p \in Pregs, life'[p] = "ALLOC"
        PROVE  rel'[p] \in Pregs /\ LiveNext(rel'[p]) /\ dst'[rel'[p]] = dst'[p]
    <3>1. ASSUME NEW m, Dispatched(p, m, k, e)
          PROVE  rel'[p] \in Pregs /\ LiveNext(rel'[p]) /\ dst'[rel'[p]] = dst'[p]
      <4>1. /\ m \in 1 .. k /\ m \in DOMAIN is /\ is[m].dst # None
            /\ rel'[p] = is[m].rel /\ dst'[p] = is[m].dst
        BY <3>1 DEF Dispatched
      <4>2. /\ is[m].rel \in Pregs
            /\ \/ LiveNext(is[m].rel) /\ dst'[is[m].rel] = is[m].dst
               \/ \E j \in DOMAIN is : j > k /\ j < m
        BY <1>2, <4>1, ParentStep
      <4>3. \A j \in DOMAIN is : ~(j > k /\ j < m)
        <5>1. DOMAIN is = 1 .. Len(is) /\ Len(is) \in Nat /\ k \in 0 .. Len(is)
          BY LenProperties DEF IInv, TypeOK, Step
        <5> QED BY <4>1, <5>1
      <4> QED BY <4>1, <4>2, <4>3
    <3>2. ASSUME Remains(p, n, k)
          PROVE  rel'[p] \in Pregs /\ LiveNext(rel'[p]) /\ dst'[rel'[p]] = dst'[p]
      <4>1. /\ life[p] = "ALLOC" /\ p \notin Retiring(n)
            /\ rel'[p] = rel[p] /\ dst'[p] = dst[p]
        BY <3>2 DEF Remains
      <4>2. /\ rel[p] \in Pregs /\ Live(rel[p]) /\ dst[rel[p]] = dst[p]
            /\ \A q \in Pregs : life[q] = "ALLOC" /\ rel[q] = rel[p] => q = p
        BY <2>0, <4>1 DEF FlightChain
      <4>3. rel[p] \notin Released(n)
        BY <4>1, <4>2 DEF Released, Retiring
      <4>4. LiveNext(rel[p]) /\ dst'[rel[p]] = dst[rel[p]]
        BY <1>2, <4>2, <4>3, FlightStep
      <4> QED BY <4>1, <4>2, <4>4
    <3> QED BY <2>1, <2>2, <3>1, <3>2
  <2>3. ASSUME NEW p \in Pregs, life'[p] = "ALLOC",
               NEW q \in Pregs, life'[q] = "ALLOC", rel'[q] = rel'[p]
        PROVE  q = p
    <3>1. ASSUME NEW i, NEW j, Dispatched(p, i, k, e), Dispatched(q, j, k, e)
          PROVE  q = p
      BY <2>0, <2>3, <3>1 DEF Dispatched, IsChain
    <3>2. ASSUME NEW i, Dispatched(p, i, k, e), Remains(q, n, k)
          PROVE  FALSE
      BY <2>0, <2>3, <3>2 DEF Dispatched, Remains, IsChain
    <3>3. ASSUME NEW j, Remains(p, n, k), Dispatched(q, j, k, e)
          PROVE  FALSE
      BY <2>0, <2>3, <3>3 DEF Dispatched, Remains, IsChain
    <3>4. ASSUME Remains(p, n, k), Remains(q, n, k)
          PROVE  q = p
      BY <2>0, <2>3, <3>4 DEF Remains, FlightChain
    <3> QED BY <2>1, <2>3, <3>1, <3>2, <3>3, <3>4
  <2> QED BY <2>2, <2>3 DEF FlightChain, Live, LiveNext
<1> QED BY <1>1, <1>2

LEMMA CommittedStep ==
    ASSUME IInv, NEW n, NEW cause, NEW cancel, NEW k, NEW e, NEW g, NEW s, NEW done,
           Step(n, cause, cancel, k, e, g, s, done)
    PROVE  OneCommitted'
<1>0. OneCommitted /\ FlightChain
  BY DEF IInv
<1>1. CASE FlushBe
  <2>1. \A p \in Pregs : /\ life'[p] # "ALLOC" /\ life'[p] # "WF_ALLOC"
                         /\ life'[p] = "RETIRE" <=> life[p] = "RETIRE"
                         /\ life[p] = "RETIRE" => dst'[p] = dst[p]
    BY <1>1, BackEndStep
  <2>2. \A a \in ARegs : Committed(a)' = Committed(a)
    BY <2>1 DEF Committed
  <2>3. \A p \in Pregs : Live(p)' => dst'[p] \in ARegs
    BY <1>0, <2>1 DEF OneCommitted, Live
  <2> QED BY <1>0, <2>2, <2>3 DEF OneCommitted
<1>2. CASE ~FlushBe
  <2>1. ASSUME NEW p \in Pregs, LiveNext(p) PROVE dst'[p] \in ARegs
    <3>1. CASE life'[p] = "ALLOC"
      <4>1. ASSUME NEW m, Dispatched(p, m, k, e) PROVE dst'[p] \in ARegs
        BY <4>1 DEF Dispatched
      <4>2. ASSUME Remains(p, n, k) PROVE dst'[p] \in ARegs
        BY <1>0, <4>2 DEF Remains, OneCommitted, Live
      <4> QED BY <1>2, <3>1, <4>1, <4>2, FlightStep
    <3>2. CASE life'[p] = "RETIRE"
      <4>1. (life[p] = "RETIRE" \/ p \in Retiring(n)) /\ p \notin Released(n)
        BY <1>2, <3>2, LifeStep
      <4>2. Live(p) /\ p \notin Released(n)
        BY <4>1 DEF Live, Retiring
      <4>3. dst'[p] = dst[p]
        BY <1>2, <4>2, FlightStep
      <4> QED BY <1>0, <4>2, <4>3 DEF OneCommitted
    <3> QED BY <2>1, <3>1, <3>2 DEF LiveNext
  <2>2. ASSUME NEW a \in ARegs PROVE \E c \in Pregs : Committed(a)' = {c}
    <3>1. PICK c \in Pregs : Committed(a) = {c}
      BY <1>0 DEF OneCommitted
    <3> DEFINE R == {p \in Retiring(n) : dst[p] = a}
               f == [p \in R |-> rel[p]]
               T == {f[x] : x \in R}
    <3>2. /\ \A p \in Retiring(n) : p \in Pregs /\ life[p] = "ALLOC"
          /\ \A p \in Released(n) : life[p] = "ALLOC" => p \in Retiring(n)
      <4>1. n \in 0 .. Len(rob) /\ (flush # "IDLE" => n = 0)
        BY Zenon DEF Step
      <4> QED BY <4>1, ReleasedRetire
    <3>3. IsFiniteSet(R)
      <4>1. R \subseteq Pregs
        BY <3>2
      <4> HIDE DEF R
      <4> QED BY <4>1, PstAssumption, FS_Subset
    <3>4. c \notin R /\ life[c] = "RETIRE" /\ dst[c] = a
      BY <3>1, <3>2 DEF Committed
    <3>5. ASSUME NEW p \in R PROVE rel[p] \in R \cup {c}
      <4>1. p \in Pregs /\ life[p] = "ALLOC" /\ dst[p] = a /\ p \in Retiring(n)
        BY <3>2
      <4>2. rel[p] \in Pregs /\ Live(rel[p]) /\ dst[rel[p]] = a /\ rel[p] \in Released(n)
        BY <1>0, <4>1 DEF FlightChain, Released
      <4>3. CASE life[rel[p]] = "RETIRE"
        BY <3>1, <4>2, <4>3 DEF Committed
      <4>4. CASE life[rel[p]] = "ALLOC"
        BY <3>2, <4>2, <4>4
      <4> QED BY <4>2, <4>3, <4>4 DEF Live
    <3>6. f \in [R -> R \cup {c}] /\ \A x, y \in R : f[x] = f[y] => x = y
      <4>1. \A x, y \in R : rel[x] = rel[y] => x = y
        BY <1>0, <3>2 DEF FlightChain
      <4> QED BY <3>5, <4>1
    <3>7. PICK u \in R \cup {c} : (R \cup {c}) \ T = {u}
      <4> HIDE DEF R, f
      <4> QED BY <3>3, <3>4, <3>6, OneLeftOut
    <3>8. \A p \in R \cup {c} : p \in Released(n) <=> p \in T
      <4>1. T = {rel[x] : x \in R}
        OBVIOUS
      <4>2. ASSUME NEW p \in R \cup {c}, p \in Released(n) PROVE p \in {rel[x] : x \in R}
        <5>1. PICK q \in Retiring(n) : p = rel[q]
          BY <4>2 DEF Released
        <5>2. dst[q] = dst[p] /\ dst[p] = a
          BY <1>0, <3>2, <3>4, <5>1 DEF FlightChain
        <5> QED BY <5>1, <5>2
      <4>3. \A x \in R : rel[x] \in Released(n)
        BY DEF Released
      <4> QED BY <4>1, <4>2, <4>3
    <3>9. \A p \in Pregs : p \in Committed(a)' <=> p \in R \cup {c} /\ p \notin Released(n)
      <4>1. ASSUME NEW p \in Pregs, p \in R \cup {c}, p \notin Released(n)
            PROVE  life'[p] = "RETIRE" /\ dst'[p] = a
        <5>1. life'[p] = "RETIRE" /\ Live(p)
          BY <1>2, <3>2, <3>4, <4>1, LifeStep DEF Live
        <5>2. dst'[p] = dst[p]
          BY <1>2, <4>1, <5>1, FlightStep
        <5> QED BY <3>4, <4>1, <5>1, <5>2
      <4>2. ASSUME NEW p \in Pregs, life'[p] = "RETIRE", dst'[p] = a
            PROVE  p \in R \cup {c} /\ p \notin Released(n)
        <5>1. (life[p] = "RETIRE" \/ p \in Retiring(n)) /\ p \notin Released(n)
          BY <1>2, <4>2, LifeStep
        <5>2. Live(p)
          BY <5>1 DEF Live, Retiring
        <5>3. dst[p] = a
          BY <1>2, <4>2, <5>1, <5>2, FlightStep
        <5>4. life[p] = "RETIRE" => p = c
          BY <3>1, <5>3 DEF Committed
        <5> QED BY <5>1, <5>3, <5>4
      <4> QED BY <4>1, <4>2 DEF Committed
    <3>10. R \cup {c} \subseteq Pregs
      BY <3>2
    <3>11. Committed(a)' \subseteq Pregs
      BY DEF Committed
    <3> HIDE DEF R, T
    <3>12. Committed(a)' = {u} /\ u \in Pregs
      BY <3>7, <3>8, <3>9, <3>10, <3>11
    <3> QED BY <3>12
  <2> QED BY <2>1, <2>2 DEF OneCommitted, Live, LiveNext
<1> QED BY <1>1, <1>2

LEMMA RobChainStep ==
    ASSUME IInv, NEW n, NEW cause, NEW cancel, NEW k, NEW e, NEW g, NEW s, NEW done,
           Step(n, cause, cancel, k, e, g, s, done)
    PROVE  RobChain'
<1>1. SUFFICES ASSUME flush' = "IDLE"
      PROVE  \A p \in Pregs : life'[p] = "ALLOC" =>
                /\ \E i \in DOMAIN rob' : rob'[i].iid = iid'[p]
                /\ life'[rel'[p]] = "ALLOC" =>
                      \A i \in DOMAIN rob' : rob'[i].iid = iid'[p] =>
                          \E j \in 1 .. i : rob'[j].iid = iid'[rel'[p]]
  BY Zenon DEF RobChain
<1>2. cause = "none" /\ (flush = "IDLE" \/ FlushBe)
  BY <1>1, FlushStep
<1>3. CASE FlushBe
  BY <1>3, BackEndStep
<1>4. CASE flush = "IDLE" /\ ~FlushBe
  <2>0. /\ ~RobFlush(cause) /\ IsChain /\ FlightChain
        /\ \A p \in Pregs : life[p] = "ALLOC" =>
             /\ \E i \in DOMAIN rob : rob[i].iid = iid[p]
             /\ life[rel[p]] = "ALLOC" =>
                   \A i \in DOMAIN rob : rob[i].iid = iid[p] =>
                       \E j \in 1 .. i : rob[j].iid = iid[rel[p]]
    BY <1>2, <1>4 DEF RobFlush, IInv, RobChain
  <2>1. PICK w : RobGrows(n, cancel, k, e, w)
    BY <2>0, RobStep
  <2>2. /\ Len(rob) \in Nat /\ DOMAIN rob = 1 .. Len(rob) /\ n \in 0 .. Len(rob)
        /\ k \in 0 .. Len(is) /\ Len(is) \in Nat /\ e \in Foldings(k)
        /\ DOMAIN is = 1 .. Len(is) /\ k \in Nat
    BY LenProperties DEF IInv, TypeOK, Step
  <2>3. /\ w \in 0 .. RobSize /\ DOMAIN rob' = 1 .. Len(rob) - n + w
        /\ \A m \in 1 .. k : e[m] + 1 \in 1 .. w
        /\ \A i \in 1 .. Len(rob) - n : rob'[i].iid = rob[i + n].iid
        /\ \A i \in 1 .. w : rob'[Len(rob) - n + i].iid = PlusIid(i - 1)
    BY <2>1 DEF RobGrows
  <2>4. \A i \in DOMAIN rob' : \A j \in DOMAIN rob' : rob'[i].iid = rob'[j].iid => i = j
    <3>1. TypeOK' /\ IdsInOrder'
      BY TypeStep, IdsStep
    <3>2. /\ nextIid' \in Iids /\ Len(rob') \in Nat /\ Len(rob') <= RobSize
          /\ DOMAIN rob' = 1 .. Len(rob') /\ RobSize \in Nat
          /\ \A i \in DOMAIN rob' : rob'[i].iid = Behind(nextIid', Len(rob') + 1 - i)
      BY <3>1, LenProperties, Sizes DEF TypeOK, IdsInOrder
    <3>3. ASSUME NEW i \in DOMAIN rob', NEW j \in DOMAIN rob', rob'[i].iid = rob'[j].iid
          PROVE  i = j
      <4> DEFINE c == Len(rob') + 1 - i
                 d == Len(rob') + 1 - j
      <4>1. c \in 1 .. RobSize /\ d \in 1 .. RobSize /\ (d = c => i = j)
        BY <3>2
      <4>2. Behind(nextIid', d) = Behind(nextIid', c)
        BY <3>2, <3>3
      <4> HIDE DEF c, d
      <4>3. d = c
        BY <3>2, <4>1, <4>2, AgeOrder
      <4> QED BY <4>1, <4>3
    <3> QED BY <3>3
  \* Where the entries of those before and of the dispatched are now.
  <2>5. ASSUME NEW p \in Pregs, p \notin Retiring(n), life[p] = "ALLOC",
               NEW i \in DOMAIN rob, rob[i].iid = iid[p]
        PROVE  /\ i - n \in 1 .. Len(rob) - n /\ i - n \in DOMAIN rob'
               /\ rob'[i - n].iid = iid[p]
    <3>1. ~(i \in 1 .. n)
      BY <2>5 DEF Retiring
    <3>2. i - n \in 1 .. Len(rob) - n /\ (i - n) + n = i /\ i - n \in DOMAIN rob'
      BY <2>2, <2>3, <3>1
    <3> QED BY <2>3, <2>5, <3>2
  <2>6. ASSUME NEW m \in 1 .. k
        PROVE  /\ Len(rob) - n + (e[m] + 1) \in DOMAIN rob' /\ e[m] \in Nat
               /\ rob'[Len(rob) - n + (e[m] + 1)].iid = PlusIid(e[m])
    <3> DEFINE t == e[m] + 1
    <3>1. t \in 1 .. w /\ e[m] \in 0 .. k - 1
      BY <2>2, <2>3, FoldingsGrow
    <3>2. t - 1 = e[m] /\ e[m] \in Nat
      BY <2>2, <3>1
    <3> HIDE DEF t
    <3>3. rob'[Len(rob) - n + t].iid = PlusIid(t - 1) /\ Len(rob) - n + t \in DOMAIN rob'
      BY <2>2, <2>3, <3>1
    <3> QED BY <3>2, <3>3 DEF t
  <2>7. ASSUME NEW p \in Pregs, life'[p] = "ALLOC"
        PROVE  \E i \in DOMAIN rob' : rob'[i].iid = iid'[p]
    <3>1. ASSUME NEW m, Dispatched(p, m, k, e)
          PROVE  \E i \in DOMAIN rob' : rob'[i].iid = iid'[p]
      BY <2>6, <3>1 DEF Dispatched
    <3>2. ASSUME Remains(p, n, k)
          PROVE  \E i \in DOMAIN rob' : rob'[i].iid = iid'[p]
      <4>1. PICK i \in DOMAIN rob : rob[i].iid = iid[p]
        BY <2>0, <3>2 DEF Remains
      <4> QED BY <2>5, <3>2, <4>1 DEF Remains
    <3> QED BY <1>4, <2>7, <3>1, <3>2, FlightStep
  <2>8. ASSUME NEW p \in Pregs, life'[p] = "ALLOC", life'[rel'[p]] = "ALLOC",
               NEW i \in DOMAIN rob', rob'[i].iid = iid'[p]
        PROVE  \E j \in 1 .. i : rob'[j].iid = iid'[rel'[p]]
    <3>1. ASSUME Remains(p, n, k)
          PROVE  \E j \in 1 .. i : rob'[j].iid = iid'[rel'[p]]
      <4>1. /\ life[p] = "ALLOC" /\ p \notin Retiring(n) /\ rel'[p] = rel[p]
            /\ iid'[p] = iid[p]
        BY <3>1 DEF Remains
      <4>2. rel[p] \in Pregs /\ Live(rel[p])
        BY <2>0, <4>1 DEF FlightChain
      <4>3. Remains(rel[p], n, k)
        <5>1. \A m : ~Dispatched(rel[p], m, k, e)
          BY <4>2 DEF Dispatched, Live
        <5> QED BY <1>4, <2>8, <4>1, <4>2, <5>1, FlightStep
      <4>4. PICK x \in DOMAIN rob : rob[x].iid = iid[p]
        BY <2>0, <4>1
      <4>5. PICK y \in 1 .. x : rob[y].iid = iid[rel[p]]
        BY <2>0, <4>1, <4>3, <4>4 DEF Remains
      <4>6. x - n \in DOMAIN rob' /\ rob'[x - n].iid = iid[p]
        BY <2>5, <4>1, <4>4
      <4>7. x - n = i
        BY <2>4, <2>8, <4>1, <4>6
      <4>8. y \in DOMAIN rob /\ x \in Nat /\ y <= x
        BY <2>2, <4>5
      <4>9. y - n \in 1 .. Len(rob) - n /\ rob'[y - n].iid = iid[rel[p]]
        BY <2>5, <4>2, <4>3, <4>5, <4>8 DEF Remains
      <4>10. y - n \in 1 .. i
        BY <2>2, <4>7, <4>8, <4>9
      <4> QED BY <4>1, <4>3, <4>9, <4>10 DEF Remains
    <3>2. ASSUME NEW m, Dispatched(p, m, k, e)
          PROVE  \E j \in 1 .. i : rob'[j].iid = iid'[rel'[p]]
      <4>1. /\ m \in 1 .. k /\ m \in DOMAIN is /\ is[m].dst # None
            /\ rel'[p] = is[m].rel /\ iid'[p] = PlusIid(e[m])
        BY <3>2 DEF Dispatched
      <4>2. i = Len(rob) - n + (e[m] + 1) /\ e[m] \in Nat
        BY <2>4, <2>6, <2>8, <4>1
      <4>3. is[m].rel \in Pregs
        BY <2>0, <4>1 DEF IsChain
      <4>4. ASSUME Remains(is[m].rel, n, k)
            PROVE  \E j \in 1 .. i : rob'[j].iid = iid'[rel'[p]]
        <5>1. PICK y \in DOMAIN rob : rob[y].iid = iid[is[m].rel]
          BY <2>0, <4>3, <4>4 DEF Remains
        <5>2. y - n \in 1 .. Len(rob) - n /\ rob'[y - n].iid = iid[is[m].rel]
          BY <2>5, <4>3, <4>4, <5>1 DEF Remains
        <5>3. y - n \in 1 .. i
          BY <2>2, <4>2, <5>2
        <5> QED BY <4>1, <4>4, <5>2, <5>3 DEF Remains
      <4>5. ASSUME NEW x, Dispatched(is[m].rel, x, k, e)
            PROVE  \E j \in 1 .. i : rob'[j].iid = iid'[rel'[p]]
        <5>1. /\ x \in 1 .. k /\ x \in DOMAIN is /\ is[x].preg = is[m].rel
              /\ iid'[is[m].rel] = PlusIid(e[x]) /\ life[is[m].rel] = "WF_ALLOC"
              /\ is[x].dst # None
          BY <4>5 DEF Dispatched
        <5>2. x < m
          <6>1. \E z \in DOMAIN is : z < m /\ is[z].preg = is[m].rel
            BY <2>0, <4>1, <5>1 DEF IsChain, Live
          <6>2. \A z \in DOMAIN is : is[z].preg = is[x].preg => z = x
            BY <5>1 DEF IInv, HandedOut
          <6> QED BY <5>1, <6>1, <6>2
        <5>3. e[x] <= e[m]
          <6>1. m \in x .. k
            BY <2>2, <4>1, <5>1, <5>2
          <6> QED BY <2>2, <5>1, <6>1, FoldingsGrow
        <5>4. /\ Len(rob) - n + (e[x] + 1) \in DOMAIN rob' /\ e[x] \in Nat
              /\ rob'[Len(rob) - n + (e[x] + 1)].iid = PlusIid(e[x])
          BY <2>6, <5>1
        <5>5. Len(rob) - n + (e[x] + 1) \in 1 .. i
          BY <2>2, <4>2, <5>3, <5>4
        <5> QED BY <4>1, <5>1, <5>4, <5>5
      <4>6. life'[is[m].rel] = "ALLOC"
        BY <2>8, <4>1
      <4> QED BY <1>4, <4>3, <4>4, <4>5, <4>6, FlightStep
    <3> QED BY <1>4, <2>8, <3>1, <3>2, FlightStep
  <2> QED BY <2>7, <2>8
<1> QED BY <1>2, <1>3, <1>4

\* What an instruction that came from IR replaces.
LEMMA CameIs ==
    ASSUME IInv, NEW n, NEW cause, NEW cancel, NEW k, NEW e, NEW g, NEW s, NEW done,
           Step(n, cause, cancel, k, e, g, s, done),
           NEW i, NEW m, Came(i, m, k, g), g[m] # None
    PROVE  /\ Settled /\ Group(g) /\ g[m] \in ARegs /\ m \in DOMAIN g /\ m \in Nat
           /\ \/ /\ is'[i].rel = rt[g[m]]
                 /\ \A j \in DOMAIN g : j < m => g[j] # g[m]
              \/ \E l \in DOMAIN g : /\ l \in Slots /\ l < m /\ is'[i].rel = slot[l]
                                     /\ slot[l] # None /\ g[l] = g[m]
                                     /\ \A j \in DOMAIN g : j < m /\ g[j] = g[m] => j <= l
<1>0. /\ Group(g) /\ (g # <<>> => Settled) /\ m \in DOMAIN g
      /\ is'[i].rel = IF LastWriter(g, m) = 0 THEN rt[g[m]] ELSE slot[LastWriter(g, m)]
  BY Zenon DEF Step, Came
<1>1. /\ DOMAIN g = 1 .. Len(g) /\ Len(g) \in Nat /\ Len(g) <= NSlots /\ NSlots \in Nat
      /\ \A j \in DOMAIN g : g[j] \in ARegs \cup {None}
      /\ \A j \in DOMAIN g : g[j] # None => slot[j] # None
  BY <1>0, Sizes, ElementOfSeq DEF Group
<1>2. Settled
  <2>1. g # <<>>
    <3>1. DOMAIN <<>> = {}
      OBVIOUS
    <3> QED BY <1>0, <3>1
  <2> QED BY <1>0, <2>1
<1>3. \/ LastWriter(g, m) = 0 /\ \A j \in 1 .. m - 1 : g[j] # g[m]
      \/ /\ LastWriter(g, m) \in 1 .. m - 1 /\ g[LastWriter(g, m)] = g[m]
         /\ \A j \in 1 .. m - 1 : g[j] = g[m] => j <= LastWriter(g, m)
  BY <1>0, LastWriterIs
<1>4. \A j \in DOMAIN g : j < m => j \in 1 .. m - 1
  BY <1>0, <1>1
<1>5. CASE LastWriter(g, m) = 0 /\ \A j \in 1 .. m - 1 : g[j] # g[m]
  BY <1>0, <1>1, <1>2, <1>4, <1>5
<1>6. CASE /\ LastWriter(g, m) \in 1 .. m - 1 /\ g[LastWriter(g, m)] = g[m]
           /\ \A j \in 1 .. m - 1 : g[j] = g[m] => j <= LastWriter(g, m)
  <2> DEFINE l == LastWriter(g, m)
  <2>1. l \in 1 .. m - 1 /\ g[l] = g[m] /\ \A j \in 1 .. m - 1 : g[j] = g[m] => j <= l
    BY <1>6
  <2>2. is'[i].rel = slot[l]
    BY <1>0, <1>6
  <2> HIDE DEF l
  <2>3. l \in DOMAIN g /\ l \in Slots /\ l < m /\ slot[l] # None
    BY <1>0, <1>1, <2>1 DEF Slots
  <2> QED BY <1>0, <1>1, <1>2, <1>4, <2>1, <2>2, <2>3
<1> QED BY <1>3, <1>5, <1>6

LEMMA IsChainStep ==
    ASSUME IInv, NEW n, NEW cause, NEW cancel, NEW k, NEW e, NEW g, NEW s, NEW done,
           Step(n, cause, cancel, k, e, g, s, done)
    PROVE  IsChain'
<1>1. CASE FlushBe
  BY <1>1, BackEndStep DEF IsChain
<1>2. CASE ~FlushBe
  <2>0. /\ IsChain /\ TableHead /\ rt \in [ARegs -> Pregs]
        /\ slot \in [Slots -> Pregs \cup {None}]
        /\ DOMAIN is = 1 .. Len(is) /\ Len(is) \in Nat /\ k \in 0 .. Len(is)
    BY LenProperties DEF IInv, TypeOK, Step
  <2>1. ASSUME NEW i \in DOMAIN is'
        PROVE  /\ (\E x : Kept(i, x, k)) \/ (\E m : Came(i, m, k, g))
               /\ \A j \in DOMAIN is : j > k => j - k \in DOMAIN is' /\ Kept(j - k, j, k)
               /\ \A m \in DOMAIN g : /\ Len(is) - k + m \in DOMAIN is'
                                      /\ Came(Len(is) - k + m, m, k, g)
    <3>1. ~FlushFe /\ cancel = {}
      <4>1. is' # <<>>
        <5>1. DOMAIN <<>> = {}
          OBVIOUS
        <5> QED BY <5>1
      <4> QED BY <4>1, IsStep
    <3>2. (\E x : Kept(i, x, k)) \/ (\E m : Came(i, m, k, g))
      BY IsMoves
    <3> QED BY <3>1, <3>2, IsMoves
  \* The parent of an instruction of IS, kept or new, is live or before it.
  <2>2. ASSUME NEW i \in DOMAIN is', is'[i].dst # None
        PROVE  /\ is'[i].rel \in Pregs
               /\ \/ LiveNext(is'[i].rel) /\ dst'[is'[i].rel] = is'[i].dst
                  \/ \E j \in DOMAIN is' : /\ j < i /\ is'[j].preg = is'[i].rel
                                           /\ is'[j].dst = is'[i].dst
    <3>1. ASSUME NEW x, Kept(i, x, k)
          PROVE  /\ is'[i].rel \in Pregs
                 /\ \/ LiveNext(is'[i].rel) /\ dst'[is'[i].rel] = is'[i].dst
                    \/ \E j \in DOMAIN is' : /\ j < i /\ is'[j].preg = is'[i].rel
                                             /\ is'[j].dst = is'[i].dst
      <4>1. x \in DOMAIN is /\ x > k /\ i = x - k /\ is'[i] = is[x] /\ is[x].dst # None
        BY <2>2, <3>1 DEF Kept
      <4>2. /\ is[x].rel \in Pregs
            /\ \/ LiveNext(is[x].rel) /\ dst'[is[x].rel] = is[x].dst
               \/ \E j \in DOMAIN is : /\ j > k /\ j < x
                                       /\ is[j].preg = is[x].rel /\ is[j].dst = is[x].dst
        BY <1>2, <4>1, ParentStep
      <4>3. ASSUME NEW j \in DOMAIN is, j > k, j < x,
                   is[j].preg = is[x].rel, is[j].dst = is[x].dst
            PROVE  \E y \in DOMAIN is' : /\ y < i /\ is'[y].preg = is'[i].rel
                                         /\ is'[y].dst = is'[i].dst
        <5>1. j - k \in DOMAIN is' /\ is'[j - k] = is[j]
          BY <2>1, <4>3 DEF Kept
        <5>2. j - k < i
          BY <2>0, <4>1, <4>3
        <5> QED BY <4>1, <4>3, <5>1, <5>2
      <4> QED BY <4>1, <4>2, <4>3
    <3>2. ASSUME NEW m, Came(i, m, k, g)
          PROVE  /\ is'[i].rel \in Pregs
                 /\ \/ LiveNext(is'[i].rel) /\ dst'[is'[i].rel] = is'[i].dst
                    \/ \E j \in DOMAIN is' : /\ j < i /\ is'[j].preg = is'[i].rel
                                             /\ is'[j].dst = is'[i].dst
      <4>1. /\ m \in DOMAIN g /\ i = Len(is) - k + m /\ is'[i].dst = g[m] /\ g[m] # None
        BY <2>2, <3>2 DEF Came
      <4>2. /\ Settled /\ Group(g) /\ g[m] \in ARegs /\ m \in Nat
            /\ \/ is'[i].rel = rt[g[m]]
               \/ \E l \in DOMAIN g : /\ l \in Slots /\ l < m /\ is'[i].rel = slot[l]
                                      /\ slot[l] # None /\ g[l] = g[m]
        BY <3>2, <4>1, CameIs
      <4>3. CASE is'[i].rel = rt[g[m]]
        <5> DEFINE r == rt[g[m]]
        <5>1. /\ r \in Pregs /\ \A p \in Pregs : life[p] = "ALLOC" => rel[p] # r
              /\ \/ Live(r) /\ dst[r] = g[m]
                 \/ \E j \in DOMAIN is : is[j].preg = r /\ is[j].dst = g[m]
          BY <2>0, <4>2 DEF TableHead
        <5>2. is'[i].rel = r
          BY <4>3
        <5> HIDE DEF r
        <5>3. CASE Live(r) /\ dst[r] = g[m]
          <6>1. r \notin Released(n)
            BY <5>1, NotReleased
          <6>2. LiveNext(r) /\ dst'[r] = dst[r]
            BY <1>2, <5>1, <5>3, <6>1, FlightStep
          <6> QED BY <4>1, <5>1, <5>2, <5>3, <6>2
        <5>4. ASSUME NEW j \in DOMAIN is, is[j].preg = r, is[j].dst = g[m]
              PROVE  \/ LiveNext(r) /\ dst'[r] = g[m]
                     \/ \E y \in DOMAIN is' : /\ y < i /\ is'[y].preg = r
                                              /\ is'[y].dst = g[m]
          <6>1. CASE j <= k
            <7>1. j \in 1 .. k /\ is[j].dst # None
              BY <2>0, <4>1, <5>4, <6>1
            <7>2. life'[is[j].preg] = "ALLOC" /\ Dispatched(is[j].preg, j, k, e)
              BY <1>2, <7>1, FlightStep
            <7> QED BY <5>4, <7>2 DEF Dispatched, LiveNext
          <6>2. CASE j > k
            <7>1. j - k \in DOMAIN is' /\ is'[j - k] = is[j]
              BY <2>1, <6>2 DEF Kept
            <7>2. m \in Nat \ {0}
              BY <4>1, <4>2 DEF Group
            <7>3. j - k < i
              BY <2>0, <4>1, <6>2, <7>2
            <7> QED BY <5>4, <7>1, <7>3
          <6> QED BY <2>0, <6>1, <6>2
        <5> QED BY <4>1, <5>1, <5>2, <5>3, <5>4
      <4>4. ASSUME NEW l \in DOMAIN g, l \in Slots, l < m, is'[i].rel = slot[l],
                   slot[l] # None, g[l] = g[m]
            PROVE  /\ is'[i].rel \in Pregs
                   /\ \E j \in DOMAIN is' : /\ j < i /\ is'[j].preg = is'[i].rel
                                            /\ is'[j].dst = is'[i].dst
        <5> DEFINE y == Len(is) - k + l
        <5>1. y \in DOMAIN is' /\ Came(y, l, k, g)
          BY <2>1, <4>4
        <5>2. l \in Nat
          BY <4>2, <4>4 DEF Group
        <5>3. y < i
          BY <2>0, <4>1, <4>2, <4>4, <5>2
        <5> HIDE DEF y
        <5>4. is'[y].preg = slot[l] /\ is'[y].dst = g[l]
          BY <4>1, <4>4, <5>1 DEF Came
        <5>5. slot[l] \in Pregs
          BY <4>4, OfferIsFresh
        <5> QED BY <4>1, <4>4, <5>1, <5>3, <5>4, <5>5
      <4> QED BY <4>2, <4>3, <4>4
    <3> QED BY <2>1, <3>1, <3>2
  \* It is replaced by one instruction of IS only.
  <2>3. ASSUME NEW i, NEW x, Kept(i, x, k), NEW j, NEW m, Came(j, m, k, g),
               is'[i].dst # None, is'[j].dst # None
        PROVE  is'[i].rel # is'[j].rel
    <3>1. x \in DOMAIN is /\ is'[i] = is[x] /\ is[x].dst # None /\ g[m] # None
      BY <2>3 DEF Kept, Came
    <3>2. /\ g[m] \in ARegs
          /\ \/ is'[j].rel = rt[g[m]]
             \/ \E l \in DOMAIN g : l \in Slots /\ slot[l] # None /\ is'[j].rel = slot[l]
      BY <2>3, <3>1, CameIs
    <3>3. is'[j].rel = rt[g[m]] => is[x].rel # is'[j].rel
      BY <2>0, <3>1, <3>2 DEF TableHead
    <3>4. \A l \in Slots : slot[l] # None => is[x].rel # slot[l]
      BY <3>1, OfferIsFresh
    <3> QED BY <3>1, <3>2, <3>3, <3>4
  <2>4. ASSUME NEW i, NEW x, Came(i, x, k, g), NEW j, NEW m, Came(j, m, k, g),
               is'[i].dst # None, is'[j].dst # None, is'[i].rel = is'[j].rel
        PROVE  x = m
    <3>1. g[x] # None /\ g[m] # None
      BY <2>4 DEF Came
    <3>2. /\ Settled /\ Group(g) /\ g[x] \in ARegs /\ x \in DOMAIN g /\ x \in Nat
          /\ \/ /\ is'[i].rel = rt[g[x]]
                /\ \A y \in DOMAIN g : y < x => g[y] # g[x]
             \/ \E l \in DOMAIN g : /\ l \in Slots /\ l < x /\ is'[i].rel = slot[l]
                                    /\ slot[l] # None /\ g[l] = g[x]
                                    /\ \A y \in DOMAIN g : y < x /\ g[y] = g[x] => y <= l
      BY <2>4, <3>1, CameIs
    <3>3. /\ g[m] \in ARegs /\ m \in DOMAIN g /\ m \in Nat
          /\ \/ /\ is'[j].rel = rt[g[m]]
                /\ \A y \in DOMAIN g : y < m => g[y] # g[m]
             \/ \E l \in DOMAIN g : /\ l \in Slots /\ l < m /\ is'[j].rel = slot[l]
                                    /\ slot[l] # None /\ g[l] = g[m]
                                    /\ \A y \in DOMAIN g : y < m /\ g[y] = g[m] => y <= l
      BY <2>4, <3>1, CameIs
    <3>4. \A l \in Slots : \A a \in ARegs : slot[l] # None => rt[a] # slot[l]
      BY OfferIsFresh
    <3>5. \A y \in Slots : \A l \in Slots : slot[y] # None /\ slot[y] = slot[l] => y = l
      BY DEF IInv, HandedOut
    <3>6. CASE /\ is'[i].rel = rt[g[x]] /\ is'[j].rel = rt[g[m]]
               /\ \A y \in DOMAIN g : y < x => g[y] # g[x]
               /\ \A y \in DOMAIN g : y < m => g[y] # g[m]
      <4>1. g[x] = g[m]
        BY <2>4, <3>2, <3>3, <3>6, TableInjective
      <4>2. ~(x < m) /\ ~(m < x)
        BY <3>2, <3>3, <3>6, <4>1
      <4> QED BY <3>2, <3>3, <4>2
    <3>7. ASSUME NEW l \in DOMAIN g, l \in Slots, l < x, is'[i].rel = slot[l],
                 slot[l] # None, g[l] = g[x],
                 \A y \in DOMAIN g : y < x /\ g[y] = g[x] => y <= l,
                 NEW h \in DOMAIN g, h \in Slots, h < m, is'[j].rel = slot[h],
                 slot[h] # None, g[h] = g[m],
                 \A y \in DOMAIN g : y < m /\ g[y] = g[m] => y <= h
          PROVE  x = m
      <4>1. l = h /\ l \in Nat
        <5>1. slot[l] = slot[h]
          BY <2>4, <3>7
        <5>2. l = h
          BY <3>5, <3>7, <5>1
        <5>3. DOMAIN g = 1 .. Len(g) /\ Len(g) \in Nat
          BY <3>2 DEF Group
        <5> QED BY <3>7, <5>2, <5>3
      <4>2. g[x] = g[m]
        BY <3>7, <4>1
      <4>3. ~(x < m) /\ ~(m < x)
        BY <3>2, <3>3, <3>7, <4>1, <4>2
      <4> QED BY <3>2, <3>3, <4>3
    <3> QED BY <2>4, <3>2, <3>3, <3>4, <3>6, <3>7
  <2>5. ASSUME NEW i \in DOMAIN is', is'[i].dst # None,
               NEW j \in DOMAIN is', is'[j].dst # None, is'[j].rel = is'[i].rel
        PROVE  j = i
    <3>1. ASSUME NEW x, Kept(i, x, k), NEW y, Kept(j, y, k) PROVE j = i
      BY <2>0, <2>5, <3>1 DEF Kept, IsChain
    <3>2. ASSUME NEW x, Came(i, x, k, g), NEW y, Came(j, y, k, g) PROVE j = i
      <4>1. x = y
        BY <2>4, <2>5, <3>2
      <4> QED BY <3>2, <4>1 DEF Came
    <3> QED BY <2>1, <2>3, <2>5, <3>1, <3>2
  \* And by no writer in flight.
  <2>6. ASSUME NEW i \in DOMAIN is', is'[i].dst # None, NEW p \in Pregs, life'[p] = "ALLOC"
        PROVE  rel'[p] # is'[i].rel
    <3>1. \/ \E m : Dispatched(p, m, k, e)
          \/ Remains(p, n, k)
      BY <1>2, <2>6, FlightStep
    <3>2. ASSUME NEW x, Kept(i, x, k) PROVE rel'[p] # is'[i].rel
      <4>1. x \in DOMAIN is /\ x > k /\ is'[i] = is[x] /\ is[x].dst # None
        BY <2>6, <3>2 DEF Kept
      <4>2. ASSUME NEW m, Dispatched(p, m, k, e) PROVE rel'[p] # is'[i].rel
        <5>1. m \in DOMAIN is /\ m # x /\ is[m].dst # None /\ rel'[p] = is[m].rel
          BY <2>0, <4>1, <4>2 DEF Dispatched
        <5> QED BY <2>0, <4>1, <5>1 DEF IsChain
      <4>3. ASSUME Remains(p, n, k) PROVE rel'[p] # is'[i].rel
        BY <2>0, <4>1, <4>3 DEF Remains, IsChain
      <4> QED BY <3>1, <4>2, <4>3
    <3>3. ASSUME NEW x, Came(i, x, k, g) PROVE rel'[p] # is'[i].rel
      <4>1. g[x] # None
        BY <2>6, <3>3 DEF Came
      <4>2. /\ g[x] \in ARegs
            /\ \/ is'[i].rel = rt[g[x]]
               \/ \E l \in DOMAIN g : l \in Slots /\ slot[l] # None /\ is'[i].rel = slot[l]
        BY <3>3, <4>1, CameIs
      <4>3. ASSUME NEW m, Dispatched(p, m, k, e) PROVE rel'[p] # is'[i].rel
        <5>1. m \in DOMAIN is /\ is[m].dst # None /\ rel'[p] = is[m].rel
          BY <4>3 DEF Dispatched
        <5>2. is[m].rel # rt[g[x]]
          BY <2>0, <4>2, <5>1 DEF TableHead
        <5>3. \A l \in Slots : slot[l] # None => is[m].rel # slot[l]
          BY <5>1, OfferIsFresh
        <5> QED BY <4>2, <5>1, <5>2, <5>3
      <4>4. ASSUME Remains(p, n, k) PROVE rel'[p] # is'[i].rel
        <5>1. life[p] = "ALLOC" /\ rel'[p] = rel[p]
          BY <4>4 DEF Remains
        <5>2. rel[p] # rt[g[x]]
          BY <2>0, <4>2, <5>1 DEF TableHead
        <5>3. \A l \in Slots : slot[l] # None => rel[p] # slot[l]
          BY <5>1, OfferIsFresh
        <5> QED BY <4>2, <5>1, <5>2, <5>3
      <4> QED BY <3>1, <4>3, <4>4
    <3> QED BY <2>1, <3>2, <3>3
  <2> QED BY <2>2, <2>5, <2>6 DEF IsChain, Live, LiveNext
<1> QED BY <1>1, <1>2

\* The flush state is IDLE and nothing is stalled after an edge without a
\* back-end flush only if they were before, and no branch was cancelled.
LEMMA SettledStep ==
    ASSUME IInv, NEW n, NEW cause, NEW cancel, NEW k, NEW e, NEW g, NEW s, NEW done,
           Step(n, cause, cancel, k, e, g, s, done), ~FlushBe, Settled'
    PROVE  Settled /\ cancel = {} /\ ~FlushFe
<1>1. flush = "IDLE"
  BY FlushStep DEF Settled
<1>2. mispredStall' = (~FlushBe /\ (mispredStall \/ cancel # {}))
  BY Zenon DEF Step, StallEdge
<1> QED BY <1>1, <1>2 DEF Settled, FlushFe

LEMMA TableStep ==
    ASSUME IInv, NEW n, NEW cause, NEW cancel, NEW k, NEW e, NEW g, NEW s, NEW done,
           Step(n, cause, cancel, k, e, g, s, done)
    PROVE  TableHead'
<1>1. CASE FlushBe
  <2>1. /\ \A p \in Pregs : /\ life'[p] # "ALLOC" /\ life'[p] # "WF_ALLOC"
                            /\ life'[p] = "RETIRE" <=> life[p] = "RETIRE"
                            /\ life[p] = "RETIRE" => dst'[p] = dst[p]
        /\ DOMAIN is' = {} /\ \A i \in Slots : slot'[i] = None
        /\ rt' = RecoverTable
    BY <1>1, BackEndStep
  <2>2. ASSUME NEW a \in ARegs
        PROVE  rt'[a] \in Pregs /\ life'[rt'[a]] = "RETIRE" /\ dst'[rt'[a]] = a
    <3>1. PICK c \in Pregs : Committed(a) = {c}
      BY DEF IInv, OneCommitted
    <3>2. rt'[a] \in Committed(a)
      BY <2>1, <3>1 DEF RecoverTable
    <3> QED BY <2>1, <3>2 DEF Committed
  <2>3. Offers' = {}
    BY <2>1 DEF Offers
  <2> QED BY <2>1, <2>2, <2>3 DEF TableHead, Live
<1>2. CASE ~FlushBe
  <2>0. /\ IsChain /\ TableHead /\ rt \in [ARegs -> Pregs]
        /\ slot \in [Slots -> Pregs \cup {None}] /\ Group(g)
        /\ DOMAIN is = 1 .. Len(is) /\ Len(is) \in Nat /\ k \in 0 .. Len(is)
        /\ DOMAIN g = 1 .. Len(g) /\ Len(g) \in Nat /\ Taken(g) \subseteq Slots
        /\ rt' = RenamedTable(g)
    <3>1. rt' = RenamedTable(g) /\ Group(g)
      BY <1>2, Zenon DEF Step, Moves
    <3> QED BY <3>1, LenProperties, Sizes DEF IInv, TypeOK, Step, Group, Taken, Slots
  <2>1. /\ slot' = s
        /\ \A i \in Slots : s[i] = slot[i] \/ s[i] \in Dealloc \cup {None}
        /\ \A i \in Taken(g) : s[i] \in Dealloc \cup {None}
    BY <1>2, SlotStep
  <2>2. \A p \in Pregs :
           /\ life'[p] = "ALLOC" <=>
                 p \in Create(k) \/ (life[p] = "ALLOC" /\ p \notin Retiring(n))
           /\ life'[p] = "RETIRE" <=>
                 (life[p] = "RETIRE" \/ p \in Retiring(n)) /\ p \notin Released(n)
           /\ life'[p] = "WF_ALLOC" <=>
                 \/ life[p] = "WF_ALLOC" /\ p \notin Create(k)
                 \/ life[p] = "DEALLOC" /\ p \in Grant(s)
    BY <1>2, LifeStep
  <2>3. ASSUME NEW a \in ARegs
        PROVE  /\ life'[rt'[a]] \in {"WF_ALLOC", "ALLOC", "RETIRE"} /\ rt'[a] \notin Offers'
               /\ \A p \in Pregs : life'[p] = "ALLOC" => rel'[p] # rt'[a]
               /\ \A i \in DOMAIN is' : is'[i].dst # None => is'[i].rel # rt'[a]
               /\ Settled' => \/ LiveNext(rt'[a]) /\ dst'[rt'[a]] = a
                              \/ \E i \in DOMAIN is' : is'[i].preg = rt'[a] /\ is'[i].dst = a
    \* No instruction of the group writes a: the mapping stays.
    <3>1. ASSUME rt'[a] = rt[a], \A x \in DOMAIN g : g[x] # a
          PROVE  /\ life'[rt'[a]] \in {"WF_ALLOC", "ALLOC", "RETIRE"} /\ rt'[a] \notin Offers'
                 /\ \A p \in Pregs : life'[p] = "ALLOC" => rel'[p] # rt'[a]
                 /\ \A i \in DOMAIN is' : is'[i].dst # None => is'[i].rel # rt'[a]
                 /\ Settled' => \/ LiveNext(rt'[a]) /\ dst'[rt'[a]] = a
                                \/ \E i \in DOMAIN is' : is'[i].preg = rt'[a] /\ is'[i].dst = a
      <4> DEFINE r == rt[a]
      <4>0. r = rt'[a] /\ r \in Pregs
        BY <2>0, <3>1
      <4>1. /\ life[r] \in {"WF_ALLOC", "ALLOC", "RETIRE"} /\ r \notin Offers
            /\ \A p \in Pregs : life[p] = "ALLOC" => rel[p] # r
            /\ \A i \in DOMAIN is : is[i].dst # None => is[i].rel # r
            /\ Settled => \/ Live(r) /\ dst[r] = a
                          \/ \E i \in DOMAIN is : is[i].preg = r /\ is[i].dst = a
        BY <2>0 DEF TableHead
      <4>2. \A b \in ARegs : Settled /\ rt[b] = r => b = a
        BY TableInjective
      <4> HIDE DEF r
      <4>3. r \notin Released(n)
        BY <4>1, NotReleased
      <4>4. life'[r] \in {"WF_ALLOC", "ALLOC", "RETIRE"}
        BY <2>2, <4>0, <4>1, <4>3
      <4>5. r \notin Offers'
        BY <2>1, <4>0, <4>1, PstAssumption DEF Offers, Dealloc
      <4>6. ASSUME NEW p \in Pregs, life'[p] = "ALLOC" PROVE rel'[p] # r
        <5>1. ASSUME NEW m, Dispatched(p, m, k, e) PROVE rel'[p] # r
          BY <4>1, <5>1 DEF Dispatched
        <5>2. ASSUME Remains(p, n, k) PROVE rel'[p] # r
          BY <4>1, <5>2 DEF Remains
        <5> QED BY <1>2, <4>6, <5>1, <5>2, FlightStep
      <4>7. ASSUME NEW i \in DOMAIN is', is'[i].dst # None PROVE is'[i].rel # r
        <5>1. ASSUME NEW x, Kept(i, x, k) PROVE is'[i].rel # r
          BY <4>1, <4>7, <5>1 DEF Kept
        <5>2. ASSUME NEW x, Came(i, x, k, g) PROVE is'[i].rel # r
          <6>1. x \in DOMAIN g /\ g[x] # None /\ g[x] # a
            BY <3>1, <4>7, <5>2 DEF Came
          <6>2. /\ Settled /\ g[x] \in ARegs
                /\ \/ is'[i].rel = rt[g[x]]
                   \/ \E l \in DOMAIN g : l \in Slots /\ slot[l] # None /\ is'[i].rel = slot[l]
            BY <5>2, <6>1, CameIs
          <6>3. rt[g[x]] # r
            BY <4>2, <6>1, <6>2
          <6>4. \A l \in Slots : slot[l] # r
            BY <4>0, <4>1, PstAssumption DEF Offers
          <6> QED BY <6>2, <6>3, <6>4
        <5> QED BY <5>1, <5>2, IsMoves
      <4>8. ASSUME Settled'
            PROVE  \/ LiveNext(r) /\ dst'[r] = a
                   \/ \E i \in DOMAIN is' : is'[i].preg = r /\ is'[i].dst = a
        <5>0. Settled /\ cancel = {} /\ ~FlushFe
          BY <1>2, <4>8, SettledStep
        <5>1. CASE Live(r) /\ dst[r] = a
          BY <1>2, <4>0, <4>3, <5>1, FlightStep
        <5>2. ASSUME NEW j \in DOMAIN is, is[j].preg = r, is[j].dst = a
              PROVE  \/ LiveNext(r) /\ dst'[r] = a
                     \/ \E i \in DOMAIN is' : is'[i].preg = r /\ is'[i].dst = a
          <6>1. CASE j <= k
            <7>1. j \in 1 .. k /\ is[j].dst # None
              BY <2>0, <5>2, <6>1, PstAssumption
            <7>2. life'[is[j].preg] = "ALLOC" /\ Dispatched(is[j].preg, j, k, e)
              BY <1>2, <7>1, FlightStep
            <7> QED BY <5>2, <7>2 DEF Dispatched, LiveNext
          <6>2. CASE j > k
            <7>1. j - k \in DOMAIN is' /\ is'[j - k] = is[j]
              BY <5>0, <6>2, IsMoves DEF Kept
            <7> QED BY <5>2, <7>1
          <6> QED BY <2>0, <6>1, <6>2
        <5> QED BY <4>1, <5>0, <5>1, <5>2
      <4> QED BY <4>0, <4>4, <4>5, <4>6, <4>7, <4>8
    \* The last instruction of the group that writes a gives it its preg.
    <3>2. ASSUME NEW x \in DOMAIN g, g[x] = a, rt'[a] = slot[x],
                 \A j \in DOMAIN g : g[j] = a => j <= x
          PROVE  /\ life'[rt'[a]] \in {"WF_ALLOC", "ALLOC", "RETIRE"} /\ rt'[a] \notin Offers'
                 /\ \A p \in Pregs : life'[p] = "ALLOC" => rel'[p] # rt'[a]
                 /\ \A i \in DOMAIN is' : is'[i].dst # None => is'[i].rel # rt'[a]
                 /\ Settled' => \/ LiveNext(rt'[a]) /\ dst'[rt'[a]] = a
                                \/ \E i \in DOMAIN is' : is'[i].preg = rt'[a] /\ is'[i].dst = a
      <4> DEFINE r == slot[x]
      <4>0. /\ a # None /\ x \in Taken(g) /\ x \in Slots /\ slot[x] # None /\ r = rt'[a]
            /\ r = slot[x]
        BY <2>0, <3>2, PstAssumption DEF Taken, Group
      <4>1. /\ r \in Pregs /\ life[r] = "WF_ALLOC" /\ r # None
            /\ \A p \in Pregs : life[p] = "ALLOC" => rel[p] # r
            /\ \A i \in DOMAIN is : is[i].dst # None => is[i].rel # r
            /\ \A b \in ARegs : rt[b] # r
            /\ \A i \in DOMAIN is : is[i].preg # r
            /\ \A j \in Slots : slot[j] = r => j = x
        BY <4>0, OfferIsFresh DEF IInv, HandedOut
      <4> HIDE DEF r
      <4>2. r \notin Create(k)
        BY <2>0, <4>1 DEF Create
      <4>3. life'[r] = "WF_ALLOC"
        BY <2>2, <4>1, <4>2
      <4>4. r \notin Offers'
        <5>1. ASSUME NEW j \in Slots, s[j] = r PROVE FALSE
          <6>1. s[j] \notin Dealloc \cup {None}
            BY <4>1, <5>1 DEF Dealloc
          <6>2. s[j] = slot[j]
            BY <2>1, <6>1
          <6>3. j = x
            BY <4>1, <5>1, <6>2
          <6> QED BY <2>1, <4>0, <6>1, <6>3
        <5> QED BY <2>1, <5>1 DEF Offers
      <4>5. ASSUME NEW p \in Pregs, life'[p] = "ALLOC" PROVE rel'[p] # r
        <5>1. ASSUME NEW m, Dispatched(p, m, k, e) PROVE rel'[p] # r
          BY <4>1, <5>1 DEF Dispatched
        <5>2. ASSUME Remains(p, n, k) PROVE rel'[p] # r
          BY <4>1, <5>2 DEF Remains
        <5> QED BY <1>2, <4>5, <5>1, <5>2, FlightStep
      <4>6. ASSUME NEW i \in DOMAIN is', is'[i].dst # None PROVE is'[i].rel # r
        <5>1. ASSUME NEW y, Kept(i, y, k) PROVE is'[i].rel # r
          BY <4>1, <4>6, <5>1 DEF Kept
        <5>2. ASSUME NEW y, Came(i, y, k, g) PROVE is'[i].rel # r
          <6>1. y \in DOMAIN g /\ g[y] # None
            BY <4>6, <5>2 DEF Came
          <6>2. /\ g[y] \in ARegs
                /\ \/ is'[i].rel = rt[g[y]]
                   \/ \E l \in DOMAIN g : /\ l \in Slots /\ l < y /\ is'[i].rel = slot[l]
                                          /\ g[l] = g[y]
            BY <5>2, <6>1, CameIs
          <6>3. ASSUME NEW l \in DOMAIN g, l \in Slots, l < y, slot[l] = r, g[l] = g[y]
                PROVE  FALSE
            <7>1. l = x
              BY <4>1, <6>3
            <7>2. y <= x
              BY <3>2, <6>1, <6>3, <7>1
            <7> QED BY <2>0, <6>1, <6>3, <7>1, <7>2
          <6> QED BY <4>1, <6>2, <6>3
        <5> QED BY <5>1, <5>2, IsMoves
      <4>7. ASSUME Settled'
            PROVE  \E i \in DOMAIN is' : is'[i].preg = r /\ is'[i].dst = a
        <5>0. cancel = {} /\ ~FlushFe
          BY <1>2, <4>7, SettledStep
        <5> DEFINE i == Len(is) - k + x
        <5>1. i \in DOMAIN is' /\ Came(i, x, k, g)
          BY <5>0, <3>2, IsMoves
        <5> HIDE DEF i
        <5>2. is'[i].preg = r /\ is'[i].dst = a
          BY <3>2, <4>0, <5>1 DEF Came
        <5> QED BY <5>1, <5>2
      <4> QED BY <4>0, <4>3, <4>4, <4>5, <4>6, <4>7
    <3>3. \/ rt'[a] = rt[a] /\ \A i \in DOMAIN g : g[i] # a
          \/ \E i \in DOMAIN g : /\ g[i] = a /\ rt'[a] = slot[i]
                                 /\ \A j \in DOMAIN g : g[j] = a => j <= i
      BY <2>0, RenamedTableIs
    <3> QED BY <3>1, <3>2, <3>3
  <2> QED BY <2>3 DEF TableHead, Live, LiveNext
<1> QED BY <1>1, <1>2

LEMMA AccountStep ==
    ASSUME IInv, NEW n, NEW cause, NEW cancel, NEW k, NEW e, NEW g, NEW s, NEW done,
           Step(n, cause, cancel, k, e, g, s, done)
    PROVE  AllAccounted'
<1>1. CASE FlushBe
  BY <1>1, BackEndStep DEF AllAccounted
<1>2. CASE ~FlushBe
  <2>1. SUFFICES ASSUME Settled', NEW p \in Pregs, life'[p] = "WF_ALLOC"
                 PROVE  p \in Offers' \/ p \in InIS'
    BY DEF AllAccounted
  <2>2. Settled /\ cancel = {} /\ ~FlushFe
    BY <1>2, <2>1, SettledStep
  <2>3. /\ slot' = s /\ p # None /\ DOMAIN is = 1 .. Len(is) /\ Len(is) \in Nat
        /\ k \in 0 .. Len(is) /\ DOMAIN slot' = Slots
        /\ \A i \in Slots : slot[i] # None /\ i \notin Taken(g) => s[i] = slot[i]
    <3>1. /\ slot' = s /\ slot' \in [Slots -> Pregs \cup {None}]
          /\ \A i \in Slots : slot[i] # None /\ i \notin Taken(g) => s[i] = slot[i]
      BY <1>2, SlotStep
    <3>2. k \in 0 .. Len(is)
      BY Zenon DEF Step
    <3>3. DOMAIN is = 1 .. Len(is) /\ Len(is) \in Nat
      BY LenProperties DEF IInv, TypeOK
    <3> QED BY <3>1, <3>2, <3>3, PstAssumption
  <2>4. \/ life[p] = "WF_ALLOC" /\ p \notin Create(k)
        \/ life[p] = "DEALLOC" /\ p \in Grant(s)
    BY <1>2, <2>1, LifeStep
  <2>5. ASSUME NEW i \in Slots, slot[i] = p PROVE p \in Offers' \/ p \in InIS'
    <3>1. CASE i \in Taken(g)
      <4> DEFINE y == Len(is) - k + i
      <4>1. i \in DOMAIN g /\ g[i] # None
        BY <3>1 DEF Taken
      <4>2. y \in DOMAIN is' /\ Came(y, i, k, g)
        BY <2>2, <4>1, IsMoves
      <4> HIDE DEF y
      <4>3. is'[y].preg = p
        BY <2>5, <4>1, <4>2 DEF Came
      <4> QED BY <2>3, <4>2, <4>3 DEF InIS
    <3>2. CASE i \notin Taken(g)
      BY <2>3, <2>5, <3>2 DEF Offers
    <3> QED BY <3>1, <3>2
  <2>6. ASSUME NEW j \in DOMAIN is, is[j].preg = p, p \notin Create(k)
        PROVE  p \in InIS'
    <3>1. j > k
      BY <2>3, <2>6 DEF Create
    <3>2. j - k \in DOMAIN is' /\ is'[j - k] = is[j]
      BY <2>2, <3>1, IsMoves DEF Kept
    <3> QED BY <2>3, <2>6, <3>2 DEF InIS
  <2>7. CASE life[p] = "WF_ALLOC" /\ p \notin Create(k)
    <3>1. p \in Offers \cup InIS
      BY <2>2, <2>7 DEF IInv, AllAccounted
    <3> QED BY <2>5, <2>6, <2>7, <3>1 DEF Offers, InIS
  <2>8. CASE p \in Grant(s)
    BY <2>3, <2>8 DEF Grant, Offers
  <2> QED BY <2>4, <2>7, <2>8
<1> QED BY <1>1, <1>2

----------------------------------------------------------------------------
(* The invariant holds. *)

LEMMA InitInv == Init => IInv
<1> SUFFICES ASSUME Init PROVE IInv
  OBVIOUS
<1> DEFINE mapped == {rt[a] : a \in ARegs}
<1>1. /\ rt \in [ARegs -> Pregs] /\ \A a, b \in ARegs : a # b => rt[a] # rt[b]
      /\ life = [p \in Pregs |-> IF p \in mapped THEN "RETIRE" ELSE "DEALLOC"]
      /\ wb = [p \in Pregs |-> p \in mapped]
      /\ dst = [p \in Pregs |-> IF p \in mapped THEN CHOOSE a \in ARegs : rt[a] = p
                                                ELSE None]
  BY DEF Init
<1>2. /\ iid = [p \in Pregs |-> None] /\ rel = [p \in Pregs |-> None]
      /\ slot = [i \in Slots |-> None] /\ is = <<>> /\ rob = <<>> /\ nextIid = 0
      /\ flush = "IDLE" /\ asyncFlush = FALSE /\ mispredStall = FALSE
      /\ mispredIid = None /\ pend = {}
  BY DEF Init
<1>3. \A a \in ARegs : rt[a] \in mapped /\ rt[a] \in Pregs
  BY <1>1
<1>4. ASSUME NEW p \in mapped
      PROVE  p \in Pregs /\ dst[p] \in ARegs /\ rt[dst[p]] = p
  <2>1. p \in Pregs /\ \E a \in ARegs : rt[a] = p
    BY <1>1
  <2>2. dst[p] = CHOOSE a \in ARegs : rt[a] = p
    BY <1>1, <2>1
  <2> QED BY <2>1, <2>2
<1>5. \A a \in ARegs : dst[rt[a]] = a
  BY <1>1, <1>3, <1>4
<1>6. DOMAIN is = {} /\ DOMAIN rob = {} /\ Len(is) = 0 /\ Len(rob) = 0
      /\ \A S : <<>> \in Seq(S)
  <2>1. \A S : <<>> \in Seq(S)
    BY EmptySeq
  <2>2. Len(<<>>) = 0 /\ DOMAIN <<>> = {}
    BY EmptySeq
  <2> QED BY <1>2, <2>1, <2>2
<1>7. \A p \in Pregs : /\ life[p] \in {"RETIRE", "DEALLOC"}
                       /\ life[p] = "RETIRE" <=> p \in mapped
  BY <1>1
<1> HIDE DEF mapped
<1>8. TypeOK
  <2>1. life \in [Pregs -> Lives] /\ wb \in [Pregs -> BOOLEAN]
    BY <1>1 DEF Lives
  <2>2. dst \in [Pregs -> ARegs \cup {None}]
    <3>1. \A p \in Pregs : dst[p] \in ARegs \cup {None}
      BY <1>1, <1>4
    <3> QED BY <1>1, <3>1
  <2>3. /\ iid \in [Pregs -> Iids \cup {None}] /\ rel \in [Pregs -> Pregs \cup {None}]
        /\ slot \in [Slots -> Pregs \cup {None}] /\ mispredIid \in Iids \cup {None}
    BY <1>2
  <2>4. nextIid \in Iids /\ Len(is) <= NSlots /\ Len(rob) <= RobSize
    BY <1>2, <1>6, PstAssumption DEF Iids
  <2>5. is \in Seq(Insts) /\ rob \in Seq([iid : Iids, mispred : BOOLEAN])
    BY <1>2, <1>6
  <2>6. flush \in FlushStates /\ asyncFlush \in BOOLEAN /\ mispredStall \in BOOLEAN
        /\ pend \subseteq Pregs
    BY <1>2 DEF FlushStates
  <2> QED BY <1>1, <2>1, <2>2, <2>3, <2>4, <2>5, <2>6 DEF TypeOK
<1>9. IdsInOrder /\ FlushShape /\ MispredOldest
  BY <1>2, <1>6 DEF IdsInOrder, FlushShape, MispredOldest
<1>10. HandedOut
  BY <1>2, <1>6 DEF HandedOut
<1>11. OneCommitted
  <2>1. \A p \in Pregs : Live(p) => dst[p] \in ARegs
    BY <1>4, <1>7 DEF Live
  <2>2. ASSUME NEW a \in ARegs PROVE Committed(a) = {rt[a]}
    <3>1. ASSUME NEW p \in Pregs, life[p] = "RETIRE", dst[p] = a PROVE p = rt[a]
      BY <1>4, <1>7, <3>1
    <3>2. rt[a] \in Pregs /\ life[rt[a]] = "RETIRE" /\ dst[rt[a]] = a
      BY <1>3, <1>5, <1>7
    <3> QED BY <3>1, <3>2 DEF Committed
  <2> QED BY <1>3, <2>1, <2>2 DEF OneCommitted
<1>12. FlightChain /\ IsChain /\ RobChain
  BY <1>6, <1>7 DEF FlightChain, IsChain, RobChain
<1>13. TableHead
  <2>1. Offers = {}
    BY <1>2 DEF Offers
  <2> QED BY <1>3, <1>5, <1>6, <1>7, <2>1 DEF TableHead, Live
<1>14. AllAccounted
  BY <1>7 DEF AllAccounted
<1> QED BY <1>8, <1>9, <1>10, <1>11, <1>12, <1>13, <1>14 DEF IInv

LEMMA StepInv == IInv /\ [Next]_vars => IInv'
<1> SUFFICES ASSUME IInv, [Next]_vars PROVE IInv'
  OBVIOUS
<1>1. CASE Next
  <2>1. PICK n, cause, cancel, k, e, g, s, done : Step(n, cause, cancel, k, e, g, s, done)
    BY <1>1, NextIsStep
  <2>2. TypeOK'
    BY <2>1, TypeStep
  <2>3. IdsInOrder'
    BY <2>1, IdsStep
  <2>4. FlushShape'
    BY <2>1, ShapeStep
  <2>5. MispredOldest'
    BY <2>1, MispredStep
  <2>6. HandedOut'
    BY <2>1, HandedStep
  <2>7. OneCommitted'
    BY <2>1, CommittedStep
  <2>8. FlightChain'
    BY <2>1, FlightChainStep
  <2>9. IsChain'
    BY <2>1, IsChainStep
  <2>10. RobChain'
    BY <2>1, RobChainStep
  <2>11. TableHead'
    BY <2>1, TableStep
  <2>12. AllAccounted'
    BY <2>1, AccountStep
  <2> QED BY <2>2, <2>3, <2>4, <2>5, <2>6, <2>7, <2>8, <2>9, <2>10, <2>11, <2>12 DEF IInv
<1>2. CASE UNCHANGED vars
  <2>1. /\ life' = life /\ wb' = wb /\ iid' = iid /\ dst' = dst /\ rel' = rel
        /\ slot' = slot /\ rt' = rt /\ is' = is /\ rob' = rob /\ nextIid' = nextIid
        /\ flush' = flush /\ asyncFlush' = asyncFlush /\ mispredStall' = mispredStall
        /\ mispredIid' = mispredIid /\ pend' = pend
    BY <1>2 DEF vars
  <2>2. TypeOK'
    BY <2>1 DEF IInv, TypeOK
  <2>3. IdsInOrder' /\ FlushShape' /\ MispredOldest'
    BY <2>1 DEF IInv, IdsInOrder, FlushShape, FlushFe, MispredOldest, Behind
  <2>4. HandedOut'
    BY <2>1 DEF IInv, HandedOut
  <2>5. OneCommitted'
    BY <2>1 DEF IInv, OneCommitted, Live, Committed
  <2>6. FlightChain'
    BY <2>1 DEF IInv, FlightChain, Live
  <2>7. IsChain'
    BY <2>1 DEF IInv, IsChain, Live
  <2>8. RobChain'
    BY <2>1 DEF IInv, RobChain
  <2>9. TableHead'
    BY <2>1 DEF IInv, TableHead, Offers, Settled, Live
  <2>10. AllAccounted'
    BY <2>1 DEF IInv, AllAccounted, Offers, InIS, Settled
  <2> QED BY <2>2, <2>3, <2>4, <2>5, <2>6, <2>7, <2>8, <2>9, <2>10 DEF IInv
<1> QED BY <1>1, <1>2

\* The invariant, from which every theorem below follows.
THEOREM Invariance == Spec => []IInv
<1>1. Init => IInv
  BY InitInv
<1>2. IInv /\ [Next]_vars => IInv'
  BY StepInv
<1> QED BY <1>1, <1>2, PTL DEF Spec

\* Every register of the status table, the rename table, the issue stage and
\* the reorder buffer keeps to its values: in particular dispatch never
\* overflows the reorder buffer, however long it stalls.
THEOREM TypeCorrect == Spec => []TypeOK
<1>1. IInv => TypeOK
  BY DEF IInv
<1> QED BY <1>1, Invariance, PTL

\* Every architectural register is mapped to exactly one committed preg,
\* whatever writers of one register retire together.
THEOREM CommittedIsUnique == Spec => []CommittedUnique
<1>1. IInv => CommittedUnique
  <2> SUFFICES ASSUME IInv, NEW a \in ARegs PROVE Cardinality(Committed(a)) = 1
    BY DEF CommittedUnique
  <2>1. PICK c \in Pregs : Committed(a) = {c}
    BY DEF IInv, OneCommitted
  <2> QED BY <2>1, FS_Singleton
<1> QED BY <1>1, Invariance, PTL

\* The branch unit's id names the oldest mispredicted branch of the reorder
\* buffer, however often the ids have wrapped.
THEOREM OldestMispredicted == Spec => []MispredOldest
<1>1. IInv => MispredOldest
  BY DEF IInv
<1> QED BY <1>1, Invariance, PTL

\* What the rename table names is never free, offered again or released.
THEOREM TableLive == Spec => []TableIsLive
<1>1. IInv => TableIsLive
  BY DEF IInv, TableHead, TableIsLive
<1> QED BY <1>1, Invariance, PTL

\* With no flush outstanding, every preg out of the free list is offered,
\* waits in IS, belongs to the reorder buffer or is committed.
THEOREM NothingLeaks == Spec => []NoLeak
<1>1. IInv => NoLeak
  <2> SUFFICES ASSUME IInv, Settled PROVE NoLeak
    BY DEF NoLeak
  <2>1. ASSUME NEW p \in Offers \cup InIS PROVE p \in Pregs /\ life[p] = "WF_ALLOC"
    <3>1. TypeOK /\ HandedOut
      BY DEF IInv
    <3>2. CASE p \in Offers
      BY <3>1, <3>2 DEF Offers, HandedOut, TypeOK
    <3>3. CASE p \in InIS
      <4>1. PICK i \in DOMAIN is : is[i].preg = p /\ p # None
        BY <3>3 DEF InIS
      <4>2. is[i] \in Insts
        BY <3>1, <4>1, ElementOfSeq, LenProperties DEF TypeOK
      <4> QED BY <3>1, <4>1, <4>2 DEF HandedOut, Insts
    <3> QED BY <2>1, <3>2, <3>3
  <2>2. \A p \in Pregs : life[p] = "WF_ALLOC" => p \in Offers \cup InIS
    BY DEF IInv, AllAccounted
  <2>3. \A p \in Pregs : life[p] = "ALLOC" => \E i \in DOMAIN rob : rob[i].iid = iid[p]
    BY DEF IInv, RobChain, Settled
  <2> QED BY <2>1, <2>2, <2>3 DEF NoLeak
<1> QED BY <1>1, Invariance, PTL

\* With none outstanding, the rename table names, of the pregs that hold or
\* will hold a value of the register, the only one nobody replaces: they are
\* one more than the instructions that replace them, each a different one.
THEOREM TableYoungest == Spec => []TableIsYoungest
<1>1. IInv => TableIsYoungest
  <2> SUFFICES ASSUME IInv, Settled, NEW a \in ARegs
               PROVE  (Committed(a) \cup InFlight(a) \cup {is[i].preg : i \in Waiting(a)})
                         \ Replaced(a) = {rt[a]}
    BY DEF TableIsYoungest
  <2> DEFINE W == {is[i].preg : i \in Waiting(a)}
             R == InFlight(a) \cup W
             index(p) == CHOOSE i \in DOMAIN is : is[i].preg = p
             f == [p \in R |-> IF life[p] = "ALLOC" THEN rel[p] ELSE is[index(p)].rel]
  <2>1. a # None /\ HandedOut /\ FlightChain /\ IsChain /\ TypeOK
    BY PstAssumption DEF IInv
  <2>2. PICK c \in Pregs : Committed(a) = {c}
    BY DEF IInv, OneCommitted
  <2>3. c \in Pregs /\ life[c] = "RETIRE" /\ dst[c] = a
    BY <2>2 DEF Committed
  <2>4. \A p \in InFlight(a) : p \in Pregs /\ life[p] = "ALLOC" /\ dst[p] = a
    BY DEF InFlight
  <2>5. ASSUME NEW i \in Waiting(a)
        PROVE  /\ i \in DOMAIN is /\ is[i].dst = a /\ is[i].dst # None
               /\ is[i].preg \in Pregs /\ life[is[i].preg] = "WF_ALLOC"
               /\ is[i].preg \in W /\ index(is[i].preg) = i
    <3>1. i \in DOMAIN is /\ is[i].dst = a
      BY DEF Waiting
    <3>2. is[i] \in Insts
      BY <2>1, <3>1, ElementOfSeq, LenProperties DEF TypeOK
    <3>3. is[i].preg # None /\ is[i].preg \in Pregs
      BY <2>1, <3>1, <3>2 DEF HandedOut, Insts
    <3>4. \A j \in DOMAIN is : is[j].preg = is[i].preg => i = j
      BY <2>1, <3>1, <3>3 DEF HandedOut
    <3>5. life[is[i].preg] = "WF_ALLOC"
      BY <2>1, <3>1, <3>3 DEF HandedOut
    <3> QED BY <2>1, <3>1, <3>3, <3>4, <3>5
  <2>6. \A p \in W : \E i \in Waiting(a) : p = is[i].preg
    OBVIOUS
  <2>7. \A p \in InFlight(a) : f[p] = rel[p]
    BY <2>4
  <2>8. \A i \in Waiting(a) : f[is[i].preg] = is[i].rel
    BY <2>5
  <2>9. IsFiniteSet(R) /\ c \notin R
    <3>1. R \subseteq Pregs
      BY <2>4, <2>5, <2>6
    <3>2. IsFiniteSet(R)
      BY <3>1, PstAssumption, FS_Subset
    <3>3. c \notin R
      BY <2>3, <2>4, <2>5, <2>6
    <3> QED BY <3>2, <3>3
  <2> HIDE DEF index
  <2>10. ASSUME NEW p \in Pregs, Live(p), dst[p] = a PROVE p \in R \cup {c}
    BY <2>2, <2>10 DEF Live, InFlight, Committed
  <2>11. f \in [R -> R \cup {c}]
    <3>1. ASSUME NEW p \in InFlight(a) PROVE f[p] \in R \cup {c}
      <4>1. rel[p] \in Pregs /\ Live(rel[p]) /\ dst[rel[p]] = a
        BY <2>1, <2>4 DEF FlightChain
      <4> QED BY <2>7, <2>10, <4>1
    <3>2. ASSUME NEW i \in Waiting(a) PROVE f[is[i].preg] \in R \cup {c}
      <4>1. /\ is[i].rel \in Pregs
            /\ \/ Live(is[i].rel) /\ dst[is[i].rel] = a
               \/ \E j \in DOMAIN is : is[j].preg = is[i].rel /\ is[j].dst = a
        BY <2>1, <2>5 DEF IsChain
      <4>2. ASSUME NEW j \in DOMAIN is, is[j].preg = is[i].rel, is[j].dst = a
            PROVE  is[i].rel \in W
        BY <4>2 DEF Waiting
      <4> QED BY <2>8, <2>10, <4>1, <4>2
    <3>3. \A p \in R : f[p] \in R \cup {c}
      BY <2>6, <3>1, <3>2
    <3> QED BY <3>3
  <2>12. ASSUME NEW x \in R, NEW y \in R, f[x] = f[y] PROVE x = y
    <3>1. CASE x \in InFlight(a) /\ y \in InFlight(a)
      BY <2>1, <2>4, <2>7, <2>12, <3>1 DEF FlightChain
    <3>2. ASSUME NEW i \in Waiting(a), NEW j \in Waiting(a),
                 x = is[i].preg, y = is[j].preg
          PROVE  x = y
      <4>1. is[i].rel = is[j].rel
        BY <2>8, <2>12, <3>2
      <4> QED BY <2>1, <2>5, <3>2, <4>1 DEF IsChain
    <3>3. ASSUME NEW i \in Waiting(a), NEW p \in InFlight(a),
                 f[p] = f[is[i].preg]
          PROVE  FALSE
      <4>1. rel[p] = is[i].rel
        BY <2>7, <2>8, <3>3
      <4> QED BY <2>1, <2>4, <2>5, <4>1 DEF IsChain
    <3> QED BY <2>6, <2>12, <3>1, <3>2, <3>3
  <2>13. Replaced(a) = {f[p] : p \in R}
    <3>1. ASSUME NEW q \in Replaced(a) PROVE q \in {f[p] : p \in R}
      <4>1. \/ \E p \in InFlight(a) : q = rel[p]
            \/ \E i \in Waiting(a) : q = is[i].rel
        BY DEF Replaced
      <4> QED BY <2>5, <2>7, <2>8, <4>1
    <3>2. ASSUME NEW p \in R PROVE f[p] \in Replaced(a)
      <4>1. CASE p \in InFlight(a)
        <5>1. f[p] = rel[p]
          BY <2>7, <4>1
        <5> QED BY <4>1, <5>1, Zenon DEF Replaced
      <4>2. ASSUME NEW i \in Waiting(a), p = is[i].preg PROVE f[p] \in Replaced(a)
        <5>1. f[p] = is[i].rel
          BY <2>8, <4>2
        <5> QED BY <5>1, Zenon DEF Replaced
      <4> QED BY <2>6, <4>1, <4>2
    <3> QED BY <3>1, <3>2
  <2>14. rt[a] \in R \cup {c} /\ rt[a] \notin Replaced(a)
    <3>1. /\ rt[a] \in Pregs
          /\ \A p \in Pregs : life[p] = "ALLOC" => rel[p] # rt[a]
          /\ \A i \in DOMAIN is : is[i].dst # None => is[i].rel # rt[a]
          /\ \/ Live(rt[a]) /\ dst[rt[a]] = a
             \/ \E i \in DOMAIN is : is[i].preg = rt[a] /\ is[i].dst = a
      BY <2>1 DEF IInv, TableHead, TypeOK
    <3>2. rt[a] \notin Replaced(a)
      BY <2>4, <2>5, <3>1 DEF Replaced
    <3>3. ASSUME NEW i \in DOMAIN is, is[i].preg = rt[a], is[i].dst = a
          PROVE  rt[a] \in W
      BY <3>3 DEF Waiting
    <3> QED BY <2>10, <3>1, <3>2, <3>3
  <2> HIDE DEF f, R
  <2>15. PICK u \in R \cup {c} : (R \cup {c}) \ {f[p] : p \in R} = {u}
    BY <2>9, <2>11, <2>12, OneLeftOut
  <2>16. (R \cup {c}) \ Replaced(a) = {rt[a]}
    BY <2>13, <2>14, <2>15
  <2> QED BY <2>2, <2>16 DEF R
<1> QED BY <1>1, Invariance, PTL

\* A back-end flush leaves the rename table equal to the committed mapping.
THEOREM Recovery == Spec => RecoveryExact
<1>1. ASSUME IInv, [Next]_vars
      PROVE  [FlushBe => \A a \in ARegs : Committed(a)' = {rt'[a]}]_vars
  <2>1. SUFFICES ASSUME Next, FlushBe, NEW a \in ARegs
                 PROVE  Committed(a)' = {rt'[a]}
    BY <1>1
  <2>2. PICK n, cause, cancel, k, e, g, s, done : Step(n, cause, cancel, k, e, g, s, done)
    BY <1>1, <2>1, NextIsStep
  <2>3. /\ \A p \in Pregs : /\ life'[p] = "RETIRE" <=> life[p] = "RETIRE"
                            /\ life[p] = "RETIRE" => dst'[p] = dst[p]
        /\ rt' = RecoverTable
    BY <1>1, <2>1, <2>2, BackEndStep
  <2>4. Committed(a)' = Committed(a)
    BY <2>3 DEF Committed
  <2>5. PICK c \in Pregs : Committed(a) = {c}
    BY <1>1 DEF IInv, OneCommitted
  <2>6. rt'[a] = CHOOSE p \in Pregs : p \in Committed(a)
    BY <2>1, <2>3 DEF RecoverTable
  <2>7. rt'[a] = c
    BY <2>5, <2>6
  <2> QED BY <2>4, <2>5, <2>7
<1> QED BY <1>1, Invariance, PTL DEF Spec, RecoveryExact

----------------------------------------------------------------------------
(* Results: who waits for one, and who produces it. *)

Used == {"ALLOC", "RETIRE", "RELEASE"}

\* A producer is in the pipes for exactly the pregs in use without a value.
Producers == pend = {p \in Pregs : life[p] \in Used /\ ~wb[p]}

\* A preg in use is freed only with its value, or by a back-end flush that
\* finds it speculative; it retires from the reorder buffer only.
LEMMA UseStep ==
    ASSUME IInv, NEW n, NEW cause, NEW cancel, NEW k, NEW e, NEW g, NEW s, NEW done,
           Step(n, cause, cancel, k, e, g, s, done), NEW p \in Pregs
    PROVE  /\ life[p] \in Used => life'[p] \in Used \cup {"DEALLOC"}
           /\ life[p] \in Used /\ life'[p] = "DEALLOC" => wb[p] \/ (FlushBe /\ life[p] = "ALLOC")
           /\ life[p] \notin Used /\ life'[p] \in Used => ~FlushBe /\ p \in Create(k)
           /\ life'[p] \in {"RETIRE", "RELEASE"} =>
                 life[p] \in {"RETIRE", "RELEASE"} \/ p \in Retiring(n)
           /\ FlushBe => life'[p] # "ALLOC"
           /\ p \in Create(k) => life[p] = "WF_ALLOC" /\ (~FlushBe => life'[p] = "ALLOC")
<1>0. /\ n \in 0 .. Len(rob) /\ (flush # "IDLE" => n = 0)
      /\ PstEdge(n, k, e, Grant(s), done)
  BY Zenon DEF Step, Moves, Grant
<1>1. PICK mask \in SUBSET Leaving(Released(n)) :
         life' = [q \in Pregs |-> NextLife(q, Grant(s), Create(k), Retiring(n), Released(n), mask)]
  BY <1>0, Zenon DEF PstEdge, Create, Released
<1>2. life[p] = "ALLOC" /\ p \in Released(n) => p \in Retiring(n)
  BY <1>0, ReleasedRetire
<1>3. p \in Create(k) => life[p] = "WF_ALLOC"
  BY InfoStep
<1>4. life'[p] = NextLife(p, Grant(s), Create(k), Retiring(n), Released(n), mask)
  BY <1>1, Zenon
<1>5. life[p] \in Lives
  BY DEF IInv, TypeOK
<1>6. CASE life[p] = "DEALLOC"
  BY <1>3, <1>4, <1>6 DEF NextLife, Used
<1>7. CASE life[p] = "WF_ALLOC"
  BY <1>4, <1>7 DEF NextLife, Used
<1>8. CASE life[p] = "ALLOC"
  BY <1>2, <1>3, <1>4, <1>8 DEF NextLife, Used
<1>9. CASE life[p] = "RETIRE"
  BY <1>3, <1>4, <1>9 DEF NextLife, Used
<1>10. CASE life[p] = "RELEASE"
  BY <1>3, <1>4, <1>10 DEF NextLife, Used
<1> QED BY <1>5, <1>6, <1>7, <1>8, <1>9, <1>10 DEF Lives

LEMMA ProducersStep ==
    ASSUME IInv, Producers, NEW n, NEW cause, NEW cancel, NEW k, NEW e, NEW g, NEW s, NEW done,
           Step(n, cause, cancel, k, e, g, s, done)
    PROVE  Producers'
<1>1. /\ wb' = [p \in Pregs |-> NextWb(p, Create(k), done)]
      /\ pend' = IF asyncFlush THEN {}
                 ELSE {p \in (pend \ done) \cup Create(k) :
                          FlushBe => life'[p] \in {"RETIRE", "RELEASE"}}
      /\ done \in SUBSET pend
  BY Zenon DEF Step, Moves, PstEdge, Create
<1>2. pend \subseteq Pregs /\ Create(k) \subseteq Pregs
  BY InfoStep DEF IInv, TypeOK
<1>3. CASE asyncFlush
  BY <1>1, <1>3 DEF Producers, NextWb
<1>4. CASE ~asyncFlush
  <2>1. ASSUME NEW p \in Pregs
        PROVE  p \in pend' <=> life'[p] \in Used /\ ~wb'[p]
    <3>1. wb'[p] = (p \notin Create(k) /\ IF wb[p] THEN life[p] # "DEALLOC" ELSE p \in done)
      BY <1>1, <1>4 DEF NextWb
    <3>2. p \in pend' <=> /\ p \in (pend \ done) \cup Create(k)
                          /\ FlushBe => life'[p] \in {"RETIRE", "RELEASE"}
      BY <1>1, <1>4
    <3>3. p \in pend <=> life[p] \in Used /\ ~wb[p]
      BY DEF Producers
    <3>4. /\ life[p] \in Used => life'[p] \in Used \cup {"DEALLOC"}
          /\ life[p] \in Used /\ life'[p] = "DEALLOC" => wb[p] \/ (FlushBe /\ life[p] = "ALLOC")
          /\ life[p] \notin Used /\ life'[p] \in Used => ~FlushBe /\ p \in Create(k)
          /\ FlushBe => life'[p] # "ALLOC"
          /\ p \in Create(k) => life[p] = "WF_ALLOC" /\ (~FlushBe => life'[p] = "ALLOC")
      BY UseStep
    <3> HIDE DEF Create
    <3>5. CASE p \in Create(k)
      BY <3>1, <3>2, <3>4, <3>5 DEF Used
    <3>6. CASE p \notin Create(k) /\ p \in pend
      BY <3>1, <3>2, <3>3, <3>4, <3>6 DEF Used
    <3>7. CASE p \notin Create(k) /\ p \notin pend
      BY <1>1, <3>1, <3>2, <3>3, <3>4, <3>7 DEF Used
    <3> QED BY <3>5, <3>6, <3>7
  <2>2. pend' \subseteq Pregs
    BY <1>1, <1>2, <1>4
  <2> QED BY <2>1, <2>2 DEF Producers
<1> QED BY <1>3, <1>4

\* The flush state machine leaves for the back end only when every retired
\* preg has its value.
LEMMA NoResultLost ==
    ASSUME IInv, Producers, NEW n, NEW cause, NEW cancel, NEW k, NEW e, NEW g, NEW s, NEW done,
           Step(n, cause, cancel, k, e, g, s, done)
    PROVE  FlushLosesNoResult'
<1> SUFFICES ASSUME FlushBe', ~asyncFlush', NEW p \in pend' PROVE life'[p] = "ALLOC"
  BY DEF FlushLosesNoResult
<1>1. /\ cause \in {"none", "flush", "mispred", "debug"} /\ asyncFlush' = (cause = "debug")
      /\ flush \in FlushStates
      /\ pend' = IF asyncFlush THEN {}
                 ELSE {q \in (pend \ done) \cup Create(k) :
                          FlushBe => life'[q] \in {"RETIRE", "RELEASE"}}
  BY Zenon DEF Step, Moves, PstEdge, Create, IInv, TypeOK
<1>2. PICK empty \in {FALSE, RetiredWb(Retiring(n))} : flush' = NextFlush(cause, empty)
  BY Zenon DEF Step
<1>3. cause # "debug"
  BY <1>1
<1>4. ~FlushBe /\ empty = TRUE
  <2>1. CASE flush = "IDLE"
    BY <1>1, <1>2, <1>3, <2>1 DEF NextFlush, FlushBe, RetiredWb
  <2>2. CASE flush \in {"IS", "FE", "WF_EMPTY"}
    BY <1>1, <1>2, <1>3, <2>2 DEF NextFlush, FlushBe, RetiredWb
  <2>3. CASE FlushBe
    BY <1>1, <1>2, <1>3, <2>3 DEF NextFlush, FlushBe
  <2> QED BY <1>1, <2>1, <2>2, <2>3 DEF FlushBe, FlushStates
<1>5. RetiredWb(Retiring(n))
  BY <1>2, <1>4
<1>6. p \in Pregs /\ life'[p] \in Used
  BY ProducersStep DEF Producers
<1>7. SUFFICES ASSUME life'[p] \in {"RETIRE", "RELEASE"} PROVE FALSE
  BY <1>6 DEF Used
<1>8. life[p] \in {"RETIRE", "RELEASE"} \/ p \in Retiring(n)
  BY <1>6, <1>7, UseStep
<1>9. wb[p]
  BY <1>5, <1>6, <1>8 DEF RetiredWb
<1>10. p \in pend
  <2>1. p \notin Create(k)
    BY <1>4, <1>6, <1>7, UseStep
  <2> QED BY <1>1, <2>1
<1> QED BY <1>9, <1>10 DEF Producers

\* Dispatch, write-back, retirement, release and flush keep the two in step.
THEOREM ProducersInvariance == Spec => [](Producers /\ FlushLosesNoResult)
<1>1. Init => Producers /\ FlushLosesNoResult
  <2> SUFFICES ASSUME Init PROVE Producers /\ FlushLosesNoResult
    OBVIOUS
  <2>1. \A p \in Pregs : life[p] \in Used => wb[p]
    BY DEF Init, Used
  <2>2. pend = {} /\ flush = "IDLE"
    BY DEF Init
  <2> QED BY <2>1, <2>2 DEF Producers, FlushLosesNoResult, FlushBe
<1>2. ASSUME IInv, Producers /\ FlushLosesNoResult, [Next]_vars
      PROVE  (Producers /\ FlushLosesNoResult)'
  <2>1. CASE Next
    <3>1. PICK n, cause, cancel, k, e, g, s, done : Step(n, cause, cancel, k, e, g, s, done)
      BY <1>2, <2>1, NextIsStep
    <3>2. Producers'
      BY <1>2, <3>1, ProducersStep
    <3>3. FlushLosesNoResult'
      BY <1>2, <3>1, NoResultLost
    <3> QED BY <3>2, <3>3
  <2>2. CASE UNCHANGED vars
    BY <1>2, <2>2 DEF vars, Producers, FlushLosesNoResult, FlushBe
  <2> QED BY <1>2, <2>1, <2>2
<1> QED BY <1>1, <1>2, Invariance, PTL DEF Spec

\* No result is on its way to a preg that is free or being handed out.
THEOREM NoStaleResult == Spec => []NoStaleWriteBack
<1>1. Producers => NoStaleWriteBack
  BY DEF Producers, NoStaleWriteBack, Used
<1> QED BY <1>1, ProducersInvariance, PTL

\* A back-end flush that no debugger forces kills no result of a retired
\* instruction.
THEOREM FlushKeepsResults == Spec => []FlushLosesNoResult
BY ProducersInvariance, PTL

\* Whoever retired without its value has a producer in the pipes, so that
\* neither the flush nor the release of its preg waits for ever.
THEOREM NobodyOrphaned == Spec => []NoOrphan
<1>1. Producers => NoOrphan
  BY DEF Producers, NoOrphan, Used
<1> QED BY <1>1, ProducersInvariance, PTL
=============================================================================
