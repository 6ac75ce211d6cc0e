------------------------ MODULE RetireCommitProofs -------------------------
(* Theorems about commit, retirement and the requests to flush, for every   *)
(* set of scenarios and every size of the reorder buffer.                   *)
EXTENDS RetireCommit, FiniteSetTheorems, SequenceTheorems, TLAPS

----------------------------------------------------------------------------
(* The ports that load their retire entry. *)

\* The ports load without a gap, so as many instructions as there are loading
\* ports leave the window, all of them completed.
LEMMA LoadsPrefix ==
    ASSUME NEW S, NEW w \in Seq(S)
    PROVE  /\ Cardinality(Loads(w)) \in 0 .. Len(w) /\ Cardinality(Loads(w)) <= 3
           /\ \A i \in 1 .. Cardinality(Loads(w)) : w[i].kind # None
           /\ SingleRetire => Cardinality(Loads(w)) <= 1
           /\ Loads(w) = 1 .. Cardinality(Loads(w))
<1>1. Len(w) \in Nat
  BY LenProperties
<1>2. Loads(w) \subseteq 1 .. 3 /\ \A i \in Loads(w) : i <= Len(w) /\ w[i].kind # None
  BY DEF Loads
<1>3. \A i \in Loads(w) : \A j \in 1 .. i : j \in Loads(w)
  <2> SUFFICES ASSUME NEW i \in Loads(w), NEW j \in 1 .. i PROVE j \in Loads(w)
    OBVIOUS
  <2>1. /\ i \in 1 .. 3 /\ i <= Len(w) /\ ~RtMask
        /\ \A m \in 1 .. i : w[m].kind # None /\ ~CommitMask(m, w[m].iid)
        /\ i > 1 => /\ ~SingleRetire
                    /\ \A m \in 1 .. i : ~Abnormal(w[m].kind)
                    /\ \A m \in 2 .. i : w[m].kind # "ras"
    BY Zenon DEF Loads
  <2>2. j \in 1 .. 3 /\ j <= Len(w) /\ j <= i /\ (j > 1 => i > 1)
        /\ (\A m \in 1 .. j : m \in 1 .. i) /\ (\A m \in 2 .. j : m \in 2 .. i)
    BY <1>1, <2>1
  <2>3. j > 1 => /\ ~SingleRetire
                 /\ \A m \in 1 .. j : ~Abnormal(w[m].kind)
                 /\ \A m \in 2 .. j : w[m].kind # "ras"
    BY <2>1, <2>2, Zenon
  <2>4. \A m \in 1 .. j : w[m].kind # None /\ ~CommitMask(m, w[m].iid)
    BY <2>1, <2>2, Zenon
  <2> QED BY <2>1, <2>2, <2>3, <2>4, Zenon DEF Loads
<1>4. SingleRetire => Loads(w) \subseteq 1 .. 1
  <2> SUFFICES ASSUME SingleRetire, NEW i \in Loads(w) PROVE i = 1
    OBVIOUS
  <2>1. i \in 1 .. 3 /\ (i > 1 => ~SingleRetire)
    BY Zenon DEF Loads
  <2> QED BY <2>1
<1> DEFINE L == Loads(w)
<1> HIDE DEF L
<1>5. \E n \in 0 .. 3 : L = 1 .. n
  <2>1. L \subseteq 1 .. 3 /\ \A i \in L : \A j \in 1 .. i : j \in L
    BY <1>2, <1>3 DEF L
  <2>2. 1 .. 3 = {1, 2, 3} /\ 1 .. 2 = {1, 2} /\ 1 .. 1 = {1} /\ 1 .. 0 = {}
    OBVIOUS
  <2>3. (3 \in L => 2 \in L) /\ (2 \in L => 1 \in L)
    <3>1. 2 \in 1 .. 3 /\ 1 \in 1 .. 2
      OBVIOUS
    <3> QED BY <2>1, <3>1
  <2>4. L \subseteq {1, 2, 3}
    BY <2>1, <2>2
  <2>5. L \in {{}, {1}, {1, 2}, {1, 2, 3}}
    <3>1. CASE 3 \in L
      BY <2>3, <2>4, <3>1
    <3>2. CASE 3 \notin L /\ 2 \in L
      BY <2>3, <2>4, <3>2
    <3>3. CASE 2 \notin L
      BY <2>3, <2>4, <3>3
    <3> QED BY <3>1, <3>2, <3>3
  <2>6. L = 1 .. 0 \/ L = 1 .. 1 \/ L = 1 .. 2 \/ L = 1 .. 3
    BY <2>2, <2>5
  <2> QED BY <2>6
<1>6. PICK n \in 0 .. 3 : L = 1 .. n
  BY <1>5
<1>7. Cardinality(L) = n
  <2>1. Cardinality(1 .. n) = IF 1 > n THEN 0 ELSE n - 1 + 1
    BY FS_Interval
  <2> QED BY <1>6, <2>1
<1>8. n \in 0 .. Len(w) /\ \A i \in 1 .. n : w[i].kind # None
  BY <1>1, <1>2, <1>6 DEF L
<1>9. SingleRetire => n <= 1
  <2>1. SingleRetire => 1 .. n \subseteq 1 .. 1
    BY <1>4, <1>6 DEF L
  <2> QED BY <2>1
<1> QED BY <1>6, <1>7, <1>8, <1>9 DEF L

----------------------------------------------------------------------------
(* One clock edge. *)

\* The invariant: while a flush is in progress nothing is in the buffer, and
\* no asynchronous exception is about to ask for another one.
FlushQuiet ==
    /\ flush # "IDLE" => rob = <<>> /\ ret = <<>>
    /\ ae = "EXPT" => flush = "IDLE" /\ ret = <<>>

IInv == TypeOK /\ NeverOverflows /\ FlushQuiet /\ SpecFailAlone

\* The window with the completions of an edge.
LEMMA CompletedIs ==
    ASSUME TypeOK, NEW c \in Completions
    PROVE  /\ Completed(c) \in Seq([iid : Iids, kind : Kinds \cup {None}])
           /\ Len(Completed(c)) = Len(rob) /\ DOMAIN Completed(c) = 1 .. Len(rob)
           /\ Len(rob) \in Nat
<1>1. /\ rob \in Seq([iid : Iids, kind : Kinds \cup {None}]) /\ Len(rob) \in Nat
      /\ DOMAIN rob = 1 .. Len(rob)
      /\ \A i \in 1 .. Len(rob) : rob[i] \in [iid : Iids, kind : Kinds \cup {None}]
  BY LenProperties, ElementOfSeq DEF TypeOK
<1>2. c \in [DOMAIN rob -> Kinds \cup {None}]
  BY DEF Completions, Open
<1>3. \A i \in 1 .. Len(rob) :
         (IF c[i] = None THEN rob[i] ELSE [rob[i] EXCEPT !.kind = c[i]])
            \in [iid : Iids, kind : Kinds \cup {None}]
  BY <1>1, <1>2
<1>4. Completed(c) \in [1 .. Len(rob) -> [iid : Iids, kind : Kinds \cup {None}]]
  BY <1>1, <1>3 DEF Completed
<1> QED BY <1>1, <1>4

\* What Next chooses, named.
Chosen(dq, async, ctcReq, fail, c, k, p) ==
    /\ dq \subseteq Events \cap {"jdb", "sdb"} /\ async \in Pulse("async")
    /\ ctcReq \in BOOLEAN /\ fail \in Iids \cup {None} /\ c \in Completions /\ k \in 0 .. CreateWidth
    /\ fail # None => /\ "ssf" \in Events
                      /\ \E i \in DOMAIN rob : rob[i].iid = fail /\ rob[i].kind = None
                      /\ \A i \in DOMAIN rob : rob[i].iid = fail => c[i] = None
    /\ Edge(dq, async, ctcReq, fail, c, k, p)

LEMMA NextIsEdge ==
    ASSUME TypeOK, Next
    PROVE  \E dq, async, ctcReq, fail, c, k, p : Chosen(dq, async, ctcReq, fail, c, k, p)
<1>1. PICK r \in Requests, c \in Completions, k \in 0 .. CreateWidth, p \in Pipes : Step(r, c, k, p)
  BY Zenon DEF Next
<1>2. /\ r.dbg \subseteq Events \cap {"jdb", "sdb"} /\ r.async \in Pulse("async")
      /\ r.ctc \in BOOLEAN /\ r.fail \in Failing
  BY <1>1 DEF Requests, Pulse
<1>3. Failing \subseteq Iids \cup {None}
  <2>1. \A i \in DOMAIN rob : rob[i] \in [iid : Iids, kind : Kinds \cup {None}]
    BY LenProperties, ElementOfSeq DEF TypeOK
  <2> QED BY <2>1 DEF Failing, Open
<1>4. /\ Edge(r.dbg, r.async, r.ctc, r.fail, c, k, p)
      /\ r.fail # None => \A i \in DOMAIN rob : rob[i].iid = r.fail => c[i] = None
  BY <1>1, Zenon DEF Step
<1>5. r.fail # None => /\ "ssf" \in Events
                       /\ \E i \in DOMAIN rob : rob[i].iid = r.fail /\ rob[i].kind = None
  BY <1>2 DEF Failing, Open
<1>6. r.fail \in Iids \cup {None}
  BY <1>2, <1>3
<1> QED BY <1>1, <1>2, <1>4, <1>5, <1>6, Zenon DEF Chosen

\* What is left in the window, and what is created.
Left(w)    == SubSeq(w, Cardinality(Loads(w)) + 1, Len(w))
Created(k) == [i \in 1 .. k |-> [iid |-> (nextIid + i - 1) % Entries, kind |-> None]]

LEMMA TableOfLength ==
    ASSUME NEW S, NEW m \in Nat, NEW f \in [1 .. m -> S]
    PROVE  f \in Seq(S) /\ Len(f) = m
OBVIOUS

LEMMA Sizes == /\ Entries \in Nat \ {0} /\ CreateWidth \in 1 .. Entries
               /\ Iids = 0 .. Entries - 1
  BY RetireCommitAssumption DEF Iids

LEMMA IdsWrap ==
    ASSUME NEW x \in Nat
    PROVE  x % Entries \in Iids
BY Sizes

\* What is in the buffer and in the retire entries after an edge.
LEMMA BufferStep ==
    ASSUME TypeOK, NEW dq, NEW async, NEW ctcReq, NEW fail, NEW c, NEW k, NEW p,
           Chosen(dq, async, ctcReq, fail, c, k, p)
    PROVE  /\ RobFlush(dq) => rob' = <<>> /\ ret' = <<>>
           /\ ~RobFlush(dq) => Len(rob') + Len(ret') = Len(rob) + k
           /\ rob' \in Seq([iid : Iids, kind : Kinds \cup {None}])
           /\ ret' \in Seq([iid : Iids, kind : Kinds]) /\ Len(ret') <= 3
           /\ SingleRetire => Len(ret') <= 1
           /\ RtMask => ret' = <<>>
           /\ rob = <<>> => ret' = <<>> /\ (k = 0 => rob' = <<>>)
<1> DEFINE Entry == [iid : Iids, kind : Kinds \cup {None}]
           w == Completed(c)
           n == Cardinality(Loads(w))
<1>0. RobEdge(dq, c, k) /\ c \in Completions /\ k \in 0 .. CreateWidth
  BY Zenon DEF Chosen, Edge
<1>1. nextIid \in Nat /\ CreateWidth \in Nat
  BY Sizes DEF TypeOK
<1>2. w \in Seq(Entry) /\ Len(w) = Len(rob) /\ Len(w) \in Nat
  BY <1>0, CompletedIs
<1>3. CASE RobFlush(dq)
  <2>1. rob' = <<>> /\ ret' = <<>>
    BY <1>0, <1>3, Zenon DEF RobEdge
  <2> QED BY <1>3, <2>1, EmptySeq
<1>4. CASE ~RobFlush(dq)
  <2>1. rob' = Left(w) \o Created(k) /\ ret' = SubSeq(w, 1, n)
    BY <1>0, <1>4, Zenon DEF RobEdge, Left, Created
  <2>2. /\ n \in 0 .. Len(w) /\ n <= 3 /\ \A i \in 1 .. n : w[i].kind # None
        /\ SingleRetire => n <= 1
    BY <1>2, LoadsPrefix
  <2>3. RtMask => n = 0
    <3>1. RtMask => Loads(w) = {}
      BY DEF Loads
    <3> QED BY <3>1, FS_EmptySet
  <2>4. Left(w) \in Seq(Entry) /\ Len(Left(w)) = Len(w) - n
    <3> HIDE DEF n, w, Entry
    <3>1. n \in Nat /\ Len(w) \in Nat /\ n <= Len(w)
      BY <1>2, <2>2
    <3>2. \A i \in n + 1 .. Len(w) : w[i] \in Entry
      BY <1>2, <3>1, ElementOfSeq
    <3>3. Left(w) = SubSeq(w, n + 1, Len(w))
      BY DEF n, Left
    <3>4. SubSeq(w, n + 1, Len(w)) \in Seq(Entry)
      BY <3>1, <3>2, SubSeqProperties
    <3>5. Len(SubSeq(w, n + 1, Len(w))) = IF n + 1 <= Len(w) THEN Len(w) - (n + 1) + 1 ELSE 0
      BY <3>1, <3>2, SubSeqProperties
    <3> QED BY <3>1, <3>3, <3>4, <3>5
  <2>5. Created(k) \in Seq(Entry) /\ Len(Created(k)) = k
    <3>1. \A i \in 1 .. k : [iid |-> (nextIid + i - 1) % Entries, kind |-> None] \in Entry
      <4> SUFFICES ASSUME NEW i \in 1 .. k PROVE (nextIid + i - 1) % Entries \in Iids
        OBVIOUS
      <4>1. nextIid + i - 1 \in Nat
        BY <1>0, <1>1
      <4> QED BY <4>1, IdsWrap
    <3> HIDE DEF Entry
    <3>2. Created(k) \in [1 .. k -> Entry] /\ k \in Nat
      BY <1>0, <3>1 DEF Created
    <3> QED BY <3>2, TableOfLength
  <2> DEFINE l == Left(w)
             t == Created(k)
  <2> HIDE DEF l, t, w, n, Entry
  <2>6. rob' \in Seq(Entry) /\ Len(rob') = Len(w) - n + k
    <3>1. l \in Seq(Entry) /\ t \in Seq(Entry) /\ Len(l) = Len(w) - n /\ Len(t) = k
      BY <2>4, <2>5 DEF l, t
    <3>2. l \o t \in Seq(Entry) /\ Len(l \o t) = Len(l) + Len(t)
      BY <3>1, ConcatProperties
    <3>3. rob' = l \o t
      BY <2>1 DEF l, t
    <3> QED BY <3>1, <3>2, <3>3
  <2>8. ret' \in Seq([iid : Iids, kind : Kinds]) /\ Len(ret') = n
    <3>1. \A i \in 1 .. n : w[i] \in [iid : Iids, kind : Kinds]
      <4> SUFFICES ASSUME NEW i \in 1 .. n PROVE w[i] \in [iid : Iids, kind : Kinds]
        OBVIOUS
      <4>1. w[i] \in Entry /\ w[i].kind # None
        <5>1. i \in 1 .. Len(w)
          BY <1>2, <2>2
        <5> QED BY <1>2, <2>2, <5>1, ElementOfSeq
      <4> QED BY <4>1 DEF Entry
    <3>2. SubSeq(w, 1, n) \in Seq([iid : Iids, kind : Kinds])
      BY <1>2, <2>2, <3>1, SubSeqProperties
    <3>3. Len(SubSeq(w, 1, n)) = IF 1 <= n THEN n - 1 + 1 ELSE 0
      BY <1>2, <2>2, <3>1, SubSeqProperties
    <3> QED BY <2>1, <2>2, <3>2, <3>3
  <2>9. (n = 0 => ret' = <<>>) /\ (Len(rob') = 0 => rob' = <<>>)
    BY <2>6, <2>8, EmptySeq
  <2>10. rob = <<>> => Len(w) = 0
    BY <1>2, EmptySeq
  <2>7. Len(rob') + Len(ret') = Len(rob) + k
    BY <1>0, <1>1, <1>2, <2>2, <2>6, <2>8
  <2> QED BY <1>0, <1>2, <1>4, <2>2, <2>3, <2>6, <2>7, <2>8, <2>9, <2>10 DEF Entry
<1> QED BY <1>3, <1>4

----------------------------------------------------------------------------
(* A step preserves each part of the invariant. *)

\* The flag of the edge before leaves room for what is created at this one.
LEMMA CountStep ==
    ASSUME TypeOK, NeverOverflows,
           NEW dq, NEW async, NEW ctcReq, NEW fail, NEW c, NEW k, NEW p,
           Chosen(dq, async, ctcReq, fail, c, k, p)
    PROVE  NeverOverflows' /\ num' \in Nat /\ full' \in BOOLEAN /\ Len(rob) + k <= Entries
<1> DEFINE n == num + k - Len(ret)
<1>1. CountEdge(dq, k) /\ k \in 0 .. CreateWidth /\ (k > 0 => ~full)
  BY Zenon DEF Chosen, Edge
<1>2. /\ Len(rob) \in Nat /\ Len(ret) \in Nat /\ num = Len(rob) + Len(ret)
      /\ num <= Entries /\ (full <=> num > Entries - CreateWidth)
  BY LenProperties DEF TypeOK, NeverOverflows, InUse
<1>3. n \in 0 .. Entries /\ n = Len(rob) + k
  BY <1>1, <1>2, Sizes
<1>4. CASE RobFlush(dq)
  <2>1. Len(rob') + Len(ret') = 0 /\ num' = 0
    BY <1>1, <1>4, BufferStep, EmptySeq DEF CountEdge
  <2>2. full' \in BOOLEAN /\ ~full'
    BY <1>1, <1>4, Zenon DEF CountEdge
  <2>3. 0 <= Entries /\ ~(0 > Entries - CreateWidth) /\ 0 \in Nat
    BY Sizes
  <2>4. NeverOverflows'
    BY <2>1, <2>2, <2>3 DEF NeverOverflows, InUse
  <2>5. Len(rob) + k <= Entries
    BY <1>1, <1>2, <1>3
  <2> QED BY <2>1, <2>2, <2>3, <2>4, <2>5
<1>5. CASE ~RobFlush(dq)
  <2>1. /\ Len(rob') + Len(ret') = n /\ num' = n
        /\ full' = IF k > 0 \/ Retiring0 THEN AlmostFull(n) ELSE full
    <3>1. Len(rob') + Len(ret') = Len(rob) + k
      BY <1>5, BufferStep
    <3> QED BY <1>1, <1>3, <1>5, <3>1 DEF CountEdge
  <2>2. AlmostFull(n) <=> n > Entries - CreateWidth
    BY <1>3, Sizes DEF AlmostFull
  <2>3. AlmostFull(n) \in BOOLEAN
    BY DEF AlmostFull
  <2>4. ~(k > 0 \/ Retiring0) => n = num
    <3> SUFFICES ASSUME ~(k > 0), ret = <<>> PROVE n = num
      BY DEF Retiring0
    <3>1. Len(ret) = 0
      BY EmptySeq
    <3> QED BY <1>1, <1>2, <3>1, Sizes
  <2> HIDE DEF n
  <2>5. full' \in BOOLEAN /\ (full' <=> n > Entries - CreateWidth)
    <3>1. CASE k > 0 \/ Retiring0
      BY <2>1, <2>2, <2>3, <3>1
    <3>2. CASE ~(k > 0 \/ Retiring0)
      BY <1>2, <2>1, <2>4, <3>2 DEF TypeOK
    <3> QED BY <3>1, <3>2
  <2> QED BY <1>3, <2>1, <2>5 DEF NeverOverflows, InUse
<1> QED BY <1>4, <1>5

LEMMA TypeStep ==
    ASSUME TypeOK, NeverOverflows, NEW dq, NEW async, NEW ctcReq, NEW fail, NEW c, NEW k, NEW p,
           Chosen(dq, async, ctcReq, fail, c, k, p)
    PROVE  TypeOK'
<1> DEFINE w == Completed(c)
<1>1. /\ RobEdge(dq, c, k) /\ SsfEdge(dq, fail) /\ scenario' = scenario
      /\ flush' = NextFlush(dq, p.empty) /\ ae' = NextAe(dq, async, p.wb)
      /\ ctc' = (ctcReq \/ (ctc /\ ~FlushFe)) /\ drReq' = dr
      /\ c \in Completions /\ k \in 0 .. CreateWidth /\ fail \in Iids \cup {None}
      /\ ctcReq \in BOOLEAN
  BY Zenon DEF Chosen, Edge
<1>2. /\ \/ /\ dr' \in IF "dr" \in Events THEN {TRUE, dr} ELSE {FALSE}
            /\ ifuDbg' = (ifuDbg \/ DbgAck(dq))
            /\ dbgMode' = (dbgMode \/ (FlushBe /\ ifuDbg))
         \/ dr' = FALSE /\ UNCHANGED <<ifuDbg, dbgMode>>
         \/ dr' = dr /\ ifuDbg' = DbgAck(dq) /\ dbgMode' = (FlushBe /\ ifuDbg)
      /\ int' \in IF "int" \notin Events \/ ExptVld(dq) THEN {FALSE} ELSE BOOLEAN
  BY Zenon DEF Chosen, Edge
<1>3. /\ w \in Seq([iid : Iids, kind : Kinds \cup {None}]) /\ Len(w) = Len(rob)
      /\ \A i \in 1 .. Len(w) : w[i].iid \in Iids
  <2>1. w \in Seq([iid : Iids, kind : Kinds \cup {None}]) /\ Len(w) = Len(rob)
    BY <1>1, CompletedIs
  <2>2. \A i \in 1 .. Len(w) : w[i] \in [iid : Iids, kind : Kinds \cup {None}]
    BY <2>1, ElementOfSeq
  <2> QED BY <2>1, <2>2
<1>4. rob' \in Seq([iid : Iids, kind : Kinds \cup {None}])
      /\ ret' \in Seq([iid : Iids, kind : Kinds]) /\ Len(ret') <= 3
  BY BufferStep
<1>5. Kinds' = Kinds /\ scenario' \in Scenarios
  BY <1>1 DEF Kinds, TypeOK
<1>6. nextIid' \in Iids
  <2>1. 0 \in Iids /\ nextIid + k \in Nat
    BY <1>1, Sizes DEF TypeOK
  <2> QED BY <1>1, <2>1, IdsWrap DEF RobEdge
<1>7. {retInt', retCtc', retDbgDis'} \subseteq BOOLEAN
  BY <1>1 DEF RobEdge, ReadInt, ReadCtc, DbgDis, Commit2, TypeOK
<1>8. {ctc', int', dr', drReq', ifuDbg', dbgMode'} \subseteq BOOLEAN
  <2>1. DbgAck(dq) \in BOOLEAN /\ FlushBe \in BOOLEAN
    BY DEF DbgAck, FlushBe
  <2> HIDE DEF DbgAck, FlushBe
  <2> QED BY <1>1, <1>2, <2>1 DEF TypeOK
<1>9. commit' \in [1 .. 3 -> Iids \cup {None}] /\ announced' \subseteq Iids
  <2>1. CASE RobFlush(dq)
    BY <1>1, <2>1 DEF RobEdge
  <2>2. CASE ~RobFlush(dq)
    <3>1. /\ commit' = [i \in 1 .. 3 |-> IF i \in Commits(w) THEN w[i].iid ELSE None]
          /\ announced' = (announced \cup ({commit[i] : i \in 1 .. 3} \ {None})) \ Retired
      BY <1>1, <2>2, Zenon DEF RobEdge
    <3>2. \A i \in Commits(w) : i \in 1 .. Len(w)
      BY <1>3, LenProperties DEF Commits
    <3>3. announced' \subseteq Iids
      BY <3>1 DEF TypeOK
    <3>4. \A i \in Commits(w) : w[i].iid \in Iids
      BY <1>3, <3>2
    <3> HIDE DEF w
    <3> QED BY <3>1, <3>3, <3>4
  <2> QED BY <2>1, <2>2
<1>10. flush' \in {"IDLE", "IS", "FE", "WF_EMPTY", "IS_BE", "FE_BE", "BE"}
  <2>1. flush \in {"IDLE", "IS", "FE", "WF_EMPTY", "IS_BE", "FE_BE", "BE"}
    BY DEF TypeOK
  <2> QED BY <1>1, <2>1 DEF NextFlush, FlushBe
<1>11. ae' \in {"IDLE", "WFC", "WFI", "EXPT"}
  <2>1. ae \in {"IDLE", "WFC", "WFI", "EXPT"}
    BY DEF TypeOK
  <2> QED BY <1>1, <2>1 DEF NextAe
<1>12. ssf' \in {"IDLE", "WF_RETIRE", "RETIRING"} /\ ssfIid' \in Iids \cup {None}
  <2>1. ssf \in {"IDLE", "WF_RETIRE", "RETIRING"} /\ ssfIid \in Iids \cup {None}
    BY DEF TypeOK
  <2> QED BY <1>1, <2>1 DEF SsfEdge
<1>13. num' \in Nat /\ full' \in BOOLEAN
  BY CountStep
<1> QED BY <1>4, <1>5, <1>6, <1>7, <1>8, <1>9, <1>10, <1>11, <1>12, <1>13 DEF TypeOK

LEMMA QuietStep ==
    ASSUME IInv, NEW dq, NEW async, NEW ctcReq, NEW fail, NEW c, NEW k, NEW p,
           Chosen(dq, async, ctcReq, fail, c, k, p)
    PROVE  FlushQuiet'
<1>1. /\ flush' = NextFlush(dq, p.empty) /\ ae' = NextAe(dq, async, p.wb)
      /\ k \in 0 .. CreateWidth /\ (k > 0 => flush = "IDLE")
  BY Zenon DEF Chosen, Edge
<1>2. /\ flush \in {"IDLE", "IS", "FE", "WF_EMPTY", "IS_BE", "FE_BE", "BE"}
      /\ ae \in {"IDLE", "WFC", "WFI", "EXPT"}
  BY DEF IInv, TypeOK
<1>3. /\ RobFlush(dq) => rob' = <<>> /\ ret' = <<>>
      /\ RtMask => ret' = <<>>
      /\ rob = <<>> => ret' = <<>> /\ (k = 0 => rob' = <<>>)
  BY BufferStep DEF IInv
<1>4. ASSUME flush' # "IDLE", ~RobFlush(dq) PROVE rob' = <<>> /\ ret' = <<>>
  <2>1. ~FlushReq(dq) /\ ~MispredReq /\ flush \notin {"FE", "FE_BE", "IS", "IS_BE"}
    BY <1>4 DEF RobFlush, FlushFe
  <2>2. "jdb" \notin dq
    BY <2>1 DEF FlushReq, DbgAck
  <2>3. flush = "WF_EMPTY"
    BY <1>1, <1>2, <1>4, <2>1, <2>2 DEF NextFlush, FlushBe
  <2> QED BY <1>1, <1>3, <2>3 DEF IInv, FlushQuiet
<1>5. ASSUME ae' = "EXPT" PROVE flush' = "IDLE" /\ ret' = <<>>
  <2>1. ae = "WFI" /\ "jdb" \notin dq /\ ret = <<>> /\ flush = "IDLE"
    BY <1>1, <1>2, <1>5 DEF NextAe, NoRetire
  <2>2. ~FlushReq(dq) /\ ~MispredReq
    BY <2>1 DEF FlushReq, MispredReq, ExptVld, InstFlush, DbgAck, NormalRetire, Retiring0
  <2>3. flush' = "IDLE"
    BY <1>1, <2>1, <2>2 DEF NextFlush
  <2> QED BY <1>3, <2>1, <2>3 DEF RtMask
<1> QED BY <1>3, <1>4, <1>5 DEF FlushQuiet

LEMMA AloneStep ==
    ASSUME IInv, NEW dq, NEW async, NEW ctcReq, NEW fail, NEW c, NEW k, NEW p,
           Chosen(dq, async, ctcReq, fail, c, k, p)
    PROVE  SpecFailAlone'
<1>1. SUFFICES ASSUME ssf' = "RETIRING" PROVE Len(ret') <= 1
  BY DEF SpecFailAlone
<1>2. SsfEdge(dq, fail) /\ ssf \in {"IDLE", "WF_RETIRE", "RETIRING"}
  BY Zenon DEF Chosen, Edge, IInv, TypeOK
<1>3. ssf # "IDLE"
  BY <1>1, <1>2 DEF SsfEdge
<1> QED BY <1>3, BufferStep DEF SingleRetire, IInv

LEMMA InitInv == Init => IInv
<1> SUFFICES ASSUME Init PROVE IInv
  OBVIOUS
<1>1. \A S : <<>> \in Seq(S)
  BY EmptySeq
<1>2. Len(<<>>) = 0 /\ 0 \in Iids
  BY EmptySeq, Sizes
<1>3. commit \in [1 .. 3 -> Iids \cup {None}]
  BY DEF Init
<1>4. TypeOK
  <2>1. /\ rob \in Seq([iid : Iids, kind : Kinds \cup {None}])
        /\ ret \in Seq([iid : Iids, kind : Kinds])
    BY <1>1 DEF Init
  <2>2. Len(ret) <= 3 /\ nextIid \in Iids /\ num \in Nat
    BY <1>2 DEF Init
  <2>5. full \in BOOLEAN
    BY Zenon DEF Init
  <2>3. {retInt, retCtc, retDbgDis, ctc, int, dr, drReq, ifuDbg, dbgMode} \subseteq BOOLEAN
    BY DEF Init
  <2>4. /\ scenario \in Scenarios /\ announced \subseteq Iids
        /\ flush = "IDLE" /\ ae = "IDLE" /\ ssf = "IDLE" /\ ssfIid = None
    BY DEF Init
  <2> QED BY <1>3, <2>1, <2>2, <2>3, <2>4, <2>5 DEF TypeOK
<1>5. NeverOverflows
  <2>1. InUse = 0 /\ num = 0 /\ full = FALSE
    BY <1>2 DEF Init, InUse
  <2> QED BY <2>1, Sizes DEF NeverOverflows
<1> QED BY <1>2, <1>4, <1>5 DEF Init, IInv, FlushQuiet, SpecFailAlone

\* Every clock edge keeps the invariant.
THEOREM Invariance == Spec => []IInv
<1>1. Init => IInv
  BY InitInv
<1>2. IInv /\ [Next]_vars => IInv'
  <2> SUFFICES ASSUME IInv, [Next]_vars PROVE IInv'
    OBVIOUS
  <2>1. CASE Next
    <3>1. PICK dq, async, ctcReq, fail, c, k, p : Chosen(dq, async, ctcReq, fail, c, k, p)
      BY <2>1, NextIsEdge DEF IInv
    <3>2. TypeOK'
      BY <3>1, TypeStep DEF IInv
    <3>3. FlushQuiet'
      BY <3>1, QuietStep
    <3>4. SpecFailAlone'
      BY <3>1, AloneStep
    <3>5. NeverOverflows'
      BY <3>1, CountStep DEF IInv
    <3> QED BY <3>2, <3>3, <3>4, <3>5 DEF IInv
  <2>2. CASE UNCHANGED vars
    BY <2>2 DEF vars, IInv, TypeOK, Kinds, FlushQuiet, SpecFailAlone, NeverOverflows, InUse
  <2> QED BY <2>1, <2>2
<1> QED BY <1>1, <1>2, PTL DEF Spec

\* At most three instructions retire at an edge, and all of them have completed.
THEOREM TypeCorrect == Spec => []TypeOK
<1>1. IInv => TypeOK
  BY DEF IInv
<1> QED BY <1>1, Invariance, PTL

\* The flag that stops creation is up exactly while a full group might not
\* fit, so that no entry is created over one in use, whatever the number of
\* entries and the most created at an edge.
THEOREM BufferNeverOverflows == Spec => []NeverOverflows
<1>1. IInv => NeverOverflows
  BY DEF IInv
<1> QED BY <1>1, Invariance, PTL

\* Whatever asks for a flush asks while the flush state machine listens.
THEOREM NoRequestLost == Spec => []RequestsInIdle
<1>1. IInv => RequestsInIdle
  BY DEF IInv, FlushQuiet, RequestsInIdle, FlushReq, MispredReq, ExptVld, InstFlush, DbgAck,
         NormalRetire, Retiring0
<1> QED BY <1>1, Invariance, PTL

\* Once a failed part of a split instruction has retired, at most one part
\* retires at an edge, and nothing younger with it.
THEOREM FailedRetiresAlone == Spec => []SpecFailAlone
<1>1. IInv => SpecFailAlone
  BY DEF IInv
<1> QED BY <1>1, Invariance, PTL

----------------------------------------------------------------------------
(* Committed instructions are spared.                                       *)

\* The id that is d behind nextIid.
Back(d) == IF nextIid >= d THEN nextIid - d ELSE nextIid + Entries - d

\* The live instructions, those retiring first, have consecutive ids.
IdsInOrder ==
    /\ \A i \in DOMAIN ret : ret[i].iid = Back(Len(rob) + Len(ret) + 1 - i)
    /\ \A i \in DOMAIN rob : rob[i].iid = Back(Len(rob) + 1 - i)

\* Every committed instruction retires or is one of the two oldest of the
\* buffer.  The second one was committed last by port 2, and the one before
\* it by port 1, complete, so that it retires at the next edge.  Nothing is
\* committed behind an abnormal instruction.
CommittedAhead ==
    /\ Announced \subseteq Retired \cup {rob[i].iid : i \in DOMAIN rob \cap {1, 2}}
    /\ 2 \in DOMAIN rob /\ rob[2].iid \in Announced =>
          /\ commit[3] = rob[2].iid /\ commit[2] = rob[1].iid
          /\ rob[1].kind # None /\ ~Abnormal(rob[1].kind) /\ ae # "WFI"
    /\ \A i \in DOMAIN rob \cap {1, 2} : rob[i].iid \in Announced =>
          \A j \in DOMAIN ret : ~Abnormal(ret[j].kind)

NothingAhead == Announced \subseteq Retired

\* What retires with a request behind it retires last of the committed ones.
RequestsWait ==
    /\ retInt \/ retCtc => NothingAhead
    /\ drReq /\ ~retDbgDis /\ ret # <<>> => NothingAhead
    /\ ssf = "RETIRING" => commit[3] = None /\ (ret # <<>> => NothingAhead)
    /\ ssf = "WF_RETIRE" /\ commit[3] # None => ssfIid \notin Retired

\* The pair that loses committed instructions does not meet: an asynchronous
\* exception, and single retirement that may begin with three commits.
Compatible(s) == /\ "sdb" \notin s.events
                 /\ "async" \notin s.events \/ s.events \cap {"dr", "ssf"} = {}

\* Then an asynchronous exception finds every committed instruction in the
\* commit registers, and waits for it.
NoneForgotten ==
    /\ Compatible(scenario)
    /\ "async" \notin Events => ae = "IDLE"
    /\ "async" \in Events =>
          /\ ~dr /\ ~drReq /\ ssf = "IDLE"
          /\ Announced \subseteq Retired \cup {commit[i] : i \in 1 .. 3}
    /\ ae \in {"WFI", "EXPT"} => NothingAhead

SparedInv == IdsInOrder /\ CommittedAhead /\ RequestsWait /\ NoneForgotten

----------------------------------------------------------------------------
(* The instructions move through the window. *)

\* How many leave it.
Gone(c) == Cardinality(Loads(Completed(c)))

\* Without a flush: Gone(c) instructions retire and k are created.
LEMMA FlowStep ==
    ASSUME TypeOK, NEW dq, NEW async, NEW ctcReq, NEW fail, NEW c, NEW k, NEW p,
           Chosen(dq, async, ctcReq, fail, c, k, p), ~RobFlush(dq)
    PROVE  /\ Len(rob) \in Nat /\ Gone(c) \in 0 .. Len(rob) /\ k \in 0 .. CreateWidth
           /\ DOMAIN rob = 1 .. Len(rob)
           /\ Len(ret') = Gone(c) /\ DOMAIN ret' = 1 .. Gone(c)
           /\ Len(rob') = Len(rob) - Gone(c) + k /\ DOMAIN rob' = 1 .. Len(rob')
           /\ Loads(Completed(c)) = 1 .. Gone(c)
           /\ \A i \in 1 .. Gone(c) : ret'[i] = Completed(c)[i]
           /\ \A i \in 1 .. Len(rob) - Gone(c) : rob'[i] = Completed(c)[i + Gone(c)]
           /\ \A j \in 1 .. k : rob'[Len(rob) - Gone(c) + j].iid = (nextIid + j - 1) % Entries
<1> DEFINE Entry == [iid : Iids, kind : Kinds \cup {None}]
           w == Completed(c)
           n == Gone(c)
           l == SubSeq(w, n + 1, Len(w))
           t == Created(k)
<1>0. RobEdge(dq, c, k) /\ c \in Completions /\ k \in 0 .. CreateWidth
  BY Zenon DEF Chosen, Edge
<1>1. rob' = l \o t /\ ret' = SubSeq(w, 1, n)
  BY <1>0, Zenon DEF RobEdge, Created, Gone
<1>2. w \in Seq(Entry) /\ Len(w) = Len(rob) /\ Len(w) \in Nat
      /\ DOMAIN rob = 1 .. Len(rob)
  BY <1>0, CompletedIs, LenProperties DEF TypeOK
<1>3. n \in 0 .. Len(w) /\ Loads(w) = 1 .. n
  BY <1>2, LoadsPrefix DEF Gone
<1>4. t \in Seq(Entry) /\ Len(t) = k
  <2>1. \A i \in 1 .. k : [iid |-> (nextIid + i - 1) % Entries, kind |-> None] \in Entry
    <3> SUFFICES ASSUME NEW i \in 1 .. k PROVE (nextIid + i - 1) % Entries \in Iids
      OBVIOUS
    <3>1. nextIid + i - 1 \in Nat
      BY <1>0 DEF TypeOK, Iids
    <3> QED BY <3>1, IdsWrap
  <2> HIDE DEF Entry
  <2>2. t \in [1 .. k -> Entry] /\ k \in Nat
    BY <1>0, <2>1 DEF Created
  <2> QED BY <2>2, TableOfLength
<1>5. \A j \in 1 .. k : t[j].iid = (nextIid + j - 1) % Entries
  BY <1>0 DEF Created
<1> HIDE DEF Entry, w, n, t
<1>6. \A i \in 1 .. Len(w) : w[i] \in Entry
  BY <1>2, ElementOfSeq
<1>7. l \in Seq(Entry) /\ Len(l) = Len(w) - n
      /\ \A i \in 1 .. Len(w) - n : l[i] = w[i + n]
  <2>1. /\ n + 1 \in 1 .. Len(w) + 1 /\ n \in Nat
        /\ \A i \in n + 1 .. Len(w) : w[i] \in Entry
    BY <1>2, <1>3, <1>6
  <2>2. l \in Seq(Entry)
    BY <1>2, <2>1, SubSeqProperties
  <2>3. Len(l) = IF n + 1 <= Len(w) THEN Len(w) - (n + 1) + 1 ELSE 0
    BY <1>2, <2>1, SubSeqProperties
  <2>4. \A i \in 1 .. Len(w) - (n + 1) + 1 : l[i] = w[n + 1 + i - 1]
    BY <1>2, <2>1, SubSeqProperties
  <2>5. ASSUME NEW i \in 1 .. Len(w) - n PROVE l[i] = w[i + n]
    <3>1. n + 1 + i - 1 = i + n /\ i \in 1 .. Len(w) - (n + 1) + 1
      BY <1>2, <2>1
    <3> QED BY <2>4, <3>1
  <2> QED BY <1>2, <1>3, <2>2, <2>3, <2>5
<1>8. Len(ret') = n /\ DOMAIN ret' = 1 .. n /\ \A i \in 1 .. n : ret'[i] = w[i]
  <2>1. 1 \in 1 .. Len(w) + 1 /\ n \in Nat /\ \A i \in 1 .. n : w[i] \in Entry
    BY <1>2, <1>3, <1>6
  <2>2. ret' \in Seq(Entry)
    BY <1>1, <1>2, <1>3, <2>1, SubSeqProperties
  <2>3. Len(ret') = IF 1 <= n THEN n - 1 + 1 ELSE 0
    BY <1>1, <1>2, <1>3, <2>1, SubSeqProperties
  <2>4. \A i \in 1 .. n - 1 + 1 : ret'[i] = w[1 + i - 1]
    BY <1>1, <1>2, <1>3, <2>1, SubSeqProperties
  <2>5. ASSUME NEW i \in 1 .. n PROVE ret'[i] = w[i]
    <3>1. 1 + i - 1 = i /\ i \in 1 .. n - 1 + 1
      BY <2>1
    <3> QED BY <2>4, <3>1
  <2> QED BY <2>1, <2>2, <2>3, <2>5, LenProperties
<1> HIDE DEF l
<1>9. l \o t \in Seq(Entry) /\ Len(l \o t) = Len(l) + Len(t)
      /\ \A i \in 1 .. Len(l) + Len(t) :
            (l \o t)[i] = IF i <= Len(l) THEN l[i] ELSE t[i - Len(l)]
  BY <1>4, <1>7, ConcatProperties
<1>10. DOMAIN rob' = 1 .. Len(rob') /\ Len(rob') = Len(w) - n + k
  BY <1>1, <1>4, <1>7, <1>9, LenProperties
<1>11. ASSUME NEW i \in 1 .. Len(w) - n PROVE rob'[i] = w[i + n]
  <2>1. i \in 1 .. Len(l) + Len(t) /\ i <= Len(l)
    BY <1>0, <1>2, <1>3, <1>4, <1>7
  <2> QED BY <1>1, <1>7, <1>9, <2>1
<1>12. ASSUME NEW j \in 1 .. k PROVE rob'[Len(w) - n + j].iid = (nextIid + j - 1) % Entries
  <2>1. Len(l) + j \in 1 .. Len(l) + Len(t) /\ ~(Len(l) + j <= Len(l))
        /\ (Len(l) + j) - Len(l) = j
    BY <1>0, <1>2, <1>3, <1>4, <1>7
  <2>2. rob'[Len(l) + j] = t[j]
    BY <1>1, <1>9, <2>1
  <2> QED BY <1>5, <1>7, <2>2
<1> QED BY <1>0, <1>2, <1>3, <1>8, <1>10, <1>11, <1>12 DEF n, w

\* Completion keeps the id of an instruction, and the kind of a complete one.
LEMMA CompletedKeeps ==
    ASSUME TypeOK, NEW c \in Completions, NEW i \in DOMAIN rob
    PROVE  /\ Completed(c)[i].iid = rob[i].iid /\ rob[i].iid \in Iids
           /\ rob[i].iid # None
           /\ rob[i].kind # None => Completed(c)[i].kind = rob[i].kind
           /\ c[i] = None => Completed(c)[i].kind = rob[i].kind
<1>1. rob[i] \in [iid : Iids, kind : Kinds \cup {None}]
  BY LenProperties, ElementOfSeq DEF TypeOK
<1>2. Completed(c)[i] = IF c[i] = None THEN rob[i] ELSE [rob[i] EXCEPT !.kind = c[i]]
  BY DEF Completed
<1>3. rob[i].kind # None => c[i] = None
  BY DEF Completions, Open
<1>4. None \notin Iids
  BY RetireCommitAssumption DEF Iids
<1> QED BY <1>1, <1>2, <1>3, <1>4

----------------------------------------------------------------------------
(* Ids. *)

LEMMA ModOnce ==
    ASSUME NEW m \in Nat \ {0}, NEW x \in 0 .. 2 * m - 1
    PROVE  x % m = IF x < m THEN x ELSE x - m
  OBVIOUS

LEMMA BackDiffers ==
    ASSUME TypeOK, NEW c \in 1 .. Entries, NEW d \in 1 .. Entries, Back(c) = Back(d)
    PROVE  c = d
<1>1. nextIid \in 0 .. Entries - 1
  BY Sizes DEF TypeOK
<1> QED BY <1>1, Sizes DEF Back

\* No two live instructions have the same id.
LEMMA IdsDiffer ==
    ASSUME TypeOK, NeverOverflows, IdsInOrder
    PROVE  /\ \A i, j \in DOMAIN rob : rob[i].iid = rob[j].iid => i = j
           /\ \A i \in DOMAIN ret : \A j \in DOMAIN rob : ret[i].iid # rob[j].iid
<1>1. /\ Len(rob) \in Nat /\ Len(ret) \in Nat /\ Len(rob) + Len(ret) <= Entries
      /\ DOMAIN rob = 1 .. Len(rob) /\ DOMAIN ret = 1 .. Len(ret)
  BY LenProperties DEF TypeOK, NeverOverflows, InUse
<1>2. ASSUME NEW i \in DOMAIN rob, NEW j \in DOMAIN rob, rob[i].iid = rob[j].iid
      PROVE  i = j
  <2> DEFINE d == Len(rob) + 1 - i
             e == Len(rob) + 1 - j
  <2>1. d \in 1 .. Entries /\ e \in 1 .. Entries /\ (d = e => i = j)
    BY <1>1, Sizes
  <2>2. Back(d) = Back(e)
    BY <1>2 DEF IdsInOrder
  <2> HIDE DEF d, e
  <2> QED BY <2>1, <2>2, BackDiffers
<1>3. ASSUME NEW i \in DOMAIN ret, NEW j \in DOMAIN rob, ret[i].iid = rob[j].iid
      PROVE  FALSE
  <2> DEFINE d == Len(rob) + Len(ret) + 1 - i
             e == Len(rob) + 1 - j
  <2>1. d \in 1 .. Entries /\ e \in 1 .. Entries /\ d # e
    BY <1>1, Sizes
  <2>2. Back(d) = Back(e)
    BY <1>3 DEF IdsInOrder
  <2> HIDE DEF d, e
  <2> QED BY <2>1, <2>2, BackDiffers
<1> QED BY <1>2, <1>3

LEMMA IdsStep ==
    ASSUME TypeOK, NeverOverflows, IdsInOrder, NEW dq, NEW async, NEW ctcReq, NEW fail, NEW c, NEW k, NEW p,
           Chosen(dq, async, ctcReq, fail, c, k, p)
    PROVE  IdsInOrder'
<1>1. CASE RobFlush(dq)
  <2>1. rob' = <<>> /\ ret' = <<>>
    BY <1>1, BufferStep
  <2>2. DOMAIN rob' = {} /\ DOMAIN ret' = {}
    BY <2>1, EmptySeq
  <2> QED BY <2>2 DEF IdsInOrder
<1>2. CASE ~RobFlush(dq)
  <2> DEFINE n == Gone(c)
             l == Len(rob)
             BackNext(d) == IF nextIid' >= d THEN nextIid' - d ELSE nextIid' + Entries - d
  <2>1. /\ l \in Nat /\ n \in 0 .. l /\ k \in 0 .. CreateWidth /\ DOMAIN rob = 1 .. l
        /\ Len(ret') = n /\ DOMAIN ret' = 1 .. n
        /\ Len(rob') = l - n + k /\ DOMAIN rob' = 1 .. Len(rob')
        /\ \A i \in 1 .. n : ret'[i] = Completed(c)[i]
        /\ \A i \in 1 .. l - n : rob'[i] = Completed(c)[i + n]
        /\ \A j \in 1 .. k : rob'[l - n + j].iid = (nextIid + j - 1) % Entries
    BY <1>2, FlowStep
  <2>2. nextIid' = (nextIid + k) % Entries /\ nextIid \in 0 .. Entries - 1
        /\ c \in Completions /\ l + k <= Entries
    <3>1. RobEdge(dq, c, k) /\ c \in Completions
      BY Zenon DEF Chosen, Edge
    <3>2. nextIid' = (nextIid + k) % Entries
      BY <1>2, <3>1, Zenon DEF RobEdge
    <3> QED BY <3>1, <3>2, CountStep, Sizes DEF TypeOK
  <2>3. \A i \in 1 .. l : Completed(c)[i].iid = Back(l + 1 - i)
    BY <2>1, <2>2, CompletedKeeps DEF IdsInOrder
  <2> HIDE DEF l, n
  <2>4. /\ l + k \in 0 .. Entries /\ nextIid \in 0 .. Entries - 1
        /\ k \in 0 .. Entries /\ l \in Nat /\ Entries \in Nat \ {0}
    BY <2>1, <2>2, Sizes
  <2>5. \A x \in 0 .. 2 * Entries - 1 : x % Entries = IF x < Entries THEN x ELSE x - Entries
    BY <2>4, ModOnce
  <2>12. nextIid' = IF nextIid + k < Entries THEN nextIid + k ELSE nextIid + k - Entries
    <3> DEFINE x == nextIid + k
               y == x % Entries
               z == IF x < Entries THEN x ELSE x - Entries
    <3>1. x \in 0 .. 2 * Entries - 1
      BY <2>4
    <3>2. nextIid' = y
      BY <2>2, Zenon
    <3> HIDE DEF x
    <3>3. y = z
      BY <2>5, <3>1, Zenon
    <3> HIDE DEF y, z
    <3>4. nextIid' = z
      BY <3>2, <3>3, Zenon
    <3>5. nextIid' = IF x < Entries THEN x ELSE x - Entries
      BY <3>4 DEF z
    <3>6. x = nextIid + k
      BY DEF x
    <3> QED BY <2>4, <3>1, <3>5, <3>6
  <2>6. ASSUME NEW d \in 1 .. l PROVE BackNext(d + k) = Back(d)
    BY <2>4, <2>12 DEF Back
  <2>7. ASSUME NEW j \in 1 .. k PROVE BackNext(k + 1 - j) = (nextIid + j - 1) % Entries
    <3> DEFINE x == nextIid + j - 1
               y == x % Entries
    <3>1. x \in 0 .. 2 * Entries - 1
      BY <2>4
    <3>2. y = IF x < Entries THEN x ELSE x - Entries
      BY <2>5, <3>1, Zenon
    <3> HIDE DEF y
    <3>3. BackNext(k + 1 - j) = y
      BY <2>4, <2>12, <3>2
    <3> QED BY <3>3 DEF y
  <2>8. ASSUME NEW i \in DOMAIN ret'
        PROVE  ret'[i].iid = BackNext(Len(rob') + Len(ret') + 1 - i)
    <3>1. i \in 1 .. l /\ l + 1 - i \in 1 .. l
          /\ Len(rob') + Len(ret') + 1 - i = (l + 1 - i) + k
      BY <2>1
    <3>2. ret'[i].iid = Back(l + 1 - i)
      BY <2>1, <2>3, <3>1
    <3> HIDE DEF BackNext
    <3> QED BY <2>6, <3>1, <3>2
  <2>9. ASSUME NEW i \in DOMAIN rob'
        PROVE  rob'[i].iid = BackNext(Len(rob') + 1 - i)
    <3>1. CASE i <= l - n
      <4>1. i \in 1 .. l - n /\ i + n \in 1 .. l /\ l + 1 - (i + n) \in 1 .. l
        BY <2>1, <3>1
      <4>3. Len(rob') + 1 - i = (l + 1 - (i + n)) + k
        BY <2>1, <4>1
      <4>2. rob'[i].iid = Back(l + 1 - (i + n))
        BY <2>1, <2>3, <4>1
      <4> HIDE DEF BackNext
      <4> QED BY <2>6, <4>1, <4>3, <4>2
    <3>2. CASE i > l - n
      <4> DEFINE j == i - (l - n)
      <4>1. j \in 1 .. k /\ l - n + j = i /\ Len(rob') + 1 - i = k + 1 - j
        BY <2>1, <3>2
      <4> HIDE DEF j, BackNext
      <4> QED BY <2>1, <2>7, <4>1
    <3> QED BY <2>1, <3>1, <3>2
  <2> QED BY <2>8, <2>9 DEF IdsInOrder, Back
<1> QED BY <1>1, <1>2

----------------------------------------------------------------------------
(* The ports that commit. *)

\* What is announced is an instruction.
LEMMA AnnouncedIds ==
    ASSUME TypeOK
    PROVE  /\ Announced \subseteq Iids /\ None \notin Iids
           /\ \A i \in 1 .. 3 : commit[i] # None => commit[i] \in Announced
           /\ commit[1] \in Iids \cup {None} /\ commit[2] \in Iids \cup {None}
           /\ commit[3] \in Iids \cup {None}
<1>1. None \notin Iids
  BY RetireCommitAssumption DEF Iids
<1>2. commit \in [1 .. 3 -> Iids \cup {None}] /\ announced \subseteq Iids
  BY DEF TypeOK
<1>3. 1 \in 1 .. 3 /\ 2 \in 1 .. 3 /\ 3 \in 1 .. 3
  OBVIOUS
<1> QED BY <1>1, <1>2, <1>3, Zenon DEF Announced

LEMMA PortOneLoads ==
    ASSUME NEW w, 1 <= Len(w), ~RtMask, w[1].kind # None, ~CommitMask(1, w[1].iid)
    PROVE  1 \in Loads(w)
<1>1. 1 \in 1 .. 3 /\ ~(1 > 1) /\ \A j \in 1 .. 1 : j = 1
  OBVIOUS
<1> QED BY <1>1, Zenon DEF Loads

\* A committed instruction that has not retired is recommitted by an earlier
\* port.
LEMMA Again ==
    ASSUME NEW i \in 1 .. 3, NEW j \in i .. 3, NEW id, id = commit[j]
    PROVE  Already(i, id) /\ ~CommitMask(i, id)
BY DEF Already, CommitMask

LEMMA SecondCommitted ==
    ASSUME TypeOK, CommittedAhead, NEW c \in Completions,
           2 \in DOMAIN rob, rob[2].iid \in Announced
    PROVE  /\ 1 \in Loads(Completed(c)) /\ Commit2 /\ ~RtMask
           /\ Completed(c)[1].kind # None /\ ~Abnormal(Completed(c)[1].kind)
           /\ ~CommitMask(2, Completed(c)[2].iid)
<1> DEFINE w == Completed(c)
<1>1. /\ commit[3] = rob[2].iid /\ commit[2] = rob[1].iid
      /\ rob[1].kind # None /\ ~Abnormal(rob[1].kind) /\ ae # "WFI"
  BY Zenon DEF CommittedAhead
<1>2. DOMAIN rob = 1 .. Len(rob) /\ Len(rob) \in Nat /\ Len(w) = Len(rob)
  BY CompletedIs, LenProperties DEF TypeOK
<1>3. 1 \in DOMAIN rob /\ 1 <= Len(w)
  BY <1>2
<1>4. w[1].iid = rob[1].iid /\ w[1].kind = rob[1].kind
  BY <1>1, <1>3, CompletedKeeps
<1>5. w[2].iid = rob[2].iid /\ rob[2].iid # None
  BY CompletedKeeps
<1> HIDE DEF w
<1>6. 1 \in 1 .. 3 /\ 2 \in 1 .. 3 /\ 2 \in 1 .. 3 /\ 3 \in 2 .. 3
  OBVIOUS
<1>7. ~CommitMask(1, w[1].iid)
  BY <1>1, <1>4, <1>6, Again
<1>8. ~CommitMask(2, w[2].iid)
  BY <1>1, <1>5, <1>6, Again
<1>9. ~RtMask /\ Commit2
  BY <1>1, <1>5 DEF RtMask, Commit2
<1>10. 1 \in Loads(w)
  BY <1>1, <1>3, <1>4, <1>7, <1>9, PortOneLoads
<1> QED BY <1>1, <1>4, <1>8, <1>9, <1>10 DEF w

LEMMA CommitPorts ==
    ASSUME TypeOK, NEW c \in Completions, NEW i \in Commits(Completed(c))
    PROVE  /\ i \in 1 .. 3 /\ i \in DOMAIN rob /\ ~RtMask
           /\ ~CommitMask(i, Completed(c)[i].iid)
           /\ i > 1 => /\ ~SingleRetire
                       /\ \A j \in 1 .. i - 1 : /\ Completed(c)[j].kind # None
                                                /\ ~Abnormal(Completed(c)[j].kind)
<1> DEFINE w == Completed(c)
<1>1. /\ i \in 1 .. 3 /\ i <= Len(w) /\ ~RtMask /\ ~CommitMask(i, w[i].iid)
      /\ i > 1 => /\ ~SingleRetire
                  /\ \A j \in 1 .. i - 1 : w[j].kind # None /\ ~Abnormal(w[j].kind)
  BY Zenon DEF Commits
<1>2. DOMAIN rob = 1 .. Len(rob) /\ Len(rob) \in Nat /\ Len(w) = Len(rob)
  BY CompletedIs, LenProperties DEF TypeOK
<1>3. i \in DOMAIN rob
  BY <1>1, <1>2
<1> QED BY <1>1, <1>3, Zenon DEF w

\* A port that is not masked for a request or an exception masks no port.
LEMMA Unmasked ==
    ASSUME NEW i \in 2 .. 3, NEW id, ~CommitMask(i, id), ~Already(i, id)
    PROVE  ae # "WFC" /\ \A j, x : ~CommitMask(j, x)
BY DEF CommitMask

\* Behind the first port only instructions commit whose elders are complete;
\* the first of them retires.
LEMMA SecondCommits ==
    ASSUME TypeOK, CommittedAhead, NEW c \in Completions, 2 \in Commits(Completed(c))
    PROVE  1 \in Loads(Completed(c))
<1> DEFINE w == Completed(c)
<1>1. /\ 2 \in DOMAIN rob /\ ~RtMask /\ ~CommitMask(2, w[2].iid)
      /\ \A j \in 1 .. 2 - 1 : w[j].kind # None
  BY CommitPorts
<1>2. w[2].iid = rob[2].iid /\ rob[2].iid # None
  BY <1>1, CompletedKeeps
<1>3. DOMAIN rob = 1 .. Len(rob) /\ Len(rob) \in Nat /\ Len(w) = Len(rob)
  BY CompletedIs, LenProperties DEF TypeOK
<1>4. 1 <= Len(w) /\ w[1].kind # None
  BY <1>1, <1>3
<1> HIDE DEF w
<1>5. CASE Already(2, w[2].iid)
  <2>1. 2 .. 3 = {2, 3}
    OBVIOUS
  <2>2. rob[2].iid = commit[2] \/ rob[2].iid = commit[3]
    BY <1>2, <1>5, <2>1 DEF Already
  <2>3. rob[2].iid \in Announced
    BY <1>2, <2>2, AnnouncedIds
  <2> QED BY <1>1, <2>3, SecondCommitted DEF w
<1>6. CASE ~Already(2, w[2].iid)
  <2>1. ~CommitMask(1, w[1].iid)
    BY <1>1, <1>6, Unmasked
  <2> QED BY <1>1, <1>4, <2>1, PortOneLoads DEF w
<1> QED BY <1>5, <1>6

LEMMA ThirdCommits ==
    ASSUME TypeOK, NeverOverflows, IdsInOrder, CommittedAhead, NEW c \in Completions,
           3 \in Commits(Completed(c))
    PROVE  /\ 1 \in Loads(Completed(c)) /\ 2 \in Commits(Completed(c))
           /\ ae \notin {"WFC", "WFI"}
<1> DEFINE w == Completed(c)
<1>1. /\ 3 \in DOMAIN rob /\ ~RtMask /\ ~CommitMask(3, w[3].iid) /\ ~SingleRetire
      /\ \A j \in 1 .. 3 - 1 : w[j].kind # None /\ ~Abnormal(w[j].kind)
  BY CommitPorts
<1>2. w[3].iid = rob[3].iid /\ rob[3].iid # None
  BY <1>1, CompletedKeeps
<1>3. DOMAIN rob = 1 .. Len(rob) /\ Len(rob) \in Nat /\ Len(w) = Len(rob)
  BY CompletedIs, LenProperties DEF TypeOK
<1>4. ~Already(3, w[3].iid)
  <2> SUFFICES ASSUME Already(3, w[3].iid) PROVE FALSE
    OBVIOUS
  <2>1. 3 .. 3 = {3}
    OBVIOUS
  <2>2. rob[3].iid = commit[3]
    BY <1>2, <2>1 DEF Already
  <2>3. rob[3].iid \in Announced
    BY <1>2, <2>2, AnnouncedIds
  <2>4. \/ rob[3].iid \in Retired
        \/ \E i \in DOMAIN rob \cap {1, 2} : rob[3].iid = rob[i].iid
    BY <2>3, Zenon DEF CommittedAhead
  <2> QED BY <1>1, <2>4, IdsDiffer DEF Retired
<1>5. 3 \in 2 .. 3
  OBVIOUS
<1>6. ae # "WFC" /\ ~CommitMask(1, w[1].iid) /\ ~CommitMask(2, w[2].iid)
  BY <1>1, <1>4, <1>5, Unmasked
<1>7. /\ 1 \in 1 .. 3 /\ 2 \in 1 .. 3 /\ 1 <= Len(w) /\ 2 <= Len(w)
      /\ w[1].kind # None /\ ~Abnormal(w[1].kind) /\ \A j \in 1 .. 2 - 1 : j = 1
  BY <1>1, <1>3
<1> HIDE DEF w
<1>8. 1 \in Loads(w)
  BY <1>1, <1>6, <1>7, PortOneLoads
<1>9. 2 \in Commits(w)
  BY <1>1, <1>6, <1>7, Zenon DEF Commits
<1> QED BY <1>1, <1>6, <1>8, <1>9 DEF w, RtMask

\* A flush forgets everything.
LEMMA FlushForgets ==
    ASSUME NEW dq, NEW c, NEW k, RobEdge(dq, c, k), RobFlush(dq)
    PROVE  Announced' = {} /\ ret' = <<>> /\ rob' = <<>> /\ ~retInt' /\ ~retCtc'
<1>1. /\ rob' = <<>> /\ ret' = <<>> /\ ~retInt' /\ ~retCtc'
      /\ commit' = <<None, None, None>> /\ announced' = {}
  BY Zenon DEF RobEdge
<1>2. \A i \in 1 .. 3 : commit'[i] = None
  <2>1. 1 .. 3 = {1, 2, 3}
    OBVIOUS
  <2> QED BY <1>1, <2>1
<1> QED BY <1>1, <1>2 DEF Announced

\* What is announced after an edge was announced and has not retired, or
\* commits.
LEMMA AnnouncedNext ==
    ASSUME NEW dq, NEW c, NEW k, RobEdge(dq, c, k), ~RobFlush(dq), NEW x \in Announced'
    PROVE  \/ x \in Announced /\ x \notin Retired
           \/ \E i \in Commits(Completed(c)) : x = Completed(c)[i].iid
<1> DEFINE w == Completed(c)
<1>1. /\ commit' = [i \in 1 .. 3 |-> IF i \in Commits(w) THEN w[i].iid ELSE None]
      /\ announced' = (announced \cup ({commit[i] : i \in 1 .. 3} \ {None})) \ Retired
  BY Zenon DEF RobEdge
<1>2. announced' = Announced \ Retired
  BY <1>1, Zenon DEF Announced
<1>3. x \in announced' \/ \E i \in 1 .. 3 : x = commit'[i] /\ x # None
  BY Zenon DEF Announced
<1> HIDE DEF w
<1>4. ASSUME NEW i \in 1 .. 3, commit'[i] # None
      PROVE  i \in Commits(w) /\ commit'[i] = w[i].iid
  BY <1>1, <1>4
<1> QED BY <1>2, <1>3, <1>4, Zenon DEF w

\* It is one of the three oldest of the window; those before it are complete,
\* and the first of them retires.
LEMMA NewlyAnnounced ==
    ASSUME TypeOK, NeverOverflows, IdsInOrder, CommittedAhead, NEW dq, NEW c \in Completions, NEW k,
           RobEdge(dq, c, k), ~RobFlush(dq), NEW x \in Announced'
    PROVE  \E i \in DOMAIN rob \cap (1 .. 3) :
              /\ x = rob[i].iid
              /\ i \in Commits(Completed(c)) \/ (i <= 2 /\ x \in Announced)
              /\ i > 1 => /\ 1 \in Loads(Completed(c))
                          /\ \A j \in 1 .. i - 1 : /\ Completed(c)[j].kind # None
                                                   /\ ~Abnormal(Completed(c)[j].kind)
                          /\ SingleRetire => Commit2
              /\ i = 3 => /\ 3 \in Commits(Completed(c)) /\ 2 \in Commits(Completed(c))
                          /\ ae \notin {"WFC", "WFI"}
<1> DEFINE w == Completed(c)
<1>1. CASE x \in Announced /\ x \notin Retired
  <2>1. PICK i \in DOMAIN rob \cap {1, 2} : x = rob[i].iid
    BY <1>1, Zenon DEF CommittedAhead
  <2>2. i \in DOMAIN rob \cap (1 .. 3) /\ i <= 2 /\ i # 3 /\ (i > 1 => i = 2)
    BY <2>1
  <2>3. i = 2 => /\ 1 \in Loads(w) /\ Commit2
                 /\ w[1].kind # None /\ ~Abnormal(w[1].kind)
    BY <1>1, <2>1, SecondCommitted
  <2>4. \A j \in 1 .. 2 - 1 : j = 1
    OBVIOUS
  <2> HIDE DEF w
  <2>5. i > 1 => /\ 1 \in Loads(w)
                 /\ \A j \in 1 .. i - 1 : w[j].kind # None /\ ~Abnormal(w[j].kind)
                 /\ SingleRetire => Commit2
    BY <2>2, <2>3, <2>4, Zenon
  <2> QED BY <1>1, <2>1, <2>2, <2>5, Zenon DEF w
<1>2. CASE \E i \in Commits(w) : x = w[i].iid
  <2>1. PICK i \in Commits(w) : x = w[i].iid
    BY <1>2
  <2>2. /\ i \in 1 .. 3 /\ i \in DOMAIN rob
        /\ i > 1 => /\ ~SingleRetire
                    /\ \A j \in 1 .. i - 1 : w[j].kind # None /\ ~Abnormal(w[j].kind)
    BY CommitPorts
  <2>3. x = rob[i].iid
    BY <2>1, <2>2, CompletedKeeps
  <2>4. i = 2 => 1 \in Loads(w)
    BY <2>1, SecondCommits
  <2>5. i = 3 => /\ 1 \in Loads(w) /\ 3 \in Commits(w) /\ 2 \in Commits(w)
                 /\ ae \notin {"WFC", "WFI"}
    BY <2>1, ThirdCommits
  <2>6. i > 1 => i = 2 \/ i = 3
    BY <2>2
  <2> HIDE DEF w
  <2> QED BY <2>1, <2>2, <2>3, <2>4, <2>5, <2>6, Zenon DEF w
<1> QED BY <1>1, <1>2, AnnouncedNext

\* Single retirement with at most two commits retires the last committed
\* instruction.
LEMMA RetiresLast ==
    ASSUME TypeOK, NeverOverflows, IdsInOrder, CommittedAhead,
           NEW dq, NEW async, NEW ctcReq, NEW fail, NEW c, NEW k, NEW p,
           Chosen(dq, async, ctcReq, fail, c, k, p), ~RobFlush(dq),
           SingleRetire, ~Commit2, Gone(c) > 0
    PROVE  NothingAhead'
<1>1. RobEdge(dq, c, k) /\ c \in Completions
  BY Zenon DEF Chosen, Edge
<1>2. /\ Gone(c) \in 0 .. Len(rob) /\ DOMAIN ret' = 1 .. Gone(c) /\ Len(rob) \in Nat
      /\ \A i \in 1 .. Gone(c) : ret'[i] = Completed(c)[i]
  BY FlowStep
<1> SUFFICES ASSUME NEW x \in Announced' PROVE x \in Retired'
  BY Zenon DEF NothingAhead
<1>3. PICK i \in DOMAIN rob \cap (1 .. 3) : x = rob[i].iid /\ (i > 1 => (SingleRetire => Commit2))
  BY <1>1, NewlyAnnounced
<1>4. i = 1 /\ 1 \in 1 .. Gone(c)
  BY <1>2, <1>3
<1>5. ret'[1].iid = x
  BY <1>1, <1>2, <1>3, <1>4, CompletedKeeps
<1> QED BY <1>2, <1>4, <1>5, Zenon DEF Retired

----------------------------------------------------------------------------
(* A step preserves the rest of the invariant. *)

\* The live instructions have different ids.
Distinct ==
    /\ \A i, j \in DOMAIN rob : rob[i].iid = rob[j].iid => i = j
    /\ \A i \in DOMAIN ret : \A j \in DOMAIN rob : ret[i].iid # rob[j].iid

LEMMA DistinctNext == (TypeOK /\ NeverOverflows /\ IdsInOrder)' => Distinct'
<1>1. TypeOK /\ NeverOverflows /\ IdsInOrder => Distinct
  BY IdsDiffer DEF Distinct
<1> QED BY <1>1, PTL

LEMMA AheadStep ==
    ASSUME TypeOK, NeverOverflows, IdsInOrder, CommittedAhead,
           NEW dq, NEW async, NEW ctcReq, NEW fail, NEW c, NEW k, NEW p,
           Chosen(dq, async, ctcReq, fail, c, k, p)
    PROVE  CommittedAhead'
<1> DEFINE w == Completed(c)
           n == Gone(c)
<1>1. /\ RobEdge(dq, c, k) /\ c \in Completions /\ ae' = NextAe(dq, async, p.wb)
      /\ dq \subseteq {"jdb", "sdb"}
  BY Zenon DEF Chosen, Edge
<1>2. CASE RobFlush(dq)
  <2>1. Announced' = {} /\ ret' = <<>> /\ rob' = <<>>
    BY <1>1, <1>2, FlushForgets
  <2> QED BY <2>1, Zenon DEF CommittedAhead
<1>3. CASE ~RobFlush(dq)
  <2>1. /\ Len(rob) \in Nat /\ n \in 0 .. Len(rob) /\ k \in 0 .. CreateWidth
        /\ DOMAIN rob = 1 .. Len(rob) /\ DOMAIN ret' = 1 .. n
        /\ Len(rob') = Len(rob) - n + k /\ DOMAIN rob' = 1 .. Len(rob')
        /\ Loads(w) = 1 .. n
        /\ \A i \in 1 .. n : ret'[i] = w[i]
        /\ \A i \in 1 .. Len(rob) - n : rob'[i] = w[i + n]
    BY <1>3, FlowStep
  <2>2. Distinct'
    BY TypeStep, CountStep, IdsStep, DistinctNext
  <2>3. \A i \in DOMAIN rob : w[i].iid = rob[i].iid /\ rob[i].iid # None
    BY <1>1, CompletedKeeps
  <2>4. commit' = [i \in 1 .. 3 |-> IF i \in Commits(w) THEN w[i].iid ELSE None]
    BY <1>1, <1>3, Zenon DEF RobEdge
  <2>5. ASSUME 2 \in DOMAIN rob, rob[2].iid \in Announced
        PROVE  w[1].kind # None /\ ~Abnormal(w[1].kind)
    BY <1>1, <2>5, SecondCommitted
  <2> DEFINE Newly(x, i) ==
               /\ i \in DOMAIN rob \cap (1 .. 3) /\ x = rob[i].iid
               /\ i > 1 => /\ 1 \in Loads(w)
                           /\ \A j \in 1 .. i - 1 : w[j].kind # None /\ ~Abnormal(w[j].kind)
               /\ i = 3 => /\ 3 \in Commits(w) /\ 2 \in Commits(w)
                           /\ ae \notin {"WFC", "WFI"}
  <2>6. \A x \in Announced' : \E i : Newly(x, i)
    <3> SUFFICES ASSUME NEW x \in Announced' PROVE \E i : Newly(x, i)
      OBVIOUS
    <3>1. PICK i \in DOMAIN rob \cap (1 .. 3) :
              /\ x = rob[i].iid
              /\ i \in Commits(w) \/ (i <= 2 /\ x \in Announced)
              /\ i > 1 => /\ 1 \in Loads(w)
                          /\ \A j \in 1 .. i - 1 : w[j].kind # None /\ ~Abnormal(w[j].kind)
                          /\ SingleRetire => Commit2
              /\ i = 3 => /\ 3 \in Commits(w) /\ 2 \in Commits(w)
                          /\ ae \notin {"WFC", "WFI"}
      BY <1>1, <1>3, NewlyAnnounced
    <3> QED BY <3>1, Zenon
  <2> HIDE DEF w, n
  \* Where an announced instruction is after the edge.
  <2>7. ASSUME NEW x \in Announced', NEW i, Newly(x, i)
        PROVE  /\ i <= n => i \in DOMAIN ret' /\ ret'[i].iid = x
               /\ i > n => /\ i - n \in DOMAIN rob' \cap {1, 2} /\ rob'[i - n] = w[i]
                           /\ rob'[i - n].iid = x
    <3>1. i \in 1 .. 3 /\ i <= Len(rob) /\ w[i].iid = x /\ (i > 1 => n >= 1)
      BY <2>1, <2>3, <2>7
    <3>2. CASE i <= n
      BY <2>1, <3>1, <3>2
    <3>3. CASE i > n
      <4>1. i - n \in 1 .. Len(rob) - n /\ i - n \in 1 .. Len(rob') /\ (i - n) + n = i
            /\ i - n \in {1, 2}
        BY <2>1, <3>1, <3>3
      <4>2. rob'[i - n] = w[i]
        BY <2>1, <4>1
      <4> QED BY <2>1, <3>1, <3>3, <4>1, <4>2
    <3> QED BY <2>1, <3>1, <3>2, <3>3
  <2>8. Announced' \subseteq Retired' \cup {rob'[i].iid : i \in DOMAIN rob' \cap {1, 2}}
    <3> SUFFICES ASSUME NEW x \in Announced'
                 PROVE  x \in Retired' \/ \E i \in DOMAIN rob' \cap {1, 2} : x = rob'[i].iid
      OBVIOUS
    <3>1. PICK i : Newly(x, i)
      BY <2>6
    <3>2. i <= n \/ i > n
      BY <2>1, <3>1
    <3> HIDE DEF Newly
    <3>3. CASE i <= n
      <4>1. i \in DOMAIN ret' /\ ret'[i].iid = x
        BY <2>7, <3>1, <3>3
      <4> QED BY <4>1, Zenon DEF Retired
    <3>4. CASE i > n
      <4>1. i - n \in DOMAIN rob' \cap {1, 2} /\ rob'[i - n].iid = x
        BY <2>7, <3>1, <3>4
      <4> QED BY <4>1, Zenon
    <3> QED BY <3>2, <3>3, <3>4
  \* What is known of it there.
  <2>9. ASSUME NEW m \in DOMAIN rob' \cap {1, 2}, rob'[m].iid \in Announced'
        PROVE  Newly(rob'[m].iid, m + n) /\ rob'[m] = w[m + n]
    <3>1. PICK i : Newly(rob'[m].iid, i)
      BY <2>6, <2>9
    <3>2. i \in Nat
      BY <3>1
    <3>3. ~(i <= n)
      <4> SUFFICES ASSUME i <= n PROVE FALSE
        OBVIOUS
      <4> HIDE DEF Newly
      <4>1. i \in DOMAIN ret' /\ ret'[i].iid = rob'[m].iid /\ m \in DOMAIN rob'
        BY <2>7, <2>9, <3>1
      <4> QED BY <2>2, <4>1, Zenon DEF Distinct
    <3>4. i - n \in DOMAIN rob' \cap {1, 2} /\ rob'[i - n] = w[i]
          /\ rob'[i - n].iid = rob'[m].iid
      <4>1. i > n
        BY <2>1, <3>2, <3>3
      <4> HIDE DEF Newly
      <4> QED BY <2>7, <2>9, <3>1, <4>1, Zenon
    <3>5. i - n = m
      BY <2>2, <3>4, Zenon DEF Distinct
    <3>6. i = m + n
      BY <2>1, <3>2, <3>5
    <3> QED BY <3>1, <3>4, <3>5, <3>6, Zenon
  <2>10. ASSUME 2 \in DOMAIN rob', rob'[2].iid \in Announced'
         PROVE  /\ commit'[3] = rob'[2].iid /\ commit'[2] = rob'[1].iid
                /\ rob'[1].kind # None /\ ~Abnormal(rob'[1].kind) /\ ae' # "WFI"
    <3>1. Newly(rob'[2].iid, 2 + n) /\ rob'[2] = w[2 + n]
      BY <2>9, <2>10
    <3>2. n = 1
      BY <2>1, <3>1
    <3>3. /\ 3 \in Commits(w) /\ 2 \in Commits(w) /\ ae \notin {"WFC", "WFI"}
          /\ w[2].kind # None /\ ~Abnormal(w[2].kind)
      BY <3>1, <3>2
    <3>4. rob'[2] = w[3] /\ rob'[1] = w[2]
      BY <2>1, <2>10, <3>1, <3>2
    <3>5. 2 \in 1 .. 3 /\ 3 \in 1 .. 3
      OBVIOUS
    <3>6. commit'[3] = w[3].iid /\ commit'[2] = w[2].iid
      BY <2>4, <3>3, <3>5
    <3>7. "jdb" \notin dq
      BY <1>3 DEF RobFlush, FlushReq, DbgAck
    <3>8. ae' # "WFI"
      BY <1>1, <3>3, <3>7 DEF NextAe, TypeOK
    <3> QED BY <3>3, <3>4, <3>6, <3>8
  <2>11. ASSUME NEW m \in DOMAIN rob' \cap {1, 2}, rob'[m].iid \in Announced',
                NEW j \in DOMAIN ret'
         PROVE  ~Abnormal(ret'[j].kind)
    <3>1. Newly(rob'[m].iid, m + n)
      BY <2>9, <2>11
    <3>2. j \in 1 .. (m + n) - 1 /\ m + n > 1
      BY <2>1
    <3>3. ret'[j] = w[j]
      BY <2>1
    <3> QED BY <3>1, <3>2, <3>3
  <2> QED BY <2>8, <2>10, <2>11, Zenon DEF CommittedAhead
<1> QED BY <1>2, <1>3

LEMMA RequestsStep ==
    ASSUME TypeOK, NeverOverflows, IdsInOrder, CommittedAhead, RequestsWait,
           NEW dq, NEW async, NEW ctcReq, NEW fail, NEW c, NEW k, NEW p,
           Chosen(dq, async, ctcReq, fail, c, k, p)
    PROVE  RequestsWait'
<1> DEFINE w == Completed(c)
           n == Gone(c)
<1>1. /\ RobEdge(dq, c, k) /\ c \in Completions /\ SsfEdge(dq, fail) /\ drReq' = dr
      /\ fail # None => \E i \in DOMAIN rob :
             rob[i].iid = fail /\ rob[i].kind = None /\ c[i] = None
  BY Zenon DEF Chosen, Edge
<1>2. ssf \in {"IDLE", "WF_RETIRE", "RETIRING"}
  BY DEF TypeOK
<1>3. CASE RobFlush(dq)
  <2>1. Announced' = {} /\ ret' = <<>> /\ ~retInt' /\ ~retCtc'
    BY <1>1, <1>3, FlushForgets
  <2>2. ssf' = "IDLE"
    BY <1>1, <1>3, Zenon DEF SsfEdge
  <2> QED BY <2>1, <2>2, Zenon DEF RequestsWait, NothingAhead
<1>4. CASE ~RobFlush(dq)
  <2>1. /\ n \in 0 .. Len(rob) /\ Len(rob) \in Nat /\ DOMAIN rob = 1 .. Len(rob)
        /\ Len(ret') = n /\ DOMAIN ret' = 1 .. n /\ Loads(w) = 1 .. n
        /\ \A i \in 1 .. n : ret'[i] = w[i]
    BY <1>4, FlowStep
  <2>2. /\ retInt' = (n > 0 /\ ReadInt) /\ retCtc' = (n > 0 /\ ReadCtc)
        /\ retDbgDis' = (n > 0 /\ DbgDis)
        /\ commit' = [i \in 1 .. 3 |-> IF i \in Commits(w) THEN w[i].iid ELSE None]
    BY <1>1, <1>4, Zenon DEF RobEdge, Gone
  <2>3. SingleRetire /\ ~Commit2 /\ n > 0 => NothingAhead'
    BY <1>4, RetiresLast
  <2>4. SingleRetire => commit'[3] = None
    <3> SUFFICES ASSUME SingleRetire PROVE commit'[3] = None
      OBVIOUS
    <3>1. 3 \in 1 .. 3
      OBVIOUS
    <3>2. 3 \notin Commits(w)
      <4>1. 3 > 1
        OBVIOUS
      <4> QED BY <1>1, <4>1, CommitPorts
    <3> HIDE DEF w
    <3> QED BY <2>2, <3>1, <3>2
  <2>5. ret' # <<>> => n > 0
    <3> SUFFICES ASSUME n = 0 PROVE ret' = <<>>
      BY <2>1
    <3>1. ret' \in Seq([iid : Iids, kind : Kinds])
      BY BufferStep
    <3> QED BY <2>1, <3>1, EmptySeq
  <2> HIDE DEF w, n
  <2>6. retInt' \/ retCtc' => NothingAhead'
    BY <2>2, <2>3 DEF ReadInt, ReadCtc, SingleRetire
  <2>7. drReq' /\ ~retDbgDis' /\ ret' # <<>> => NothingAhead'
    <3> SUFFICES ASSUME dr, ~retDbgDis', n > 0 PROVE NothingAhead'
      BY <1>1, <2>5
    <3>1. ~Commit2 /\ SingleRetire
      BY <2>2 DEF DbgDis, SingleRetire
    <3> QED BY <2>3, <3>1
  <2>8. CASE FlushBe
    <3>1. ssf' = "IDLE"
      BY <1>1, <2>8, Zenon DEF SsfEdge
    <3> QED BY <2>6, <2>7, <3>1, Zenon DEF RequestsWait
  <2>9. CASE ~FlushBe
    <3>1. /\ ssf' = CASE ssf = "IDLE" -> IF fail # None THEN "WF_RETIRE" ELSE "IDLE"
                      [] ssf = "WF_RETIRE" ->
                           IF Retiring0 /\ ret[1].iid = ssfIid THEN "RETIRING" ELSE "WF_RETIRE"
                      [] ssf = "RETIRING" ->
                           IF Retiring0 /\ Kind0 # "split" THEN "IDLE" ELSE "RETIRING"
          /\ ssfIid' = IF ssf' = "IDLE" THEN None
                       ELSE IF fail # None /\ (ssf = "IDLE" \/ Older(fail, ssfIid))
                            THEN fail ELSE ssfIid
      BY <1>1, <1>4, <2>9, Zenon DEF SsfEdge
    <3>2. ssf' = "RETIRING" =>
             ssf = "RETIRING" \/ (ssf = "WF_RETIRE" /\ Retiring0 /\ ret[1].iid = ssfIid)
      BY <1>2, <3>1
    <3>3. ssf' = "WF_RETIRE" => ssf = "WF_RETIRE" \/ (ssf = "IDLE" /\ fail # None)
      BY <1>2, <3>1
    <3>4. ASSUME ssf' = "RETIRING"
          PROVE  commit'[3] = None /\ (ret' # <<>> => NothingAhead')
      <4>1. SingleRetire
        BY <3>2, <3>4 DEF SingleRetire
      <4>2. commit[3] = None
        <5>1. CASE ssf = "RETIRING"
          BY <5>1, Zenon DEF RequestsWait
        <5>2. CASE ssf = "WF_RETIRE" /\ Retiring0 /\ ret[1].iid = ssfIid
          <6>1. 1 \in DOMAIN ret
            <7>1. Len(ret) \in Nat /\ DOMAIN ret = 1 .. Len(ret) /\ ret # <<>>
                  /\ ret \in Seq([iid : Iids, kind : Kinds])
              BY <5>2, LenProperties DEF TypeOK, Retiring0
            <7>2. Len(ret) # 0
              BY <7>1, EmptySeq
            <7> QED BY <7>1, <7>2
          <6>2. ssfIid \in Retired
            BY <5>2, <6>1, Zenon DEF Retired
          <6> QED BY <5>2, <6>2, Zenon DEF RequestsWait
        <5> QED BY <3>2, <3>4, <5>1, <5>2
      <4> QED BY <2>3, <2>4, <2>5, <4>1, <4>2 DEF Commit2
    <3>5. ASSUME ssf' = "WF_RETIRE", commit'[3] # None
          PROVE  ssfIid' \notin Retired'
      <4>1. ssf = "IDLE" /\ fail # None
        <5>1. ~SingleRetire
          BY <2>4, <3>5
        <5> QED BY <3>3, <3>5, <5>1 DEF SingleRetire
      <4>2. ssfIid' = fail
        BY <3>1, <3>5, <4>1
      <4>3. PICK i \in DOMAIN rob : rob[i].iid = fail /\ rob[i].kind = None /\ c[i] = None
        BY <1>1, <4>1
      <4>4. w[i].kind = None
        BY <1>1, <4>3, CompletedKeeps DEF w
      <4> SUFFICES ASSUME NEW j \in DOMAIN ret', ret'[j].iid = fail PROVE FALSE
        BY <4>2, Zenon DEF Retired
      <4>5. j \in 1 .. n /\ j \in DOMAIN rob /\ ret'[j] = w[j]
        BY <2>1
      <4>6. rob[j].iid = fail
        BY <1>1, <4>5, CompletedKeeps DEF w
      <4>7. j = i
        BY <4>3, <4>5, <4>6, IdsDiffer
      <4>8. w[j].kind # None
        <5>1. w \in Seq([iid : Iids, kind : Kinds \cup {None}])
          BY <1>1, CompletedIs DEF w
        <5>2. \A m \in 1 .. Cardinality(Loads(w)) : w[m].kind # None
          BY <5>1, LoadsPrefix
        <5> QED BY <4>5, <5>2 DEF n, w, Gone
      <4> QED BY <4>4, <4>7, <4>8
    <3> QED BY <2>6, <2>7, <3>4, <3>5, Zenon DEF RequestsWait
  <2> QED BY <2>8, <2>9
<1> QED BY <1>3, <1>4

LEMMA ForgottenStep ==
    ASSUME TypeOK, NeverOverflows, IdsInOrder, CommittedAhead, NoneForgotten,
           NEW dq, NEW async, NEW ctcReq, NEW fail, NEW c, NEW k, NEW p,
           Chosen(dq, async, ctcReq, fail, c, k, p)
    PROVE  NoneForgotten'
<1> DEFINE w == Completed(c)
           n == Gone(c)
<1>1. /\ RobEdge(dq, c, k) /\ c \in Completions /\ SsfEdge(dq, fail) /\ drReq' = dr
      /\ scenario' = scenario /\ ae' = NextAe(dq, async, p.wb)
      /\ dq \subseteq {"jdb", "sdb"} /\ async \in Pulse("async")
      /\ fail # None => "ssf" \in Events
  BY Zenon DEF Chosen, Edge
<1>2. \/ dr' \in IF "dr" \in Events THEN {TRUE, dr} ELSE {FALSE}
      \/ dr' = FALSE
      \/ dr' = dr
  BY Zenon DEF Chosen, Edge
<1>3. Events' = Events /\ Compatible(scenario)'
  BY <1>1, Zenon DEF Events, Compatible, NoneForgotten
<1>4. "async" \in Events => "dr" \notin Events /\ "ssf" \notin Events
  BY DEF NoneForgotten, Compatible, Events
<1>5. "async" \notin Events => ae' = "IDLE"
  <2> SUFFICES ASSUME "async" \notin Events PROVE ae' = "IDLE"
    OBVIOUS
  <2>1. ae = "IDLE" /\ async = FALSE
    BY <1>1 DEF NoneForgotten, Pulse
  <2> QED BY <1>1, <2>1 DEF NextAe
<1>6. ASSUME "async" \in Events PROVE ~dr' /\ ~drReq' /\ ssf' = "IDLE"
  <2>1. ~dr /\ ssf = "IDLE" /\ fail = None
    BY <1>1, <1>4, <1>6, Zenon DEF NoneForgotten
  <2>2. ~dr'
    BY <1>2, <1>4, <1>6, <2>1
  <2>3. ssf' = "IDLE"
    BY <1>1, <2>1 DEF SsfEdge
  <2> QED BY <1>1, <2>1, <2>2, <2>3
<1>7. ae' \in {"WFI", "EXPT"} => /\ "async" \in Events
                                 /\ ae = "WFI" \/ (ae = "WFC" /\ commit = <<None, None, None>>)
  <2>1. ae \in {"IDLE", "WFC", "WFI", "EXPT"}
    BY DEF TypeOK
  <2> QED BY <1>1, <1>5, <2>1 DEF NextAe
<1>8. CASE RobFlush(dq)
  <2>1. Announced' = {}
    BY <1>1, <1>8, FlushForgets
  <2> QED BY <1>3, <1>5, <1>6, <2>1, Zenon DEF NoneForgotten, NothingAhead
<1>9. CASE ~RobFlush(dq)
  <2>1. /\ n \in 0 .. Len(rob) /\ Len(rob) \in Nat /\ DOMAIN rob = 1 .. Len(rob)
        /\ DOMAIN ret' = 1 .. n /\ Loads(w) = 1 .. n
        /\ \A i \in 1 .. n : ret'[i] = w[i]
    BY <1>9, FlowStep
  <2>2. commit' = [i \in 1 .. 3 |-> IF i \in Commits(w) THEN w[i].iid ELSE None]
    BY <1>1, <1>9, Zenon DEF RobEdge
  <2>3. \A i \in DOMAIN rob : w[i].iid = rob[i].iid /\ rob[i].iid # None
                              /\ rob[i].iid \notin Retired
    <3>1. \A i \in DOMAIN rob : rob[i].iid \notin Retired
      BY IdsDiffer, Zenon DEF Retired
    <3> QED BY <1>1, <3>1, CompletedKeeps
  <2>4. ASSUME NEW x \in Announced'
        PROVE  \E i \in DOMAIN rob \cap (1 .. 3) :
                  /\ x = rob[i].iid
                  /\ i \in Commits(w) \/ (i <= 2 /\ x \in Announced)
                  /\ i > 1 => 1 \in Loads(w)
    BY <1>1, <1>9, NewlyAnnounced
  <2>5. \A i \in Commits(w) : i \in 1 .. 3 /\ i \in DOMAIN rob /\ ~RtMask
                              /\ ~CommitMask(i, w[i].iid)
    BY <1>1, CommitPorts
  <2>6. ae' \in {"WFI", "EXPT"} => NothingAhead'
    <3> SUFFICES ASSUME ae' \in {"WFI", "EXPT"}, NEW x \in Announced' PROVE FALSE
      BY Zenon DEF NothingAhead
    <3>1. PICK i \in DOMAIN rob \cap (1 .. 3) :
              x = rob[i].iid /\ (i \in Commits(w) \/ x \in Announced)
      BY <2>4
    <3>2. CASE ae = "WFI"
      <4>1. x \notin Announced
        BY <2>3, <3>1, <3>2, Zenon DEF NoneForgotten, NothingAhead
      <4> QED BY <2>5, <3>1, <3>2, <4>1 DEF RtMask
    <3>3. CASE ae = "WFC" /\ commit = <<None, None, None>>
      <4>1. \A j \in 1 .. 3 : commit[j] = None
        <5>1. 1 .. 3 = {1, 2, 3}
          OBVIOUS
        <5> QED BY <3>3, <5>1
      <4>2. x \notin Announced
        BY <1>7, <2>3, <3>1, <4>1, Zenon DEF NoneForgotten
      <4>3. i \in Commits(w) /\ ~CommitMask(i, w[i].iid)
        BY <2>5, <3>1, <4>2
      <4>4. Already(i, w[i].iid)
        BY <3>3, <4>3 DEF CommitMask
      <4>5. i .. 3 \subseteq 1 .. 3
        OBVIOUS
      <4>6. w[i].iid = None
        BY <4>1, <4>4, <4>5 DEF Already
      <4> QED BY <2>3, <3>1, <4>6
    <3> QED BY <1>7, <3>2, <3>3
  <2>7. ASSUME "async" \in Events
        PROVE  Announced' \subseteq Retired' \cup {commit'[i] : i \in 1 .. 3}
    <3> SUFFICES ASSUME NEW x \in Announced', x \notin Retired'
                 PROVE  \E i \in 1 .. 3 : x = commit'[i]
      BY Zenon
    <3>1. PICK i \in DOMAIN rob \cap (1 .. 3) :
              /\ x = rob[i].iid
              /\ i \in Commits(w) \/ (i <= 2 /\ x \in Announced)
              /\ i > 1 => 1 \in Loads(w)
      BY <2>4
    <3>2. i \in Commits(w) => x = commit'[i]
      <4> HIDE DEF w
      <4> QED BY <2>2, <2>3, <3>1
    <3>3. ASSUME i \notin Commits(w) PROVE FALSE
      <4>1. x \in Announced /\ i \in {1, 2}
        BY <3>1, <3>3
      <4>2. CASE i = 2
        <5>1. /\ 2 \in DOMAIN rob /\ Commit2 /\ ~RtMask
              /\ w[1].kind # None /\ ~Abnormal(w[1].kind) /\ ~CommitMask(2, w[2].iid)
          BY <1>1, <3>1, <4>1, <4>2, SecondCommitted
        <5>2. ~SingleRetire
          BY <2>7, <5>1 DEF SingleRetire, ReadInt, ReadCtc, NoneForgotten
        <5>3. 2 \in 1 .. 3 /\ 2 <= Len(w) /\ \A j \in 1 .. 2 - 1 : j = 1
          BY <1>1, <2>1, <5>1, CompletedIs
        <5> HIDE DEF w
        <5>4. 2 \in Commits(w)
          BY <5>1, <5>2, <5>3, Zenon DEF Commits
        <5> QED BY <3>3, <4>2, <5>4
      <4>3. CASE i = 1
        <5>1. PICK j \in 1 .. 3 : w[1].iid = commit[j]
          BY <2>3, <2>7, <3>1, <4>1, <4>3, Zenon DEF NoneForgotten
        <5>2. ~RtMask
          BY <2>3, <3>1, <4>1, Zenon DEF NoneForgotten, NothingAhead, RtMask
        <5>3. 1 \in 1 .. 3 /\ 1 <= Len(w) /\ ~(1 > 1)
          BY <1>1, <2>1, <3>1, <4>3, CompletedIs
        <5> HIDE DEF w
        <5>4. ~CommitMask(1, w[1].iid)
          BY <5>1, <5>3, Again
        <5>5. 1 \in Commits(w)
          BY <5>2, <5>3, <5>4, Zenon DEF Commits
        <5> QED BY <3>3, <4>3, <5>5
      <4> QED BY <4>1, <4>2, <4>3
    <3> QED BY <3>1, <3>2, <3>3
  <2> QED BY <1>3, <1>5, <1>6, <2>6, <2>7, Zenon DEF NoneForgotten
<1> QED BY <1>8, <1>9

LEMMA SparedInit ==
    ASSUME Init, Compatible(scenario)
    PROVE  SparedInv
<1>1. /\ rob = <<>> /\ ret = <<>> /\ commit = <<None, None, None>> /\ announced = {}
      /\ ~retInt /\ ~retCtc /\ ~drReq /\ ~dr /\ ssf = "IDLE" /\ ae = "IDLE"
  BY DEF Init
<1>2. DOMAIN rob = {} /\ DOMAIN ret = {}
  BY <1>1, EmptySeq
<1>3. Announced = {}
  <2>1. 1 .. 3 = {1, 2, 3}
    OBVIOUS
  <2> QED BY <1>1, <2>1 DEF Announced
<1>4. IdsInOrder /\ CommittedAhead
  BY <1>2, <1>3, Zenon DEF IdsInOrder, CommittedAhead
<1>5. RequestsWait
  BY <1>1 DEF RequestsWait
<1>6. NoneForgotten
  BY <1>1, <1>3 DEF NoneForgotten
<1> QED BY <1>4, <1>5, <1>6 DEF SparedInv

\* The requests to flush and the misprediction find nothing committed behind
\* what retires.
LEMMA Spares ==
    ASSUME IInv, SparedInv, FlushReq({}) \/ MispredReq
    PROVE  NothingAhead
<1>1. ASSUME Retiring0, Abnormal(ret[1].kind) PROVE NothingAhead
  <2>1. 1 \in DOMAIN ret
    <3>1. Len(ret) \in Nat /\ DOMAIN ret = 1 .. Len(ret) /\ ret # <<>>
          /\ ret \in Seq([iid : Iids, kind : Kinds])
      BY <1>1, LenProperties DEF IInv, TypeOK, Retiring0
    <3>2. Len(ret) # 0
      BY <3>1, EmptySeq
    <3> QED BY <3>1, <3>2
  <2>2. \A i \in DOMAIN rob \cap {1, 2} : rob[i].iid \notin Announced
    BY <1>1, <2>1, Zenon DEF SparedInv, CommittedAhead
  <2>3. Announced \subseteq Retired \cup {rob[i].iid : i \in DOMAIN rob \cap {1, 2}}
    BY Zenon DEF SparedInv, CommittedAhead
  <2> QED BY <2>2, <2>3, Zenon DEF NothingAhead
<1>2. ASSUME Retiring0, retInt \/ retCtc \/ (drReq /\ ~retDbgDis) \/ ssf = "RETIRING"
      PROVE  NothingAhead
  BY <1>2, Zenon DEF SparedInv, RequestsWait, Retiring0
<1>3. ae = "EXPT" => NothingAhead
  BY DEF SparedInv, NoneForgotten
<1>4. FlushReq({}) \/ MispredReq =>
         \/ Retiring0 /\ Kind0 \in {"flush", "mispred", "expt"}
         \/ Retiring0 /\ (retInt \/ retCtc \/ (drReq /\ ~retDbgDis) \/ ssf = "RETIRING")
         \/ ae = "EXPT"
  BY DEF FlushReq, MispredReq, ExptVld, InstFlush, DbgAck, TakesInt, SsfFlush, NormalRetire
<1>5. Retiring0 /\ Kind0 \in {"flush", "mispred", "expt"} => Abnormal(ret[1].kind)
  BY DEF Kind0, Abnormal
<1> QED BY <1>1, <1>2, <1>3, <1>4, <1>5

\* No flush recalls what the load-store unit has seen commit, unless the pin
\* asks for it, or an asynchronous exception meets the debugger's synchronous
\* request or a split speculation failure.
THEOREM CommittedSpared == Spec /\ Compatible(scenario) => FlushSparesCommitted
<1>1. Init /\ Compatible(scenario) => SparedInv
  BY SparedInit
<1>2. IInv /\ SparedInv /\ [Next]_vars => SparedInv'
  <2> SUFFICES ASSUME IInv, SparedInv, [Next]_vars PROVE SparedInv'
    OBVIOUS
  <2>1. TypeOK /\ NeverOverflows /\ IdsInOrder /\ CommittedAhead /\ RequestsWait /\ NoneForgotten
    BY DEF IInv, SparedInv
  <2>2. CASE Next
    <3>1. PICK dq, async, ctcReq, fail, c, k, p : Chosen(dq, async, ctcReq, fail, c, k, p)
      BY <2>1, <2>2, NextIsEdge
    <3>2. IdsInOrder'
      BY <2>1, <3>1, IdsStep
    <3>3. CommittedAhead'
      BY <2>1, <3>1, AheadStep
    <3>4. RequestsWait'
      BY <2>1, <3>1, RequestsStep
    <3>5. NoneForgotten'
      BY <2>1, <3>1, ForgottenStep
    <3> QED BY <3>2, <3>3, <3>4, <3>5 DEF SparedInv
  <2>3. CASE UNCHANGED vars
    <3>1. /\ rob' = rob /\ ret' = ret /\ nextIid' = nextIid /\ commit' = commit
          /\ announced' = announced /\ ae' = ae /\ retInt' = retInt /\ retCtc' = retCtc
          /\ drReq' = drReq /\ dr' = dr /\ retDbgDis' = retDbgDis /\ ssf' = ssf
          /\ ssfIid' = ssfIid /\ scenario' = scenario
      BY <2>3 DEF vars
    <3>2. Announced' = Announced /\ Retired' = Retired /\ Events' = Events
      BY <3>1, Zenon DEF Announced, Retired, Events
    <3>3. IdsInOrder'
      BY <2>1, <3>1, Zenon DEF IdsInOrder, Back
    <3>4. CommittedAhead' /\ NothingAhead' = NothingAhead
      BY <2>1, <3>1, <3>2, Zenon DEF CommittedAhead, NothingAhead
    <3>5. RequestsWait' /\ NoneForgotten'
      BY <2>1, <3>1, <3>2, <3>4, Zenon DEF RequestsWait, NoneForgotten, Compatible
    <3> QED BY <3>3, <3>4, <3>5 DEF SparedInv
  <2> QED BY <2>2, <2>3
<1>3. IInv /\ SparedInv =>
         (/\ flush = "IDLE" /\ flush' # "IDLE"
          /\ FlushReq(Events \cap {"sdb"}) \/ MispredReq
          => Announced \subseteq Retired)
  <2> SUFFICES ASSUME IInv, SparedInv, FlushReq(Events \cap {"sdb"}) \/ MispredReq
               PROVE  Announced \subseteq Retired
    OBVIOUS
  <2>1. Events \cap {"sdb"} = {}
    BY DEF SparedInv, NoneForgotten, Compatible, Events
  <2>2. FlushReq({}) \/ MispredReq
    BY <2>1, Zenon
  <2> QED BY <2>2, Spares DEF NothingAhead
<1> QED BY <1>1, <1>2, <1>3, Invariance, PTL DEF Spec, FlushSparesCommitted
=============================================================================
