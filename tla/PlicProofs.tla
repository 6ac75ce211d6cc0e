----------------------------- MODULE PlicProofs -----------------------------
(* Theorems about the interrupt controller, for every number of processors, *)
(* sources, priorities and rounds of a scan.                                *)
EXTENDS PlicBus, WellFoundedInduction, TLAPS

Quests == Ids \X (0 .. MaxPrio)

\* A nonempty set of numbers has a least one.
LEMMA Least ==
    ASSUME NEW T \in SUBSET Nat, T # {}
    PROVE  \E m \in T : \A n \in T : m <= n
<1>1. \E m \in T : \A n \in T : ~(<<n, m>> \in OpToRel(<, Nat))
  BY NatLessThanWellFounded, WFMin
<1>2. \A n, m \in Nat : n < m => <<n, m>> \in OpToRel(<, Nat)
  BY DEF OpToRel
<1>3. PICK m \in T : \A n \in T : ~(<<n, m>> \in OpToRel(<, Nat))
  BY <1>1
<1>4. ASSUME NEW n \in T PROVE m <= n
  <2>1. n \in Nat /\ m \in Nat
    OBVIOUS
  <2>2. ~(n < m)
    BY <1>2, <1>3, <2>1
  <2> QED BY <2>1, <2>2
<1> QED BY <1>4

LEMMA QuestParts ==
    ASSUME NEW q \in Quests
    PROVE  q[1] \in Nat /\ q[2] \in 0 .. MaxPrio /\ q = <<q[1], q[2]>>
<1>1. MaxPrio \in Nat /\ PerRound \in Nat /\ Rounds \in Nat
  BY PlicAssumption
<1>2. PerRound * Rounds \in Nat
  BY <1>1
<1>3. 1 .. PerRound * Rounds - 1 \subseteq Nat
  BY <1>2
<1>4. Ids \subseteq Nat
  BY <1>3, PlicAssumption DEF Ids
<1>5. q[1] \in Ids /\ q[2] \in 0 .. MaxPrio /\ q = <<q[1], q[2]>>
  BY DEF Quests
<1> QED BY <1>4, <1>5

\* The arbitration has a winner, and only one.
LEMMA Winner ==
    ASSUME NEW Q \in SUBSET Quests, Q # {}
    PROVE  /\ BestOf(Q) \in Q
           /\ \A r \in Q : Better(BestOf(Q), r)
<1> DEFINE Lows == {MaxPrio - q[2] : q \in Q}
<1>1. PICK q0 \in Q : \A r \in Q : q0[2] >= r[2]
  <2>1. Lows \in SUBSET Nat /\ Lows # {}
    BY QuestParts, PlicAssumption
  <2>2. PICK m \in Lows : \A n \in Lows : m <= n
    BY <2>1, Least
  <2>3. PICK q \in Q : m = MaxPrio - q[2]
    BY <2>2
  <2>4. ASSUME NEW r \in Q PROVE q[2] >= r[2]
    <3>1. m <= MaxPrio - r[2]
      BY <2>2
    <3> QED BY <2>3, <3>1, PlicAssumption, QuestParts
  <2> QED BY <2>4
<1> DEFINE Top == {q[1] : q \in {r \in Q : r[2] = q0[2]}}
<1>2. Top \in SUBSET Nat /\ Top # {}
  BY QuestParts
<1>3. PICK m \in Top : \A n \in Top : m <= n
  BY <1>2, Least
<1>4. PICK q \in Q : q[2] = q0[2] /\ m = q[1]
  BY <1>3
<1>5. ASSUME NEW r \in Q PROVE Better(q, r)
  <2>1. CASE r[2] = q0[2]
    <3>1. q[1] <= r[1]
      BY <1>3, <1>4, <2>1
    <3> QED BY <3>1, <1>4, <2>1 DEF Better
  <2>2. CASE r[2] # q0[2]
    BY <1>1, <1>4, <2>2, QuestParts, PlicAssumption DEF Better
  <2> QED BY <2>1, <2>2
<1> QED BY <1>5 DEF BestOf

LEMMA WinnerUnique ==
    ASSUME NEW Q \in SUBSET Quests, NEW q \in Q, \A r \in Q : Better(q, r)
    PROVE  BestOf(Q) = q
<1>1. BestOf(Q) \in Q /\ Better(BestOf(Q), q) /\ Better(q, BestOf(Q))
  BY Winner
<1>2. \A r \in Quests : r[1] \in Nat /\ r[2] \in Nat /\ r = <<r[1], r[2]>>
  BY QuestParts, PlicAssumption
<1>3. BestOf(Q)[1] = q[1] /\ BestOf(Q)[2] = q[2]
  BY <1>1, <1>2 DEF Better
<1> QED BY <1>1, <1>2, <1>3

\* The best of a round and the best so far decide the best of both.
LEMMA WinnerJoins ==
    ASSUME NEW Q \in SUBSET Quests, NEW R \in SUBSET Quests, R # {}
    PROVE  BestOf(Q \cup {BestOf(R)}) = BestOf(Q \cup R)
<1> DEFINE b == BestOf(Q \cup {BestOf(R)})
<1>1. BestOf(R) \in R /\ \A r \in R : Better(BestOf(R), r)
  BY Winner
<1>2. /\ b \in Q \cup {BestOf(R)}
      /\ \A r \in Q \cup {BestOf(R)} : Better(b, r)
  BY <1>1, Winner
<1> HIDE DEF b
<1>3. \A r \in Quests : r[1] \in Nat /\ r[2] \in Nat
  BY QuestParts, PlicAssumption
<1>4. ASSUME NEW r \in R PROVE Better(b, r)
  <2>1. Better(b, BestOf(R)) /\ Better(BestOf(R), r)
    BY <1>1, <1>2
  <2>2. b \in Quests /\ BestOf(R) \in Quests /\ r \in Quests
    BY <1>1, <1>2
  <2> QED BY <2>1, <2>2, <1>3 DEF Better
<1>5. b \in Q \cup R /\ \A r \in Q \cup R : Better(b, r)
  BY <1>1, <1>2, <1>4
<1> QED BY <1>5, WinnerUnique DEF b

-----------------------------------------------------------------------------
(* Type correctness.                                                        *)

Accesses == {NoAccess} \cup Handlings \cup Programmings

LEMMA AccessParts ==
    ASSUME NEW a \in Accesses
    PROVE  /\ a.op \in {"none", "claim", "complete", "mie", "mth", "prio", "ip"}
           /\ a.op \in {"claim", "complete", "mie", "mth"} => a.hart \in Harts
           /\ a.op \in {"complete", "prio"} => a.id \in Sources
           /\ a.op \in {"mie", "ip"} => a.set \subseteq Sources
           /\ a.op \in {"mth", "prio"} => a.prio \in 0 .. MaxPrio
<1> USE DEF Accesses, Handlings, Programmings, NoAccess, Claim, Complete,
            Enable, Threshold, Priority, SetPending
<1>1. CASE a = NoAccess
  BY <1>1
<1>2. CASE a \in Handlings
  BY <1>2
<1>3. CASE a \in Programmings
  BY <1>3
<1> QED BY <1>1, <1>2, <1>3

\* What a hart is offered from a set of ids are requests of those ids that
\* are not being handled; it is offered something if id 0 is among them.
LEMMA OfferedType ==
    ASSUME NEW p \in PlicType, NEW h \in Harts, NEW S \in SUBSET Ids
    PROVE  /\ Offered(p, h, S) \in SUBSET Quests
           /\ \A q \in Offered(p, h, S) : q[1] \notin p.active
           /\ 0 \in S => <<0, 0>> \in Offered(p, h, S)
<1>1. p.pending \subseteq Sources /\ p.active \subseteq Sources
      /\ p.prio \in [Sources -> 0 .. MaxPrio]
  BY DEF PlicType
<1>2. MaxPrio \in Nat /\ 0 \in 0 .. MaxPrio /\ 0 \notin Sources
  BY PlicAssumption
<1>3. \A s \in S \cap Requests(p) \cap p.mie[h] :
         s \in Sources /\ s \notin p.active /\ <<s, p.prio[s]>> \in Quests
  BY <1>1 DEF Requests, Quests, Ids
<1>4. <<0, 0>> \in Quests /\ 0 \notin p.active
  BY <1>1, <1>2 DEF Quests, Ids
<1> QED BY <1>3, <1>4 DEF Offered

LEMMA RoundZero == 0 \in RoundIds(0) /\ \A k : RoundIds(k) \in SUBSET Ids
  BY PlicAssumption DEF RoundIds, Ids

LEMMA ScannedType ==
    ASSUME NEW p \in PlicType, NEW h \in Harts
    PROVE  /\ Scanned(p, h) \in Quests
           /\ p.best[h][1] \notin p.active => Scanned(p, h)[1] \notin p.active
<1>1. p.best[h] \in Quests
  BY DEF PlicType, Quests
<1> DEFINE found == Offered(p, h, RoundIds(p.round))
<1>2. found \in SUBSET Quests /\ \A q \in found : q[1] \notin p.active
  BY OfferedType, RoundZero
<1>3. p.round = 0 => found # {}
  BY OfferedType, RoundZero
<1> HIDE DEF found
<1>4. CASE p.round = 0
  BY <1>2, <1>3, <1>4, Winner DEF Scanned, found
<1>5. CASE p.round # 0
  <2>1. BestOf(found \cup {p.best[h]}) \in found \cup {p.best[h]}
    BY <1>1, <1>2, Winner
  <2> QED BY <1>1, <1>2, <1>5, <2>1 DEF Scanned, found
<1> QED BY <1>4, <1>5

\* Each register keeps its type at an edge.
LEMMA EdgeType ==
    ASSUME NEW p \in PlicType, NEW vld \in SUBSET Sources, NEW a \in Accesses
    PROVE  PlicEdge(p, vld, a) \in PlicType
<1> DEFINE q == PlicEdge(p, vld, a)
<1>1. /\ p.pending \subseteq Sources /\ p.active \subseteq Sources
      /\ p.prio \in [Sources -> 0 .. MaxPrio]
      /\ p.mie \in [Harts -> SUBSET Sources] /\ p.mth \in [Harts -> 0 .. MaxPrio]
      /\ p.claim \in [Harts -> Ids] /\ p.mint \in SUBSET Harts
      /\ p.offer \in [Harts -> 0 .. MaxPrio] /\ p.state \in ArbStates
      /\ p.round \in 0 .. Rounds - 1 /\ p.start \in BOOLEAN
      /\ p.best \in [Harts -> Quests]
  BY DEF PlicType, Quests
<1>2. 0 \in Ids /\ <<0, 0>> \in Quests /\ Rounds \in Nat \ {0}
  BY PlicAssumption DEF Ids, Quests
<1>3. Claimed(p, a) \subseteq Sources
  BY <1>1, AccessParts DEF Claimed
<1>4. Pending(p, vld, a) \in SUBSET Sources /\ Active(p, a) \in SUBSET Sources
  BY <1>1, <1>3, AccessParts DEF Pending, Active, NewPending, Pulse
<1>5. /\ q.prio \in [Sources -> 0 .. MaxPrio]
      /\ q.mie \in [Harts -> SUBSET Sources]
      /\ q.mth \in [Harts -> 0 .. MaxPrio]
  BY <1>1, AccessParts DEF PlicEdge
<1>6. \A h \in Harts : ClaimReg(p, a, h) \in Ids
  <2> SUFFICES ASSUME NEW h \in Harts PROVE ClaimReg(p, a, h) \in Ids
    OBVIOUS
  <2>1. p.best[h] \in Quests /\ p.best[h][1] \in Ids
    BY <1>1 DEF Quests
  <2> QED BY <1>1, <1>2, <2>1 DEF ClaimReg
<1>7. q.claim \in [Harts -> Ids] /\ q.mint \in SUBSET Harts
  BY <1>6 DEF PlicEdge
<1>8. q.offer \in [Harts -> 0 .. MaxPrio]
  <2>1. \A h \in Harts : p.best[h][2] \in 0 .. MaxPrio
    BY <1>1, QuestParts
  <2> QED BY <1>1, <2>1 DEF PlicEdge
<1>9. q.state \in ArbStates
  BY <1>1 DEF PlicEdge, NextArb, ArbStates
<1>10. q.round \in 0 .. Rounds - 1
  BY <1>1, <1>2 DEF PlicEdge, Last
<1>11. q.best \in [Harts -> Quests]
  BY <1>1, <1>2, ScannedType DEF PlicEdge
<1>12. q.start \in BOOLEAN
  BY <1>1 DEF PlicEdge, Starts
<1>13. q.vldFf \in SUBSET Sources /\ q.pending \in SUBSET Sources /\ q.active \in SUBSET Sources
  BY <1>4 DEF PlicEdge
<1> QED
  BY <1>5, <1>7, <1>8, <1>9, <1>10, <1>11, <1>12, <1>13 DEF PlicEdge, PlicType, Quests

LEMMA InitType == Init => TypeOK
<1> SUFFICES ASSUME Init PROVE TypeOK
  OBVIOUS
<1>1. 0 \in Ids /\ 0 \in 0 .. MaxPrio /\ 0 \in 0 .. Rounds - 1 /\ "IDLE" \in ArbStates
  BY PlicAssumption DEF Ids, ArbStates
<1>2. PICK mie \in [Harts -> FirstEnables], mth \in [Harts -> 0 .. MaxPrio],
           prio \in [Sources -> 0 .. MaxPrio] :
             /\ plic = [PlicReset EXCEPT !.mie = mie, !.mth = mth, !.prio = prio]
             /\ penable = FALSE /\ writes = 0 /\ cleared = FALSE
             /\ alike = SameEnables(mie)
  BY DEF Init
<1>3. alike \in BOOLEAN
  BY <1>2, Zenon DEF SameEnables
<1>4. plic \in PlicType
  <2>1. mie \in [Harts -> SUBSET Sources]
    BY EnablesAssumption
  <2> QED BY <1>1, <1>2, <2>1 DEF PlicReset, PlicType
<1>5. penable \in BOOLEAN /\ cleared \in BOOLEAN /\ writes \in 0 .. MaxWrites
  <2>1. penable = FALSE /\ writes = 0 /\ cleared = FALSE
    BY <1>2
  <2>2. penable \in BOOLEAN /\ cleared \in BOOLEAN
    BY <2>1, Zenon
  <2>3. writes \in 0 .. MaxWrites
    BY <2>1, WritesAssumption
  <2> QED BY <2>2, <2>3
<1> QED BY <1>3, <1>4, <1>5 DEF TypeOK

\* A step is an edge with an access, or without one, or nothing.
LEMMA StepIsEdge ==
    ASSUME Next
    PROVE  \E vld \in SUBSET Sources, a \in Accesses : Cycle(vld, a)
<1>1. CASE Quiet
  BY <1>1 DEF Quiet, Accesses
<1>2. CASE Handles
  BY <1>2 DEF Handles, Accesses
<1>3. CASE Programs
  BY <1>3 DEF Programs, Accesses
<1> QED BY <1>1, <1>2, <1>3 DEF Next

LEMMA StepType == TypeOK /\ [Next]_vars => TypeOK'
<1> SUFFICES ASSUME TypeOK, [Next]_vars PROVE TypeOK'
  OBVIOUS
<1>1. CASE Next
  <2>1. PICK vld \in SUBSET Sources, a \in Accesses : Cycle(vld, a)
    BY <1>1, StepIsEdge
  <2>2. plic' \in PlicType
    BY <2>1, EdgeType DEF TypeOK, Cycle
  <2>3. alike' \in BOOLEAN /\ cleared' \in BOOLEAN
    <3>1. /\ alike' = (alike /\ SameEnables(plic'.mie))
          /\ cleared' = (cleared \/ a.op = "ip")
      BY <2>1 DEF Cycle
    <3>2. (alike /\ SameEnables(plic'.mie)) \in BOOLEAN
      OBVIOUS
    <3>3. (cleared \/ a.op = "ip") \in BOOLEAN
      OBVIOUS
    <3> QED BY <3>1, <3>2, <3>3, Zenon
  <2>4. penable' \in BOOLEAN /\ writes' \in 0 .. MaxWrites
    <3>1. penable \in BOOLEAN /\ writes \in 0 .. MaxWrites
      BY DEF TypeOK
    <3>2. CASE Quiet
      BY <3>1, <3>2 DEF Quiet
    <3>3. CASE Handles
      BY <3>1, <3>3 DEF Handles
    <3>4. CASE Programs
      BY <3>1, <3>4, WritesAssumption DEF Programs
    <3> QED BY <1>1, <3>2, <3>3, <3>4 DEF Next
  <2> QED BY <2>2, <2>3, <2>4 DEF TypeOK
<1>2. CASE UNCHANGED vars
  BY <1>2 DEF TypeOK, vars
<1> QED BY <1>1, <1>2

\* Every register of the controller keeps its width, whatever is accessed
\* while the sources change.
THEOREM TypeCorrect == Spec => []TypeOK
  BY InitType, StepType, PTL DEF Spec

-----------------------------------------------------------------------------
(* No source is offered while it is handled.                                *)

\* As long as all harts have the same enables they scan the same requests, so
\* their claim registers agree and a claim clears them all; what a scan has
\* found so far is not being handled, for a claim ends the scan.
InStep(p) ==
    /\ \A h, g \in Harts : p.best[h] = p.best[g] /\ p.claim[h] = p.claim[g]
    /\ \A h \in Harts : p.claim[h] \notin p.active /\ p.best[h][1] \notin p.active

AlikeInv == alike => SameEnables(plic.mie) /\ InStep(plic)

LEMMA EdgeInStep ==
    ASSUME NEW p \in PlicType, NEW vld \in SUBSET Sources, NEW a \in Accesses,
           SameEnables(p.mie), InStep(p)
    PROVE  InStep(PlicEdge(p, vld, a))
<1> DEFINE q == PlicEdge(p, vld, a)
<1>1. 0 \notin Sources
  BY PlicAssumption
<1>2. q.active \subseteq Sources
  BY EdgeType DEF PlicType
<1>3. CASE a.op = "claim"
  <2>1. Clears(p, a) = Harts
    BY <1>3, AccessParts DEF Clears, InStep
  <2>2. \A h \in Harts : q.claim[h] = 0 /\ q.best[h] = <<0, 0>>
    BY <1>3, <2>1 DEF PlicEdge, ClaimReg, Flushes
  <2> QED BY <1>1, <1>2, <2>2 DEF InStep
<1>4. CASE a.op # "claim"
  <2>1. Claimed(p, a) = {} /\ Clears(p, a) = {}
    BY <1>4 DEF Claimed, Clears
  <2>2. q.active \subseteq p.active
    BY <2>1 DEF PlicEdge, Active
  <2>3. \A h \in Harts : q.claim[h] \in {p.claim[h], p.best[h][1]}
    BY <2>1 DEF PlicEdge, ClaimReg
  <2>4. \A h, g \in Harts : q.claim[h] = q.claim[g]
    BY <2>1 DEF PlicEdge, ClaimReg, InStep
  <2>5. \A h, g \in Harts : Scanned(p, h) = Scanned(p, g)
    BY DEF Scanned, Offered, SameEnables, InStep
  <2>6. \A h, g \in Harts : q.best[h] = q.best[g]
    BY <2>5 DEF PlicEdge, InStep
  <2>7. \A h \in Harts : q.best[h] \in {<<0, 0>>, Scanned(p, h), p.best[h]}
    BY DEF PlicEdge
  <2>8. \A h \in Harts : Scanned(p, h)[1] \notin p.active
    BY ScannedType DEF InStep
  <2>9. \A h \in Harts : q.best[h][1] \notin q.active
    <3> SUFFICES ASSUME NEW h \in Harts PROVE q.best[h][1] \notin q.active
      OBVIOUS
    <3>1. CASE q.best[h] = <<0, 0>>
      <4>1. <<0, 0>>[1] = 0 /\ 0 \notin q.active
        BY <1>1, <1>2
      <4> HIDE DEF q
      <4> QED BY <3>1, <4>1
    <3>2. CASE q.best[h] = Scanned(p, h)
      BY <2>2, <2>8, <3>2
    <3>3. CASE q.best[h] = p.best[h]
      BY <2>2, <3>3 DEF InStep
    <3> QED BY <2>7, <3>1, <3>2, <3>3
  <2> QED BY <2>2, <2>3, <2>4, <2>6, <2>9 DEF InStep
<1> QED BY <1>3, <1>4

LEMMA AlikeStep == TypeOK /\ AlikeInv /\ [Next]_vars => AlikeInv'
<1> SUFFICES ASSUME TypeOK, AlikeInv, [Next]_vars PROVE AlikeInv'
  OBVIOUS
<1>1. CASE Next
  <2>1. PICK vld \in SUBSET Sources, a \in Accesses : Cycle(vld, a)
    BY <1>1, StepIsEdge
  <2>2. SUFFICES ASSUME alike' PROVE SameEnables(plic'.mie) /\ InStep(plic')
    BY DEF AlikeInv
  <2>3. alike /\ SameEnables(plic'.mie)
    <3>1. alike' = (alike /\ SameEnables(plic'.mie))
      BY <2>1 DEF Cycle
    <3> QED BY <2>2, <3>1, Zenon
  <2> QED BY <2>1, <2>3, EdgeInStep DEF AlikeInv, TypeOK, Cycle
<1>2. CASE UNCHANGED vars
  BY <1>2 DEF AlikeInv, vars
<1> QED BY <1>1, <1>2

LEMMA AlikeInit == Init => AlikeInv
<1> SUFFICES ASSUME Init PROVE AlikeInv
  OBVIOUS
<1>1. PICK mie \in [Harts -> FirstEnables], mth \in [Harts -> 0 .. MaxPrio],
           prio \in [Sources -> 0 .. MaxPrio] :
             /\ plic = [PlicReset EXCEPT !.mie = mie, !.mth = mth, !.prio = prio]
             /\ alike = SameEnables(mie)
  BY DEF Init
<1>2. plic.mie = mie /\ plic.active = {}
      /\ \A h \in Harts : plic.claim[h] = 0 /\ plic.best[h] = <<0, 0>>
  BY <1>1 DEF PlicReset
<1>3. InStep(plic)
  BY <1>2 DEF InStep
<1>4. alike = SameEnables(mie)
  BY <1>1
<1> QED BY <1>2, <1>3, <1>4 DEF AlikeInv

\* However many harts share the sources, none is offered one that another has
\* claimed and not completed, as long as they have the same sources enabled:
\* the claim register is read once per claim (plic_hreg_busif.v:633).
THEOREM HandedOnce == Spec => []ClaimedOnce
<1>1. TypeOK /\ AlikeInv => ClaimedOnce
  BY DEF AlikeInv, InStep, ClaimedOnce
<1> QED BY <1>1, TypeCorrect, AlikeInit, AlikeStep, PTL DEF Spec

-----------------------------------------------------------------------------
(* No level is forgotten.                                                   *)

LEMMA LevelStep == TypeOK /\ LevelKept /\ [Next]_vars => LevelKept'
<1> SUFFICES ASSUME TypeOK, LevelKept, [Next]_vars PROVE LevelKept'
  OBVIOUS
<1>1. CASE Next
  <2>1. PICK vld \in SUBSET Sources, a \in Accesses : Cycle(vld, a)
    BY <1>1, StepIsEdge
  <2>2. SUFFICES ASSUME ~cleared', NEW s \in plic'.vldFf
                 PROVE  s \in plic'.pending \cup plic'.active
    BY DEF LevelKept
  <2>3. ~cleared /\ a.op # "ip" /\ s \in vld
    BY <2>1, <2>2 DEF Cycle, PlicEdge
  <2>4. /\ plic'.pending =
              (plic.pending \cup NewPending(plic, vld, a)) \ Claimed(plic, a)
        /\ plic'.active = (plic.active \ Completed(plic, a)) \cup Claimed(plic, a)
    BY <2>1, <2>3 DEF Cycle, PlicEdge, Pending, Active
  <2>5. s \in plic.vldFf => s \in plic.pending \cup plic.active
    BY <2>3 DEF LevelKept
  <2> QED BY <2>3, <2>4, <2>5 DEF NewPending, Pulse
<1>2. CASE UNCHANGED vars
  BY <1>2 DEF LevelKept, vars
<1> QED BY <1>1, <1>2

\* A source that stays high is pending or handled, whatever the order of its
\* rise, the claims and the completions (plic_int_kid.v:103).
THEOREM LevelsKept == Spec => []LevelKept
<1>1. Init => LevelKept
  BY DEF Init, LevelKept, PlicReset
<1> QED BY <1>1, TypeCorrect, LevelStep, PTL DEF Spec

-----------------------------------------------------------------------------
(* The result of a scan is the best request of the moment it ends.          *)

\* The ids of the first k rounds.
DoneIds(k) == {s \in Ids : s < k * PerRound}

\* Offered once it has been scanned, unless another scan is owed.
Rested(p) ==
    \A h \in Harts :
        LET best == BestOf(Offered(p, h, Ids))
        IN /\ p.claim[h] = best[1]
           /\ (h \in p.mint) = (best[2] > p.mth[h])
           /\ h \in p.mint => p.offer[h] = best[2]

\* While no new scan is owed nothing has changed since the running one began,
\* so what it has found is the best of the rounds it has done.
ArbInv(p) ==
    /\ p.state # "ARBTRATE" => p.round = 0
    /\ ~p.start /\ p.state = "IDLE" => Rested(p)
    /\ ~p.start /\ p.state = "ARBTRATE" /\ p.round > 0 =>
          \A h \in Harts : p.best[h] = BestOf(Offered(p, h, DoneIds(p.round)))
    /\ ~p.start /\ p.state \in {"ARB_DELAY", "WRITE_CLAIM"} =>
          \A h \in Harts : p.best[h] = BestOf(Offered(p, h, Ids))

LEMMA RoundsAddUp ==
    /\ RoundIds(0) = DoneIds(1)
    /\ \A k \in Nat : RoundIds(k) \cup DoneIds(k) = DoneIds(k + 1)
    /\ DoneIds(Rounds) = Ids
<1>1. PerRound \in Nat \ {0} /\ Rounds \in Nat \ {0}
  BY PlicAssumption
<1>2. PerRound * Rounds \in Nat /\ Rounds * PerRound = PerRound * Rounds
  BY <1>1
<1>3. \A s \in Ids : s \in Nat /\ s < Rounds * PerRound
  <2>1. PerRound * Rounds > 0
    BY <1>1
  <2>2. \A s \in Sources : s \in 1 .. PerRound * Rounds - 1
    BY PlicAssumption
  <2> QED BY <1>2, <2>1, <2>2 DEF Ids
<1>4. DoneIds(Rounds) = Ids
  BY <1>3 DEF DoneIds
<1>5. ASSUME NEW k \in Nat PROVE RoundIds(k) \cup DoneIds(k) = DoneIds(k + 1)
  <2>1. (k + 1) * PerRound = k * PerRound + PerRound /\ k * PerRound \in Nat
    BY <1>1
  <2> QED BY <1>1, <1>3, <2>1 DEF RoundIds, DoneIds
<1>6. RoundIds(0) = DoneIds(1)
  BY <1>1, <1>3 DEF RoundIds, DoneIds
<1> QED BY <1>4, <1>5, <1>6

\* One round: Scanned extends the best of the rounds done.
LEMMA ScannedBest ==
    ASSUME NEW p \in PlicType, NEW h \in Harts,
           p.round > 0 => p.best[h] = BestOf(Offered(p, h, DoneIds(p.round)))
    PROVE  Scanned(p, h) = BestOf(Offered(p, h, DoneIds(p.round + 1)))
<1>1. p.round \in Nat
  BY PlicAssumption DEF PlicType
<1>2. CASE p.round = 0
  BY <1>2, RoundsAddUp DEF Scanned
<1>3. CASE p.round # 0
  <2> DEFINE new == Offered(p, h, RoundIds(p.round))
             old == Offered(p, h, DoneIds(p.round))
  <2>1. new \in SUBSET Quests
    BY OfferedType, RoundZero
  <2>2. 0 \in DoneIds(p.round) /\ DoneIds(p.round) \in SUBSET Ids
    <3>1. PerRound \in Nat \ {0}
      BY PlicAssumption
    <3>2. p.round * PerRound > 0
      BY <1>1, <1>3, <3>1
    <3> QED BY <3>2 DEF DoneIds, Ids
  <2>3. old \in SUBSET Quests /\ old # {}
    BY <2>2, OfferedType
  <2>4. new \cup old = Offered(p, h, DoneIds(p.round + 1))
    <3>1. RoundIds(p.round) \cup DoneIds(p.round) = DoneIds(p.round + 1)
      BY <1>1, RoundsAddUp
    <3> QED BY <3>1 DEF Offered
  <2>5. Scanned(p, h) = BestOf(new \cup {BestOf(old)})
    <3>1. p.best[h] = BestOf(old)
      BY <1>1, <1>3
    <3>2. Scanned(p, h) = BestOf(new \cup {p.best[h]})
      BY <1>3 DEF Scanned
    <3> QED BY <3>1, <3>2
  <2> HIDE DEF new, old
  <2> QED BY <2>1, <2>3, <2>4, <2>5, WinnerJoins
<1> QED BY <1>2, <1>3

\* A hart that is offered a priority above zero is offered a source.
LEMMA BestIsSource ==
    ASSUME NEW p \in PlicType, NEW h \in Harts
    PROVE  LET best == BestOf(Offered(p, h, Ids))
           IN  best \in Quests /\ (best[2] > 0 => best[1] # 0)
<1> DEFINE Q == Offered(p, h, Ids)
<1>1. 0 \in Ids /\ 0 \notin Sources
  BY PlicAssumption DEF Ids
<1>2. Q \in SUBSET Quests /\ <<0, 0>> \in Q
  BY <1>1, OfferedType
<1>3. BestOf(Q) \in Q
  BY <1>2, Winner
<1>4. \A q \in Q : q = <<0, 0>> \/ q[1] \in Sources
  BY DEF Offered, Requests, PlicType
<1>5. BestOf(Q) = <<0, 0>> => BestOf(Q)[2] = 0
  OBVIOUS
<1> QED BY <1>1, <1>2, <1>3, <1>4, <1>5

\* At an edge after which no scan is owed the requests stay the same.
LEMMA QuietEdge ==
    ASSUME NEW p \in PlicType, NEW vld \in SUBSET Sources, NEW a \in Accesses,
           ~PlicEdge(p, vld, a).start
    PROVE  /\ a.op = "none" /\ (~p.start \/ p.state = "IDLE")
           /\ \A h \in Harts, S \in SUBSET Ids :
                 Offered(PlicEdge(p, vld, a), h, S) = Offered(p, h, S)
           /\ PlicEdge(p, vld, a).mth = p.mth
           /\ Clears(p, a) = {} /\ ~Flushes(a)
<1> DEFINE q == PlicEdge(p, vld, a)
<1>1. a.op = "none" /\ Pulse(p, vld) = {} /\ (~p.start \/ p.state = "IDLE")
  BY DEF PlicEdge, Starts
<1>2. Claimed(p, a) = {} /\ Completed(p, a) = {}
  BY <1>1 DEF Claimed, Completed
<1>3. q.active = p.active
  BY <1>2 DEF PlicEdge, Active
<1>4. q.pending = p.pending
  BY <1>1, <1>2 DEF PlicEdge, Pending, NewPending
<1>5. q.prio = p.prio /\ q.mie = p.mie /\ q.mth = p.mth
  BY <1>1 DEF PlicEdge
<1>6. Requests(q) = Requests(p)
  BY <1>3, <1>4, <1>5 DEF Requests
<1>7. \A h \in Harts, S \in SUBSET Ids : Offered(q, h, S) = Offered(p, h, S)
  BY <1>5, <1>6 DEF Offered
<1> QED BY <1>1, <1>5, <1>7 DEF Clears, Flushes

LEMMA EdgeArb ==
    ASSUME NEW p \in PlicType, NEW vld \in SUBSET Sources, NEW a \in Accesses,
           ArbInv(p)
    PROVE  ArbInv(PlicEdge(p, vld, a))
<1> DEFINE q == PlicEdge(p, vld, a)
<1>1. p.round \in Nat /\ Rounds \in Nat \ {0} /\ p.state \in ArbStates
  BY PlicAssumption DEF PlicType
<1>2. q.state # "ARBTRATE" => q.round = 0
  <2>1. q.state = IF Flushes(a) THEN "IDLE" ELSE NextArb(p)
    BY DEF PlicEdge
  <2>2. q.round = IF p.state # "ARBTRATE" \/ Flushes(a) \/ Last(p) THEN 0 ELSE p.round + 1
    BY DEF PlicEdge
  <2>3. p.state = "ARBTRATE" /\ ~Last(p) => NextArb(p) = "ARBTRATE"
    BY DEF NextArb
  <2> HIDE DEF q
  <2> QED BY <2>1, <2>2, <2>3
<1> SUFFICES ASSUME ~q.start
             PROVE  /\ q.state = "IDLE" => Rested(q)
                    /\ q.state = "ARBTRATE" /\ q.round > 0 =>
                          \A h \in Harts : q.best[h] = BestOf(Offered(q, h, DoneIds(q.round)))
                    /\ q.state \in {"ARB_DELAY", "WRITE_CLAIM"} =>
                          \A h \in Harts : q.best[h] = BestOf(Offered(q, h, Ids))
  BY <1>2 DEF ArbInv
<1>3. /\ a.op = "none" /\ (~p.start \/ p.state = "IDLE")
      /\ \A h \in Harts, S \in SUBSET Ids : Offered(q, h, S) = Offered(p, h, S)
      /\ q.mth = p.mth
      /\ Clears(p, a) = {} /\ ~Flushes(a)
  BY QuietEdge
<1>4. CASE p.state = "IDLE" /\ p.start
  <2>1. q.state = "ARBTRATE" /\ q.round = 0
    BY <1>3, <1>4 DEF PlicEdge, NextArb
  <2> QED BY <2>1
<1>5. CASE p.state = "IDLE" /\ ~p.start
  <2>1. q.state = "IDLE"
    BY <1>3, <1>5 DEF PlicEdge, NextArb
  <2>2. ASSUME NEW h \in Harts
        PROVE  LET best == BestOf(Offered(q, h, Ids))
               IN /\ q.claim[h] = best[1]
                  /\ (h \in q.mint) = (best[2] > q.mth[h])
                  /\ h \in q.mint => q.offer[h] = best[2]
    <3> DEFINE best == BestOf(Offered(p, h, Ids))
    <3>1. best = BestOf(Offered(q, h, Ids))
      BY <1>3
    <3>2. /\ p.claim[h] = best[1]
          /\ (h \in p.mint) = (best[2] > p.mth[h])
          /\ h \in p.mint => p.offer[h] = best[2]
      BY <1>5 DEF ArbInv, Rested
    <3> HIDE DEF best
    <3>3. /\ q.claim[h] = p.claim[h] /\ q.offer[h] = p.offer[h]
          /\ h \in q.mint <=> h \in p.mint /\ p.offer[h] > p.mth[h]
      BY <1>3, <1>5 DEF PlicEdge, ClaimReg, Interrupts
    <3> QED BY <1>3, <3>1, <3>2, <3>3
  <2> QED BY <2>1, <2>2 DEF Rested
<1>6. CASE p.state = "ARBTRATE"
  <2>1. \A h \in Harts : q.best[h] = Scanned(p, h)
    BY <1>3, <1>6 DEF PlicEdge
  <2>2. \A h \in Harts : q.best[h] = BestOf(Offered(p, h, DoneIds(p.round + 1)))
    BY <1>3, <1>6, <2>1, ScannedBest DEF ArbInv
  <2>3. CASE Last(p)
    <3>1. q.state = "ARB_DELAY"
      BY <1>3, <1>6, <2>3 DEF PlicEdge, NextArb
    <3>2. p.round + 1 = Rounds
      BY <1>1, <2>3 DEF Last
    <3> QED BY <1>3, <2>2, <3>1, <3>2, RoundsAddUp
  <2>4. CASE ~Last(p)
    <3>1. q.state = "ARBTRATE" /\ q.round = p.round + 1
      BY <1>3, <1>6, <2>4 DEF PlicEdge, NextArb
    <3>2. DoneIds(q.round) \in SUBSET Ids
      BY DEF DoneIds
    <3> QED BY <1>3, <2>2, <3>1, <3>2
  <2> QED BY <2>3, <2>4
<1>7. CASE p.state = "ARB_DELAY"
  <2>1. q.state = "WRITE_CLAIM" /\ \A h \in Harts : q.best[h] = p.best[h]
    BY <1>3, <1>7 DEF PlicEdge, NextArb
  <2> QED BY <1>3, <1>7, <2>1 DEF ArbInv
<1>8. CASE p.state = "WRITE_CLAIM"
  <2>1. q.state = "IDLE"
    BY <1>3, <1>8 DEF PlicEdge, NextArb
  <2>2. ASSUME NEW h \in Harts
        PROVE  LET best == BestOf(Offered(q, h, Ids))
               IN /\ q.claim[h] = best[1]
                  /\ (h \in q.mint) = (best[2] > q.mth[h])
                  /\ h \in q.mint => q.offer[h] = best[2]
    <3> DEFINE best == BestOf(Offered(p, h, Ids))
    <3>1. best = BestOf(Offered(q, h, Ids)) /\ p.best[h] = best
      BY <1>3, <1>8 DEF ArbInv
    <3>2. best[2] \in Nat /\ (best[2] > 0 => best[1] # 0)
      BY BestIsSource, QuestParts, PlicAssumption
    <3> HIDE DEF best
    <3>3. p.mth[h] \in Nat
      BY PlicAssumption DEF PlicType
    <3>4. /\ q.claim[h] = best[1]
          /\ h \in q.mint <=> best[2] > p.mth[h]
          /\ best[1] # 0 => q.offer[h] = best[2]
      BY <1>3, <1>8, <3>1 DEF PlicEdge, ClaimReg, Interrupts
    <3> QED BY <1>3, <3>1, <3>2, <3>3, <3>4
  <2> QED BY <2>1, <2>2 DEF Rested
<1> QED BY <1>1, <1>4, <1>5, <1>6, <1>7, <1>8 DEF ArbStates

LEMMA ArbInit == Init => ArbInv(plic)
<1> SUFFICES ASSUME Init PROVE ArbInv(plic)
  OBVIOUS
<1>1. plic \in PlicType
  BY InitType DEF TypeOK
<1>2. /\ plic.state = "IDLE" /\ plic.round = 0 /\ plic.pending = {} /\ plic.mint = {}
      /\ \A h \in Harts : plic.claim[h] = 0
  BY DEF Init, PlicReset
<1>3. ASSUME NEW h \in Harts PROVE BestOf(Offered(plic, h, Ids)) = <<0, 0>>
  <2>1. Offered(plic, h, Ids) = {<<0, 0>>}
    BY <1>2 DEF Offered, Requests, Ids
  <2>2. <<0, 0>> \in Quests
    BY PlicAssumption DEF Quests, Ids
  <2> QED BY <2>1, <2>2, Winner
<1>4. \A h \in Harts : ~(0 > plic.mth[h])
  BY <1>1, PlicAssumption DEF PlicType
<1>5. Rested(plic)
  <2> SUFFICES ASSUME NEW h \in Harts
               PROVE  LET best == BestOf(Offered(plic, h, Ids))
                      IN /\ plic.claim[h] = best[1]
                         /\ (h \in plic.mint) = (best[2] > plic.mth[h])
                         /\ h \in plic.mint => plic.offer[h] = best[2]
    BY DEF Rested
  <2> DEFINE best == BestOf(Offered(plic, h, Ids))
  <2>1. best[1] = 0 /\ best[2] = 0
    BY <1>3
  <2> HIDE DEF best
  <2> QED BY <1>2, <1>4, <2>1 DEF best
<1> QED BY <1>2, <1>5 DEF ArbInv

LEMMA ArbStep == TypeOK /\ ArbInv(plic) /\ [Next]_vars => ArbInv(plic)'
<1> SUFFICES ASSUME TypeOK, ArbInv(plic), [Next]_vars PROVE ArbInv(plic)'
  OBVIOUS
<1>1. CASE Next
  <2>1. PICK vld \in SUBSET Sources, a \in Accesses : Cycle(vld, a)
    BY <1>1, StepIsEdge
  <2>2. ArbInv(PlicEdge(plic, vld, a))
    BY EdgeArb DEF TypeOK
  <2> QED BY <2>1, <2>2 DEF Cycle
<1>2. CASE UNCHANGED vars
  BY <1>2 DEF vars
<1> QED BY <1>1, <1>2

\* Whatever arrives while a scan runs, the controller comes to rest only with
\* every hart offered its best request and interrupted exactly if the
\* threshold lets it through (plic_hreg_busif.v:778, plic_arb_ctrl.v:201).
THEOREM OffersBest == Spec => []Arbitrated
<1>1. TypeOK /\ ArbInv(plic) => Arbitrated
  BY DEF ArbInv, Rested, Arbitrated, AtRest, BestNow
<1> QED BY <1>1, TypeCorrect, ArbInit, ArbStep, PTL DEF Spec
=============================================================================
