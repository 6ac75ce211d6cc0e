-------------------------- MODULE PregAllocProofs ---------------------------
(***************************************************************************)
(* Proofs about PregAlloc, for every number of pregs: the searches never   *)
(* hand a preg to two allocate registers, nothing is lost in WF_ALLOC, and *)
(* the free list implements the pool of module PregPool.                   *)
(***************************************************************************)
EXTENDS PregAlloc, NaturalOrder, FiniteSetTheorems, TLAPS

-----------------------------------------------------------------------------
(* The searches                                                            *)

\* What each search returns: nothing if there is nothing to find, else the
\* least (the greatest) member of the set searched.
LEMMA LowestProperties ==
    ASSUME NEW S \in SUBSET Pregs
    PROVE  /\ S = {} => LowestOf(S) = {}
           /\ S # {} => \E p \in S : LowestOf(S) = {p} /\ \A q \in S : p <= q
<1>1. CASE S = {}
  BY <1>1 DEF LowestOf
<1>2. CASE S # {}
  <2>1. S \in SUBSET Nat
    BY DEF Pregs
  <2>2. \E p \in S : \A q \in S : p <= q
    BY <2>1, <1>2, LeastExists
  <2> QED BY <2>2, <1>2 DEF LowestOf
<1> QED BY <1>1, <1>2

LEMMA HighestProperties ==
    ASSUME NEW S \in SUBSET Pregs
    PROVE  /\ S = {} => HighestOf(S) = {}
           /\ S # {} => \E p \in S : HighestOf(S) = {p} /\ \A q \in S : q <= p
<1>1. CASE S = {}
  BY <1>1 DEF HighestOf
<1>2. CASE S # {}
  <2>2. \E p \in S : \A q \in S : q <= p
    BY <1>2, GreatestExists, AllocAssumption DEF Pregs
  <2> QED BY <2>2, <1>2 DEF HighestOf
<1> QED BY <1>1, <1>2

\* The three searches together.  With one free entry searches 0 and 1 end at
\* it, with two searches 1 and 2 end at the same one, with three or more all
\* end at different entries; the valid bits say how many are different.
Found(hot0, hot1, hot2, vld0, vld1, vld2) ==
    Searches = [hot0 |-> hot0, vld0 |-> vld0, hot1 |-> hot1, vld1 |-> vld1,
                hot2 |-> hot2, vld2 |-> vld2]

LEMMA SearchFacts ==
    \/ Found({}, {}, {}, FALSE, FALSE, FALSE)
    \/ \E a \in Dealloc : Found({a}, {a}, {}, TRUE, FALSE, FALSE)
    \/ \E a, b \in Dealloc : a # b /\ Found({a}, {b}, {b}, TRUE, TRUE, FALSE)
    \/ \E a, b, c \in Dealloc : /\ a # b /\ a # c /\ b # c
                                /\ Found({a}, {b}, {c}, TRUE, TRUE, TRUE)
<1>0. Dealloc \in SUBSET Pregs /\ Pregs \subseteq Nat
  BY DEF Dealloc, Pregs
<1>1. CASE Dealloc = {}
  <2>1. LowestOf(Dealloc) = {} /\ HighestOf(Dealloc) = {}
    BY <1>0, <1>1, LowestProperties, HighestProperties
  <2>2. LowestOf(Dealloc \ {}) = {}
    BY <1>1, LowestProperties
  <2> QED BY <1>1, <2>1, <2>2 DEF Found, Searches
<1>2. CASE Dealloc # {}
  <2>1. PICK a \in Dealloc : LowestOf(Dealloc) = {a} /\ \A q \in Dealloc : a <= q
    BY <1>0, <1>2, LowestProperties
  <2>2. PICK b \in Dealloc : HighestOf(Dealloc) = {b} /\ \A q \in Dealloc : q <= b
    BY <1>0, <1>2, HighestProperties
  <2>3. a \in Nat /\ b \in Nat
    BY <1>0
  <2>4. CASE Dealloc \ {a} = {}
    <3>1. LowestOf(Dealloc \ {a}) = {}
      BY <1>0, <2>4, LowestProperties
    <3>2. b = a
      BY <2>4
    <3>3. Dealloc \ ({a} \cup {b}) = {}
      BY <2>4
    <3>4. Found({a}, {a}, {}, TRUE, FALSE, FALSE)
      BY <1>2, <2>1, <2>2, <2>4, <3>1, <3>2, <3>3 DEF Found, Searches
    <3> QED BY <3>4
  <2>5. CASE Dealloc \ {a} # {}
    <3>1. PICK c \in Dealloc \ {a} :
             LowestOf(Dealloc \ {a}) = {c} /\ \A q \in Dealloc \ {a} : c <= q
      BY <1>0, <2>5, LowestProperties
    <3>2. c \in Nat /\ a # c
      BY <1>0
    <3>3. a # b
      BY <2>1, <2>2, <2>3, <3>1, <3>2
    <3>4. CASE Dealloc \ ({a} \cup {b}) = {}
      <4>1. c = b
        BY <3>4
      <4>2. Found({a}, {b}, {b}, TRUE, TRUE, FALSE)
        BY <1>2, <2>1, <2>2, <2>5, <3>1, <3>4, <4>1 DEF Found, Searches
      <4> QED BY <4>2, <3>3
    <3>5. CASE Dealloc \ ({a} \cup {b}) # {}
      <4>1. PICK d \in Dealloc \ ({a} \cup {b}) : TRUE
        BY <3>5
      <4>2. d \in Nat /\ c <= d /\ d <= b /\ d # b
        BY <1>0, <2>2, <3>1
      <4>3. b # c
        BY <2>3, <3>2, <4>2
      <4>4. Found({a}, {b}, {c}, TRUE, TRUE, TRUE)
        BY <1>2, <2>1, <2>2, <2>5, <3>1, <3>5 DEF Found, Searches
      <4> QED BY <4>3, <4>4, <3>2, <3>3
    <3> QED BY <3>4, <3>5
  <2> QED BY <2>4, <2>5
<1> QED BY <1>1, <1>2

-----------------------------------------------------------------------------
(* The loads                                                               *)

LEMMA LoadOne ==
    ASSUME NEW a PROVE Load(TRUE, {a}) = a
<1>1. \E p \in {a} : TRUE
  OBVIOUS
<1> QED BY <1>1 DEF Load

LEMMA LoadNone ==
    ASSUME NEW S PROVE Load(FALSE, S) = None
BY DEF Load

\* What registers 0, 1 and 2 would be loaded with, and the entries their
\* vectors would move out of DEALLOC.
Values(v0, v1, v2) ==
    LET s == Searches
    IN  /\ v0 \in Dealloc \cup {None} /\ v1 \in Dealloc \cup {None}
        /\ v2 \in Dealloc \cup {None}
        /\ v1 # None => v0 # None /\ v0 # v1
        /\ v2 # None => v0 # v2 /\ v1 # v2
        /\ Load(s.vld0, s.hot0) = v0 /\ s.hot0 = {v0} \ {None}
        /\ Load(s.vld1, s.hot1) = v1 /\ s.hot1 \ s.hot0 = {v1} \ {None}
        /\ Load(s.vld2, s.hot2) = v2 /\ s.hot2 \ s.hot1 = {v2} \ {None}
        /\ s.vld0 = (v0 # None) /\ s.vld1 = (v1 # None)

LEMMA SearchValues == \E v0, v1, v2 : Values(v0, v1, v2)
<1>0. \A p \in Dealloc : p # None
  BY AllocAssumption DEF Dealloc
<1>1. CASE Found({}, {}, {}, FALSE, FALSE, FALSE)
  <2>1. Values(None, None, None)
    BY <1>1, LoadNone DEF Found, Values
  <2> QED BY <2>1
<1>2. ASSUME NEW a \in Dealloc, Found({a}, {a}, {}, TRUE, FALSE, FALSE)
      PROVE \E v0, v1, v2 : Values(v0, v1, v2)
  <2>1. Values(a, None, None)
    BY <1>0, <1>2, LoadOne, LoadNone DEF Found, Values
  <2> QED BY <2>1
<1>3. ASSUME NEW a \in Dealloc, NEW b \in Dealloc, a # b,
             Found({a}, {b}, {b}, TRUE, TRUE, FALSE)
      PROVE \E v0, v1, v2 : Values(v0, v1, v2)
  <2>1. Values(a, b, None)
    BY <1>0, <1>3, LoadOne, LoadNone DEF Found, Values
  <2> QED BY <2>1
<1>4. ASSUME NEW a \in Dealloc, NEW b \in Dealloc, NEW c \in Dealloc,
             a # b, a # c, b # c, Found({a}, {b}, {c}, TRUE, TRUE, TRUE)
      PROVE \E v0, v1, v2 : Values(v0, v1, v2)
  <2>1. Values(a, b, c)
    BY <1>0, <1>4, LoadOne DEF Found, Values
  <2> QED BY <2>1
<1> QED BY <1>1, <1>2, <1>3, <1>4, SearchFacts

\* The registers being refilled and what they are loaded with: t[i].
Refilled(take) == {i \in Slots : Invalid(i, take)}
Loaded(t, take) == {t[i] : i \in Refilled(take)} \ {None}

LoadsAgree(t, take) ==
    /\ t \in [Slots -> Pregs \cup {None}]
    /\ \A i \in Slots \ Refilled(take) : t[i] = slot[i]
    /\ \A i \in Refilled(take) : t[i] \in Dealloc \cup {None}
    /\ \A i, j \in Refilled(take) : i # j /\ t[i] # None => t[i] # t[j]
    /\ DeallocVld(Searches, take) = Loaded(t, take)

\* The loads are distinct free pregs, and the entries leaving DEALLOC are
\* exactly those loaded, whichever registers are refilled together.
LEMMA Loads ==
    ASSUME slot \in [Slots -> Pregs \cup {None}], NEW take \in SUBSET Slots
    PROVE  LoadsAgree(NewSlot(Searches, take), take)
<1> DEFINE t == NewSlot(Searches, take)
<1>0. Slots = {0, 1, 2, 3} /\ Dealloc \subseteq Pregs /\ None \notin Pregs
  BY AllocAssumption DEF Slots, Dealloc
<1>1. PICK v0, v1, v2 : Values(v0, v1, v2)
  BY SearchValues
<1> DEFINE v3 == IF ~Invalid(0, take) THEN v0
                 ELSE IF ~Invalid(1, take) THEN v1 ELSE None
<1>2. /\ t[0] = IF Invalid(0, take) THEN v0 ELSE slot[0]
      /\ t[1] = IF Invalid(1, take) THEN v1 ELSE slot[1]
      /\ t[2] = IF Invalid(2, take) THEN v2 ELSE slot[2]
  BY <1>0, <1>1 DEF NewSlot, Values
<1>3. t[3] = IF Invalid(3, take) THEN v3 ELSE slot[3]
  <2>1. t[3] = IF Invalid(3, take) THEN Load(Vld3(Searches, take), Hot3(Searches, take))
                                   ELSE slot[3]
    BY <1>0 DEF NewSlot
  <2>2. CASE ~Invalid(0, take) /\ v0 # None
    <3>1. Vld3(Searches, take) = TRUE /\ Hot3(Searches, take) = {v0}
      BY <1>1, <2>2 DEF Vld3, Hot3, Values
    <3> QED BY <2>1, <2>2, <3>1, LoadOne
  <2>3. CASE ~Invalid(0, take) /\ v0 = None
    <3>1. Vld3(Searches, take) = FALSE
      BY <1>1, <2>3 DEF Vld3, Values
    <3> QED BY <2>1, <2>3, <3>1, LoadNone
  <2>4. CASE Invalid(0, take) /\ ~Invalid(1, take) /\ v1 # None
    <3>1. Vld3(Searches, take) = TRUE /\ Hot3(Searches, take) = Searches.hot1
      BY <1>1, <2>4 DEF Vld3, Hot3, Values
    <3>2. Load(TRUE, Searches.hot1) = v1
      BY <1>1, <2>4 DEF Values
    <3> QED BY <2>1, <2>4, <3>1, <3>2
  <2>5. CASE Invalid(0, take) /\ (Invalid(1, take) \/ v1 = None)
    <3>1. Vld3(Searches, take) = FALSE
      BY <1>1, <2>5 DEF Vld3, Values
    <3> QED BY <2>1, <2>5, <3>1, LoadNone
  <2> QED BY <2>2, <2>3, <2>4, <2>5
<1>4. v3 \in {v0, v1, None} /\ (Invalid(0, take) => v3 # v0 \/ v3 = None)
      /\ (Invalid(1, take) => v3 # v1 \/ v3 = None) /\ (v3 # None => v3 # v2)
      /\ v3 \in Dealloc \cup {None}
  BY <1>1 DEF Values
<1>5. t \in [Slots -> {t[0], t[1], t[2], t[3]}]
  <2> DEFINE V == {t[0], t[1], t[2], t[3]}
  <2>1. \A i \in Slots : t[i] \in V
    BY <1>0
  <2> HIDE DEF V
  <2>2. t \in [Slots -> V]
    BY <2>1 DEF NewSlot
  <2> QED BY <2>2 DEF V
<1>6. DeallocVld(Searches, take) =
        UNION {IF Invalid(0, take) THEN {v0} \ {None} ELSE {},
               IF Invalid(1, take) THEN {v1} \ {None} ELSE {},
               IF Invalid(2, take) THEN {v2} \ {None} ELSE {},
               IF Invalid(3, take) THEN {v3} \ {None} ELSE {}}
  BY <1>1, Zenon DEF DeallocVld, Values
<1> HIDE DEF t, v3
<1>8. DeallocVld(Searches, take) = Loaded(t, take)
  BY <1>0, <1>2, <1>3, <1>6 DEF Loaded, Refilled
<1>9. \A i, j \in Refilled(take) : i # j /\ t[i] # None => t[i] # t[j]
  BY <1>0, <1>1, <1>2, <1>3, <1>4 DEF Refilled, Values
<1>10. \A i \in Refilled(take) : t[i] \in Dealloc \cup {None}
  BY <1>0, <1>1, <1>2, <1>3, <1>4 DEF Refilled, Values
<1>11. \A i \in Slots \ Refilled(take) : t[i] = slot[i]
  BY <1>0, <1>2, <1>3 DEF Refilled
<1>12. t \in [Slots -> Pregs \cup {None}]
  BY <1>0, <1>5, <1>10, <1>11
<1> QED BY <1>8, <1>9, <1>10, <1>11, <1>12 DEF LoadsAgree, t

-----------------------------------------------------------------------------
(* The invariant                                                           *)

IInv == TypeOK /\ OffersDistinct /\ WfAllocIsOffered

\* The inputs of an edge, as Next enumerates them.
Inputs(take, create, back) ==
    /\ take \in SUBSET {i \in Slots : slot[i] # None}
    /\ create \in {{}, renamed}
    /\ back \in Releasable

\* The offers IR takes, the offers that stay, and the pregs loaded.
Taken(take)    == {slot[i] : i \in take}
Kept(take)     == {slot[i] : i \in Slots \ Refilled(take)}
NewLoads(take) == Loaded(slot', take)

\* What an edge does to the three places a preg can be in.
EdgeMoves(take, create, back) ==
    /\ Offers = Kept(take) \cup Taken(take)
    /\ Kept(take) \cap Taken(take) = {}
    /\ NewLoads(take) \subseteq Dealloc
    /\ Offers' = Kept(take) \cup NewLoads(take)
    /\ renamed' = (renamed \ create) \cup Taken(take)
    /\ Used' = (Used \ back) \cup create
    /\ {p \in Pregs : life'[p] = "WF_ALLOC"} =
          Kept(take) \cup Taken(take) \cup (renamed \ create) \cup NewLoads(take)

LEMMA EdgeProperties ==
    ASSUME IInv, NEW take, NEW create, NEW back,
           Inputs(take, create, back), Edge(take, create, back)
    PROVE  EdgeMoves(take, create, back) /\ LoadsAgree(slot', take)
<1> USE DEF IInv
<1>0. /\ take \subseteq Slots /\ create \subseteq renamed /\ back \subseteq Used
      /\ \A i \in take : slot[i] # None
      /\ None \notin Pregs
  BY AllocAssumption DEF Inputs, Releasable
<1>1. LoadsAgree(slot', take)
  BY <1>0, Loads DEF TypeOK, Edge
<1>2. DeallocVld(Searches, take) = NewLoads(take)
  BY <1>1 DEF LoadsAgree, NewLoads
<1>3. \A i \in Slots : i \in Refilled(take) <=> slot[i] = None \/ i \in take
  BY DEF Refilled, Invalid
<1>4. Offers = Kept(take) \cup Taken(take)
  BY <1>0, <1>3 DEF Offers, Kept, Taken
<1>5. Kept(take) \cap Taken(take) = {}
  BY <1>0, <1>3 DEF Kept, Taken, OffersDistinct
<1>6. NewLoads(take) \subseteq Dealloc
  BY <1>1 DEF LoadsAgree, NewLoads, Loaded
<1>7. Offers' = Kept(take) \cup NewLoads(take)
  <2>1. Offers' = {slot'[i] : i \in Slots} \ {None}
    BY DEF Offers
  <2>2. \A i \in Slots \ Refilled(take) : slot'[i] = slot[i] /\ slot[i] # None
    BY <1>1, <1>3 DEF LoadsAgree
  <2>3. Refilled(take) \subseteq Slots
    BY DEF Refilled
  <2> QED BY <2>1, <2>2, <2>3 DEF Kept, NewLoads, Loaded
<1>8. renamed' = (renamed \ create) \cup Taken(take)
  BY DEF Edge, Taken
<1>9. \A p \in Pregs : life'[p] = CASE p \in NewLoads(take) -> "WF_ALLOC"
                                    [] p \in create -> "USED"
                                    [] p \in back -> "DEALLOC"
                                    [] OTHER -> life[p]
  <2>1. life' = [p \in Pregs |-> CASE p \in DeallocVld(Searches, take) -> "WF_ALLOC"
                                    [] p \in create -> "USED"
                                    [] p \in back -> "DEALLOC"
                                    [] OTHER -> life[p]]
    BY DEF Edge
  <2> QED BY <1>2, <2>1
<1>10. /\ \A p \in create : p \in Pregs /\ life[p] = "WF_ALLOC"
       /\ \A p \in back : p \in Pregs /\ life[p] = "USED"
       /\ \A p \in NewLoads(take) : p \in Pregs /\ life[p] = "DEALLOC"
  BY <1>0, <1>6 DEF WfAllocIsOffered, Used, Dealloc
<1>11. Used' = (Used \ back) \cup create
  <2>1. \A p \in Pregs : life'[p] = "USED" <=> (life[p] = "USED" /\ p \notin back) \/ p \in create
    BY <1>9, <1>10
  <2> QED BY <2>1, <1>10 DEF Used
<1>12. {p \in Pregs : life'[p] = "WF_ALLOC"} =
          Kept(take) \cup Taken(take) \cup (renamed \ create) \cup NewLoads(take)
  <2>1. \A p \in Pregs : life'[p] = "WF_ALLOC" <=>
                            (life[p] = "WF_ALLOC" /\ p \notin create) \/ p \in NewLoads(take)
    BY <1>9, <1>10
  <2>2. /\ \A p \in Pregs : life[p] = "WF_ALLOC" <=> p \in Offers \/ p \in renamed
        /\ Offers \cup renamed \subseteq Pregs
        /\ \A p \in create : p \notin Offers
    BY <1>0 DEF WfAllocIsOffered
  <2> QED BY <2>1, <2>2, <1>4, <1>10
<1> QED BY <1>1, <1>4, <1>5, <1>6, <1>7, <1>8, <1>11, <1>12 DEF EdgeMoves

LEMMA InitInv == Init => IInv
<1> SUFFICES ASSUME Init PROVE IInv
  OBVIOUS
<1>1. TypeOK
  BY AllocAssumption DEF Init, TypeOK, Slots
<1>2. OffersDistinct
  BY DEF Init, OffersDistinct
<1>3. Offers = {}
  BY DEF Init, Offers
<1>4. WfAllocIsOffered
  BY <1>3 DEF Init, WfAllocIsOffered
<1> QED BY <1>1, <1>2, <1>4 DEF IInv

LEMMA EdgeInv ==
    ASSUME IInv, NEW take, NEW create, NEW back,
           Inputs(take, create, back), Edge(take, create, back)
    PROVE  IInv'
<1>0. EdgeMoves(take, create, back) /\ LoadsAgree(slot', take)
  BY EdgeProperties
<1>1. TypeOK'
  <2>1. life' \in [Pregs -> {"DEALLOC", "WF_ALLOC", "USED"}]
    BY DEF IInv, TypeOK, Edge
  <2>2. slot' \in [Slots -> Pregs \cup {None}]
    BY <1>0 DEF LoadsAgree
  <2>3. renamed' \subseteq Pregs
    <3>1. Taken(take) \subseteq Pregs
      BY <2>2 DEF IInv, TypeOK, Taken, Inputs
    <3> QED BY <1>0, <3>1 DEF IInv, TypeOK, EdgeMoves
  <2> QED BY <2>1, <2>2, <2>3 DEF TypeOK
<1>2. OffersDistinct'
  <2> SUFFICES ASSUME NEW i \in Slots, NEW j \in Slots, i # j, slot'[i] # None
               PROVE  slot'[i] # slot'[j]
    BY DEF OffersDistinct
  <2>1. \A k \in Slots \ Refilled(take) : slot'[k] = slot[k] /\ slot[k] # None
    BY <1>0 DEF LoadsAgree, Refilled, Invalid
  <2>2. \A k \in Slots \ Refilled(take) : slot'[k] \notin Dealloc
    BY <2>1 DEF IInv, WfAllocIsOffered, Offers, Dealloc
  <2>3. \A k \in Refilled(take) : slot'[k] \in Dealloc \cup {None}
    BY <1>0 DEF LoadsAgree
  <2>4. CASE i \in Refilled(take) /\ j \in Refilled(take)
    BY <1>0, <2>4 DEF LoadsAgree
  <2>5. CASE i \notin Refilled(take) /\ j \notin Refilled(take)
    BY <2>1, <2>5 DEF IInv, OffersDistinct
  <2>6. CASE i \in Refilled(take) /\ j \notin Refilled(take)
    BY <2>2, <2>3, <2>6
  <2>7. CASE i \notin Refilled(take) /\ j \in Refilled(take)
    BY <2>1, <2>2, <2>3, <2>7
  <2> QED BY <2>4, <2>5, <2>6, <2>7
<1>3. WfAllocIsOffered'
  <2>1. {p \in Pregs : life'[p] = "WF_ALLOC"} = Offers' \cup renamed'
    BY <1>0 DEF EdgeMoves
  <2>2. Offers \cap renamed = {} /\ Dealloc \cap (Offers \cup renamed) = {}
    BY DEF IInv, WfAllocIsOffered, Dealloc
  <2>3. Offers' \cap renamed' = {}
    BY <1>0, <2>2 DEF EdgeMoves
  <2> QED BY <2>1, <2>3 DEF WfAllocIsOffered
<1> QED BY <1>1, <1>2, <1>3 DEF IInv

LEMMA FlushInv ==
    ASSUME IInv, NEW back, back \in Releasable, Flush(back)
    PROVE  IInv'
<1>1. TypeOK'
  BY DEF IInv, TypeOK, Flush
<1>2. OffersDistinct'
  BY DEF Flush, OffersDistinct
<1>3. Offers' = {}
  BY DEF Flush, Offers
<1>4. \A p \in Pregs : life'[p] # "WF_ALLOC"
  BY DEF Flush
<1>5. WfAllocIsOffered'
  BY <1>3, <1>4 DEF WfAllocIsOffered, Flush
<1> QED BY <1>1, <1>2, <1>5 DEF IInv

LEMMA NextInv == IInv /\ [Next]_vars => IInv'
<1> SUFFICES ASSUME IInv, [Next]_vars PROVE IInv'
  OBVIOUS
<1>1. ASSUME NEW take \in SUBSET {i \in Slots : slot[i] # None},
             NEW create \in {{}, renamed}, NEW back \in Releasable,
             Edge(take, create, back)
      PROVE IInv'
  BY <1>1, EdgeInv DEF Inputs
<1>2. ASSUME NEW back \in Releasable, Flush(back) PROVE IInv'
  BY <1>2, FlushInv
<1>3. CASE UNCHANGED vars
  BY <1>3 DEF IInv, TypeOK, OffersDistinct, WfAllocIsOffered, Offers, vars
<1> QED BY <1>1, <1>2, <1>3 DEF Next

LEMMA SpecInv == Spec => []IInv
<1> QED BY InitInv, NextInv, PTL DEF Spec

\* Every state of the free list has its type.
THEOREM TypeCorrect == Spec => []TypeOK
<1>1. IInv => TypeOK
  BY DEF IInv
<1> QED BY <1>1, SpecInv, PTL

\* No physical register is ever offered to two instructions of IR, for any
\* number of pregs and any sequence of takes, dispatches, releases, flushes.
THEOREM OffersAlwaysDistinct == Spec => []OffersDistinct
<1>1. IInv => OffersDistinct
  BY DEF IInv
<1> QED BY <1>1, SpecInv, PTL

\* The entries the searches move out of DEALLOC are the pregs the registers
\* were loaded with: nothing is offered while free, nothing waits in WF_ALLOC
\* with nobody to dispatch it.
THEOREM WfAllocAlwaysOffered == Spec => []WfAllocIsOffered
<1>1. IInv => WfAllocIsOffered
  BY DEF IInv
<1> QED BY <1>1, SpecInv, PTL

-----------------------------------------------------------------------------
(* The refinement                                                          *)

LEMMA PoolInitial == Init => Pool!PoolInit
<1> SUFFICES ASSUME Init PROVE Pool!PoolInit
  OBVIOUS
<1>1. Used \subseteq Pregs /\ Dealloc = Pregs \ Used
  BY DEF Init, Used, Dealloc
<1> QED BY <1>1 DEF Init, Pool!PoolInit

LEMMA PoolEdgeStep ==
    ASSUME IInv, NEW take, NEW create, NEW back,
           Inputs(take, create, back), Edge(take, create, back)
    PROVE  Pool!PoolEdge
<1> DEFINE held == Used \cup renamed
<1>0. EdgeMoves(take, create, back) /\ LoadsAgree(slot', take) /\ IInv'
  BY EdgeProperties, EdgeInv
<1>1. create \subseteq renamed /\ (create \cup (renamed \ create) = renamed)
  BY DEF Inputs
<1>2. held' = (Used \ back) \cup renamed \cup Taken(take)
  BY <1>0, <1>1 DEF EdgeMoves
<1>3. \A i \in Slots : i \in take <=> slot[i] \in held'
  <2> TAKE i \in Slots
  <2>1. take \subseteq Slots /\ \A k \in take : slot[k] # None
    BY DEF Inputs
  <2>2. CASE i \in take
    BY <1>2, <2>2 DEF Taken
  <2>3. CASE i \notin take /\ slot[i] = None
    <3>1. Taken(take) \subseteq Offers /\ Offers \cup renamed \cup Used \subseteq Pregs
      BY <2>1 DEF IInv, WfAllocIsOffered, Used, Taken, Offers
    <3> QED BY <1>2, <2>1, <2>3, <3>1, AllocAssumption
  <2>4. CASE i \notin take /\ slot[i] # None
    <3>1. slot[i] \in Kept(take)
      BY <2>4 DEF Kept, Refilled, Invalid
    <3>2. slot[i] \in Offers /\ Offers \cap renamed = {} /\ Offers \cap Used = {}
      BY <2>4 DEF IInv, WfAllocIsOffered, Offers, Used
    <3> QED BY <1>0, <1>2, <2>4, <3>1, <3>2 DEF EdgeMoves
  <2> QED BY <2>2, <2>3, <2>4
<1>4. {i \in Slots : slot[i] \in held'} = take
  BY <1>3 DEF Inputs
<1>5. Pool!IsRefill(slot, slot', take, Dealloc)
  <2>1. slot' \in [Slots -> Pregs \cup {None}]
    BY <1>0 DEF LoadsAgree
  <2>2. \A i \in Slots : IF slot[i] # None /\ i \notin take
                           THEN slot'[i] = slot[i] ELSE slot'[i] \in Dealloc \cup {None}
    BY <1>0 DEF LoadsAgree, Refilled, Invalid
  <2>3. \A i, j \in Slots : i # j /\ slot'[i] # None => slot'[i] # slot'[j]
    BY <1>0 DEF IInv, OffersDistinct
  <2> QED BY <2>1, <2>2, <2>3 DEF Pool!IsRefill
<1>6. held' \subseteq held \cup Pool!Offered(slot)
  BY <1>0, <1>2 DEF EdgeMoves, Offers, Pool!Offered
<1>7. Dealloc' = Pregs \ (held' \cup Pool!Offered(slot'))
  <2>1. \A p \in Pregs : life'[p] \in {"DEALLOC", "WF_ALLOC", "USED"}
    BY <1>0 DEF IInv, TypeOK
  <2>2. {p \in Pregs : life'[p] = "WF_ALLOC"} = Offers' \cup renamed'
    BY <1>0 DEF IInv, WfAllocIsOffered
  <2>3. Dealloc' = Pregs \ (Used' \cup Offers' \cup renamed')
    BY <2>1, <2>2 DEF Dealloc, Used
  <2> QED BY <2>3 DEF Offers, Pool!Offered
<1> QED BY <1>4, <1>5, <1>6, <1>7 DEF Pool!PoolEdge

LEMMA PoolFlushStep ==
    ASSUME IInv, NEW back, back \in Releasable, Flush(back)
    PROVE  Pool!PoolFlush
<1>1. Used' = Used \ back /\ Dealloc' = Pregs \ Used' /\ renamed' = {}
  <2>1. \A p \in Pregs : life'[p] = IF p \in back \/ life[p] = "WF_ALLOC"
                                    THEN "DEALLOC" ELSE life[p]
    BY DEF Flush
  <2>2. \A p \in Pregs : life[p] \in {"DEALLOC", "WF_ALLOC", "USED"}
    BY DEF IInv, TypeOK
  <2> QED BY <2>1, <2>2 DEF Used, Dealloc, Flush
<1> QED BY <1>1 DEF Pool!PoolFlush, Flush

\* The priority searches, the borrowed search of register 3 and the vectors
\* that mark entries implement the pool: distinct free pregs, none lost.
THEOREM PoolRefined == Spec => PoolSafety
<1>1. Init => Pool!PoolInit
  BY PoolInitial
<1>2. IInv /\ [Next]_vars => [Pool!PoolNext]_(Pool!poolVars)
  <2> SUFFICES ASSUME IInv, [Next]_vars PROVE [Pool!PoolNext]_(Pool!poolVars)
    OBVIOUS
  <2>1. ASSUME NEW take \in SUBSET {i \in Slots : slot[i] # None},
               NEW create \in {{}, renamed}, NEW back \in Releasable,
               Edge(take, create, back)
        PROVE Pool!PoolNext
    BY <2>1, PoolEdgeStep DEF Inputs, Pool!PoolNext
  <2>2. ASSUME NEW back \in Releasable, Flush(back) PROVE Pool!PoolNext
    BY <2>2, PoolFlushStep DEF Pool!PoolNext
  <2>3. CASE UNCHANGED vars
    BY <2>3 DEF vars, Pool!poolVars, Dealloc, Used
  <2> QED BY <2>1, <2>2, <2>3 DEF Next
<1> QED BY <1>1, <1>2, SpecInv, PTL DEF Spec, PoolSafety, Pool!PoolSpec

\* The pool keeps its promise, whatever implements it: no preg is lost and
\* none is in two places.
LEMMA PoolKeepsPlaces == Pool!PoolSpec => [](Pool!PoolTypeOK /\ Pool!OnePlace)
<1> DEFINE Inv == Pool!PoolTypeOK /\ Pool!OnePlace
           free == Dealloc
           held == Used \cup renamed
<1> USE AllocAssumption
<1>1. Pool!PoolInit => Inv
  BY DEF Pool!PoolInit, Pool!PoolTypeOK, Pool!OnePlace, Pool!Offered
<1>2. Inv /\ [Pool!PoolNext]_(Pool!poolVars) => Inv'
  <2> SUFFICES ASSUME Inv, [Pool!PoolNext]_(Pool!poolVars) PROVE Inv'
    OBVIOUS
  <2>1. CASE Pool!PoolEdge
    <3> DEFINE take == {i \in Slots : slot[i] \in held'}
    <3>1. Pool!IsRefill(slot, slot', take, free)
      BY <2>1 DEF Pool!PoolEdge
    <3>2. Pool!PoolTypeOK'
      <4>1. slot' \in [Slots -> Pregs \cup {None}]
        BY <3>1 DEF Pool!IsRefill
      <4>2. Pool!Offered(slot) \subseteq Pregs
        BY DEF Pool!PoolTypeOK, Pool!Offered
      <4>3. held' \subseteq Pregs
        BY <2>1, <4>2 DEF Pool!PoolEdge, Pool!PoolTypeOK
      <4> QED BY <2>1, <4>1, <4>3 DEF Pool!PoolEdge, Pool!PoolTypeOK
    <3>3. \A i, j \in Slots : i # j /\ slot'[i] # None => slot'[i] # slot'[j]
      BY <3>1 DEF Pool!IsRefill
    <3>4. Pool!Offered(slot') \cap held' = {}
      <4> SUFFICES ASSUME NEW i \in Slots, slot'[i] # None PROVE slot'[i] \notin held'
        BY DEF Pool!Offered
      <4>1. CASE slot[i] # None /\ i \notin take
        BY <3>1, <4>1 DEF Pool!IsRefill
      <4>2. CASE slot[i] = None \/ i \in take
        <5>1. slot'[i] \in free
          BY <3>1, <4>2 DEF Pool!IsRefill
        <5>2. slot'[i] \notin held /\ slot'[i] \notin Pool!Offered(slot)
          BY <5>1 DEF Pool!OnePlace
        <5> QED BY <2>1, <5>2 DEF Pool!PoolEdge
      <4> QED BY <4>1, <4>2
    <3>5. free' = Pregs \ (held' \cup Pool!Offered(slot'))
      BY <2>1 DEF Pool!PoolEdge
    <3>6. Pool!Offered(slot') \subseteq Pregs /\ held' \subseteq Pregs
      BY <3>2 DEF Pool!PoolTypeOK, Pool!Offered
    <3>7. Pool!OnePlace'
      BY <3>3, <3>4, <3>5, <3>6 DEF Pool!OnePlace, Pool!Offered
    <3> QED BY <3>2, <3>7
  <2>2. CASE Pool!PoolFlush
    <3>1. Pool!Offered(slot') = {}
      BY <2>2 DEF Pool!PoolFlush, Pool!Offered
    <3>2. Pool!PoolTypeOK'
      BY <2>2 DEF Pool!PoolFlush, Pool!PoolTypeOK
    <3>3. Pool!OnePlace'
      BY <2>2, <3>1, <3>2 DEF Pool!PoolFlush, Pool!PoolTypeOK, Pool!OnePlace, Pool!Offered
    <3> QED BY <3>2, <3>3
  <2>3. CASE UNCHANGED Pool!poolVars
    BY <2>3 DEF Pool!poolVars, Pool!PoolTypeOK, Pool!OnePlace, Pool!Offered
  <2> QED BY <2>1, <2>2, <2>3 DEF Pool!PoolNext
<1> QED BY <1>1, <1>2, PTL DEF Pool!PoolSpec

\* Hence of the free list as coded: at every moment each physical register is
\* free, offered by one allocate register, or in the hands of instructions,
\* and never in two of these places or in none.
THEOREM OnePlaceEach == Spec => []Pool!OnePlace
<1> QED BY PoolRefined, PoolKeepsPlaces, PTL DEF PoolSafety

-----------------------------------------------------------------------------
(* The drained machine                                                     *)

LEMMA OneMore ==
    ASSUME NEW S, IsFiniteSet(S), NEW x
    PROVE  /\ IsFiniteSet(S \cup {x}) /\ Cardinality(S \cup {x}) \in Nat
           /\ Cardinality(S) \in Nat /\ Cardinality(S \cup {x}) <= Cardinality(S) + 1
<1>1. Cardinality(S) \in Nat
  BY FS_CardinalityType
<1>2. /\ IsFiniteSet(S \cup {x})
      /\ Cardinality(S \cup {x}) = IF x \in S THEN Cardinality(S) ELSE Cardinality(S) + 1
  BY FS_AddElement
<1> QED BY <1>1, <1>2

\* With a register empty, the committed mapping and the other three offers
\* leave at least three entries to the searches.
LEMMA ThreeFree ==
    ASSUME TypeOK, WfAllocIsOffered, Cardinality(Used) = NArch, renamed = {},
           NEW i \in Slots, slot[i] = None, NEW a, NEW b
    PROVE  ~(Dealloc \subseteq {a, b})
<1> SUFFICES ASSUME Dealloc \subseteq {a, b} PROVE FALSE
  OBVIOUS
<1>1. NPreg \in Nat /\ NArch \in Nat /\ NPreg >= NArch + 6
  BY AllocAssumption
<1>2. PICK x, y, z \in Slots : \A j \in Slots : j = i \/ j = x \/ j = y \/ j = z
  <2>1. Slots = {0, 1, 2, 3}
    BY DEF Slots
  <2> QED BY <2>1
<1>3. IsFiniteSet(Pregs) /\ Cardinality(Pregs) = NPreg
  BY <1>1, FS_Interval DEF Pregs
<1>4. IsFiniteSet(Used)
  BY <1>3, FS_Subset DEF Used
<1> DEFINE A1 == Used \cup {slot[x]}
           A2 == A1 \cup {slot[y]}
           A3 == A2 \cup {slot[z]}
           A4 == A3 \cup {a}
           A5 == A4 \cup {b}
<1>5. Pregs \subseteq A5
  <2> SUFFICES ASSUME NEW p \in Pregs PROVE p \in Used \cup {slot[x], slot[y], slot[z], a, b}
    OBVIOUS
  <2>1. life[p] \in {"DEALLOC", "WF_ALLOC", "USED"}
    BY DEF TypeOK
  <2>2. CASE life[p] = "WF_ALLOC"
    <3>1. p \in Offers
      BY <2>2 DEF WfAllocIsOffered
    <3>2. PICK j \in Slots : p = slot[j] /\ slot[j] # None
      BY <3>1 DEF Offers
    <3> QED BY <1>2, <3>2
  <2> QED BY <2>1, <2>2 DEF Used, Dealloc
<1>6. IsFiniteSet(A1) /\ Cardinality(A1) <= NArch + 1
  BY <1>1, <1>4, OneMore
<1> HIDE DEF A1
<1>7. IsFiniteSet(A2) /\ Cardinality(A2) <= NArch + 2
  <2>1. IsFiniteSet(A1)
    BY <1>6
  <2>2. /\ IsFiniteSet(A1 \cup {slot[y]}) /\ Cardinality(A1 \cup {slot[y]}) \in Nat
        /\ Cardinality(A1) \in Nat /\ Cardinality(A1 \cup {slot[y]}) <= Cardinality(A1) + 1
    BY <2>1, OneMore, Zenon
  <2> HIDE DEF A2
  <2>3. A2 = A1 \cup {slot[y]}
    BY DEF A2
  <2> QED BY <1>1, <1>6, <2>2, <2>3
<1> HIDE DEF A2
<1>8. IsFiniteSet(A3) /\ Cardinality(A3) <= NArch + 3
  <2>1. IsFiniteSet(A2)
    BY <1>7
  <2>2. /\ IsFiniteSet(A2 \cup {slot[z]}) /\ Cardinality(A2 \cup {slot[z]}) \in Nat
        /\ Cardinality(A2) \in Nat /\ Cardinality(A2 \cup {slot[z]}) <= Cardinality(A2) + 1
    BY <2>1, OneMore, Zenon
  <2> HIDE DEF A3
  <2>3. A3 = A2 \cup {slot[z]}
    BY DEF A3
  <2> QED BY <1>1, <1>7, <2>2, <2>3
<1> HIDE DEF A3
<1>9. IsFiniteSet(A4) /\ Cardinality(A4) <= NArch + 4
  <2>1. IsFiniteSet(A3)
    BY <1>8
  <2>2. /\ IsFiniteSet(A3 \cup {a}) /\ Cardinality(A3 \cup {a}) \in Nat
        /\ Cardinality(A3) \in Nat /\ Cardinality(A3 \cup {a}) <= Cardinality(A3) + 1
    BY <2>1, OneMore, Zenon
  <2> HIDE DEF A4
  <2>3. A4 = A3 \cup {a}
    BY DEF A4
  <2> QED BY <1>1, <1>8, <2>2, <2>3
<1> HIDE DEF A4
<1>10. IsFiniteSet(A5) /\ Cardinality(A5) <= NArch + 5
  <2>1. IsFiniteSet(A4)
    BY <1>9
  <2>2. /\ IsFiniteSet(A4 \cup {b}) /\ Cardinality(A4 \cup {b}) \in Nat
        /\ Cardinality(A4) \in Nat /\ Cardinality(A4 \cup {b}) <= Cardinality(A4) + 1
    BY <2>1, OneMore, Zenon
  <2> HIDE DEF A5
  <2>3. A5 = A4 \cup {b}
    BY DEF A5
  <2> QED BY <1>1, <1>9, <2>2, <2>3
<1> HIDE DEF A5
<1>11. Cardinality(Pregs) <= Cardinality(A5) /\ Cardinality(A5) \in Nat
  BY <1>5, <1>10, FS_Subset, FS_CardinalityType
<1> QED BY <1>1, <1>3, <1>10, <1>11

\* Then every search ends at an entry of its own.
LEMMA AllFound ==
    ASSUME TypeOK, WfAllocIsOffered, Cardinality(Used) = NArch, renamed = {},
           NEW i \in Slots, slot[i] = None
    PROVE  \E a, b, c \in Dealloc : Found({a}, {b}, {c}, TRUE, TRUE, TRUE)
<1>1. ~Found({}, {}, {}, FALSE, FALSE, FALSE)
  <2> SUFFICES ASSUME Found({}, {}, {}, FALSE, FALSE, FALSE) PROVE FALSE
    OBVIOUS
  <2>1. Searches.vld0 = (Dealloc # {}) /\ Searches.vld0 = FALSE
    BY DEF Found, Searches
  <2> QED BY <2>1, ThreeFree
<1>2. ASSUME NEW a \in Dealloc, Found({a}, {a}, {}, TRUE, FALSE, FALSE) PROVE FALSE
  <2>1. /\ Searches.vld1 = (Dealloc \ Searches.hot0 # {}) /\ Searches.vld1 = FALSE
        /\ Searches.hot0 = {a}
    BY <1>2 DEF Found, Searches
  <2>2. Dealloc \subseteq {a, a}
    BY <2>1
  <2> QED BY <2>2, ThreeFree
<1>3. ASSUME NEW a \in Dealloc, NEW b \in Dealloc, Found({a}, {b}, {b}, TRUE, TRUE, FALSE)
      PROVE  FALSE
  <2>1. /\ Searches.vld2 = (Dealloc \ (Searches.hot0 \cup Searches.hot1) # {})
        /\ Searches.vld2 = FALSE /\ Searches.hot0 = {a} /\ Searches.hot1 = {b}
    BY <1>3 DEF Found, Searches
  <2>2. Dealloc \subseteq {a, b}
    BY <2>1
  <2> QED BY <2>2, ThreeFree
<1> QED BY <1>1, <1>2, <1>3, SearchFacts

LEMMA DrainedFillsFollows == IInv => DrainedFills
<1> SUFFICES ASSUME IInv, Cardinality(Used) = NArch, renamed = {},
                    NEW i \in Slots, slot[i] = None
             PROVE  NewSlot(Searches, {}) # slot
  BY DEF DrainedFills
<1>1. TypeOK /\ WfAllocIsOffered
  BY DEF IInv
<1>2. PICK a, b, c \in Dealloc : Found({a}, {b}, {c}, TRUE, TRUE, TRUE)
  BY <1>1, AllFound
<1>3. a # None /\ b # None /\ c # None /\ Slots = {0, 1, 2, 3}
  BY AllocAssumption DEF Dealloc, Slots
<1>4. \A j \in Slots : Invalid(j, {}) <=> slot[j] = None
  BY DEF Invalid
<1>5. ASSUME slot[0] = None PROVE NewSlot(Searches, {})[0] = a
  <2>1. Invalid(0, {}) /\ Searches.vld0 = TRUE /\ Searches.hot0 = {a}
    BY <1>2, <1>3, <1>4, <1>5 DEF Found
  <2>2. NewSlot(Searches, {})[0] = Load(Searches.vld0, Searches.hot0)
    BY <1>3, <2>1 DEF NewSlot
  <2> QED BY <2>1, <2>2, LoadOne
<1>6. ASSUME slot[1] = None PROVE NewSlot(Searches, {})[1] = b
  <2>1. Invalid(1, {}) /\ Searches.vld1 = TRUE /\ Searches.hot1 = {b}
    BY <1>2, <1>3, <1>4, <1>6 DEF Found
  <2>2. NewSlot(Searches, {})[1] = Load(Searches.vld1, Searches.hot1)
    BY <1>3, <2>1 DEF NewSlot
  <2> QED BY <2>1, <2>2, LoadOne
<1>7. ASSUME slot[2] = None PROVE NewSlot(Searches, {})[2] = c
  <2>1. Invalid(2, {}) /\ Searches.vld2 = TRUE /\ Searches.hot2 = {c}
    BY <1>2, <1>3, <1>4, <1>7 DEF Found
  <2>2. NewSlot(Searches, {})[2] = Load(Searches.vld2, Searches.hot2)
    BY <1>3, <2>1 DEF NewSlot
  <2> QED BY <2>1, <2>2, LoadOne
<1>8. ASSUME slot[0] # None, slot[3] = None PROVE NewSlot(Searches, {})[3] = a
  <2>1. ~Invalid(0, {}) /\ Invalid(3, {})
    BY <1>3, <1>4, <1>8
  <2>2. Vld3(Searches, {}) = TRUE /\ Hot3(Searches, {}) = {a}
    BY <1>2, <2>1 DEF Vld3, Hot3, Found
  <2>3. NewSlot(Searches, {})[3] = Load(Vld3(Searches, {}), Hot3(Searches, {}))
    BY <1>3, <2>1 DEF NewSlot
  <2> QED BY <2>2, <2>3, LoadOne
<1> QED BY <1>3, <1>5, <1>6, <1>7, <1>8

\* A drained machine always gets its four offers, one more at every edge,
\* whichever registers are empty and wherever the free pregs are: the shared
\* searches cannot starve a register.
THEOREM DrainedAlwaysFills == Spec => []DrainedFills
<1> QED BY SpecInv, DrainedFillsFollows, PTL
=============================================================================
