----------------------------- MODULE PregAlloc ------------------------------
(***************************************************************************)
(* The free list of the integer physical registers, as ct_rtu_pst_preg.v   *)
(* implements it: four allocate registers, refilled at every clock edge    *)
(* by three fixed-priority searches of the vector of DEALLOC entries.      *)
(* There is no queue: which preg a register receives, and whether it       *)
(* receives one at all, depends on which others are being refilled.        *)
(*                                                                         *)
(* One step is one clock edge.  The life-cycle states other than DEALLOC   *)
(* and WF_ALLOC are collapsed to USED here; module PregPst has them all.   *)
(***************************************************************************)
EXTENDS Integers, FiniteSets

CONSTANTS
    NPreg,   \* allocatable physical registers are 1..NPreg (95 in the RTL)
    NArch,   \* registers the committed mapping always occupies (31 in the RTL)
    MaxBack, \* bound on the pregs released at one edge
    None     \* an allocate register whose valid bit is clear

Pregs == 1..NPreg
Slots == 0..3

\* Six spare pregs are what the search order needs to be able to fill the
\* fourth register: DrainedFills fails with five.  The RTL has 64.
ASSUME AllocAssumption ==
    /\ NArch \in Nat \ {0}
    /\ NPreg \in Nat
    /\ NPreg >= NArch + 6
    /\ MaxBack \in Nat
    /\ None \notin Pregs

VARIABLES
    life,    \* [Pregs -> {"DEALLOC", "WF_ALLOC", "USED"}]
    slot,    \* [Slots -> Pregs \cup {None}]: alloc_preg0..3 and their valid bits
    renamed  \* WF_ALLOC pregs that IR took and IS has not dispatched yet

vars == <<life, slot, renamed>>

Dealloc == {p \in Pregs : life[p] = "DEALLOC"}
Used    == {p \in Pregs : life[p] = "USED"}

-----------------------------------------------------------------------------
(* The searches                                                            *)

LowestOf(S)  == IF S = {} THEN {} ELSE {CHOOSE p \in S : \A q \in S : p <= q}
HighestOf(S) == IF S = {} THEN {} ELSE {CHOOSE p \in S : \A q \in S : q <= p}

\* Mutant of Searches: the valid bit of search 1 does not exclude the entry
\* search 0 found.
SearchesVld1NotMasked ==
    LET d0 == LowestOf(Dealloc)
        d1 == HighestOf(Dealloc)
        d2 == LowestOf(Dealloc \ d0)
    IN  [hot0 |-> d0, vld0 |-> Dealloc # {},
         hot1 |-> d1, vld1 |-> Dealloc # {},
         hot2 |-> d2, vld2 |-> Dealloc \ (d0 \cup d1) # {}]

\* The one-hot vectors dealloc0, dealloc1 and dealloc2, as sets of at most
\* one preg, and the valid bits that go with them.
Searches ==
    LET d0 == LowestOf(Dealloc)
        d1 == HighestOf(Dealloc)
        d2 == LowestOf(Dealloc \ d0)
    IN  [hot0 |-> d0, vld0 |-> Dealloc # {},
         hot1 |-> d1, vld1 |-> Dealloc \ d0 # {},
         hot2 |-> d2, vld2 |-> Dealloc \ (d0 \cup d1) # {}]

\* alloc_pregN_invalid: empty, or being taken by IR at this edge.
Invalid(i, take) == slot[i] = None \/ i \in take

\* Mutant of Vld3: the invalid bit of register 0 with the wrong polarity.
Vld3WrongPolarity(s, take) == \/ s.vld0 /\ Invalid(0, take)
                              \/ s.vld1 /\ ~Invalid(1, take)

\* Register 3 has no search of its own: it borrows the one of register 0
\* if that register is not being refilled, else the one of register 1.
Vld3(s, take) == \/ s.vld0 /\ ~Invalid(0, take)
                 \/ s.vld1 /\ ~Invalid(1, take)
Hot3(s, take) == IF ~Invalid(0, take) THEN s.hot0 ELSE s.hot1

\* The preg a register is loaded with: the encoding of a one-hot vector.
Load(vld, hot) == IF vld THEN CHOOSE p \in hot : TRUE ELSE None

NewSlot(s, take) ==
    [i \in Slots |->
        CASE ~Invalid(i, take) -> slot[i]
          [] i = 0 /\ Invalid(i, take) -> Load(s.vld0, s.hot0)
          [] i = 1 /\ Invalid(i, take) -> Load(s.vld1, s.hot1)
          [] i = 2 /\ Invalid(i, take) -> Load(s.vld2, s.hot2)
          [] i = 3 /\ Invalid(i, take) -> Load(Vld3(s, take), Hot3(s, take))]

\* Mutant of DeallocVld: the vector of register 2 is not cleared where search
\* 1 found the same entry.
DeallocVldVec2NotMasked(s, take) ==
    LET vec0 == s.hot0
        vec1 == s.hot1 \ s.hot0
        vec3 == IF ~Invalid(0, take) THEN vec0 ELSE vec1
    IN  UNION {IF Invalid(0, take) THEN vec0 ELSE {},
               IF Invalid(1, take) THEN vec1 ELSE {},
               IF Invalid(2, take) THEN s.hot2 ELSE {},
               IF /\ Invalid(3, take)
                  /\ ~(Invalid(0, take) /\ Invalid(1, take))
               THEN vec3 ELSE {}}

\* dealloc_vld: the entries that leave DEALLOC at this edge.  The vectors of
\* registers 1 and 2 are cleared where another one already has the bit.
DeallocVld(s, take) ==
    LET vec0 == s.hot0
        vec1 == s.hot1 \ s.hot0
        vec2 == s.hot2 \ s.hot1
        vec3 == IF ~Invalid(0, take) THEN vec0 ELSE vec1
    IN  UNION {IF Invalid(0, take) THEN vec0 ELSE {},
               IF Invalid(1, take) THEN vec1 ELSE {},
               IF Invalid(2, take) THEN vec2 ELSE {},
               IF /\ Invalid(3, take)
                  /\ ~(Invalid(0, take) /\ Invalid(1, take))
               THEN vec3 ELSE {}}

-----------------------------------------------------------------------------
\* After ifu_xx_sync_reset: the architectural registers are mapped to the
\* first NArch pregs and the allocate registers are empty.
Init ==
    /\ life = [p \in Pregs |-> IF p <= NArch THEN "USED" ELSE "DEALLOC"]
    /\ slot = [i \in Slots |-> None]
    /\ renamed = {}

\* What the retire unit can release at one edge: the committed mapping keeps
\* NArch pregs in use.
Releasable == {b \in SUBSET Used : /\ Cardinality(b) <= MaxBack
                                  /\ Cardinality(Used \ b) >= NArch}

\* A clock edge without a back-end flush.  IR takes the offers in take, IS
\* dispatches the group it holds or stalls, the pregs in back are released.
Edge(take, create, back) ==
    /\ LET s == Searches
           leave == DeallocVld(s, take)
       IN  /\ slot' = NewSlot(s, take)
           /\ life' = [p \in Pregs |->
                         CASE p \in leave -> "WF_ALLOC"
                           [] p \in create -> "USED"
                           [] p \in back -> "DEALLOC"
                           [] OTHER -> life[p]]
    /\ renamed' = (renamed \ create) \cup {slot[i] : i \in take}

\* Mutant of Flush: WF_ALLOC has no transition on rtu_yy_xx_flush.
FlushKeepsWfAlloc(back) ==
    /\ slot' = [i \in Slots |-> None]
    /\ life' = [p \in Pregs |-> IF p \in back THEN "DEALLOC" ELSE life[p]]
    /\ renamed' = {}

\* The edge at which rtu_yy_xx_flush is high: every preg not retired goes
\* back to DEALLOC, the allocate registers are emptied.
Flush(back) ==
    /\ slot' = [i \in Slots |-> None]
    /\ life' = [p \in Pregs |->
                  IF p \in back \/ life[p] = "WF_ALLOC" THEN "DEALLOC" ELSE life[p]]
    /\ renamed' = {}

Next ==
    \/ \E take \in SUBSET {i \in Slots : slot[i] # None},
          create \in {{}, renamed}, back \in Releasable :
          Edge(take, create, back)
    \/ \E back \in Releasable : Flush(back)

Spec == Init /\ [][Next]_vars

-----------------------------------------------------------------------------
\* Every register is in one stage of its life, and a slot or a rename names
\* a register.
TypeOK ==
    /\ life \in [Pregs -> {"DEALLOC", "WF_ALLOC", "USED"}]
    /\ slot \in [Slots -> Pregs \cup {None}]
    /\ renamed \subseteq Pregs

Offers == {slot[i] : i \in Slots} \ {None}

\* No preg is offered by two allocate registers, whichever subset of them is
\* refilled at once, although registers 0 and 3, and 1 and 3, share a search
\* and the searches of 0 and 1, or 1 and 2, may end at the same entry.
OffersDistinct ==
    \A i, j \in Slots : i # j /\ slot[i] # None => slot[i] # slot[j]

\* A preg is in WF_ALLOC exactly while one register offers it or IR holds
\* it: the vector that moves entries out of DEALLOC and the multiplexers
\* that load the registers agree, so no preg is offered while DEALLOC (it
\* would be handed out again) and none waits in WF_ALLOC for ever.
WfAllocIsOffered ==
    /\ {p \in Pregs : life[p] = "WF_ALLOC"} = Offers \cup renamed
    /\ Offers \cap renamed = {}

\* Once the machine has drained (only the committed mapping in use, nothing
\* taken), every edge fills one more register until all four are valid: IR,
\* which stalls as a whole when one register it needs is empty, is not
\* stalled for ever by the way the searches are shared.
DrainedFills ==
    Cardinality(Used) = NArch /\ renamed = {} =>
        \/ \A i \in Slots : slot[i] # None
        \/ NewSlot(Searches, {}) # slot

\* The free list implements the pool that promises distinct free pregs.
Pool == INSTANCE PregPool WITH
            free <- Dealloc,
            held <- Used \cup renamed

PoolSafety == Pool!PoolSpec
=============================================================================
