-------------------------------- MODULE Plic --------------------------------
(* The interrupt controller (plic/rtl): what one edge of plic_clk does to   *)
(* its registers.  The state is a record; the module has no variables of    *)
(* its own.  Only the machine-mode half is driven: the supervisor enables   *)
(* stay zero, so the supervisor claim registers do too.                     *)
EXTENDS Integers

CONSTANTS Harts,       \* the processors, HART_NUM
          Sources,     \* interrupt sources, a set of ids; id 0 is no source
          PerRound,    \* ids scanned in one cycle: ECH_RD, 32
          Rounds,      \* RD_NUM: cycles of one scan
          MaxPrio      \* the highest priority: 2^PRIO_BIT - 1

ASSUME PlicAssumption ==
    /\ {PerRound, Rounds, MaxPrio} \subseteq Nat \ {0}
    /\ Sources \subseteq 1 .. PerRound * Rounds - 1

Ids == Sources \cup {0}
ArbStates == {"IDLE", "ARBTRATE", "ARB_DELAY", "WRITE_CLAIM"}

PlicType ==
    [ vldFf : SUBSET Sources, pending : SUBSET Sources, active : SUBSET Sources,
      prio : [Sources -> 0 .. MaxPrio],
      mie : [Harts -> SUBSET Sources], mth : [Harts -> 0 .. MaxPrio],
      claim : [Harts -> Ids], mint : SUBSET Harts, offer : [Harts -> 0 .. MaxPrio],
      state : ArbStates, round : 0 .. Rounds - 1, start : BOOLEAN,
      best : [Harts -> Ids \X (0 .. MaxPrio)] ]

PlicReset ==
    [ vldFf |-> {}, pending |-> {}, active |-> {}, prio |-> [s \in Sources |-> 0],
      mie |-> [h \in Harts |-> {}], mth |-> [h \in Harts |-> 0],
      claim |-> [h \in Harts |-> 0], mint |-> {}, offer |-> [h \in Harts |-> 0],
      state |-> "IDLE", round |-> 0, start |-> FALSE,
      best |-> [h \in Harts |-> <<0, 0>>] ]

-----------------------------------------------------------------------------
(* One access of the bus: there is one port, so at most one in a cycle.     *)

NoAccess         == [op |-> "none"]
Claim(h)         == [op |-> "claim", hart |-> h]
Complete(h, s)   == [op |-> "complete", hart |-> h, id |-> s]
Enable(h, S)     == [op |-> "mie", hart |-> h, set |-> S]
Threshold(h, n)  == [op |-> "mth", hart |-> h, prio |-> n]
Priority(s, n)   == [op |-> "prio", id |-> s, prio |-> n]
SetPending(S)    == [op |-> "ip", set |-> S]

\* What an interrupt handler does, and what a driver does.
Handlings ==
    {Claim(h) : h \in Harts} \cup {Complete(h, s) : h \in Harts, s \in Sources}

Programmings ==
    {Enable(h, S) : h \in Harts, S \in SUBSET Sources}
    \cup {Threshold(h, n) : h \in Harts, n \in 0 .. MaxPrio}
    \cup {Priority(s, n) : s \in Sources, n \in 0 .. MaxPrio}
    \cup {SetPending(S) : S \in SUBSET Sources}

\* A read of the claim register takes what it holds, a write completes the
\* written id; both only if the hart has the source enabled.
Claimed(p, a) ==
    IF a.op = "claim" THEN {p.claim[a.hart]} \cap p.mie[a.hart] ELSE {}

Completed(p, a) ==
    IF a.op = "complete" THEN {a.id} \cap p.mie[a.hart] ELSE {}

\* Mutant of Clears: a claim clears the register of the hart that reads it only.
ClearsOwn(p, a) == IF a.op = "claim" THEN {a.hart} ELSE {}

\* The claim registers a claim clears: the one read and those that hold the
\* same id.
Clears(p, a) ==
    IF a.op = "claim" THEN {h \in Harts : p.claim[h] = p.claim[a.hart]} ELSE {}

-----------------------------------------------------------------------------
(* The sources (plic_int_kid), all level sensitive: the SoC ties            *)
(* pad_plic_int_cfg to zero.                                                *)

Pulse(p, vld) == vld \ p.vldFf

\* Mutant of NewPending: a level that stays high across its completion is not
\* seen again.
NewPendingPulse(p, vld, a) == Pulse(p, vld) \ (p.active \ Completed(p, a))

NewPending(p, vld, a) ==
    ((vld \cap Completed(p, a)) \cup Pulse(p, vld))
        \ (p.active \ Completed(p, a))

Pending(p, vld, a) ==
    LET set == IF a.op = "ip" THEN a.set ELSE {}
        clr == IF a.op = "ip" THEN Sources \ a.set ELSE {}
    IN (p.pending \cup set \cup NewPending(p, vld, a)) \ (clr \cup Claimed(p, a))

Active(p, a) == (p.active \ Completed(p, a)) \cup Claimed(p, a)

Requests(p) == {s \in p.pending \ p.active : p.prio[s] # 0}

-----------------------------------------------------------------------------
(* The arbitration (plic_arb_ctrl, plic_32to1_arb): every hart scans the    *)
(* ids round by round for its best request, all in step.                    *)

RoundIds(k) == {s \in Ids : k * PerRound <= s /\ s < (k + 1) * PerRound}

\* Of two requests the one of higher priority, of equals the lower id.
Better(q, r) == q[2] > r[2] \/ (q[2] = r[2] /\ q[1] <= r[1])

BestOf(Q) == CHOOSE q \in Q : \A r \in Q : Better(q, r)

\* Id 0 always requests, with priority 0.
Offered(p, h, S) ==
    {<<s, p.prio[s]>> : s \in S \cap Requests(p) \cap p.mie[h]}
        \cup {<<0, 0>> : s \in S \cap {0}}

\* The best request so far.  Two stages of registers delay it by two cycles,
\* ARB_DELAY being the second; nothing reads it before.
Scanned(p, h) ==
    LET found == Offered(p, h, RoundIds(p.round))
    IN IF p.round = 0 THEN BestOf(found) ELSE BestOf(found \cup {p.best[h]})

\* Mutant of Starts: a new level does not ask for an arbitration.
StartsNoPulse(p, vld, a) == a.op # "none"

\* The events after which an arbitration is owed: arb_start_en.
Starts(p, vld, a) == a.op # "none" \/ Pulse(p, vld) # {}

Flushes(a) == a.op \in {"claim", "complete"}

Last(p) == p.round = Rounds - 1

NextArb(p) ==
    CASE p.state = "IDLE"        -> IF p.start THEN "ARBTRATE" ELSE "IDLE"
      [] p.state = "ARBTRATE"    -> IF Last(p) THEN "ARB_DELAY" ELSE "ARBTRATE"
      [] p.state = "ARB_DELAY"   -> "WRITE_CLAIM"
      [] p.state = "WRITE_CLAIM" -> "IDLE"

\* The interrupt line of a hart, mint_out_req: set by the result of a scan,
\* dropped by a claim and by a threshold raised to the priority offered.
Interrupts(p, a, h) ==
    IF p.state = "WRITE_CLAIM"
    THEN p.best[h][2] > p.mth[h]
    ELSE h \in p.mint /\ h \notin Clears(p, a) /\ p.offer[h] > p.mth[h]

ClaimReg(p, a, h) ==
    IF h \in Clears(p, a) THEN 0
    ELSE IF p.state = "WRITE_CLAIM" THEN p.best[h][1] ELSE p.claim[h]

\* One edge, with the levels vld of the sources and the access a.  (What a
\* scan leaves in best is not read again and is forgotten here.)
PlicEdge(p, vld, a) ==
    [ vldFf   |-> vld,
      pending |-> Pending(p, vld, a),
      active  |-> Active(p, a),
      prio    |-> IF a.op = "prio" THEN [p.prio EXCEPT ![a.id] = a.prio] ELSE p.prio,
      mie     |-> IF a.op = "mie" THEN [p.mie EXCEPT ![a.hart] = a.set] ELSE p.mie,
      mth     |-> IF a.op = "mth" THEN [p.mth EXCEPT ![a.hart] = a.prio] ELSE p.mth,
      claim   |-> [h \in Harts |-> ClaimReg(p, a, h)],
      mint    |-> {h \in Harts : Interrupts(p, a, h)},
      offer   |-> [h \in Harts |->
                     IF p.state = "WRITE_CLAIM" /\ p.best[h][1] # 0
                     THEN p.best[h][2] ELSE p.offer[h]],
      state   |-> IF Flushes(a) THEN "IDLE" ELSE NextArb(p),
      round   |-> IF p.state # "ARBTRATE" \/ Flushes(a) \/ Last(p) THEN 0
                  ELSE p.round + 1,
      start   |-> Starts(p, vld, a) \/ (p.start /\ p.state # "IDLE"),
      best    |-> [h \in Harts |->
                     IF Flushes(a) \/ p.state \in {"IDLE", "WRITE_CLAIM"} THEN <<0, 0>>
                     ELSE IF p.state = "ARBTRATE" THEN Scanned(p, h)
                     ELSE p.best[h]] ]
=============================================================================
