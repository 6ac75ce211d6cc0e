------------------------------ MODULE PlicBus ------------------------------
(* The interrupt controller between its sources and the processors that     *)
(* program it: each cycle any source may change its level and one access    *)
(* may arrive.                                                              *)
EXTENDS Plic

CONSTANTS
    FirstEnables, \* the enables software may give a hart first
    MaxWrites     \* bound: register writes while the sources run

ASSUME WritesAssumption == MaxWrites \in Nat

ASSUME EnablesAssumption == FirstEnables \subseteq SUBSET Sources

VARIABLES plic,       \* the registers
          penable,    \* the enable phase of an access; the setup phase acts
          writes,     \* how often software has written a register
          alike,      \* history: every hart has always had the same enables
          cleared     \* history: software has written a pending register

vars == <<plic, penable, writes, alike, cleared>>

SameEnables(mie) == \A h, g \in Harts : mie[h] = mie[g]

\* Software has programmed the controller before the first level rises.
Init ==
    \E mie \in [Harts -> FirstEnables], mth \in [Harts -> 0 .. MaxPrio],
       prio \in [Sources -> 0 .. MaxPrio] :
        /\ plic = [PlicReset EXCEPT !.mie = mie, !.mth = mth, !.prio = prio]
        /\ penable = FALSE /\ writes = 0 /\ cleared = FALSE
        /\ alike = SameEnables(mie)

Cycle(vld, a) ==
    /\ plic' = PlicEdge(plic, vld, a)
    /\ alike' = (alike /\ SameEnables(plic'.mie))
    /\ cleared' = (cleared \/ a.op = "ip")

\* No access begins: the bus is idle or in the enable phase.
Quiet ==
    /\ \E vld \in SUBSET Sources : Cycle(vld, NoAccess)
    /\ penable' = FALSE /\ UNCHANGED writes

\* The setup phase of a claim or a completion.
Handles ==
    /\ ~penable
    /\ \E vld \in SUBSET Sources, a \in Handlings : Cycle(vld, a)
    /\ penable' = TRUE /\ UNCHANGED writes

\* The setup phase of a write to another register.
Programs ==
    /\ ~penable /\ writes < MaxWrites
    /\ \E vld \in SUBSET Sources, a \in Programmings : Cycle(vld, a)
    /\ penable' = TRUE /\ writes' = writes + 1

Next == Quiet \/ Handles \/ Programs

Spec == Init /\ [][Next]_vars

TypeOK ==
    /\ plic \in PlicType
    /\ penable \in BOOLEAN /\ writes \in 0 .. MaxWrites
    /\ alike \in BOOLEAN /\ cleared \in BOOLEAN

-----------------------------------------------------------------------------

AtRest == plic.state = "IDLE" /\ ~plic.start

BestNow(h) == BestOf(Offered(plic, h, Ids))

\* The claim registers and interrupt lines are results of a scan, taken while
\* sources rise, are claimed and reprogrammed.  When no scan is running or
\* owed, each hart is offered exactly its best request of this moment, and is
\* interrupted exactly if its threshold lets that one through.
Arbitrated ==
    AtRest => \A h \in Harts :
        /\ plic.claim[h] = BestNow(h)[1]
        /\ (h \in plic.mint) = (BestNow(h)[2] > plic.mth[h])

\* A source is handed to one hart: as long as the harts have the same sources
\* enabled, no claim register offers a source that was claimed and is not
\* completed, not even in the cycles before the next scan.
ClaimedOnce ==
    alike => \A h \in Harts : plic.claim[h] \notin plic.active

\* No level is forgotten: a source that stays high is pending or being
\* handled, whenever it rose, was claimed or completed, unless software has
\* written the pending registers.
LevelKept ==
    ~cleared => plic.vldFf \subseteq plic.pending \cup plic.active
=============================================================================
