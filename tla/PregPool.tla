------------------------------ MODULE PregPool ------------------------------
(***************************************************************************)
(* What the free list of physical registers (ct_rtu_pst_preg.v) promises   *)
(* to the rename stage, without saying how it searches: every allocate     *)
(* register is empty or offers one free physical register, which no other  *)
(* allocate register offers and no instruction holds.                      *)
(*                                                                         *)
(* One step is one clock edge.                                             *)
(***************************************************************************)
CONSTANTS
    Pregs,   \* the physical registers that can be allocated (preg 0 cannot)
    Slots,   \* the allocate registers, one for each instruction of IR
    None     \* the value of an allocate register whose valid bit is clear;
             \* None \notin Pregs (PregAlloc, which instantiates this, assumes it)

VARIABLES
    free,    \* pregs in life-cycle state DEALLOC
    slot,    \* [Slots -> Pregs \cup {None}]: the allocate registers
    held     \* pregs taken by instructions: renamed, in flight or retired

poolVars == <<free, slot, held>>

Offered(s) == {s[i] : i \in Slots} \ {None}

\* t is what the allocate registers s may become at an edge that empties the
\* registers in take while fr is free: a register that keeps its preg keeps
\* it, another gets a free preg or none, and no two get the same.
IsRefill(s, t, take, fr) ==
    /\ t \in [Slots -> Pregs \cup {None}]
    /\ \A i \in Slots : IF s[i] # None /\ i \notin take
                          THEN t[i] = s[i]
                          ELSE t[i] \in fr \cup {None}
    /\ \A i, j \in Slots : i # j /\ t[i] # None => t[i] # t[j]

\* What each place may hold.
PoolTypeOK ==
    /\ free \subseteq Pregs
    /\ held \subseteq Pregs
    /\ slot \in [Slots -> Pregs \cup {None}]

PoolInit ==
    /\ held \subseteq Pregs
    /\ free = Pregs \ held
    /\ slot = [i \in Slots |-> None]

\* An edge without a flush: IR takes some offers, holders give pregs back
\* and empty registers are refilled from what was free before the edge.
PoolEdge ==
    LET take == {i \in Slots : slot[i] \in held'}
    IN  /\ IsRefill(slot, slot', take, free)
        /\ held' \subseteq held \cup Offered(slot)
        /\ free' = Pregs \ (held' \cup Offered(slot'))

\* A back-end flush: the offers are withdrawn and become free again.
PoolFlush ==
    /\ slot' = [i \in Slots |-> None]
    /\ held' \subseteq held
    /\ free' = Pregs \ held'

PoolNext == PoolEdge \/ PoolFlush

PoolSpec == PoolInit /\ [][PoolNext]_poolVars

-----------------------------------------------------------------------------
\* Every preg is in exactly one place: free, offered by one allocate
\* register, or held. None is ever lost and none is handed out twice.
OnePlace ==
    /\ \A i, j \in Slots : i # j /\ slot[i] # None => slot[i] # slot[j]
    /\ free \cap Offered(slot) = {}
    /\ free \cap held = {}
    /\ held \cap Offered(slot) = {}
    /\ free \cup held \cup Offered(slot) = Pregs
=============================================================================
