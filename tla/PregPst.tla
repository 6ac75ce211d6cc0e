------------------------------ MODULE PregPst -------------------------------
(***************************************************************************)
(* Rename, dispatch, retire and flush of the integer registers of the      *)
(* C910: the physical-register status table (ct_rtu_pst_preg.v and         *)
(* ct_rtu_pst_preg_entry.v), the speculative rename table of IDU           *)
(* (ct_idu_ir_rt.v), the IR and IS stages that feed it, the window of the  *)
(* reorder buffer and the flush state machine of ct_rtu_retire.v.          *)
(*                                                                         *)
(* One step is one clock edge: every register takes the value its always   *)
(* block gives it, computed from the values before the edge.  What the     *)
(* execution units do (which results are written back, which branches turn *)
(* out mispredicted, which instructions fault) is an input of the edge.    *)
(* Preg 0, constantly mapped to x0, takes no part.                         *)
(***************************************************************************)
EXTENDS Naturals, Sequences, FiniteSets

CONSTANTS
    ARegs,        \* architectural registers x1..x31
    Pregs,        \* physical registers p1..p95
    None,         \* no register
    Dsts,         \* what instructions write: architectural registers, or None
    NSlots,       \* instructions IR renames and IS dispatches at once (4)
    RobSize,      \* entries of the reorder buffer (64)
    RetireWidth,  \* entries it retires at once (3)
    WbPorts,      \* results written back at once (3)
    Debugger      \* TRUE if a debugger may stop the core asynchronously

ASSUME PstAssumption ==
    /\ NSlots \in Nat \ {0} /\ RobSize \in Nat /\ RobSize >= NSlots
    /\ RetireWidth \in Nat \ {0} /\ WbPorts \in Nat
    /\ Debugger \in BOOLEAN
    /\ Dsts \subseteq ARegs \cup {None} /\ IsFiniteSet(Pregs)
    /\ None \notin ARegs \cup Pregs

Slots  == 1..NSlots
Iids   == 0..(2 * RobSize - 1)    \* instruction ids: one bit more than the pointer
Insts  == [dst : ARegs \cup {None}, preg : Pregs \cup {None}, rel : Pregs \cup {None}]
Lives  == {"DEALLOC", "WF_ALLOC", "ALLOC", "RETIRE", "RELEASE"}
FlushStates == {"IDLE", "IS", "FE", "WF_EMPTY", "IS_BE", "FE_BE", "BE"}

VARIABLES
    life, wb,        \* life-cycle and write-back state of each PST entry
    iid, dst, rel,   \* its information registers; None where nothing reads them
    slot,            \* allocate registers: the preg offered to each IR instruction
    rt,              \* rename table: ARegs -> Pregs
    is,              \* instructions in the IS stage, oldest first
    rob,             \* entries of the reorder buffer, oldest first
    nextIid,         \* rob_create0_iid
    flush,           \* flush_cur_state
    asyncFlush,      \* async_flush_ff
    mispredStall,    \* idu_mispred_stall: a mispredicted branch waits to retire
    mispredIid,      \* mispred_iid: that branch; None where nothing reads it
    pend             \* pregs whose producer is in the execution pipes

pst   == <<life, wb, iid, dst, rel>>
front == <<slot, rt, is>>
vars  == <<life, wb, iid, dst, rel, slot, rt, is, rob, nextIid, flush,
           asyncFlush, mispredStall, mispredIid, pend>>

Dealloc == {p \in Pregs : life[p] = "DEALLOC"}
Offers  == {slot[i] : i \in Slots} \ {None}
InIS    == {is[i].preg : i \in DOMAIN is} \ {None}

FlushBe == flush \in {"IS_BE", "FE_BE", "BE"}    \* rtu_yy_xx_flush
FlushFe == flush \in {"FE", "FE_BE"}             \* rtu_idu_flush_fe

\* x_dreg: the preg a committed register is mapped to (recovery mapping).
Committed(a) == {p \in Pregs : life[p] = "RETIRE" /\ dst[p] = a}
\* Mutant of RecoverTable: x_dreg not gated with the RETIRE state.
RecoverTableWithAlloc ==
    [a \in ARegs |-> CHOOSE p \in Pregs : life[p] \in {"ALLOC", "RETIRE"} /\ dst[p] = a]

RecoverTable == [a \in ARegs |-> CHOOSE p \in Pregs : p \in Committed(a)]

-----------------------------------------------------------------------------
(* Rename (IR) and dispatch (IS)                                           *)

\* The last instruction before the i-th of the group g that writes g[i].
LastWriter(g, i) ==
    LET w == {j \in 1..(i - 1) : g[j] = g[i]}
    IN  IF w = {} THEN 0 ELSE CHOOSE j \in w : \A k \in w : k <= j

\* Mutant of Renamed: no dependency check inside the group.
RenamedNoBypass(g) ==
    [i \in DOMAIN g |->
        IF g[i] = None THEN [dst |-> None, preg |-> None, rel |-> None]
        ELSE [dst |-> g[i], preg |-> slot[i], rel |-> rt[g[i]]]]

\* The group g of destination registers renamed: the i-th instruction takes
\* the preg of the i-th allocate register and remembers the one it replaces.
Renamed(g) ==
    [i \in DOMAIN g |->
        IF g[i] = None THEN [dst |-> None, preg |-> None, rel |-> None]
        ELSE [dst |-> g[i], preg |-> slot[i],
              rel |-> IF LastWriter(g, i) = 0 THEN rt[g[i]]
                                              ELSE slot[LastWriter(g, i)]]]

\* Mutant of RenamedTable: the write ports prioritised oldest first.
RenamedTableOldestFirst(g) ==
    [a \in ARegs |->
        LET w == {i \in DOMAIN g : g[i] = a}
        IN  IF w = {} THEN rt[a] ELSE slot[CHOOSE i \in w : \A k \in w : i <= k]]

\* The rename table after the group: a register takes its youngest writer.
RenamedTable(g) ==
    [a \in ARegs |->
        LET w == {i \in DOMAIN g : g[i] = a}
        IN  IF w = {} THEN rt[a] ELSE slot[CHOOSE i \in w : \A k \in w : k <= i]]

\* Mutant of IrGroups: IR is not stalled by an outstanding flush.
IrGroupsDuringFlush ==
    {<<>>} \cup IF mispredStall THEN {}
               ELSE {g \in UNION {[1..n -> Dsts] : n \in 1..NSlots} :
                        \A i \in DOMAIN g : g[i] # None => slot[i] # None}

\* Groups of instructions that may leave IR at an edge.  IR moves as a whole
\* (ctrl_ir_stall), and not at all while a flush or a mispredicted branch is
\* outstanding; it holds any group of the program.
IrGroups ==
    {<<>>} \cup IF flush # "IDLE" \/ mispredStall THEN {}
               ELSE {g \in UNION {[1..n -> Dsts] : n \in 1..NSlots} :
                        \A i \in DOMAIN g : g[i] # None => slot[i] # None}

\* Results that arrive at an edge.
WrittenBack == {d \in SUBSET pend : Cardinality(d) <= WbPorts}

\* What IS dispatches at an edge: nothing when the reorder buffer is full or
\* an issue queue is, else the whole group or (pipedown2) its first half.
DispatchCounts ==
    {0} \cup IF Len(rob) + NSlots <= RobSize
             THEN {Len(is)} \cup (IF Len(is) > 2 THEN {2} ELSE {})
             ELSE {}

\* The reorder-buffer entry, counted from the next free one, of each of the
\* n dispatched instructions: several may be folded into one.
Foldings(n) == {e \in [1..n -> 0..(n - 1)] :
                    /\ n > 0 => e[1] = 0
                    /\ \A i \in 1..(n - 1) : e[i + 1] \in {e[i], e[i] + 1}}

PlusIid(k) == (nextIid + k) % (2 * RobSize)

\* Values of the allocate registers after an edge at which IR takes those in
\* take: any distinct pregs that were DEALLOC (PregAlloc has the search).
RefillsOf(take) ==
    {s \in [Slots -> Dealloc \cup Offers \cup {None}] :
        /\ \A i \in Slots : IF slot[i] # None /\ i \notin take
                            THEN s[i] = slot[i] ELSE s[i] \in Dealloc \cup {None}
        /\ \A i, j \in Slots : i # j /\ s[i] # None => s[i] # s[j]}

-----------------------------------------------------------------------------
(* The status table (PST)                                                  *)

\* The pregs written by the n oldest entries of the reorder buffer.
Retiring(n) == {p \in Pregs : /\ life[p] = "ALLOC"
                             /\ \E i \in 1..n : rob[i].iid = iid[p]}

\* Mutants of NextLife: no transition from ALLOC to RELEASE, for a register
\* written twice among the instructions that retire together; a released
\* preg freed without waiting for its result.
NextLifeAllocNotReleased(p, grant, create, ret, released, mask) ==
    LET gone == wb[p] /\ p \notin mask
    IN  CASE life[p] = "DEALLOC"  -> IF p \in grant /\ ~FlushBe THEN "WF_ALLOC" ELSE "DEALLOC"
          [] life[p] = "WF_ALLOC" -> IF FlushBe THEN "DEALLOC"
                                     ELSE IF p \in create THEN "ALLOC" ELSE "WF_ALLOC"
          [] life[p] = "ALLOC"    -> IF FlushBe THEN "DEALLOC"
                                     ELSE IF p \in ret THEN "RETIRE" ELSE "ALLOC"
          [] life[p] = "RETIRE"   -> IF p \in released
                                     THEN IF gone THEN "DEALLOC" ELSE "RELEASE"
                                     ELSE "RETIRE"
          [] life[p] = "RELEASE"  -> IF gone THEN "DEALLOC" ELSE "RELEASE"

NextLifeReleaseNotWb(p, grant, create, ret, released, mask) ==
    LET gone == p \notin mask
    IN  CASE life[p] = "DEALLOC"  -> IF p \in grant /\ ~FlushBe THEN "WF_ALLOC" ELSE "DEALLOC"
          [] life[p] = "WF_ALLOC" -> IF FlushBe THEN "DEALLOC"
                                     ELSE IF p \in create THEN "ALLOC" ELSE "WF_ALLOC"
          [] life[p] = "ALLOC"    -> IF FlushBe THEN "DEALLOC"
                                     ELSE IF p \in released
                                          THEN IF gone THEN "DEALLOC" ELSE "RELEASE"
                                          ELSE IF p \in ret THEN "RETIRE" ELSE "ALLOC"
          [] life[p] = "RETIRE"   -> IF p \in released
                                     THEN IF gone THEN "DEALLOC" ELSE "RELEASE"
                                     ELSE "RETIRE"
          [] life[p] = "RELEASE"  -> IF gone THEN "DEALLOC" ELSE "RELEASE"

\* Next life-cycle state of p when the pregs in grant move to an allocate
\* register, those in create are dispatched, those in ret retire and those
\* in released are replaced, while store data still reads those in mask.
NextLife(p, grant, create, ret, released, mask) ==
    LET gone == wb[p] /\ p \notin mask
    IN  CASE life[p] = "DEALLOC"  -> IF p \in grant /\ ~FlushBe THEN "WF_ALLOC" ELSE "DEALLOC"
          [] life[p] = "WF_ALLOC" -> IF FlushBe THEN "DEALLOC"
                                     ELSE IF p \in create THEN "ALLOC" ELSE "WF_ALLOC"
          [] life[p] = "ALLOC"    -> IF FlushBe THEN "DEALLOC"
                                     ELSE IF p \in released
                                          THEN IF gone THEN "DEALLOC" ELSE "RELEASE"
                                          ELSE IF p \in ret THEN "RETIRE" ELSE "ALLOC"
          [] life[p] = "RETIRE"   -> IF p \in released
                                     THEN IF gone THEN "DEALLOC" ELSE "RELEASE"
                                     ELSE "RETIRE"
          [] life[p] = "RELEASE"  -> IF gone THEN "DEALLOC" ELSE "RELEASE"

\* Mutant of NextWb: async_flush does not force the write-back state.
NextWbNoAsync(p, create, done) ==
    /\ p \notin create
    /\ IF wb[p] THEN life[p] # "DEALLOC" ELSE p \in done

\* Next write-back bit when the results of the pregs in done arrive.
NextWb(p, create, done) ==
    \/ asyncFlush
    \/ /\ p \notin create
       /\ IF wb[p] THEN life[p] # "DEALLOC" ELSE p \in done

\* The pregs about to become free, unless an entry of the store-data queue
\* still reads them (idu_rtu_pst_preg_dealloc_mask).
Leaving(released) == {p \in Pregs : wb[p] /\ (life[p] = "RELEASE" \/ p \in released)}

\* Mutant of RetiredWb: the pregs retiring at this edge are not looked at.
RetiredWbOld(ret) == \A p \in Pregs : life[p] \in {"RETIRE", "RELEASE"} => wb[p]

\* pst_retire_retired_reg_wb: every retired or released preg, those retiring
\* at this edge included, has its value.
RetiredWb(ret) ==
    \A p \in Pregs : p \in ret \/ life[p] \in {"RETIRE", "RELEASE"} => wb[p]

\* The n oldest instructions of IS, folded into entries by e, enter the PST.
PstEdge(n, k, e, grant, done) ==
    LET create   == {is[i].preg : i \in 1..k} \ {None}
        inst(p)  == CHOOSE i \in 1..k : is[i].preg = p
        ret      == Retiring(n)
        released == {rel[p] : p \in ret}
    IN  /\ \E mask \in SUBSET Leaving(released) :
              life' = [p \in Pregs |-> NextLife(p, grant, create, ret, released, mask)]
        /\ wb' = [p \in Pregs |-> NextWb(p, create, done)]
        /\ iid' = [p \in Pregs |-> IF p \in create THEN PlusIid(e[inst(p)])
                                   ELSE IF life'[p] = "ALLOC" THEN iid[p] ELSE None]
        /\ dst' = [p \in Pregs |-> IF p \in create THEN is[inst(p)].dst
                                   ELSE IF life'[p] \in {"ALLOC", "RETIRE"} THEN dst[p] ELSE None]
        /\ rel' = [p \in Pregs |-> IF p \in create THEN is[inst(p)].rel
                                   ELSE IF life'[p] = "ALLOC" THEN rel[p] ELSE None]
        /\ pend' = IF asyncFlush THEN {}
                   ELSE {p \in (pend \ done) \cup create :
                            FlushBe => life'[p] \in {"RETIRE", "RELEASE"}}

-----------------------------------------------------------------------------
(* The reorder buffer and the flush state machine                          *)

\* Mutant of RobFlush: the buffer is not flushed when the debugger asks.
RobFlushNotDebug(cause) == cause \in {"flush", "mispred"} \/ flush \in {"IS", "FE", "IS_BE", "FE_BE"}

\* retire_rob_flush, where cause is what the retire unit starts at this edge.
RobFlush(cause) == cause # "none" \/ flush \in {"IS", "FE", "IS_BE", "FE_BE"}

\* The window after n entries retire, the branches in the entries numbered
\* by cancel are found mispredicted, and k instructions are dispatched.
RobEdge(n, cause, cancel, k, e) ==
    LET news == IF k = 0 THEN 0 ELSE e[k] + 1
        mark == [i \in DOMAIN rob |-> [rob[i] EXCEPT !.mispred = @ \/ i \in cancel]]
    IN  IF RobFlush(cause)
        THEN rob' = <<>> /\ nextIid' = 0
        ELSE /\ rob' = SubSeq(mark, n + 1, Len(rob)) \o
                        [i \in 1..news |-> [iid |-> PlusIid(i - 1), mispred |-> FALSE]]
             /\ nextIid' = PlusIid(news)

\* The branch unit holds rename from a misprediction to the back-end flush.
StallEdge(cause, cancel) ==
    /\ mispredStall' = (~FlushBe /\ (mispredStall \/ cancel # {}))
    /\ mispredIid' = IF RobFlush(cause) THEN None
                     ELSE IF cancel = {} THEN mispredIid
                     ELSE rob[CHOOSE i \in cancel : TRUE].iid

\* Mutant of NextFlush: a debugger's flush skips the front end.
NextFlushDebugBe(cause, empty) ==
    CASE cause = "debug"    -> "BE"
      [] cause # "debug" /\ flush = "IDLE" ->
            (CASE cause = "flush"   -> IF empty THEN "FE_BE" ELSE "FE"
               [] cause = "mispred" -> IF empty THEN "IS_BE" ELSE "IS"
               [] cause = "none"    -> "IDLE")
      [] cause # "debug" /\ flush \in {"IS", "FE", "WF_EMPTY"} ->
            IF empty THEN "BE" ELSE "WF_EMPTY"
      [] cause # "debug" /\ FlushBe -> "IDLE"

\* The flush state machine: IS and FE flush at once, BE waits for the pipes.
NextFlush(cause, empty) ==
    CASE cause = "debug"    -> "FE_BE"
      [] cause # "debug" /\ flush = "IDLE" ->
            (CASE cause = "flush"   -> IF empty THEN "FE_BE" ELSE "FE"
               [] cause = "mispred" -> IF empty THEN "IS_BE" ELSE "IS"
               [] cause = "none"    -> "IDLE")
      [] cause # "debug" /\ flush \in {"IS", "FE", "WF_EMPTY"} ->
            IF empty THEN "BE" ELSE "WF_EMPTY"
      [] cause # "debug" /\ FlushBe -> "IDLE"

-----------------------------------------------------------------------------
\* After ifu_xx_sync_reset: the architectural registers are mapped.
Init ==
    /\ rt \in {f \in [ARegs -> Pregs] : \A a, b \in ARegs : a # b => f[a] # f[b]}
    /\ LET mapped == {rt[a] : a \in ARegs}
       IN  /\ life = [p \in Pregs |-> IF p \in mapped THEN "RETIRE" ELSE "DEALLOC"]
           /\ wb   = [p \in Pregs |-> p \in mapped]
           /\ dst  = [p \in Pregs |-> IF p \in mapped THEN CHOOSE a \in ARegs : rt[a] = p
                                                       ELSE None]
    /\ iid = [p \in Pregs |-> None]
    /\ rel = [p \in Pregs |-> None]
    /\ slot = [i \in Slots |-> None]
    /\ is = <<>> /\ rob = <<>> /\ nextIid = 0
    /\ flush = "IDLE" /\ asyncFlush = FALSE
    /\ mispredStall = FALSE /\ mispredIid = None
    /\ pend = {}

\* What moves at an edge: k instructions leave IS, folded by e, the group g
\* leaves IR and s refills the allocate registers; done are the results that
\* arrive.
Moves(n, cause, cancel, k, e, g, s, done) ==
    /\ Len(g) <= NSlots - (Len(is) - k)
    /\ g # <<>> /\ k = 0 => is = <<>>
    /\ PstEdge(n, k, e, {s[i] : i \in Slots} \ {None}, done)
    /\ slot' = IF FlushBe THEN [i \in Slots |-> None] ELSE s
    /\ rt' = IF FlushBe THEN RecoverTable ELSE RenamedTable(g)
    /\ is' = IF FlushFe \/ cancel # {} THEN <<>>
             ELSE SubSeq(is, k + 1, Len(is)) \o Renamed(g)
    /\ RobEdge(n, cause, cancel, k, e)

\* One clock edge: n entries retire, cause is what the retire unit starts,
\* cancel is the set of entries whose branch is found mispredicted.  empty is
\* retire_flush_pipeline_empty: the retired results are written back and the
\* load-store unit has no committed data left (its input).
Edge(n, cause, cancel) ==
    /\ \E k \in DispatchCounts, done \in WrittenBack, g \in IrGroups :
       \E e \in Foldings(k), s \in RefillsOf({i \in DOMAIN g : g[i] # None}) :
           Moves(n, cause, cancel, k, e, g, s, done)
    /\ \E empty \in {FALSE, RetiredWb(Retiring(n))} : flush' = NextFlush(cause, empty)
    /\ asyncFlush' = (cause = "debug")
    /\ StallEdge(cause, cancel)

\* Mutant of Older: the numbers are compared, wrapped or not.
OlderUnwrapped(a, b) == a % RobSize < b % RobSize

\* Age of two instruction ids (ct_rtu_compare_iid): the larger number is the
\* older one if exactly one of them has wrapped.
Older(a, b) ==
    IF a \div RobSize = b \div RobSize THEN a % RobSize < b % RobSize
                                       ELSE a % RobSize > b % RobSize

\* Branches that may be found mispredicted at an edge at which the n oldest
\* entries retire: one at most, and older than the one found before.
Cancels(n) ==
    {{}} \cup IF flush # "IDLE" THEN {}
             ELSE {{i} : i \in {j \in (n + 1)..Len(rob) :
                                 mispredStall => Older(rob[j].iid, mispredIid)}}

\* Nothing abnormal retires: up to RetireWidth entries, in order.
Run ==
    \E n \in 0..RetireWidth :
        /\ n <= Len(rob) /\ \A i \in 1..n : ~rob[i].mispred
        /\ \E c \in Cancels(n) : Edge(n, "none", c)

\* A mispredicted branch retires, alone.
RetireMispred ==
    /\ rob # <<>> /\ rob[1].mispred
    /\ \E c \in Cancels(1) : Edge(1, "mispred", c)

\* An instruction that asks for a flush, or that takes an interrupt, retires.
RetireFlush ==
    /\ rob # <<>> /\ flush = "IDLE"
    /\ \E c \in Cancels(1) : Edge(1, "flush", c)

\* An exception, synchronous or not: nothing retires.
Fault ==
    /\ flush = "IDLE"
    /\ \E c \in Cancels(0) : Edge(0, "flush", c)

\* dbgreq_ack_jdbreq: the debugger stops the core whatever it is doing.
AsyncDebug ==
    /\ Debugger
    /\ \E n \in 0..RetireWidth :
          /\ n <= Len(rob) /\ \A i \in 1..n : ~rob[i].mispred
          /\ \E c \in Cancels(n) : Edge(n, "debug", c)

Next == Run \/ RetireMispred \/ RetireFlush \/ Fault \/ AsyncDebug

Spec == Init /\ [][Next]_vars

-----------------------------------------------------------------------------
\* The lifecycle, the table, the queues and the state machines keep to their
\* values, and neither the reorder buffer nor the issue stage overflows.
TypeOK ==
    /\ life \in [Pregs -> Lives] /\ wb \in [Pregs -> BOOLEAN]
    /\ iid \in [Pregs -> Iids \cup {None}]
    /\ dst \in [Pregs -> ARegs \cup {None}]
    /\ rel \in [Pregs -> Pregs \cup {None}]
    /\ slot \in [Slots -> Pregs \cup {None}]
    /\ rt \in [ARegs -> Pregs]
    /\ is \in Seq(Insts) /\ Len(is) <= NSlots
    /\ rob \in Seq([iid : Iids, mispred : BOOLEAN]) /\ Len(rob) <= RobSize
    /\ nextIid \in Iids
    /\ flush \in FlushStates
    /\ asyncFlush \in BOOLEAN /\ mispredStall \in BOOLEAN
    /\ mispredIid \in Iids \cup {None}
    /\ pend \subseteq Pregs

\* Every architectural register is mapped to exactly one committed preg, at
\* every edge, although an edge may retire several writers of one register,
\* folded in one entry or not, each releasing the preg of the one before.
CommittedUnique == \A a \in ARegs : Cardinality(Committed(a)) = 1

\* The branch unit, which knows the mispredicted branch by its id only, keeps
\* the oldest one found: its id names the oldest marked entry of the reorder
\* buffer, however the ids wrap, entries retire and older branches turn up.
MispredOldest ==
    flush = "IDLE" =>
        LET marked == {i \in DOMAIN rob : rob[i].mispred}
        IN  /\ mispredStall <=> marked # {}
            /\ mispredStall => \E i \in marked : /\ rob[i].iid = mispredIid
                                                /\ \A j \in marked : i <= j

\* The instructions past rename that write a, in IS or in flight.
InFlight(a) == {p \in Pregs : life[p] = "ALLOC" /\ dst[p] = a}
Waiting(a)  == {i \in DOMAIN is : is[i].dst = a}
Replaced(a) == {rel[p] : p \in InFlight(a)} \cup {is[i].rel : i \in Waiting(a)}

\* No mispredicted branch or flush is outstanding.
Settled == flush = "IDLE" /\ ~mispredStall

\* The rename table holds the youngest mapping: of the pregs that hold or
\* will hold a value of a, it names the only one no instruction replaces.
TableIsYoungest ==
    Settled => \A a \in ARegs :
        (Committed(a) \cup InFlight(a) \cup {is[i].preg : i \in Waiting(a)})
            \ Replaced(a) = {rt[a]}

\* A preg the rename table names is never free, offered or released.
TableIsLive ==
    \A a \in ARegs : life[rt[a]] \notin {"DEALLOC", "RELEASE"} /\ rt[a] \notin Offers

\* Flushes, cancelled branches and dispatch stalls leak nothing: with none
\* outstanding, every preg out of the free list is offered, waits in IS,
\* belongs to an entry of the reorder buffer or is committed.
NoLeak ==
    Settled =>
        /\ {p \in Pregs : life[p] = "WF_ALLOC"} = Offers \cup InIS
        /\ \A p \in Pregs : life[p] = "ALLOC" => \E i \in DOMAIN rob : rob[i].iid = iid[p]

\* No producer is in the pipes for a preg that is free or being handed out:
\* its result would overwrite the value of the next owner.
NoStaleWriteBack == \A p \in pend : life[p] \notin {"DEALLOC", "WF_ALLOC"}

\* A back-end flush kills the producers in the pipes; except when the
\* debugger forces it, none of them is one of a retired instruction.
FlushLosesNoResult ==
    FlushBe /\ ~asyncFlush => \A p \in pend : life[p] = "ALLOC"

\* A retired or released preg without its value has a producer in the pipes.
\* Otherwise the flush state machine would wait in WF_EMPTY, and the preg in
\* RELEASE, for a result that never comes.
NoOrphan ==
    \A p \in Pregs : life[p] \in {"RETIRE", "RELEASE"} /\ ~wb[p] => p \in pend

\* A back-end flush leaves the rename table equal to the committed mapping.
RecoveryExact == [][FlushBe => \A a \in ARegs : Committed(a)' = {rt'[a]}]_vars
=============================================================================
