---------------------------- MODULE RetireCommit ----------------------------
(***************************************************************************)
(* Commit, retire and flush in the retire unit of the C910: the commit     *)
(* signals and retire entries of ct_rtu_rob_rt.v, the flush and            *)
(* asynchronous-exception state machines, the single-retire mode, the      *)
(* interrupt, debug and cache-maintenance (ctc) requests of                *)
(* ct_rtu_retire.v, and the split-speculation-failure state machine of     *)
(* ct_rtu_rob_expt.v.                                                      *)
(*                                                                         *)
(* Commit precedes retirement: an instruction announced on                 *)
(* rtu_yy_xx_commit0..2 is executed for good by the load-store unit, which *)
(* a later flush does not undo.  So whatever asks for a flush must wait    *)
(* for the committed instructions without being able to recall them.       *)
(*                                                                         *)
(* One step is one clock edge.                                             *)
(***************************************************************************)
EXTENDS Naturals, Sequences, FiniteSets

CONSTANTS
    Scenarios, \* what may happen in a behaviour: records of
               \*   kinds   what an instruction turns out to be when it completes
               \*   events  the requests that may arrive
    Entries,     \* entries of the reorder buffer: 64 in the code
    CreateWidth, \* most entries created at one edge: 4 in the code
    None         \* no instruction

ASSUME RetireCommitAssumption ==
    /\ \A s \in Scenarios :
          /\ s.kinds \subseteq {"normal", "ras", "split", "flush", "mispred", "expt"}
          /\ s.events \subseteq {"int", "async", "ctc", "dr", "sdb", "jdb", "ssf"}
    /\ Entries \in Nat /\ CreateWidth \in 1..Entries /\ None \notin Nat

\* A kind is what the retire unit distinguishes: a subroutine call or return
\* (ras) retires in slot 0 only, split is a part, not the last, of an
\* instruction; the others are abnormal: they retire alone.
Abnormal(kind) == kind \in {"flush", "mispred", "expt"}

\* An iid is the number of an entry; the bit above it, which turns when the
\* numbers wrap, serves comparisons of age, and here the order in rob does that.
Iids == 0..(Entries - 1)

VARIABLES
    scenario,    \* the scenario of this behaviour, fixed
    rob,         \* read window: entries not yet in a retire entry, oldest first
    nextIid,     \* iid of the next instruction created
    num,         \* rob_entry_num: entries in use
    full,        \* rob_full, which stops dispatch
    ret,         \* retire entries: the instructions retiring in this cycle
    retInt,      \* retire_inst0_int_vld
    retCtc,      \* retire_inst0_ctc_flush
    retDbgDis,   \* retire_inst0_dbg_disable
    commit,      \* rob_commit0..2: <<iid or None, ...>>
    announced,   \* instructions the load-store unit has seen commit
    flush,       \* flush_cur_state
    ae,          \* ae_cur_state
    ctc,         \* retire_ctc_flush_req
    ssf,         \* ssf_cur_state
    ssfIid,      \* ssf_iid, None in IDLE
    int,         \* an interrupt is pending and enabled
    dr,          \* regs_ctrl_dr: the debugger asks for a synchronous stop
    drReq,       \* dr_set_req: dr one cycle later
    ifuDbg,      \* ifu_dbg_mode_on
    dbgMode      \* dbg_mode_on

vars == <<scenario, rob, nextIid, num, full, ret, retInt, retCtc, retDbgDis, commit, announced,
          flush, ae, ctc, ssf, ssfIid, int, dr, drReq, ifuDbg, dbgMode>>

Kinds  == scenario.kinds
Events == scenario.events

-----------------------------------------------------------------------------
(* The instruction in retire entry 0 (ct_rtu_retire.v)                     *)

Retiring0     == ret # <<>>
Kind0         == IF Retiring0 THEN ret[1].kind ELSE "normal"
NormalRetire  == Retiring0 /\ Kind0 # "expt"
Retired       == {ret[i].iid : i \in DOMAIN ret}

\* An interrupt is taken after the instruction it hits, never inside one.
TakesInt == Retiring0 /\ retInt /\ Kind0 # "split"

\* ssf_split_spec_fail_flush: the last part of the instruction retires.
SsfFlush == ssf = "RETIRING" /\ Retiring0 /\ Kind0 # "split" /\ ~Abnormal(Kind0)

\* dbgreq_ack, where dq holds the debug requests that are inputs of the
\* edge: "jdb", the debugger's asynchronous request (dbgreq_ack_jdbreq), and
\* "sdb", the synchronous request of the pin pad_biu_dbgrq_b, which joins
\* that of the debugger (dbgreq_ack_hw).
DbgAck(dq) ==
    \/ "jdb" \in dq
    \/ /\ (drReq \/ "sdb" \in dq) /\ ~dbgMode
       /\ ~retDbgDis /\ Retiring0 /\ Kind0 # "split"

InstFlush  == NormalRetire /\ (Kind0 = "flush" \/ SsfFlush \/ (retCtc /\ Kind0 # "split"))
ExptVld(dq) == Retiring0 /\ ~DbgAck(dq) /\ (Kind0 = "expt" \/ TakesInt)

\* retire_inst0_flush and retire_inst0_mispred.
FlushReq(dq) == ExptVld(dq) \/ InstFlush \/ DbgAck(dq) \/ ae = "EXPT"
MispredReq    == NormalRetire /\ Kind0 = "mispred"

FlushFe == flush \in {"FE", "FE_BE"}
FlushBe == flush \in {"IS_BE", "FE_BE", "BE"}

RobFlush(dq) == FlushReq(dq) \/ MispredReq \/ FlushFe \/ flush \in {"IS", "IS_BE"}

-----------------------------------------------------------------------------
(* Commit and the loading of the retire entries (ct_rtu_rob_rt.v)          *)

Commit2 == commit[3] # None

\* Mutant of ReadInt: the interrupt waits until nothing is committing.
ReadIntNoCommit == int /\ commit[1] = None

\* The requests wait while three instructions are committing: the second
\* could not retire at the next edge and would be flushed after its commit.
ReadInt == int /\ ~Commit2
ReadCtc == ctc /\ ~Commit2
DbgDis  == dr /\ Commit2

\* Mutant of SingleRetire: not for a split speculation failure.
SingleRetireNoSsf == ReadInt \/ ReadCtc \/ dr

\* retire_rob_srt_en: at most one instruction retires, or is newly committed.
SingleRetire == ReadInt \/ ReadCtc \/ dr \/ ssf # "IDLE"

\* retire_rob_rt_mask: nothing retires or commits any more.
RtMask == ae = "WFI"

\* Mutant of NoRetire: the flush state machine may be busy.
NoRetireNoFlush(wb) == ret = <<>> /\ wb

\* retire_async_expt_no_retire
NoRetire(wb) == ret = <<>> /\ flush = "IDLE" /\ wb

\* Mutant of Already: instructions do not move between ports.
AlreadySamePort(i, iid) == iid = commit[i]

\* Instruction iid of read port i was announced in this cycle, by port i or
\* a later one.  Earlier announcements are not remembered.
Already(i, iid) == iid \in {commit[j] : j \in i..3}

\* Mutant of CommitMask: an asynchronous exception masks nothing.
CommitMaskNotAsync(i, iid) == i # 1 /\ (int \/ dr \/ ctc) /\ ~Already(i, iid)

\* rob_commit0..2_mask: the asynchronous mask, and that of the synchronous
\* requests, which spares port 0 (i = 1).
CommitMask(i, iid) ==
    /\ ae = "WFC" \/ (i # 1 /\ (int \/ dr \/ ctc))
    /\ ~Already(i, iid)

\* Ports that load their retire entry, and ports that commit, given the
\* window w with the completions of this cycle.
Loads(w) ==
    {i \in 1..3 :
        /\ i <= Len(w) /\ ~RtMask
        /\ \A j \in 1..i : w[j].kind # None /\ ~CommitMask(j, w[j].iid)
        /\ i > 1 => /\ ~SingleRetire
                    /\ \A j \in 1..i : ~Abnormal(w[j].kind)
                    /\ \A j \in 2..i : w[j].kind # "ras"}

Commits(w) ==
    {i \in 1..3 :
        /\ i <= Len(w) /\ ~RtMask /\ ~CommitMask(i, w[i].iid)
        /\ i > 1 => /\ ~SingleRetire
                    /\ \A j \in 1..(i - 1) : w[j].kind # None /\ ~Abnormal(w[j].kind)}

-----------------------------------------------------------------------------
Init ==
    /\ scenario \in Scenarios
    /\ rob = <<>> /\ nextIid = 0 /\ ret = <<>> /\ num = 0 /\ full = FALSE
    /\ retInt = FALSE /\ retCtc = FALSE /\ retDbgDis = FALSE
    /\ commit = <<None, None, None>> /\ announced = {}
    /\ flush = "IDLE" /\ ae = "IDLE" /\ ctc = FALSE
    /\ ssf = "IDLE" /\ ssfIid = None
    /\ int = FALSE /\ dr = FALSE /\ drReq = FALSE /\ ifuDbg = FALSE /\ dbgMode = FALSE

NextFlush(dq, empty) ==
    CASE "jdb" \in dq -> "FE_BE"
      [] "jdb" \notin dq /\ flush = "IDLE" /\ FlushReq(dq) -> IF empty THEN "FE_BE" ELSE "FE"
      [] "jdb" \notin dq /\ flush = "IDLE" /\ ~FlushReq(dq) /\ MispredReq ->
            IF empty THEN "IS_BE" ELSE "IS"
      [] "jdb" \notin dq /\ flush = "IDLE" /\ ~FlushReq(dq) /\ ~MispredReq -> "IDLE"
      [] "jdb" \notin dq /\ flush \in {"IS", "FE", "WF_EMPTY"} -> IF empty THEN "BE" ELSE "WF_EMPTY"
      [] "jdb" \notin dq /\ FlushBe -> "IDLE"

\* async: lsu_rtu_async_expt_vld; wb: pst_retire_retired_reg_wb.
NextAe(dq, async, wb) ==
    CASE "jdb" \in dq -> "IDLE"
      [] "jdb" \notin dq /\ ae = "IDLE" -> IF async /\ ~DbgAck(dq) /\ ~dbgMode THEN "WFC" ELSE "IDLE"
      [] "jdb" \notin dq /\ ae = "WFC" -> IF commit = <<None, None, None>> THEN "WFI" ELSE "WFC"
      [] "jdb" \notin dq /\ ae = "WFI" -> IF NoRetire(wb) THEN "EXPT" ELSE "WFI"
      [] "jdb" \notin dq /\ ae = "EXPT" -> "IDLE"

\* fail: lsu_rtu_da_pipeN_split_spec_fail_vld for the instruction fail.  An
\* older one replaces the one waited for.
Older(a, b) == \E i, j \in DOMAIN rob : i < j /\ rob[i].iid = a /\ rob[j].iid = b

SsfEdge(dq, fail) ==
    IF RobFlush(dq) \/ FlushBe THEN ssf' = "IDLE" /\ ssfIid' = None
    ELSE /\ ssf' = CASE ssf = "IDLE" -> IF fail # None THEN "WF_RETIRE" ELSE "IDLE"
                     [] ssf = "WF_RETIRE" ->
                          IF Retiring0 /\ ret[1].iid = ssfIid THEN "RETIRING" ELSE "WF_RETIRE"
                     [] ssf = "RETIRING" ->
                          IF Retiring0 /\ Kind0 # "split" THEN "IDLE" ELSE "RETIRING"
         /\ ssfIid' = IF ssf' = "IDLE" THEN None
                      ELSE IF fail # None /\ (ssf = "IDLE" \/ Older(fail, ssfIid))
                           THEN fail ELSE ssfIid

\* Mutant of AlmostFull: one entry too late.
AlmostFullLate(n) == n \in (Entries - CreateWidth + 2)..Entries

\* rob_full_updt_val: with so many entries in use the next creation may find
\* no room.  The code lists the counts, 61 to 64.
AlmostFull(n) == n \in (Entries - CreateWidth + 1)..Entries

\* The count of entries and the full flag after an edge at which k are created
\* and those of the retiring instructions are given back.  The flag is a
\* register: creation at the next edge goes by the count of this one.
CountEdge(dq, k) ==
    IF RobFlush(dq) THEN num' = 0 /\ full' = FALSE
    ELSE /\ num' = num + k - Len(ret)
         /\ full' = IF k > 0 \/ Retiring0 THEN AlmostFull(num + k - Len(ret)) ELSE full

Open == {i \in DOMAIN rob : rob[i].kind = None}

\* Completions: c gives the kind of the instructions that complete now.  One
\* that failed a split speculation is a part, not the last.
Completions ==
    {[i \in DOMAIN rob |-> IF i \in Open THEN c[i] ELSE None] :
        c \in {c \in [Open -> Kinds \cup {None}] :
                 ssf = "WF_RETIRE" => \A i \in Open : rob[i].iid = ssfIid => c[i] \in {None, "split"}}}

Completed(c) == [i \in DOMAIN rob |->
                    IF c[i] = None THEN rob[i] ELSE [rob[i] EXCEPT !.kind = c[i]]]

\* The read window, the retire entries and the commit registers after an
\* edge at which completions c arrive and k instructions are created.
RobEdge(dq, c, k) ==
    LET w == Completed(c)
        n == Cardinality(Loads(w))
        committing == Commits(w)
    IN  IF RobFlush(dq)
        THEN /\ rob' = <<>> /\ nextIid' = 0 /\ ret' = <<>>
             /\ commit' = <<None, None, None>> /\ announced' = {}
             /\ retInt' = FALSE /\ retCtc' = FALSE /\ retDbgDis' = FALSE
        ELSE /\ rob' = SubSeq(w, n + 1, Len(w)) \o
                          [i \in 1..k |-> [iid |-> (nextIid + i - 1) % Entries, kind |-> None]]
             /\ nextIid' = (nextIid + k) % Entries
             /\ ret' = SubSeq(w, 1, n)
             /\ retInt' = (n > 0 /\ ReadInt)
             /\ retCtc' = (n > 0 /\ ReadCtc)
             /\ retDbgDis' = (n > 0 /\ DbgDis)
             /\ commit' = [i \in 1..3 |-> IF i \in committing THEN w[i].iid ELSE None]
             /\ announced' = (announced \cup ({commit[i] : i \in 1..3} \ {None})) \ Retired

Edge(dq, async, ctcReq, fail, c, k, pipes) ==
    /\ k > 0 => flush = "IDLE" /\ ~full
    /\ UNCHANGED scenario
    /\ RobEdge(dq, c, k) /\ CountEdge(dq, k)
    /\ flush' = NextFlush(dq, pipes.empty)
    /\ ae' = NextAe(dq, async, pipes.wb)
    /\ ctc' = (ctcReq \/ (ctc /\ ~FlushFe))
    /\ SsfEdge(dq, fail)
    /\ drReq' = dr
    /\ \/ /\ dr' \in IF "dr" \in Events THEN {TRUE, dr} ELSE {FALSE}
          /\ ifuDbg' = (ifuDbg \/ DbgAck(dq))
          /\ dbgMode' = (dbgMode \/ (FlushBe /\ ifuDbg))
       \/ /\ dbgMode /\ dr            \* the debugger withdraws its request
          /\ dr' = FALSE /\ UNCHANGED <<ifuDbg, dbgMode>>
       \/ /\ dbgMode                  \* had_yy_xx_exit_dbg
          /\ dr' = dr /\ ifuDbg' = DbgAck(dq) /\ dbgMode' = (FlushBe /\ ifuDbg)
    /\ int' \in IF "int" \notin Events \/ ExptVld(dq) THEN {FALSE} ELSE BOOLEAN

Pulse(event) == IF event \in Events THEN BOOLEAN ELSE {FALSE}

\* The instructions of the window whose execution may report a split
\* speculation failure: they have not completed, and are older than the one
\* waited for, or else the report changes nothing.
Failing == {None} \cup IF "ssf" \notin Events THEN {}
                       ELSE {rob[i].iid : i \in {j \in Open : ssf = "IDLE" \/ Older(rob[j].iid, ssfIid)}}

Step(r, c, k, p) ==
    /\ r.fail # None => \A i \in DOMAIN rob : rob[i].iid = r.fail => c[i] = None
    /\ Edge(r.dbg, r.async, r.ctc, r.fail, c, k, p)

\* async_dbg_req is raised outside debug mode only.  An asynchronous exception
\* and a ctc request are left out where one before them is waiting.
Requests == [dbg : SUBSET {e \in Events \cap {"jdb", "sdb"} : ~dbgMode \/ e = "sdb"},
             async : IF ae = "IDLE" THEN Pulse("async") ELSE {FALSE},
             ctc : IF ctc /\ ~FlushFe THEN {FALSE} ELSE Pulse("ctc"), fail : Failing]

\* wb is pst_retire_retired_reg_wb; empty holds when wb does and so does
\* lsu_rtu_all_commit_data_vld.  Where nothing reads them both are TRUE.
Pipes == {p \in [empty : BOOLEAN, wb : BOOLEAN] :
            /\ p.empty => p.wb
            /\ ae # "WFI" => p.wb = p.empty
            /\ ae # "WFI" /\ flush = "IDLE" /\ ~FlushReq(Events \cap {"sdb"}) /\ ~MispredReq => p.empty}

\* What completes, fails or is created at an edge that empties the buffer leaves
\* no trace: such an edge is one step, in which nothing does.
Next == \E r \in Requests, c \in Completions, k \in 0..CreateWidth, p \in Pipes :
            /\ RobFlush(r.dbg) => k = 0 /\ r.fail = None /\ \A i \in DOMAIN rob : c[i] = None
            /\ Step(r, c, k, p)

Spec == Init /\ [][Next]_vars

\* The clock runs on; the load-store unit drains what has committed and the
\* results of retired instructions are written back, while a flush or an
\* asynchronous exception waits for it; the front end feeds an empty buffer;
\* the oldest instruction completes, and not as one more part of an
\* instruction for ever.
Drains ==
    /\ flush # "IDLE" \/ ae = "WFI"
    /\ \E r \in Requests, c \in Completions, k \in 0..CreateWidth : Step(r, c, k, [empty |-> TRUE, wb |-> TRUE])

Dispatches ==
    /\ flush = "IDLE" /\ rob = <<>>
    /\ \E r \in Requests, c \in Completions, k \in 1..CreateWidth, p \in Pipes :
           Step(r, c, k, p)

HeadCompletes ==
    /\ rob # <<>> /\ rob[1].kind = None
    /\ \E r \in Requests, c \in Completions, k \in 0..CreateWidth, p \in Pipes :
           c[1] \notin {None, "split"} /\ Step(r, c, k, p)

FairSpec == Spec /\ WF_vars(Next) /\ WF_vars(Drains) /\ WF_vars(Dispatches)
                 /\ SF_vars(HeadCompletes)

-----------------------------------------------------------------------------
\* At most three instructions retire at an edge, all of them completed, and
\* every register holds one of its values.
TypeOK ==
    /\ scenario \in Scenarios
    /\ rob \in Seq([iid : Iids, kind : Kinds \cup {None}])
    /\ nextIid \in Iids /\ num \in Nat /\ full \in BOOLEAN
    /\ ret \in Seq([iid : Iids, kind : Kinds]) /\ Len(ret) <= 3
    /\ {retInt, retCtc, retDbgDis, ctc, int, dr, drReq, ifuDbg, dbgMode} \subseteq BOOLEAN
    /\ commit \in [1..3 -> Iids \cup {None}]
    /\ announced \subseteq Iids
    /\ flush \in {"IDLE", "IS", "FE", "WF_EMPTY", "IS_BE", "FE_BE", "BE"}
    /\ ae \in {"IDLE", "WFC", "WFI", "EXPT"}
    /\ ssf \in {"IDLE", "WF_RETIRE", "RETIRING"} /\ ssfIid \in Iids \cup {None}

\* Entries that hold an instruction, one that retires in this cycle included.
InUse == Len(rob) + Len(ret)

\* No entry is created over one in use, though the flag that stops creation is
\* computed at the edge before and up to CreateWidth entries follow it.  The flag is
\* up just while there might be too little room: it never stays up, or is
\* lost, through retirements and flushes that meet with creations.
NeverOverflows ==
    /\ InUse <= Entries /\ num = InUse
    /\ full <=> InUse > Entries - CreateWidth

Announced == announced \cup ({commit[i] : i \in 1..3} \ {None})

\* An instruction announced as committed is never flushed: at the edge at
\* which an interrupt, an exception, synchronous or not, a synchronous debug
\* request, a flush request or a misprediction empties the buffer, every
\* committed instruction has retired or is retiring.  Only the debugger's
\* asynchronous request ignores any disable (ct_rtu_retire.v:1612).
FlushSparesCommitted ==
    [][/\ flush = "IDLE" /\ flush' # "IDLE"
       /\ FlushReq(Events \cap {"sdb"}) \/ MispredReq
       => Announced \subseteq Retired]_vars

\* The flush state machine samples its requests in IDLE only; none is made
\* while it is busy, so none is lost.
RequestsInIdle == FlushReq({}) \/ MispredReq => flush = "IDLE"

\* After a split speculation failure retires, the rest of its instruction
\* retires one part at a time and nothing younger retires with it.
SpecFailAlone == ssf = "RETIRING" => Len(ret) <= 1

\* The handshake of an asynchronous exception with the committed
\* instructions and the flush ends: the exception is taken.
AsyncTaken == ae # "IDLE" ~> ae = "IDLE"

\* An interrupt that stays pending is taken, though it waits for a cycle with
\* less than three commits and for the last part of a split instruction,
\* unless an asynchronous exception is taken first.
IntTaken == int ~> ~int \/ ae = "EXPT"

=============================================================================
