# Verification of the C910 core and its simulation platform in TLA+

The repository holds T-Head's open-source C910 processor as generated Verilog
(`src/openc910/C910_RTL_FACTORY/gen_rtl`), an SoC around it
(`src/openc910/smart_run/logical`), a Verilator harness with a JTAG server and a
UART console (`src/sim_verilator`), and test programs (`src/sw_app`). These
modules specify the parts in which an error is easiest to make and hardest to
test: the machinery of the core that renames registers, retires instructions out
of an out-of-order window and flushes it; the loop of the simulator with its JTAG
server, its debugger and its console; the interrupt controller between its sources
and several harts; and the programs the simulated core runs, CoreMark and the printf
it prints with. TLC checks small instances; TLAPS proves the free list, the whole loop of
rename, retirement and flush, the JTAG link and the interrupt controller for every size.

The models of the core are written from the register-transfer code. There **one
step is one clock edge**: every register takes the value its `always` block gives it, computed from
the values before the edge, and the combinational signals between are operators
with the names of the code. What other units do is an input of the edge, chosen
by `\E` from everything they can do. The models of the harness and of the programs
have one action per function, or per turn of a loop whose middle can be observed.

Short names below: `rtu/`, `idu/`, `iu/`, `ifu/`, `had/`, `plic/` are the `rtl` directories of
those units under `gen_rtl`.

## Inventory

| Component | State it keeps | Operations | Talks to | Hard behaviour |
|---|---|---|---|---|
| Free list of physical registers (`rtu/ct_rtu_pst_preg.v`) | four allocate registers; DEALLOC bits of 95 entries | search, refill, take, release, flush | IR takes offers; entries leave DEALLOC | three shared searches for four registers in one edge |
| Physical register status table (`rtu/ct_rtu_pst_preg_entry.v`) | life-cycle and write-back FSM, iid, destination and replaced register per entry | allocate, create, write back, retire, release, recover | IS creates, pipes write back, retire entries retire, RETIRE drives the recovery mapping | several writers of a register at one edge; release before the result; forced flush |
| Rename, IDU IR (`idu/ct_idu_ir_rt.v`, `ct_idu_ir_ctrl.v`) | rename table, four IR slots | rename a group, stall, recover | free list, status table, IS | dependencies inside a group; misprediction and flush stalls |
| Dispatch, IDU IS (`idu/ct_idu_is_ctrl.v`, `ct_idu_is_dp.v`) | IS slots | dispatch a part of a group, fold | reorder buffer, status table, queues | fullness computed an edge early |
| Reorder buffer (`rtu/ct_rtu_rob*.v`) | 64 entries, create/pop/read pointers, read and retire entries, commit registers, split-failure FSM | create, complete, read, commit, retire, flush | IDU, pipes, retire unit, load-store unit | commit precedes retirement by a cycle or more |
| Retire unit (`rtu/ct_rtu_retire.v`) | flush FSM, asynchronous-exception FSM, debug mode, ctc request | take interrupts, exceptions, debug requests; flush | everything | requests of five sources around instructions that can no longer be recalled |
| Debug (`had/`, `pmu/px_had_sync.v`, `tap2_sm.v`) | debug registers, JTAG state | request, enter, exit debug | retire unit; JTAG pins | two clocks; synchronous and asynchronous stop |
| Branch unit (`iu/ct_iu_bju.v`) | oldest misprediction, stall | compare, report | IDU, retire unit | several mispredictions outstanding |
| Load-store, MMU, CIU, L2, BIU | queues, caches, TLBs, snoop state | access, commit, refill, snoop | retire unit, other core, bus | coherence, ordering, bus errors |
| PLIC (`plic/`) | level, pending and active bit and priority of each source; enables, threshold and claim register of each hart; scan FSM, start flag | sample, claim, complete, write a register, scan, interrupt | sources, harts over one APB port | a scan of many cycles while sources rise and harts claim and reprogram |
| CLINT | time compares, software interrupts | compare, write | harts, APB | compares written in halves |
| SoC AXI fabric (`axi/`, `common/wid_for_axi4.v`) | id queues, FIFOs, arbitration | accept, route, respond | BIU, memory, APB bridge | full queues, order of ids |
| SoC UART, timer, GPIO, PMU | shift registers, FIFOs, counters | transmit, receive, count | APB, pins | sampling, overrun |
| Harness (`sim_verilator/sim`) | tick counters, JTAG pins, socket, console FSMs | reset, load, tick, bit-bang, put and type characters | Verilated SoC, OpenOCD over TCP, terminal | blocking socket inside the simulation loop; a client that quits or closes at any moment; bit rates |
| CoreMark (`sw_app/cases/coremark`) | a list in two arrays of nodes and data, a text block, three matrices | init, find, reverse, sort, remove and undo; scan and corrupt; add and multiply | the comparisons of the sort call the other two benchmarks | everything is changed in place and must be put back; a scan without a length |
| printf library (`sw_app/lib/newlib_wrap`) | index, buffer, number buffer; vasprintf's block | format a directive, output, terminate, grow | the UART through `fputc`; the heap | truncation, number buffer, retry after a short block, failing malloc and strdup |
| Other test programs, drivers (`sw_app`) | device registers | hello world, sleep, UART driver | the SoC | - |

What makes each of them correct:

* *Free list*: an offered register is free, offered once, and none is forgotten.
* *Status table and rename*: one committed register per architectural one; the
  rename table names the youngest mapping and the committed one after a flush;
  nothing leaks; no late result reaches a new owner; no result of a retired
  instruction is lost.
* *Commit and retire*: what was announced as committed is never flushed; requests
  reach the flush machine while it listens; requests are served eventually.
* *Reorder buffer*: entries retire in creation order, a completion is never lost
  while an entry is copied, ages compare correctly across the wrap.
* *Interrupt controllers*: a source is handed to one hart at a time, no level is
  forgotten, and each hart ends up with its best request.
* *AXI fabric*: every write datum carries the id of its address; responses match
  requests at full queues.
* *Harness*: TDO samples belong to the pins driven before them; the simulation
  advances; the debugger finds the program loaded; characters pass unchanged.
* *CoreMark*: the list stays whole and every call puts all data back, so that each
  iteration computes the same; sorts and scans end.
* *printf*: the text that fits, its NUL and its full length; numbers as C says; the
  caller of asprintf owns one block or none.

## Modules

| Module | Models | Extends / instantiates |
|---|---|---|
| `PregPool` | abstract free list: empty, free, offered, held | - |
| `PregAlloc` | the free list as coded: searches, allocate registers | instantiates `PregPool` as refinement |
| `NaturalOrder` | least and greatest elements of sets of numbers, proved | TLAPS |
| `PregAllocProofs` | theorems about `PregAlloc` | `PregAlloc`, `NaturalOrder`, TLAPS |
| `PregPst` | rename, dispatch, status table, in-order window, flush FSM, the misprediction kept | - |
| `PregPstProofs` | theorems about `PregPst` | `PregPst`, `NaturalOrder`, TLAPS |
| `RetireCommit` | commit, retire entries, flush FSM, asynchronous exceptions, debug, interrupts, split failures | - |
| `RetireCommitProofs` | theorems about `RetireCommit` | `RetireCommit`, TLAPS |
| `JtagLink` | abstract JTAG link: commands, wires, answers | - |
| `UartSim` | the console of the harness (`uartsim.cc`) | - |
| `Harness` | `sim_main.cc` with `remote_bitbang.cc`, the debugger and the socket | `UartSim`; instantiates `JtagLink` as refinement |
| `HarnessProofs` | theorems about `Harness` | `Harness`, TLAPS |
| `Plic` | one clock edge of the interrupt controller as an operator | - |
| `PlicBus` | the controller among its sources and the harts that program it | `Plic` |
| `PlicProofs` | theorems about `PlicBus` | `PlicBus`, TLAPS |
| `CoreState`, `CoreMatrix` | CoreMark's state-machine and matrix benchmarks as functions | - |
| `CoreMark` | CoreMark's list, pointer by pointer, and `core_main.c` | `CoreState`, `CoreMatrix` |
| `CoreMarkProofs` | theorems about `CoreMark` | `CoreMark`, `NaturalOrder`, TLAPS |
| `PrintfText` | what each directive writes, and a reference from the C standard | - |
| `Printf` | the calls of `printf.c` and `vasprintf.c` | `PrintfText` |
| `PrintfProofs` | theorems about `Printf` | `Printf`, `NaturalOrder`, TLAPS |
| `MC*` | TLC instances | the module of the name |

The operators named after a definition plus a few words (`SearchesVld1NotMasked`)
are *mutants*: the definition with a mistake one could make in the code. Each
property of each passing run is shown to fail under one of them.

### PregAlloc and PregPool

`life` is the life-cycle FSM of each entry, with ALLOC, RETIRE and RELEASE
collapsed to USED; `slot` are `alloc_preg0..3` with their valid bits; `renamed` are
the registers IR took and IS has not dispatched. `Searches` is the three
fixed-priority searches (lowest, highest, lowest but one) of the DEALLOC vector,
`Vld3`/`Hot3` the choice by which register 3 borrows a search, `NewSlot` the
registers after the edge and `DeallocVld` the entries that leave DEALLOC. `Edge` is an
edge without and `Flush` one with `rtu_yy_xx_flush`. `PregPool` says only that an
empty register receives a free preg nobody else has, or none; `PoolSafety` is the
refinement, with DEALLOC as `free` and USED plus `renamed` as `held`.

### PregPst

Each status-table entry has its life-cycle FSM (`NextLife`), write-back FSM
(`NextWb`) and information registers (`iid`, `dst`, `rel`). `Renamed` and
`RenamedTable` rename a group, `DispatchCounts` and `Foldings` say how IS dispatches
into reorder-buffer entries, `RobEdge` is the window, `NextFlush` the flush FSM. Ids count
to twice the size of the buffer; `Older` is `ct_rtu_compare_iid`, by which the branch unit
(`StallEdge`, `mispredIid`) keeps the oldest of several mispredictions (`Cancels`). The
five disjuncts of `Next` are what the retire unit may start at an edge: nothing
(`Run`), a mispredicted branch (`RetireMispred`), a flush of a retired instruction
or interrupt (`RetireFlush`), an exception (`Fault`), the debugger's forced flush
(`AsyncDebug`). Every disjunct does the whole edge (`Edge`).

Abstractions: the retire iid comparison, registered one cycle early in the code, is
made at the edge of retirement; instructions split into several entries are single
entries; registers nothing reads are `None`; which registers the store-data queue
still reads is any subset of those about to be freed; the free list is the pool of
`PregPool` (refinement shown in `PregAlloc`). A flush kills the producers of
unretired instructions in the pipes; a forced one kills all.

### RetireCommit

`rob` is the read window: instructions with what they completed as (`kind`). `ret`
are the retire entries, `commit` the registers `rob_commit0..2` and `announced` what
the load-store unit has seen there. `Loads` and `Commits` say which ports retire and
commit at the edge, given single-retire mode (`SingleRetire`) and the masks
(`CommitMask`, `RtMask`). `NextFlush`, `NextAe` and `SsfEdge` are the three state
machines. Requests: an interrupt, `dr` (the debugger's synchronous stop, seen by the
retire unit one cycle after its masks), `jdb` (asynchronous stop), `sdb` (the pin),
a cache-maintenance (ctc) flush, an asynchronous exception, a split failure.

What may happen in a behaviour, the kinds of instructions and the requests, is its
`scenario`, one of the constant `Scenarios`, chosen in `Init`.

`num` is `rob_entry_num` and `full` the register `rob_full`, set from the count an edge leaves
(`AlmostFull`, 61 and more of 64) and looked at before the next edge creates up to
`CreateWidth` entries (four in the code; `CountEdge`). So nothing in an edge tests for room: `NeverOverflows` says
that the threshold is low enough, and fails if it is one higher.

Abstractions: `Entries` entries stand for the 64, and an iid is the number of an entry, given round by
round; ages are positions, not the bit above the number; breakpoints, trace mode,
`had_rtu_dbg_disable` and the low-power state are left out; a debug-mode core may
go on executing.

### Harness, UartSim, JtagLink

The loop, the JTAG server and the console are one thread, whose program counter is
`pc`: `Drive` is a turn of the loop up to the call of `jtag->tick` or of `eval`, `Eval` the
two evaluations with the console between them; `Accept`, `Execute` and `Answer` are
what a call of `tick` does, `Spin` a retry inside it, `Abort` its calls of `abort()`. The
debugger (`Connect`, `SendCmd`, `ReadAnswer`, `ClientClose`) is another process, the
socket two sequences. `SocNext` is the transmitter of the SoC's UART
(`uart_trans.v`), `Hear` and `Type` the two halves of the console. `build` says which of
the `#ifdef`s are on.

`JtagLink` is what a debugger relies on: commands take effect in order, each after
the processor has seen the effect of the one before, and an answer is TDO after all
commands before it. A command counts as taken when the server has acted on it,
`R` when its answer is written (`queue` in the refinement).

Abstractions: the processor is external (TDO is any level, the UART may send any
character of `Chars` once the program is loaded); the tick counter goes round its
last two values once it has passed every threshold.

### Plic and PlicBus

`PlicEdge(p, vld, a)` is the state after an edge at which the synchronised levels are `vld`
and the bus makes access `a`: `Pending` and `Active` are the gateway of each source
(`plic_int_kid.v`), `Claimed`, `Completed` and `Clears` what a read and a write of a claim
register do (`plic_hreg_busif.v`), `Starts`, `NextArb`, `Scanned`, `Interrupts` and `ClaimReg` the
arbitration (`plic_arb_ctrl.v`, `plic_32to1_arb.v`). `PlicBus` lets any source change its
level in any cycle (`Quiet`) while software handles interrupts (`Handles`: claims, right or
wrong completions) and reprograms the controller (`Programs`).

Abstractions: machine mode only, so the supervisor enables stay zero; security and AMP
mode are off; all sources are level sensitive, as the SoC ties `pad_plic_int_cfg`; one
pending register holds all sources; an access acts in its setup phase and the next one
comes two cycles later or more; the two register stages of a scan, and what is left in
them after a flush, are one value `best`; clock gates are left out.

`ClaimedOnce` is about harts that enable the same sources. With different enables a claim
register that is filled in the very cycle of another hart's claim may hold a claimed id
until the next scan, and a claim of it would be taken again.

### CoreMark, CoreState, CoreMatrix

`next`, `info` and `data` are the heap: `list_head.next`, `list_head.info` and `list_data` by
address; `free` is where the allocation stands. A `data16` is its two bytes. `Insert` and
`Index` are `core_list_init`; `FindStep` is one turn of the find loop of
`core_bench_list`; `MergeStep`, `NextMerge` and `EndPass` are one turn each of the three
nested loops of `core_list_mergesort`, one comparison per step; `Remove`, `UndoRemove`,
`SortData`, `Begin` and `Return` are the rest of `core_bench_list` and `iterate`. A
comparison by content runs `calc_func` for both items: it caches the result in the
item and, for two types of items, runs the state machine over `blk` or the matrix
operations over `matA` (`BenchState`, `MatrixTest`), which corrupt and repair them.

Abstractions: checksums are never computed. Where one comes back into the list, as
the seven bits `calc_func` caches, it is any member of `Vals`, chosen anew for each item.
The products of matrices are left out, since only checksums read them. A block has at least 120
bytes: below that the list is too short for `core_list_remove(list->next)`. And a fifth of its items can be numbered in
an `ee_s16`, the type of `idx`: `core_list_init` stores the loop counter there. `iterate` ends the simulation
(`sim_end`) before `main` can report, so the report is left out.

### PrintfText and Printf

`Text(d)` is what one directive writes: the functions `_ntoa_format`, `_ntoa_long`,
`_ftoa` and `_out_rev` step by step over the buffer of `BufferSize` characters. `Std(d)` is
the text, or the two texts, that the C standard allows for a number, written
independently; `Deviates(d)` lists the cases in which the code differs or may differ. That all others
read as C says is proved. What the tenth digit of a fraction and those behind it are, unless zeros, a directive does not hold, so that
`Std` has no text for them and `Deviates` lists the case. On 18870 directives with
the real buffer of 32 characters `Text` was compared with the compiled `printf.c` and `Std` with the host's C library: they agree on every one, and
the two programs differ on 2886, all in `Deviates`.
`Printf` is the state machine: `Call` enters one of the functions, `Directive` is one turn of
the loop of `_vsnprintf`, `Terminate` writes the NUL; `Malloc`, `Check` and `Strdup` are
`vasprintf` around it. `Out` is the four output functions. The integer types are given by the number of
their values (`CharValues` is 2^8). The string at `*ret` ends at the first NUL (`CString`), which `%c` of 0 can put inside the text;
the run has such calls.

Abstractions: directives come parsed; letters are lower case; a double is given by
the product with a power of ten that `_ftoa` begins with, taken to be exact: where the multiplication
rounds to one half, as for `%.1f` of 0.15, the code may print the other neighbour (0.2), which is out of the model. `%e` and
`%g`, and `%f` of 10^9 and more, most of which goes to `%e`, are left out.

## Runs

| Run | Bounds | Checks |
|---|---|---|
| `preg_alloc` | 7 pregs, 1 always mapped, 1 released per edge | `OffersDistinct`, `WfAllocIsOffered`, `DrainedFills`, refinement `PoolSafety` |
| `pst_two_regs` | 2 architectural and 5 physical registers, groups of 2, reorder buffer of 3, 2 retired and 1 written back per edge | `CommittedUnique`, `TableIsYoungest`, `TableIsLive`, `NoLeak`, `NoStaleWriteBack`, `FlushLosesNoResult`, `MispredOldest`, `RecoveryExact` |
| `pst_debug` | 1 architectural and 4 physical registers, reorder buffer of 2; forced flushes | `CommittedUnique`, `NoLeak`, `NoOrphan` |
| `commit` | 4 entries, 2 created per edge; three scenarios: calls/returns, mispredictions and exceptions with asynchronous exceptions and interrupts; instructions that flush with these and ctc; split parts with both debug stops and split failures | `NeverOverflows`, `RequestsInIdle`, `SpecFailAlone`, `FlushSparesCommitted` |
| `commit_fair` | 3 entries, 2 created per edge, fairness | `AsyncTaken`, `IntTaken` |
| `commit_forgotten` | 4 entries, debugger and asynchronous exception | violation of `FlushSparesCommitted` |
| `commit_pin_debug` | 4 entries, the pin | violation of `FlushSparesCommitted` |
| `harness` | characters of 2 bits, bit time 2 ticks, one byte in each direction of the socket; the plain build and the one with JTAG and console | `LoadFirst`, `ConsoleHears`, `TypedFrame`, refinement `LinkSpec`, `TimeAdvances` |
| `harness_baud` | the bit of the SoC 16 times that of the console | violation of `ConsoleHears` |
| `plic` | 2 harts, 2 sources in two rounds, priorities 0 and 1, any first programming but for enables (none or all of a hart's), 1 later register write, any number of claims and completions | `Arbitrated`, `ClaimedOnce`, `LevelKept` |
| `coremark` | blocks of 345 bytes: 15 nodes, 14 of them used; a text of 345 bytes; matrices of 6 x 6; 2 iterations; results 0, 64, 127; the seeds of the three runs | `TypeOK`, `ListWhole`, `SortOrders`, `ListRestored`, `BlocksRestored`, `ScanStops`, `Finishes` |
| `printf` | number buffer 8, types of 2, 4, 8 and 16 bits, chunks of 4; 45 thousand states of 1685 calls | `Truncated`, `NumbersRead`, `OwnsResult`, `Returns` |

Why the bounds are enough. `DrainedFills` needs six spare registers, the number
below which the search order really starves register 3: with seven pregs all cases
of shared and colliding searches occur, and fewer than seven fail the assumption.
In `pst_*` two instructions per group and two retired per edge make groups with an
internal dependency, several writers of a register in one edge, folded or not; a group of two is dispatched whole, so that dispatch of a part of the
stage, which groups of three and four allow, is covered by the proofs alone. Four entries in the `commit` runs are one more than the
read ports: an instruction can be committed by port 2 and still move through ports 1 and 0 while others are
created behind it. The buffer is full at three, is filled to the last entry by a group of two, and iids wrap. In `commit_fair` three
entries allow commits by all ports, not three in every cycle: endless commits of that width are beyond its bound.
Kinds and requests are divided between the scenarios so that a run finishes in minutes
(`CommittedSpared` covers the mixes left out);
the pair of a single-retire request and an asynchronous exception with
calls/returns in the window is the one that fails, and has its own run.

In `harness` the tick counter passes all thresholds (85 ticks); with one byte of socket
a command waits behind an `R` that is being answered or behind a quit, and both directions can be full; a
character of two bits has a first and a last sampling point. In `coremark`
14 nodes make merge passes with runs of 1 to 8 and an odd rest, items of all eight
types, hits and misses of the finds; the sort by content branches on the order of any three different
results, ties included. In `plic` two rounds make a source of the second one rise, be claimed or
be reprogrammed after the first was scanned, two harts compete for both sources, and one
write (`MaxWrites`) of any register falls anywhere; priorities 0 and 1 tell no request, a
request and a masked one apart. The proofs need none of these bounds. `coremark` was also run with the real
blocks of 666 bytes and two results, without `Finishes`. In `printf` a quarter of the
widths of the types and of the buffer keeps every relation between the number buffer, the types and the widths
and precisions of directives; chunks of four make `vasprintf` need up to several
blocks, with texts that exceed one more chunk and texts that do not.

### The disagreements shown by runs

*A committed instruction is forgotten* (`commit_forgotten`). `ct_rtu_rob_rt.v:2645`:
"asynchronous exception cannot mask inst already committed". The mask spares an
instruction only if its iid is in a commit register of the same cycle. Take three
instructions 0, 1, 2, where 1 is a return (it may retire in slot 0 only). 0 and 1
have completed, so all three are announced and 0 retires. In that cycle the debugger
raises `dr`: single-retire mode lets 1 retire but does not re-announce 2. If an
asynchronous bus error arrives at that edge, AE_WFC finds 2 in port 0, not in the
commit registers, masks it, sees nothing committing and flushes it. Interrupts and
ctc requests wait for `!rob_commit2` for this very reason
(`ct_rtu_rob_rt.v:2018`). Split speculation failures raise single-retire mode the
same way; TLC finds the same loss with the requests `ssf` and `async`.

*The debug pin is not masked* (`commit_pin_debug`). `had_rtu_dbg_req_en`
(`ct_had_ctrl.v:536`) lacks the term of the pin `pad_biu_dbgrq_b`, which does raise
`had_rtu_hw_dbgreq` (line 476). It takes one committed, uncompleted instruction behind
the retiring one. The SoC of this repository ties the pin off
(`cpu_sub_system_axi.v:222`), so its programs never meet this.

*The console listens at the wrong rate* (`harness_baud`). `sim_main.cc:121` passes
`(APB_FREQ/baud_rate) >> 4` clocks per bit to the console, the divisor `uart.c:52`
programs; the SoC's UART holds a bit for sixteen clocks per divisor count.

### Other disagreements met

Without a run of their own, since the models follow the code:

* `uartsim.cc:98` makes the tenth bit of a typed character 0, so the stop bit is low, which `uart_receive.v` takes for a
  framing error; `TypedFrame` states the slot as the code sends it;
* `accept` and `execute_command` never return without a client or a byte, while
  `remote_bitbang.h:47` speaks of a check and `remote_bitbang.cc:147` of trying again at the
  next call; `quit` is never cleared;
* a build with the console deletes `jtag` twice; the loader drops the last bytes of a
  program whose length is not a multiple of 16;
* CoreMark: `core_main.c:114` allows any seed, but with some a pattern byte becomes a
  comma under the corruption and is not restored, and seeds 2 to 7 give two items the same idx, so that the
  list is not back in its original order; for unknown seeds `total_errors` starts at -1,
  and one error then prints "Correct operation validated"; `ee_ptr_int` has 32
  bits, which `check_data_types` reports on RV64;
* printf, all in `Deviates`: `%#4x` of 0x1234 prints `0x34`; `%-5.3d` leaves the zeros out;
  `%hhd` is unsigned, as char is on RISC-V; `%lb` loses digits beyond 32; `%.1f` of 0.95
  prints thirty zeros, since one half is rounded up without the rollover of
  `printf.c:419`; special values are not padded with `%0`; `%#.0o` of 0 prints nothing; `%#.0f` loses the point; -0.0 has no sign;
  `%.10f` prints zeros behind the ninth digit. Left out of the model: a precision above
  41 indexes `pow10` out of range, `%g` of 0.0 prints `0.000000e-308`;
* `vasprintf` keeps the block of an empty text and returns a NULL string.

### Fairness

`FairSpec` of `RetireCommit` assumes: the clock runs (`WF Next`); while a flush or an
asynchronous exception waits, the load-store unit drains and write-backs arrive
(`WF Drains`: bus transactions end, no pipe holds a result); the front end feeds an
empty buffer when no flush is in progress (`WF Dispatches`; after a flush fetch
restarts from the vector); an instruction that is oldest for ever often completes
other than as one more part of a split instruction (`SF HeadCompletes`: an
instruction has finitely many parts, and the completion of each enables this only
between parts, hence strong). Nothing is assumed about requests. An asynchronous
exception flushes the instruction an interrupt would have hit, so `IntTaken` allows
it to come first.

`Spec` of `Harness` assumes that the simulator's thread takes its next step
(`WF_vars(Simulator)`) and nothing of the debugger; a retry (`Spin`) is no progress.
CoreMark and `printf` are sequential programs: they go on (`WF_vars(Next)`, and for calls of
printf the same written out).

## Proofs

`PregAllocProofs` proves about `PregAlloc`, for every `NPreg`, `NArch`, `MaxBack` that
satisfy `AllocAssumption`:

* `TypeCorrect`, `OffersAlwaysDistinct`, `WfAllocAlwaysOffered`, `DrainedAlwaysFills`: the invariants of the run;
* `PoolRefined`: `Spec => PoolSafety`, the free list implements `PregPool`;
* `OnePlaceEach`: in the pool that the RTL implements, each register is free, offered or held, one of these.

The invariant is `IInv == TypeOK /\ OffersDistinct /\ WfAllocIsOffered`. None of the
last two is inductive alone: an edge loads DEALLOC entries only, and that these
differ from those the other registers keep follows from kept offers being in
WF_ALLOC. The argument: a non-empty finite set of integers has a least and a
greatest element (`LeastExists`, `GreatestExists`); hence the facts about the three
searches (`SearchFacts`); by cases on which registers are refilled, the loaded
values are distinct, come from DEALLOC, and are exactly `DeallocVld` (`Loads`);
`EdgeProperties` collects what an edge does, from which invariance and the
refinement step follow. `DrainedFills` is a matter of counting: with only the committed
mapping in use and at most three offers out, at least three of `NArch + 6` registers are left in DEALLOC
(`ThreeFree`), so that the three searches, each of which leaves out what the others find, all end at an entry
(`AllFound`), and the first empty register is loaded. This is where the six spare registers come from. `OnePlaceEach` comes through the
refinement: an edge and a flush of the pool keep every register in one place (`PoolKeepsPlaces`).

`PregPstProofs` proves every property of the `PregPst` runs, for all values of the constants
that satisfy `PstAssumption`: any number of registers, instructions renamed, retired and
written back per edge, and entries, with and without a debugger:

* `TypeCorrect`, `OldestMispredicted`, `CommittedIsUnique`, `TableYoungest`, `TableLive`,
  `NothingLeaks`, `Recovery` from the invariant `IInv` (`Invariance`);
* `NoStaleResult`, `FlushKeepsResults`, `NobodyOrphaned` from `Producers`
  (`ProducersInvariance`): a producer is in the pipes for exactly the pregs in use that have no value.

The runs' invariants say what is true of the table at a moment; why it stays true is that
the writers of a register form a chain, from the committed preg through the reorder
buffer and IS to the rename table. `FlightChain` and `IsChain` say that each writer
replaces a preg of the same register that nobody else replaces, `RobChain` that the writer
replaced is not behind it in the buffer, `TableHead` that nobody replaces what the table
names. Hence what an edge retires and what it releases fit together (`ReleasedRetire`: a released
preg in flight retires at the same edge), and of the committed preg and those that retire exactly
one is not released: an injective function of a finite set into the set and one element
more leaves out exactly one (`OneLeftOut`). The same argument over the whole chain gives
`TableIsYoungest`. `IdsInOrder` (consecutive ids up to `nextIid`) makes two ids of the buffer
comparable (`AgeOrder`: `Older` is the order of positions, across the wrap), which `MispredOldest`
and `RobChain` need; `FlushShape` says where instructions may wait during a flush, `HandedOut` and
`AllAccounted` that an offered preg has one place. `NextIsStep` names the choices of an edge once
(`Step`); one lemma per part of the invariant then goes through retirement, dispatch
and rename, or through a back-end flush (`BackEndStep`). TLC checked `IInv` on the instances of
both runs.

`RetireCommitProofs` proves, for every number of entries, every width of creation and every set of scenarios that satisfy
`RetireCommitAssumption`:

* `BufferNeverOverflows`, `NoRequestLost` and `FailedRetiresAlone`, the invariants of the run, and `TypeCorrect`, from
  `IInv` (`Invariance`): the register `full` agrees with the count at every edge (`CountStep`), so that the creations of the
  next one find room; while a flush is in progress the buffer and the retire entries are
  empty, so nothing is left to ask for another one;
* `CommittedSpared`: `Spec /\ Compatible(scenario) => FlushSparesCommitted`. `Compatible` excludes the
  causes of the disagreements above and nothing else: the debug pin, and an asynchronous
  exception in one behaviour with the debugger's synchronous request or a split speculation
  failure. All other requests may come together, also those no run has together.

`FlushSparesCommitted` needs `SparedInv`. `CommittedAhead`: what is committed and not retiring
is among the two oldest of the window, and if the second is, both are on ports 1 and 2 of
the commit registers, where `Already` finds them again; so nothing is ever committed behind an
abnormal instruction, nor without the one before it (`NewlyAnnounced`). `RequestsWait`: an
interrupt, ctc request, debug stop or split failure that will flush retires last of what is
committed, because it waits while port 2 commits (`RetiresLast`). `NoneForgotten`: where single
retirement cannot hold a committed instruction back it stays in the commit registers until it
retires, and so the asynchronous exception, which waits for these to be empty, waits for it. This is the
part that the debugger breaks. `IdsInOrder` keeps ids of live instructions apart. TLC had checked
`SparedInv` on small scenarios before it was proved.

`HarnessProofs` proves, for every set of commands, socket size, build and character set
that satisfies `HarnessAssumption`, `LinkRefined`: `Spec => LinkSpec`, `LoadsFirst`: `[]LoadFirst`,
`TypeCorrect`, `KeysAreFramed`: `[]TypedFrame` and `CharactersHeard`: `[]ConsoleHears`. The refinement needs
the invariant `LinkInv`: outside of an evaluation the processor has seen the pins;
while a client is served the server's pins are those of the processor, so that a
command other than a pin command changes nothing; the answer under way is the TDO of
the last evaluation; without a connection nothing is left unread. Each action of the
simulator is then one action of the link: `Execute` of `R` is a stutter and `Answer` its
effect, `CloseIfQuit` makes either a `Detach`, every end of the process is `Die`.
`LoadFirst` follows from `ClockInv`, which ties the counters together: the JTAG counter is the
tick counter divided by four and rounded up, so each reset has the level its counter
says, and the load has happened exactly if the JTAG counter has reached 20. `TypeCorrect` adds that a
busy transmitter has a bit left (`Busy`). `KeysAreFramed` needs `TypedInv`: what is left in the console's shift
register is the end of the frame of the typed character, and `age` is the bits sent times the bit time
and what has passed of the present one.

`CharactersHeard` has the hypothesis `RatesAgree`: counted from the start bit of the SoC, the tick at which
the console samples for the n-th time falls into the n-th bit the SoC sends, for every bit of a character
and the stop bit. It is the tolerance of a receiver that samples in the middle of a bit, and a hypothesis of the
theorem and not an assumption on the constants, since the program breaks it: `harness_baud` shows what
happens with the rates of `sim_main.cc` and `uart.c`. Equal rates satisfy it (`EqualRatesAgree`, hence
`EqualRatesHeard`), as in the run. `HearInv` ties the two ends together: while the SoC sends a character, its
shift register is the end of the frame, the console's holds the beginning, and the ticks
passed, counted by either, are the same number (`Hearing`); so the next sample is the next bit of
the character (`DueInBit`, `SameBit`), and the character is put out once, before its frame ends.

`PlicProofs` proves about `PlicBus`, for any harts, sources and first enables and every size of a scan that
satisfies `PlicAssumption`, `TypeCorrect`, `LevelsKept` (`LevelKept` is inductive with the
types), `HandedOnce` and `OffersBest`. `ClaimedOnce` needs `AlikeInv`: while all harts have had the same enables
their scans go in step, so that their results and claim registers are equal and the
claim of one clears them all. `Arbitrated` needs `ArbInv`: unless another scan is owed, a scan in progress
holds the best request of the rounds behind it, at the moment and not when they were
scanned, since nothing a scan depends on changes without `Starts`; so its result is right
when written, and a claim register and an interrupt line at rest stay right. That the best of the rounds is the best of all
rests on `Winner` and `WinnerJoins`: a non-empty set of requests has a single best one, and
joining two sets the better of their two best.

`PrintfProofs` proves about `Printf`, for any set of calls that satisfies `CallsAssumption` (formats of any length and
directives, any arguments and counts), any sizes of the number buffer, of the types, of the chunks and of the memory
modelled, if that holds the texts of the calls of `asprintf` (`RoomAssumption`): `TextIsTruncated`: `[]Truncated`,
and `CallerOwnsText`: `[]OwnsResult`. `PrintInv` says of a call under way that every sink is a function of one
sequence, the texts of the directives it is past (`Prefix`): a buffer holds the part of it
below `maxlen` and else what was there, a function has been given all of it but its NULs, and `idx` is its
length, also where it is longer than the count (`WrittenSoFar`); and that `vasprintf`
has one block between `malloc` and `strdup`, in which a text that left a byte to spare is whole (`BlockHeld`). TLC had
checked `PrintInv` as an invariant of the run. `OutMore` and `OutNul` say what one more text and the
NUL do to a sink; `EndOfBuffer` that the NUL is the last character at `min(length, maxlen - 1)` and, with a count of 0,
beyond the buffer. The length of a text, the number of characters and where it ends depend on the texts being
sequences of characters (`TextTyped`), which goes through all conversions.

`NumbersAreRead`: `[]NumbersRead`. `_ntoa_format` pads, marks and signs a number backwards in one buffer, the reference joins
sign, prefix, zeros and digits forwards; `NumberReads` says that both agree for every directive that is not in
`Deviates`. What the code has before the sign is some `core`, digits with zeros and mark, last one first; `Padded` is
what the sign, the zeros of a width and `_out_rev` make of it, and `PaddedIsStd` that this is the text of C if the core
turned round is prefix and digits. So what is left is the core: the digits and the precision's zeros (`PlainReads`); with `#`, whether
a digit is dropped for the mark (`NtoaMarked`, `NtoaDropped`, `MarkReads`) or the zeros of the width are there already, one of
which is taken for it (`FilledReads`); of a double, fraction, point and whole part
(`FloatBufferIs`), where the fraction has no more digits than the precision (`DigitsShort`, by a least
counterexample). That nothing is cut off at the end of the buffer follows from `TooLong`, which speaks of the text of C
alone: its sign and digits are as long as the buffer's content (`IntFits`, `FloatFits`). The attempt found two cases that
`Deviates` lacked and the run did not reach: a number 0 with `-` and a precision, and one half without the rollover under the default precision;
the run has both now. A precision above nine exceeds the number buffer of the run (8 characters), where `TooLong` holds; with a
buffer of 32 it was checked apart from the runs.

`FlattenSeq`, `Digits` and `FmtLen` are recursive functions; what they do is proved without an induction
theorem: the finite table of their first values exists and is unique, because there is no least number for
which it would not (`PartialExists`, `DigitsExist`, `SumsExist`).

`CoreMarkProofs` proves about `CoreMark`, for a block of any size, any number of iterations and
any results that satisfy `CoreMarkAssumption`, `ListTyped`: `[]TypeOK`, `ListStaysWhole`: `[]ListWhole`,
`ContentIsSorted`: `[]SortOrders`, `ListIsRestored`: `[](BackInOrder /\ (DistinctIdx => ListRestored))`,
`ShortListRestored`: `[](ShortList => ListRestored)`,
`BlocksArePutBack`: `[](BlocksKept /\ (MatricesFit => BlocksRestored))`, and `ScansStop`: `[]ScanStops`. What the list is cannot be
seen from the pointers alone, as the sort relinks nodes all the time. `IInv` says that at every moment there is an
*arrangement* `w`, a sequence of all nodes allocated, each once, that the pointers follow. Between the sorts
they follow it everywhere (`Listed`); between `core_list_remove` and its undoing the third node is out
(`Unlinked`); in the sort two cuts `a` and `b` divide `w` (`Sorted`): up to `a` the part merged, which `tail` ends, from there
to `b` the rest of the run at `p`, and behind it `q`; only the pointers at the cuts may be out of date. To take the next
element from `p` moves `a` on; to take it from `q` moves this element forward to `a + 1` (`Moved`), and both cuts on.
Finding and moving an item forward, reversing and inserting are such rearrangements too. That `ChainOf` follows
an arrangement from any place to its end (`ChainFrom`) is proved by a least counterexample, without induction.
`core_bench_list` starts each call from `res->list`, node 0, so the invariant also needs that the sort by index puts node 0
in front again. It has the only index 0 (`Indices`, for which the bits of `idx` are counted: `ItemIdxIn`), so it wins every
comparison, and `Leads` says where that takes it: to the front of the run it is in, the sorted one, the one at
`p` or `q`, or one that waits, and runs start at multiples of their length.

That the list is also in order needs a third part of `IInv`, `Ranked`. `Ordered` says of any two elements with no start of a
run between them (`Apart`) that they are in the relation `InOrder`: in the part merged in earlier merges of the pass, where
runs are twice as long; in the merge under way, but for a pair with one element left at `p` and one at `q`; and
behind it, where the runs wait. `InOrder` holds for two data that a comparison has been at (`Known`: rebuilt by `cmp_idx`,
cached by `cmp_complex`) and whose keys ascend. A comparison rewrites the data of both elements; what it knew
of them stays true, because an item rebuilt is rebuilt to the same value and a cached result comes back as it is
(`CompareOrders`), so `InOrder` only grows. The element linked next is in order with all that is left of the
other run, as this run is in order and `InOrder` is transitive. A pass of one merge has no start of a run inside, so everything
is in order (`OrderedEnds`); every element has then been compared, because there are three or more. `Rows` carries
that to the states in which the properties look. `ListRestored` asks for indices that strictly ascend. `core_list_init`
keeps bits of an item's number, of `seed1` and of the number modulo 8 in an index, so that items get the same index in long
lists: with more than 322 nodes under the seeds 0 and 13333, 39 under 8; `core_portme.h` makes 31 nodes. `DistinctIdx` is that
condition; without it `BackInOrder`, with `<=`, is what holds for every size. `ShortList`, blocks of at most 39 nodes, is what
the build keeps to and the most for which it holds under all seeds (with 40, items 7 and 15 share index 7 under seed 8): `Marked`
says that `core_list_init` gives distinct indices, and nothing changes one later. Two mixed indices are told apart by their low bytes,
the numbers `^` that of `seed1` (`XorLow`, `SameByte`). A mixed one is above those given in order, which are less than 7: with bits from the number
modulo 8 it is 256 or more, and without them the number ends in three ones, which `^` with 0 or 8 keeps, while 13333
brings a higher bit (`MixedIdx`, `OrderedOrMixed`).

The blocks of the two other benchmarks are kept by an invariant of their own, `BlocksKept`: after every step they are what
`main` wrote. A comparison may run both benchmarks on them, so it needs that each undoes itself. For the state machine that
is not a matter of `^` alone (`XorTwice`, from the bits of bytes): a comma is not corrupted, so a character that the
corruption made one would stay, and a comma is what `$` or `9` would become under the low bytes 8 and 21 of the seeds. No
pattern has either (`Codes`, `XorCode`); a zero only becomes the low byte of the seed, which is no comma. For the matrices,
`matrix_add_const` wraps, but A holds bytes, so nothing is lost (`MatrixTestKeeps`). `ScansStop` does not hold because the
text ends in a zero, which a corruption may change, but because it leaves two zeros (`BlockIs`) and no step from 34 to 255
takes in neighbours (`CorruptLeavesZero`); that the scan goes no further than a zero is proved on the tables of `ScanEnd`, built
from the end of the block (`TokenEnds`, `ScanMeetsZero`). `MatricesFit` leaves three bytes for `align_mem`:
`core_init_matrix` picks N with 8 N N < the size, which for a size of 8 N N + 1 or + 2 bytes is too near when the block itself is
not aligned, as its last matrix then ends one or two bytes behind it. The 666 bytes of this build, N = 9, satisfy it.

The type invariants of `PregAlloc`, `PregPst`, `Harness` and `PlicBus` are proved and need no run.
Only model-checked:

* everything under fairness (`AsyncTaken`, `IntTaken`, `TimeAdvances`, `Finishes`, `Returns`), which the
  proof system cannot treat.

## Not modelled

Instruction fetch, execution pipes, the load-store unit's queues, MMU, the coherent
interconnect and L2 appear only as inputs: tens of thousands of generated lines each,
whose interfaces to the modelled part are small. The vector, floating-point and flag
status tables repeat the integer one. FPGA wrappers, clock gates, memories and file
lists have no behaviour of their own. CLINT and the AXI fabric are planned; of the PLIC
the supervisor half, security and edge-sensitive sources are left out. Of
the harness, the parsing of the command line, the trace files and the bytes of the
program are left out; of the programs, the report of CoreMark, `%e` and `%g`, and the
drivers, which only write registers and poll.

## Plan

In order, the most important behaviour first; done items are marked.

1. (done) `PregPool`, `PregAlloc`, its proofs.
2. (done) `PregPst`: the whole loop of rename, retire and flush.
3. (done) `RetireCommit`: commit against every request to flush.
4. (done) `Harness`, `UartSim`, `JtagLink` and the proof of the refinement.
5. (done) `CoreMark`, `CoreState`, `CoreMatrix`; `PrintfText`, `Printf`.
6. (done) `Plic`, `PlicBus` and their proofs; `LoadFirst` and the types of `Harness`.
7. (done) Proofs of every property of `PregPst` and of the safety properties of `RetireCommit`.
   (done) The character link of `Harness`, the drained free list, and the buffers of `Printf`.
   (done) The list of CoreMark stays whole, is sorted and is restored; the blocks of its other
   benchmarks are put back, and their scans stop. (done) The numbers of `printf` read as C says.
8. `Rob`: create, read and pop pointers, read entries as mirrors of entries; refinement of
   an in-order window with completion bits, as `PregPst` and `RetireCommit` use it.
9. `AxiIds`: `wid_for_axi4`, `axi_fifo`, `fifo_counter` at full queues.
10. `Clint`: the compare registers written in halves; with the PMU and the timer, the
    program `cases/sleep`.
11. If sizes allow: the supervisor half of the PLIC; the snoop protocol of the CIU for
    one line and two cores.
