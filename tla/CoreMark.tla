------------------------------ MODULE CoreMark ------------------------------
(* The CoreMark benchmark the simulated SoC runs (cases/coremark): the list *)
(* of core_list_join.c node by node, pointer by pointer, with the state and *)
(* matrix benchmarks its comparisons call, and core_main.c around them.     *)
(* Checksums are abstract: the seven bits of one that come back into the    *)
(* list are any member of Vals.                                             *)
EXTENDS CoreState, CoreMatrix, FiniteSets

CONSTANTS BlkSize,     \* bytes of each algorithm's memory block
          Base,        \* address of the first block
          Runs,        \* kinds of run core_portme.c may be compiled for
          Iterations,  \* main sets 2
          Vals         \* results of a benchmark, modulo 128

MaxIdx == 32767       \* 0x7fff, the largest ee_s16

ASSUME CoreMarkAssumption ==
    /\ BlkSize \in Nat /\ BlkSize >= 120 /\ BlkSize \div 100 <= MaxIdx
    /\ Base \in Nat \ {0} /\ Iterations \in Nat \ {0}
    /\ Vals \subseteq 0 .. 127 /\ Vals # {}
    /\ Runs \subseteq {"VALIDATION_RUN", "PERFORMANCE_RUN", "PROFILE_RUN"}

NULL == -1
Size == BlkSize \div 20 - 2          \* list_heads and list_datas in the block
Node == 0 .. Size - 1

VARIABLES cfg,              \* the seeds of this run
          next, info, data, \* list_head.next, .info; list_data, by address
          free,             \* *memblock and *datablock, which move together
          list, resList,    \* the local list, res->list
          remover,          \* the removed item
          blk, matA,        \* the state machine's block, matrix A
          pc, i, arg, iter, \* program counter, loop counters, finder_idx
          ms                \* the state of core_list_mergesort

heap == <<next, info, data, free>>
vars == <<cfg, heap, list, resList, remover, blk, matA, pc, i, arg, iter, ms>>

NoSort == [cmp |-> "idx", then |-> "", head |-> NULL, p |-> NULL, q |-> NULL, tail |-> NULL,
           insize |-> 0, nmerges |-> 0, psize |-> 0, qsize |-> 0]

\* A data16 is its two bytes: hi holds the value to rebuild lo from; bit 7 of
\* lo says that the other bits are a cached result.
Datum == [idx : 0 .. MaxIdx, hi : 0 .. 255, lo : 0 .. 255]
FakeHead == [idx |-> 0, hi |-> 128, lo |-> 128]
FakeTail == [idx |-> MaxIdx, hi |-> 255, lo |-> 255]

\* The volatile seeds of core_portme.c, get_seed, which reads one of them, and
\* main, which replaces two combinations; find is seed3, the number of finds.
Volatile(run) ==
    CASE run = "VALIDATION_RUN"  -> <<13333, 13333, 102>>
      [] run = "PERFORMANCE_RUN" -> <<0, 0, 102>>
      [] run = "PROFILE_RUN"     -> <<8, 8, 8>>
GetSeed(run, n) == IF n \in 1 .. 3 THEN Volatile(run)[n] ELSE 0
Seeds(run) ==
    LET given == <<GetSeed(run, 1), GetSeed(run, 2), GetSeed(run, 3)>>
        used  == CASE given = <<0, 0, 0>> -> <<0, 0, 102>>
                   [] given = <<1, 0, 0>> -> <<13333, 13333, 102>>
                   [] OTHER -> given
    IN  [seed1 |-> used[1], seed2 |-> used[2], find |-> used[3]]

\* main: seeds, memory blocks, core_init_matrix, core_init_state, and the
\* start of core_list_init.
Init ==
    /\ cfg \in {Seeds(run) : run \in Runs}
    /\ next = [n \in Node |-> NULL] /\ info = [n \in Node |-> n]
    /\ data = [n \in Node |-> FakeHead] /\ free = 1
    /\ list = 0 /\ resList = NULL /\ remover = NULL
    /\ blk = InitBlock(BlkSize, cfg.seed1)
    /\ matA = MatrixA(Dim(BlkSize), cfg.seed1 + 2 ^ 16 * cfg.seed2)
    /\ pc = "insert" /\ i = -1 /\ arg = 1 /\ iter = 0 /\ ms = NoSort

----------------------------------------------------------------------------
(* Lists. *)

\* The nodes from n on along the pointers nx, in order (at most all of them,
\* should they form a loop).
ChainOf(nx, n) ==
    LET from[k \in 0 .. Size] ==
            [m \in Node \cup {NULL} |-> IF k = 0 \/ m = NULL THEN <<>>
                                       ELSE <<m>> \o from[k - 1][nx[m]]]
    IN  from[Size][n]
Chain(n) == ChainOf(next, n)

\* core_list_find: the first node with the index, or with the data if idx < 0.
Find(idx, dat) ==
    LET c == Chain(list)
        hits == {k \in DOMAIN c : IF idx >= 0 THEN data[info[c[k]]].idx = idx
                                  ELSE data[info[c[k]]].lo = dat}
    IN  IF hits = {} THEN NULL ELSE c[CHOOSE k \in hits : \A j \in hits : k <= j]

\* core_list_reverse: the pointers of a list turned round.
Reversed ==
    LET c == Chain(list)
        At(n) == CHOOSE k \in DOMAIN c : c[k] = n
    IN  [n \in Node |-> IF \A k \in DOMAIN c : c[k] # n THEN next[n]
                        ELSE IF At(n) = 1 THEN NULL ELSE c[At(n) - 1]]

\* Mutant of InsertNew: the last list_head is used too.
InsertNewLast(d) ==
    IF free >= Size THEN UNCHANGED heap
    ELSE /\ next' = [next EXCEPT ![free] = next[0], ![0] = free]
         /\ info' = [info EXCEPT ![free] = free]
         /\ data' = [data EXCEPT ![free] = d]
         /\ free' = free + 1

\* core_list_insert_new behind the head of the list, if there is room.
InsertNew(d) ==
    IF free + 1 >= Size THEN UNCHANGED heap
    ELSE /\ next' = [next EXCEPT ![free] = next[0], ![0] = free]
         /\ info' = [info EXCEPT ![free] = free]
         /\ data' = [data EXCEPT ![free] = d]
         /\ free' = free + 1

StartSort(cmp, then, head) ==
    /\ pc' = "sort"
    /\ ms' = [NoSort EXCEPT !.cmp = cmp, !.then = then, !.p = head, !.insize = 1]

\* core_list_init, the items: the fake tail first, then Size of them as far
\* as there is room.
Item == LET dat == ((Xor(cfg.seed1, i) % 16) * 8) + (i % 8)
        IN  IF i = -1 THEN FakeTail ELSE [idx |-> MaxIdx, hi |-> dat, lo |-> dat]

Insert ==
    /\ pc = "insert" /\ InsertNew(Item)
    /\ i' = i + 1 /\ pc' = IF i' = Size THEN "index" ELSE "insert"
    /\ UNCHANGED <<cfg, list, resList, remover, blk, matA, arg, iter, ms>>

\* The index of the j-th item: in order at first, then mixed.
ItemIdx(j) == IF j < Size \div 5 THEN j
              ELSE Or(((j + 1) % 8) * 256, Xor(j, cfg.seed1)) % 16384

\* core_list_init, the indices, and the sort by them.
Index ==
    /\ pc = "index"
    /\ LET c == Chain(list)
       IN  data' = [n \in Node |->
                      IF \E k \in 2 .. Len(c) - 1 : info[c[k]] = n
                      THEN [data[n] EXCEPT !.idx =
                               ItemIdx((CHOOSE k \in 2 .. Len(c) - 1 : info[c[k]] = n) - 1)]
                      ELSE data[n]]
    /\ StartSort("idx", "inited", list)
    /\ UNCHANGED <<cfg, next, info, free, list, resList, remover, blk, matA, i, arg, iter>>

----------------------------------------------------------------------------
(* calc_func and the comparisons. *)

Cached(d) == d.lo >= 128
DType(d) == ((d.lo \div 8) % 16) * 17

\* The seven bits calc_func may return for an item.
Results(d) == IF Cached(d) THEN {d.lo - 128} ELSE IF d.lo % 8 \in {0, 1} THEN Vals ELSE {d.lo}

\* What calc_func leaves in the blocks of the two other benchmarks.
CalcState(b, d) ==
    IF Cached(d) \/ d.lo % 8 # 0 THEN b
    ELSE BenchState(b, cfg.seed1, cfg.seed2, IF DType(d) < 34 THEN 34 ELSE DType(d))
CalcMatrix(A, d) ==
    IF Cached(d) \/ d.lo % 8 # 1 THEN A ELSE MatrixTest(A, DType(d))

\* cmp_complex computes and caches the two results; leq is its verdict.
CmpComplex(a, b, leq) ==
    \E va \in Results(data[a]), vb \in Results(data[b]) :
        /\ leq = (va <= vb)
        /\ data' = [data EXCEPT ![a].lo = 128 + va, ![b].lo = 128 + vb]
        /\ blk' = CalcState(CalcState(blk, data[a]), data[b])
        /\ matA' = CalcMatrix(CalcMatrix(matA, data[a]), data[b])

\* cmp_idx without a res rebuilds both data.
CmpIdx(a, b, leq) ==
    /\ leq = (data[a].idx <= data[b].idx)
    /\ data' = [data EXCEPT ![a].lo = data[a].hi, ![b].lo = data[b].hi]
    /\ UNCHANGED <<blk, matA>>

Compare(a, b, leq) == IF ms.cmp = "idx" THEN CmpIdx(a, b, leq) ELSE CmpComplex(a, b, leq)

----------------------------------------------------------------------------
(* core_list_mergesort. *)

Merging == ms.psize > 0 \/ (ms.qsize > 0 /\ ms.q # NULL)

\* The next element e comes from p or from q and is linked behind the tail.
\* When both runs are used up, p goes to where q is.
Link(fromP) ==
    LET e  == IF fromP THEN ms.p ELSE ms.q
        p1 == IF fromP THEN next[ms.p] ELSE ms.p
        q1 == IF fromP THEN ms.q ELSE next[ms.q]
        ps == IF fromP THEN ms.psize - 1 ELSE ms.psize
        qs == IF fromP THEN ms.qsize ELSE ms.qsize - 1
        over == ps = 0 /\ (qs = 0 \/ q1 = NULL)
    IN  /\ ms' = [ms EXCEPT !.tail = e, !.head = IF ms.tail = NULL THEN e ELSE @,
                            !.p = IF over THEN q1 ELSE p1, !.q = q1, !.psize = ps, !.qsize = qs]
        /\ next' = IF ms.tail = NULL THEN next ELSE [next EXCEPT ![ms.tail] = e]
        /\ UNCHANGED <<cfg, info, free, list, resList, remover, pc, i, arg, iter>>

MergeStep ==
    /\ pc = "sort" /\ Merging
    /\ IF ms.psize > 0 /\ ms.qsize > 0 /\ ms.q # NULL
       THEN \E leq \in BOOLEAN : Compare(info[ms.p], info[ms.q], leq) /\ Link(leq)
       ELSE Link(ms.psize > 0) /\ UNCHANGED <<data, blk, matA>>

\* Mutant of NextMerge: the second run is one element short.
NextMergeShort ==
    /\ pc = "sort" /\ ~Merging /\ ms.p # NULL
    /\ LET c == Chain(ms.p)
           run == IF Len(c) < ms.insize THEN Len(c) ELSE ms.insize
       IN  ms' = [ms EXCEPT !.nmerges = @ + 1, !.psize = run,
                            !.qsize = IF ms.insize > 1 THEN ms.insize - 1 ELSE 1,
                            !.q = IF run = Len(c) THEN NULL ELSE c[run + 1]]
    /\ UNCHANGED <<cfg, heap, list, resList, remover, blk, matA, pc, i, arg, iter>>

\* q steps insize places along from p, or to the end of the list.
NextMerge ==
    /\ pc = "sort" /\ ~Merging /\ ms.p # NULL
    /\ LET c == Chain(ms.p)
           run == IF Len(c) < ms.insize THEN Len(c) ELSE ms.insize
       IN  ms' = [ms EXCEPT !.nmerges = @ + 1, !.psize = run, !.qsize = ms.insize,
                            !.q = IF run = Len(c) THEN NULL ELSE c[run + 1]]
    /\ UNCHANGED <<cfg, heap, list, resList, remover, blk, matA, pc, i, arg, iter>>

\* Mutant of EndPass: the runs of the next pass are as long as before.
EndPassSame ==
    /\ pc = "sort" /\ ~Merging /\ ms.p = NULL
    /\ next' = [next EXCEPT ![ms.tail] = NULL]
    /\ IF ms.nmerges <= 1
       THEN /\ list' = ms.head /\ pc' = ms.then /\ ms' = NoSort
       ELSE /\ ms' = [ms EXCEPT !.p = ms.head, !.head = NULL, !.tail = NULL, !.nmerges = 0]
            /\ UNCHANGED <<list, pc>>
    /\ UNCHANGED <<cfg, info, data, free, resList, remover, blk, matA, i, arg, iter>>

\* The end of a pass: another one with runs twice as long, or the end.
EndPass ==
    /\ pc = "sort" /\ ~Merging /\ ms.p = NULL
    /\ next' = [next EXCEPT ![ms.tail] = NULL]
    /\ IF ms.nmerges <= 1
       THEN /\ list' = ms.head /\ pc' = ms.then /\ ms' = NoSort
       ELSE /\ ms' = [ms EXCEPT !.p = ms.head, !.head = NULL, !.tail = NULL,
                                !.nmerges = 0, !.insize = 2 * @]
            /\ UNCHANGED <<list, pc>>
    /\ UNCHANGED <<cfg, info, data, free, resList, remover, blk, matA, i, arg, iter>>

----------------------------------------------------------------------------
(* core_bench_list, iterate and main. *)

\* core_list_init returns; iterate calls core_bench_list.
Begin ==
    /\ pc = "inited" /\ resList' = list
    /\ pc' = "find" /\ i' = 0
    /\ UNCHANGED <<cfg, heap, list, remover, blk, matA, arg, iter, ms>>

\* Mutant of FindStep: the item found keeps pointing to the one that is moved.
FindStepKeeps ==
    /\ pc = "find" /\ i < cfg.find
    /\ LET this == Find(IF arg > 0 THEN arg + i ELSE -1, i % 256)
           c    == Chain(list)
           head == c[Len(c)]
           r    == Reversed
           f    == IF this = NULL THEN NULL ELSE r[this]
       IN  /\ list' = head
           /\ next' = IF f = NULL THEN r ELSE [r EXCEPT ![f] = r[head], ![head] = f]
    /\ i' = i + 1
    /\ UNCHANGED <<cfg, info, data, free, resList, remover, blk, matA, pc, arg, iter, ms>>

\* One turn of the loop: find, reverse, and move the item behind the one
\* found to the second place.
FindStep ==
    /\ pc = "find" /\ i < cfg.find
    /\ LET this == Find(IF arg > 0 THEN arg + i ELSE -1, i % 256)
           c    == Chain(list)
           head == c[Len(c)]
           r    == Reversed
           f    == IF this = NULL THEN NULL ELSE r[this]
       IN  /\ list' = head
           /\ next' = IF f = NULL THEN r
                      ELSE LET r1 == [r EXCEPT ![this] = r[f]]
                               r2 == [r1 EXCEPT ![f] = r1[head]]
                           IN  [r2 EXCEPT ![head] = f]
    /\ i' = i + 1
    /\ UNCHANGED <<cfg, info, data, free, resList, remover, blk, matA, pc, arg, iter, ms>>

\* The sort by content, for the positive finder index only.
SortData ==
    /\ pc = "find" /\ i = cfg.find
    /\ IF arg > 0 THEN StartSort("complex", "remove", list) ELSE pc' = "remove" /\ UNCHANGED ms
    /\ UNCHANGED <<cfg, heap, list, resList, remover, blk, matA, i, arg, iter>>

\* core_list_remove(list->next): the item takes the data of the next one,
\* which is unlinked.
Remove ==
    /\ pc = "remove"
    /\ LET item == next[list]
           ret  == next[item]
       IN  /\ info' = [info EXCEPT ![item] = info[ret], ![ret] = info[item]]
           /\ next' = [next EXCEPT ![item] = next[ret], ![ret] = NULL]
           /\ remover' = ret
    /\ pc' = "undo"
    /\ UNCHANGED <<cfg, data, free, list, resList, blk, matA, i, arg, iter, ms>>

\* Mutant of UndoRemove: the data are not swapped back.
UndoRemoveKeepsInfo ==
    /\ pc = "undo"
    /\ next' = [next EXCEPT ![remover] = next[next[list]], ![next[list]] = remover]
    /\ remover' = NULL /\ StartSort("idx", "listdone", list)
    /\ UNCHANGED <<cfg, info, data, free, list, resList, blk, matA, i, arg, iter>>

\* core_list_undo_remove(remover, list->next), and the sort by index.
UndoRemove ==
    /\ pc = "undo"
    /\ LET item == next[list]
       IN  /\ info' = [info EXCEPT ![item] = info[remover], ![remover] = info[item]]
           /\ next' = [next EXCEPT ![remover] = next[item], ![item] = remover]
    /\ remover' = NULL /\ StartSort("idx", "listdone", list)
    /\ UNCHANGED <<cfg, data, free, list, resList, blk, matA, i, arg, iter>>

\* core_bench_list returns; iterate calls it with 1 and -1 in turn, each time
\* with res->list.
Return ==
    /\ pc = "listdone"
    /\ list' = resList /\ i' = 0 /\ arg' = -arg
    /\ iter' = IF arg = 1 THEN iter ELSE iter + 1
    /\ pc' = IF iter' = Iterations THEN "end" ELSE "find"
    /\ UNCHANGED <<cfg, heap, resList, remover, blk, matA, ms>>

Next == \/ Insert \/ Index \/ MergeStep \/ NextMerge \/ EndPass
        \/ Begin \/ FindStep \/ SortData \/ Remove \/ UndoRemove \/ Return

Spec == Init /\ [][Next]_vars /\ WF_vars(Next)

----------------------------------------------------------------------------
(* Properties. *)

\* Every pointer is NULL or a node, every half of a data16 a byte, and an index
\* is never negative, so core_list_find never mistakes it for "by data".
TypeOK ==
    /\ next \in [Node -> Node \cup {NULL}] /\ info \in [Node -> Node]
    /\ data \in [Node -> Datum]
    /\ free \in 1 .. Size - 1 /\ list \in Node /\ {resList, remover} \subseteq Node \cup {NULL}
    /\ arg \in {-1, 1} /\ iter \in 0 .. Iterations /\ i \in -1 .. Size + cfg.find
    /\ pc \in {"insert", "index", "sort", "inited", "find", "remove", "undo", "listdone", "end"}

\* Outside of the sort the list is one chain of every node allocated, each once
\* (all but the removed one between remove and undo), with every datum once:
\* turning it round, moving items forward and splicing lose and double none,
\* and no loop comes up in which a find would never end.
ListWhole ==
    pc \notin {"sort", "end"} =>
       LET c == Chain(list)
       IN  /\ {c[k] : k \in DOMAIN c} = (0 .. free - 1) \ {remover}
           /\ Len(c) = Cardinality((0 .. free - 1) \ {remover})
           /\ \A m, n \in 0 .. free - 1 : info[m] = info[n] => m = n

\* The sort by content leaves the results, each computed once and cached, in
\* ascending order, whatever they are.
SortOrders ==
    pc = "remove" /\ arg = 1 =>
       LET c == Chain(list)
           lo(k) == data[info[c[k]]].lo
       IN  /\ \A k \in DOMAIN c : lo(k) >= 128
           /\ \A k \in 1 .. Len(c) - 1 : lo(k) <= lo(k + 1)

\* "At the end of this function, the list is back to original state": in order
\* of the indices again, from the node that iterate will start from next, every
\* node with its own datum and no result cached.
ListRestored ==
    pc = "listdone" =>
       LET c == Chain(list)
       IN  /\ list = resList
           /\ \A n \in 0 .. free - 1 : info[n] = n /\ data[n].lo = data[n].hi
           /\ \A k \in 1 .. Len(c) - 1 : data[info[c[k]]].idx < data[info[c[k + 1]]].idx

\* The other benchmarks put their inputs back, so that each iteration computes
\* the same; and the three matrices, aligned, stay inside their block.
BlocksRestored ==
    pc \in {"inited", "remove", "listdone"} =>
       /\ blk = InitBlock(BlkSize, cfg.seed1)
       /\ matA = MatrixA(Dim(BlkSize), cfg.seed1 + 2 ^ 16 * cfg.seed2)
       /\ MatrixEnd(Dim(BlkSize), Base + BlkSize) <= Base + 2 * BlkSize

\* The state machine has no length: its scan must meet a zero inside the block,
\* in the text as written and in the text as corrupted with every step.
ScanStops ==
    pc \in {"inited", "listdone"} =>
       /\ ScanEnd(blk, BlkSize) < BlkSize
       /\ \A step \in {34} \cup {17 * k : k \in 2 .. 15} :
             ScanEnd(Corrupt(blk, cfg.seed1, step), BlkSize) < BlkSize

\* The benchmark ends: the sort without recursion always runs out of passes.
Finishes == <>(pc = "end")
=============================================================================
