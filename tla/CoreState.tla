----------------------------- MODULE CoreState -----------------------------
(* CoreMark's state-machine benchmark (core_state.c): a block of text with  *)
(* comma-separated tokens and zeros behind, scanned token by token, then    *)
(* corrupted at regular steps, scanned again, and put back.                 *)
EXTENDS Integers, Sequences

\* The bits of a number of sixteen, and the number of such bits.
Places == <<32768, 16384, 8192, 4096, 2048, 1024, 512, 256, 128, 64, 32, 16, 8, 4, 2, 1>>
Bit(a, k) == (a \div Places[k]) % 2 = 1
OfBits(b) ==
    LET sum[k \in 0 .. 16] == IF k = 0 THEN 0 ELSE sum[k - 1] + (IF b[k] THEN Places[k] ELSE 0)
    IN  sum[16]

\* ^ and |
Xor(a, b) == OfBits([k \in 1 .. 16 |-> Bit(a, k) # Bit(b, k)])
Or(a, b) == OfBits([k \in 1 .. 16 |-> Bit(a, k) \/ Bit(b, k)])

\* Characters are their codes.
Comma == 44
IsDigit(c) == c \in 48 .. 57

\* intpat, floatpat, scipat and errpat.
IntPat   == << <<53,48,49,50>>, <<49,50,51,52>>, <<45,56,55,52>>, <<43,49,50,50>> >>
FloatPat == << <<51,53,46,53,52,52,48,48>>, <<46,49,50,51,52,53,48,48>>,
               <<45,49,49,48,46,55,48,48>>, <<43,48,46,54,52,52,48,48>> >>
SciPat   == << <<53,46,53,48,48,101,43,51>>, <<45,46,49,50,51,101,45,50>>,
               <<45,56,55,101,43,56,51,50>>, <<43,48,46,54,101,45,49,50>> >>
ErrPat   == << <<84,48,46,51,101,45,49,70>>, <<45,84,46,84,43,43,84,113>>,
               <<49,84,51,46,52,101,52,122>>, <<51,52,46,48,101,45,84,94>> >>

Pattern(seed) ==
    LET row == ((seed \div 8) % 4) + 1
    IN  CASE seed % 8 \in 0 .. 2 -> IntPat[row]   [] seed % 8 \in 3 .. 4 -> FloatPat[row]
          [] seed % 8 \in 5 .. 6 -> SciPat[row]   [] seed % 8 = 7        -> ErrPat[row]

\* The tokens core_init_state writes from seed + 1 on: each is written when
\* the one after it has been chosen and there is room before the last bytes.
InitText(size, seed) ==
    LET Text[k \in 1 .. size] ==     \* the text with k patterns chosen
            IF k = 1 THEN <<>> ELSE Text[k - 1] \o Pattern(seed + k - 1) \o <<Comma>>
        Goes(k) == Len(Text[k]) + Len(Pattern(seed + k)) + 1 < size - 1
    IN  Text[CHOOSE k \in 1 .. size : ~Goes(k) /\ \A j \in 1 .. k - 1 : Goes(j)]

\* Mutant of InitBlock: the text is padded with commas instead of zeros.
InitBlockPadded(size, seed) ==
    LET text == InitText(size, seed)
    IN  [p \in 0 .. size - 1 |-> IF p < Len(text) THEN text[p + 1] ELSE Comma]

InitBlock(size, seed) ==
    LET text == InitText(size, seed)
    IN  [p \in 0 .. size - 1 |-> IF p < Len(text) THEN text[p + 1] ELSE 0]

States == {"START", "S1", "INT", "FLOAT", "S2", "EXPONENT", "SCIENTIFIC", "INVALID"}

\* The transitions of core_state_transition on a character other than a comma.
Transition(state, c) ==
    CASE state = "START" -> IF IsDigit(c) THEN "INT" ELSE IF c \in {43, 45} THEN "S1"
                            ELSE IF c = 46 THEN "FLOAT" ELSE "INVALID"
      [] state = "S1"    -> IF IsDigit(c) THEN "INT" ELSE IF c = 46 THEN "FLOAT" ELSE "INVALID"
      [] state = "INT"   -> IF c = 46 THEN "FLOAT" ELSE IF IsDigit(c) THEN "INT" ELSE "INVALID"
      [] state = "FLOAT" -> IF c \in {69, 101} THEN "S2" ELSE IF IsDigit(c) THEN "FLOAT" ELSE "INVALID"
      [] state = "S2"    -> IF c \in {43, 45} THEN "EXPONENT" ELSE "INVALID"
      [] state = "EXPONENT"   -> IF IsDigit(c) THEN "SCIENTIFIC" ELSE "INVALID"
      [] state = "SCIENTIFIC" -> IF IsDigit(c) THEN "SCIENTIFIC" ELSE "INVALID"

\* Where the scan of a block of size bytes stops, or size when it runs off
\* the end: a token ends behind a comma or an invalid character or at a zero.
ScanEnd(blk, size) ==
    LET Token[p \in 0 .. size] ==
            [state \in States |->
                IF p = size \/ state = "INVALID" THEN p
                ELSE IF blk[p] = 0 THEN p
                ELSE IF blk[p] = Comma THEN p + 1
                ELSE Token[p + 1][Transition(state, blk[p])]]
        Scan[p \in 0 .. size] ==
            IF p = size THEN p ELSE IF blk[p] = 0 THEN p ELSE Scan[Token[p]["START"]]
    IN  Scan[0]

\* Mutant of Corrupt: a character that the seed would turn into a zero is kept.
CorruptNotNul(blk, seed, step) ==
    [p \in DOMAIN blk |-> IF p % step = 0 /\ blk[p] # Comma /\ blk[p] # seed % 256
                          THEN Xor(blk[p], seed % 256) ELSE blk[p]]

\* The corruption, and its undoing: every step-th byte that is not a comma.
Corrupt(blk, seed, step) ==
    [p \in DOMAIN blk |-> IF p % step = 0 /\ blk[p] # Comma
                          THEN Xor(blk[p], seed % 256) ELSE blk[p]]

\* core_bench_state: what it leaves in the block.
BenchState(blk, seed1, seed2, step) == Corrupt(Corrupt(blk, seed1, step), seed2, step)
=============================================================================
