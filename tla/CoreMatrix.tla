---------------------------- MODULE CoreMatrix ----------------------------
(* CoreMark's matrix benchmark (core_matrix.c): how a memory block is cut   *)
(* into the matrices A, B and C, and what a test leaves in A.  The products *)
(* written to C only reach the checksum, which is abstract here.            *)
EXTENDS Integers

\* align_mem: the next multiple of 4, for an address that is not 0.
Align(x) == 4 * ((x - 1) \div 4) + 4

\* The largest N with N * N * 8 < blksize.
Dim(blksize) == CHOOSE n \in 0 .. blksize :
                    n * n * 8 < blksize /\ (n + 1) * (n + 1) * 8 >= blksize

\* core_init_matrix puts N * N 16-bit elements of A and as many of B at the
\* aligned address and N * N 32-bit results at the next aligned one.
MatrixEnd(n, memblk) == Align(Align(memblk) + 4 * n * n) + 4 * n * n

\* A MATDAT is a signed 16-bit number.
Int16 == -32768 .. 32767
Wrap16(x) == ((x + 32768) % 65536) - 32768

\* The pseudo-random seed of the element of order k, and the element of A.
MatrixA(n, seed) ==
    LET s[k \in 0 .. n * n] == IF k = 0 THEN IF seed = 0 THEN 1 ELSE seed
                               ELSE (k * s[k - 1]) % 65536
    IN  [k \in 1 .. n * n |-> Wrap16(Wrap16(s[k] + k) + k) % 256]

\* matrix_add_const
AddConst(A, val) == [k \in DOMAIN A |-> Wrap16(A[k] + val)]

\* matrix_test: what A holds after the constant, the products and the end.
MatrixTest(A, val) == AddConst(AddConst(A, val), Wrap16(-val))
=============================================================================
