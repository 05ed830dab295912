------------------------------ MODULE Transpose ------------------------------
(***************************************************************************)
(* The blocked transpose functions of trans.c, as the sequences of the     *)
(* references to the matrices A[N][M] and B[M][N] they make.  A reference  *)
(* loads an element into a variable v, or stores it.  Index variables and  *)
(* v are kept in registers and make no references.                         *)
(***************************************************************************)
EXTENDS Integers, Sequences, SequencesExt

Ref(op, mat, i, j, v) == [op |-> op, mat |-> mat, i |-> i, j |-> j, v |-> v]
LoadA(i, j, v)  == << Ref("L", "A", i, j, v) >>
LoadB(i, j, v)  == << Ref("L", "B", i, j, v) >>
StoreA(i, j, v) == << Ref("S", "A", i, j, v) >>
StoreB(i, j, v) == << Ref("S", "B", i, j, v) >>

\* for (k = lo; k < hi; k += by) body(k)
Loop(lo, hi, by, body(_)) == FlattenSeq([k \in 1..(hi - lo + by - 1) \div by |-> body(lo + (k - 1) * by)])
Loops(lo1, hi1, lo2, hi2, by, body(_, _)) ==
  Loop(lo1, hi1, by, LAMBDA i : Loop(lo2, hi2, by, LAMBDA j : body(i, j)))

\* B[j0][i0] = A[i0][j0]
Copy(i0, j0) == LoadA(i0, j0, 0) \o StoreB(j0, i0, 0)

DiagonalNot(i0, j1) ==      \* mutant: the element on the diagonal is left out
  Loop(j1, j1 + 8, 1, LAMBDA j0 : IF i0 = j0 THEN <<>> ELSE Copy(i0, j0))

\* A row of a block on the diagonal: B[i0][i0] comes last, for it evicts the row of A.
Diagonal(i0, j1) == Loop(j1, j1 + 8, 1, LAMBDA j0 : IF i0 = j0 THEN <<>> ELSE Copy(i0, j0)) \o Copy(i0, i0)

blocksize_8_32_32(N, M) ==
  Loops(0, N, 0, M, 8, LAMBDA i1, j1 :
    IF i1 = j1 THEN Loop(i1, i1 + 8, 1, LAMBDA i0 : Diagonal(i0, j1))
    ELSE Loops(i1, i1 + 8, j1, j1 + 8, 1, LAMBDA i0, j0 : Copy(j0, i0)))

\* Four elements of each row at a time, through v0 to v3.
Quads(i1, j1) ==
  Loop(i1, i1 + 4, 1, LAMBDA i0 :
    Loop(0, 4, 1, LAMBDA k : LoadA(i0, j1 + k, k)) \o Loop(0, 4, 1, LAMBDA k : StoreB(j1 + k, i0, k)))

blocksize_4_64_64(N, M) ==
  Loops(0, N, 0, M, 4, LAMBDA i1, j1 :
    IF i1 \div 8 = j1 \div 8 THEN Quads(i1, j1)
    ELSE Loops(i1, i1 + 4, j1, j1 + 4, 1, LAMBDA i0, j0 : Copy(j0, i0)))

\* temp = A[i0][j0]; A[i0][j0] = B[j0][i0]; B[j0][i0] = temp
Swap(i0, j0) == LoadA(i0, j0, 0) \o LoadB(j0, i0, 1) \o StoreA(i0, j0, 1) \o StoreB(j0, i0, 0)

\* Subblock 3 of A held subblock 2 meanwhile.
CopyBack(i2, j2) ==
  Loops(i2 + 4, i2 + 8, j2, j2 + 4, 1, LAMBDA i0, j0 : LoadB(j0, i0, 0) \o StoreA(i0, j0, 0))

blocksize_8_4_64_64(N, M) ==
  Loops(0, N, 0, M, 8, LAMBDA i2, j2 :
    IF i2 = j2 THEN Loops(i2, i2 + 8, j2, j2 + 8, 4, Quads)
    ELSE Loops(i2, i2 + 4, j2, j2 + 8, 1, LAMBDA i0, j0 :
           IF j0 < j2 + 4 THEN Copy(i0, j0)
           ELSE LoadA(i0, j0, 0) \o StoreB(j2 + (i0 - i2), i2 + (j0 - j2), 0))
         \o Loops(i2 + 4, i2 + 8, j2, j2 + 4, 1, Swap)
         \o Loops(i2 + 4, i2 + 8, j2, j2 + 4, 1, LAMBDA i0, j0 :
              LoadA(i0, j0, 0) \o StoreB(j2 + i0 - i2, i2 + j0 - j2, 0))
         \o Loops(i2 + 4, i2 + 8, j2 + 4, j2 + 8, 1, Copy)
         \o CopyBack(i2, j2))

B_SIZE == 16
Least(a, b) == IF a < b THEN a ELSE b

blocksize_4_67_61(N, M) ==
  Loops(0, N, 0, M, B_SIZE, LAMBDA i, j :
    Loops(i, Least(i + B_SIZE, N), j, Least(j + B_SIZE, M), 1, Copy))

trans(N, M) == Loops(0, N, 0, M, 1, Copy)

transpose_submit(M, N) ==
  CASE N = M /\ N <= 32      -> blocksize_8_32_32(N, M)
    [] N = M /\ N > 32       -> blocksize_8_4_64_64(N, M)
    [] N = 67 /\ M = 61      -> blocksize_4_67_61(N, M)
    [] OTHER                 -> <<>>
=============================================================================
