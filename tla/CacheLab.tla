------------------------------ MODULE CacheLab ------------------------------
(***************************************************************************)
(* test-trans over the simulator: a transpose function runs on a matrix,   *)
(* its references go to a direct-mapped cache of 32 lines of eight ints,   *)
(* and its result is validated.  The same module runs csim.c on arbitrary  *)
(* short traces, with the sets and lines of Csim's constants; a behaviour  *)
(* is one or the other.                                                    *)
(***************************************************************************)
EXTENDS Csim, Transpose

CONSTANT Jobs          \* the function, M and N of the evaluations

VARIABLES job,         \* NoJob: csim.c runs on a trace
          pc,          \* the next reference
          mat, reg,    \* the matrices and the registers
          lines, misses, clock, line,     \* the simulator of test-trans
          results      \* of the submission: correct and misses; or none yet

tvars == <<pc, mat, reg, lines, misses, clock, line, results>>
allvars == <<vars, job, tvars>>

NoJob == [f |-> "none", M |-> 0, N |-> 0]

Trace(j) ==
  CASE j.f = "transpose_submit"  -> transpose_submit(j.M, j.N)
    [] j.f = "blocksize_4_64_64" -> blocksize_4_64_64(j.N, j.M)
    [] j.f = "trans"             -> trans(j.N, j.M)
    [] OTHER                     -> <<>>
Traces == [j \in Jobs |-> Trace(j)]

\* A and B are arrays of 256 * 256 ints, one after the other, used from their start.
MAXN == 256
Address(r) == 4 * (IF r.mat = "A" THEN r.i * job.M + r.j ELSE MAXN * MAXN + r.i * job.N + r.j)

Big == INSTANCE Csim WITH
         s <- 5, E <- 1, b <- 5, Addresses <- 0..8 * MAXN * MAXN,
         TagMod <- 65536, MaxTime <- MAXN * MAXN,
         read <- line, cache <- lines, time <- clock, count <- misses

\* initMatrix: every element of A is another one, and none of B's.
initMatrix(M, N) ==
  [A |-> [i \in 0..N-1 |-> [j \in 0..M-1 |-> 1 + i * M + j]], B |-> [j \in 0..M-1 |-> [i \in 0..N-1 |-> 0]]]

TInit ==
  /\ job \in Jobs \cup {NoJob}
  /\ mat = initMatrix(job.M, job.N)
  /\ pc = 1 /\ reg = [v \in 0..3 |-> 0]
  /\ lines = [i \in 0..31 |-> [valid_bit |-> 0, tag |-> 0, access_time |-> 0]]
  /\ misses = [hit |-> 0, miss |-> 0, evict |-> 0] /\ clock = 0 /\ line = NoLine
  /\ results = [correct |-> 0, misses |-> -1]

\* One reference of the function.
Access ==
  /\ job # NoJob /\ pc <= Len(Traces[job]) /\ results.misses = -1
  /\ LET r == Traces[job][pc]
     IN /\ IF r.op = "L" THEN reg' = [reg EXCEPT ![r.v] = mat[r.mat][r.i][r.j]] /\ UNCHANGED mat
           ELSE mat' = [mat EXCEPT ![r.mat][r.i][r.j] = reg[r.v]] /\ UNCHANGED reg
        /\ Big!Simulate(r.op, Address(r))
  /\ pc' = pc + 1
  /\ UNCHANGED <<vars, job, results>>

correctTrans(M, N, A) == [j \in 0..M-1 |-> [i \in 0..N-1 |-> A[i][j]]]

\* tracegen validates B against the A that the function has left; misses are
\* collected only if B is right.
validate ==
  /\ job # NoJob /\ pc > Len(Traces[job]) /\ results.misses = -1
  /\ results' = IF mat.B = correctTrans(job.M, job.N, mat.A)
                THEN [correct |-> 1, misses |-> misses.miss]
                ELSE [correct |-> 0, misses |-> -2]
  /\ UNCHANGED <<vars, job, pc, mat, reg, lines, misses, clock, line>>

\* The alarm goes off after two minutes, and the summary is 0:0 wherever the
\* evaluation was.
sigalrm_handler ==
  /\ job # NoJob /\ pc = 1 /\ results.misses = -1
  /\ results' = [correct |-> 0, misses |-> 0]
  /\ UNCHANGED <<vars, job, pc, mat, reg, lines, misses, clock, line>>

LabInit == Init /\ TInit /\ (job # NoJob => cache[0].tag = 0)
Simulator == job = NoJob /\ Next /\ UNCHANGED <<job, tvars>>
LabNext == Simulator \/ Access \/ validate \/ sigalrm_handler

LabSpec == LabInit /\ [][LabNext]_allvars

-----------------------------------------------------------------------------
\* What trans.c records of its functions; three of the misses are references
\* outside of the function ("1475 = 3 + ...").
Recorded(j) ==
  CASE j.f = "transpose_submit" /\ j.N = 32 -> 287
    [] j.f = "transpose_submit" /\ j.N = 64 -> 1475
    [] j.f = "transpose_submit" /\ j.N = 67 -> 1992
    [] j.f = "blocksize_4_64_64" /\ j.N = 64 -> 1699
    [] OTHER -> 0

\* A function that test-trans calls correct has transposed the A it was given
\* and left it as it was, although tracegen compares B with what is in A
\* afterwards; a submission is rejected only for dimensions it leaves alone or
\* by the alarm; and on the sizes whose misses trans.c records the simulator
\* counts these misses (trans.c:51, :92, :149 and :254, tracegen.c:37).
Evaluated ==
  /\ results.correct = 1 =>
       /\ mat.A = initMatrix(job.M, job.N).A
       /\ mat.B = correctTrans(job.M, job.N, mat.A)
       /\ Recorded(job) # 0 => results.misses + 3 = Recorded(job)
  /\ results.misses = -2 => Traces[job] = <<>>

AllJobs ==
  {[f |-> "transpose_submit", M |-> d[1], N |-> d[2]] :
     d \in {<<8, 8>>, <<24, 24>>, <<32, 32>>, <<64, 64>>, <<61, 67>>, <<8, 16>>}}
  \cup {[f |-> "blocksize_4_64_64", M |-> 64, N |-> 64], [f |-> "trans", M |-> 5, N |-> 7]}
=============================================================================
