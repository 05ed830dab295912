------------------------------- MODULE Btest -------------------------------
(***************************************************************************)
(* btest.c of the data lab: for each puzzle of test_set (decl.c) it makes  *)
(* test values, runs the solution and the test function on them, and stops *)
(* at the first difference; SIGALRM ends a test that takes too long, by a  *)
(* jump to where the test began.  The solutions are those of bits.c, or    *)
(* those with one that is wrong or does not return.                        *)
(***************************************************************************)
EXTENDS DataLab, SequencesExt

CONSTANTS TEST_RANGE,
          timeout_limit,     \* -T, in ticks
          Slowness,          \* bound: ticks a test that returns may take
          Randoms,           \* what random_val may return
          Faulty,            \* puzzles whose solution may be wrong or loop
          Exponents, FracBits,   \* of the arguments a user may give
          None

ASSUME BtestAssumption ==
  /\ TEST_RANGE \in 1..2^23 /\ Randoms \subseteq Word
  /\ Slowness \in Nat /\ timeout_limit \in Nat /\ timeout_limit > 2 * Slowness
  /\ Exponents \subseteq 0..255 /\ FracBits \subseteq FracMask

VARIABLES phase,             \* options, start, gen, arm, run, next; done, exit, undefined
          test,              \* index in test_set
          test_fname, opts,  \* -f; the values given with -1 and not read yet
          argval,            \* value of -1, or None
          fault,             \* the solution that is not bits.c's
          vals, pos,         \* arg_test_vals; the combination that is next
          terrors, late,     \* errors by test; the tests that timed out
          points, max_points,
          alarm, spent       \* seconds to SIGALRM, 0 for none; spent in this test

testvars == <<phase, test, test_fname, opts, argval, fault, vals, pos, terrors, late,
          points, max_points, alarm, spent>>
command == <<test_fname, fault>>
score == <<points, max_points>>

-----------------------------------------------------------------------------
(* decl.c, and the functions by name *)

Puzzle(name, args, rating, float) ==
  [name |-> name, args |-> args, rating |-> rating, float |-> float]
test_set ==
  << Puzzle("bitXor", 2, 1, FALSE), Puzzle("tmin", 0, 1, FALSE), Puzzle("isTmax", 1, 2, FALSE),
     Puzzle("allOddBits", 1, 2, FALSE), Puzzle("negate", 1, 2, FALSE),
     Puzzle("isAsciiDigit", 1, 3, FALSE), Puzzle("conditional", 3, 3, FALSE),
     Puzzle("isLessOrEqual", 2, 3, FALSE), Puzzle("logicalNeg", 1, 4, FALSE),
     Puzzle("howManyBits", 1, 4, FALSE), Puzzle("float_twice", 1, 4, TRUE),
     Puzzle("float_i2f", 1, 4, TRUE), Puzzle("float_f2i", 1, 4, TRUE) >>

solution(name, a) ==
  CASE name = "bitXor" -> bitXor(a[1], a[2])
    [] name = "tmin" -> tmin
    [] name = "isTmax" -> isTmax(a[1])
    [] name = "allOddBits" -> allOddBits(a[1])
    [] name = "negate" -> negate(a[1])
    [] name = "isAsciiDigit" -> isAsciiDigit(a[1])
    [] name = "conditional" -> conditional(a[1], a[2], a[3])
    [] name = "isLessOrEqual" -> isLessOrEqual(a[1], a[2])
    [] name = "logicalNeg" -> logicalNeg(a[1])
    [] name = "howManyBits" -> howManyBits(a[1])
    [] name = "float_twice" -> float_twice(a[1])
    [] name = "float_i2f" -> float_i2f(a[1])
    [] name = "float_f2i" -> float_f2i(a[1])

reference(name, a) ==
  CASE name = "bitXor" -> test_bitXor(a[1], a[2])
    [] name = "tmin" -> test_tmin
    [] name = "isTmax" -> test_isTmax(a[1])
    [] name = "allOddBits" -> test_allOddBits(a[1])
    [] name = "negate" -> test_negate(a[1])
    [] name = "isAsciiDigit" -> test_isAsciiDigit(a[1])
    [] name = "conditional" -> test_conditional(a[1], a[2], a[3])
    [] name = "isLessOrEqual" -> test_isLessOrEqual(a[1], a[2])
    [] name = "logicalNeg" -> test_logicalNeg(a[1])
    [] name = "howManyBits" -> test_howManyBits(a[1])
    [] name = "float_twice" -> test_float_twice(a[1])
    [] name = "float_i2f" -> test_float_i2f(a[1])
    [] name = "float_f2i" -> test_float_f2i(a[1])

-----------------------------------------------------------------------------
(* gen_vals *)

FloatVals(i) ==
  LET smallest_norm == {23}
      one == 23..29
      largest_norm == TMax \ {23}
      n == Lit(i)
      Signed(w) == TMin \cup w
  IN << n, Signed(n),
        Plus(smallest_norm, n), Minus(smallest_norm, n),
        Signed(Plus(smallest_norm, n)), Signed(Minus(smallest_norm, n)),
        Plus(one, n), Minus(one, n), Signed(Plus(one, n)), Signed(Minus(one, n)),
        Minus(largest_norm, n), Signed(Minus(largest_norm, n)) >>
SpecialVals ==
  LET inf == ExpMask
      nan == 22..30
  IN <<inf, TMin \cup inf, nan, TMin \cup nan>>
IntVals(i, random) ==
  <<Plus(TMin, Lit(i)), Minus(TMax, Lit(i)), Lit(i), Neg(Lit(i)), random>>

gen_vals(float, range, random, arg) ==
  IF arg = 1 /\ argval # None THEN <<argval>>
  ELSE IF float THEN FlattenSeq([i \in 1..range |-> FloatVals(i - 1)]) \o SpecialVals
       ELSE FlattenSeq([i \in 1..range |-> IntVals(i - 1, random)])

\* The ranges keep the number of combinations near TEST_RANGE.
arg_test_range(args) == Max({k \in 1..TEST_RANGE : args <= 1 \/ k ^ args <= TEST_RANGE})

\* The combination of values with number n, the last argument the fastest.
Combinations == FoldSeq(LAMBDA v, n : n * Len(v), 1, vals)
Args(n) ==
  LET Faster(i) == FoldSeq(LAMBDA v, m : m * Len(v), 1, SubSeq(vals, i + 1, Len(vals)))
  IN [i \in DOMAIN vals |-> vals[i][1 + (((n - 1) \div Faster(i)) % Len(vals[i]))]]

-----------------------------------------------------------------------------
UserArgs ==
  {s \cup Shl(Lit(e), 23) \cup f : s \in {{}, TMin}, e \in Exponents,
     f \in UNION {kSubset(k, FracBits) : k \in 0..2}}
FloatPuzzles == {"float_twice", "float_i2f", "float_f2i"}
NoFault == [kind |-> None, name |-> None]

TestInit ==
  /\ phase = "options" /\ test = 1 /\ argval = None
  /\ \/ /\ test_fname = None /\ opts = <<>>
        /\ fault \in {NoFault} \cup [kind : {"wrong", "loops"}, name : Faulty]
     \/ /\ test_fname \in FloatPuzzles /\ fault = NoFault
        /\ opts \in {<<w>> : w \in UserArgs} \cup [1..2 -> {{}, {0}, Minus1}]
  /\ vals = <<>> /\ pos = 1
  /\ terrors = [p \in DOMAIN test_set |-> 0] /\ late = {}
  /\ points = 0 /\ max_points = 0 /\ alarm = 0 /\ spent = 0

\* main: get_num_val refuses a value if the argument already has one other
\* than zero ("!*valp").
Options ==
  /\ phase = "options"
  /\ IF opts = <<>> THEN phase' = "start" /\ UNCHANGED <<opts, argval>>
     ELSE IF argval \in {None, {}}
     THEN argval' = opts[1] /\ opts' = Tail(opts) /\ UNCHANGED phase
     ELSE phase' = "exit" /\ UNCHANGED <<opts, argval>>
  /\ UNCHANGED <<command, test, vals, pos, terrors, late, score, alarm, spent>>

\* run_tests: the next puzzle, if it is to be tested.
Begin ==
  /\ phase = "start"
  /\ IF test > Len(test_set) THEN phase' = "done" /\ UNCHANGED test
     ELSE IF test_fname \in {None, test_set[test].name} THEN phase' = "gen" /\ UNCHANGED test
     ELSE test' = test + 1 /\ UNCHANGED phase
  /\ spent' = 0
  /\ UNCHANGED <<command, opts, argval, vals, pos, terrors, late, score, alarm>>

Generate ==
  LET p == test_set[test]
      range == arg_test_range(p.args)
  IN /\ phase = "gen"
     /\ \E random \in Randoms :
          vals' = [i \in 1..p.args |-> gen_vals(p.float, range, random, i)]
     /\ pos' = 1 /\ phase' = "arm"
     /\ UNCHANGED <<command, test, opts, argval, terrors, late, score, alarm, spent>>

ArmNever ==                                \* mutant: no alarm is set
  /\ phase = "arm" /\ phase' = "run"
  /\ UNCHANGED <<command, test, opts, argval, vals, pos, terrors, late, score, alarm, spent>>

ArmOnce ==                                 \* mutant: an alarm that is pending is kept
  /\ phase = "arm"
  /\ alarm' = IF alarm = 0 THEN timeout_limit ELSE alarm
  /\ phase' = "run"
  /\ UNCHANGED <<command, test, opts, argval, vals, pos, terrors, late, score, spent>>

\* sigsetjmp has been called: alarm.
Arm ==
  /\ phase = "arm"
  /\ alarm' = timeout_limit /\ phase' = "run"
  /\ UNCHANGED <<command, test, opts, argval, vals, pos, terrors, late, score, spent>>

Loops == fault.kind = "loops" /\ fault.name = test_set[test].name
Wrong(a) == fault.kind = "wrong" /\ fault.name = test_set[test].name /\ a # <<>> /\ Sign \in a[1]
Differs(a) == Wrong(a) \/ solution(test_set[test].name, a) # reference(test_set[test].name, a)

\* One call of test_0_arg .. test_3_arg; the first error ends the test.
Try ==
  LET error == Differs(Args(pos))
  IN /\ phase = "run" /\ ~Loops
     /\ terrors' = [terrors EXCEPT ![test] = IF error THEN @ + 1 ELSE @]
     /\ IF error \/ pos = Combinations THEN phase' = "next" /\ UNCHANGED pos
        ELSE pos' = pos + 1 /\ UNCHANGED phase
     /\ UNCHANGED <<command, test, opts, argval, vals, late, score, alarm, spent>>

ScoreAny ==                                \* mutant: errors do not cost the rating
  /\ phase = "next"
  /\ points' = points + test_set[test].rating
  /\ max_points' = max_points + test_set[test].rating
  /\ test' = test + 1 /\ phase' = "start" /\ vals' = <<>>
  /\ UNCHANGED <<command, opts, argval, pos, terrors, late, alarm, spent>>

Score ==
  LET rating == test_set[test].rating
  IN /\ phase = "next"
     /\ points' = IF terrors[test] = 0 THEN points + rating ELSE points
     /\ max_points' = max_points + rating
     /\ test' = test + 1 /\ phase' = "start" /\ vals' = <<>>
     /\ UNCHANGED <<command, opts, argval, pos, terrors, late, alarm, spent>>

\* A second passes; at the end of the last one timeout_handler jumps to where
\* the last sigsetjmp was, in a frame that may be gone.
Second ==
  /\ alarm > 0 /\ phase \in {"start", "gen", "arm", "run", "next"}
  /\ test <= Len(test_set)
  /\ (Loops /\ phase = "run") \/ spent < Slowness
  /\ alarm' = alarm - 1
  /\ spent' = Min({spent + 1, Slowness})
  /\ IF alarm > 1 THEN UNCHANGED <<phase, terrors, late>>
     ELSE IF phase \in {"arm", "run"}
     THEN /\ phase' = "next" /\ late' = late \cup {test}
          /\ terrors' = [terrors EXCEPT ![test] = 1]
     ELSE phase' = "undefined" /\ UNCHANGED <<terrors, late>>
  /\ UNCHANGED <<command, test, opts, argval, vals, pos, score>>

Work == Options \/ Begin \/ Generate \/ Arm \/ Try \/ Score
TestNext == Work \/ Second

\* Time passes, and btest runs: weak fairness of Work, which is enabled unless
\* Resting, written out because a comparison is too slow within ENABLED.
Resting == phase \in {"done", "exit", "undefined"} \/ (phase = "run" /\ Loops)
Advances == <<phase, test, pos, opts>>' # <<phase, test, pos, opts>>
TestSpec == TestInit /\ [][TestNext]_testvars /\ WF_testvars(Second) /\ ([]<>Resting \/ []<><<Advances>>_testvars)

-----------------------------------------------------------------------------
(* Properties *)

\* The arguments on which a solution differs from tests.c: float_f2i has lost a bit
\* left of the point (fracMask, bits.c:530), float_i2f rounds a tie of a 25-bit number
\* up to an odd one (bits.c:487).
Tie25(m) == Max({0} \cup m) = 24 /\ 0 \in m /\ 1 \notin m
Deviates(name, a) ==
  \/ /\ name = "float_f2i" /\ Exponent(a[1]) \in 0..30
     /\ \E b \in a[1] \cap Lost : b >= 23 - Exponent(a[1])
  \/ name = "float_i2f" /\ Tie25(IF Sign \in a[1] THEN Neg(a[1]) ELSE a[1])

\* The solutions agree with tests.c but for these; and with arguments of its own
\* choice btest finds fault with no solution of bits.c and with every other one: the
\* points are those of the right ones.
Agreement ==
  /\ phase = "run" =>
       LET a == Args(pos)
           name == test_set[test].name
       IN (solution(name, a) = reference(name, a)) <=> ~Deviates(name, a)
  /\ phase = "done" /\ argval = None =>
       points = FoldSeq(LAMBDA p, n : IF p.name = fault.name THEN n ELSE n + p.rating, 0, test_set)

\* As long as each test takes less than half the limit, only a solution that
\* does not return is ever timed out, and the handler always finds its frame.
Blame ==
  /\ phase # "undefined"
  /\ \A t \in late : fault.kind = "loops" /\ test_set[t].name = fault.name

\* btest ends, whatever a solution does.
Terminates == <>(phase \in {"done", "exit"})
=============================================================================
