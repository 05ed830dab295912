------------------------------- MODULE Timing -------------------------------
(***************************************************************************)
(* fsecs.c and what it chooses from: how mdriver measures the time a       *)
(* function f takes.  gettod and itimer take the average of some runs of   *)
(* f, from gettimeofday and from the interval timer; fcyc and comp look    *)
(* for the kbest fastest of at most maxsamples runs, from the cycle        *)
(* counter of clock.c, without and with compensation for timer interrupts. *)
(*                                                                         *)
(* The unit of time is a cycle.  A stopwatch is a record: the operators    *)
(* map it to the stopwatches that may come next.                           *)
(***************************************************************************)
EXTENDS Integers, Sequences, FiniteSets, SequencesExt

CONSTANTS kbest, maxsamples,
          Epsilon,          \* 1 / epsilon
          Runs,             \* the 10 of fsecs
          Word,             \* values of an unsigned, half of the cycle counter
          Usec,             \* microseconds in a second
          Tick, Ticks,      \* cycles between timer interrupts; values of cyc_per_tick
          MAX_ETIME,
          Starts, Durations \* when a measurement may begin; what one run may take

ASSUME TimingAssumption ==
  /\ kbest \in 1..maxsamples /\ {Epsilon, Runs, Word, Usec, Tick} \subseteq Nat \ {0}
  /\ 0 \in Ticks /\ Starts \subseteq Nat /\ Durations \subseteq Nat /\ MAX_ETIME \in Nat

\* since, spent: history, when the run began and what each run has really taken.
Idle == [method |-> "none", now |-> 0, from |-> 0, tick |-> 0, cyc_per_tick |-> 0,
         values |-> <<>>, samplecount |-> 0, since |-> 0, spent |-> <<>>, result |-> <<>>]
Cycles(w) == w.method \in {"fcyc", "comp"}

-----------------------------------------------------------------------------
(* clock.c *)

access_counter(t) == [hi |-> (t \div Word) % Word, lo |-> t % Word]

get_counterNoBorrow(w) ==       \* mutant: nothing is borrowed from the high half
  LET n == access_counter(w.now)
  IN ((n.hi - w.from.hi) % Word) * Word + ((n.lo - w.from.lo) % Word)

\* The difference of two readings, by halves.
get_counter(w) ==
  LET n == access_counter(w.now)
      lo == (n.lo - w.from.lo) % Word
      borrow == IF lo > n.lo THEN 1 ELSE 0
      hi == (n.hi - w.from.hi - borrow) % Word
  IN hi * Word + lo

times(t) == t \div Tick

\* callibrate looks at events that took long enough to hold an interrupt and keeps
\* the shortest; it may find none to its liking, and is then called again.
callibrate(w) == IF w.cyc_per_tick = 0 THEN Ticks ELSE {w.cyc_per_tick}

start_counter(w) == [w EXCEPT !.from = access_counter(w.now), !.since = w.now]
start_comp_counter(w) ==
  {start_counter([w EXCEPT !.cyc_per_tick = c, !.tick = times(w.now)]) : c \in callibrate(w)}
get_comp_counter(w) == get_counter(w) - (times(w.now) - w.tick) * w.cyc_per_tick

-----------------------------------------------------------------------------
(* fcyc.c *)

add_sampleLast(w, val) ==       \* mutant: a sample that is not the best replaces the worst
  [w EXCEPT !.samplecount = @ + 1,
            !.values = SortSeq(IF Len(@) < kbest THEN Append(@, val) ELSE [@ EXCEPT ![kbest] = val],
                               LAMBDA x, y : x < y)]

\* values holds the kbest smallest samples in order.
add_sample(w, val) ==
  [w EXCEPT !.samplecount = @ + 1,
            !.values = SortSeq(CASE Len(@) < kbest  -> Append(@, val)
                                 [] val < @[kbest]  -> [@ EXCEPT ![kbest] = val]
                                 [] OTHER           -> @, LAMBDA x, y : x < y)]

has_converged(w) ==
  w.samplecount >= kbest /\ (Epsilon + 1) * w.values[1] >= Epsilon * w.values[kbest]

\* The cache is cleared, which takes time, and the counter started.
Sampling(w) ==
  LET clear == [w EXCEPT !.now = @ + 1]
  IN IF w.method = "comp" THEN start_comp_counter(clear) ELSE {start_counter(clear)}

fcyc(w) ==
  LET cyc == IF w.method = "comp" THEN get_comp_counter(w) ELSE get_counter(w)
      next == add_sample(w, cyc)
  IN IF has_converged(next) \/ next.samplecount >= maxsamples
     THEN {[next EXCEPT !.result = <<next.values[1]>>]}
     ELSE Sampling(next)

-----------------------------------------------------------------------------
(* ftimer.c: the sum of the runs, which is divided by their number *)

tv(t) == [sec |-> t \div Usec, usec |-> t % Usec]
gettimeofday(w) ==
  Usec * (tv(w.now).sec - w.from.sec) + (tv(w.now).usec - w.from.usec)

\* The timer counts down from MAX_ETIME, where init_etime has set it.
getitimer(w) == tv(MAX_ETIME - (w.now - w.since))
get_etime(w) ==
  Usec * (tv(MAX_ETIME).sec - getitimer(w).sec) + (tv(MAX_ETIME).usec - getitimer(w).usec)

ftimer(w) ==
  LET next == [w EXCEPT !.samplecount = @ + 1]
  IN IF next.samplecount < Runs THEN {next}
     ELSE {[next EXCEPT !.result = <<IF w.method = "itimer" THEN get_etime(w) - w.from
                                                            ELSE gettimeofday(w)>>]}

-----------------------------------------------------------------------------
(* fsecs.c: a measurement begins, and goes on after a run that took time d *)

fsecs(method, t) ==
  LET w == [Idle EXCEPT !.method = method, !.now = t, !.since = t]
  IN CASE method = "gettod" -> {[w EXCEPT !.from = tv(t)]}
       [] method = "itimer" -> {[w EXCEPT !.from = get_etime(w)]}
       [] OTHER             -> Sampling(w)      \* init_sampler

Ran(w, d) ==
  LET next == [w EXCEPT !.now = @ + d, !.spent = Append(@, d)]
  IN IF Cycles(w) THEN fcyc(next) ELSE ftimer(next)

Over(w) == w.result # <<>>

-----------------------------------------------------------------------------
Best(s) == SubSeq(SortSeq(s, LAMBDA x, y : x < y), 1, IF Len(s) < kbest THEN Len(s) ELSE kbest)
Agree(best) == Len(best) = kbest /\ (Epsilon + 1) * best[1] >= Epsilon * best[kbest]

\* Whatever the clock wraps or carries over: an average is of the time all the
\* runs took; the cycle counter's result is the shortest of them, there were no
\* more of them than it took for the kbest shortest to agree, and no fewer unless
\* it gave up.
Right(w) ==
  LET n == Len(w.spent)
  IN CASE w.method = "fcyc" ->
            /\ w.values = Best(w.spent)
            /\ \A k \in 1..n - 1 : ~Agree(Best(SubSeq(w.spent, 1, k)))
            /\ Over(w) <=> Agree(w.values) \/ n = maxsamples
            /\ Over(w) => w.result = <<w.values[1]>>
       [] w.method \in {"gettod", "itimer"} ->
            /\ Over(w) <=> n = Runs
            /\ Over(w) => w.result = <<FoldSeq(LAMBDA d, s : d + s, 0, w.spent)>>
       [] OTHER ->      \* a compensated sample may even be negative
            /\ w.samplecount = n /\ Len(w.values) = Len(Best(w.spent))
            /\ Over(w) <=> has_converged(w) \/ n = maxsamples
=============================================================================
