--------------------------- MODULE MdriverProofs ---------------------------
(***************************************************************************)
(* Theorems about mdriver.                                                 *)
(***************************************************************************)
EXTENDS Mdriver, Induction, SequenceTheorems

B == INSTANCE BlockHeapProofs
       WITH Overhead <- 2, MinBlock <- 4, Limit <- MaxHeap, FirstFit <- FALSE,
            h <- heap, rover <- 2, list <- <<>>, BEST_FIT <- FALSE

-----------------------------------------------------------------------------
(***************************************************************************)
(* The list of ranges, for any package, whatever it returns.               *)
(***************************************************************************)
Payloads == {r \in [lo : Int, hi : Int] : r.lo <= r.hi}

\* Two payloads in the list, r the newer one: apart, or r around t.
Apart(r, t) ==
  \/ r.hi < t.lo \/ t.hi < r.lo
  \/ r.lo < t.lo /\ t.hi < r.hi
Nested(list) == \A i, j \in 1..Len(list) : i < j => Apart(list[i], list[j])

RangesInv == ranges \in Seq(Payloads) /\ Nested(ranges)

\* What remove_range leaves of a list is as nested as the list.
LEMMA RangesRemoved ==
  ASSUME NEW list \in Seq(Payloads), Nested(list), NEW lo
  PROVE  remove_range(list, lo) \in Seq(Payloads) /\ Nested(remove_range(list, lo))
<1> DEFINE hits == {k \in DOMAIN list : list[k].lo = lo}
           i == Min(hits)
           r == RemoveAt(list, i)
<1>1. CASE hits = {}
  BY <1>1 DEF remove_range
<1>2. CASE hits # {}
  <2>1. hits \in SUBSET Nat /\ hits \subseteq 1..Len(list)
    OBVIOUS
  <2>2. i \in hits
    BY <1>2, <2>1, MinNat
  <2>3. i \in 1..Len(list)
    BY <2>1, <2>2
  <2>4. remove_range(list, lo) = r
    BY <1>2 DEF remove_range
  <2> HIDE DEF i, hits
  <2>5. /\ r \in Seq(Payloads) /\ Len(r) = Len(list) - 1
        /\ \A k \in 1..Len(r) : r[k] = IF k < i THEN list[k] ELSE list[k + 1]
    <3>1. list \in Seq(Payloads) /\ i \in 1..Len(list)
      BY <2>3
    <3>2. r = B!RemoveAt(list, i)
      BY DEF RemoveAt, B!RemoveAt
    <3> QED BY <3>1, <3>2, B!RemoveAtIs
  <2> HIDE DEF r
  <2>6. ASSUME NEW k \in 1..Len(r), NEW j \in 1..Len(r), k < j PROVE Apart(r[k], r[j])
    <3>1. PICK n \in Nat : n = Len(list)
      OBVIOUS
    <3>2. PICK c \in 1..n : r[k] = list[c] /\ (k < i => c = k) /\ (~(k < i) => c = k + 1)
      <4>1. k \in 1..n /\ k + 1 \in 1..n
        BY <2>5, <3>1
      <4>2. r[k] = IF k < i THEN list[k] ELSE list[k + 1]
        BY <2>5
      <4> QED BY <4>1, <4>2
    <3>3. PICK d \in 1..n : r[j] = list[d] /\ (j < i => d = j) /\ (~(j < i) => d = j + 1)
      <4>1. j \in 1..n /\ j + 1 \in 1..n
        BY <2>5, <3>1
      <4>2. r[j] = IF j < i THEN list[j] ELSE list[j + 1]
        BY <2>5
      <4> QED BY <4>1, <4>2
    <3>4. c < d
      BY <2>3, <2>6, <3>1, <3>2, <3>3
    <3> QED BY <3>1, <3>2, <3>3, <3>4 DEF Nested
  <2>7. Nested(r)
    BY <2>6 DEF Nested
  <2> QED BY <2>4, <2>5, <2>7
<1> QED BY <1>1, <1>2

\* A payload add_range accepts goes in front.
LEMMA RangesAdded ==
  ASSUME NEW s, NEW list \in Seq(Payloads), Nested(list), NEW lo, NEW n \in Nat \ {0},
         add_range(s, list, lo, lo + n - 1)
  PROVE  LET new == <<[lo |-> lo, hi |-> lo + n - 1]>> \o list
         IN new \in Seq(Payloads) /\ Nested(new)
<1> DEFINE r == [lo |-> lo, hi |-> lo + n - 1]
           new == <<r>> \o list
<1>1. lo \in Int
  BY DEF add_range
<1>2. r \in Payloads /\ r.lo = lo /\ r.hi = lo + n - 1
  BY <1>1 DEF Payloads
<1>3. ASSUME NEW k \in 1..Len(list) PROVE Apart(r, list[k])
  <2>1. list[k] \in Payloads
    OBVIOUS
  <2>2. PICK t \in Payloads : t = list[k]
    BY <2>1
  <2>3. ~(t.lo <= lo /\ lo <= t.hi) /\ ~(t.lo <= r.hi /\ r.hi <= t.hi)
    BY <1>2, <2>2 DEF add_range
  <2>4. t.lo \in Int /\ t.hi \in Int /\ t.lo <= t.hi /\ r.lo <= r.hi /\ r.hi \in Int
    BY <1>1, <1>2 DEF Payloads
  <2>5. Apart(r, t)
    BY <1>1, <1>2, <2>3, <2>4 DEF Apart
  <2> QED BY <2>2, <2>5
<1> HIDE DEF r
<1>4. /\ new \in Seq(Payloads) /\ Len(new) = Len(list) + 1
      /\ new[1] = r /\ \A k \in 2..Len(list) + 1 : new[k] = list[k - 1]
  <2>1. <<r>> \in Seq(Payloads) /\ Len(<<r>>) = 1 /\ <<r>>[1] = r
    BY <1>2
  <2>2. /\ new \in Seq(Payloads) /\ Len(new) = 1 + Len(list)
        /\ \A k \in 1..1 + Len(list) : new[k] = IF k <= 1 THEN <<r>>[k] ELSE list[k - 1]
    BY <2>1, ConcatProperties
  <2> QED BY <2>1, <2>2
<1> HIDE DEF new
<1>5. ASSUME NEW k \in 1..Len(new), NEW j \in 1..Len(new), k < j PROVE Apart(new[k], new[j])
  <2>1. j \in 2..Len(list) + 1 /\ new[j] = list[j - 1] /\ j - 1 \in 1..Len(list)
    BY <1>4, <1>5
  <2>2. CASE k = 1
    BY <1>3, <1>4, <2>1, <2>2
  <2>3. CASE k # 1
    <3>1. k \in 2..Len(list) + 1 /\ new[k] = list[k - 1] /\ k - 1 \in 1..Len(list) /\ k - 1 < j - 1
      BY <1>4, <1>5, <2>1, <2>3
    <3> QED BY <2>1, <3>1 DEF Nested
  <2> QED BY <2>2, <2>3
<1>6. Nested(new)
  BY <1>5 DEF Nested
<1> QED BY <1>4, <1>6 DEF new, r

LEMMA RangesGet ==
  ASSUME RangesInv, NEW op, op.size \in Sizes, Get(op)
  PROVE  RangesInv'
<1>1. PICK s \in Call(op) :
        LET lo == s.bp
            hi == lo + op.size - 1
            rest == IF op.type = "r" THEN remove_range(ranges, blocks[op.index]) ELSE ranges
            accepted == lo # NULL /\ add_range(s, rest, lo, hi)
        IN ranges' = CASE lo = NULL -> ranges
                       [] accepted  -> <<[lo |-> lo, hi |-> hi]>> \o rest
                       [] OTHER     -> rest
  BY DEF Get
<1> DEFINE lo == s.bp
           rest == IF op.type = "r" THEN remove_range(ranges, blocks[op.index]) ELSE ranges
           new == <<[lo |-> lo, hi |-> lo + op.size - 1]>> \o rest
<1>2. rest \in Seq(Payloads) /\ Nested(rest)
  BY RangesRemoved DEF RangesInv
<1>3. \/ ranges' = ranges \/ ranges' = rest
      \/ ranges' = new /\ add_range(s, rest, lo, lo + op.size - 1)
  <2>1. CASE lo = NULL
    BY <1>1, <2>1, Zenon
  <2>2. CASE lo # NULL /\ add_range(s, rest, lo, lo + op.size - 1)
    BY <1>1, <2>2, Zenon
  <2>3. CASE lo # NULL /\ ~add_range(s, rest, lo, lo + op.size - 1)
    BY <1>1, <2>3, Zenon
  <2> QED BY <2>1, <2>2, <2>3
<1>4. op.size \in Nat \ {0}
  BY MdriverAssumption
<1> HIDE DEF rest, lo
<1>5. CASE ranges' = new /\ add_range(s, rest, lo, lo + op.size - 1)
  BY <1>2, <1>4, <1>5, RangesAdded DEF RangesInv
<1> QED BY <1>2, <1>3, <1>5 DEF RangesInv

LEMMA RangesStep == RangesInv /\ [Next]_vars => RangesInv'
<1> SUFFICES ASSUME RangesInv, [Next]_vars PROVE RangesInv'
  OBVIOUS
<1>1. CASE StartTrace
  <2>1. ranges' = <<>>
    BY <1>1 DEF StartTrace, clear_ranges
  <2> QED BY <2>1 DEF RangesInv, Nested
<1>2. CASE Eval
  <2>1. PICK op \in Requests :
          \/ op.type = "f" /\ Free(op)
          \/ op.type # "f" /\ Libc /\ LibcGet(op)
          \/ op.type # "f" /\ ~Libc /\ Get(op)
    BY <1>2 DEF Eval
  <2>2. CASE op.type = "f"
    <3>1. Free(op)
      BY <2>1, <2>2, Zenon
    <3>2. ranges' = remove_range(ranges, blocks[op.index])
      BY <3>1 DEF Free
    <3> QED BY <3>2, RangesRemoved DEF RangesInv
  <2>3. CASE op.type # "f" /\ Libc
    <3>1. LibcGet(op)
      BY <2>1, <2>3, Zenon
    <3>2. ranges' = ranges
      BY <3>1 DEF LibcGet
    <3> QED BY <3>2 DEF RangesInv
  <2>4. CASE op.type # "f" /\ ~Libc
    <3>1. Get(op)
      BY <2>1, <2>4, Zenon
    <3>2. op.size \in Sizes
      BY <2>4 DEF Requests, Op
    <3> QED BY <3>1, <3>2, RangesGet
  <2> QED BY <2>2, <2>3, <2>4
<1>3. CASE Judged \/ Replay \/ LibcReplay \/ Utilized \/ Timed \/ NextTrace \/ UNCHANGED vars
  <2>1. ranges' = ranges
    BY <1>3 DEF Judged, Replay, LibcReplay, Utilized, Timed, NextTrace, vars, judged
  <2> QED BY <2>1 DEF RangesInv
<1> QED BY <1>1, <1>2, <1>3 DEF Next

\* As long as no error was reported, payloads overlap only one around the
\* other: add_range looks at the ends of the new payload alone
\* (implicit mdriver.c:393).  Whatever the package returns.
THEOREM RangesNest == Spec => []OverlapsOnlyAround
<1>1. Init => RangesInv
  BY DEF Init, RangesInv, Nested
<1>2. RangesInv => OverlapsOnlyAround
  <2> SUFFICES ASSUME RangesInv, NEW i \in DOMAIN ranges, NEW j \in DOMAIN ranges, i < j
               PROVE  \/ ranges[i].hi < ranges[j].lo \/ ranges[j].hi < ranges[i].lo
                      \/ ranges[i].lo < ranges[j].lo /\ ranges[j].hi < ranges[i].hi
    BY DEF OverlapsOnlyAround
  <2>1. DOMAIN ranges = 1..Len(ranges)
    BY DEF RangesInv
  <2> QED BY <2>1 DEF RangesInv, Nested, Apart
<1> QED BY <1>1, <1>2, RangesStep, PTL DEF Spec

-----------------------------------------------------------------------------
(***************************************************************************)
(* What main adds up.                                                      *)
(***************************************************************************)
Correct(v) == {i \in 1..Len(v) : v[i]}

TracesInv ==
  /\ valid \in Seq(BOOLEAN) /\ errors \in Nat /\ tracenum \in Nat
  /\ phase # "abort" => errors + Cardinality(Correct(valid)) = Len(valid)
  /\ phase \in {"load", "valid"} => Len(valid) = tracenum - 1
  /\ phase \in {"util", "speed", "next"} => Len(valid) = tracenum
  /\ phase = "done" => Len(valid) = NumTraces
  /\ phase \in {"load", "valid", "util", "speed", "next", "done", "abort"}

\* One more trace in stats_t, and whether it was valid.
LEMMA OneMore ==
  ASSUME NEW v \in Seq(BOOLEAN), NEW b \in BOOLEAN
  PROVE  /\ Append(v, b) \in Seq(BOOLEAN) /\ Len(Append(v, b)) = Len(v) + 1
         /\ Cardinality(Correct(v)) \in Nat
         /\ Cardinality(Correct(Append(v, b))) = Cardinality(Correct(v)) + IF b THEN 1 ELSE 0
<1> DEFINE n == Len(v)
           w == Append(v, b)
<1>1. /\ n \in Nat /\ w \in Seq(BOOLEAN) /\ Len(w) = n + 1 /\ w[n + 1] = b
      /\ \A i \in 1..n : w[i] = v[i]
  OBVIOUS
<1>2. IsFiniteSet(Correct(v)) /\ n + 1 \notin Correct(v)
  <2>1. IsFiniteSet(1..n) /\ Correct(v) \subseteq 1..n
    BY <1>1, FS_Interval DEF Correct
  <2> QED BY <1>1, <2>1, FS_Subset
<1>3. Correct(w) = IF b THEN Correct(v) \cup {n + 1} ELSE Correct(v)
  <2> HIDE DEF w, n
  <2>1. ASSUME NEW i PROVE i \in Correct(w) <=> i \in Correct(v) \/ (b /\ i = n + 1)
    <3>1. i \in 1..n + 1 <=> i \in 1..n \/ i = n + 1
      BY <1>1
    <3>2. i \in Correct(v) <=> i \in 1..n /\ v[i]
      BY DEF Correct, n
    <3>3. i \in Correct(w) <=> i \in 1..n + 1 /\ w[i]
      BY <1>1 DEF Correct
    <3>4. n + 1 \notin 1..n
      BY <1>1
    <3> QED BY <1>1, <3>1, <3>2, <3>3, <3>4
  <2> QED BY <2>1
<1> HIDE DEF w, n
<1>4. Cardinality(Correct(v)) \in Nat
  BY <1>2, FS_CardinalityType
<1>5. Cardinality(Correct(v) \cup {n + 1}) = Cardinality(Correct(v)) + 1
  BY <1>2, FS_AddElement
<1> QED BY <1>1, <1>3, <1>4, <1>5 DEF w, n

LEMMA TracesAppend ==
  ASSUME TracesInv, phase \in {"load", "valid"}, NEW b \in BOOLEAN,
         valid' = Append(valid, b), errors' = errors + (IF b THEN 0 ELSE 1),
         tracenum' = tracenum,
         phase' \in {"abort", "util", "speed", "next"}
  PROVE  TracesInv'
<1>1. /\ Append(valid, b) \in Seq(BOOLEAN) /\ Len(Append(valid, b)) = Len(valid) + 1
      /\ Cardinality(Correct(valid)) \in Nat
      /\ Cardinality(Correct(Append(valid, b))) = Cardinality(Correct(valid)) + IF b THEN 1 ELSE 0
  BY OneMore DEF TracesInv
<1>2. PICK c \in Nat, n \in Nat, e \in Nat, t \in Nat :
        /\ c = Cardinality(Correct(valid)) /\ n = Len(valid) /\ e = errors /\ t = tracenum
  BY <1>1 DEF TracesInv
<1>3. e + c = n /\ n = t - 1
  BY <1>2 DEF TracesInv
<1>4. valid' \in Seq(BOOLEAN) /\ errors' \in Nat /\ tracenum' \in Nat
  BY <1>1, <1>2
<1>5. Len(valid') = n + 1 /\ Cardinality(Correct(valid')) = c + IF b THEN 1 ELSE 0
  BY <1>1, <1>2
<1>6. errors' + Cardinality(Correct(valid')) = Len(valid')
  BY <1>2, <1>3, <1>5
<1>7. Len(valid') = tracenum'
  BY <1>2, <1>3, <1>5
<1> QED BY <1>4, <1>6, <1>7 DEF TracesInv

LEMMA TracesInvalid ==
  ASSUME TracesInv, phase \in {"load", "valid"}, Invalid, tracenum' = tracenum
  PROVE  TracesInv'
  BY TracesAppend DEF Invalid, malloc_error, TracesInv

LEMMA TracesSame ==
  ASSUME TracesInv, UNCHANGED <<valid, errors, tracenum>>,
         \/ phase' = phase \/ phase' = "abort" \/ (phase = "load" /\ phase' = "valid")
         \/ (phase = "util" /\ phase' = "speed") \/ (phase = "speed" /\ phase' = "next")
  PROVE  TracesInv'
  BY DEF TracesInv

LEMMA TracesStep == TracesInv /\ [Next]_vars => TracesInv'
<1> SUFFICES ASSUME TracesInv, [Next]_vars PROVE TracesInv'
  OBVIOUS
<1>1. CASE StartTrace
  <2>1. phase = "load" /\ tracenum' = tracenum
    BY <1>1 DEF StartTrace
  <2>2. Invalid \/ (phase' = "valid" /\ UNCHANGED <<errors, valid>>)
    BY <1>1 DEF StartTrace
  <2> QED BY <2>1, <2>2, TracesInvalid, TracesSame
<1>2. CASE Eval
  <2>1. PICK op \in Requests :
          \/ op.type = "f" /\ Free(op)
          \/ op.type # "f" /\ Libc /\ LibcGet(op)
          \/ op.type # "f" /\ ~Libc /\ Get(op)
    BY <1>2 DEF Eval
  <2>2. phase = "valid" /\ tracenum' = tracenum
    BY <1>2 DEF Eval
  <2>3. CASE Free(op)
    <3>1. UNCHANGED <<phase, errors, valid>>
      BY <2>3 DEF Free
    <3> QED BY <2>2, <3>1, TracesSame
  <2>4. CASE LibcGet(op)
    <3>1. valid' = valid /\ ((phase' = "abort" /\ errors' = errors + 1) \/ UNCHANGED <<phase, errors>>)
      BY <2>4 DEF LibcGet, malloc_error
    <3> QED BY <2>2, <3>1 DEF TracesInv
  <2>5. CASE Get(op)
    <3>1. Invalid \/ UNCHANGED <<phase, errors, valid>>
      BY <2>5 DEF Get
    <3> QED BY <2>2, <3>1, TracesInvalid, TracesSame
  <2> QED BY <2>1, <2>3, <2>4, <2>5
<1>3. CASE Judged
  <2>1. phase = "valid" /\ valid' = Append(valid, TRUE) /\ UNCHANGED <<errors, tracenum>>
    BY <1>3 DEF Judged
  <2>2. phase' \in {"speed", "util", "abort"}
    BY <1>3 DEF Judged, Started
  <2>3. errors' = errors + (IF TRUE THEN 0 ELSE 1)
    BY <2>1 DEF TracesInv
  <2> QED BY <2>1, <2>2, <2>3, TracesAppend
<1>4. CASE Replay \/ LibcReplay \/ Utilized \/ Timed \/ UNCHANGED vars
  <2>1. UNCHANGED <<valid, errors, tracenum>>
    BY <1>4 DEF Replay, LibcReplay, Utilized, Timed, vars, judged
  <2>2. \/ phase' = phase \/ phase' = "abort"
        \/ (phase = "util" /\ phase' = "speed") \/ (phase = "speed" /\ phase' = "next")
    <3>1. CASE Replay \/ LibcReplay
      <4>1. PICK op : phase' = IF op.type # "f" /\ heap'.bp = NULL THEN "abort" ELSE phase
        BY <3>1 DEF Replay, LibcReplay
      <4> QED BY <4>1
    <3>2. CASE Utilized
      BY <3>2 DEF Utilized, Started
    <3>3. CASE Timed
      BY <3>3 DEF Timed, Started
    <3> QED BY <1>4, <3>1, <3>2, <3>3 DEF vars
  <2> QED BY <2>1, <2>2, TracesSame
<1>5. CASE NextTrace
  <2>1. /\ phase = "next" /\ tracenum' = tracenum + 1 /\ UNCHANGED <<errors, valid>>
        /\ phase' = IF tracenum = NumTraces THEN "done" ELSE "load"
    BY <1>5 DEF NextTrace, judged
  <2> QED BY <2>1 DEF TracesInv
<1> QED BY <1>1, <1>2, <1>3, <1>4, <1>5 DEF Next

\* "Terminated with k errors" is said of k traces that are not correct: every
\* error ends its trace, and is the only one of it (implicit mdriver.c:343).
THEOREM ErrorsAreTraces == Spec => []TracesCounted
<1>1. Init => TracesInv
  <2>1. Correct(<<>>) = {} /\ <<>> \in Seq(BOOLEAN) /\ Len(<<>>) = 0
    BY DEF Correct
  <2>2. Cardinality(Correct(<<>>)) = 0
    BY <2>1, FS_EmptySet
  <2> QED BY <2>1, <2>2 DEF Init, TracesInv
<1>2. TracesInv => TracesCounted
  <2>1. TracesInv => Correct(valid) = {i \in DOMAIN valid : valid[i]}
    BY DEF TracesInv, Correct
  <2> QED BY <2>1 DEF TracesInv, TracesCounted, numcorrect
<1> QED BY <1>1, <1>2, TracesStep, PTL DEF Spec
=============================================================================
