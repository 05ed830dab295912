------------------------------ MODULE Mdriver ------------------------------
(***************************************************************************)
(* mdriver.c of the malloc labs: the driver replays traces of requests on  *)
(* an allocator, once to judge it (eval_mm_valid, which keeps a list of    *)
(* the payloads and marks their words), once to measure how much of the    *)
(* heap it uses (eval_mm_util) and several times against the clock         *)
(* (eval_mm_speed).  The allocator is the implicit list searched by next   *)
(* or first fit, the explicit list searched by best fit or as a list, or a *)
(* package that returns anything at all; or it is that of libc, which -l   *)
(* has main judge and time first (eval_libc_valid, eval_libc_speed).       *)
(* A trace is chosen while its first pass runs: no pass looks ahead.       *)
(***************************************************************************)
EXTENDS ImplicitMalloc, Timing

CONSTANTS Ids,          \* indices of a trace
          Sizes,        \* request sizes, in words
          MaxOps,       \* bound: requests in all the traces together
          NumTraces,
          Packages,     \* subset of {"next", "first", "best", "list", "any", "libc"}
          Endless,      \* those whose trace may have no end
          AnyHeap,      \* the heap of package "any", in words
          AnyOps,       \* and the bound on its requests
          LibcOps,      \* and on those of libc
          Methods,      \* how libc is timed; mm.c is timed as config.h says
          ExplicitHeap, ExplicitChunk,   \* MAX_HEAP and CHUNKSIZE of the explicit list,
          ListHeap, ListChunk            \* and of its other build

ASSUME MdriverAssumption ==
  /\ Ids \subseteq Nat /\ Sizes \subseteq Nat \ {0} /\ AnyHeap \in 1..MaxHeap
  /\ ExplicitChunk >= 6 /\ ExplicitHeap >= ExplicitChunk + 6
  /\ ListChunk >= 6 /\ ListHeap >= ListChunk + 6

X == INSTANCE ExplicitMalloc
       WITH MaxHeap <- ExplicitHeap, CHUNKSIZE <- ExplicitChunk, BEST_FIT <- TRUE
L == INSTANCE ExplicitMalloc
       WITH MaxHeap <- ListHeap, CHUNKSIZE <- ListChunk, BEST_FIT <- FALSE

VARIABLES package,               \* which allocator is linked in
          phase,                 \* load, valid, util, speed, next, done, abort
          tracenum, trace, opnum,
          watch,                 \* the measurement of fsecs
          left,                  \* requests the traces to come may still have
          endless,               \* the trace is too long to be replayed, or to end
          live,                  \* the indices whose block is allocated
          heap, blocks, block_sizes,
          ranges,                \* payloads, the newest first
          errors, valid,         \* malloc_error's counter; stats_t.valid by trace
          total_size, max_total_size

vars == <<package, phase, tracenum, trace, opnum, watch, left, endless, live,
          heap, blocks, block_sizes, ranges, errors, valid, total_size, max_total_size>>
judged == <<ranges, errors, valid>>
sums == <<total_size, max_total_size>>

Real == package \notin {"any", "libc"}
Libc == package = "libc"
Explicit == package \in {"best", "list"}
nextfit == package = "next"
Op(type, index, size) == [type |-> type, index |-> index, size |-> size]

Span(lo, n) == lo..lo + n - 1
Extent(x) == Span(blocks[x], block_sizes[x])

-----------------------------------------------------------------------------
(* The calls: the heaps a request may lead to *)

\* A package may return any pointer and move the data, or not; after the first
\* pass, and of libc, the driver only looks whether the pointer is NULL.
Anything(x, size) ==
  LET count == Min({size, block_sizes[x]})
      moved(p) == [a \in DOMAIN heap.mem |->
                    IF a \in Span(p, count) THEN heap.mem[a - p + blocks[x]] ELSE heap.mem[a]]
  IN IF phase # "valid" \/ Libc THEN {[heap EXCEPT !.bp = p] : p \in {NULL, IF Libc THEN 1 ELSE blocks[x]}}
     ELSE {[heap EXCEPT !.bp = p] : p \in 0..AnyHeap}
          \cup {[heap EXCEPT !.bp = p, !.mem = moved(p)] : p \in {q \in 1..AnyHeap : x \in live}}

Call(op) ==
  LET bp == blocks[op.index]
  IN IF ~Real THEN IF op.type = "f" THEN {heap} ELSE Anything(op.index, op.size)
     ELSE IF Explicit
     THEN {CASE op.type = "f" -> X!mm_free(heap, bp)
             [] package = "best" /\ op.type = "a" -> X!mm_malloc(heap, op.size)
             [] package = "best" /\ op.type = "r" -> X!mm_realloc(heap, bp, op.size)
             [] package = "list" /\ op.type = "a" -> L!mm_malloc(heap, op.size)
             [] package = "list" /\ op.type = "r" -> L!mm_realloc(heap, bp, op.size)}
     ELSE {CASE op.type = "a" -> mm_malloc(heap, nextfit, op.size)
             [] op.type = "r" -> mm_realloc(heap, nextfit, bp, op.size)
             [] op.type = "f" -> mm_free(heap, nextfit, bp)}

\* mem_reset_brk and mm_init, at the start of every pass.
NewHeap ==
  LET empty == mem_reset_brk(heap)
  IN CASE package = "best" -> X!mm_init(empty)
       [] package = "list" -> L!mm_init(empty)
       [] Libc             -> [heap EXCEPT !.bp = 1]
       [] package = "any"  -> [empty EXCEPT !.brk = AnyHeap, !.bp = 1]
       [] OTHER            -> mm_init(empty, nextfit)

\* Words that are neither a tag, nor a link of a free block, nor payload hold
\* anything; as under a debugging allocator they are overwritten.
Poison(s, owners, bps, sizes) ==
  LET used(b) == IF Explicit
                 THEN {X!HDRP(b), X!FTRP(s.mem, b)} \cup
                      IF X!GET_ALLOC(s.mem, X!HDRP(b)) = 0 THEN {X!NEXTP(b), X!PREVP(b)} ELSE {}
                 ELSE {HDRP(b), FTRP(s.mem, b)}
      bs == IF Explicit THEN X!Blocks(s) ELSE HeapBlocks(s)
      kept == 0..5 \cup {s.brk - 1} \cup UNION {used(b) : b \in bs}
              \cup UNION {Span(bps[x], sizes[x]) : x \in owners}
  IN IF ~Real THEN s ELSE [s EXCEPT !.mem = [a \in DOMAIN @ |-> IF a \in kept THEN @[a] ELSE Junk]]

-----------------------------------------------------------------------------
(* The range list *)

add_rangeOneEnd(s, list, lo, hi) ==          \* mutant: hi is not compared
  /\ lo % DSIZE = 0 /\ {lo, hi} \subseteq 0..s.brk - 1
  /\ \A k \in DOMAIN list : ~(list[k].lo <= lo /\ lo <= list[k].hi)

\* add_range accepts a payload of heap s: aligned, inside the heap, and neither
\* end of it inside another payload.
add_range(s, list, lo, hi) ==
  /\ lo % DSIZE = 0 /\ {lo, hi} \subseteq 0..s.brk - 1
  /\ \A k \in DOMAIN list : /\ ~(list[k].lo <= lo /\ lo <= list[k].hi)
                            /\ ~(list[k].lo <= hi /\ hi <= list[k].hi)

\* The first record that starts at lo goes.
remove_range(list, lo) ==
  LET hits == {k \in DOMAIN list : list[k].lo = lo}
  IN IF hits = {} THEN list ELSE RemoveAt(list, Min(hits))

clear_ranges == <<>>

-----------------------------------------------------------------------------
(* eval_mm_valid *)

Init ==
  /\ package \in Packages /\ phase = "load" /\ tracenum = 1
  /\ trace = <<>> /\ opnum = 0 /\ watch = Idle
  /\ live = {}
  /\ endless \in IF package \in Endless THEN BOOLEAN ELSE {FALSE}
  /\ left = CASE package = "any" -> AnyOps [] Libc -> LibcOps [] OTHER -> MaxOps
  /\ heap = CASE package = "best" -> X!mem_init [] package = "list" -> L!mem_init [] OTHER -> mem_init
  /\ blocks = [x \in Ids |-> NULL] /\ block_sizes = [x \in Ids |-> 0]
  /\ ranges = <<>> /\ errors = 0 /\ valid = <<>>
  /\ total_size = 0 /\ max_total_size = 0

malloc_error == errors' = errors + 1

\* eval_mm_valid returns 0 and the other passes are skipped.
Invalid == malloc_error /\ valid' = Append(valid, FALSE) /\ phase' = "next"

\* A trace begins; an mm_init that fails ends it.
StartTrace ==
  /\ phase = "load"
  /\ heap' = NewHeap /\ ranges' = clear_ranges /\ opnum' = 0 /\ live' = {}
  /\ IF heap'.bp = NULL THEN Invalid ELSE phase' = "valid" /\ UNCHANGED <<errors, valid>>
  /\ UNCHANGED <<package, tracenum, trace, watch, left, endless, blocks, block_sizes, sums>>

\* memset stores the low byte of an index, and the loop of eval_mm_valid reads a
\* char, which is signed in this build.  Bytes is the word whose bytes are all b, and
\* the byte of such a word.
Low(x) == x % 256
Bytes(b) == -1 - b
Char(b) == IF b >= 128 THEN b - 256 ELSE b
Plain(x) == Char(Low(x)) = Low(x)

\* As in the trace files, indices appear in order, here those that are plain and
\* those that are not on their own; an endless trace reuses the lowest that is free.
Fresh ==
  {x \in Ids \ live :
     /\ endless => Plain(x)
     /\ \A y \in Ids : y < x /\ (Plain(y) <=> Plain(x)) =>
          IF endless THEN y \in live ELSE \E k \in 1..opnum : trace[k].index = y}

Requests ==
  {Op("a", x, n) : x \in Fresh, n \in Sizes}
  \cup {Op("r", x, n) : x \in live, n \in Sizes} \cup {Op("f", x, 0) : x \in live}

After(op) == IF op.type = "f" THEN live \ {op.index} ELSE live \cup {op.index}

\* The pointer to a freed block stays in the array, where nothing reads it; here
\* it is cleared.
Free(op) ==
  /\ ranges' = remove_range(ranges, blocks[op.index])
  /\ \E s \in Call(op) : heap' = Poison(s, live \ {op.index}, blocks, block_sizes)
  /\ blocks' = [blocks EXCEPT ![op.index] = NULL]
  /\ block_sizes' = [block_sizes EXCEPT ![op.index] = 0]
  /\ UNCHANGED <<phase, errors, valid>>

FillNot(m, lo, n, x) == m                    \* mutant: the payload is not marked
Fill(m, lo, n, x) == [a \in DOMAIN m |-> IF a \in Span(lo, n) THEN Bytes(Low(x)) ELSE m[a]]

\* The pointer, the record of its payload and, of a realloc, the data are
\* checked in this order; the first error ends the trace.
Get(op) ==
  \E s \in Call(op) :
    LET x == op.index
        lo == s.bp
        hi == lo + op.size - 1
        list == IF op.type = "r" THEN remove_range(ranges, blocks[x]) ELSE ranges
        accepted == lo # NULL /\ add_range(s, list, lo, hi)
        count == Min({op.size, block_sizes[x]})
        preserved == op.type = "r" => \A a \in Span(lo, count) : Char(Bytes(s.mem[a])) = Low(x)
    IN /\ ranges' = CASE lo = NULL -> ranges
                      [] accepted  -> <<[lo |-> lo, hi |-> hi]>> \o list
                      [] OTHER     -> list
       /\ IF accepted /\ preserved
          THEN /\ blocks' = [blocks EXCEPT ![x] = lo]
               /\ block_sizes' = [block_sizes EXCEPT ![x] = op.size]
               /\ heap' = Poison([s EXCEPT !.mem = Fill(@, lo, op.size, x)],
                                 live \cup {x}, blocks', block_sizes')
               /\ UNCHANGED <<phase, errors, valid>>
          ELSE heap' = s /\ Invalid /\ UNCHANGED <<blocks, block_sizes>>

\* eval_libc_valid: a failure ends the driver.
LibcGet(op) ==
  /\ heap' \in Call(op)
  /\ IF heap'.bp = NULL
     THEN malloc_error /\ phase' = "abort" /\ UNCHANGED blocks
     ELSE blocks' = [blocks EXCEPT ![op.index] = heap'.bp] /\ UNCHANGED <<phase, errors>>
  /\ UNCHANGED <<ranges, valid, block_sizes>>

Eval ==
  /\ phase = "valid" /\ left > 0
  /\ \E op \in Requests :
       /\ \/ op.type = "f" /\ Free(op)
          \/ op.type # "f" /\ Libc /\ LibcGet(op)
          \/ op.type # "f" /\ ~Libc /\ Get(op)
       /\ live' = After(op)
       /\ IF endless THEN UNCHANGED <<trace, opnum, left>>
          ELSE trace' = Append(trace, op) /\ opnum' = opnum + 1 /\ left' = left - 1
  /\ UNCHANGED <<package, tracenum, watch, endless, sums>>

\* app_error when mm_init fails in a later pass.
Started(p) == IF heap'.bp = NULL THEN "abort" ELSE p

\* The end of the file: eval_mm_valid returns 1 and eval_mm_util starts over, or
\* libc is timed.
Judged ==
  /\ phase = "valid" /\ ~endless /\ trace # <<>>
  /\ valid' = Append(valid, TRUE)
  /\ heap' = NewHeap /\ opnum' = 0 /\ live' = {} /\ total_size' = 0 /\ max_total_size' = 0
  /\ IF Libc THEN /\ phase' = "speed"
                  /\ \E method \in Methods, t \in Starts : watch' \in fsecs(method, t)
             ELSE phase' = Started("util") /\ UNCHANGED watch
  /\ UNCHANGED <<package, tracenum, trace, left, endless, blocks, block_sizes, ranges, errors>>

-----------------------------------------------------------------------------
(* eval_mm_util and eval_mm_speed *)

Account(op) ==
  total_size' = CASE op.type = "a" -> total_size + op.size
                  [] op.type = "r" -> total_size + op.size - block_sizes[op.index]
                  [] op.type = "f" -> total_size - block_sizes[op.index]

\* One request again; app_error ends the driver when it fails.
Replay ==
  /\ phase \in {"util", "speed"} /\ ~Libc /\ opnum < Len(trace)
  /\ LET op == trace[opnum + 1]
     IN /\ heap' \in Call(op)
        /\ phase' = IF op.type # "f" /\ heap'.bp = NULL THEN "abort" ELSE phase
        /\ blocks' = IF op.type = "f" THEN blocks ELSE [blocks EXCEPT ![op.index] = heap'.bp]
        /\ IF phase = "util"
           THEN /\ Account(op)
                /\ block_sizes' = IF op.type = "f" THEN block_sizes
                                  ELSE [block_sizes EXCEPT ![op.index] = op.size]
                /\ max_total_size' = Max({max_total_size, total_size'})
           ELSE UNCHANGED <<block_sizes, sums>>
  /\ opnum' = opnum + 1 /\ live' = After(trace[opnum + 1])
  /\ UNCHANGED <<package, tracenum, trace, watch, left, endless, judged>>

\* eval_libc_speed.
LibcReplay ==
  /\ phase = "speed" /\ Libc /\ opnum < Len(trace)
  /\ LET op == trace[opnum + 1]
     IN /\ heap' \in Call(op)
        /\ phase' = IF op.type # "f" /\ heap'.bp = NULL THEN "abort" ELSE phase
        /\ blocks' = IF op.type = "f" THEN blocks ELSE [blocks EXCEPT ![op.index] = heap'.bp]
        /\ opnum' = opnum + 1 /\ live' = After(op)
  /\ UNCHANGED <<package, tracenum, trace, watch, left, endless, block_sizes, judged, sums>>

\* fsecs, which config.h has measure with gettimeofday.
Utilized ==
  /\ phase = "util" /\ opnum = Len(trace)
  /\ opnum' = 0 /\ live' = {}
  /\ heap' = NewHeap /\ phase' = Started("speed") /\ watch' \in fsecs("gettod", 0)
  /\ UNCHANGED <<package, tracenum, trace, left, endless, blocks, block_sizes, judged, sums>>

\* A run of eval_mm_speed or eval_libc_speed has ended, perhaps the last.  The
\* time it took makes no difference to an allocator.
Timed ==
  /\ phase = "speed" /\ opnum = Len(trace)
  /\ opnum' = 0 /\ live' = {}
  /\ \E d \in IF Libc THEN Durations ELSE {Min(Durations)} : watch' \in Ran(watch, d)
  /\ IF Over(watch') THEN phase' = "next" /\ UNCHANGED heap
                     ELSE heap' = NewHeap /\ phase' = Started("speed")
  /\ UNCHANGED <<package, tracenum, trace, left, endless, blocks, block_sizes, judged, sums>>

\* free_trace; main goes on to the next file, with arrays of its own.
NextTrace ==
  /\ phase = "next"
  /\ phase' = IF tracenum = NumTraces THEN "done" ELSE "load"
  /\ tracenum' = tracenum + 1 /\ trace' = <<>> /\ opnum' = 0 /\ watch' = Idle /\ live' = {}
  /\ blocks' = [x \in Ids |-> NULL] /\ block_sizes' = [x \in Ids |-> 0]
  /\ UNCHANGED <<package, left, endless, heap, judged, sums>>

Next == StartTrace \/ Eval \/ Judged \/ Replay \/ LibcReplay \/ Utilized \/ Timed \/ NextTrace

\* What main adds up in the end.
numcorrect == Cardinality({i \in DOMAIN valid : valid[i]})

Spec == Init /\ [][Next]_vars

-----------------------------------------------------------------------------
(***************************************************************************)
(* Properties                                                              *)
(***************************************************************************)
Running == phase \in {"valid", "util", "speed"}

\* After every call of every pass the blocks of mm.c tile the heap: equal tags,
\* no two free blocks in a row, the prologue and the epilogue at the ends; the
\* explicit list holds the free blocks, each once, linked both ways; the
\* rover of next fit is on a block, never inside one, for find_fit reads a
\* header in front of it; and the allocated blocks are the live ones of the
\* trace, so none is lost (implicit mm.c:286, explicit mm.c:336, mm.c:594).
HeapConsistent ==
  Running /\ Real =>
    IF Explicit
    THEN /\ X!TilesHeap(heap) /\ X!ListsFree(heap)
         /\ X!Blocks(heap) \ X!FreeBlocks(heap) = {blocks[x] : x \in live}
    ELSE /\ checkheap(heap) /\ (nextfit => heap.rover \in HeapBlocks(heap))
         /\ {b \in HeapBlocks(heap) : GET_ALLOC(heap.mem, HDRP(b)) = 1}
              = {heap.listp} \cup {blocks[x] : x \in live}

\* As long as no error was reported two payloads overlap in one case only: the
\* later one holds all of the earlier one, and neither of its ends is inside it.
OverlapsOnlyAround ==
  phase = "valid" =>
    \A i, j \in DOMAIN ranges : i < j =>
      \/ ranges[i].hi < ranges[j].lo \/ ranges[j].hi < ranges[i].lo
      \/ ranges[i].lo < ranges[j].lo /\ ranges[j].hi < ranges[i].hi

\* "Terminated with k errors" is said of k traces that are not correct, though an
\* error may have left its payload in the list of ranges.
TracesCounted == phase = "done" => errors + numcorrect = NumTraces

\* The driver reports of mm.c and of libc that there is no memory left, and
\* otherwise only that a realloc lost the data of an index whose low byte is
\* negative as a char, true or not.
NoFalseAlarm ==
  /\ [][errors' > errors /\ package # "any" =>
          heap'.bp = NULL \/ (Last(trace').type = "r" /\ ~Plain(Last(trace').index))]_vars
  /\ []TracesCounted

\* What fsecs returns and when it stops (fcyc.c:67, fcyc.c:93, clock.c:62).
Measured == watch.method # "none" => Right(watch)

\* mm.c keeps the promise of Allocator over a trace that is being judged.
Contract ==
  INSTANCE Allocator WITH
    Handles <- Ids, Arena <- 3..Max({MaxHeap, ExplicitHeap, ListHeap}) - 2, Mark <- "mark",
    owned <- [x \in Ids |->
      IF phase # "valid" \/ ~Real \/ x \notin live THEN [a \in {} |-> 0]
      ELSE [a \in Extent(x) |-> IF heap.mem[a] = Bytes(Low(x)) THEN "mark" ELSE "lost"]]
Implements == Contract!Spec

\* A heap of words as a heap of blocks.
ImplicitBlocks(s) ==
  LET bs == HeapBlocks(s)
  IN [size |-> [b \in bs |-> GET_SIZE(s.mem, HDRP(b))],
      used |-> {b \in bs : GET_ALLOC(s.mem, HDRP(b)) = 1}, top |-> s.brk, bp |-> s.bp]
ExplicitBlocks(s) ==
  LET bs == {X!heap_listp} \cup X!Blocks(s)
  IN [size |-> [b \in bs |-> X!GET_SIZE(s.mem, X!HDRP(b))],
      used |-> {b \in bs : X!GET_ALLOC(s.mem, X!HDRP(b)) = 1}, top |-> s.brk + 2, bp |-> s.bp]
FreeBlockList(s) == X!FreeList(s.mem, s.list)

\* Where a package does not run, its heap is the empty one.
Linked(p) == Running /\ package = p
NewImplicit == ImplicitBlocks(mm_init(mem_init, FALSE))
NewExplicit == ExplicitBlocks(X!mm_init(X!mem_init))
NewFree == FreeBlockList(X!mm_init(X!mem_init))
OtherExplicit == ExplicitBlocks(L!mm_init(L!mem_init))
OtherFree == FreeBlockList(L!mm_init(L!mem_init))

FirstFitHeap == INSTANCE BlockHeap
  WITH Overhead <- 2, MinBlock <- 4, Limit <- MaxHeap, FirstFit <- TRUE,
       h <- IF Linked("first") THEN ImplicitBlocks(heap) ELSE NewImplicit
NextFitHeap == INSTANCE RoverHeap
  WITH Overhead <- 2, MinBlock <- 4, Limit <- MaxHeap, FirstFit <- FALSE,
       h <- IF Linked("next") THEN ImplicitBlocks(heap) ELSE NewImplicit,
       rover <- IF Linked("next") THEN heap.rover ELSE 2
BestFitHeap == INSTANCE FreeListHeap
  WITH Overhead <- 4, MinBlock <- 6, Limit <- ExplicitHeap + 2, CHUNKSIZE <- ExplicitChunk,
       FirstFit <- FALSE, BEST_FIT <- TRUE,
       h <- IF Linked("best") THEN ExplicitBlocks(heap) ELSE NewExplicit,
       list <- IF Linked("best") THEN FreeBlockList(heap) ELSE NewFree
ListFitHeap == INSTANCE FreeListHeap
  WITH Overhead <- 4, MinBlock <- 6, Limit <- ListHeap + 2, CHUNKSIZE <- ListChunk,
       FirstFit <- FALSE, BEST_FIT <- FALSE,
       h <- IF Linked("list") THEN ExplicitBlocks(heap) ELSE OtherExplicit,
       list <- IF Linked("list") THEN FreeBlockList(heap) ELSE OtherFree

ASSUME BlockAssumption ==
  /\ FirstFitHeap!HeapParams /\ NextFitHeap!HeapParams
  /\ BestFitHeap!HeapParams /\ BestFitHeap!ChunkFits
  /\ ListFitHeap!HeapParams /\ ListFitHeap!ChunkFits

\* Each mm.c does with its words and links what its heap of blocks says: the
\* same block is found, split, merged and listed, whatever case of coalesce
\* and place it takes (implicit mm.c:174, explicit mm.c:224).
ImplementsBlocks ==
  FirstFitHeap!Spec /\ NextFitHeap!RoverSpec /\ BestFitHeap!ListSpec /\ ListFitHeap!ListSpec
=============================================================================
