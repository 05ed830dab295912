--------------------------- MODULE ImplicitMalloc ---------------------------
(***************************************************************************)
(* malloclab-implicit/mm.c over memlib.c: an implicit list of blocks with  *)
(* boundary tags, searched from a rover that stays where the last search   *)
(* ended (NEXT_FIT) or from the start of the heap, as code_examples/vm     *)
(* builds it.  Addresses and sizes count words of WSIZE bytes, so DSIZE is *)
(* 2.  A heap s is a record: the words, mem_brk, the two static pointers   *)
(* of mm.c, and bp, what the last call returned.                           *)
(***************************************************************************)
EXTENDS Integers, Sequences, FiniteSets, FiniteSetsExt

CONSTANTS MaxHeap,      \* MAX_HEAP
          CHUNKSIZE,
          SizeMod       \* the words a size_t can count

ASSUME HeapAssumption ==
  /\ CHUNKSIZE \in Nat /\ CHUNKSIZE >= 4 /\ CHUNKSIZE % 2 = 0
  /\ MaxHeap \in Nat /\ MaxHeap >= CHUNKSIZE + 4
  /\ SizeMod \in Nat /\ SizeMod > MaxHeap

NULL == 0
DSIZE == 2
Junk == -999            \* a word nobody has written since mem_init

-----------------------------------------------------------------------------
(* The macros, on the words m *)

GET(m, p)       == IF p \in DOMAIN m THEN m[p] ELSE 0     \* nothing is outside
GET_SIZE(m, p)  == GET(m, p) - (GET(m, p) % 2)
GET_ALLOC(m, p) == GET(m, p) % 2
HDRP(bp)         == bp - 1
FTRP(m, bp)      == bp + GET_SIZE(m, HDRP(bp)) - DSIZE
NEXT_BLKP(m, bp) == bp + GET_SIZE(m, HDRP(bp))
PREV_BLKP(m, bp) == bp - GET_SIZE(m, bp - DSIZE)

\* Header and footer of a block.
Tag(m, bp, size, alloc) ==
  [m EXCEPT ![HDRP(bp)] = size + alloc, ![bp + size - DSIZE] = size + alloc]

\* The block pointers from bp up to the epilogue, in address order.
BlocksFrom(m, bp) ==
  LET from[b \in Nat] ==
        IF HDRP(b) \notin DOMAIN m \/ GET_SIZE(m, HDRP(b)) <= 0 THEN <<>>
        ELSE <<b>> \o from[NEXT_BLKP(m, b)]
  IN from[bp]

-----------------------------------------------------------------------------
(* memlib.c *)

mem_init == [mem |-> [a \in 0..MaxHeap - 1 |-> Junk], brk |-> 0,
             listp |-> NULL, rover |-> NULL, bp |-> NULL]
mem_reset_brk(s) == [s EXCEPT !.brk = 0]
Fits(s, incr) == s.brk + incr <= MaxHeap       \* mem_sbrk succeeds

-----------------------------------------------------------------------------
(* The internal routines *)

coalesceRoverNot(s, nextfit, bp) ==       \* mutant: the rover is left inside
  LET m == s.mem
      prev == PREV_BLKP(m, bp)
      next == NEXT_BLKP(m, bp)
      start == IF GET_ALLOC(m, FTRP(m, prev)) = 0 THEN prev ELSE bp
      end == IF GET_ALLOC(m, HDRP(next)) = 0 THEN NEXT_BLKP(m, next) ELSE next
  IN [s EXCEPT !.mem = Tag(m, start, end - start, 0), !.bp = start]

coalesceBefore(s, nextfit, bp) ==         \* mutant: the block after is not merged
  LET m == s.mem
      prev == PREV_BLKP(m, bp)
      start == IF GET_ALLOC(m, FTRP(m, prev)) = 0 THEN prev ELSE bp
      end == NEXT_BLKP(m, bp)
  IN [s EXCEPT !.mem = Tag(m, start, end - start, 0), !.bp = start,
       !.rover = IF nextfit /\ start < @ /\ @ < end THEN start ELSE @]

\* A free block merges with its free neighbours; a rover inside the result
\* moves to its start.
coalesce(s, nextfit, bp) ==
  LET m == s.mem
      prev == PREV_BLKP(m, bp)
      next == NEXT_BLKP(m, bp)
      start == IF GET_ALLOC(m, FTRP(m, prev)) = 0 THEN prev ELSE bp
      end == IF GET_ALLOC(m, HDRP(next)) = 0 THEN NEXT_BLKP(m, next) ELSE next
      merged == start # bp \/ end # next
  IN [s EXCEPT !.mem = Tag(m, start, end - start, 0), !.bp = start,
       !.rover = IF nextfit /\ merged /\ start < @ /\ @ < end THEN start ELSE @]

\* mem_sbrk for an even number of words, which become a free block and the
\* epilogue behind it; NULL when the heap is full.
extend_heap(s, nextfit, words) ==
  LET size == words + (words % 2)
  IN IF ~Fits(s, size) THEN [s EXCEPT !.bp = NULL]
     ELSE coalesce([s EXCEPT !.mem = [Tag(@, s.brk, size, 0) EXCEPT ![s.brk + size - 1] = 1],
                             !.brk = @ + size],
                   nextfit, s.brk)

\* Padding, prologue and epilogue, then a first free chunk; NULL stands for -1.
mm_init(s, nextfit) ==
  LET start == [s.mem EXCEPT ![s.brk] = 0, ![s.brk + 1] = DSIZE + 1,
                             ![s.brk + 2] = DSIZE + 1, ![s.brk + 3] = 1]
      listp == s.brk + 2
  IN IF ~Fits(s, 4) THEN [s EXCEPT !.bp = NULL]
     ELSE extend_heap([s EXCEPT !.mem = start, !.brk = @ + 4, !.listp = listp,
                                !.rover = listp],
                      nextfit, CHUNKSIZE)

\* Split unless the rest is too small for a block.
place(s, bp, asize) ==
  LET csize == GET_SIZE(s.mem, HDRP(bp))
      rest == Tag(Tag(s.mem, bp, asize, 1), bp + asize, csize - asize, 0)
  IN [s EXCEPT !.bp = bp,
       !.mem = IF csize - asize >= 2 * DSIZE THEN rest ELSE Tag(@, bp, csize, 1)]

\* The lowest block pointer of bps that fits, NULL if none does.
Lowest(s, bps, asize) ==
  LET fits == {b \in bps : GET_ALLOC(s.mem, HDRP(b)) = 0 /\ asize <= GET_SIZE(s.mem, HDRP(b))}
  IN IF fits = {} THEN NULL ELSE Min(fits)

HeapBlocks(s) == LET list == BlocksFrom(s.mem, s.listp) IN {list[i] : i \in DOMAIN list}
RoverBlocks(s) == LET list == BlocksFrom(s.mem, s.rover) IN {list[i] : i \in DOMAIN list}

first_fit(s, asize) == [s EXCEPT !.bp = Lowest(s, HeapBlocks(s), asize)]

next_fitLost(s, asize) ==                 \* mutant: the rover stays where it was
  LET above == Lowest(s, RoverBlocks(s), asize)
      below == Lowest(s, {b \in HeapBlocks(s) : b < s.rover}, asize)
  IN [s EXCEPT !.bp = IF above # NULL THEN above ELSE below]

\* From the rover to the end, then from the start to the old rover; the rover
\* stays on the block found, or goes back to where it was.
next_fit(s, asize) ==
  LET above == Lowest(s, RoverBlocks(s), asize)
      below == Lowest(s, {b \in HeapBlocks(s) : b < s.rover}, asize)
      found == IF above # NULL THEN above ELSE below
  IN [s EXCEPT !.bp = found, !.rover = IF found # NULL THEN found ELSE @]

find_fit(s, nextfit, asize) ==
  IF nextfit THEN next_fit(s, asize) ELSE first_fit(s, asize)

-----------------------------------------------------------------------------
(* The package *)

\* The block size of a request, its header and footer included, in a size_t.
Adjusted(size) ==
  IF size <= DSIZE THEN 2 * DSIZE ELSE DSIZE * (((size + DSIZE + DSIZE - 1) % SizeMod) \div DSIZE)

Ready(s, nextfit) == IF s.listp = NULL THEN mm_init(s, nextfit) ELSE s

mm_malloc(s, nextfit, size) ==
  LET asize == Adjusted(size)
      Grown(t) == IF t.bp # NULL THEN t ELSE extend_heap(t, nextfit, Max({asize, CHUNKSIZE}))
      Placed(t) == IF t.bp = NULL THEN t ELSE place(t, t.bp, asize)
  IN IF size = 0 THEN [Ready(s, nextfit) EXCEPT !.bp = NULL]
     ELSE Placed(Grown(find_fit(Ready(s, nextfit), nextfit, asize)))

mm_free(s, nextfit, bp) ==
  IF bp = NULL THEN s
  ELSE LET t == Ready(s, nextfit)
       IN coalesce([t EXCEPT !.mem = Tag(@, bp, GET_SIZE(s.mem, HDRP(bp)), 0)], nextfit, bp)

\* The first count words of the block at ptr go to the new block.
Copied(new, ptr, count) ==
  [new EXCEPT !.mem = [a \in DOMAIN @ |-> IF a \in new.bp..new.bp + count - 1
                                          THEN GET(@, a - new.bp + ptr) ELSE @[a]]]

mm_reallocOld(s, nextfit, ptr, size) ==   \* mutant: a shorter block gets all the data
  LET Moved(new) ==
        IF new.bp = NULL THEN new
        ELSE [mm_free(Copied(new, ptr, GET_SIZE(new.mem, HDRP(ptr))), nextfit, ptr) EXCEPT !.bp = new.bp]
  IN Moved(mm_malloc(s, nextfit, size))

\* memcpy copies the smaller of the new length and the old block's size, its
\* overhead included: the footer and the header of the next block with it.
mm_realloc(s, nextfit, ptr, size) ==
  LET Freed(t) == mm_free(t, nextfit, ptr)
      Moved(new) ==
        IF ptr = NULL \/ new.bp = NULL THEN new
        ELSE [Freed(Copied(new, ptr, Min({size, GET_SIZE(new.mem, HDRP(ptr))}))) EXCEPT !.bp = new.bp]
  IN IF size = 0 THEN [Freed(s) EXCEPT !.bp = NULL] ELSE Moved(mm_malloc(s, nextfit, size))

-----------------------------------------------------------------------------
(* What checkheap looks at, as a predicate of a heap *)

\* Prologue and epilogue are in place; the blocks between tile the heap, with
\* equal header and footer, aligned, and no two free ones in a row.
checkheap(s) ==
  LET list == BlocksFrom(s.mem, s.listp)
      last == list[Len(list)]
      free(b) == GET_ALLOC(s.mem, HDRP(b)) = 0
  IN /\ s.mem[HDRP(s.listp)] = DSIZE + 1 /\ list # <<>>
     /\ NEXT_BLKP(s.mem, last) = s.brk /\ s.mem[s.brk - 1] = 1
     /\ \A i \in DOMAIN list :
          /\ list[i] % 2 = 0
          /\ s.mem[HDRP(list[i])] = s.mem[FTRP(s.mem, list[i])]
          /\ i > 1 => GET_SIZE(s.mem, HDRP(list[i])) >= 2 * DSIZE
          /\ i > 1 /\ free(list[i]) => ~free(list[i - 1])
=============================================================================
