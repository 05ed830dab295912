--------------------------- MODULE ExplicitMalloc ---------------------------
(***************************************************************************)
(* malloclab-explicit/mm.c over memlib.c: boundary tags and an explicit    *)
(* free list; mm.c is built with BEST_FIT, mm_copy.c without.  Addresses   *)
(* and sizes count words of WSIZE bytes, so DSIZE is 2, QSIZE 4 and the    *)
(* alignment keeps sizes even; a header is size + allocated bit.  A heap s is a record: the words, mem_brk, the    *)
(* head of the free list, and bp, what the last call returned.             *)
(***************************************************************************)
EXTENDS Integers, Sequences, FiniteSets, FiniteSetsExt, SequencesExt

CONSTANTS MaxHeap,      \* MAX_HEAP
          CHUNKSIZE,
          SizeMod,      \* the words a size_t can count
          BEST_FIT

Junk == -999            \* a word nobody has written since mem_init
MIN_BLOCKSIZE == 6
QSIZE == 4
heap_listp == 4         \* the prologue's block pointer
NULL == 0
Even(n) == n + (n % 2)

-----------------------------------------------------------------------------
(* The macros, on a memory m *)

GET_SIZE(m, p)  == m[p] - (m[p] % 2)
GET_ALLOC(m, p) == m[p] % 2
HDRP(bp)  == bp - 3
NEXTP(bp) == bp - 2
PREVP(bp) == bp - 1
FTRP(m, bp)      == bp + GET_SIZE(m, HDRP(bp)) - QSIZE
PRED_BLKP(m, bp) == bp - GET_SIZE(m, bp - 4)
SUCC_BLKP(m, bp) == bp + GET_SIZE(m, HDRP(bp))
NEXT_BLKP(m, bp) == m[NEXTP(bp)] + 3
PREV_BLKP(m, bp) == m[PREVP(bp)] + 3
First(m, bp)     == m[PREVP(bp)] = NULL

\* Header and footer of a block.
Tag(m, bp, size, alloc) ==
  [m EXCEPT ![HDRP(bp)] = size + alloc, ![bp + size - QSIZE] = size + alloc]

UnlinkOneWay(m, bp) ==       \* mutant: the next block keeps its prev pointer
  [m EXCEPT ![NEXTP(PREV_BLKP(m, bp))] = m[NEXTP(bp)]]

\* A block leaves the free list, from behind another; a block becomes the head
\* of the list that starts with head.
Unlink(m, bp) ==
  [m EXCEPT ![NEXTP(PREV_BLKP(m, bp))] = m[NEXTP(bp)],
            ![PREVP(NEXT_BLKP(m, bp))] = m[PREVP(bp)]]
Push(m, head, bp) ==
  [mem |-> [m EXCEPT ![NEXTP(bp)] = HDRP(head), ![PREVP(bp)] = NULL,
                     ![PREVP(head)] = HDRP(bp)],
   list |-> bp, bp |-> bp]

\* The free blocks from bp on, up to the prologue, which ends the list.
FreeList(m, bp) ==
  LET from[n \in Nat, b \in Int] ==
        IF n = 0 \/ HDRP(b) \notin DOMAIN m \/ GET_SIZE(m, HDRP(b)) <= QSIZE
        THEN <<>> ELSE <<b>> \o from[n - 1, NEXT_BLKP(m, b)]
  IN from[MaxHeap, bp]

-----------------------------------------------------------------------------
(* The internal routines: a memory and a list in, the same and a block out *)

coalesce(m, list, bp) ==
  LET pred == PRED_BLKP(m, bp)
      succ == SUCC_BLKP(m, bp)
      predFree == GET_ALLOC(m, FTRP(m, pred)) = 0
      succFree == GET_ALLOC(m, HDRP(succ)) = 0
      start == IF predFree THEN pred ELSE bp
      end   == IF succFree THEN SUCC_BLKP(m, succ) ELSE succ
      t == Tag(m, start, end - start, 0)
      Same(mm) == [mem |-> mm, list |-> list, bp |-> start]
  IN CASE ~predFree /\ ~succFree -> Push(m, list, bp)
       [] ~predFree /\ succFree ->
            IF First(m, succ) THEN Push(t, NEXT_BLKP(t, succ), bp)
                              ELSE Push(Unlink(t, succ), list, bp)
       [] predFree /\ ~succFree ->
            IF First(m, pred) THEN Same(t) ELSE Push(Unlink(t, pred), list, pred)
       [] predFree /\ succFree ->
            LET u == Unlink(t, pred)
            IN IF First(m, pred) THEN Same(Unlink(t, succ))
               ELSE IF First(m, succ) THEN Push(u, NEXT_BLKP(u, succ), pred)
               ELSE Push(Unlink(u, succ), list, pred)

\* mem_sbrk for size words, which become a free block and the epilogue.
extend_heap(m, list, at, words) ==
  LET size == Even(words)
      bp == at + 2
  IN coalesce([Tag(m, bp, size, 0) EXCEPT ![HDRP(bp + size)] = 1], list, bp)

place(m, list, bp, asize) ==
  LET csize == GET_SIZE(m, HDRP(bp))
      rest == bp + asize
      split == Tag(Tag(m, bp, asize, 1), rest, csize - asize, 0)
      linked == [split EXCEPT ![PREVP(rest)] = m[PREVP(bp)],
                              ![NEXTP(rest)] = m[NEXTP(bp)],
                              ![PREVP(NEXT_BLKP(m, bp))] = HDRP(rest)]
      whole == Tag(m, bp, csize, 1)
  IN IF csize - asize >= MIN_BLOCKSIZE
     THEN [mem |-> IF First(m, bp) THEN linked
                   ELSE [linked EXCEPT ![NEXTP(PREV_BLKP(m, bp))] = HDRP(rest)],
           list |-> IF First(m, bp) THEN rest ELSE list]
     ELSE [mem |-> IF First(m, bp) THEN [whole EXCEPT ![PREVP(NEXT_BLKP(m, bp))] = NULL]
                   ELSE Unlink(whole, bp),
           list |-> IF First(m, bp) THEN NEXT_BLKP(m, bp) ELSE list]

find_fitWorst(m, list, asize) ==         \* mutant: the largest block, not the smallest
  LET fits == SelectSeq(FreeList(m, list), LAMBDA b : asize <= GET_SIZE(m, HDRP(b)))
      size(b) == GET_SIZE(m, HDRP(b))
      best == {i \in DOMAIN fits : \A b \in Range(fits) : size(fits[i]) >= size(b)}
  IN IF fits = <<>> THEN NULL ELSE IF BEST_FIT THEN fits[Min(best)] ELSE fits[1]

\* The first block that fits, with BEST_FIT the first of the smallest; NULL if
\* none does.
find_fit(m, list, asize) ==
  LET fits == SelectSeq(FreeList(m, list), LAMBDA b : asize <= GET_SIZE(m, HDRP(b)))
      size(b) == GET_SIZE(m, HDRP(b))
      best == {i \in DOMAIN fits : \A b \in Range(fits) : size(fits[i]) <= size(b)}
  IN IF fits = <<>> THEN NULL ELSE IF BEST_FIT THEN fits[Min(best)] ELSE fits[1]

\* The adjusted block size, in a size_t.
Adjusted(size) ==
  IF size <= 2 THEN MIN_BLOCKSIZE ELSE 2 * (((size + QSIZE + 1) % SizeMod) \div 2)

-----------------------------------------------------------------------------
(* mm_malloc, mm_free, mm_realloc as functions of a state s *)

NoMemory(s) == [s EXCEPT !.bp = NULL]

mm_malloc(s, size) ==
  LET asize == Adjusted(size)
      words == Even(Max({asize, CHUNKSIZE}))
      Placed(t) == [mem |-> place(t.mem, t.list, t.bp, asize).mem,
                    list |-> place(t.mem, t.list, t.bp, asize).list, brk |-> t.brk, bp |-> t.bp]
      Extended(e) == Placed([mem |-> e.mem, list |-> e.list, brk |-> s.brk + words, bp |-> e.bp])
      Fitted(fit) == IF fit # NULL THEN Placed([s EXCEPT !.bp = fit])
                     ELSE IF s.brk + words > MaxHeap THEN NoMemory(s)
                     ELSE Extended(extend_heap(s.mem, s.list, s.brk, words))
  IN IF size = 0 THEN NoMemory(s) ELSE Fitted(find_fit(s.mem, s.list, asize))

mm_free(s, bp) ==
  LET c == coalesce(Tag(s.mem, bp, GET_SIZE(s.mem, HDRP(bp)), 0), s.list, bp)
  IN [mem |-> c.mem, list |-> c.list, brk |-> s.brk, bp |-> c.bp]

\* The first count words of the block at ptr go to the new block; words beyond
\* the heap hold anything, here 0.
Copied(new, ptr, count) ==
  LET from(a) == ptr + (a - new.bp)
  IN [new EXCEPT !.mem = [a \in DOMAIN @ |->
       IF a \notin new.bp..new.bp + count - 1 THEN @[a]
       ELSE IF from(a) \in DOMAIN @ THEN @[from(a)] ELSE 0]]

mm_reallocKeep(s, ptr, size) ==             \* mutant: the old block is not freed
  LET Moved(new) ==
        IF new.bp = NULL THEN new
        ELSE Copied(new, ptr, Min({size, GET_SIZE(new.mem, HDRP(ptr))}))
  IN Moved(mm_malloc(s, size))

\* memcpy copies the smaller of the new length and the old block's size, its
\* overhead included.
mm_realloc(s, ptr, size) ==
  LET Moved(new) ==
        IF new.bp = NULL THEN new
        ELSE [mm_free(Copied(new, ptr, Min({size, GET_SIZE(new.mem, HDRP(ptr))})), ptr)
              EXCEPT !.bp = new.bp]
  IN IF size = 0 THEN NoMemory(mm_free(s, ptr))
     ELSE IF ptr = NULL THEN mm_malloc(s, size) ELSE Moved(mm_malloc(s, size))

-----------------------------------------------------------------------------
(* mm_init, and what it starts *)

mem_init == [mem |-> [a \in 0..MaxHeap - 1 |-> Junk], list |-> NULL, brk |-> 0, bp |-> NULL]

\* On an empty heap: padding, prologue, epilogue, and a first free chunk.
mm_init(s) ==
  LET bare == [s.mem EXCEPT ![s.brk] = 0, ![s.brk + 1] = QSIZE + 1, ![s.brk + 2] = 0,
                            ![s.brk + 3] = 0, ![s.brk + 4] = QSIZE + 1, ![s.brk + 5] = 1]
      e == extend_heap(bare, heap_listp, s.brk + 6, CHUNKSIZE)
      top == s.brk + 6 + Even(CHUNKSIZE)
  IN IF top > MaxHeap THEN [s EXCEPT !.bp = NULL]
     ELSE [mem |-> e.mem, list |-> e.list, brk |-> top, bp |-> e.bp]

\* The block pointers of heap s in address order, the prologue's first.
HeapList(s) ==
  LET from[n \in Nat, b \in Int] ==
        IF n = 0 \/ HDRP(b) \notin 0..s.brk - 2 THEN <<>>
        ELSE <<b>> \o from[n - 1, SUCC_BLKP(s.mem, b)]
  IN from[MaxHeap, heap_listp]
Blocks(s) == Range(Tail(HeapList(s)))
FreeBlocks(s) == {b \in Blocks(s) : GET_ALLOC(s.mem, HDRP(b)) = 0}

\* The blocks tile the heap from the prologue to the epilogue, each at least
\* MIN_BLOCKSIZE, its footer a copy of its header, and no two free in a row.
TilesHeap(s) ==
  /\ SUCC_BLKP(s.mem, Last(HeapList(s))) = s.brk + 2 /\ s.mem[s.brk - 1] = 1
  /\ s.mem[HDRP(heap_listp)] = QSIZE + 1
  /\ \A b \in Blocks(s) : /\ GET_SIZE(s.mem, HDRP(b)) >= MIN_BLOCKSIZE
                          /\ s.mem[FTRP(s.mem, b)] = s.mem[HDRP(b)]
                          /\ ~({b, SUCC_BLKP(s.mem, b)} \subseteq FreeBlocks(s))

\* The free list holds the free blocks, each once, linked both ways.
ListsFree(s) ==
  LET list == FreeList(s.mem, s.list)
      link == Append(list, heap_listp)
  IN /\ Range(list) = FreeBlocks(s) /\ Len(list) = Cardinality(FreeBlocks(s))
     /\ First(s.mem, link[1])
     /\ \A i \in DOMAIN list : /\ NEXT_BLKP(s.mem, link[i]) = link[i + 1]
                               /\ PREV_BLKP(s.mem, link[i + 1]) = link[i]
=============================================================================
