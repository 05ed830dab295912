----------------------------- MODULE BlockHeap -----------------------------
(***************************************************************************)
(* code_examples/vm/malloc/mm.c, and what it has in common with the other  *)
(* three mm.c of this repository, without its words: the blocks tile the   *)
(* heap, a request takes a free block that is large enough, a free block   *)
(* merges with its free neighbours.  Which block a search returns may be   *)
(* left open.  A heap is a record: the size of every block by block pointer,    *)
(* the blocks that are allocated, the epilogue's block pointer, and bp,    *)
(* what the last call returned.  Addresses and sizes count words.          *)
(***************************************************************************)
EXTENDS Integers

CONSTANTS Overhead,     \* words of a block that are not payload
          MinBlock,     \* 2 * DSIZE, or MIN_BLOCKSIZE
          CHUNKSIZE,
          Limit,        \* MAX_HEAP: the last block pointer an epilogue may have
          Sizes,        \* sizes of requests, in words
          SizeMod,      \* the words a size_t can count
          FirstFit      \* find_fit returns the lowest block that fits, or any

\* What mm.c's constants satisfy, and no request makes the sum of mm_malloc wrap;
\* Mdriver assumes it of its values.
HeapParams ==
  /\ Overhead \in Nat /\ Overhead >= 2 /\ Overhead % 2 = 0
  /\ MinBlock \in Nat /\ MinBlock = Overhead + 2 /\ MinBlock % 2 = 0
  /\ CHUNKSIZE \in Nat /\ CHUNKSIZE >= MinBlock /\ CHUNKSIZE % 2 = 0
  /\ Limit \in Nat /\ Sizes \subseteq Nat /\ FirstFit \in BOOLEAN
  /\ SizeMod \in Nat /\ \A n \in Sizes : n + Overhead + 1 < SizeMod

VARIABLE h

NULL == 0
Even(n) == n + (n % 2)
Larger(a, b) == IF a > b THEN a ELSE b

-----------------------------------------------------------------------------
(* The internal routines *)

NEXT_BLKP(s, b) == b + s.size[b]
IsFree(s, b) == b \in DOMAIN s.size /\ b \notin s.used
PREV_BLKP(s, b) == CHOOSE p \in DOMAIN s.size : NEXT_BLKP(s, p) = b

\* A free block merges with its free neighbours.
coalesce(s, b) ==
  LET prev == PREV_BLKP(s, b)
      next == NEXT_BLKP(s, b)
      start == IF IsFree(s, prev) THEN prev ELSE b
      end == IF IsFree(s, next) THEN NEXT_BLKP(s, next) ELSE next
      gone == {c \in {b, next} : start < c /\ c < end}
  IN [size |-> [c \in DOMAIN s.size \ gone |-> IF c = start THEN end - start ELSE s.size[c]],
      used |-> s.used, top |-> s.top, bp |-> start]

\* The heap grows by an even number of words, which become a free block.
extend_heap(s, words) ==
  LET size == Even(words)
      grown == [size |-> [c \in DOMAIN s.size \cup {s.top} |->
                            IF c = s.top THEN size ELSE s.size[c]],
                used |-> s.used, top |-> s.top + size, bp |-> s.top]
  IN IF s.top + size > Limit THEN [s EXCEPT !.bp = NULL] ELSE coalesce(grown, s.top)

\* Split unless the rest is too small for a block.
place(s, b, asize) ==
  LET rest == s.size[b] - asize
      split == [c \in DOMAIN s.size \cup {b + asize} |->
                  IF c = b THEN asize ELSE IF c = b + asize THEN rest ELSE s.size[c]]
  IN [size |-> IF rest >= MinBlock THEN split ELSE s.size,
      used |-> s.used \cup {b}, top |-> s.top, bp |-> b]

Fits(s, asize) == {b \in DOMAIN s.size : IsFree(s, b) /\ asize <= s.size[b]}

\* The blocks the search may return.
find_fit(s, asize) ==
  LET fits == Fits(s, asize) IN {b \in fits : FirstFit => \A c \in fits : b <= c}

\* The block size of a request, its overhead included, in a size_t.  A sum that
\* wraps makes it smaller than a block can be.
Adjusted(n) == IF n <= 2 THEN MinBlock ELSE 2 * (((n + Overhead + 1) % SizeMod) \div 2)

-----------------------------------------------------------------------------
(* The package: the heaps a call may lead to *)

Placed(s, asize) == IF s.bp = NULL THEN s ELSE place(s, s.bp, asize)
Extended(s, asize) == Placed(extend_heap(s, Larger(asize, CHUNKSIZE)), asize)

mm_malloc(s, n) ==
  IF n = 0 THEN {[s EXCEPT !.bp = NULL]}
  ELSE IF Fits(s, Adjusted(n)) = {} THEN {Extended(s, Adjusted(n))}
  ELSE {place(s, b, Adjusted(n)) : b \in find_fit(s, Adjusted(n))}

mm_free(s, b) == IF b = NULL THEN s ELSE coalesce([s EXCEPT !.used = @ \ {b}], b)

Moved(s, ptr) == IF s.bp = NULL THEN s ELSE [mm_free(s, ptr) EXCEPT !.bp = s.bp]

mm_realloc(s, ptr, n) ==
  IF n = 0 THEN {[mm_free(s, ptr) EXCEPT !.bp = NULL]}
  ELSE IF ptr = NULL THEN mm_malloc(s, n)
  ELSE {Moved(t, ptr) : t \in mm_malloc(s, n)}

\* The prologue block alone, then the first chunk behind it.
Bare == [size |-> [b \in {Overhead} |-> Overhead], used |-> {Overhead},
         top |-> 2 * Overhead, bp |-> NULL]
mm_init == extend_heap(Bare, CHUNKSIZE)

-----------------------------------------------------------------------------
(* A program that calls the package: a call leads from heap s to heap t *)

Live(s) == s.used \ {Overhead}

Malloc(s, t) == \E n \in Sizes : t \in mm_malloc(s, n)
Free(s, t) == \E b \in Live(s) : t = mm_free(s, b)
Realloc(s, t) == \E b \in Live(s), n \in Sizes : t \in mm_realloc(s, b, n)
Restart(t) == t = mm_init       \* mem_reset_brk, then mm_init
Call(s, t) == Restart(t) \/ Malloc(s, t) \/ Free(s, t) \/ Realloc(s, t)

Init == h = mm_init
Next == Call(h, h')
Spec == Init /\ [][Next]_h

-----------------------------------------------------------------------------
\* The blocks tile the heap: each is a block's length from the next, no two
\* overlap, and of two neighbours one is allocated, as coalescing promises.
Tiled(s) ==
  /\ \A b \in DOMAIN s.size : NEXT_BLKP(s, b) \in DOMAIN s.size \cup {s.top}
  /\ \A b \in DOMAIN s.size \ {Overhead} : \E p \in DOMAIN s.size : NEXT_BLKP(s, p) = b
  /\ \A b, c \in DOMAIN s.size : b < c => NEXT_BLKP(s, b) <= c
  /\ \A b \in DOMAIN s.size : ~(IsFree(s, b) /\ IsFree(s, NEXT_BLKP(s, b)))

\* "Allocate a block with at least size bytes of payload" (mm.c:91): where
\* mm_malloc returns a block for a request, the block has room for it.
Roomy ==
  [][\A n \in Sizes : h' \in mm_malloc(h, n) /\ h'.bp # NULL => h'.size[h'.bp] >= n + Overhead]_h

\* checkheap (mm.c:370): after every call the blocks tile the heap.
HeapOK == Tiled(h)

\* A block that stays allocated keeps its place and its size, whatever is
\* allocated or freed beside it (mm.c:157 merges, mm.c:299 splits).
BlocksKept ==
  [][\A b \in h.used \cap h'.used : h'.size[b] = h.size[b]]_h
=============================================================================
