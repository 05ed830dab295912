---------------------------- MODULE FreeListHeap ----------------------------
(***************************************************************************)
(* malloclab-explicit/mm_copy.c: the blocks of BlockHeap and the sequence  *)
(* of the free ones, the most recently freed first.  Every case of its     *)
(* coalesce comes to this: the neighbours that are merged leave the list   *)
(* and the block that results is its head.  An outcome of a call is a heap *)
(* and a list.                                                             *)
(***************************************************************************)
EXTENDS BlockHeap, SequencesExt

CONSTANT BEST_FIT       \* the smallest block that fits, or the first

\* There is room for the first chunk: mm_init does not fail.
ChunkFits == 2 * Overhead + CHUNKSIZE <= Limit

VARIABLE list

Result(s, free) == [heap |-> s, list |-> free]

\* Where block b is in the list, and the list without it.
Position(free, b) == CHOOSE k \in DOMAIN free : free[k] = b
Unlinked(free, b) == IF b \in Range(free) THEN RemoveAt(free, Position(free, b)) ELSE free

\* coalesce has formed block s.bp between the blocks pred and succ.
Pushed(s, free, pred, succ) == <<s.bp>> \o Unlinked(Unlinked(free, pred), succ)

\* place has allocated block b: what is left of it takes its place in the list.
Replaced(s, free, b) ==
  LET rest == NEXT_BLKP(s, b)
  IN IF IsFree(s, rest) THEN [free EXCEPT ![Position(free, b)] = rest] ELSE Unlinked(free, b)

\* The block find_fit returns, if any fits: the first in the list, or the first
\* of the smallest.
list_fit(s, free, asize) ==
  LET fits == {i \in DOMAIN free : asize <= s.size[free[i]]}
      best == {i \in fits : \A j \in fits : s.size[free[i]] <= s.size[free[j]]}
  IN free[Min(IF BEST_FIT THEN best ELSE fits)]

\* The new block is the last one.
list_extend(s, free, words) ==
  LET t == extend_heap(s, words)
  IN Result(t, IF t.bp = NULL THEN free ELSE Pushed(t, free, PREV_BLKP(s, s.top), t.top))

list_place(o, b, asize) ==
  LET t == place(o.heap, b, asize) IN Result(t, Replaced(t, o.list, b))

list_malloc(s, free, n) ==
  LET asize == Adjusted(n)
      more == list_extend(s, free, Larger(asize, CHUNKSIZE))
  IN IF n = 0 THEN Result([s EXCEPT !.bp = NULL], free)
     ELSE IF Fits(s, asize) # {} THEN list_place(Result(s, free), list_fit(s, free, asize), asize)
     ELSE IF more.heap.bp = NULL THEN more ELSE list_place(more, more.heap.bp, asize)

list_free(s, free, b) ==
  LET t == mm_free(s, b)
  IN Result(t, IF b = NULL THEN free
               ELSE Pushed(t, free, PREV_BLKP(s, b), NEXT_BLKP(s, b)))

list_realloc(s, free, ptr, n) ==
  LET new == list_malloc(s, free, n)
      freed == list_free(new.heap, new.list, ptr)
      gone == list_free(s, free, ptr)
  IN IF n = 0 THEN [gone EXCEPT !.heap.bp = NULL]
     ELSE IF ptr = NULL \/ new.heap.bp = NULL THEN new
     ELSE [freed EXCEPT !.heap.bp = new.heap.bp]

-----------------------------------------------------------------------------
ListMalloc(o, p) == \E n \in Sizes : p = list_malloc(o.heap, o.list, n)
ListFree(o, p) == \E b \in Live(o.heap) : p = list_free(o.heap, o.list, b)
ListRealloc(o, p) ==
  \E b \in Live(o.heap), n \in Sizes : p = list_realloc(o.heap, o.list, b, n)
ListRestart(p) == p = Result(mm_init, <<mm_init.bp>>)
ListCall(o, p) == ListRestart(p) \/ ListMalloc(o, p) \/ ListFree(o, p) \/ ListRealloc(o, p)

ListInit == h = mm_init /\ list = <<mm_init.bp>>
ListNext == ListCall(Result(h, list), Result(h', list'))
ListSpec == ListInit /\ [][ListNext]_<<h, list>>

\* The free blocks are in the list, each once, and nothing else (mm_copy.c:645).
FreeBlocks(s) == {b \in DOMAIN s.size : IsFree(s, b)}
EachFreeOnce == Range(list) = FreeBlocks(h) /\ IsInjective(list)
=============================================================================
