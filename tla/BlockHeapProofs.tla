-------------------------- MODULE BlockHeapProofs --------------------------
(***************************************************************************)
(* The blocks of the allocators tile the heap, two free blocks are never   *)
(* neighbours, and a block that stays allocated is not touched: for every  *)
(* heap size, chunk size and request.                                      *)
(***************************************************************************)
EXTENDS RoverHeap, FreeListHeap, Induction, SequenceTheorems

\* A heap is made of natural numbers.
HeapType(s) ==
  s \in [size : UNION {[D -> Nat] : D \in SUBSET Nat}, used : SUBSET Nat, top : Nat, bp : Nat]

\* The blocks from the prologue to the epilogue, aligned, one after the other.
Layout(s) ==
  /\ Overhead \in s.used /\ s.used \subseteq DOMAIN s.size /\ s.size[Overhead] = Overhead
  /\ s.top % 2 = 0
  /\ \A b \in DOMAIN s.size : b >= Overhead /\ b % 2 = 0 /\ s.size[b] % 2 = 0
  /\ \A b \in DOMAIN s.size : s.size[b] > 0 /\ (b # Overhead => s.size[b] >= MinBlock)
  /\ \A b \in DOMAIN s.size : b + s.size[b] <= s.top /\ b + s.size[b] \in DOMAIN s.size \cup {s.top}
  /\ \A b \in DOMAIN s.size \cup {s.top} : b # Overhead => \E p \in DOMAIN s.size : p + s.size[p] = b
  /\ \A b, c \in DOMAIN s.size : b < c => b + s.size[b] <= c

\* Two free neighbours: at most around block b, which is yet to be coalesced.
MergedBut(s, b) ==
  \A c \in DOMAIN s.size :
    IsFree(s, c) /\ IsFree(s, NEXT_BLKP(s, c)) => b \in {c, NEXT_BLKP(s, c)}

\* The inductive invariant of a heap between two calls; NULL is no block.
HeapInv(s) == HeapType(s) /\ Layout(s) /\ MergedBut(s, NULL) /\ s.bp \in DOMAIN s.size \cup {NULL}

\* From s to t no block that stays allocated has moved or changed its size.
Kept(s, t) == \A c \in s.used \cap t.used : t.size[c] = s.size[c]

-----------------------------------------------------------------------------
\* The components of a heap, and the other way round.
LEMMA HeapParts ==
  ASSUME NEW s, HeapType(s)
  PROVE  /\ DOMAIN s.size \in SUBSET Nat /\ s.size \in [DOMAIN s.size -> Nat]
         /\ s.used \in SUBSET Nat /\ s.top \in Nat /\ s.bp \in Nat
         /\ s = [size |-> s.size, used |-> s.used, top |-> s.top, bp |-> s.bp]
  BY DEF HeapType

LEMMA HeapOfParts ==
  ASSUME NEW D \in SUBSET Nat, NEW f \in [D -> Nat], NEW u \in SUBSET Nat,
         NEW t \in Nat, NEW p \in Nat
  PROVE  HeapType([size |-> f, used |-> u, top |-> t, bp |-> p])
  BY DEF HeapType

\* At most one block ends where b starts.
LEMMA PrevIs ==
  ASSUME NEW s, HeapType(s), Layout(s), NEW b, NEW p \in DOMAIN s.size, NEXT_BLKP(s, p) = b
  PROVE  PREV_BLKP(s, b) = p
<1> USE HeapParts
<1>1. ASSUME NEW q \in DOMAIN s.size, NEXT_BLKP(s, q) = b PROVE q = p
  <2>1. p \in Nat /\ q \in Nat /\ s.size[p] \in Nat /\ s.size[q] \in Nat
    OBVIOUS
  <2>2. ~(p < q) /\ ~(q < p)
    BY <1>1, <2>1 DEF Layout, NEXT_BLKP
  <2> QED BY <2>1, <2>2
<1> QED BY <1>1 DEF PREV_BLKP

-----------------------------------------------------------------------------
\* coalesce (mm.c:157): when at most the neighbours of the free block b are
\* free beside it, the result has no two free neighbours, and the allocated
\* blocks are as they were.
LEMMA Coalesced ==
  ASSUME NEW s, HeapParams, HeapType(s), Layout(s), NEW b \in DOMAIN s.size, b \notin s.used,
         MergedBut(s, b)
  PROVE  LET t == coalesce(s, b)
         IN /\ HeapInv(t) /\ t.used = s.used /\ t.top = s.top /\ Kept(s, t)
            /\ t.bp \in DOMAIN t.size /\ t.bp \notin t.used /\ t.size[t.bp] >= s.size[b]
            /\ \A c \in DOMAIN s.size : \/ c \in DOMAIN t.size
                                       \/ /\ c \in {b, NEXT_BLKP(s, b)}
                                          /\ t.bp < c /\ c < NEXT_BLKP(t, t.bp)
            /\ t.bp \in {b, PREV_BLKP(s, b)}
            /\ FreeBlocks(t) =
                 (FreeBlocks(s) \ {b, PREV_BLKP(s, b), NEXT_BLKP(s, b)}) \cup {t.bp}
<1> DEFINE prev == PREV_BLKP(s, b)
           next == NEXT_BLKP(s, b)
           start == IF IsFree(s, prev) THEN prev ELSE b
           end == IF IsFree(s, next) THEN NEXT_BLKP(s, next) ELSE next
           gone == {c \in {b, next} : start < c /\ c < end}
           D == DOMAIN s.size \ gone
           f == [c \in D |-> IF c = start THEN end - start ELSE s.size[c]]
           t == coalesce(s, b)
<1>1. t = [size |-> f, used |-> s.used, top |-> s.top, bp |-> start]
  BY DEF coalesce
<1>2. /\ DOMAIN s.size \in SUBSET Nat /\ s.size \in [DOMAIN s.size -> Nat]
      /\ s.used \in SUBSET Nat /\ s.top \in Nat /\ b \in Nat
  BY HeapParts
<1>3. b # Overhead /\ Overhead \in Nat /\ Overhead >= 2 /\ MinBlock \in Nat
  BY DEF Layout, HeapParams
<1>4. prev \in DOMAIN s.size /\ prev + s.size[prev] = b /\ prev < b
  <2>1. PICK p \in DOMAIN s.size : p + s.size[p] = b
    BY <1>3 DEF Layout
  <2>2. prev = p
    BY <2>1, PrevIs DEF NEXT_BLKP
  <2>3. s.size[p] > 0
    BY DEF Layout
  <2> QED BY <1>2, <2>1, <2>2, <2>3
<1>5. next = b + s.size[b] /\ next \in Nat /\ next > b /\ next \in DOMAIN s.size \cup {s.top}
  BY <1>2 DEF NEXT_BLKP, Layout
<1>6. s.top \notin DOMAIN s.size
  BY <1>2 DEF Layout
<1> HIDE DEF prev, next
<1>7. /\ start \in DOMAIN s.size /\ start \notin s.used /\ start <= b
      /\ start = b \/ start = prev
  BY <1>2, <1>4 DEF IsFree
<1>8. /\ end \in DOMAIN s.size \cup {s.top} /\ end \in Nat /\ next <= end
      /\ end = next \/ (next \in DOMAIN s.size /\ next \notin s.used /\ end = next + s.size[next])
  <2>1. CASE ~IsFree(s, next)
    BY <1>2, <1>5, <2>1
  <2>2. CASE IsFree(s, next)
    <3>1. next \in DOMAIN s.size /\ next \notin s.used /\ end = next + s.size[next]
      BY <2>2 DEF IsFree, NEXT_BLKP
    <3> QED BY <1>2, <3>1 DEF Layout
  <2> QED BY <2>1, <2>2
<1>9. ~IsFree(s, end)
  <2>1. CASE ~IsFree(s, next)
    BY <2>1
  <2>2. CASE IsFree(s, next)
    <3>1. next \in DOMAIN s.size /\ end = NEXT_BLKP(s, next) /\ end > next
      BY <1>2, <2>2 DEF IsFree, NEXT_BLKP, Layout
    <3>2. b # next /\ b # end
      BY <1>2, <1>5, <1>8, <3>1
    <3> QED BY <2>2, <3>1, <3>2 DEF MergedBut
  <2> QED BY <2>1, <2>2
<1>10. \A c \in DOMAIN s.size : NEXT_BLKP(s, c) = start => ~IsFree(s, c)
  <2> SUFFICES ASSUME NEW c \in DOMAIN s.size, NEXT_BLKP(s, c) = start, IsFree(s, c)
               PROVE  FALSE
    OBVIOUS
  <2>1. CASE IsFree(s, prev)
    <3>1. start = prev /\ c < prev
      BY <1>2, <2>1 DEF NEXT_BLKP, Layout
    <3>2. b # c /\ b # start
      BY <1>2, <1>4, <3>1
    <3> QED BY <2>1, <3>1, <3>2 DEF MergedBut
  <2>2. CASE ~IsFree(s, prev)
    <3>1. start = b /\ NEXT_BLKP(s, prev) = b
      BY <1>4, <2>2 DEF NEXT_BLKP
    <3>2. PREV_BLKP(s, b) = c /\ PREV_BLKP(s, b) = prev
      BY <3>1, <1>4, PrevIs
    <3> QED BY <2>2, <3>2
  <2> QED BY <2>1, <2>2
<1> HIDE DEF start, end
\* Between start and end there are only b and the next block.
<1>11. \A c \in DOMAIN s.size : c \in gone <=> start < c /\ c < end
  <2> SUFFICES ASSUME NEW c \in DOMAIN s.size, start < c, c < end
               PROVE  c \in {b, next}
    OBVIOUS
  <2>1. c \in Nat /\ start \in Nat /\ prev \in Nat /\ s.size[c] \in Nat
    BY <1>2, <1>4, <1>7
  <2>2. c < b => FALSE
    <3> SUFFICES ASSUME c < b PROVE FALSE
      OBVIOUS
    <3>1. start = prev
      BY <1>7, <2>1
    <3>2. prev + s.size[prev] <= c
      BY <1>4, <3>1 DEF Layout
    <3> QED BY <1>2, <1>4, <2>1, <3>2
  <2>3. b < c => next <= c
    BY <1>5 DEF Layout
  <2>4. next < c => FALSE
    <3> SUFFICES ASSUME next < c PROVE FALSE
      OBVIOUS
    <3>1. next \in DOMAIN s.size /\ end = next + s.size[next]
      BY <1>5, <1>8, <2>1
    <3>2. next + s.size[next] <= c
      BY <3>1 DEF Layout
    <3> QED BY <1>8, <2>1, <3>1, <3>2
  <2> QED BY <1>2, <1>5, <2>1, <2>2, <2>3, <2>4
<1>12. /\ D \in SUBSET Nat /\ start \in D /\ start \in Nat /\ end > start
       /\ gone \cap s.used = {}
       /\ \A c \in D : c \in DOMAIN s.size /\ f[c] = IF c = start THEN end - start ELSE s.size[c]
  <2>1. start \in Nat /\ end > start /\ start \in D
    BY <1>2, <1>5, <1>7, <1>8, <1>11
  <2>2. gone \cap s.used = {}
    BY <1>2, <1>8
  <2> QED BY <1>2, <2>1, <2>2
<1>13. f \in [D -> Nat] /\ DOMAIN f = D
  BY <1>2, <1>8, <1>12
<1>14. HeapType(t)
  BY <1>1, <1>2, <1>12, <1>13, HeapOfParts
<1>15. t.size = f /\ t.used = s.used /\ t.top = s.top /\ t.bp = start
  BY <1>1
\* Every block of t ends where it did, or at end.
<1>16. \A c \in D : /\ c # start => c + f[c] = c + s.size[c] /\ c + f[c] \in D \cup {s.top}
                    /\ c = start => c + f[c] = end /\ end \in D \cup {s.top}
  <2> SUFFICES ASSUME NEW c \in D
               PROVE  /\ c # start => c + f[c] = c + s.size[c] /\ c + f[c] \in D \cup {s.top}
                      /\ c = start => c + f[c] = end /\ end \in D \cup {s.top}
    OBVIOUS
  <2>1. c = start => c + f[c] = end /\ end \in D \cup {s.top}
    BY <1>2, <1>8, <1>11, <1>12
  <2>2. ASSUME c # start PROVE c + s.size[c] \notin gone
    <3> SUFFICES ASSUME c + s.size[c] \in gone PROVE FALSE
      OBVIOUS
    <3>1. start < c + s.size[c] /\ c + s.size[c] < end /\ c \in DOMAIN s.size
      BY <1>12
    <3>2. c < start => c + s.size[c] <= start
      BY <1>7, <3>1 DEF Layout
    <3>3. start < c /\ c < end
      BY <1>2, <1>8, <1>12, <2>2, <3>1, <3>2
    <3> QED BY <1>11, <1>12, <3>1, <3>3
  <2>3. c + s.size[c] \in DOMAIN s.size \cup {s.top}
    BY <1>12 DEF Layout
  <2> QED BY <1>12, <2>1, <2>2, <2>3
<1>17. Layout(t)
  <2>1. end <= s.top /\ end - start >= s.size[b] /\ end - start \in Nat
    BY <1>2, <1>5, <1>7, <1>8, <1>12 DEF Layout
  <2>2. Overhead \in s.used /\ s.used \subseteq D /\ f[Overhead] = Overhead /\ s.top % 2 = 0
    BY <1>7, <1>12 DEF Layout
  <2>3. ASSUME NEW c \in D
        PROVE  /\ c >= Overhead /\ c % 2 = 0 /\ f[c] % 2 = 0
               /\ f[c] > 0 /\ (c # Overhead => f[c] >= MinBlock)
               /\ c + f[c] <= s.top /\ c + f[c] \in D \cup {s.top}
    <3>1. c \in DOMAIN s.size /\ c >= Overhead /\ c % 2 = 0
      BY <1>12 DEF Layout
    <3>2. CASE c # start
      <4>1. f[c] = s.size[c]
        BY <1>12, <2>3, <3>2
      <4>3. c + f[c] \in D \cup {s.top}
        BY <1>16, <3>2
      <4>2. /\ s.size[c] % 2 = 0 /\ s.size[c] > 0 /\ (c # Overhead => s.size[c] >= MinBlock)
            /\ c + s.size[c] <= s.top
        BY <3>1 DEF Layout
      <4> HIDE DEF f, D
      <4> QED BY <3>1, <4>1, <4>2, <4>3
    <3>3. CASE c = start
      <4>1. end % 2 = 0 /\ start % 2 = 0
        BY <1>7, <1>8 DEF Layout
      <4>2. (end - start) % 2 = 0
        BY <1>8, <1>12, <4>1
      <4>3. s.size[b] > 0 /\ s.size[b] >= MinBlock /\ s.size[b] \in Nat
        BY <1>2, <1>3 DEF Layout
      <4>4. f[c] = end - start /\ c + f[c] = end /\ end \in D \cup {s.top}
        BY <1>12, <1>16, <3>3
      <4> QED BY <1>2, <1>3, <1>8, <2>1, <3>1, <4>2, <4>3, <4>4
    <3> QED BY <3>2, <3>3
  <2>4. ASSUME NEW c \in D \cup {s.top}, c # Overhead PROVE \E p \in D : p + f[p] = c
    <3>1. PICK p \in DOMAIN s.size : p + s.size[p] = c
      BY <1>12, <2>4 DEF Layout
    <3>2. CASE p \in D /\ p # start
      BY <1>16, <3>1, <3>2
    <3>3. CASE p \in gone \cup {start}
      <4>1. start <= p /\ p < end /\ p < c /\ c \in Nat /\ p \in Nat
        BY <1>2, <1>11, <1>12, <3>1, <3>3 DEF Layout
      <4>2. c <= end
        BY <1>2, <1>8, <3>1, <4>1 DEF Layout
      <4>3. c = end
        <5>1. CASE c = s.top
          BY <1>2, <1>8, <2>1, <4>2, <5>1
        <5>2. CASE c \in D
          BY <1>8, <1>11, <1>12, <4>1, <4>2, <5>2
        <5> QED BY <5>1, <5>2
      <4> QED BY <1>12, <1>16, <4>3
    <3> QED BY <3>2, <3>3
  <2>5. ASSUME NEW c \in D, NEW d \in D, c < d PROVE c + f[c] <= d
    <3>1. CASE c = start
      BY <1>2, <1>8, <1>11, <1>12, <1>16, <2>5, <3>1
    <3>2. CASE c # start
      BY <1>12, <1>16, <2>5, <3>2 DEF Layout
    <3> QED BY <3>1, <3>2
  <2>6. DOMAIN t.size = D /\ t.size = f /\ t.used = s.used /\ t.top = s.top
    BY <1>13, <1>15
  <2> HIDE DEF t, f, D
  <2>7. \A c \in DOMAIN t.size : c >= Overhead /\ c % 2 = 0 /\ t.size[c] % 2 = 0
    BY <2>3, <2>6
  <2>8. \A c \in DOMAIN t.size : t.size[c] > 0 /\ (c # Overhead => t.size[c] >= MinBlock)
    BY <2>3, <2>6
  <2>9. \A c \in DOMAIN t.size :
          c + t.size[c] <= t.top /\ c + t.size[c] \in DOMAIN t.size \cup {t.top}
    BY <2>3, <2>6
  <2>10. \A c \in DOMAIN t.size \cup {t.top} :
           c # Overhead => \E p \in DOMAIN t.size : p + t.size[p] = c
    BY <2>4, <2>6
  <2>11. \A c, d \in DOMAIN t.size : c < d => c + t.size[c] <= d
    BY <2>5, <2>6
  <2> QED BY <2>2, <2>6, <2>7, <2>8, <2>9, <2>10, <2>11 DEF Layout
<1>18. MergedBut(t, NULL)
  <2> SUFFICES ASSUME NEW c \in D, c \notin s.used, c + f[c] \in D, c + f[c] \notin s.used
               PROVE  FALSE
    BY <1>13, <1>15 DEF MergedBut, IsFree, NEXT_BLKP
  <2>1. CASE c = start
    BY <1>9, <1>12, <1>16, <2>1 DEF IsFree
  <2>2. CASE c # start
    <3>1. c \in DOMAIN s.size /\ NEXT_BLKP(s, c) \in D /\ NEXT_BLKP(s, c) \notin s.used
      BY <1>12, <1>16, <2>2 DEF NEXT_BLKP
    <3>2. IsFree(s, c) /\ IsFree(s, NEXT_BLKP(s, c))
      BY <1>12, <3>1 DEF IsFree
    <3>3. NEXT_BLKP(s, c) # start
      BY <1>10, <3>1, <3>2
    <3>4. b \in {c, NEXT_BLKP(s, c)}
      BY <3>1, <3>2 DEF MergedBut
    <3>5. b \in D /\ b # start
      BY <2>2, <3>1, <3>3, <3>4
    <3> QED BY <1>2, <1>5, <1>7, <1>8, <1>11, <1>12, <3>5
  <2> QED BY <2>1, <2>2
<1>19. Kept(s, t)
  BY <1>2, <1>7, <1>12, <1>15 DEF Kept, Layout
<1>20. t.size[t.bp] >= s.size[b]
  BY <1>2, <1>5, <1>7, <1>8, <1>12, <1>15
<1>21. t.bp \in DOMAIN t.size /\ t.bp \notin t.used /\ t.used = s.used /\ t.top = s.top
  BY <1>7, <1>12, <1>13, <1>15
<1>22. NEXT_BLKP(t, t.bp) = end
  BY <1>12, <1>15, <1>16 DEF NEXT_BLKP
<1>23. \A c \in DOMAIN s.size : \/ c \in DOMAIN t.size
                               \/ /\ c \in {b, NEXT_BLKP(s, b)}
                                  /\ t.bp < c /\ c < NEXT_BLKP(t, t.bp)
  BY <1>13, <1>15, <1>22 DEF next
<1>24. FreeBlocks(t) = (FreeBlocks(s) \ {b, prev, next}) \cup {start}
  <2>1. DOMAIN t.size = D /\ t.used = s.used
    BY <1>13, <1>15
  <2>2. ASSUME NEW c \in DOMAIN s.size, c \notin s.used, c # start
        PROVE  c \in gone <=> c \in {b, prev, next}
    <3>1. CASE c = prev
      <4>1. IsFree(s, prev)
        BY <2>2, <3>1 DEF IsFree
      <4> QED BY <2>2, <3>1, <4>1 DEF start
    <3>2. CASE c = next /\ c # prev
      <4>1. IsFree(s, next)
        BY <2>2, <3>2 DEF IsFree
      <4>2. end = NEXT_BLKP(s, next)
        BY <4>1 DEF end
      <4>3. end > next
        BY <1>2, <2>2, <3>2, <4>2 DEF NEXT_BLKP, Layout
      <4> QED BY <1>2, <1>5, <1>7, <1>11, <1>12, <2>2, <3>2, <4>3
    <3>3. CASE c = b /\ c # prev /\ c # next
      BY <1>2, <1>5, <1>7, <1>8, <1>11, <1>12, <2>2, <3>3
    <3>4. CASE c \notin {b, prev, next}
      BY <1>11, <3>4
    <3> QED BY <3>1, <3>2, <3>3, <3>4
  <2>3. start \in D /\ start \notin s.used
    BY <1>7, <1>12
  <2> QED BY <2>1, <2>2, <2>3 DEF FreeBlocks, IsFree
<1>25. t.bp \in {b, prev}
  BY <1>7, <1>15
<1> QED BY <1>14, <1>15, <1>17, <1>18, <1>19, <1>20, <1>21, <1>23, <1>24, <1>25
        DEF HeapInv, prev, next

-----------------------------------------------------------------------------
\* What a call returns is not part of the blocks.
LEMMA Returned ==
  ASSUME NEW s, HeapInv(s), NEW p \in DOMAIN s.size \cup {NULL}
  PROVE  LET t == [s EXCEPT !.bp = p]
         IN /\ HeapInv(t) /\ Kept(s, t)
            /\ t.size = s.size /\ t.used = s.used /\ t.top = s.top /\ t.bp = p
<1> DEFINE t == [s EXCEPT !.bp = p]
<1>1. /\ DOMAIN s.size \in SUBSET Nat /\ s.size \in [DOMAIN s.size -> Nat]
      /\ s.used \in SUBSET Nat /\ s.top \in Nat
      /\ s = [size |-> s.size, used |-> s.used, top |-> s.top, bp |-> s.bp]
  BY HeapParts DEF HeapInv
<1>2. t = [size |-> s.size, used |-> s.used, top |-> s.top, bp |-> p] /\ p \in Nat
  BY <1>1 DEF NULL
<1>3. HeapType(t)
  BY <1>1, <1>2, HeapOfParts
<1>4. t.size = s.size /\ t.used = s.used /\ t.top = s.top /\ t.bp = p
  BY <1>2
<1> HIDE DEF t
<1>5. Layout(t) /\ MergedBut(t, NULL) /\ Kept(s, t)
  BY <1>4 DEF HeapInv, Layout, MergedBut, IsFree, NEXT_BLKP, Kept
<1> QED BY <1>3, <1>4, <1>5 DEF HeapInv, t

\* extend_heap (mm.c:253) leaves the blocks as they are and adds a free one,
\* or, when the heap is at its limit, does nothing.
LEMMA ExtendHeap ==
  ASSUME HeapParams, NEW s, HeapInv(s), NEW words \in Nat, words >= MinBlock
  PROVE  LET t == extend_heap(s, words)
         IN /\ HeapInv(t) /\ t.used = s.used /\ Kept(s, t) /\ DOMAIN s.size \subseteq DOMAIN t.size
            /\ t.bp # NULL => /\ t.bp \in DOMAIN t.size /\ t.bp \notin t.used
                              /\ t.size[t.bp] >= words
                              /\ t.bp \notin FreeBlocks(s) \ {PREV_BLKP(s, s.top)}
                              /\ t.top \notin FreeBlocks(s)
                              /\ FreeBlocks(t) =
                                   (FreeBlocks(s) \ {PREV_BLKP(s, s.top)}) \cup {t.bp}
            /\ t.bp = NULL => FreeBlocks(t) = FreeBlocks(s) /\ s.top + Even(words) > Limit
<1> DEFINE size == Even(words)
           top == s.top
           D == DOMAIN s.size \cup {top}
           f == [c \in D |-> IF c = top THEN size ELSE s.size[c]]
           g == [size |-> f, used |-> s.used, top |-> top + size, bp |-> top]
           t == extend_heap(s, words)
<1>1. /\ DOMAIN s.size \in SUBSET Nat /\ s.size \in [DOMAIN s.size -> Nat]
      /\ s.used \in SUBSET Nat /\ top \in Nat
  BY HeapParts DEF HeapInv
<1>2. size \in Nat /\ size >= words /\ size % 2 = 0 /\ size > 0 /\ size >= MinBlock
  BY DEF Even, HeapParams
<1>3. CASE s.top + size > Limit
  <2>1. t = [s EXCEPT !.bp = NULL]
    BY <1>3 DEF extend_heap
  <2> HIDE DEF t
  <2>2. t.size = s.size /\ t.used = s.used /\ t.bp = NULL /\ HeapInv(t) /\ Kept(s, t)
    BY <2>1, Returned
  <2> QED BY <1>3, <2>2 DEF t, FreeBlocks, IsFree
<1>4. CASE ~(s.top + size > Limit)
  <2>1. t = coalesce(g, top)
    BY <1>4 DEF extend_heap
  <2>2. top \notin DOMAIN s.size /\ top \notin s.used /\ top > Overhead /\ top % 2 = 0
    <3>1. Overhead \in DOMAIN s.size /\ s.size[Overhead] = Overhead /\ Overhead \in Nat /\ Overhead >= 2
      BY DEF HeapInv, Layout, HeapParams
    <3>2. Overhead + s.size[Overhead] <= top
      BY <3>1 DEF HeapInv, Layout
    <3>3. \A c \in DOMAIN s.size : s.size[c] > 0 /\ c + s.size[c] <= top
      BY DEF HeapInv, Layout
    <3> QED BY <1>1, <3>1, <3>2, <3>3 DEF HeapInv, Layout
  <2>3. /\ g.size = f /\ g.used = s.used /\ g.top = top + size /\ DOMAIN g.size = D
        /\ f[top] = size /\ \A c \in DOMAIN s.size : f[c] = s.size[c]
    BY <2>2
  <2>4. D \in SUBSET Nat /\ f \in [D -> Nat]
    BY <1>1, <1>2
  <2>5. HeapType(g)
    <3>1. top + size \in Nat
      BY <1>1, <1>2
    <3> HIDE DEF f, size, D, top
    <3> QED BY <1>1, <2>4, <3>1, HeapOfParts
  <2> HIDE DEF size, f, g, t
  <2>6. Layout(g)
    <3>1. Overhead \in g.used /\ g.used \subseteq D /\ f[Overhead] = Overhead /\ g.top % 2 = 0
      <4>1. (top + size) % 2 = 0
        BY <1>1, <1>2, <2>2
      <4>2. Overhead \in DOMAIN s.size
        BY DEF HeapInv, Layout
      <4> QED BY <2>3, <4>1, <4>2 DEF HeapInv, Layout
    <3>2. ASSUME NEW c \in D
          PROVE  /\ c >= Overhead /\ c % 2 = 0 /\ f[c] % 2 = 0
                 /\ f[c] > 0 /\ (c # Overhead => f[c] >= MinBlock)
                 /\ c + f[c] <= g.top /\ c + f[c] \in D \cup {g.top}
      <4>1. CASE c = top
        BY <1>1, <1>2, <2>2, <2>3, <4>1 DEF HeapParams
      <4>2. CASE c \in DOMAIN s.size
        <5>1. /\ c >= Overhead /\ c % 2 = 0 /\ s.size[c] % 2 = 0
              /\ s.size[c] > 0 /\ (c # Overhead => s.size[c] >= MinBlock)
              /\ c + s.size[c] <= top /\ c + s.size[c] \in DOMAIN s.size \cup {top}
          BY <4>2 DEF HeapInv, Layout
        <5> QED BY <1>1, <1>2, <2>3, <4>2, <5>1
      <4> QED BY <4>1, <4>2
    <3>3. ASSUME NEW c \in D \cup {g.top}, c # Overhead PROVE \E p \in D : p + f[p] = c
      <4>1. CASE c = g.top
        BY <2>3, <4>1
      <4>2. CASE c \in D
        <5>1. PICK p \in DOMAIN s.size : p + s.size[p] = c
          BY <3>3, <4>2 DEF HeapInv, Layout
        <5> QED BY <2>3, <5>1
      <4> QED BY <4>1, <4>2
    <3>4. ASSUME NEW c \in D, NEW d \in D, c < d PROVE c + f[c] <= d
      <4>1. c \in DOMAIN s.size
        <5>1. d <= top
          BY <1>1, <2>3, <3>2 DEF HeapInv, Layout
        <5> QED BY <1>1, <3>4, <5>1
      <4>2. c + s.size[c] <= top /\ (d \in DOMAIN s.size => c + s.size[c] <= d)
        BY <3>4, <4>1 DEF HeapInv, Layout
      <4> QED BY <2>3, <4>1, <4>2
    <3>5. /\ \A c \in D : c >= Overhead /\ c % 2 = 0 /\ f[c] % 2 = 0
          /\ \A c \in D : f[c] > 0 /\ (c # Overhead => f[c] >= MinBlock)
          /\ \A c \in D : c + f[c] <= g.top /\ c + f[c] \in D \cup {g.top}
      BY <3>2
    <3> HIDE DEF D
    <3> QED BY <2>3, <3>1, <3>3, <3>4, <3>5 DEF Layout
  <2>7. MergedBut(g, top)
    <3> SUFFICES ASSUME NEW c \in D, IsFree(g, c), IsFree(g, NEXT_BLKP(g, c)),
                        c # top, NEXT_BLKP(g, c) # top
                 PROVE  FALSE
      BY <2>3 DEF MergedBut
    <3>1. c \in DOMAIN s.size /\ NEXT_BLKP(g, c) = NEXT_BLKP(s, c)
      BY <2>3 DEF NEXT_BLKP
    <3>2. IsFree(s, c) /\ IsFree(s, NEXT_BLKP(s, c))
      BY <2>3, <3>1 DEF IsFree
    <3>3. NULL \notin DOMAIN s.size
      BY <1>1 DEF HeapInv, Layout, HeapParams, NULL
    <3> QED BY <3>1, <3>2, <3>3 DEF HeapInv, MergedBut, IsFree
  <2>8. /\ HeapInv(t) /\ t.used = g.used /\ Kept(g, t)
        /\ t.bp \in DOMAIN t.size /\ t.bp \notin t.used /\ t.size[t.bp] >= g.size[top]
        /\ \A c \in D : c \in DOMAIN t.size \/ c \in {top, NEXT_BLKP(g, top)}
        /\ t.top = g.top /\ t.bp \in {top, PREV_BLKP(g, top)}
        /\ FreeBlocks(t) =
             (FreeBlocks(g) \ {top, PREV_BLKP(g, top), NEXT_BLKP(g, top)}) \cup {t.bp}
    BY <2>1, <2>2, <2>3, <2>5, <2>6, <2>7, Coalesced
  <2>9. Kept(s, t)
    BY <2>2, <2>3, <2>8 DEF Kept, HeapInv, Layout
  <2>10. t.size[t.bp] >= words
    <3>1. t.size[t.bp] \in Nat
      BY <2>8, HeapParts DEF HeapInv
    <3> QED BY <1>2, <2>3, <2>8, <3>1
  <2>11. DOMAIN s.size \subseteq DOMAIN t.size
    <3>1. NEXT_BLKP(g, top) = g.top /\ \A c \in DOMAIN s.size : c < g.top
      BY <1>1, <1>2, <2>3 DEF NEXT_BLKP, HeapInv, Layout
    <3> QED BY <1>1, <2>2, <2>8, <3>1
  <2>12. PREV_BLKP(g, top) = PREV_BLKP(s, top)
    <3>1. PICK p \in DOMAIN s.size : NEXT_BLKP(s, p) = top
      BY <2>2 DEF HeapInv, Layout, NEXT_BLKP
    <3>2. p \in DOMAIN g.size /\ NEXT_BLKP(g, p) = top
      BY <2>3, <3>1 DEF NEXT_BLKP
    <3>3. PREV_BLKP(s, top) = p
      BY <3>1, PrevIs DEF HeapInv
    <3>4. PREV_BLKP(g, top) = p
      BY <2>5, <2>6, <3>2, PrevIs
    <3> QED BY <3>3, <3>4
  <2>13. top \notin FreeBlocks(s) /\ g.top \notin DOMAIN s.size /\ NEXT_BLKP(g, top) = g.top
    <3>1. \A c \in DOMAIN s.size : c + s.size[c] <= top /\ s.size[c] \in Nat /\ c \in Nat
      BY <1>1 DEF HeapInv, Layout
    <3>2. g.top \notin DOMAIN s.size
      BY <1>1, <1>2, <2>3, <3>1
    <3> QED BY <2>2, <2>3, <3>2 DEF FreeBlocks, NEXT_BLKP
  <2>14. FreeBlocks(g) = FreeBlocks(s) \cup {top}
    BY <2>2, <2>3 DEF FreeBlocks, IsFree
  <2>15. FreeBlocks(t) = (FreeBlocks(s) \ {PREV_BLKP(s, top)}) \cup {t.bp}
    <3>1. FreeBlocks(t) = ((FreeBlocks(s) \cup {top}) \ {top, PREV_BLKP(s, top), g.top}) \cup {t.bp}
      BY <2>8, <2>12, <2>13, <2>14
    <3>2. g.top \notin FreeBlocks(s)
      BY <2>13 DEF FreeBlocks
    <3> QED BY <2>13, <3>1, <3>2
  <2>16. t.bp \notin FreeBlocks(s) \ {PREV_BLKP(s, top)} /\ t.top \notin FreeBlocks(s)
    BY <2>8, <2>12, <2>13 DEF FreeBlocks
  <2>17. t.bp # NULL
    BY <2>8, HeapParts DEF HeapInv, Layout, HeapParams, NULL
  <2> QED BY <2>3, <2>8, <2>9, <2>10, <2>11, <2>15, <2>16, <2>17 DEF t
<1> QED BY <1>3, <1>4

\* place (mm.c:279) allocates the free block b and may cut off its end: no
\* other block changes, and what is cut off has no free neighbour.
LEMMA Place ==
  ASSUME HeapParams, NEW s, HeapInv(s), NEW b \in DOMAIN s.size, b \notin s.used,
         NEW asize \in Nat, asize % 2 = 0, asize >= MinBlock, asize <= s.size[b]
  PROVE  LET t == place(s, b, asize)
         IN /\ HeapInv(t) /\ Kept(s, t) /\ t.used = s.used \cup {b}
            /\ t.bp = b /\ t.size[b] >= asize /\ DOMAIN s.size \subseteq DOMAIN t.size
            /\ NEXT_BLKP(t, b) \in Nat \ FreeBlocks(s)
            /\ FreeBlocks(t) = (FreeBlocks(s) \ {b}) \cup
                 (IF IsFree(t, NEXT_BLKP(t, b)) THEN {NEXT_BLKP(t, b)} ELSE {})
<1> DEFINE rest == s.size[b] - asize
           D == DOMAIN s.size \cup {b + asize}
           f == [c \in D |-> IF c = b THEN asize ELSE IF c = b + asize THEN rest ELSE s.size[c]]
           t == place(s, b, asize)
<1>1. /\ DOMAIN s.size \in SUBSET Nat /\ s.size \in [DOMAIN s.size -> Nat]
      /\ s.used \in SUBSET Nat /\ s.top \in Nat /\ b \in Nat
  BY HeapParts DEF HeapInv
<1>2. t = [size |-> IF rest >= MinBlock THEN f ELSE s.size,
           used |-> s.used \cup {b}, top |-> s.top, bp |-> b]
  BY DEF place
<1>3. /\ b # Overhead /\ b % 2 = 0 /\ s.size[b] % 2 = 0 /\ b + s.size[b] \in DOMAIN s.size \cup {s.top}
      /\ b + s.size[b] <= s.top /\ MinBlock \in Nat /\ MinBlock > 0 /\ b > Overhead /\ Overhead \in Nat
  BY <1>1 DEF HeapInv, Layout, HeapParams
\* The block behind b is not free.
<1>4. b + s.size[b] \notin DOMAIN s.size \/ b + s.size[b] \in s.used
  <2>1. b # NULL /\ NEXT_BLKP(s, b) # NULL
    BY <1>1, <1>3 DEF NULL, NEXT_BLKP
  <2> QED BY <2>1 DEF HeapInv, MergedBut, IsFree, NEXT_BLKP
<1>5. CASE ~(rest >= MinBlock)
  <2>1. /\ t = [size |-> s.size, used |-> s.used \cup {b}, top |-> s.top, bp |-> b]
        /\ s.used \cup {b} \in SUBSET Nat
    BY <1>1, <1>2, <1>5
  <2>2. HeapType(t)
    <3> HIDE DEF t
    <3>1. HeapType([size |-> s.size, used |-> s.used \cup {b}, top |-> s.top, bp |-> b])
      BY <1>1, <2>1, HeapOfParts
    <3> QED BY <2>1, <3>1
  <2>3. t.size = s.size /\ t.used = s.used \cup {b} /\ t.top = s.top /\ t.bp = b
    BY <2>1
  <2> HIDE DEF t
  <2>4. Layout(t) /\ MergedBut(t, NULL) /\ Kept(s, t)
    BY <2>3 DEF HeapInv, Layout, MergedBut, IsFree, NEXT_BLKP, Kept
  <2>5. NEXT_BLKP(t, b) \in Nat \ FreeBlocks(s) /\ ~IsFree(t, NEXT_BLKP(t, b))
    BY <1>1, <1>4, <2>3 DEF NEXT_BLKP, FreeBlocks, IsFree
  <2>6. FreeBlocks(t) = FreeBlocks(s) \ {b}
    BY <2>3 DEF FreeBlocks, IsFree
  <2> QED BY <2>2, <2>3, <2>4, <2>5, <2>6 DEF HeapInv, t
<1>6. CASE rest >= MinBlock
  <2>1. /\ rest \in Nat /\ rest > 0 /\ rest % 2 = 0 /\ asize > 0 /\ asize + rest = s.size[b]
        /\ b + asize \in Nat /\ (b + asize) % 2 = 0
    BY <1>1, <1>3, <1>6
  \* No block starts inside b.
  <2>2. \A c \in DOMAIN s.size : c <= b \/ b + s.size[b] <= c
    BY <1>1 DEF HeapInv, Layout
  <2>3. b + asize \notin DOMAIN s.size
    BY <1>1, <1>3, <2>1, <2>2
  <2>4. /\ t = [size |-> f, used |-> s.used \cup {b}, top |-> s.top, bp |-> b]
        /\ s.used \cup {b} \in SUBSET Nat
    BY <1>1, <1>2, <1>6
  <2>5. /\ D \in SUBSET Nat /\ f \in [D -> Nat] /\ f[b] = asize /\ f[b + asize] = rest
        /\ \A c \in DOMAIN s.size : c # b => f[c] = s.size[c]
        /\ DOMAIN f = D
    BY <1>1, <2>1, <2>3
  <2>6. HeapType(t)
    <3> HIDE DEF f, D, t
    <3>1. HeapType([size |-> f, used |-> s.used \cup {b}, top |-> s.top, bp |-> b])
      BY <1>1, <2>4, <2>5, HeapOfParts
    <3> QED BY <2>4, <3>1
  <2>7. t.size = f /\ DOMAIN t.size = D /\ t.used = s.used \cup {b} /\ t.top = s.top /\ t.bp = b
    BY <2>4, <2>5
  <2> HIDE DEF t, f, rest
  <2>8. ASSUME NEW c \in D
        PROVE  /\ c >= Overhead /\ c % 2 = 0 /\ f[c] % 2 = 0
               /\ f[c] > 0 /\ (c # Overhead => f[c] >= MinBlock)
               /\ c + f[c] <= s.top /\ c + f[c] \in D \cup {s.top}
    <3>1. CASE c = b
      BY <1>1, <1>3, <2>1, <2>5, <3>1
    <3>2. CASE c = b + asize
      BY <1>1, <1>3, <1>6, <2>1, <2>5, <3>2
    <3>3. CASE c \in DOMAIN s.size /\ c # b
      <4>1. /\ c >= Overhead /\ c % 2 = 0 /\ s.size[c] % 2 = 0
            /\ s.size[c] > 0 /\ (c # Overhead => s.size[c] >= MinBlock)
            /\ c + s.size[c] <= s.top /\ c + s.size[c] \in DOMAIN s.size \cup {s.top}
        BY <3>3 DEF HeapInv, Layout
      <4> QED BY <2>5, <3>3, <4>1
    <3> QED BY <3>1, <3>2, <3>3
  <2>9. ASSUME NEW c \in D \cup {s.top}, c # Overhead PROVE \E p \in D : p + f[p] = c
    <3>1. CASE c = b + asize
      BY <2>5, <3>1
    <3>2. CASE c \in DOMAIN s.size \cup {s.top}
      <4>1. PICK p \in DOMAIN s.size : p + s.size[p] = c
        BY <2>9, <3>2 DEF HeapInv, Layout
      <4>2. CASE p # b
        BY <2>5, <4>1, <4>2
      <4>3. CASE p = b
        <5>1. (b + asize) + f[b + asize] = c
          BY <1>1, <2>1, <2>5, <4>1, <4>3
        <5> QED BY <5>1
      <4> QED BY <4>2, <4>3
    <3> QED BY <3>1, <3>2
  <2>10. ASSUME NEW c \in D, NEW d \in D, c < d PROVE c + f[c] <= d
    <3>1. CASE c = b
      <4>1. d = b + asize \/ (d \in DOMAIN s.size /\ b + s.size[b] <= d)
        BY <1>1, <2>2, <2>10, <3>1
      <4> QED BY <1>1, <2>1, <2>5, <3>1, <4>1
    <3>2. CASE c = b + asize
      <4>1. d \in DOMAIN s.size /\ b + s.size[b] <= d
        BY <1>1, <2>1, <2>2, <2>10, <3>2
      <4> QED BY <1>1, <2>1, <2>5, <3>2, <4>1
    <3>3. CASE c \in DOMAIN s.size /\ c # b
      <4>1. CASE d \in DOMAIN s.size
        BY <2>5, <2>10, <3>3, <4>1 DEF HeapInv, Layout
      <4>2. CASE d = b + asize
        <5>1. c < b
          BY <1>1, <2>1, <2>2, <2>10, <3>3, <4>2
        <5>2. c + s.size[c] <= b
          BY <3>3, <5>1 DEF HeapInv, Layout
        <5> QED BY <1>1, <2>1, <2>5, <3>3, <4>2, <5>2
      <4> QED BY <4>1, <4>2
    <3> QED BY <3>1, <3>2, <3>3
  <2>11. Overhead \in t.used /\ t.used \subseteq D /\ f[Overhead] = Overhead /\ t.top % 2 = 0
    <3>1. Overhead \in s.used /\ s.used \subseteq DOMAIN s.size /\ s.size[Overhead] = Overhead
      BY DEF HeapInv, Layout
    <3>2. s.top % 2 = 0
      BY DEF HeapInv, Layout
    <3> QED BY <1>3, <2>5, <2>7, <3>1, <3>2
  <2>12. Layout(t)
    <3>1. /\ \A c \in D : c >= Overhead /\ c % 2 = 0 /\ f[c] % 2 = 0
          /\ \A c \in D : f[c] > 0 /\ (c # Overhead => f[c] >= MinBlock)
          /\ \A c \in D : c + f[c] <= s.top /\ c + f[c] \in D \cup {s.top}
      BY <2>8
    <3> HIDE DEF D
    <3> QED BY <2>7, <2>9, <2>10, <2>11, <3>1 DEF Layout
  <2>13. MergedBut(t, NULL)
    <3> SUFFICES ASSUME NEW c \in D, c \notin t.used, c + f[c] \in D, c + f[c] \notin t.used
                 PROVE  FALSE
      BY <2>7 DEF MergedBut, IsFree, NEXT_BLKP
    <3>1. CASE c = b + asize
      <4>1. c + f[c] = b + s.size[b]
        BY <1>1, <2>1, <2>5, <3>1
      <4>2. c + f[c] # b + asize
        BY <1>1, <2>1, <4>1
      <4> QED BY <1>4, <2>7, <4>1, <4>2
    <3>2. CASE c \in DOMAIN s.size /\ c # b
      <4>1. c + f[c] = c + s.size[c] /\ c + s.size[c] \in DOMAIN s.size \cup {s.top}
        BY <2>5, <3>2 DEF HeapInv, Layout
      <4>2. CASE c + s.size[c] \in DOMAIN s.size
        <5>1. IsFree(s, c) /\ IsFree(s, NEXT_BLKP(s, c))
          BY <2>7, <3>2, <4>1, <4>2 DEF IsFree, NEXT_BLKP
        <5>2. NULL \notin DOMAIN s.size
          BY <1>1 DEF HeapInv, Layout, HeapParams, NULL
        <5> QED BY <3>2, <5>1, <5>2 DEF HeapInv, MergedBut, IsFree
      <4>3. CASE c + s.size[c] = b + asize
        <5>1. b + asize = s.top
          BY <2>3, <4>1, <4>3
        <5> QED BY <1>1, <1>3, <2>1, <5>1
      <4> QED BY <2>7, <4>1, <4>2, <4>3
    <3> QED BY <2>7, <3>1, <3>2
  <2>14. Kept(s, t)
    BY <2>5, <2>7 DEF Kept, HeapInv, Layout
  <2>15. NEXT_BLKP(t, b) = b + asize /\ b + asize \notin FreeBlocks(s)
    BY <2>3, <2>5, <2>7 DEF NEXT_BLKP, FreeBlocks
  <2>16. IsFree(t, b + asize)
    BY <1>1, <2>1, <2>3, <2>7 DEF IsFree, HeapInv, Layout
  <2>17. FreeBlocks(t) = (FreeBlocks(s) \ {b}) \cup {b + asize}
    BY <2>3, <2>7, <2>16 DEF FreeBlocks, IsFree
  <2> QED BY <2>1, <2>5, <2>6, <2>7, <2>12, <2>13, <2>14, <2>15, <2>16, <2>17 DEF HeapInv, t
<1> QED BY <1>5, <1>6

-----------------------------------------------------------------------------
\* mm.c:115: the block of a request has room for it and its overhead.
LEMMA AdjustedSize ==
  ASSUME HeapParams, NEW n \in Sizes
  PROVE  /\ Adjusted(n) \in Nat /\ Adjusted(n) % 2 = 0
         /\ Adjusted(n) >= MinBlock /\ Adjusted(n) >= n + Overhead
<1>1. /\ n \in Nat /\ Overhead \in Nat /\ Overhead % 2 = 0 /\ Overhead >= 2 /\ SizeMod \in Nat
      /\ n + Overhead + 1 < SizeMod /\ MinBlock = Overhead + 2
  BY DEF HeapParams
<1>2. (n + Overhead + 1) % SizeMod = n + Overhead + 1
  BY <1>1
<1>3. CASE n <= 2
  BY <1>1, <1>3 DEF Adjusted
<1>4. CASE ~(n <= 2)
  <2>1. Adjusted(n) = 2 * ((n + Overhead + 1) \div 2)
    BY <1>2, <1>4 DEF Adjusted
  <2> QED BY <1>1, <1>4, <2>1
<1> QED BY <1>3, <1>4

\* mm_malloc (mm.c:94): it returns a block that was not allocated and is large
\* enough, or NULL and allocates nothing; no other block is touched.
LEMMA Mallocs ==
  ASSUME HeapParams, NEW s, HeapInv(s), NEW n \in Sizes, NEW t \in mm_malloc(s, n)
  PROVE  /\ HeapInv(t) /\ Kept(s, t)
         /\ \/ t.bp = NULL /\ t.used = s.used
            \/ /\ t.bp \in DOMAIN t.size /\ t.bp \notin s.used /\ t.used = s.used \cup {t.bp}
               /\ t.size[t.bp] >= n + Overhead
<1> DEFINE asize == Adjusted(n)
<1>1. asize \in Nat /\ asize % 2 = 0 /\ asize >= MinBlock /\ asize >= n + Overhead
  BY AdjustedSize
<1>2. \A r : HeapInv(r) => /\ DOMAIN r.size \in SUBSET Nat /\ r.size \in [DOMAIN r.size -> Nat]
                          /\ r.used \subseteq DOMAIN r.size
  BY HeapParts DEF HeapInv, Layout
<1> HIDE DEF asize
<1>3. CASE n = 0
  <2>1. t = [s EXCEPT !.bp = NULL]
    BY <1>3 DEF mm_malloc
  <2> QED BY <2>1, Returned
<1>4. CASE n # 0 /\ Fits(s, asize) = {}
  <2> DEFINE words == Larger(asize, CHUNKSIZE)
             r == extend_heap(s, words)
  <2>1. t = Placed(r, asize)
    BY <1>4 DEF mm_malloc, Extended, asize
  <2>2. words \in Nat /\ words >= MinBlock /\ words >= asize
    BY <1>1 DEF Larger, HeapParams
  <2>3. /\ HeapInv(r) /\ r.used = s.used /\ Kept(s, r)
        /\ r.bp # NULL => r.bp \in DOMAIN r.size /\ r.bp \notin r.used /\ r.size[r.bp] >= words
    BY <2>2, ExtendHeap
  <2> HIDE DEF r, words
  <2>4. CASE r.bp = NULL
    BY <2>1, <2>3, <2>4 DEF Placed
  <2>5. CASE r.bp # NULL
    <3>1. t = place(r, r.bp, asize) /\ asize <= r.size[r.bp]
      BY <1>1, <1>2, <2>1, <2>2, <2>3, <2>5 DEF Placed
    <3>2. /\ HeapInv(t) /\ Kept(r, t) /\ t.used = r.used \cup {r.bp}
          /\ t.bp = r.bp /\ t.size[r.bp] >= asize
      BY <1>1, <2>3, <2>5, <3>1, Place
    <3>3. Kept(s, t)
      BY <2>3, <3>2 DEF Kept
    <3>4. t.size[t.bp] \in Nat /\ t.bp \in DOMAIN t.size
      BY <1>2, <3>2
    <3> QED BY <1>1, <2>3, <2>5, <3>2, <3>3, <3>4 DEF HeapParams
  <2> QED BY <2>4, <2>5
<1>5. CASE n # 0 /\ Fits(s, asize) # {}
  <2>1. PICK b \in find_fit(s, asize) : t = place(s, b, asize)
    BY <1>5 DEF mm_malloc, asize
  <2>2. b \in DOMAIN s.size /\ b \notin s.used /\ asize <= s.size[b]
    BY DEF find_fit, Fits, IsFree
  <2>3. /\ HeapInv(t) /\ Kept(s, t) /\ t.used = s.used \cup {b}
        /\ t.bp = b /\ t.size[b] >= asize
    BY <1>1, <2>1, <2>2, Place
  <2>4. t.size[b] \in Nat /\ b \in DOMAIN t.size
    BY <1>2, <2>3
  <2> QED BY <1>1, <2>2, <2>3, <2>4 DEF HeapParams
<1> QED BY <1>3, <1>4, <1>5

\* mm_free (mm.c:134): the block is no longer allocated, the others are as
\* they were, and it has merged with its free neighbours.
LEMMA Frees ==
  ASSUME HeapParams, NEW s, HeapInv(s), NEW b \in Live(s)
  PROVE  LET t == mm_free(s, b)
         IN /\ HeapInv(t) /\ Kept(s, t) /\ t.used = s.used \ {b} /\ t.bp \in DOMAIN t.size
            /\ \A c \in DOMAIN s.size : c \in DOMAIN t.size \/ (t.bp < c /\ c < NEXT_BLKP(t, t.bp))
            /\ t.bp \notin FreeBlocks(s) \ {PREV_BLKP(s, b), NEXT_BLKP(s, b)}
            /\ FreeBlocks(t) = (FreeBlocks(s) \ {PREV_BLKP(s, b), NEXT_BLKP(s, b)}) \cup {t.bp}
<1> DEFINE r == [s EXCEPT !.used = @ \ {b}]
<1>1. /\ DOMAIN s.size \in SUBSET Nat /\ s.size \in [DOMAIN s.size -> Nat]
      /\ s.used \in SUBSET Nat /\ s.top \in Nat /\ s.bp \in Nat
      /\ s = [size |-> s.size, used |-> s.used, top |-> s.top, bp |-> s.bp]
  BY HeapParts DEF HeapInv
<1>2. b \in s.used /\ b # Overhead /\ b \in DOMAIN s.size
  BY DEF Live, HeapInv, Layout
<1>3. NULL \notin DOMAIN s.size
  BY <1>1 DEF HeapInv, Layout, HeapParams, NULL
<1>4. mm_free(s, b) = coalesce(r, b)
  BY <1>2, <1>3 DEF mm_free
<1>5. /\ r = [size |-> s.size, used |-> s.used \ {b}, top |-> s.top, bp |-> s.bp]
      /\ s.used \ {b} \in SUBSET Nat
  BY <1>1
<1>6. HeapType(r)
  BY <1>1, <1>5, HeapOfParts
<1>7. r.size = s.size /\ r.used = s.used \ {b} /\ r.top = s.top
  BY <1>5
<1> HIDE DEF r
<1>8. Layout(r)
  BY <1>2, <1>7 DEF HeapInv, Layout
<1>9. MergedBut(r, b)
  <2> SUFFICES ASSUME NEW c \in DOMAIN s.size, IsFree(r, c), IsFree(r, NEXT_BLKP(r, c)),
                      c # b, NEXT_BLKP(r, c) # b
               PROVE  FALSE
    BY <1>7 DEF MergedBut
  <2>1. NEXT_BLKP(r, c) = NEXT_BLKP(s, c)
    BY <1>7 DEF NEXT_BLKP
  <2>2. IsFree(s, c) /\ IsFree(s, NEXT_BLKP(s, c))
    BY <1>7, <2>1 DEF IsFree
  <2> QED BY <1>3, <2>2 DEF HeapInv, MergedBut, IsFree
<1> DEFINE t == coalesce(r, b)
<1>10. /\ HeapInv(t) /\ t.used = r.used /\ Kept(r, t) /\ t.bp \in DOMAIN t.size
       /\ \A c \in DOMAIN r.size : c \in DOMAIN t.size \/ (t.bp < c /\ c < NEXT_BLKP(t, t.bp))
       /\ t.bp \in {b, PREV_BLKP(r, b)}
       /\ FreeBlocks(t) = (FreeBlocks(r) \ {b, PREV_BLKP(r, b), NEXT_BLKP(r, b)}) \cup {t.bp}
  BY <1>2, <1>6, <1>7, <1>8, <1>9, Coalesced
<1> HIDE DEF t
<1>11. Kept(s, t)
  BY <1>7, <1>10 DEF Kept
<1>12. PREV_BLKP(r, b) = PREV_BLKP(s, b) /\ NEXT_BLKP(r, b) = NEXT_BLKP(s, b)
  BY <1>7 DEF PREV_BLKP, NEXT_BLKP
<1>13. FreeBlocks(r) = FreeBlocks(s) \cup {b} /\ b \notin FreeBlocks(s)
  BY <1>2, <1>7 DEF FreeBlocks, IsFree
<1>14. FreeBlocks(t) = (FreeBlocks(s) \ {PREV_BLKP(s, b), NEXT_BLKP(s, b)}) \cup {t.bp}
  BY <1>10, <1>12, <1>13
<1>15. t.bp \notin FreeBlocks(s) \ {PREV_BLKP(s, b), NEXT_BLKP(s, b)}
  BY <1>10, <1>12, <1>13
<1> QED BY <1>4, <1>7, <1>10, <1>11, <1>14, <1>15 DEF t

\* mm_realloc (mm.c:203): it allocates, copies and frees in this order, so the
\* block it returns is not the one it was given.
LEMMA Reallocs ==
  ASSUME HeapParams, NEW s, HeapInv(s), NEW b \in Live(s), NEW n \in Sizes,
         NEW t \in mm_realloc(s, b, n)
  PROVE  HeapInv(t) /\ Kept(s, t) /\ t.used \subseteq s.used \cup {t.bp}
<1>1. b # NULL /\ b \in s.used
  BY HeapParts DEF Live, HeapInv, Layout, HeapParams, NULL
<1>2. CASE n = 0
  <2> DEFINE r == mm_free(s, b)
  <2>1. HeapInv(r) /\ Kept(s, r) /\ r.used = s.used \ {b}
    BY Frees
  <2>2. t = [r EXCEPT !.bp = NULL]
    BY <1>2 DEF mm_realloc
  <2> HIDE DEF r
  <2>3. HeapInv(t) /\ t.size = r.size /\ t.used = r.used
    BY <2>1, <2>2, Returned
  <2> QED BY <2>1, <2>3 DEF Kept
<1>3. CASE n # 0
  <2>1. PICK r \in mm_malloc(s, n) : t = Moved(r, b)
    BY <1>1, <1>3 DEF mm_realloc
  <2>2. /\ HeapInv(r) /\ Kept(s, r)
        /\ \/ r.bp = NULL /\ r.used = s.used
           \/ r.bp \notin s.used /\ r.used = s.used \cup {r.bp}
    BY Mallocs
  <2>3. CASE r.bp = NULL
    BY <2>1, <2>2, <2>3 DEF Moved
  <2>4. CASE r.bp # NULL
    <3> DEFINE q == mm_free(r, b)
    <3>1. b \in Live(r) /\ r.bp # b
      BY <1>1, <2>2, <2>4 DEF Live
    <3>2. HeapInv(q) /\ Kept(r, q) /\ q.used = r.used \ {b}
      BY <2>2, <3>1, Frees
    <3>3. t = [q EXCEPT !.bp = r.bp]
      BY <2>1, <2>4 DEF Moved
    <3> HIDE DEF q
    <3>4. r.bp \in DOMAIN q.size
      BY <2>2, <2>4, <3>1, <3>2 DEF HeapInv, Layout
    <3>5. HeapInv(t) /\ t.size = q.size /\ t.used = q.used /\ t.bp = r.bp
      BY <3>2, <3>3, <3>4, Returned
    <3> QED BY <2>2, <3>2, <3>5 DEF Kept
  <2> QED BY <2>3, <2>4
<1> QED BY <1>2, <1>3

\* The prologue alone is a heap.
LEMMA BareIs == ASSUME HeapParams PROVE HeapInv(Bare) /\ Bare.used = {Overhead}
<1> DEFINE f == [b \in {Overhead} |-> Overhead]
<1>1. Overhead \in Nat /\ Overhead >= 2 /\ Overhead % 2 = 0 /\ MinBlock \in Nat
  BY DEF HeapParams
<1>2. {Overhead} \in SUBSET Nat /\ f \in [{Overhead} -> Nat] /\ 2 * Overhead \in Nat /\ 0 \in Nat
  BY <1>1
<1>3. HeapType(Bare)
  BY <1>2, HeapOfParts DEF Bare, NULL
<1>4. /\ Bare.size = f /\ DOMAIN Bare.size = {Overhead} /\ f[Overhead] = Overhead
      /\ Bare.used = {Overhead} /\ Bare.top = 2 * Overhead /\ Bare.bp = NULL
  BY DEF Bare
<1> HIDE DEF f
<1>5. Layout(Bare)
  BY <1>1, <1>4 DEF Layout
<1>6. HeapInv(Bare)
  BY <1>3, <1>4, <1>5 DEF HeapInv, MergedBut, IsFree
<1> QED BY <1>4, <1>6

\* mm_init (mm.c:66): a prologue block and one chunk behind it.
LEMMA Inits ==
  ASSUME HeapParams
  PROVE  HeapInv(mm_init) /\ mm_init.used = {Overhead} /\ mm_init.size[Overhead] = Overhead
<1>1. CHUNKSIZE \in Nat /\ CHUNKSIZE >= MinBlock
  BY DEF HeapParams
<1>2. HeapInv(mm_init) /\ mm_init.used = Bare.used
  BY <1>1, BareIs, ExtendHeap DEF mm_init
<1> QED BY <1>2, BareIs DEF HeapInv, Layout

-----------------------------------------------------------------------------
\* Every call of the package leads from a heap in order to a heap in order,
\* and a block that stays allocated stays as it is.
LEMMA Calls ==
  ASSUME HeapParams, NEW s, HeapInv(s), NEW t, Call(s, t)
  PROVE  HeapInv(t) /\ Kept(s, t)
<1>0. Sizes \subseteq Nat
  BY DEF HeapParams
<1>1. CASE Restart(t)
  <2>1. t.used = {Overhead} /\ t.size[Overhead] = Overhead /\ HeapInv(t)
    BY <1>1, Inits DEF Restart
  <2> QED BY <2>1 DEF Kept, HeapInv, Layout
<1>2. CASE Malloc(s, t)
  BY <1>0, <1>2, Mallocs DEF Malloc
<1>3. CASE Free(s, t)
  BY <1>3, Frees DEF Free
<1>4. CASE Realloc(s, t)
  BY <1>0, <1>4, Reallocs DEF Realloc
<1> QED BY <1>1, <1>2, <1>3, <1>4 DEF Call

\* The invariant of the heap, for every size of the heap, of its chunks and of
\* the requests.
THEOREM HeapInvariant == ASSUME HeapParams PROVE Spec => []HeapInv(h)
<1>1. Init => HeapInv(h)
  BY Inits DEF Init
<1>2. HeapInv(h) /\ [Next]_h => HeapInv(h)'
  <2> SUFFICES ASSUME HeapInv(h), [Next]_h PROVE HeapInv(h')
    OBVIOUS
  <2> QED BY Calls DEF Next
<1> QED BY <1>1, <1>2, PTL DEF Spec

\* checkheap (mm.c:370) never finds a gap, an overlap or two free neighbours.
THEOREM Consistent == ASSUME HeapParams PROVE Spec => []HeapOK
<1>1. HeapInv(h) => HeapOK
  <2> SUFFICES ASSUME HeapInv(h) PROVE Tiled(h)
    BY DEF HeapOK
  <2>1. NULL \notin DOMAIN h.size
    BY HeapParts DEF HeapInv, Layout, HeapParams, NULL
  <2>2. \A b \in DOMAIN h.size : ~(IsFree(h, b) /\ IsFree(h, NEXT_BLKP(h, b)))
    BY <2>1 DEF HeapInv, MergedBut, IsFree
  <2>3. /\ \A b \in DOMAIN h.size : NEXT_BLKP(h, b) \in DOMAIN h.size \cup {h.top}
        /\ \A b \in DOMAIN h.size \ {Overhead} : \E p \in DOMAIN h.size : NEXT_BLKP(h, p) = b
        /\ \A b, c \in DOMAIN h.size : b < c => NEXT_BLKP(h, b) <= c
    BY DEF HeapInv, Layout, NEXT_BLKP
  <2> QED BY <2>2, <2>3 DEF Tiled
<1> QED BY <1>1, HeapInvariant, PTL

\* No call moves, resizes or overwrites a block that the program still holds.
THEOREM Preserved == ASSUME HeapParams PROVE Spec => BlocksKept
<1>1. HeapInv(h) /\ [Next]_h => [\A b \in h.used \cap h'.used : h'.size[b] = h.size[b]]_h
  BY Calls DEF Next, Kept
<1> QED BY <1>1, HeapInvariant, PTL DEF Spec, BlocksKept

\* "Allocate a block with at least size bytes of payload" (mm.c:91), as long as no
\* request makes the sum of mm.c:113 wrap, which HeapParams assumes.
THEOREM Room == ASSUME HeapParams PROVE Spec => Roomy
<1>1. ASSUME HeapInv(h), NEW n \in Sizes, h' \in mm_malloc(h, n), h'.bp # NULL
      PROVE  h'.size[h'.bp] >= n + Overhead
  BY <1>1, Mallocs
<1>2. HeapInv(h) /\ [Next]_h
      => [\A n \in Sizes : h' \in mm_malloc(h, n) /\ h'.bp # NULL => h'.size[h'.bp] >= n + Overhead]_h
  BY <1>1
<1> QED BY <1>2, HeapInvariant, PTL DEF Spec, Roomy

-----------------------------------------------------------------------------
(* Next fit: one of the searches BlockHeap leaves open, with a rover that is always *)
(* on a block, whatever is merged under it.                                         *)

\* mm_malloc (mm.c:123): no search and no extension takes the block under the
\* rover away.
LEMMA RoverMallocs ==
  ASSUME HeapParams, FirstFit = FALSE, NEW s, HeapInv(s), NEW r \in DOMAIN s.size,
         NEW n \in Sizes, NEW p \in rover_malloc(s, r, n)
  PROVE  p.heap \in mm_malloc(s, n) /\ p.rover \in DOMAIN p.heap.size
<1> DEFINE asize == Adjusted(n)
<1>1. asize \in Nat /\ asize % 2 = 0 /\ asize >= MinBlock
  BY AdjustedSize
<1>2. \A q : HeapInv(q) => DOMAIN q.size \in SUBSET Nat /\ q.size \in [DOMAIN q.size -> Nat]
  BY HeapParts DEF HeapInv
<1> HIDE DEF asize
<1>3. CASE n = 0
  <2>1. p = Outcome([s EXCEPT !.bp = NULL], r)
    BY <1>3 DEF rover_malloc
  <2>2. [s EXCEPT !.bp = NULL].size = s.size
    BY Returned
  <2> QED BY <1>3, <2>1, <2>2 DEF Outcome, mm_malloc
<1>4. CASE n # 0 /\ Fits(s, asize) = {}
  <2> DEFINE words == Larger(asize, CHUNKSIZE)
             t == extend_heap(s, words)
  <2>1. p = Outcome(Placed(t, asize), r) /\ Placed(t, asize) \in mm_malloc(s, n)
    BY <1>4 DEF rover_malloc, mm_malloc, Extended, asize
  <2>2. words \in Nat /\ words >= MinBlock /\ words >= asize
    BY <1>1 DEF Larger, HeapParams
  <2>3. /\ HeapInv(t) /\ DOMAIN s.size \subseteq DOMAIN t.size
        /\ t.bp # NULL => t.bp \in DOMAIN t.size /\ t.bp \notin t.used /\ t.size[t.bp] >= words
    BY <2>2, ExtendHeap
  <2> HIDE DEF t, words
  <2>4. CASE t.bp = NULL
    BY <2>1, <2>3, <2>4 DEF Outcome, Placed
  <2>5. CASE t.bp # NULL
    <3>1. Placed(t, asize) = place(t, t.bp, asize) /\ asize <= t.size[t.bp]
      BY <1>1, <1>2, <2>2, <2>3, <2>5 DEF Placed
    <3>2. DOMAIN t.size \subseteq DOMAIN Placed(t, asize).size
      BY <1>1, <2>3, <2>5, <3>1, Place
    <3> QED BY <2>1, <2>3, <3>2 DEF Outcome
  <2> QED BY <2>4, <2>5
<1>5. CASE n # 0 /\ Fits(s, asize) # {}
  <2>1. PICK b \in next_fit(s, r, asize) : p = Outcome(place(s, b, asize), b)
    BY <1>5 DEF rover_malloc, asize
  <2>2. b \in find_fit(s, asize) /\ b \in DOMAIN s.size /\ b \notin s.used /\ asize <= s.size[b]
    BY DEF next_fit, find_fit, Fits, IsFree
  <2>3. place(s, b, asize) \in mm_malloc(s, n)
    BY <1>5, <2>2 DEF mm_malloc, asize
  <2>4. DOMAIN s.size \subseteq DOMAIN place(s, b, asize).size
    BY <1>1, <2>2, Place
  <2> QED BY <2>1, <2>2, <2>3, <2>4 DEF Outcome
<1> QED BY <1>3, <1>4, <1>5

\* mm_free (mm.c:173): when the block under the rover is merged into another
\* one, coalesce moves the rover there (mm.c:236).
LEMMA RoverFrees ==
  ASSUME HeapParams, NEW s, HeapInv(s), NEW r \in DOMAIN s.size, NEW b \in Live(s),
         NEW p \in rover_free(s, r, b)
  PROVE  p.heap = mm_free(s, b) /\ p.rover \in DOMAIN p.heap.size
<1> DEFINE t == mm_free(s, b)
<1>1. b # NULL
  BY HeapParts DEF Live, HeapInv, Layout, HeapParams, NULL
<1>2. PICK q \in Follow(t, r) : p = Outcome(t, q)
  BY <1>1 DEF rover_free
<1>3. /\ t.bp \in DOMAIN t.size
      /\ \A c \in DOMAIN s.size : c \in DOMAIN t.size \/ (t.bp < c /\ c < NEXT_BLKP(t, t.bp))
  BY Frees
<1> HIDE DEF t
<1>4. q \in DOMAIN t.size
  BY <1>3 DEF Follow
<1> QED BY <1>2, <1>4 DEF Outcome, t

\* mm_realloc (mm.c:248): it is one mm_malloc and one mm_free.
LEMMA RoverReallocs ==
  ASSUME HeapParams, FirstFit = FALSE, NEW s, HeapInv(s), NEW r \in DOMAIN s.size,
         NEW b \in Live(s), NEW n \in Sizes, NEW p \in rover_realloc(s, r, b, n)
  PROVE  p.heap \in mm_realloc(s, b, n) /\ p.rover \in DOMAIN p.heap.size
<1>1. b # NULL /\ b \in s.used
  BY HeapParts DEF Live, HeapInv, Layout, HeapParams, NULL
<1>2. CASE n = 0
  <2>1. PICK f \in rover_free(s, r, b) : p = Outcome([f.heap EXCEPT !.bp = NULL], f.rover)
    BY <1>2 DEF rover_realloc
  <2>2. f.heap = mm_free(s, b) /\ f.rover \in DOMAIN f.heap.size
    BY RoverFrees
  <2>3. HeapInv(f.heap)
    BY <2>2, Frees
  <2>4. [f.heap EXCEPT !.bp = NULL].size = f.heap.size
    BY <2>3, Returned
  <2> QED BY <1>2, <2>1, <2>2, <2>4 DEF Outcome, mm_realloc
<1>3. CASE n # 0
  <2>1. PICK o \in rover_malloc(s, r, n) :
          IF o.heap.bp = NULL THEN p = o
          ELSE \E f \in rover_free(o.heap, o.rover, b) :
                 p = Outcome([f.heap EXCEPT !.bp = o.heap.bp], f.rover)
    BY <1>1, <1>3 DEF rover_realloc
  <2>2. o.heap \in mm_malloc(s, n) /\ o.rover \in DOMAIN o.heap.size
    BY RoverMallocs
  <2>3. /\ HeapInv(o.heap)
        /\ \/ o.heap.bp = NULL /\ o.heap.used = s.used
           \/ o.heap.bp \notin s.used /\ o.heap.used = s.used \cup {o.heap.bp}
    BY <2>2, Mallocs
  <2>4. Moved(o.heap, b) \in mm_realloc(s, b, n)
    BY <1>1, <1>3, <2>2 DEF mm_realloc
  <2>5. CASE o.heap.bp = NULL
    BY <2>1, <2>2, <2>4, <2>5 DEF Moved
  <2>6. CASE o.heap.bp # NULL
    <3>1. PICK f \in rover_free(o.heap, o.rover, b) :
            p = Outcome([f.heap EXCEPT !.bp = o.heap.bp], f.rover)
      BY <2>1, <2>6
    <3>2. b \in Live(o.heap) /\ o.heap.bp # b
      BY <1>1, <2>3, <2>6 DEF Live
    <3>3. f.heap = mm_free(o.heap, b) /\ f.rover \in DOMAIN f.heap.size
      BY <2>2, <2>3, <3>2, RoverFrees
    <3>4. HeapInv(f.heap) /\ f.heap.used = o.heap.used \ {b}
      BY <2>3, <3>2, <3>3, Frees
    <3>5. o.heap.bp \in DOMAIN f.heap.size
      BY <2>3, <2>6, <3>2, <3>4 DEF HeapInv, Layout
    <3>6. [f.heap EXCEPT !.bp = o.heap.bp].size = f.heap.size
      BY <3>4, <3>5, Returned
    <3> QED BY <2>4, <2>6, <3>1, <3>3, <3>6 DEF Outcome, Moved
  <2> QED BY <2>5, <2>6
<1> QED BY <1>2, <1>3

-----------------------------------------------------------------------------
\* A call with the rover is a call of the package, and leaves the rover on a
\* block.
LEMMA RoverCalls ==
  ASSUME HeapParams, FirstFit = FALSE, NEW s, HeapInv(s), NEW r \in DOMAIN s.size,
         NEW t, NEW q, RoverCall(Outcome(s, r), Outcome(t, q))
  PROVE  Call(s, t) /\ q \in DOMAIN t.size
<1> DEFINE o == Outcome(s, r)
           p == Outcome(t, q)
<1>0. /\ Sizes \subseteq Nat
      /\ o.heap = s /\ o.rover = r /\ p.heap = t /\ p.rover = q
  BY DEF HeapParams, Outcome
<1> HIDE DEF o, p
<1>1. CASE RoverRestart(p)
  <2>1. t = mm_init /\ q = Overhead
    BY <1>0, <1>1 DEF RoverRestart, Outcome
  <2>2. Overhead \in DOMAIN mm_init.size
    BY Inits DEF HeapInv, Layout
  <2> QED BY <2>1, <2>2 DEF Call, Restart
<1>2. CASE RoverMalloc(o, p)
  BY <1>0, <1>2, RoverMallocs DEF RoverMalloc, Call, Malloc
<1>3. CASE RoverFree(o, p)
  BY <1>0, <1>3, RoverFrees DEF RoverFree, Call, Free
<1>4. CASE RoverRealloc(o, p)
  BY <1>0, <1>4, RoverReallocs DEF RoverRealloc, Call, Realloc
<1> QED BY <1>1, <1>2, <1>3, <1>4 DEF RoverCall, o, p

\* The heap is in order and the rover is on a block.
LEMMA RoverInvariant ==
  ASSUME HeapParams, FirstFit = FALSE
  PROVE  RoverSpec => [](HeapInv(h) /\ RoverOnBlock)
<1>1. RoverInit => HeapInv(h) /\ RoverOnBlock
  BY Inits DEF RoverInit, RoverOnBlock, HeapInv, Layout
<1>2. HeapInv(h) /\ RoverOnBlock /\ [RoverNext]_<<h, rover>> => (HeapInv(h) /\ RoverOnBlock)'
  <2> SUFFICES ASSUME HeapInv(h), rover \in DOMAIN h.size, [RoverNext]_<<h, rover>>
               PROVE  HeapInv(h') /\ rover' \in DOMAIN h'.size
    BY DEF RoverOnBlock
  <2>1. CASE RoverNext
    BY <2>1, RoverCalls, Calls DEF RoverNext
  <2>2. CASE UNCHANGED <<h, rover>>
    BY <2>2
  <2> QED BY <2>1, <2>2
<1> QED BY <1>1, <1>2, PTL DEF RoverSpec

\* find_fit (mm.c:386) reads the header of a block, never the inside of one.
THEOREM RoverStays ==
  ASSUME HeapParams, FirstFit = FALSE PROVE RoverSpec => []RoverOnBlock
BY RoverInvariant, PTL

\* mm.c built with NEXT_FIT implements the blocks whose search is left open,
\* and so keeps what is proved of them.
THEOREM RoverImplements == ASSUME HeapParams, FirstFit = FALSE PROVE RoverSpec => Spec
<1>1. RoverInit => Init
  BY DEF RoverInit, Init
<1>2. HeapInv(h) /\ RoverOnBlock /\ [RoverNext]_<<h, rover>> => [Next]_h
  <2> SUFFICES ASSUME HeapInv(h), rover \in DOMAIN h.size, [RoverNext]_<<h, rover>>
               PROVE  [Next]_h
    BY DEF RoverOnBlock
  <2>1. CASE RoverNext
    BY <2>1, RoverCalls DEF RoverNext, Next
  <2>2. CASE UNCHANGED <<h, rover>>
    BY <2>2
  <2> QED BY <2>1, <2>2
<1> QED BY <1>1, <1>2, RoverInvariant, PTL DEF RoverSpec, Spec

-----------------------------------------------------------------------------
(* The explicit list: the free blocks, each once. *)

\* The sequence free holds what is in F, each once.
Lists(free, F) == free \in Seq(Nat) /\ Range(free) = F /\ IsInjective(free)

\* The same of a sequence, by its positions.
LEMMA ListsIs ==
  ASSUME NEW free, NEW F
  PROVE  Lists(free, F) <=>
           /\ free \in Seq(Nat)
           /\ \A i \in 1..Len(free) : free[i] \in F
           /\ \A b \in F : \E i \in 1..Len(free) : free[i] = b
           /\ \A i, j \in 1..Len(free) : free[i] = free[j] => i = j
<1>1. free \in Seq(Nat) => DOMAIN free = 1..Len(free)
  OBVIOUS
<1> QED BY <1>1 DEF Lists, Range, IsInjective

\* Where a listed block is.
LEMMA PositionIs ==
  ASSUME NEW F, NEW free, Lists(free, F), NEW b \in F
  PROVE  LET i == Position(free, b)
         IN i \in 1..Len(free) /\ free[i] = b /\ b \in Range(free)
<1>1. DOMAIN free = 1..Len(free) /\ \E k \in 1..Len(free) : free[k] = b
  BY DEF Lists, Range
<1>2. b \in Range(free)
  BY DEF Lists
<1> QED BY <1>1, <1>2 DEF Position

\* A sequence without its element at i.
LEMMA RemoveAtIs ==
  ASSUME NEW R, NEW free \in Seq(R), NEW i \in 1..Len(free)
  PROVE  LET r == RemoveAt(free, i)
         IN /\ r \in Seq(R) /\ Len(r) = Len(free) - 1
            /\ \A k \in 1..Len(r) : r[k] = IF k < i THEN free[k] ELSE free[k + 1]
<1> DEFINE n == Len(free)
           l == SubSeq(free, 1, i - 1)
           g == SubSeq(free, i + 1, n)
<1>1. n \in Nat /\ i \in Nat /\ i >= 1 /\ i <= n
  OBVIOUS
<1>2. l \in Seq(R) /\ Len(l) = i - 1 /\ \A k \in 1..i-1 : l[k] = free[k]
  OBVIOUS
<1>3. g \in Seq(R) /\ Len(g) = n - i /\ \A k \in 1..n-i : g[k] = free[i + k]
  OBVIOUS
<1> HIDE DEF n, l, g
<1>4. /\ l \o g \in Seq(R) /\ Len(l \o g) = n - 1
      /\ \A k \in 1..n-1 : (l \o g)[k] = IF k <= i - 1 THEN l[k] ELSE g[k - (i - 1)]
  <2>1. /\ l \o g \in Seq(R) /\ Len(l \o g) = Len(l) + Len(g)
        /\ \A k \in 1..Len(l) + Len(g) :
             (l \o g)[k] = IF k <= Len(l) THEN l[k] ELSE g[k - Len(l)]
    BY <1>2, <1>3, ConcatProperties
  <2>2. Len(l) + Len(g) = n - 1
    BY <1>1, <1>2, <1>3
  <2>3. Len(l) = i - 1
    BY <1>2
  <2> QED BY <2>1, <2>2, <2>3
<1>5. ASSUME NEW k \in 1..n-1 PROVE (l \o g)[k] = IF k < i THEN free[k] ELSE free[k + 1]
  <2>1. CASE k < i
    <3>1. k <= i - 1 /\ k \in 1..i-1
      BY <1>1, <2>1
    <3> QED BY <1>2, <1>4, <2>1, <3>1
  <2>2. CASE ~(k < i)
    <3>1. ~(k <= i - 1) /\ k - (i - 1) \in 1..n-i /\ i + (k - (i - 1)) = k + 1
      BY <1>1, <2>2
    <3> QED BY <1>3, <1>4, <2>2, <3>1
  <2> QED BY <2>1, <2>2
<1>6. RemoveAt(free, i) = l \o g
  BY DEF RemoveAt, l, g, n
<1> QED BY <1>4, <1>5, <1>6 DEF n

\* A block that leaves the list is not in it, the others still are.
LEMMA ListsUnlinked ==
  ASSUME NEW F, NEW free, Lists(free, F), NEW b
  PROVE  Lists(Unlinked(free, b), F \ {b})
<1>1. CASE b \notin F
  <2>1. Unlinked(free, b) = free /\ F \ {b} = F
    BY <1>1 DEF Unlinked, Lists
  <2> QED BY <2>1
<1>2. CASE b \in F
  <2> DEFINE i == Position(free, b)
             r == RemoveAt(free, i)
             n == Len(free)
  <2>1. i \in 1..n /\ free[i] = b /\ Unlinked(free, b) = r
    BY <1>2, PositionIs DEF Unlinked
  <2>2. /\ free \in Seq(Nat) /\ n \in Nat
        /\ \A k \in 1..n : free[k] \in F
        /\ \A c \in F : \E k \in 1..n : free[k] = c
        /\ \A k, j \in 1..n : free[k] = free[j] => k = j
    BY ListsIs
  <2>3. /\ r \in Seq(Nat) /\ Len(r) = n - 1
        /\ \A k \in 1..Len(r) : r[k] = IF k < i THEN free[k] ELSE free[k + 1]
    <3> HIDE DEF i
    <3>1. free \in Seq(Nat) /\ i \in 1..Len(free)
      BY <2>1, <2>2
    <3> QED BY <3>1, RemoveAtIs
  <2> HIDE DEF i, r, n
  <2>4. \A k \in 1..n-1 : /\ k < i => r[k] = free[k] /\ k \in 1..n
                          /\ ~(k < i) => r[k] = free[k + 1] /\ k + 1 \in 1..n
    BY <2>1, <2>2, <2>3
  <2>5. ASSUME NEW k \in 1..n-1 PROVE r[k] \in F \ {b}
    <3>1. PICK j \in 1..n : r[k] = free[j] /\ j # i
      BY <2>1, <2>4
    <3>2. free[j] \in F /\ free[j] # free[i]
      BY <2>1, <2>2, <3>1
    <3> QED BY <2>1, <3>1, <3>2
  <2>6. ASSUME NEW c \in F \ {b} PROVE \E k \in 1..n-1 : r[k] = c
    <3>1. PICK k \in 1..n : free[k] = c
      BY <2>2
    <3>2. k # i
      BY <2>1, <3>1
    <3>3. CASE k < i
      <4>1. k \in 1..n-1
        BY <2>1, <2>2, <3>3
      <4> QED BY <2>4, <3>1, <3>3, <4>1
    <3>4. CASE k > i
      <4>1. k - 1 \in 1..n-1 /\ ~(k - 1 < i) /\ (k - 1) + 1 = k
        BY <2>1, <2>2, <3>4
      <4> QED BY <2>4, <3>1, <4>1
    <3>5. k < i \/ k > i
      BY <2>1, <2>2, <3>2
    <3> QED BY <3>3, <3>4, <3>5
  <2>7. ASSUME NEW k \in 1..n-1, NEW j \in 1..n-1, r[k] = r[j] PROVE k = j
    <3>1. PICK c \in 1..n : r[k] = free[c] /\ (k < i => c = k) /\ (~(k < i) => c = k + 1)
      BY <2>4
    <3>2. PICK d \in 1..n : r[j] = free[d] /\ (j < i => d = j) /\ (~(j < i) => d = j + 1)
      BY <2>4
    <3>3. c = d
      BY <2>2, <2>7, <3>1, <3>2
    <3>4. k \in Int /\ j \in Int /\ i \in Int
      BY <2>1, <2>2
    <3> QED BY <3>1, <3>2, <3>3, <3>4
  <2>8. Lists(r, F \ {b})
    BY <2>3, <2>5, <2>6, <2>7, ListsIs
  <2> QED BY <2>1, <2>8
<1> QED BY <1>1, <1>2

\* A block that was not in the list is put at its head.
LEMMA ListsPushed ==
  ASSUME NEW F, NEW free, Lists(free, F), NEW b \in Nat, b \notin F
  PROVE  Lists(<<b>> \o free, F \cup {b})
<1> DEFINE r == <<b>> \o free
           n == Len(free)
<1>1. /\ free \in Seq(Nat) /\ n \in Nat
      /\ \A k \in 1..n : free[k] \in F
      /\ \A c \in F : \E k \in 1..n : free[k] = c
      /\ \A k, j \in 1..n : free[k] = free[j] => k = j
  BY ListsIs
<1>2. r \in Seq(Nat) /\ Len(r) = n + 1 /\ r[1] = b /\ \A k \in 1..n : r[k + 1] = free[k]
  BY <1>1
<1> HIDE DEF r, n
<1>3. \A k \in 1..n+1 : k = 1 \/ (k - 1 \in 1..n /\ r[k] = free[k - 1])
  <2> TAKE k \in 1..n+1
  <2>1. k # 1 => k - 1 \in 1..n /\ (k - 1) + 1 = k
    BY <1>1
  <2> QED BY <1>2, <2>1
<1>4. \A k \in 1..n+1 : r[k] \in F \cup {b}
  BY <1>1, <1>2, <1>3
<1>5. ASSUME NEW c \in F \cup {b} PROVE \E k \in 1..n+1 : r[k] = c
  <2>1. CASE c = b
    <3>1. 1 \in 1..n+1
      BY <1>1
    <3> QED BY <1>2, <2>1, <3>1
  <2>2. CASE c \in F
    <3>1. PICK k \in 1..n : free[k] = c
      BY <1>1, <2>2
    <3>2. k + 1 \in 1..n+1
      BY <1>1
    <3> QED BY <1>2, <3>1, <3>2
  <2> QED BY <2>1, <2>2
<1>6. ASSUME NEW k \in 1..n+1, NEW j \in 1..n+1, r[k] = r[j] PROVE k = j
  <2>1. CASE k = 1 \/ j = 1
    <3>1. \A m \in 1..n+1 : m # 1 => r[m] \in F
      BY <1>1, <1>3
    <3>2. r[1] \notin F
      BY <1>2
    <3> QED BY <1>6, <2>1, <3>1, <3>2
  <2>2. CASE k # 1 /\ j # 1
    <3>1. k - 1 = j - 1
      BY <1>1, <1>3, <1>6, <2>2
    <3> QED BY <3>1
  <2> QED BY <2>1, <2>2
<1>7. Lists(r, F \cup {b})
  BY <1>2, <1>4, <1>5, <1>6, ListsIs
<1> QED BY <1>7 DEF r

\* A block that was not in the list takes the place of one that was.
LEMMA ListsReplaced ==
  ASSUME NEW F, NEW free, Lists(free, F), NEW b \in F, NEW c \in Nat, c \notin F
  PROVE  Lists([free EXCEPT ![Position(free, b)] = c], (F \ {b}) \cup {c})
<1> DEFINE i == Position(free, b)
           r == [free EXCEPT ![i] = c]
           n == Len(free)
<1>1. /\ free \in Seq(Nat) /\ n \in Nat
      /\ \A k \in 1..n : free[k] \in F
      /\ \A d \in F : \E k \in 1..n : free[k] = d
      /\ \A k, j \in 1..n : free[k] = free[j] => k = j
  BY ListsIs
<1>2. i \in 1..n /\ free[i] = b
  BY PositionIs
<1>3. r \in Seq(Nat) /\ Len(r) = n /\ r[i] = c /\ \A k \in 1..n : k # i => r[k] = free[k]
  BY <1>1, <1>2
<1> HIDE DEF r, n, i
<1>4. ASSUME NEW k \in 1..n PROVE (r[k] = c /\ k = i) \/ (r[k] \in F \ {b} /\ r[k] = free[k])
  <2>1. k # i => free[k] \in F /\ free[k] # free[i] /\ r[k] = free[k]
    BY <1>1, <1>2, <1>3
  <2> QED BY <1>2, <1>3, <2>1
<1>5. \A d \in (F \ {b}) \cup {c} : \E k \in 1..n : r[k] = d
  <2> TAKE d \in (F \ {b}) \cup {c}
  <2>1. CASE d = c
    BY <1>2, <1>3, <2>1
  <2>2. CASE d \in F \ {b}
    BY <1>1, <1>2, <1>3, <2>2
  <2> QED BY <2>1, <2>2
<1>6. ASSUME NEW k \in 1..n, NEW j \in 1..n, r[k] = r[j] PROVE k = j
  <2>1. /\ (r[k] = c /\ k = i) \/ (r[k] \in F \ {b} /\ r[k] = free[k])
        /\ (r[j] = c /\ j = i) \/ (r[j] \in F \ {b} /\ r[j] = free[j])
    BY <1>4
  <2> QED BY <1>1, <1>6, <2>1
<1>7. Lists(r, (F \ {b}) \cup {c})
  <2> DEFINE G == (F \ {b}) \cup {c}
  <2>1. \A k \in 1..n : r[k] \in G
    BY <1>4
  <2>2. \A d \in G : \E k \in 1..n : r[k] = d
    BY <1>5
  <2>3. \A k, j \in 1..n : r[k] = r[j] => k = j
    BY <1>6
  <2> HIDE DEF G
  <2>4. Lists(r, G)
    BY <1>3, <2>1, <2>2, <2>3, ListsIs
  <2> QED BY <2>4 DEF G
<1> QED BY <1>7 DEF r, i

\* The search along the list (mm_copy.c:488) finds a free block that fits.
LEMMA ListFit ==
  ASSUME NEW s, NEW free, Lists(free, FreeBlocks(s)), s.size \in [DOMAIN s.size -> Nat],
         BEST_FIT \in BOOLEAN, NEW asize \in Nat, Fits(s, asize) # {}
  PROVE  list_fit(s, free, asize) \in Fits(s, asize)
<1> DEFINE n == Len(free)
           fits == {i \in DOMAIN free : asize <= s.size[free[i]]}
           best == {i \in fits : \A j \in fits : s.size[free[i]] <= s.size[free[j]]}
<1>1. /\ DOMAIN free = 1..n
      /\ \A k \in 1..n : free[k] \in FreeBlocks(s)
      /\ \A c \in FreeBlocks(s) : \E k \in 1..n : free[k] = c
  <2>1. free \in Seq(Nat)
    BY DEF Lists
  <2> QED BY <2>1, ListsIs
<1>2. fits # {} /\ fits \in SUBSET Nat
  BY <1>1 DEF Fits, FreeBlocks
<1>3. \A i \in fits : i \in 1..n /\ free[i] \in Fits(s, asize) /\ s.size[free[i]] \in Nat
  BY <1>1 DEF Fits, FreeBlocks
<1> HIDE DEF fits
<1>4. best # {}
  <2> DEFINE T == {s.size[free[i]] : i \in fits}
  <2>1. T \in SUBSET Nat /\ T # {}
    BY <1>2, <1>3
  <2>2. PICK x \in T : \A y \in T : x <= y
    BY <2>1, Least
  <2>3. PICK i \in fits : x = s.size[free[i]]
    OBVIOUS
  <2> QED BY <2>2, <2>3
<1>5. best \in SUBSET fits
  OBVIOUS
<1> HIDE DEF best
<1> DEFINE c == IF BEST_FIT THEN best ELSE fits
<1>6. c \in SUBSET fits /\ c # {} /\ c \in SUBSET Nat
  BY <1>2, <1>4, <1>5
<1>7. Min(c) \in fits
  BY <1>6, MinNat
<1>8. list_fit(s, free, asize) = free[Min(c)]
  BY DEF list_fit, fits, best
<1> QED BY <1>3, <1>7, <1>8

\* What coalesce does to the list (mm_copy.c:175).
LEMMA PushedIs ==
  ASSUME NEW F, NEW free, Lists(free, F), NEW p, NEW q, NEW t, t.bp \in Nat,
         t.bp \notin F \ {p, q}
  PROVE  Lists(Pushed(t, free, p, q), (F \ {p, q}) \cup {t.bp})
<1>1. Lists(Unlinked(free, p), F \ {p})
  BY ListsUnlinked
<1>2. Lists(Unlinked(Unlinked(free, p), q), (F \ {p}) \ {q})
  BY <1>1, ListsUnlinked
<1>3. (F \ {p}) \ {q} = F \ {p, q}
  OBVIOUS
<1>4. Lists(Unlinked(Unlinked(free, p), q), F \ {p, q})
  BY <1>2, <1>3
<1> QED BY <1>4, ListsPushed DEF Pushed

\* The heap and the list of free blocks that goes with it.
Listed(o) == HeapInv(o.heap) /\ Lists(o.list, FreeBlocks(o.heap))

\* place and the list (mm_copy.c:442).
LEMMA ListPlaces ==
  ASSUME HeapParams, NEW o, Listed(o), NEW b \in FreeBlocks(o.heap),
         NEW asize \in Nat, asize % 2 = 0, asize >= MinBlock, asize <= o.heap.size[b]
  PROVE  LET p == list_place(o, b, asize)
         IN p.heap = place(o.heap, b, asize) /\ Lists(p.list, FreeBlocks(p.heap))
<1> DEFINE s == o.heap
           t == place(s, b, asize)
           rest == NEXT_BLKP(t, b)
           F == FreeBlocks(s)
<1>1. b \in DOMAIN s.size /\ b \notin s.used
  BY DEF FreeBlocks, IsFree
<1>2. /\ rest \in Nat \ F
      /\ FreeBlocks(t) = (F \ {b}) \cup (IF IsFree(t, rest) THEN {rest} ELSE {})
  BY <1>1, Place DEF Listed
<1>3. list_place(o, b, asize) = [heap |-> t, list |-> Replaced(t, o.list, b)]
  BY DEF list_place, Result
<1>4. Lists(o.list, F)
  BY DEF Listed
<1>5. b \in F
  OBVIOUS
<1> HIDE DEF t, F
<1>6. Lists(Replaced(t, o.list, b), FreeBlocks(t))
  <2>1. CASE IsFree(t, rest)
    <3>1. Replaced(t, o.list, b) = [o.list EXCEPT ![Position(o.list, b)] = rest]
      BY <2>1 DEF Replaced
    <3> HIDE DEF rest
    <3>2. Lists([o.list EXCEPT ![Position(o.list, b)] = rest], (F \ {b}) \cup {rest})
      BY <1>2, <1>4, <1>5, ListsReplaced
    <3> QED BY <1>2, <2>1, <3>1, <3>2
  <2>2. CASE ~IsFree(t, rest)
    <3>1. Replaced(t, o.list, b) = Unlinked(o.list, b)
      BY <2>2 DEF Replaced
    <3>2. FreeBlocks(t) = F \ {b}
      BY <1>2, <2>2
    <3> QED BY <1>4, <3>1, <3>2, ListsUnlinked
  <2> QED BY <2>1, <2>2
<1> QED BY <1>3, <1>6 DEF t

\* extend_heap and the list (mm_copy.c:146).
LEMMA ListExtends ==
  ASSUME HeapParams, NEW s, NEW free, HeapInv(s), Lists(free, FreeBlocks(s)),
         NEW words \in Nat, words >= MinBlock
  PROVE  LET o == list_extend(s, free, words)
         IN o.heap = extend_heap(s, words) /\ Listed(o)
<1> DEFINE t == extend_heap(s, words)
           prev == PREV_BLKP(s, s.top)
           F == FreeBlocks(s)
<1>1. /\ HeapInv(t)
      /\ t.bp # NULL => /\ t.bp \notin F \ {prev} /\ t.top \notin F
                        /\ FreeBlocks(t) = (F \ {prev}) \cup {t.bp}
      /\ t.bp = NULL => FreeBlocks(t) = F
  BY ExtendHeap
<1>2. list_extend(s, free, words) =
        [heap |-> t, list |-> IF t.bp = NULL THEN free ELSE Pushed(t, free, prev, t.top)]
  BY DEF list_extend, Result
<1>3. t.bp \in Nat
  BY <1>1, HeapParts DEF HeapInv
<1> HIDE DEF t, prev, F
<1>4. CASE t.bp = NULL
  BY <1>1, <1>2, <1>4 DEF Listed, t, F
<1>5. CASE t.bp # NULL
  <2>1. F \ {prev} = F \ {prev, t.top}
    BY <1>1, <1>5
  <2>2. Lists(free, F)
    BY DEF F
  <2>3. Lists(Pushed(t, free, prev, t.top), (F \ {prev, t.top}) \cup {t.bp})
    BY <1>1, <1>3, <1>5, <2>1, <2>2, PushedIs
  <2>4. Lists(Pushed(t, free, prev, t.top), FreeBlocks(t))
    BY <1>1, <1>5, <2>1, <2>3
  <2> QED BY <1>1, <1>2, <1>5, <2>4 DEF Listed, t
<1> QED BY <1>4, <1>5

\* mm_malloc with the list (mm_copy.c:390): it does what mm_malloc does to the
\* blocks, and the list follows.
LEMMA ListMallocs ==
  ASSUME HeapParams, FirstFit = FALSE, BEST_FIT \in BOOLEAN,
         NEW s, NEW free, HeapInv(s), Lists(free, FreeBlocks(s)), NEW n \in Sizes
  PROVE  LET p == list_malloc(s, free, n)
         IN p.heap \in mm_malloc(s, n) /\ Lists(p.list, FreeBlocks(p.heap))
<1> DEFINE asize == Adjusted(n)
           p == list_malloc(s, free, n)
<1>1. asize \in Nat /\ asize % 2 = 0 /\ asize >= MinBlock
  BY AdjustedSize
<1>2. s.size \in [DOMAIN s.size -> Nat] /\ Listed(Result(s, free))
  BY HeapParts DEF HeapInv, Listed, Result
<1>3. Result(s, free).heap = s /\ Result(s, free).list = free
  BY DEF Result
<1> HIDE DEF asize
<1>4. CASE n = 0
  <2>1. p = Result([s EXCEPT !.bp = NULL], free)
    BY <1>4 DEF list_malloc
  <2>2. [s EXCEPT !.bp = NULL].size = s.size /\ [s EXCEPT !.bp = NULL].used = s.used
    BY Returned
  <2>3. FreeBlocks([s EXCEPT !.bp = NULL]) = FreeBlocks(s)
    BY <2>2 DEF FreeBlocks, IsFree
  <2> QED BY <1>4, <2>1, <2>3 DEF mm_malloc, Result
<1>5. CASE n # 0 /\ Fits(s, asize) # {}
  <2> DEFINE b == list_fit(s, free, asize)
  <2>1. p = list_place(Result(s, free), b, asize)
    BY <1>5 DEF list_malloc, asize
  <2>2. b \in Fits(s, asize)
    BY <1>1, <1>2, <1>5, ListFit
  <2>3. b \in FreeBlocks(s) /\ asize <= s.size[b]
    BY <2>2 DEF Fits, FreeBlocks
  <2> HIDE DEF b
  <2>4. p.heap = place(s, b, asize) /\ Lists(p.list, FreeBlocks(p.heap))
    BY <1>1, <1>2, <1>3, <2>1, <2>3, ListPlaces
  <2>5. b \in find_fit(s, asize)
    BY <2>2 DEF find_fit
  <2>6. mm_malloc(s, n) = {place(s, c, asize) : c \in find_fit(s, asize)}
    BY <1>5 DEF mm_malloc, asize
  <2> QED BY <2>4, <2>5, <2>6
<1>6. CASE n # 0 /\ Fits(s, asize) = {}
  <2> DEFINE words == Larger(asize, CHUNKSIZE)
             more == list_extend(s, free, words)
             r == extend_heap(s, words)
  <2>1. p = IF more.heap.bp = NULL THEN more ELSE list_place(more, more.heap.bp, asize)
    BY <1>6 DEF list_malloc, asize
  <2>2. words \in Nat /\ words >= MinBlock /\ words >= asize
    BY <1>1 DEF Larger, HeapParams
  <2>3. more.heap = r /\ Listed(more)
    BY <2>2, ListExtends
  <2>4. r.bp # NULL => r.bp \in DOMAIN r.size /\ r.bp \notin r.used /\ r.size[r.bp] >= words
    BY <2>2, ExtendHeap
  <2>5. mm_malloc(s, n) = {Placed(r, asize)}
    BY <1>6 DEF mm_malloc, Extended, asize
  <2> HIDE DEF r, words, more
  <2>6. CASE r.bp = NULL
    BY <2>1, <2>3, <2>5, <2>6 DEF Placed, Listed
  <2>7. CASE r.bp # NULL
    <3>1. r.size[r.bp] \in Nat
      BY <2>3, <2>4, <2>7, HeapParts DEF Listed, HeapInv
    <3>2. r.bp \in FreeBlocks(r) /\ asize <= r.size[r.bp]
      BY <1>1, <2>2, <2>4, <2>7, <3>1 DEF FreeBlocks, IsFree
    <3>3. p.heap = place(r, r.bp, asize) /\ Lists(p.list, FreeBlocks(p.heap))
      BY <1>1, <2>1, <2>3, <2>7, <3>2, ListPlaces
    <3> QED BY <2>5, <2>7, <3>3 DEF Placed
  <2> QED BY <2>6, <2>7
<1> QED BY <1>4, <1>5, <1>6

\* mm_free with the list (mm_copy.c:363).
LEMMA ListFrees ==
  ASSUME HeapParams, NEW s, NEW free, HeapInv(s), Lists(free, FreeBlocks(s)), NEW b \in Live(s)
  PROVE  LET p == list_free(s, free, b)
         IN p.heap = mm_free(s, b) /\ Listed(p)
<1> DEFINE t == mm_free(s, b)
           prev == PREV_BLKP(s, b)
           next == NEXT_BLKP(s, b)
           F == FreeBlocks(s)
<1>1. b # NULL
  BY HeapParts DEF Live, HeapInv, Layout, HeapParams, NULL
<1>2. /\ HeapInv(t) /\ t.bp \in DOMAIN t.size /\ t.bp \notin F \ {prev, next}
      /\ FreeBlocks(t) = (F \ {prev, next}) \cup {t.bp}
  BY Frees
<1>3. list_free(s, free, b) = [heap |-> t, list |-> Pushed(t, free, prev, next)]
  BY <1>1 DEF list_free, Result
<1>4. t.bp \in Nat
  BY <1>2, HeapParts DEF HeapInv
<1> HIDE DEF t, prev, next
<1>5. Lists(Pushed(t, free, prev, next), (F \ {prev, next}) \cup {t.bp})
  BY <1>2, <1>4, PushedIs
<1>6. Lists(Pushed(t, free, prev, next), FreeBlocks(t))
  BY <1>2, <1>5
<1> QED BY <1>2, <1>3, <1>6 DEF Listed, t

\* What a call returns is not part of the list.
LEMMA ListReturned ==
  ASSUME NEW o, Listed(o), NEW p \in DOMAIN o.heap.size \cup {NULL}
  PROVE  Lists(o.list, FreeBlocks([o.heap EXCEPT !.bp = p]))
<1>1. [o.heap EXCEPT !.bp = p].size = o.heap.size /\ [o.heap EXCEPT !.bp = p].used = o.heap.used
  BY Returned DEF Listed
<1>2. FreeBlocks([o.heap EXCEPT !.bp = p]) = FreeBlocks(o.heap)
  BY <1>1 DEF FreeBlocks, IsFree
<1> QED BY <1>2 DEF Listed

\* mm_realloc with the list (mm_copy.c:519).
LEMMA ListReallocs ==
  ASSUME HeapParams, FirstFit = FALSE, BEST_FIT \in BOOLEAN,
         NEW s, NEW free, HeapInv(s), Lists(free, FreeBlocks(s)), NEW b \in Live(s), NEW n \in Sizes
  PROVE  LET p == list_realloc(s, free, b, n)
         IN p.heap \in mm_realloc(s, b, n) /\ Lists(p.list, FreeBlocks(p.heap))
<1> DEFINE p == list_realloc(s, free, b, n)
           new == list_malloc(s, free, n)
           freed == list_free(new.heap, new.list, b)
           gone == list_free(s, free, b)
<1>1. b # NULL /\ b \in s.used
  BY HeapParts DEF Live, HeapInv, Layout, HeapParams, NULL
<1>2. gone = Result(gone.heap, gone.list) /\ freed = Result(freed.heap, freed.list)
  BY DEF list_free, Result
<1>3. p = IF n = 0 THEN [gone EXCEPT !.heap.bp = NULL]
          ELSE IF new.heap.bp = NULL THEN new ELSE [freed EXCEPT !.heap.bp = new.heap.bp]
  BY <1>1 DEF list_realloc
<1>4. gone.heap = mm_free(s, b) /\ Listed(gone)
  BY ListFrees
<1>5. new.heap \in mm_malloc(s, n) /\ Lists(new.list, FreeBlocks(new.heap))
  BY ListMallocs
<1>6. /\ HeapInv(new.heap)
      /\ \/ new.heap.bp = NULL /\ new.heap.used = s.used
         \/ new.heap.bp \notin s.used /\ new.heap.used = s.used \cup {new.heap.bp}
  BY <1>5, Mallocs
<1> HIDE DEF p, gone, new
<1>7. CASE n = 0
  <2>1. p = Result([gone.heap EXCEPT !.bp = NULL], gone.list)
    BY <1>2, <1>3, <1>7 DEF Result
  <2>2. [mm_free(s, b) EXCEPT !.bp = NULL] \in mm_realloc(s, b, n)
    BY <1>7 DEF mm_realloc
  <2>3. Lists(gone.list, FreeBlocks([gone.heap EXCEPT !.bp = NULL]))
    BY <1>4, ListReturned
  <2> QED BY <1>4, <2>1, <2>2, <2>3 DEF Result, p
<1>8. CASE n # 0
  <2>1. Moved(new.heap, b) \in mm_realloc(s, b, n)
    BY <1>1, <1>5, <1>8 DEF mm_realloc
  <2>2. CASE new.heap.bp = NULL
    BY <1>3, <1>5, <1>8, <2>1, <2>2 DEF Moved, p
  <2>3. CASE new.heap.bp # NULL
    <3>1. b \in Live(new.heap) /\ new.heap.bp # b
      BY <1>1, <1>6, <2>3 DEF Live
    <3>2. freed.heap = mm_free(new.heap, b) /\ Listed(freed)
      BY <1>5, <1>6, <3>1, ListFrees
    <3>3. freed.heap.used = new.heap.used \ {b}
      BY <1>6, <3>1, <3>2, Frees
    <3> HIDE DEF freed
    <3>4. new.heap.bp \in DOMAIN freed.heap.size
      BY <1>6, <2>3, <3>1, <3>2, <3>3 DEF Listed, HeapInv, Layout
    <3>5. p = Result([freed.heap EXCEPT !.bp = new.heap.bp], freed.list)
      BY <1>2, <1>3, <1>8, <2>3 DEF Result
    <3>6. Lists(freed.list, FreeBlocks([freed.heap EXCEPT !.bp = new.heap.bp]))
      BY <3>2, <3>4, ListReturned
    <3>7. Moved(new.heap, b) = [freed.heap EXCEPT !.bp = new.heap.bp]
      BY <2>3, <3>2 DEF Moved
    <3> QED BY <2>1, <3>5, <3>6, <3>7 DEF Result, p
  <2> QED BY <2>2, <2>3
<1> QED BY <1>7, <1>8 DEF p

\* mm_init with the list (mm_copy.c:125): the list is the first chunk.
LEMMA ListInits ==
  ASSUME HeapParams, ChunkFits
  PROVE  Lists(<<mm_init.bp>>, FreeBlocks(mm_init))
<1>1. /\ Bare.used = {Overhead} /\ DOMAIN Bare.size = {Overhead} /\ Bare.top = 2 * Overhead
      /\ CHUNKSIZE \in Nat /\ CHUNKSIZE >= MinBlock
  BY DEF Bare, HeapParams
<1>2. FreeBlocks(Bare) = {}
  BY <1>1 DEF FreeBlocks, IsFree
<1>3. HeapInv(Bare)
  BY BareIs
<1>4. mm_init = extend_heap(Bare, CHUNKSIZE) /\ HeapInv(mm_init)
  BY Inits DEF mm_init
<1>5. mm_init.bp # NULL
  <2>1. Even(CHUNKSIZE) = CHUNKSIZE /\ CHUNKSIZE \in Nat /\ 2 * Overhead \in Nat /\ Limit \in Nat
    BY DEF Even, HeapParams
  <2>2. ~(2 * Overhead + Even(CHUNKSIZE) > Limit)
    BY <2>1 DEF ChunkFits
  <2> QED BY <1>1, <1>3, <1>4, <2>2, ExtendHeap
<1>6. FreeBlocks(mm_init) = {mm_init.bp}
  BY <1>1, <1>2, <1>3, <1>4, <1>5, ExtendHeap
<1>7. mm_init.bp \in Nat
  BY <1>4, HeapParts DEF HeapInv
<1> DEFINE r == <<mm_init.bp>>
<1>8. r \in Seq(Nat) /\ Len(r) = 1 /\ r[1] = mm_init.bp
  BY <1>7
<1> HIDE DEF r
<1>9. Lists(r, {mm_init.bp})
  <2>1. 1..Len(r) = {1}
    BY <1>8
  <2>2. /\ \A i \in {1} : r[i] \in {mm_init.bp}
        /\ \A b \in {mm_init.bp} : \E i \in {1} : r[i] = b
        /\ \A i, j \in {1} : r[i] = r[j] => i = j
    BY <1>8
  <2>3. /\ \A i \in 1..Len(r) : r[i] \in {mm_init.bp}
        /\ \A b \in {mm_init.bp} : \E i \in 1..Len(r) : r[i] = b
        /\ \A i, j \in 1..Len(r) : r[i] = r[j] => i = j
    BY <2>1, <2>2, Zenon
  <2> QED BY <1>8, <2>3, ListsIs
<1> QED BY <1>6, <1>9 DEF r

-----------------------------------------------------------------------------
\* A call with the list is a call of the package, and the list follows the
\* free blocks.
LEMMA ListCalls ==
  ASSUME HeapParams, ChunkFits, FirstFit = FALSE, BEST_FIT \in BOOLEAN,
         NEW s, NEW free, HeapInv(s), Lists(free, FreeBlocks(s)),
         NEW t, NEW after, ListCall(Result(s, free), Result(t, after))
  PROVE  Call(s, t) /\ Lists(after, FreeBlocks(t))
<1> DEFINE o == Result(s, free)
           p == Result(t, after)
<1>0. /\ Sizes \subseteq Nat
      /\ o.heap = s /\ o.list = free /\ p.heap = t /\ p.list = after
  BY DEF HeapParams, Result
<1> HIDE DEF o, p
<1>1. CASE ListRestart(p)
  <2>1. t = mm_init /\ after = <<mm_init.bp>>
    BY <1>0, <1>1 DEF ListRestart, Result
  <2> QED BY <2>1, ListInits DEF Call, Restart
<1>2. CASE ListMalloc(o, p)
  BY <1>0, <1>2, ListMallocs DEF ListMalloc, Call, Malloc
<1>3. CASE ListFree(o, p)
  BY <1>0, <1>3, ListFrees DEF ListFree, Listed, Call, Free
<1>4. CASE ListRealloc(o, p)
  BY <1>0, <1>4, ListReallocs DEF ListRealloc, Call, Realloc
<1> QED BY <1>1, <1>2, <1>3, <1>4 DEF ListCall, o, p

\* The heap is in order and the list holds its free blocks.
LEMMA ListInvariant ==
  ASSUME HeapParams, ChunkFits, FirstFit = FALSE, BEST_FIT \in BOOLEAN
  PROVE  ListSpec => [](HeapInv(h) /\ Lists(list, FreeBlocks(h)))
<1>1. ListInit => HeapInv(h) /\ Lists(list, FreeBlocks(h))
  BY Inits, ListInits DEF ListInit
<1>2. HeapInv(h) /\ Lists(list, FreeBlocks(h)) /\ [ListNext]_<<h, list>>
        => (HeapInv(h) /\ Lists(list, FreeBlocks(h)))'
  <2> SUFFICES ASSUME HeapInv(h), Lists(list, FreeBlocks(h)), [ListNext]_<<h, list>>
               PROVE  HeapInv(h') /\ Lists(list', FreeBlocks(h'))
    OBVIOUS
  <2>1. CASE ListNext
    BY <2>1, ListCalls, Calls DEF ListNext
  <2>2. CASE UNCHANGED <<h, list>>
    BY <2>2
  <2> QED BY <2>1, <2>2
<1> QED BY <1>1, <1>2, PTL DEF ListSpec

\* The list of mm_copy.c holds the free blocks, each once, and nothing else
\* (mm_copy.c:645), whatever is allocated, split, freed and merged.
THEOREM FreeListSound ==
  ASSUME HeapParams, ChunkFits, FirstFit = FALSE, BEST_FIT \in BOOLEAN
  PROVE  ListSpec => []EachFreeOnce
<1>1. HeapInv(h) /\ Lists(list, FreeBlocks(h)) => EachFreeOnce
  BY DEF Lists, EachFreeOnce
<1> QED BY <1>1, ListInvariant, PTL

\* The explicit list implements the blocks whose search is left open, and so
\* keeps what is proved of them.
THEOREM ListImplements ==
  ASSUME HeapParams, ChunkFits, FirstFit = FALSE, BEST_FIT \in BOOLEAN
  PROVE  ListSpec => Spec
<1>1. ListInit => Init
  BY DEF ListInit, Init
<1>2. HeapInv(h) /\ Lists(list, FreeBlocks(h)) /\ [ListNext]_<<h, list>> => [Next]_h
  <2> SUFFICES ASSUME HeapInv(h), Lists(list, FreeBlocks(h)), [ListNext]_<<h, list>>
               PROVE  [Next]_h
    OBVIOUS
  <2>1. CASE ListNext
    BY <2>1, ListCalls DEF ListNext, Next
  <2>2. CASE UNCHANGED <<h, list>>
    BY <2>2
  <2> QED BY <2>1, <2>2
<1> QED BY <1>1, <1>2, ListInvariant, PTL DEF ListSpec, Spec
=============================================================================
