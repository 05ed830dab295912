----------------------------- MODULE RoverHeap -----------------------------
(***************************************************************************)
(* vm/malloc/mm.c, built with NEXT_FIT: the blocks of BlockHeap, searched  *)
(* from a rover, the block where the last search ended.  An outcome of a   *)
(* call is a heap and a rover.                                             *)
(***************************************************************************)
EXTENDS BlockHeap

VARIABLE rover

Outcome(s, r) == [heap |-> s, rover |-> r]

\* A rover inside the block that coalesce has just formed moves to its start.
Follow(s, r) ==
  {IF s.bp < r /\ r < NEXT_BLKP(s, s.bp) THEN s.bp ELSE r}

\* The search meets b no later than c: from the rover up, then from the start.
Sooner(r, b, c) == \/ b >= r /\ c < r
                   \/ (b >= r <=> c >= r) /\ b <= c

next_fit(s, r, asize) ==
  LET fits == Fits(s, asize) IN {b \in fits : \A c \in fits : Sooner(r, b, c)}

rover_malloc(s, r, n) ==
  LET asize == Adjusted(n)
  IN IF n = 0 THEN {Outcome([s EXCEPT !.bp = NULL], r)}
     ELSE IF Fits(s, asize) = {} THEN {Outcome(Extended(s, asize), r)}
     ELSE {Outcome(place(s, b, asize), b) : b \in next_fit(s, r, asize)}

rover_free(s, r, b) ==
  LET t == mm_free(s, b)
  IN IF b = NULL THEN {Outcome(s, r)} ELSE {Outcome(t, q) : q \in Follow(t, r)}

\* The new block is found and filled before the old one is freed.
rover_realloc(s, r, ptr, n) ==
  LET Freed(o) == {Outcome([f.heap EXCEPT !.bp = o.heap.bp], f.rover) :
                     f \in rover_free(o.heap, o.rover, ptr)}
  IN IF n = 0 THEN {Outcome([f.heap EXCEPT !.bp = NULL], f.rover) : f \in rover_free(s, r, ptr)}
     ELSE UNION {IF ptr = NULL \/ o.heap.bp = NULL THEN {o} ELSE Freed(o) :
                   o \in rover_malloc(s, r, n)}

-----------------------------------------------------------------------------
RoverMalloc(o, p) == \E n \in Sizes : p \in rover_malloc(o.heap, o.rover, n)
RoverFree(o, p) == \E b \in Live(o.heap) : p \in rover_free(o.heap, o.rover, b)
RoverRealloc(o, p) ==
  \E b \in Live(o.heap), n \in Sizes : p \in rover_realloc(o.heap, o.rover, b, n)
RoverRestart(p) == p = Outcome(mm_init, Overhead)
RoverCall(o, p) ==
  RoverRestart(p) \/ RoverMalloc(o, p) \/ RoverFree(o, p) \/ RoverRealloc(o, p)

RoverInit == h = mm_init /\ rover = Overhead
RoverNext == RoverCall(Outcome(h, rover), Outcome(h', rover'))
RoverSpec == RoverInit /\ [][RoverNext]_<<h, rover>>

\* find_fit reads the header at the rover (mm.c:386): it is on a block.
RoverOnBlock == rover \in DOMAIN h.size
=============================================================================
