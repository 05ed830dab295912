------------------------------ MODULE Harness ------------------------------
(***************************************************************************)
(* The malloc and free harness.c gives the queue under test.  Every block  *)
(* carries a header with the links of the list of allocated blocks and a   *)
(* magic number; the count of blocks is kept beside the list.              *)
(*                                                                         *)
(* A time limit leaves a call by siglongjmp between any two writes.  A     *)
(* routine is therefore a sequence of writes, its program, chosen for the  *)
(* memory it starts in; Run executes a program or a prefix of it.          *)
(***************************************************************************)
EXTENDS Integers, Sequences, FiniteSets, SequencesExt

CONSTANTS Addrs,        \* the addresses malloc may return, positive
          NULL, Free    \* no address; the content of a block not allocated

ASSUME HarnessAssumption == IsFiniteSet(Addrs) /\ Addrs \subseteq Nat \ {0} /\ NULL = 0

Link == Addrs \cup {NULL}

\* error is error_occurred; lost says that the program did what has no meaning:
\* it used a block it had freed, or was stopped by a call that is disallowed.
NoMemory == [blk |-> [a \in Addrs |-> Free], allocated |-> NULL, allocated_count |-> 0,
             cautious_mode |-> TRUE, noallocate_mode |-> FALSE,
             error |-> FALSE, lost |-> FALSE]

Live(m) == {a \in Addrs : m.blk[a] # Free}
Unused(m) == Addrs \ Live(m)

\* The addresses from a on, following next, as long as they are in T; in a circle,
\* as many as there are addresses.
Walk(a, T, next) ==
  LET from[n \in 0..Cardinality(Addrs)] ==
        IF n = 0 THEN a ELSE IF from[n - 1] \in T THEN next[from[n - 1]] ELSE NULL
      length == CHOOSE n \in 0..Cardinality(Addrs) :
                  /\ n < Cardinality(Addrs) => from[n] \notin T
                  /\ \A i \in 0..n-1 : from[i] \in T
  IN [n \in 1..length |-> from[n - 1]]

\* The blocks from a on; the last is followed by NULL, unless the links run into a
\* block that is free, or in a circle.
Blocks(m, a) ==
  Walk(a, Addrs, [x \in Addrs |-> IF m.blk[x] = Free THEN NULL ELSE m.blk[x].next])

-----------------------------------------------------------------------------
(* Writes *)

Store(op, a, v) == [op |-> op, a |-> a, v |-> v]

test_malloc(a) ==
  <<Store("malloc", a, NULL), Store("prev of allocated", a, NULL),
    Store("allocated", a, NULL), Store("count", NULL, 1)>>

test_free(a) ==
  <<Store("check", a, NULL), Store("magic", a, NULL), Store("next of prev", a, TRUE),
    Store("prev of next", a, NULL), Store("free", a, NULL), Store("count", NULL, -1)>>

Lose(m) == [m EXCEPT !.lost = TRUE]

\* find_header: in cautious mode the block has to be in the list, in either mode
\* its magic number is looked at; after an error the block is freed all the same.
find_header(m, a) ==
  LET list == ToSet(Blocks(m, m.allocated))
  IN IF {a} \cup list \subseteq Live(m)
     THEN [m EXCEPT !.error = @ \/ (m.cautious_mode /\ a \notin list)
                                \/ m.blk[a].magic # "header"]
     ELSE [Lose(m) EXCEPT !.error = TRUE]

Relink(m, a, field, b) ==
  IF a = NULL THEN m ELSE IF m.blk[a] = Free THEN Lose(m) ELSE [m EXCEPT !.blk[a][field] = b]

\* One write of harness.c.
Header(m, w) ==
  LET b == m.blk[w.a]
  IN CASE w.op \in {"malloc", "check"} /\ m.noallocate_mode -> Lose(m)
       [] w.op = "malloc" /\ ~m.noallocate_mode ->
            [m EXCEPT !.blk[w.a] = [next |-> m.allocated, prev |-> NULL,
                                    magic |-> "header", data |-> [kind |-> "fill"]]]
       [] w.op = "prev of allocated" -> Relink(m, m.allocated, "prev", w.a)
       [] w.op = "allocated" -> [m EXCEPT !.allocated = w.a]
       [] w.op = "count" -> [m EXCEPT !.allocated_count = @ + w.v]
       [] w.op = "check" /\ ~m.noallocate_mode -> find_header(m, w.a)
       [] w.op = "magic" -> [m EXCEPT !.blk[w.a].magic = "free"]
       [] w.op = "next of prev" ->
            IF b.prev = NULL /\ w.v THEN [m EXCEPT !.allocated = b.next]
            ELSE Relink(m, b.prev, "next", b.next)
       [] w.op = "prev of next" -> Relink(m, b.next, "prev", b.prev)
       [] OTHER -> [m EXCEPT !.blk[w.a] = Free]
=============================================================================
