---------------------------- MODULE BoundedFifo ----------------------------
(***************************************************************************)
(* What a bounded, shared FIFO buffer promises its callers: an insertion   *)
(* puts its item at the rear of a queue that is never longer than          *)
(* Capacity, and a removal hands the item at the front to exactly one      *)
(* consumer.  Module Sbuf is shown to implement it.                        *)
(***************************************************************************)
EXTENDS Naturals, Sequences

CONSTANTS Capacity,   \* the largest number of items the queue may hold
          Consumers,  \* the threads that remove items
          Items,      \* the values that can be inserted
          NoItem      \* what a consumer that has removed nothing holds

VARIABLES queue,      \* the items inserted and not yet removed, oldest first
          got         \* the last item each consumer removed, or NoItem

vars == <<queue, got>>

TypeOK ==
  /\ queue \in Seq(Items)
  /\ got \in [Consumers -> Items \cup {NoItem}]

Init ==
  /\ queue = <<>>
  /\ got = [c \in Consumers |-> NoItem]

Put(item) ==
  /\ Len(queue) < Capacity
  /\ queue' = Append(queue, item)
  /\ UNCHANGED got

Get(c) ==
  /\ queue # <<>>
  /\ got' = [got EXCEPT ![c] = Head(queue)]
  /\ queue' = Tail(queue)

Next ==
  \/ \E item \in Items : Put(item)
  \/ \E c \in Consumers : Get(c)

Spec == Init /\ [][Next]_vars
=============================================================================
