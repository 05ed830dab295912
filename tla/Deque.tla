------------------------------- MODULE Deque -------------------------------
(***************************************************************************)
(* What queue.h promises: a sequence that grows at both ends, shrinks at   *)
(* its head and can be reversed.  An operation that fails changes nothing. *)
(***************************************************************************)
EXTENDS Sequences, SequencesExt

CONSTANTS Strings, NoQueue

VARIABLE items       \* the strings in the queue, or NoQueue

Init == items = NoQueue

New     == items' = <<>>
Discard == items' = NoQueue

Change ==
  /\ items # NoQueue
  /\ \/ \E s \in Strings : items' = <<s>> \o items
     \/ \E s \in Strings : items' = Append(items, s)
     \/ items # <<>> /\ items' = Tail(items)
     \/ items' = Reverse(items)

Next == New \/ Discard \/ Change

Spec == Init /\ [][Next]_items
=============================================================================
