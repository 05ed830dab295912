----------------------------- MODULE Allocator -----------------------------
(***************************************************************************)
(* What malloc, free and realloc promise a program: a block is as long as  *)
(* was asked for, shares no word with another live block, and its words    *)
(* change only when the program writes them or gives them up.  The         *)
(* allocators of the malloc lab are shown to implement it.                 *)
(***************************************************************************)
EXTENDS Integers, Sequences

CONSTANTS Handles,   \* the pointers a program keeps
          Sizes,     \* the lengths it asks for, in words
          Arena,     \* the addresses a block may use
          Mark       \* what the program writes into its blocks

VARIABLE owned       \* the words of each handle's block, by address

None == [a \in {} |-> 0]

Words(lo, n) == lo..lo + n - 1
Fresh(h, lo, n) ==
  /\ Words(lo, n) \subseteq Arena
  /\ \A g \in Handles \ {h} : Words(lo, n) \cap DOMAIN owned[g] = {}

Init == owned = [h \in Handles |-> None]

\* h has a block of a length asked for, all of it filled by the program.
Filled(h) ==
  LET after == owned'
  IN \E n \in Sizes, lo \in Arena :
       /\ DOMAIN after[h] = Words(lo, n) /\ Fresh(h, lo, n)
       /\ after = [owned EXCEPT ![h] = [a \in Words(lo, n) |-> Mark]]

Malloc(h) == owned[h] = None /\ Filled(h)

Free(h) ==
  /\ owned[h] # None
  /\ owned' = [owned EXCEPT ![h] = None]

\* The new block starts with the words of the old one, as many as fit; the
\* program fills the rest.
Realloc(h) == owned[h] # None /\ Filled(h)

\* The memory is taken away from under the program, as a new trace begins.
Reset == owned' = [h \in Handles |-> None]

Next == Reset \/ \E h \in Handles : Malloc(h) \/ Free(h) \/ Realloc(h)

Spec == Init /\ [][Next]_owned
=============================================================================
