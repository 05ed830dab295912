------------------------------ MODULE MCProxy ------------------------------
(***************************************************************************)
(* Values for the constants of Proxy: objects a and b are smaller than     *)
(* MAX_OBJECT_SIZE, of one chunk and of two; big is larger, with a last    *)
(* chunk that fits after a chunk that does not.                            *)
(***************************************************************************)
EXTENDS Proxy

CONSTANTS a, b, big

Sizes == [o \in Objects |-> CASE o = a -> 2 [] o = b -> 3 [] o = big -> 9 [] OTHER -> 1]

\* Requests at the same time, and a longer sequence of requests one at a time.
Race  == {[objects |-> {a, b}, conns |-> 3, live |-> 3]}
Mixed == Race \cup {[objects |-> {a, b, big}, conns |-> 5, live |-> 1]}
Pairs == {[objects |-> {a, b}, conns |-> 3, live |-> 2]}
=============================================================================
