------------------------------ MODULE LruCache ------------------------------
(***************************************************************************)
(* A set-associative cache with least-recently-used replacement: the       *)
(* blocks it holds, and which of them was used before which.  There are no *)
(* lines and no clock.                                                     *)
(***************************************************************************)
EXTENDS Naturals, FiniteSets

CONSTANTS NumSets, Ways, BlockSize, Addresses, NoLine

Line == [op : {"L", "S", "M"}, address : Addresses]

Block(address) == address \div BlockSize
Set(block) == block % NumSets

VARIABLES read,       \* the last line of the trace
          held,       \* the blocks in the cache
          older,      \* <<a, b>>: the last use of a was before that of b
          counts      \* the hits, misses and evictions so far

Init ==
  /\ read = NoLine
  /\ held = {} /\ older = {}
  /\ counts = [hit |-> 0, miss |-> 0, evict |-> 0]

Mates(set) == {block \in held : Set(block) = set}

\* The block of a set that was used before all others.
LeastRecent(set) ==
  CHOOSE oldest \in Mates(set) : \A other \in Mates(set) \ {oldest} : <<oldest, other>> \in older

Hits(block)   == block \in held
Evicts(block) == ~Hits(block) /\ Cardinality(Mates(Set(block))) = Ways

\* The blocks that stay beside the one that is used.
Others(block) ==
  held \ ({block} \cup IF Evicts(block) THEN {LeastRecent(Set(block))} ELSE {})

\* A load or a store is one reference; a modification is a second one, which
\* hits.  All that stay were used before the block of the reference.
Reference(line) ==
  LET block == Block(line.address)
      others == Others(block)
  IN /\ read' = line
     /\ held' = others \cup {block}
     /\ older' = (older \cap (others \X others)) \cup (others \X {block})
     /\ counts' = [hit   |-> counts.hit + (IF Hits(block) THEN 1 ELSE 0)
                                        + (IF line.op = "M" THEN 1 ELSE 0),
                   miss  |-> counts.miss + IF Hits(block) THEN 0 ELSE 1,
                   evict |-> counts.evict + IF Evicts(block) THEN 1 ELSE 0]

Next == \E line \in Line : Reference(line)

Spec == Init /\ [][Next]_<<read, held, older, counts>>
=============================================================================
