-------------------------------- MODULE Csim --------------------------------
(***************************************************************************)
(* The cache simulator csim.c: S sets of E lines in one array, searched    *)
(* and replaced by comparing tags and access times.  A trace is any        *)
(* sequence of loads, stores and modifications.                            *)
(***************************************************************************)
EXTENDS Integers, FiniteSets

CONSTANTS s, E, b,    \* the options of the command line
          Addresses,  \* the addresses in the trace
          NoLine,     \* what is read before the trace begins
          TagMod,     \* 2^32: an int parameter carries the tag
          MaxTime     \* bound on the length of the trace

\* pow as an int, which is negative if it does not fit.
pow2(n) == IF n < 0 THEN 0 ELSE IF n > 30 THEN -1 ELSE 2^n

S == pow2(s)
B == pow2(b)

\* parse ends the program with other options.
Accepted == S > 0 /\ E > 0 /\ B > 0

ASSUME CsimAssumption ==
  /\ {S, E, B} \subseteq Int /\ Accepted
  /\ MaxTime \in Nat
  /\ Addresses \subseteq Nat
  /\ TagMod \in Nat \ {0}

VARIABLES read,      \* the line of the trace read last
          cache, time,
          count      \* the hits, misses and evictions

vars == <<read, cache, time, count>>

Sets  == 0..S-1
Lines == 0..E-1

\* The line structures come from malloc: only valid_bit is initialised.
Garbage == {0, MaxTime}

init_cache ==
  \E g \in Garbage :
    cache = [i \in 0..S*E-1 |-> [valid_bit |-> 0, tag |-> g, access_time |-> g]]

Init ==
  /\ read = NoLine
  /\ init_cache
  /\ time = 0
  /\ count = [hit |-> 0, miss |-> 0, evict |-> 0]

At(set, line) == E * set + line

\* The lines of a set that hold a tag, and those that hold none.
Matching(set, tag) ==
  {i \in {At(set, line) : line \in Lines} : cache[i].valid_bit = 1 /\ cache[i].tag = tag}
Empty(set) == {i \in {At(set, line) : line \in Lines} : cache[i].valid_bit = 0}

First(is) == CHOOSE i \in is : \A j \in is : i <= j

if_cache_hitStale(set, tag, now, extra) ==     \* mutant: the access is not timed
  /\ Matching(set, tag) # {}
  /\ cache' = cache
  /\ count' = [count EXCEPT !.hit = @ + 1 + extra]

if_cache_hit(set, tag, now, extra) ==
  /\ Matching(set, tag) # {}
  /\ cache' = [cache EXCEPT ![First(Matching(set, tag))].access_time = now]
  /\ count' = [count EXCEPT !.hit = @ + 1 + extra]

Filled(tag, now) == [valid_bit |-> 1, tag |-> tag, access_time |-> now]

if_empty_line(set, tag, now, extra) ==
  /\ Matching(set, tag) = {}
  /\ Empty(set) # {}
  /\ cache' = [cache EXCEPT ![First(Empty(set))] = Filled(tag, now)]
  /\ count' = [count EXCEPT !.miss = @ + 1, !.hit = @ + extra]

\* The first line with the earliest access; where no access is earlier than
\* now, idx is never assigned.
LRU_line_idx(set, now) ==
  LET age(line) == cache[At(set, line)].access_time
      earliest  == {line \in Lines : age(line) < now /\ \A l \in Lines : age(line) <= age(l)}
  IN IF earliest = {} THEN Lines ELSE {First(earliest)}

replace(set, tag, now, extra) ==
  /\ Matching(set, tag) = {} /\ Empty(set) = {}
  /\ \E line \in LRU_line_idx(set, now) :
       cache' = [cache EXCEPT ![At(set, line)] = Filled(tag, now)]
  /\ count' = [count EXCEPT !.miss = @ + 1, !.evict = @ + 1, !.hit = @ + extra]

load_to_cache(set, tag, now, extra) ==
  \/ if_cache_hit(set, tag, now, extra)
  \/ if_empty_line(set, tag, now, extra)
  \/ replace(set, tag, now, extra)

Operations == {"L", "S", "M"}

set_bits(address) == (address \div B) % S
tag_bits(address) == address \div (B * S)

\* A line of the trace.  The write of an "M" always hits.
Simulate(op, address) ==
  /\ time' = time + 1
  /\ read' = [op |-> op, address |-> address]
  /\ load_to_cache(set_bits(address), tag_bits(address) % TagMod, time + 1, IF op = "M" THEN 1 ELSE 0)

Next == \E op \in Operations, address \in Addresses : time < MaxTime /\ Simulate(op, address)

Spec == Init /\ [][Next]_vars

-----------------------------------------------------------------------------
\* The lines in use, each with its set, the block in a line and when it was
\* accessed last.
Valid == {p \in Sets \X Lines : cache[At(p[1], p[2])].valid_bit = 1}
BlockIn(p) == cache[At(p[1], p[2])].tag * S + p[1]
Accessed(p) == cache[At(p[1], p[2])].access_time

Held == {BlockIn(p) : p \in Valid}
Earlier == {r \in Valid \X Valid : Accessed(r[1]) < Accessed(r[2])}
Older == {<<BlockIn(r[1]), BlockIn(r[2])>> : r \in Earlier}

Lru == INSTANCE LruCache WITH
         NumSets <- S, Ways <- E, BlockSize <- B,
         held <- Held, older <- Older, counts <- count

\* The simulator counts what a cache with least-recently-used replacement
\* does, whatever the uninitialised lines hold.
ImplementsLru == Lru!Spec
=============================================================================
