------------------------------- MODULE Sbuf -------------------------------
(***************************************************************************)
(* The bounded buffer of sbuf.c, shared by producer threads that call      *)
(* sbuf_insert and consumer threads that call sbuf_remove (main and the    *)
(* workers of echoservert_pre.c).  The semaphores are the counters mutex,  *)
(* slots and items; P waits for a positive counter.  The pre-increment of  *)
(* an index is a load followed by a store, since only mutex keeps another  *)
(* thread from running in between.                                         *)
(***************************************************************************)
EXTENDS Integers, Sequences, FiniteSets

CONSTANTS Producers,   \* threads that insert
          Consumers,   \* threads that remove
          Items,       \* the ints that can be inserted
          NoItem,      \* a slot of the calloc'ed buffer nobody wrote to yet
          N,           \* sp->n, the number of slots
          IntMax,      \* INT_MAX of the int that holds front and rear
          MaxInserts   \* bound: how many insertions a behaviour starts

ASSUME ThreadAssumption ==
  /\ IsFiniteSet(Producers) /\ IsFiniteSet(Consumers)
  /\ Producers \cap Consumers = {}
ASSUME ItemAssumption == NoItem \notin Items
ASSUME SizeAssumption ==
  /\ N \in Nat \ {0}
  /\ IntMax \in Nat \ {0}
  /\ MaxInserts \in Nat

VARIABLES buf, front, rear,     \* sp->buf, sp->front, sp->rear
          sem,                  \* sp->mutex, sp->slots, sp->items
          pc,                   \* where each thread is in its call
          reg,                  \* the incremented index a thread holds
          item,                 \* the item a thread inserts or has removed
          started               \* insertions started, against MaxInserts

vars == <<buf, front, rear, sem, pc, reg, item, started>>

Threads == Producers \cup Consumers

Fifo == INSTANCE BoundedFifo
          WITH Capacity <- N,
               queue <- [i \in 1..(rear - front) |-> buf[(front + i) % N]],
               got <- [c \in Consumers |-> item[c]]

\* ++x on an int: the sum wraps on every build without -ftrapv.
Inc(x) == IF x = IntMax THEN -IntMax - 1 ELSE x + 1

\* C's x % n, whose sign is the sign of x.
CMod(x, n) == IF x >= 0 THEN x % n ELSE -((-x) % n)

TypeOK ==
  /\ buf \in [0..N-1 -> Items \cup {NoItem}]
  /\ front \in Int /\ rear \in Int
  /\ sem \in [{"mutex", "slots", "items"} -> Nat] /\ sem["mutex"] <= 1
  /\ pc \in [Threads -> {"call", "lock", "load", "store", "unlock", "post"}]
  /\ reg \in [Threads -> Int]
  /\ item \in [Threads -> Items \cup {NoItem}]
  /\ started \in 0..MaxInserts

\* sbuf_init: an empty buffer with every slot available.
InitSemN == sem = [mutex |-> N, slots |-> N, items |-> 0]  \* mutant

InitSem == sem = [mutex |-> 1, slots |-> N, items |-> 0]

Init ==
  /\ buf = [i \in 0..N-1 |-> NoItem]
  /\ front = 0 /\ rear = 0
  /\ InitSem
  /\ pc = [t \in Threads |-> "call"]
  /\ reg = [t \in Threads |-> 0]
  /\ item = [t \in Threads |-> NoItem]
  /\ started = 0

Goto(t, from, to) == pc[t] = from /\ pc' = [pc EXCEPT ![t] = to]

\* csapp's P and V.
P(s) == sem[s] > 0 /\ sem' = [sem EXCEPT ![s] = @ - 1]
V(s) == sem' = [sem EXCEPT ![s] = @ + 1]

-----------------------------------------------------------------------------
\* P(&sp->mutex) and V(&sp->mutex), the same in both functions.
LockNot(t) ==                \* mutant: P(&sp->mutex) forgotten
  /\ Goto(t, "lock", "load")
  /\ UNCHANGED <<buf, front, rear, sem, reg, item, started>>

Lock(t) ==
  /\ Goto(t, "lock", "load")
  /\ P("mutex")
  /\ UNCHANGED <<buf, front, rear, reg, item, started>>

Unlock(t) ==
  /\ Goto(t, "unlock", "post")
  /\ V("mutex")
  /\ UNCHANGED <<buf, front, rear, reg, item, started>>

-----------------------------------------------------------------------------
\* sbuf_insert: wait for a slot, store under the lock, announce the item.
InsertWaitNot(p) ==          \* mutant: P(&sp->slots) forgotten
  /\ started < MaxInserts
  /\ Goto(p, "call", "lock")
  /\ \E i \in Items : item' = [item EXCEPT ![p] = i]
  /\ started' = started + 1
  /\ UNCHANGED <<buf, front, rear, sem, reg>>

InsertWait(p) ==
  /\ started < MaxInserts
  /\ Goto(p, "call", "lock")
  /\ P("slots")
  /\ \E i \in Items : item' = [item EXCEPT ![p] = i]
  /\ started' = started + 1
  /\ UNCHANGED <<buf, front, rear, reg>>

InsertLoad(p) ==
  /\ Goto(p, "load", "store")
  /\ reg' = [reg EXCEPT ![p] = Inc(rear)]
  /\ UNCHANGED <<buf, front, rear, sem, item, started>>

InsertStorePost(p) ==        \* mutant: buf[(sp->rear++)%n] = item
  /\ Goto(p, "store", "unlock")
  /\ rear' = reg[p]
  /\ buf' = [buf EXCEPT ![CMod(rear, N)] = item[p]]
  /\ UNCHANGED <<front, sem, reg, item, started>>

InsertStore(p) ==
  /\ Goto(p, "store", "unlock")
  /\ rear' = reg[p]
  /\ buf' = [buf EXCEPT ![CMod(reg[p], N)] = item[p]]
  /\ UNCHANGED <<front, sem, reg, item, started>>

InsertPostNot(p) ==          \* mutant: V(&sp->items) forgotten
  /\ Goto(p, "post", "call")
  /\ UNCHANGED <<buf, front, rear, sem, reg, item, started>>

InsertPost(p) ==
  /\ Goto(p, "post", "call")
  /\ V("items")
  /\ UNCHANGED <<buf, front, rear, reg, item, started>>

-----------------------------------------------------------------------------
\* sbuf_remove: wait for an item, take it under the lock, announce the slot.
RemoveWait(c) ==
  /\ Goto(c, "call", "lock")
  /\ P("items")
  /\ UNCHANGED <<buf, front, rear, reg, item, started>>

RemoveLoad(c) ==
  /\ Goto(c, "load", "store")
  /\ reg' = [reg EXCEPT ![c] = Inc(front)]
  /\ UNCHANGED <<buf, front, rear, sem, item, started>>

\* An index outside the buffer reads whatever lies there.
RemoveStore(c) ==
  LET i == CMod(reg[c], N)
  IN /\ Goto(c, "store", "unlock")
     /\ front' = reg[c]
     /\ item' = [item EXCEPT ![c] = IF i \in 0..N-1 THEN buf[i] ELSE NoItem]
     /\ UNCHANGED <<buf, rear, sem, reg, started>>

RemovePost(c) ==
  /\ Goto(c, "post", "call")
  /\ V("slots")
  /\ UNCHANGED <<buf, front, rear, reg, item, started>>

sbuf_insert(p) ==
  \/ InsertWait(p) \/ Lock(p) \/ InsertLoad(p)
  \/ InsertStore(p) \/ Unlock(p) \/ InsertPost(p)

sbuf_remove(c) ==
  \/ RemoveWait(c) \/ Lock(c) \/ RemoveLoad(c)
  \/ RemoveStore(c) \/ Unlock(c) \/ RemovePost(c)

Next ==
  \/ \E p \in Producers : sbuf_insert(p)
  \/ \E c \in Consumers : sbuf_remove(c)

\* Every thread is scheduled; P and the thread scheduler choose whom they like.
Fairness ==
  /\ \A p \in Producers : WF_vars(sbuf_insert(p))
  /\ \A c \in Consumers : WF_vars(sbuf_remove(c))

Spec == Init /\ [][Next]_vars /\ Fairness

-----------------------------------------------------------------------------
(***************************************************************************)
(* Properties                                                              *)
(***************************************************************************)
InCS(t) == pc[t] \in {"load", "store", "unlock"}

\* "Protects accesses to buf" (sbuf.h): never two threads between P(&mutex)
\* and V(&mutex), and the semaphore says whether there is one.
Exclusion ==
  /\ \A t, u \in Threads : InCS(t) /\ InCS(u) => t = u
  /\ sem["mutex"] = 0 <=> \E t \in Threads : InCS(t)

\* Threads that hold a slot and have not filled it, have filled it and not
\* announced it, hold an item and have not taken it, have taken it and not
\* given its slot back.
Filling   == {p \in Producers : pc[p] \in {"lock", "load", "store"}}
Filled    == {p \in Producers : pc[p] \in {"unlock", "post"}}
Emptying  == {c \in Consumers : pc[c] \in {"lock", "load", "store"}}
Emptied   == {c \in Consumers : pc[c] \in {"unlock", "post"}}

\* The semaphores account for every slot at every step: an item in the
\* buffer is announced, about to be, or promised to a consumer, and a slot
\* not holding one is available, promised to a producer, or on its way back.
Accounting ==
  /\ rear - front = sem["items"] + Cardinality(Filled) + Cardinality(Emptying)
  /\ N = (rear - front) + sem["slots"] + Cardinality(Filling) + Cardinality(Emptied)

\* The buffer of sbuf.c is a bounded FIFO queue of its items, each handed to
\* one consumer.
ImplementsFifo == Fifo!Spec

\* Whatever is inserted is removed: once there are items the buffer is
\* empty again later, since at most MaxInserts insertions ever start.
Drains == rear # front ~> rear = front
=============================================================================
