----------------------------- MODULE CsappProofs -----------------------------
(***************************************************************************)
(* Theorems about the packages of csapp that every server uses: Sbuf, for  *)
(* every number of threads, slots and items, and Rio, for every stream,    *)
(* buffer, socket and mix of calls.                                        *)
(***************************************************************************)
EXTENDS Sbuf, Rio, Induction, SequenceTheorems

(***************************************************************************)
(* Typing and mutual exclusion are inductive together: Unlock raises a     *)
(* semaphore that is in {0, 1} only because the thread that unlocks is     *)
(* inside, and nobody else is.                                             *)
(***************************************************************************)
Locked == TypeOK /\ Exclusion

LEMMA LockedInit == Init => Locked
BY SizeAssumption DEF Init, InitSem, Locked, TypeOK, Exclusion, InCS

LEMMA LockedStep == Locked /\ [Next]_vars => Locked'
<1> SUFFICES ASSUME Locked, [Next]_vars
             PROVE  Locked'
  OBVIOUS
<1> USE SizeAssumption, ThreadAssumption
    DEF Locked, TypeOK, Exclusion, InCS, Goto, Threads, P, V
<1>1. ASSUME NEW t \in Threads, Lock(t)
      PROVE  Locked'
  BY <1>1 DEF Lock
<1>2. ASSUME NEW t \in Threads, Unlock(t)
      PROVE  Locked'
  BY <1>2 DEF Unlock
<1>3. ASSUME NEW p \in Producers, InsertWait(p)
      PROVE  Locked'
  BY <1>3 DEF InsertWait
<1>4. ASSUME NEW p \in Producers, InsertLoad(p)
      PROVE  Locked'
  BY <1>4 DEF InsertLoad, Inc
<1>5. ASSUME NEW p \in Producers, InsertStore(p)
      PROVE  Locked'
  BY <1>5 DEF InsertStore
<1>6. ASSUME NEW p \in Producers, InsertPost(p)
      PROVE  Locked'
  BY <1>6 DEF InsertPost
<1>7. ASSUME NEW c \in Consumers, RemoveWait(c)
      PROVE  Locked'
  BY <1>7 DEF RemoveWait
<1>8. ASSUME NEW c \in Consumers, RemoveLoad(c)
      PROVE  Locked'
  BY <1>8 DEF RemoveLoad, Inc
<1>9. ASSUME NEW c \in Consumers, RemoveStore(c)
      PROVE  Locked'
  BY <1>9 DEF RemoveStore
<1>10. ASSUME NEW c \in Consumers, RemovePost(c)
       PROVE  Locked'
  BY <1>10 DEF RemovePost
<1>11. CASE UNCHANGED vars
  BY <1>11 DEF vars
<1>12. QED
  BY <1>1, <1>2, <1>3, <1>4, <1>5, <1>6, <1>7, <1>8, <1>9, <1>10, <1>11
     DEF Next, sbuf_insert, sbuf_remove

\* Every variable keeps its type; above all mutex never exceeds 1.
THEOREM Typed == Spec => []TypeOK
<1>1. Locked => TypeOK
  BY DEF Locked
<1>2. QED
  BY <1>1, LockedInit, LockedStep, PTL DEF Spec

\* Never two threads between P(&mutex) and V(&mutex) of sbuf.c.
THEOREM MutualExclusion == Spec => []Exclusion
<1>1. Locked => Exclusion
  BY DEF Locked
<1>2. QED
  BY <1>1, LockedInit, LockedStep, PTL DEF Spec

-----------------------------------------------------------------------------
(***************************************************************************)
(* The account of the slots.  It needs that an index a thread holds is     *)
(* the next one, which Exclusion gives, and that no index wraps, which     *)
(* holds as long as the insertions can be counted in an int.               *)
(***************************************************************************)
Indices ==
  /\ front \in Nat /\ rear \in Nat
  /\ rear + Cardinality(Filling) <= started
  /\ \A p \in Producers : pc[p] = "store" => reg[p] = rear + 1
  /\ \A c \in Consumers : pc[c] = "store" => reg[c] = front + 1

Accounted == Locked /\ Indices /\ Accounting

\* One thread joins or leaves a finite set of threads.
LEMMA Join ==
  ASSUME NEW S, NEW T, NEW x, IsFiniteSet(S), x \notin S, T = S \cup {x}
  PROVE  Cardinality(T) = Cardinality(S) + 1
BY FS_AddElement

LEMMA Leave ==
  ASSUME NEW S, NEW T, NEW x, IsFiniteSet(S), x \in S, T = S \ {x}
  PROVE  Cardinality(T) = Cardinality(S) - 1
BY FS_RemoveElement

\* The four sets Accounting counts are finite.
LEMMA Counted ==
  /\ IsFiniteSet(Filling) /\ Cardinality(Filling) \in Nat
  /\ IsFiniteSet(Filled) /\ Cardinality(Filled) \in Nat
  /\ IsFiniteSet(Emptying) /\ Cardinality(Emptying) \in Nat
  /\ IsFiniteSet(Emptied) /\ Cardinality(Emptied) \in Nat
<1>1. /\ Filling \subseteq Producers /\ Filled \subseteq Producers
      /\ Emptying \subseteq Consumers /\ Emptied \subseteq Consumers
  BY DEF Filling, Filled, Emptying, Emptied
<1>2. QED
  BY <1>1, ThreadAssumption, FS_Subset, FS_CardinalityType

LEMMA AccountedInit == Init => Accounted
<1> SUFFICES ASSUME Init PROVE Accounted
  OBVIOUS
<1>1. Filling = {} /\ Filled = {} /\ Emptying = {} /\ Emptied = {}
  BY ThreadAssumption DEF Init, Threads, Filling, Filled, Emptying, Emptied
<1>2. Cardinality({}) = 0
  BY FS_EmptySet
<1>3. Indices /\ Accounting
  BY <1>1, <1>2, SizeAssumption, ThreadAssumption
     DEF Init, InitSem, Indices, Accounting, Threads
<1>4. QED
  BY <1>3, LockedInit DEF Accounted

LEMMA AccountedStep ==
  ASSUME MaxInserts <= IntMax, Accounted, [Next]_vars
  PROVE  Accounted'
<1> USE SizeAssumption, ThreadAssumption, Counted DEF Accounted
<1>1. Locked'
  BY LockedStep
<1> SUFFICES Indices' /\ Accounting'
  BY <1>1
<1>0. /\ sem["items"] \in Nat /\ sem["slots"] \in Nat /\ started \in 0..MaxInserts
      /\ front \in Nat /\ rear \in Nat
  BY DEF Indices, Locked, TypeOK
<1>2. ASSUME NEW t \in Threads, Lock(t) \/ Unlock(t)
      PROVE  Indices' /\ Accounting'
  <2>1. UNCHANGED <<Filling, Filled, Emptying, Emptied>>
    BY <1>2 DEF Lock, Unlock, Goto, Locked, TypeOK, Threads,
               Filling, Filled, Emptying, Emptied
  <2>2. UNCHANGED <<front, rear, reg, started, sem["slots"], sem["items"]>>
    BY <1>2 DEF Lock, Unlock, P, V, Locked, TypeOK
  <2>3. \A u \in Threads : pc'[u] = "store" => pc[u] = "store"
    BY <1>2 DEF Lock, Unlock, Goto, Locked, TypeOK
  <2>4. QED
    BY <2>1, <2>2, <2>3 DEF Indices, Accounting, Threads
<1>3. ASSUME NEW p \in Producers, InsertWait(p)
      PROVE  Indices' /\ Accounting'
  <2>1. /\ p \notin Filling /\ Filling' = Filling \cup {p}
        /\ UNCHANGED <<Filled, Emptying, Emptied>>
    BY <1>3 DEF InsertWait, Goto, Locked, TypeOK, Threads,
               Filling, Filled, Emptying, Emptied
  <2>2. Cardinality(Filling') = Cardinality(Filling) + 1
    BY <2>1, Join
  <2>3. /\ UNCHANGED <<front, rear, reg, sem["items"]>>
        /\ started' = started + 1 /\ sem'["slots"] = sem["slots"] - 1
    BY <1>3 DEF InsertWait, P, Locked, TypeOK
  <2>4. \A u \in Threads : pc'[u] = "store" => pc[u] = "store"
    BY <1>3 DEF InsertWait, Goto, Locked, TypeOK
  <2>5. Indices'
    BY <1>0, <2>1, <2>2, <2>3, <2>4 DEF Indices, Threads
  <2>6. Accounting'
    BY <1>0, <2>1, <2>2, <2>3 DEF Accounting
  <2>7. QED
    BY <2>5, <2>6
<1>4. ASSUME NEW p \in Producers, InsertLoad(p)
      PROVE  Indices' /\ Accounting'
  <2>1. p \in Filling /\ UNCHANGED <<Filling, Filled, Emptying, Emptied>>
    BY <1>4 DEF InsertLoad, Goto, Locked, TypeOK, Threads,
               Filling, Filled, Emptying, Emptied
  <2>2. Cardinality(Filling) >= 1
    BY <2>1, FS_EmptySet
  <2>3. Inc(rear) = rear + 1
    BY <2>2 DEF Inc, Indices, Locked, TypeOK
  <2>4. UNCHANGED <<front, rear, started, sem>>
    BY <1>4 DEF InsertLoad
  <2>5. /\ \A q \in Producers : pc'[q] = "store" => reg'[q] = rear + 1
        /\ \A c \in Consumers : pc'[c] = "store" => pc[c] = "store" /\ reg'[c] = reg[c]
    BY <1>4, <2>3 DEF InsertLoad, Goto, Indices, Locked, TypeOK, Threads
  <2>6. QED
    BY <2>1, <2>4, <2>5 DEF Indices, Accounting
<1>5. ASSUME NEW p \in Producers, InsertStore(p)
      PROVE  Indices' /\ Accounting'
  <2>1. /\ p \in Filling /\ Filling' = Filling \ {p}
        /\ p \notin Filled /\ Filled' = Filled \cup {p}
        /\ UNCHANGED <<Emptying, Emptied>>
    BY <1>5 DEF InsertStore, Goto, Locked, TypeOK, Threads,
               Filling, Filled, Emptying, Emptied
  <2>2. /\ Cardinality(Filling') = Cardinality(Filling) - 1
        /\ Cardinality(Filled') = Cardinality(Filled) + 1
    BY <2>1, Join, Leave
  <2>3. rear' = rear + 1 /\ UNCHANGED <<front, reg, started, sem>>
    BY <1>5 DEF InsertStore, Goto, Indices
  <2>4. \A q \in Producers : pc'[q] # "store"
    BY <1>5 DEF InsertStore, Goto, Locked, TypeOK, Exclusion, InCS, Threads
  <2>5. \A c \in Consumers : pc'[c] = "store" => pc[c] = "store"
    BY <1>5 DEF InsertStore, Goto, Locked, TypeOK, Threads
  <2>6. Indices'
    BY <1>0, <2>1, <2>2, <2>3, <2>4, <2>5 DEF Indices
  <2>7. Accounting'
    BY <1>0, <2>1, <2>2, <2>3, <2>4, <2>5 DEF Accounting
  <2>8. QED
    BY <2>6, <2>7
<1>6. ASSUME NEW p \in Producers, InsertPost(p)
      PROVE  Indices' /\ Accounting'
  <2>1. /\ p \in Filled /\ Filled' = Filled \ {p}
        /\ UNCHANGED <<Filling, Emptying, Emptied>>
    BY <1>6 DEF InsertPost, Goto, Locked, TypeOK, Threads,
               Filling, Filled, Emptying, Emptied
  <2>2. Cardinality(Filled') = Cardinality(Filled) - 1
    BY <2>1, Leave
  <2>3. /\ UNCHANGED <<front, rear, reg, started, sem["slots"]>>
        /\ sem'["items"] = sem["items"] + 1
    BY <1>6 DEF InsertPost, V, Locked, TypeOK
  <2>4. \A u \in Threads : pc'[u] = "store" => pc[u] = "store"
    BY <1>6 DEF InsertPost, Goto, Locked, TypeOK
  <2>5. Indices'
    BY <1>0, <2>1, <2>2, <2>3, <2>4 DEF Indices, Threads
  <2>6. Accounting'
    BY <1>0, <2>1, <2>2, <2>3, <2>4 DEF Accounting
  <2>7. QED
    BY <2>5, <2>6
<1>7. ASSUME NEW c \in Consumers, RemoveWait(c)
      PROVE  Indices' /\ Accounting'
  <2>1. /\ c \notin Emptying /\ Emptying' = Emptying \cup {c}
        /\ UNCHANGED <<Filling, Filled, Emptied>>
    BY <1>7 DEF RemoveWait, Goto, Locked, TypeOK, Threads,
               Filling, Filled, Emptying, Emptied
  <2>2. Cardinality(Emptying') = Cardinality(Emptying) + 1
    BY <2>1, Join
  <2>3. /\ UNCHANGED <<front, rear, reg, started, sem["slots"]>>
        /\ sem'["items"] = sem["items"] - 1
    BY <1>7 DEF RemoveWait, P, Locked, TypeOK
  <2>4. \A u \in Threads : pc'[u] = "store" => pc[u] = "store"
    BY <1>7 DEF RemoveWait, Goto, Locked, TypeOK
  <2>5. Indices'
    BY <1>0, <2>1, <2>2, <2>3, <2>4 DEF Indices, Threads
  <2>6. Accounting'
    BY <1>0, <2>1, <2>2, <2>3, <2>4 DEF Accounting
  <2>7. QED
    BY <2>5, <2>6
<1>8. ASSUME NEW c \in Consumers, RemoveLoad(c)
      PROVE  Indices' /\ Accounting'
  <2>1. c \in Emptying /\ UNCHANGED <<Filling, Filled, Emptying, Emptied>>
    BY <1>8 DEF RemoveLoad, Goto, Locked, TypeOK, Threads,
               Filling, Filled, Emptying, Emptied
  <2>2. Cardinality(Emptying) >= 1
    BY <2>1, FS_EmptySet
  <2>3. front < rear
    BY <1>0, <2>2 DEF Accounting
  <2>4. Inc(front) = front + 1
    <3>1. rear <= IntMax
      BY <1>0 DEF Indices
    <3>2. QED
      BY <1>0, <2>3, <3>1 DEF Inc
  <2>5. UNCHANGED <<front, rear, started, sem>>
    BY <1>8 DEF RemoveLoad
  <2>6. /\ \A d \in Consumers : pc'[d] = "store" => reg'[d] = front + 1
        /\ \A p \in Producers : pc'[p] = "store" => pc[p] = "store" /\ reg'[p] = reg[p]
    BY <1>8, <2>4 DEF RemoveLoad, Goto, Indices, Locked, TypeOK, Threads
  <2>7. QED
    BY <2>1, <2>5, <2>6 DEF Indices, Accounting
<1>9. ASSUME NEW c \in Consumers, RemoveStore(c)
      PROVE  Indices' /\ Accounting'
  <2>1. /\ c \in Emptying /\ Emptying' = Emptying \ {c}
        /\ c \notin Emptied /\ Emptied' = Emptied \cup {c}
        /\ UNCHANGED <<Filling, Filled>>
    BY <1>9 DEF RemoveStore, Goto, Locked, TypeOK, Threads,
               Filling, Filled, Emptying, Emptied
  <2>2. /\ Cardinality(Emptying') = Cardinality(Emptying) - 1
        /\ Cardinality(Emptied') = Cardinality(Emptied) + 1
    BY <2>1, Join, Leave
  <2>3. front' = front + 1 /\ UNCHANGED <<rear, reg, started, sem>>
    BY <1>9 DEF RemoveStore, Goto, Indices
  <2>4. \A d \in Consumers : pc'[d] # "store"
    BY <1>9 DEF RemoveStore, Goto, Locked, TypeOK, Exclusion, InCS, Threads
  <2>5. \A p \in Producers : pc'[p] = "store" => pc[p] = "store"
    BY <1>9 DEF RemoveStore, Goto, Locked, TypeOK, Threads
  <2>6. Indices'
    BY <1>0, <2>1, <2>2, <2>3, <2>4, <2>5 DEF Indices
  <2>7. Accounting'
    BY <1>0, <2>1, <2>2, <2>3, <2>4, <2>5 DEF Accounting
  <2>8. QED
    BY <2>6, <2>7
<1>10. ASSUME NEW c \in Consumers, RemovePost(c)
       PROVE  Indices' /\ Accounting'
  <2>1. /\ c \in Emptied /\ Emptied' = Emptied \ {c}
        /\ UNCHANGED <<Filling, Filled, Emptying>>
    BY <1>10 DEF RemovePost, Goto, Locked, TypeOK, Threads,
                Filling, Filled, Emptying, Emptied
  <2>2. Cardinality(Emptied') = Cardinality(Emptied) - 1
    BY <2>1, Leave
  <2>3. /\ UNCHANGED <<front, rear, reg, started, sem["items"]>>
        /\ sem'["slots"] = sem["slots"] + 1
    BY <1>10 DEF RemovePost, V, Locked, TypeOK
  <2>4. \A u \in Threads : pc'[u] = "store" => pc[u] = "store"
    BY <1>10 DEF RemovePost, Goto, Locked, TypeOK
  <2>5. Indices'
    BY <1>0, <2>1, <2>2, <2>3, <2>4 DEF Indices, Threads
  <2>6. Accounting'
    BY <1>0, <2>1, <2>2, <2>3, <2>4 DEF Accounting
  <2>7. QED
    BY <2>5, <2>6
<1>11. CASE UNCHANGED vars
  BY <1>11 DEF vars, Indices, Accounting, Filling, Filled, Emptying, Emptied
<1>12. QED
  BY <1>2, <1>3, <1>4, <1>5, <1>6, <1>7, <1>8, <1>9, <1>10, <1>11
     DEF Next, sbuf_insert, sbuf_remove, Threads

\* The semaphores account for every slot, as long as the insertions can be
\* counted in the int that holds the index.
THEOREM SlotsAccounted ==
  ASSUME MaxInserts <= IntMax
  PROVE  Spec => []Accounting
<1>1. Accounted => Accounting
  BY DEF Accounted
<1>2. Accounted /\ [Next]_vars => Accounted'
  BY AccountedStep
<1>3. QED
  BY <1>1, <1>2, AccountedInit, PTL DEF Spec
-----------------------------------------------------------------------------
(***************************************************************************)
(* sbuf.c implements a FIFO queue.  An item stays where it was put until   *)
(* it is taken, because the indices between front and rear are fewer than  *)
(* N apart, and so differ modulo N.                                        *)
(***************************************************************************)
LEMMA SlotsDiffer ==
  ASSUME NEW n \in Nat \ {0}, NEW a \in Nat, NEW b \in Nat, a < b, b - a < n
  PROVE  a % n # b % n
<1> SUFFICES ASSUME a % n = b % n PROVE FALSE
  OBVIOUS
<1> DEFINE p == a \div n
           q == b \div n
<1>1. /\ a = n * p + (a % n) /\ b = n * q + (b % n)
      /\ p \in Nat /\ q \in Nat /\ a % n \in 0..n-1
  BY DivMod
<1> HIDE DEF p, q
<1>2. CASE p < q
  BY <1>1, <1>2, Multiples
<1>3. CASE q < p
  BY <1>1, <1>3, Multiples
<1>4. CASE p = q
  BY <1>1, <1>4
<1> QED BY <1>1, <1>2, <1>3, <1>4

LEMMA TailShifts ==
  ASSUME NEW S, NEW q \in Seq(S), q # <<>>
  PROVE  Tail(q) = [i \in 1..(Len(q) - 1) |-> q[i + 1]]
<1>1. /\ Tail(q) \in Seq(S) /\ Len(Tail(q)) = Len(q) - 1
      /\ \A i \in 1..Len(Tail(q)) : Tail(q)[i] = q[i + 1]
  BY HeadTailProperties
<1>2. ASSUME NEW r \in Seq(S) PROVE r = [i \in 1..Len(r) |-> r[i]]
  OBVIOUS
<1>3. Tail(q) = [i \in 1..Len(Tail(q)) |-> Tail(q)[i]]
  BY <1>1, <1>2
<1> QED BY <1>1, <1>3

Queue == [i \in 1..(rear - front) |-> buf[(front + i) % N]]
Got == [c \in Consumers |-> item[c]]

\* A producer on its way to a slot holds an item for it.
Carrying == \A p \in Producers : pc[p] \in {"lock", "load", "store"} => item[p] \in Items

LEMMA CarryingInit == Init => Carrying
BY DEF Init, Carrying, Threads

LEMMA CarryingStep == Locked /\ Carrying /\ [Next]_vars => Carrying'
<1> SUFFICES ASSUME Locked, Carrying, [Next]_vars PROVE Carrying'
  OBVIOUS
<1> USE ThreadAssumption DEF Locked, TypeOK, Carrying, Goto, Threads
<1>1. ASSUME NEW t \in Threads, Lock(t) \/ Unlock(t) PROVE Carrying'
  BY <1>1 DEF Lock, Unlock
<1>2. ASSUME NEW p \in Producers,
             InsertWait(p) \/ InsertLoad(p) \/ InsertStore(p) \/ InsertPost(p)
      PROVE  Carrying'
  BY <1>2 DEF InsertWait, InsertLoad, InsertStore, InsertPost
<1>3. ASSUME NEW c \in Consumers,
             RemoveWait(c) \/ RemoveLoad(c) \/ RemoveStore(c) \/ RemovePost(c)
      PROVE  Carrying'
  BY <1>3 DEF RemoveWait, RemoveLoad, RemoveStore, RemovePost
<1>4. CASE UNCHANGED vars
  BY <1>4 DEF vars
<1> QED BY <1>1, <1>2, <1>3, <1>4 DEF Next, sbuf_insert, sbuf_remove

-----------------------------------------------------------------------------
LEMMA StoreIsPut ==
  ASSUME Accounted, Carrying, NEW p \in Producers, InsertStore(p)
  PROVE  Fifo!Put(item[p])
<1> USE SizeAssumption
<1>1. /\ front \in Nat /\ rear \in Nat /\ reg[p] = rear + 1 /\ rear' = rear + 1 /\ front' = front
      /\ buf \in [0..N-1 -> Items \cup {NoItem}]
  BY DEF Accounted, Indices, Locked, TypeOK, InsertStore, Goto
<1>2. rear - front \in Nat /\ rear - front < N
  <2>1. p \in Filling
    BY DEF InsertStore, Goto, Filling
  <2>2. Cardinality(Filling) >= 1
    BY <2>1, Counted, FS_EmptySet
  <2>3. sem["slots"] \in Nat /\ sem["items"] \in Nat /\ Accounting
    BY DEF Accounted, Locked, TypeOK
  <2>4. front <= rear
    BY <1>1, <2>3, Counted, SMTT(30) DEF Accounting
  <2>5. rear - front < N
    BY <1>1, <2>2, <2>3, Counted DEF Accounting
  <2> QED BY <1>1, <2>4, <2>5
<1>3. (rear + 1) % N \in 0..N-1 /\ buf' = [buf EXCEPT ![(rear + 1) % N] = item[p]]
  <2>1. rear + 1 \in Nat
    BY <1>1
  <2>2. (rear + 1) % N \in 0..N-1
    BY <2>1, DivMod
  <2>3. CMod(rear + 1, N) = (rear + 1) % N
    BY <2>1 DEF CMod
  <2> QED BY <1>1, <2>2, <2>3 DEF InsertStore
<1>4. ASSUME NEW i \in 1..(rear - front) PROVE buf'[(front + i) % N] = buf[(front + i) % N]
  <2>1. front + i \in Nat /\ rear + 1 \in Nat /\ front + i < rear + 1 /\ rear + 1 - (front + i) < N
    BY <1>1, <1>2
  <2>2. (front + i) % N # (rear + 1) % N
    <3> DEFINE x == front + i
               y == rear + 1
    <3>1. x \in Nat /\ y \in Nat /\ x < y /\ y - x < N
      BY <1>1, <2>1
    <3> HIDE DEF x, y
    <3>2. x % N # y % N
      BY <3>1, SlotsDiffer
    <3> QED BY <3>2 DEF x, y
  <2>3. (front + i) % N \in 0..N-1
    BY <2>1, DivMod
  <2> QED BY <1>1, <1>3, <2>2, <2>3
<1>5. buf'[(rear + 1) % N] = item[p]
  BY <1>1, <1>3
<1>6. ASSUME NEW i \in 1..(rear - front) PROVE buf[(front + i) % N] \in Items \cup {NoItem}
  <2>1. front + i \in Nat
    BY <1>1
  <2>2. (front + i) % N \in 0..N-1
    BY <2>1, DivMod
  <2> QED BY <1>1, <2>2
<1>7. Queue \in Seq(Items \cup {NoItem}) /\ Len(Queue) = rear - front
  BY <1>2, <1>6 DEF Queue
<1>8. Append(Queue, item[p]) = [i \in 1..(rear - front + 1) |->
                                 IF i = rear - front + 1 THEN item[p] ELSE Queue[i]]
  BY <1>2, <1>7
<1>9. Queue' = [i \in 1..(rear - front + 1) |-> buf'[(front + i) % N]]
  BY <1>1 DEF Queue
<1>10. Queue' = Append(Queue, item[p])
  <2>1. ASSUME NEW i \in 1..(rear - front + 1)
        PROVE  buf'[(front + i) % N] = IF i = rear - front + 1 THEN item[p] ELSE Queue[i]
    <3>1. CASE i = rear - front + 1
      <4>1. front + i = rear + 1
        BY <1>1, <3>1
      <4> QED BY <1>5, <3>1, <4>1
    <3>2. CASE i \in 1..(rear - front)
      <4>1. Queue[i] = buf[(front + i) % N]
        BY <3>2 DEF Queue
      <4>2. i # rear - front + 1
        BY <1>1, <3>2
      <4>3. buf'[(front + i) % N] = buf[(front + i) % N]
        BY <1>4, <3>2
      <4> QED BY <4>1, <4>2, <4>3
    <3> QED BY <1>2, <3>1, <3>2
  <2> DEFINE f(i) == buf'[(front + i) % N]
             g(i) == IF i = rear - front + 1 THEN item[p] ELSE Queue[i]
             D == 1..(rear - front + 1)
  <2>2. \A i \in D : f(i) = g(i)
    BY <2>1
  <2>3. Queue' = [i \in D |-> f(i)] /\ Append(Queue, item[p]) = [i \in D |-> g(i)]
    BY <1>8, <1>9
  <2> HIDE DEF f, g, D
  <2> QED BY <2>2, <2>3
<1>11. Got' = Got
  BY DEF Got, InsertStore
<1> QED BY <1>2, <1>7, <1>10, <1>11 DEF Fifo!Put, Queue, Got

LEMMA StoreIsGet ==
  ASSUME Accounted, NEW c \in Consumers, RemoveStore(c)
  PROVE  Fifo!Get(c)
<1> USE SizeAssumption
<1>1. /\ front \in Nat /\ rear \in Nat /\ reg[c] = front + 1 /\ front' = front + 1 /\ rear' = rear
      /\ buf \in [0..N-1 -> Items \cup {NoItem}] /\ buf' = buf
      /\ item \in [Threads -> Items \cup {NoItem}]
  BY DEF Accounted, Indices, Locked, TypeOK, RemoveStore, Goto
<1>2. rear - front \in Nat \ {0}
  <2>1. c \in Emptying
    BY DEF RemoveStore, Goto, Emptying
  <2>2. Cardinality(Emptying) >= 1
    BY <2>1, Counted, FS_EmptySet
  <2>3. sem["slots"] \in Nat /\ sem["items"] \in Nat /\ Accounting
    BY DEF Accounted, Locked, TypeOK
  <2>4. front < rear
    BY <1>1, <2>2, <2>3, Counted, SMTT(30) DEF Accounting
  <2> QED BY <1>1, <2>4
<1>3. ASSUME NEW i \in 1..(rear - front) PROVE buf[(front + i) % N] \in Items \cup {NoItem}
  <2>1. front + i \in Nat
    BY <1>1
  <2>2. (front + i) % N \in 0..N-1
    BY <2>1, DivMod
  <2> QED BY <1>1, <2>2
<1>4. Queue \in Seq(Items \cup {NoItem}) /\ Len(Queue) = rear - front /\ Queue # <<>>
  BY <1>2, <1>3 DEF Queue
<1>5. Head(Queue) = buf[(front + 1) % N]
  BY <1>2, <1>4 DEF Queue
<1>6. item' = [item EXCEPT ![c] = buf[(front + 1) % N]]
  <2>1. (front + 1) % N \in 0..N-1 /\ CMod(reg[c], N) = (front + 1) % N
    BY <1>1, DivMod DEF CMod
  <2> QED BY <2>1 DEF RemoveStore
<1>7. Got' = [Got EXCEPT ![c] = Head(Queue)]
  BY <1>1, <1>5, <1>6 DEF Got, Threads
<1>8. Tail(Queue) = [i \in 1..(rear - front - 1) |-> Queue[i + 1]]
  BY <1>4, TailShifts
<1>9. Queue' = [i \in 1..(rear - front - 1) |-> buf[(front + 1 + i) % N]]
  BY <1>1 DEF Queue
<1>10. Queue' = Tail(Queue)
  <2>1. ASSUME NEW i \in 1..(rear - front - 1) PROVE Queue[i + 1] = buf[(front + 1 + i) % N]
    <3>1. i + 1 \in 1..(rear - front) /\ front + (i + 1) = front + 1 + i
      BY <1>1, <1>2
    <3> QED BY <3>1 DEF Queue
  <2> QED BY <1>8, <1>9, <2>1
<1> QED BY <1>4, <1>7, <1>10 DEF Fifo!Get, Queue, Got

LEMMA FifoStep ==
  ASSUME Accounted, Carrying, [Next]_vars
  PROVE  [Fifo!Next]_(Fifo!vars)
<1> SUFFICES Fifo!Next \/ UNCHANGED Fifo!vars
  OBVIOUS
<1>1. ASSUME UNCHANGED <<front, rear, buf>>, \A c \in Consumers : item'[c] = item[c]
      PROVE  UNCHANGED Fifo!vars
  BY <1>1 DEF Fifo!vars
<1>2. ASSUME NEW t \in Threads, Lock(t) \/ Unlock(t) PROVE UNCHANGED Fifo!vars
  BY <1>1, <1>2 DEF Lock, Unlock
<1>3. ASSUME NEW p \in Producers, InsertWait(p) \/ InsertLoad(p) \/ InsertPost(p)
      PROVE  UNCHANGED Fifo!vars
  BY <1>1, <1>3, ThreadAssumption DEF InsertWait, InsertLoad, InsertPost, Accounted, Locked, TypeOK, Threads
<1>4. ASSUME NEW p \in Producers, InsertStore(p) PROVE Fifo!Next
  <2>1. item[p] \in Items
    BY <1>4 DEF Carrying, InsertStore, Goto
  <2>2. Fifo!Put(item[p])
    BY <1>4, StoreIsPut
  <2>3. \E i \in Items : Fifo!Put(i)
    BY <2>1, <2>2 DEF Fifo!Put
  <2> QED BY <2>3 DEF Fifo!Next
<1>5. ASSUME NEW c \in Consumers, RemoveWait(c) \/ RemoveLoad(c) \/ RemovePost(c)
      PROVE  UNCHANGED Fifo!vars
  BY <1>1, <1>5 DEF RemoveWait, RemoveLoad, RemovePost
<1>6. ASSUME NEW c \in Consumers, RemoveStore(c) PROVE Fifo!Next
  BY <1>6, StoreIsGet DEF Fifo!Next
<1>7. CASE UNCHANGED vars
  BY <1>1, <1>7 DEF vars
<1> QED BY <1>2, <1>3, <1>4, <1>5, <1>6, <1>7 DEF Next, sbuf_insert, sbuf_remove, Threads

LEMMA FifoInit == Init => Fifo!Init
BY SizeAssumption DEF Init, Fifo!Init, Threads

\* sbuf.c is a bounded FIFO queue each of whose items goes to one consumer, for
\* any number of threads and slots, as long as the insertions can be counted in
\* the int that holds the index.
THEOREM SbufIsFifo ==
  ASSUME MaxInserts <= IntMax
  PROVE  Spec => ImplementsFifo
<1>1. Accounted /\ Carrying /\ [Next]_vars => Accounted' /\ Carrying'
  BY AccountedStep, CarryingStep DEF Accounted
<1>2. Accounted /\ Carrying /\ [Next]_vars => [Fifo!Next]_(Fifo!vars)
  BY FifoStep
<1> QED BY <1>1, <1>2, AccountedInit, CarryingInit, FifoInit, PTL DEF Spec, ImplementsFifo, Fifo!Spec

-----------------------------------------------------------------------------
(***************************************************************************)
(* The bytes of Rio.                                                       *)
(***************************************************************************)
\* n bytes in the order of the stream, after the first k.
Run(k, n) == [i \in 1..n |-> k + i]

LEMMA RunSeq ==
  ASSUME NEW k \in Nat, NEW n \in Nat
  PROVE  /\ Run(k, n) \in Seq(Nat) /\ Len(Run(k, n)) = n
         /\ \A i \in 1..n : Run(k, n)[i] = k + i
BY DEF Run

LEMMA IsRun ==
  ASSUME NEW s \in Seq(Nat), NEW k \in Nat, \A i \in 1..Len(s) : s[i] = k + i
  PROVE  s = Run(k, Len(s))
BY DEF Run

LEMMA RunRun ==
  ASSUME NEW k \in Nat, NEW n \in Nat, NEW l \in Nat
  PROVE  Run(k, n) \o Run(k + n, l) = Run(k, n + l)
<1> DEFINE s == Run(k, n)
           t == Run(k + n, l)
<1>1. s \in Seq(Nat) /\ Len(s) = n /\ \A i \in 1..n : s[i] = k + i
  BY RunSeq
<1>a. t \in Seq(Nat) /\ Len(t) = l /\ \A i \in 1..l : t[i] = (k + n) + i
  <2>1. k + n \in Nat
    OBVIOUS
  <2> QED BY <2>1, RunSeq
<1> HIDE DEF s, t
<1>2. s \o t \in Seq(Nat) /\ Len(s \o t) = n + l
      /\ \A i \in 1..Len(s)+Len(t) : (s \o t)[i] = IF i <= Len(s) THEN s[i] ELSE t[i - Len(s)]
  BY <1>1, <1>a, ConcatProperties
<1>3. ASSUME NEW i \in 1..n+l PROVE (s \o t)[i] = k + i
  <2>1. (s \o t)[i] = IF i <= n THEN s[i] ELSE t[i - n]
    BY <1>1, <1>a, <1>2
  <2>2. CASE i <= n
    BY <1>1, <2>1, <2>2
  <2>3. CASE i > n
    <3>1. i - n \in 1..l
      BY <2>3
    <3> QED BY <1>a, <2>1, <2>3, <3>1
  <2>4. i <= n \/ i > n
    OBVIOUS
  <2> QED BY <2>2, <2>3, <2>4
<1>4. s \o t = Run(k, n + l)
  BY <1>1, <1>a, <1>2, <1>3, IsRun, ZenonT(40)
<1> QED BY <1>4 DEF s, t

LEMMA RunParts ==
  ASSUME NEW k \in Nat, NEW n \in Nat, NEW j \in 0..n
  PROVE  /\ SubSeq(Run(k, n), 1, j) = Run(k, j)
         /\ SubSeq(Run(k, n), j + 1, n) = Run(k + j, n - j)
<1> DEFINE s == Run(k, n)
<1>1. s \in Seq(Nat) /\ Len(s) = n /\ (\A i \in 1..n : s[i] = k + i)
  BY RunSeq
<1> HIDE DEF s
<1>2. SubSeq(s, 1, j) = Run(k, j)
  <2>1. SubSeq(s, 1, j) \in Seq(Nat) /\ Len(SubSeq(s, 1, j)) = j
        /\ \A i \in 1..j : SubSeq(s, 1, j)[i] = k + i
    BY <1>1
  <2> QED BY <2>1, IsRun
<1>3. SubSeq(s, j + 1, n) = Run(k + j, n - j)
  <2>1. SubSeq(s, j + 1, n) \in Seq(Nat) /\ Len(SubSeq(s, j + 1, n)) = n - j
        /\ \A i \in 1..n-j : SubSeq(s, j + 1, n)[i] = (k + j) + i
    BY <1>1
  <2> DEFINE t == SubSeq(s, j + 1, n)
             l == k + j
  <2>2. l \in Nat /\ t \in Seq(Nat) /\ Len(t) = n - j /\ \A i \in 1..Len(t) : t[i] = l + i
    BY <2>1
  <2> HIDE DEF t, l
  <2>3. t = Run(l, n - j)
    BY <2>2, IsRun
  <2> QED BY <2>3 DEF t, l
<1> QED BY <1>2, <1>3 DEF s
-----------------------------------------------------------------------------
(***************************************************************************)
(* The inductive invariant.  That no byte is lost or overtaken is about    *)
(* the four places a byte can be in, and is stated of each: what it holds  *)
(* is a run of the stream, and begins where the one before it ends.  That  *)
(* rio_readn may pass by the internal buffer needs that it is empty until  *)
(* the call ends; that a call stays within usrbuf, and a line within a     *)
(* line, that a call that goes on is not finished.                         *)
(***************************************************************************)
Left(r) == IF r.cnt < 0 THEN 0 ELSE r.cnt
Avail == Left(rp)
Taken == Len(call.bytes)

StreamTyped ==
  /\ peer \in [pos : Nat, nleft : Nat, open : BOOLEAN]
  /\ sock \in Seq(Nat) /\ out \in Seq(Nat)
  /\ rp \in [cnt : Int, bufptr : Nat, buf : [0..RIO_BUFSIZE-1 -> Nat]]
  /\ rp.bufptr + Avail <= RIO_BUFSIZE
  /\ call \in [op : Ops \cup {"none", "eof", "exited"}, max : Nat, bytes : Seq(Nat)]

InOrder ==
  /\ out = Run(0, Len(out))
  /\ call.bytes = Run(Len(out), Taken)
  /\ Unread = Run(Len(out) + Taken, Avail)
  /\ sock = Run(Len(out) + Taken + Avail, Len(sock))
  /\ peer.pos = Len(out) + Taken + Avail + Len(sock)

Calling ==
  /\ call.op = "none" => call.bytes = <<>>
  /\ call.op = "raw" => rp.cnt <= 0
  /\ call.op \in Ops => ~Finished(call)
  /\ Taken + (IF call.op = "line" THEN 1 ELSE 0) <= call.max
  /\ call.op = "line" => \A i \in 1..Taken : Len(out) + i \notin Newlines

Stream == StreamTyped /\ InOrder /\ Calling

Window(r) == [i \in 1..Left(r) |-> r.buf[r.bufptr + i - 1]]

LEMMA UnreadWindow == Unread = Window(rp) /\ Unread' = Window(rp')
BY DEF Unread, Window, Left

LEMMA WindowRun ==
  ASSUME NEW r, NEW k
  PROVE  Window(r) = Run(k, Left(r)) <=> \A i \in 1..Left(r) : r.buf[r.bufptr + i - 1] = k + i
<1>1. Window(r) = Run(k, Left(r)) => \A i \in 1..Left(r) : Window(r)[i] = k + i
  BY DEF Run
<1> QED BY <1>1 DEF Window, Run

LEMMA Counts ==
  ASSUME StreamTyped
  PROVE  Len(out) \in Nat /\ Taken \in Nat /\ Avail \in Nat /\ Len(sock) \in Nat
BY DEF StreamTyped, Taken, Avail, Left

-----------------------------------------------------------------------------
(* The peer *)

LEMMA PeerAlone ==
  ASSUME Stream, UNCHANGED <<sock, rp, call, out>>,
         peer' \in [pos : Nat, nleft : Nat, open : BOOLEAN], peer'.pos = peer.pos
  PROVE  Stream'
<1> USE DEF Stream
<1>1. StreamTyped'
  BY DEF StreamTyped, Avail, Left
<1>2. InOrder'
  BY UnreadWindow DEF InOrder, Taken, Avail
<1>3. Calling'
  BY DEF Calling, Taken, Finished
<1> QED BY <1>1, <1>2, <1>3

LEMMA PeerFields ==
  ASSUME NEW r \in [pos : Nat, nleft : Nat, open : BOOLEAN], NEW n \in Nat, NEW k \in Nat
  PROVE  /\ [r EXCEPT !.nleft = n, !.pos = k] \in [pos : Nat, nleft : Nat, open : BOOLEAN]
         /\ [r EXCEPT !.nleft = n, !.pos = k].pos = k
         /\ [r EXCEPT !.open = FALSE, !.nleft = n] \in [pos : Nat, nleft : Nat, open : BOOLEAN]
         /\ [r EXCEPT !.open = FALSE, !.nleft = n].pos = r.pos
         /\ [r EXCEPT !.open = FALSE] \in [pos : Nat, nleft : Nat, open : BOOLEAN]
         /\ [r EXCEPT !.open = FALSE].pos = r.pos
OBVIOUS

LEMMA PeerSteps ==
  ASSUME Stream, (\E n \in 1..Total : Rio_writen(n)) \/ WriteInterrupted \/ WriteFails \/ Close
  PROVE  Stream'
<1> DEFINE Peers == [pos : Nat, nleft : Nat, open : BOOLEAN]
<1>1. peer \in Peers
  BY DEF Stream, StreamTyped
<1>2. ASSUME NEW n \in 1..Total, Rio_writen(n) PROVE peer' \in Peers /\ peer'.pos = peer.pos
  BY <1>1, <1>2 DEF Rio_writen
<1>3. WriteInterrupted \/ WriteFails \/ Close => peer' \in Peers /\ peer'.pos = peer.pos
  <2>1. peer' \in {peer, [peer EXCEPT !.open = FALSE, !.nleft = 0], [peer EXCEPT !.open = FALSE]}
        \/ ~(WriteInterrupted \/ WriteFails \/ Close)
    BY DEF WriteInterrupted, WriteFails, Close
  <2> QED BY <1>1, <2>1, PeerFields, ZenonT(40)
<1>4. UNCHANGED <<sock, rp, call, out>>
  BY DEF Rio_writen, WriteInterrupted, WriteFails, Close
<1> QED BY <1>2, <1>3, <1>4, PeerAlone

LEMMA Writes ==
  ASSUME Stream, NEW k \in 1..Room, Write(k)
  PROVE  Stream'
<1> USE DEF Stream
<1>1. /\ sock' = sock \o Run(peer.pos, k) /\ k <= peer.nleft
      /\ peer' = [peer EXCEPT !.nleft = @ - k, !.pos = @ + k]
      /\ UNCHANGED <<rp, call, out>>
  BY DEF Write, Run
<1>2. peer \in [pos : Nat, nleft : Nat, open : BOOLEAN] /\ k \in Nat
  BY RioAssumption DEF StreamTyped
<1>3. peer' \in [pos : Nat, nleft : Nat, open : BOOLEAN] /\ peer'.pos = peer.pos + k
  <2>1. peer.nleft - k \in Nat /\ peer.pos + k \in Nat
    BY <1>1, <1>2
  <2> QED BY <1>1, <1>2, <2>1, PeerFields
<1> DEFINE c == Len(out) + Taken + Avail
           l == Len(sock)
<1>4. c \in Nat /\ l \in Nat /\ sock = Run(c, l) /\ peer.pos = c + l
  BY Counts DEF InOrder
<1>5. Len(out)' + Taken' + Avail' = c
  BY <1>1 DEF Taken, Avail
<1>6. sock' = Run(c, l + k) /\ sock' \in Seq(Nat) /\ Len(sock') = l + k
  <2> HIDE DEF c, l
  <2>1. sock' = Run(c, l) \o Run(c + l, k)
    BY <1>1, <1>4
  <2>2. sock' = Run(c, l + k)
    BY <1>2, <1>4, <2>1, RunRun
  <2> QED BY <1>2, <1>4, <2>2, RunSeq
<1>7. StreamTyped'
  BY <1>1, <1>3, <1>6 DEF StreamTyped, Avail, Left
<1>8. InOrder'
  <2>1. out' = Run(0, Len(out')) /\ call'.bytes = Run(Len(out'), Taken')
        /\ Unread' = Run(Len(out') + Taken', Avail')
    BY <1>1, UnreadWindow DEF InOrder, Taken, Avail
  <2>2. sock' = Run(Len(out') + Taken' + Avail', Len(sock'))
    BY <1>5, <1>6
  <2>3. peer'.pos = Len(out') + Taken' + Avail' + Len(sock')
    <3> HIDE DEF c, l
    <3>1. peer'.pos = c + (l + k)
      BY <1>2, <1>3, <1>4
    <3> QED BY <1>5, <1>6, <3>1
  <2> QED BY <2>1, <2>2, <2>3 DEF InOrder
<1>9. Calling'
  BY <1>1 DEF Calling, Taken, Finished
<1> QED BY <1>7, <1>8, <1>9
-----------------------------------------------------------------------------
(* The reader *)

LEMMA FinishedCases ==
  ASSUME NEW c
  PROVE  /\ c.op = "line" =>
              (Finished(c) <=> Len(c.bytes) = c.max - 1 \/ (c.bytes # <<>> /\ Last(c.bytes) \in Newlines))
         /\ c.op \in {"n", "raw"} => (Finished(c) <=> Len(c.bytes) = c.max)
<1>1. ASSUME c.op = "line"
      PROVE  Finished(c) <=> Len(c.bytes) = c.max - 1 \/ (c.bytes # <<>> /\ Last(c.bytes) \in Newlines)
  BY <1>1, Zenon DEF Finished
<1>2. ASSUME c.op \in {"n", "raw"}
      PROVE  Finished(c) <=> Len(c.bytes) = c.max
  <2>1. c.op # "line"
    BY <1>2
  <2> QED BY <1>2, <2>1, Zenon DEF Finished
<1> QED BY <1>1, <1>2

LEMMA Begins ==
  ASSUME Stream, NEW op \in Ops, NEW max \in MaxLens, Start(op, max)
  PROVE  Stream'
<1> USE DEF Stream
<1>1. /\ call' = [op |-> op, max |-> max, bytes |-> <<>>]
      /\ call.op = "none" /\ (op = "raw" => rp.cnt <= 0)
      /\ UNCHANGED <<peer, sock, rp, out>>
  BY DEF Start
<1>2. call'.op = op /\ call'.max = max /\ call'.bytes = <<>> /\ call.bytes = <<>>
  BY <1>1 DEF Calling
<1>3. max \in Nat /\ max > 1 /\ <<>> \in Seq(Nat) /\ Len(<<>>) = 0
  BY RioAssumption
<1>4. StreamTyped'
  BY <1>1, <1>3 DEF StreamTyped, Avail, Left
<1>5. InOrder'
  BY <1>1, <1>2, UnreadWindow DEF InOrder, Taken, Avail
<1>6. ~Finished(call')
  <2>1. op \in {"line", "n", "raw"}
    BY DEF Ops
  <2> QED BY <1>2, <1>3, <2>1, FinishedCases
<1>7. Calling'
  <2>1. Taken' = 0
    BY <1>2, <1>3 DEF Taken
  <2> QED BY <1>1, <1>2, <1>3, <1>6, <2>1 DEF Calling, Ops
<1> QED BY <1>4, <1>5, <1>7

\* With the internal buffer empty, what follows the call's bytes is the socket.
LEMMA Refill ==
  ASSUME Stream, NEW k \in 1..RIO_BUFSIZE, Read(k)
  PROVE  Stream'
<1> USE DEF Stream
<1>1. /\ Refills /\ k <= Len(sock)
      /\ rp' = [cnt |-> k, bufptr |-> 0,
                buf |-> [i \in DOMAIN rp.buf |-> IF i < k THEN sock[i+1] ELSE rp.buf[i]]]
      /\ sock' = SubSeq(sock, k + 1, Len(sock))
      /\ UNCHANGED <<peer, call, out>>
  BY DEF Read
<1>2. k \in Nat /\ k <= RIO_BUFSIZE /\ RIO_BUFSIZE \in Nat
  BY RioAssumption
<1> DEFINE c == Len(out) + Taken
           l == Len(sock)
<1>3. c \in Nat /\ l \in Nat /\ Avail = 0 /\ sock \in Seq(Nat)
  BY <1>1, Counts, SMTT(30) DEF Refills, Avail, Left, StreamTyped
<1>4. sock = Run(c, l) /\ peer.pos = c + l
  BY <1>3, Counts DEF InOrder
<1>5. Len(out)' + Taken' = c /\ Taken' = Taken /\ Len(out') = Len(out) /\ Avail' = k
  BY <1>1, <1>2 DEF Taken, Avail, Left
<1>6. \A i \in 1..l : sock[i] = c + i
  <2> HIDE DEF c, l
  <2> QED BY <1>3, <1>4, RunSeq
<1>7. DOMAIN rp.buf = 0..RIO_BUFSIZE-1 /\ rp.buf \in [0..RIO_BUFSIZE-1 -> Nat]
  BY DEF StreamTyped
<1>8. /\ rp'.cnt = k /\ rp'.bufptr = 0 /\ rp'.buf \in [0..RIO_BUFSIZE-1 -> Nat]
      /\ \A i \in 0..RIO_BUFSIZE-1 : i < k => rp'.buf[i] = sock[i+1]
  <2>1. \A i \in 0..RIO_BUFSIZE-1 : i < k => i + 1 \in 1..l
    BY <1>1, <1>2, <1>3
  <2>2. \A i \in 0..RIO_BUFSIZE-1 : i < k => sock[i+1] \in Nat
    BY <1>3, <2>1
  <2>3. rp'.cnt = k /\ rp'.bufptr = 0
        /\ rp'.buf = [i \in 0..RIO_BUFSIZE-1 |-> IF i < k THEN sock[i+1] ELSE rp.buf[i]]
    BY <1>1, <1>7
  <2> QED BY <1>7, <2>2, <2>3, ZenonT(40)
<1>9. Unread' = Run(c, k)
  <2>1. Left(rp') = k
    BY <1>2, <1>8 DEF Left
  <2>2. \A i \in 1..k : rp'.buf[rp'.bufptr + i - 1] = c + i
    <3> SUFFICES ASSUME NEW i \in 1..k PROVE rp'.buf[rp'.bufptr + i - 1] = c + i
      OBVIOUS
    <3>1. i - 1 \in 0..RIO_BUFSIZE-1 /\ i - 1 < k /\ (i - 1) + 1 = i /\ i \in 1..l
      BY <1>1, <1>2, <1>3
    <3>2. rp'.bufptr + i - 1 = i - 1
      BY <1>8
    <3>3. rp'.buf[i - 1] = sock[i]
      BY <1>8, <3>1
    <3> QED BY <1>6, <3>1, <3>2, <3>3
  <2> QED BY <2>1, <2>2, UnreadWindow, WindowRun
<1>10. sock' = Run(c + k, l - k) /\ sock' \in Seq(Nat) /\ Len(sock') = l - k
  <2> HIDE DEF c, l
  <2>1. k \in 0..l /\ c + k \in Nat /\ l - k \in Nat
    BY <1>1, <1>2, <1>3 DEF l
  <2>2. sock' = Run(c + k, l - k)
    <3>1. sock' = SubSeq(Run(c, l), k + 1, l)
      BY <1>1, <1>4 DEF l
    <3> QED BY <1>3, <2>1, <3>1, RunParts
  <2> QED BY <2>1, <2>2, RunSeq
<1>11. StreamTyped'
  <2>1. rp' \in [cnt : Int, bufptr : Nat, buf : [0..RIO_BUFSIZE-1 -> Nat]]
    <3>1. rp' = [cnt |-> rp'.cnt, bufptr |-> rp'.bufptr, buf |-> rp'.buf]
      BY <1>1
    <3> QED BY <1>2, <1>8, <3>1
  <2>2. rp'.bufptr + Avail' <= RIO_BUFSIZE
    BY <1>2, <1>5, <1>8
  <2> QED BY <1>1, <1>10, <2>1, <2>2 DEF StreamTyped
<1>12. InOrder'
  <2>1. out' = Run(0, Len(out')) /\ call'.bytes = Run(Len(out'), Taken')
    BY <1>1, <1>5 DEF InOrder
  <2>2. Unread' = Run(Len(out') + Taken', Avail')
    BY <1>5, <1>9
  <2>3. sock' = Run(Len(out') + Taken' + Avail', Len(sock'))
    BY <1>5, <1>10
  <2>4. peer'.pos = Len(out') + Taken' + Avail' + Len(sock')
    <3> HIDE DEF c, l
    <3>1. peer'.pos = c + k + (l - k)
      BY <1>1, <1>2, <1>3, <1>4
    <3> QED BY <1>5, <1>10, <3>1 DEF c
  <2> QED BY <2>1, <2>2, <2>3, <2>4 DEF InOrder
<1>13. Calling'
  <2>1. call.op # "raw"
    BY <1>1 DEF Refills
  <2> QED BY <1>1, <1>5, <2>1 DEF Calling
<1> QED BY <1>11, <1>12, <1>13

LEMMA MinOfTwo ==
  ASSUME NEW x \in Nat, NEW y \in Nat
  PROVE  Min({x, y}) \in {x, y} /\ Min({x, y}) <= x /\ Min({x, y}) <= y
<1>1. {x, y} \in SUBSET Nat /\ {x, y} # {}
  OBVIOUS
<1> QED BY <1>1, MinNat

\* The call with k bytes more, and what it returns if that is all.
More(k) == [call EXCEPT !.bytes = @ \o Run(Len(out) + Taken, k)]

LEMMA Gained ==
  ASSUME StreamTyped, InOrder, NEW k \in Nat
  PROVE  /\ More(k) \in [op : Ops \cup {"none", "eof", "exited"}, max : Nat, bytes : Seq(Nat)]
         /\ More(k).op = call.op /\ More(k).max = call.max
         /\ More(k).bytes = Run(Len(out), Taken + k) /\ Len(More(k).bytes) = Taken + k
         /\ \A i \in 1..Taken+k : More(k).bytes[i] = Len(out) + i
<1>1. Len(out) \in Nat /\ Taken \in Nat /\ call.bytes = Run(Len(out), Taken)
  BY Counts DEF InOrder
<1>2. call.bytes \o Run(Len(out) + Taken, k) = Run(Len(out), Taken + k)
  <2> DEFINE a == Len(out)
             g == Taken
  <2>1. a \in Nat /\ g \in Nat /\ call.bytes = Run(a, g)
    BY <1>1
  <2> HIDE DEF a, g
  <2>2. Run(a, g) \o Run(a + g, k) = Run(a, g + k)
    BY <2>1, RunRun
  <2> QED BY <2>1, <2>2 DEF a, g
<1>3. /\ Run(Len(out), Taken + k) \in Seq(Nat) /\ Len(Run(Len(out), Taken + k)) = Taken + k
      /\ \A i \in 1..Taken+k : Run(Len(out), Taken + k)[i] = Len(out) + i
  <2>1. Taken + k \in Nat
    BY <1>1
  <2> QED BY <1>1, <2>1, RunSeq
<1> DEFINE bytes == Run(Len(out), Taken + k)
<1>4. More(k) = [call EXCEPT !.bytes = bytes]
  BY <1>2 DEF More
<1> HIDE DEF bytes
<1>5. bytes \in Seq(Nat) => /\ More(k) \in [op : Ops \cup {"none", "eof", "exited"}, max : Nat, bytes : Seq(Nat)]
                            /\ More(k).op = call.op /\ More(k).max = call.max /\ More(k).bytes = bytes
  BY <1>4 DEF StreamTyped
<1> QED BY <1>3, <1>5 DEF bytes

LEMMA Gains ==
  ASSUME Stream, NEW k \in Nat, k > 0, call.op \in Ops, call.op = "line" => k = 1,
         Taken + k <= call.max,
         call' = IF Finished(More(k)) THEN NoCall ELSE More(k),
         out' = IF Finished(More(k)) THEN out \o More(k).bytes ELSE out,
         call.op = "raw" => rp'.cnt <= 0
  PROVE  /\ call' \in [op : Ops \cup {"none", "eof", "exited"}, max : Nat, bytes : Seq(Nat)]
         /\ out' \in Seq(Nat) /\ out' = Run(0, Len(out')) /\ call'.bytes = Run(Len(out'), Taken')
         /\ Len(out') + Taken' = Len(out) + Taken + k
         /\ Calling'
<1> USE DEF Stream
<1>1. Len(out) \in Nat /\ Taken \in Nat /\ out = Run(0, Len(out)) /\ call.max \in Nat
  BY Counts DEF InOrder, StreamTyped
<1> DEFINE done == More(k)
           a == Len(out)
           g == Taken
<1>2. /\ done \in [op : Ops \cup {"none", "eof", "exited"}, max : Nat, bytes : Seq(Nat)]
      /\ done.op = call.op /\ done.max = call.max
      /\ done.bytes = Run(a, g + k) /\ Len(done.bytes) = g + k
      /\ \A i \in 1..g+k : done.bytes[i] = a + i
  BY Gained
<1>3. CASE Finished(done)
  <2>1. call' = NoCall /\ out' = out \o done.bytes
    BY <1>3
  <2> HIDE DEF done, a, g
  <2>2. out' = Run(0, a + (g + k)) /\ a \in Nat /\ g \in Nat
    <3>1. a \in Nat /\ g + k \in Nat /\ 0 + a = a /\ g \in Nat
      BY <1>1 DEF a, g
    <3>2. out' = Run(0, a) \o Run(0 + a, g + k)
      BY <1>1, <1>2, <2>1, <3>1 DEF a
    <3> QED BY <3>1, <3>2, RunRun, ZenonT(40)
  <2>3. out' \in Seq(Nat) /\ Len(out') = a + (g + k)
    <3> DEFINE n == a + (g + k)
    <3>1. n \in Nat /\ 0 \in Nat
      BY <2>2
    <3>2. out' = Run(0, n)
      BY <2>2
    <3> HIDE DEF n
    <3>3. out' \in Seq(Nat) /\ Len(out') = n
      BY <3>1, <3>2, RunSeq
    <3> QED BY <3>3 DEF n
  <2>4. NoCall \in [op : Ops \cup {"none", "eof", "exited"}, max : Nat, bytes : Seq(Nat)]
        /\ NoCall.op = "none" /\ NoCall.bytes = <<>> /\ NoCall.max = 0 /\ Len(<<>>) = 0
    BY DEF NoCall
  <2>5. Taken' = 0
    BY <2>1, <2>4 DEF Taken
  <2>6. call'.bytes = Run(Len(out'), Taken')
    BY <2>1, <2>4, <2>5 DEF Run
  <2>7. Calling'
    BY <2>1, <2>4, <2>5 DEF Calling, Ops
  <2>8. Len(out') + Taken' = a + g + k
    BY <2>2, <2>3, <2>5
  <2>9. out' = Run(0, Len(out'))
    BY <2>2, <2>3
  <2> QED BY <2>1, <2>3, <2>4, <2>6, <2>7, <2>8, <2>9 DEF a, g
<1>4. CASE ~Finished(done)
  <2>1. call' = done /\ out' = out
    BY <1>4
  <2>2. Taken' = g + k
    BY <1>2, <2>1 DEF Taken
  <2>3. call.op = "line" => /\ g + k # call.max - 1
                            /\ a + (g + k) \notin Newlines
    <3>1. SUFFICES ASSUME call.op = "line"
                   PROVE  g + k # call.max - 1 /\ a + (g + k) \notin Newlines
      OBVIOUS
    <3>2. ~(Len(done.bytes) = done.max - 1 \/ (done.bytes # <<>> /\ Last(done.bytes) \in Newlines))
      BY <1>2, <1>4, <3>1, FinishedCases
    <3>3. done.bytes # <<>> /\ Last(done.bytes) = a + (g + k)
      <4> HIDE DEF done, a, g
      <4>1. g \in Nat
        BY <1>1 DEF g
      <4>2. g + k \in 1..g+k
        BY <4>1
      <4>3. Len(<<>>) = 0
        OBVIOUS
      <4> QED BY <1>2, <4>1, <4>2, <4>3 DEF Last
    <3> QED BY <1>2, <3>2, <3>3
  <2>4. g + k + (IF call.op = "line" THEN 1 ELSE 0) <= call.max
    <3>1. CASE call.op = "line"
      <4>1. g \in Nat /\ g + 1 <= call.max /\ g + k <= call.max /\ k = 1 /\ g # call.max - 1
        <5>1. g # call.max - 1
          BY <3>1, FinishedCases DEF Calling, Ops, Taken
        <5> QED BY <1>1, <3>1, <5>1 DEF Calling
      <4> HIDE DEF g
      <4> QED BY <1>1, <3>1, <4>1
    <3> QED BY <1>1, <3>1
  <2>5. Calling'
    <3>1. call'.op = call.op /\ call'.max = call.max /\ call'.op # "none"
      BY <1>2, <2>1 DEF Ops
    <3>2. call.op = "line" => \A i \in 1..g+k : a + i \notin Newlines
      <4>1. SUFFICES ASSUME call.op = "line", NEW i \in 1..g+k PROVE a + i \notin Newlines
        OBVIOUS
      <4>2. i \in 1..g \/ i = g + k
        BY <1>1, <4>1
      <4> QED BY <2>3, <4>1, <4>2 DEF Calling
    <3> QED BY <1>4, <2>1, <2>2, <2>4, <3>1, <3>2 DEF Calling
  <2>6. Len(out') + Taken' = a + g + k
    <3> DEFINE b == Len(out')
               h == Taken'
    <3>1. b = a /\ a \in Nat /\ g \in Nat /\ h = g + k
      BY <1>1, <2>1, <2>2
    <3> HIDE DEF a, g, b, h
    <3>2. b + h = a + g + k
      BY <3>1
    <3> QED BY <3>2 DEF b, h
  <2>7. out' \in Seq(Nat) /\ out' = Run(0, Len(out')) /\ call'.bytes = Run(Len(out'), Taken')
    BY <1>1, <1>2, <2>1, <2>2 DEF StreamTyped
  <2> QED BY <1>2, <2>1, <2>5, <2>6, <2>7
<1> QED BY <1>3, <1>4

RioT == [cnt : Int, bufptr : Nat, buf : [0..RIO_BUFSIZE-1 -> Nat]]

\* What Gains says of the call, and of the rest that it is where it should be.
LEMMA Onward ==
  ASSUME Stream, NEW k \in Nat, UNCHANGED peer,
         call' \in [op : Ops \cup {"none", "eof", "exited"}, max : Nat, bytes : Seq(Nat)],
         out' \in Seq(Nat), out' = Run(0, Len(out')), call'.bytes = Run(Len(out'), Taken'),
         Len(out') + Taken' = Len(out) + Taken + k,
         rp' \in RioT, rp'.bufptr + Avail' <= RIO_BUFSIZE, Unread' = Run(Len(out) + Taken + k, Avail'),
         sock' = Run(Len(out) + Taken + k + Avail', Len(sock')), sock' \in Seq(Nat),
         peer.pos = Len(out) + Taken + k + Avail' + Len(sock'),
         Calling'
  PROVE  Stream'
<1>1. StreamTyped'
  BY DEF Stream, StreamTyped, RioT
<1>2. InOrder'
  BY DEF InOrder
<1> QED BY <1>1, <1>2 DEF Stream

\* rio_readn takes k bytes of the socket.
LEMMA Raw ==
  ASSUME Stream, NEW k \in 1..Room, ReadN(k)
  PROVE  Stream'
<1> USE DEF Stream
<1> DEFINE a == Len(out)
           g == Taken
           l == Len(sock)
<1>1. a \in Nat /\ g \in Nat /\ l \in Nat /\ call.max \in Nat /\ k \in Nat /\ k > 0 /\ g <= call.max
  BY RioAssumption, Counts, SMTT(30) DEF Calling, StreamTyped
<1>2. call.op = "raw" /\ call.op \in Ops /\ rp.cnt <= 0 /\ Avail = 0
  BY DEF ReadN, Ops, Calling, Avail, Left, StreamTyped
<1>3. k <= l /\ g + k <= call.max
  <2>1. call.max - g \in Nat /\ k <= Min({l, call.max - g})
    BY <1>1 DEF ReadN, Taken
  <2> HIDE DEF a, g, l
  <2>2. k <= l /\ k <= call.max - g
    <3>1. Min({l, call.max - g}) \in Nat /\ Min({l, call.max - g}) <= l /\ Min({l, call.max - g}) <= call.max - g
      BY <1>1, <2>1, MinOfTwo
    <3> QED BY <1>1, <2>1, <3>1
  <2> QED BY <1>1, <2>1, <2>2
<1>4. sock = Run(a + g, l) /\ peer.pos = a + g + l
  BY <1>1, <1>2 DEF InOrder
<1>5. SubSeq(sock, 1, k) = Run(a + g, k) /\ SubSeq(sock, k + 1, l) = Run(a + g + k, l - k)
  <2> HIDE DEF a, g, l
  <2>1. a + g \in Nat /\ k \in 0..l
    BY <1>1, <1>3
  <2> QED BY <1>1, <1>4, <2>1, RunParts, ZenonT(40)
<1>6. [call EXCEPT !.bytes = @ \o SubSeq(sock, 1, k)] = More(k)
  BY <1>5 DEF More
<1>7. /\ call' = (IF Finished(More(k)) THEN NoCall ELSE More(k))
      /\ out' = (IF Finished(More(k)) THEN out \o More(k).bytes ELSE out)
      /\ sock' = SubSeq(sock, k + 1, l)
      /\ UNCHANGED <<peer, rp>>
  <2> DEFINE done == [call EXCEPT !.bytes = @ \o SubSeq(sock, 1, k)]
  <2>1. /\ call' = (IF Finished(done) THEN NoCall ELSE done)
        /\ out' = (IF Finished(done) THEN out \o done.bytes ELSE out)
        /\ sock' = SubSeq(sock, k + 1, Len(sock)) /\ UNCHANGED <<peer, rp>>
    BY Zenon DEF ReadN
  <2>2. done = More(k)
    BY <1>6
  <2> HIDE DEF done
  <2> QED BY <2>1, <2>2
<1>8. /\ call' \in [op : Ops \cup {"none", "eof", "exited"}, max : Nat, bytes : Seq(Nat)]
      /\ out' \in Seq(Nat) /\ out' = Run(0, Len(out')) /\ call'.bytes = Run(Len(out'), Taken')
      /\ Len(out') + Taken' = Len(out) + Taken + k
      /\ Calling'
  <2>1. rp'.cnt <= 0 /\ call.op # "line" /\ Taken + k <= call.max
    BY <1>2, <1>3, <1>7
  <2> HIDE DEF Stream
  <2>2. Stream
    BY DEF Stream
  <2> QED BY <1>1, <1>2, <1>7, <2>1, <2>2, Gains
<1>9. sock' = Run(a + g + k, l - k) /\ sock' \in Seq(Nat) /\ Len(sock') = l - k
  <2> HIDE DEF a, g, l
  <2>1. sock' = Run(a + g + k, l - k) /\ a + g + k \in Nat /\ l - k \in Nat
    BY <1>1, <1>3, <1>5, <1>7
  <2> QED BY <2>1, RunSeq
<1>10. Avail' = 0 /\ rp' \in RioT /\ rp'.bufptr + Avail' <= RIO_BUFSIZE
  <2>1. rp' = rp /\ Avail' = Avail
    BY <1>7 DEF Avail
  <2> QED BY <1>2, <2>1 DEF StreamTyped, RioT
<1>11. Unread' = Run(Len(out) + Taken + k, Avail')
  BY <1>10, UnreadWindow, WindowRun DEF Avail
<1>12. /\ sock' = Run(Len(out) + Taken + k + Avail', Len(sock'))
       /\ peer.pos = Len(out) + Taken + k + Avail' + Len(sock')
  <2>1. a + g + k + Avail' = a + g + k
    BY <1>1, <1>10
  <2>2. a + g + k + (l - k) = a + g + l
    BY <1>1
  <2> HIDE DEF a, g, l
  <2>3. sock' = Run(a + g + k + Avail', Len(sock')) /\ peer.pos = a + g + k + Avail' + Len(sock')
    BY <1>4, <1>9, <2>1, <2>2
  <2> QED BY <2>3 DEF a, g
<1> QED BY <1>1, <1>7, <1>8, <1>9, <1>10, <1>11, <1>12, Onward

\* rio_read hands out cnt bytes of the internal buffer.
LEMMA CopyMore ==
  ASSUME Stream, NEW cnt \in Nat, cnt <= Avail
  PROVE  Copied(cnt) = More(cnt)
<1>1. Unread = Window(rp) /\ Unread = Run(Len(out) + Taken, Avail)
  BY UnreadWindow DEF Stream, InOrder
<1>2. \A i \in 1..Avail : rp.buf[rp.bufptr + i - 1] = Len(out) + Taken + i
  BY <1>1, WindowRun DEF Avail
<1>3. \A i \in 1..cnt : i \in 1..Avail
  BY Counts DEF Stream
<1>4. [i \in 1..cnt |-> rp.buf[rp.bufptr + i - 1]] = Run(Len(out) + Taken, cnt)
  BY <1>2, <1>3 DEF Run
<1> QED BY <1>4, Zenon DEF Copied, More

LEMMA CopyCount ==
  ASSUME Stream, Copy
  PROVE  \E cnt \in Nat :
           /\ cnt > 0 /\ cnt <= rp.cnt /\ Avail = rp.cnt
           /\ call.op \in {"line", "n"} /\ (call.op = "line" => cnt = 1)
           /\ Taken + cnt <= call.max
           /\ rp' = [rp EXCEPT !.bufptr = @ + cnt, !.cnt = @ - cnt]
           /\ call' = (IF Finished(More(cnt)) THEN NoCall ELSE More(cnt))
           /\ out' = (IF Finished(More(cnt)) THEN out \o More(cnt).bytes ELSE out)
           /\ UNCHANGED <<peer, sock>>
<1> DEFINE wanted == IF call.op = "line" THEN 1 ELSE call.max - Len(call.bytes)
           cnt == Min({wanted, rp.cnt})
<1>1. /\ rp' = [rp EXCEPT !.bufptr = @ + cnt, !.cnt = @ - cnt]
      /\ call' = (IF Finished(Copied(cnt)) THEN NoCall ELSE Copied(cnt))
      /\ out' = (IF Finished(Copied(cnt)) THEN out \o Copied(cnt).bytes ELSE out)
      /\ UNCHANGED <<peer, sock>>
      /\ call.op \in {"line", "n"} /\ rp.cnt > 0
  BY Zenon DEF Copy
<1>2. Taken \in Nat /\ call.max \in Nat /\ rp.cnt \in Nat /\ Avail = rp.cnt
  BY <1>1, Counts DEF Stream, StreamTyped, Avail, Left
<1>3. wanted \in Nat /\ wanted > 0 /\ Taken + wanted <= call.max /\ (call.op = "line" => wanted = 1)
  <2>1. Taken <= call.max
    BY <1>2 DEF Stream, Calling
  <2>2. CASE call.op = "line"
    <3>1. Taken + 1 <= call.max
      BY <1>2, <2>2 DEF Stream, Calling
    <3> QED BY <1>2, <2>2, <3>1
  <2>3. CASE call.op = "n"
    <3>1. Taken # call.max
      BY <2>3, FinishedCases DEF Stream, Calling, Ops, Taken
    <3> QED BY <1>2, <2>1, <2>3, <3>1 DEF Taken
  <2> QED BY <1>1, <2>2, <2>3
<1> HIDE DEF wanted
<1>4. cnt \in Nat /\ cnt \in {wanted, rp.cnt} /\ cnt <= wanted /\ cnt <= rp.cnt
  BY <1>2, <1>3, MinOfTwo
<1> HIDE DEF cnt
<1>5. cnt > 0 /\ Taken + cnt <= call.max /\ (call.op = "line" => cnt = 1)
  BY <1>1, <1>2, <1>3, <1>4
<1>6. Copied(cnt) = More(cnt)
  BY <1>2, <1>4, CopyMore
<1> QED BY <1>1, <1>2, <1>4, <1>5, <1>6

LEMMA Copies ==
  ASSUME Stream, Copy
  PROVE  Stream'
<1> DEFINE a == Len(out)
           g == Taken
           v == rp.cnt
           l == Len(sock)
<1>1. PICK k \in Nat :
           /\ k > 0 /\ k <= rp.cnt /\ Avail = rp.cnt
           /\ call.op \in {"line", "n"} /\ (call.op = "line" => k = 1)
           /\ Taken + k <= call.max
           /\ rp' = [rp EXCEPT !.bufptr = @ + k, !.cnt = @ - k]
           /\ call' = (IF Finished(More(k)) THEN NoCall ELSE More(k))
           /\ out' = (IF Finished(More(k)) THEN out \o More(k).bytes ELSE out)
           /\ UNCHANGED <<peer, sock>>
  BY CopyCount
<1>2. a \in Nat /\ g \in Nat /\ v \in Nat /\ l \in Nat /\ rp \in RioT /\ rp.bufptr + v <= RIO_BUFSIZE
  BY <1>1, Counts DEF Stream, StreamTyped, RioT
<1>3. rp' \in RioT /\ rp'.bufptr = rp.bufptr + k /\ rp'.cnt = v - k /\ rp'.buf = rp.buf
  <2>1. rp.bufptr + k \in Nat /\ v - k \in Int
    BY <1>2 DEF RioT
  <2>2. \A x \in Nat, y \in Int :
          LET r == [rp EXCEPT !.bufptr = x, !.cnt = y]
          IN r \in RioT /\ r.bufptr = x /\ r.cnt = y /\ r.buf = rp.buf
    BY <1>2 DEF RioT
  <2> HIDE DEF v
  <2>3. rp' = [rp EXCEPT !.bufptr = rp.bufptr + k, !.cnt = v - k]
    BY <1>1 DEF v
  <2> QED BY <2>1, <2>2, <2>3
<1>4. /\ call' \in [op : Ops \cup {"none", "eof", "exited"}, max : Nat, bytes : Seq(Nat)]
      /\ out' \in Seq(Nat) /\ out' = Run(0, Len(out')) /\ call'.bytes = Run(Len(out'), Taken')
      /\ Len(out') + Taken' = Len(out) + Taken + k
      /\ Calling'
  <2>1. call.op \in Ops /\ call.op # "raw"
    BY <1>1 DEF Ops
  <2> QED BY <1>1, <2>1, Gains
<1>5. Avail' = v - k /\ Left(rp') = v - k
  <2>1. v - k >= 0
    BY <1>1, <1>2
  <2> QED BY <1>2, <1>3, <2>1 DEF Avail, Left
<1>6. rp'.bufptr + Avail' <= RIO_BUFSIZE
  <2> HIDE DEF v
  <2>1. rp.bufptr \in Nat
    BY <1>2 DEF RioT
  <2>2. (rp.bufptr + k) + (v - k) = rp.bufptr + v
    BY <1>2, <2>1
  <2> QED BY <1>2, <1>3, <1>5, <2>2
<1>7. \A i \in 1..v : rp.buf[rp.bufptr + i - 1] = a + g + i
  <2>1. Unread = Window(rp) /\ Unread = Run(a + g, v) /\ Left(rp) = v
    BY <1>1, UnreadWindow DEF Stream, InOrder, Avail
  <2> DEFINE c == a + g
  <2>2. Window(rp) = Run(c, Left(rp))
    BY <2>1
  <2> HIDE DEF c
  <2>3. \A i \in 1..Left(rp) : rp.buf[rp.bufptr + i - 1] = c + i
    BY <2>2, WindowRun
  <2> QED BY <2>1, <2>3 DEF c
<1>8. Unread' = Run(Len(out) + Taken + k, Avail')
  <2>1. ASSUME NEW i \in 1..v-k
        PROVE  rp'.buf[rp'.bufptr + i - 1] = a + g + k + i
    <3> HIDE DEF a, g, v
    <3>1. i + k \in 1..v /\ a + g + (i + k) = a + g + k + i
      BY <1>1, <1>2
    <3>2. rp.bufptr \in Nat
      BY <1>2 DEF RioT
    <3>3. rp'.bufptr + i - 1 = rp.bufptr + (i + k) - 1
      BY <1>3, <3>2
    <3> QED BY <1>3, <1>7, <3>1, <3>3
  <2>2. Window(rp') = Run(a + g + k, Left(rp'))
    BY <1>5, <2>1, WindowRun
  <2> QED BY <1>5, <2>2, UnreadWindow
<1>9. /\ sock' = Run(Len(out) + Taken + k + Avail', Len(sock')) /\ sock' \in Seq(Nat)
      /\ peer.pos = Len(out) + Taken + k + Avail' + Len(sock')
  <2>1. sock = Run(a + g + v, l) /\ peer.pos = a + g + v + l /\ sock \in Seq(Nat) /\ sock' = sock
    BY <1>1 DEF Stream, InOrder, StreamTyped
  <2> HIDE DEF a, g, v, l
  <2>2. a + g + k + (v - k) = a + g + v
    BY <1>1, <1>2
  <2> QED BY <1>5, <2>1, <2>2 DEF a, g, l
<1> QED BY <1>1, <1>3, <1>4, <1>6, <1>8, <1>9, Onward

\* A read that fails or is interrupted leaves no bytes in the buffer, where there
\* were none.
LEMMA Fails ==
  ASSUME Stream, Reads, rp' = Failed, UNCHANGED <<peer, sock, out>>,
         call' = call \/ call' = [call EXCEPT !.op = "exited"]
  PROVE  Stream'
<1> USE DEF Stream
<1>1. /\ call' \in [op : Ops \cup {"none", "eof", "exited"}, max : Nat, bytes : Seq(Nat)]
      /\ call'.bytes = call.bytes /\ call'.max = call.max /\ call'.op \in {call.op, "exited"}
      /\ (call'.op = call.op => call' = call)
  BY DEF StreamTyped, Ops
<1>2. Taken' = Taken
  BY <1>1 DEF Taken
<1>3. rp' \in RioT /\ rp'.bufptr = rp.bufptr /\ Left(rp') = Left(rp) /\ Window(rp') = Window(rp)
      /\ (rp.cnt <= 0 => rp'.cnt <= 0)
  <2>1. rp \in RioT
    BY DEF StreamTyped, RioT
  <2>2. CASE Refills
    <3>1. rp' = [rp EXCEPT !.cnt = -1]
      BY <2>2 DEF Failed
    <3>2. rp' \in RioT /\ rp'.cnt = -1 /\ rp'.bufptr = rp.bufptr
      BY <2>1, <3>1 DEF RioT
    <3>3. Left(rp') = 0 /\ Left(rp) = 0
      BY <2>1, <2>2, <3>2 DEF Left, Refills, RioT
    <3>4. Window(rp') = Window(rp)
      BY <3>3 DEF Window
    <3> QED BY <3>2, <3>3, <3>4
  <2>3. CASE ~Refills
    BY <2>1, <2>3 DEF Failed
  <2> QED BY <2>2, <2>3
<1>4. StreamTyped'
  BY <1>1, <1>3 DEF StreamTyped, Avail, RioT
<1>5. InOrder'
  BY <1>1, <1>2, <1>3, UnreadWindow DEF InOrder, Avail
<1>6. Calling'
  <2>1. CASE call' = call
    BY <1>2, <1>3, <2>1 DEF Calling
  <2>2. CASE call'.op = "exited"
    <3>1. Taken \in Nat /\ call.max \in Nat /\ Taken <= call.max
      BY Counts DEF Calling, StreamTyped
    <3> QED BY <1>1, <1>2, <2>2, <3>1 DEF Calling, Ops
  <2> QED BY <1>1, <2>1, <2>2
<1> QED BY <1>4, <1>5, <1>6

LEMMA Ends ==
  ASSUME Stream, ReadEof
  PROVE  Stream'
<1> USE DEF Stream
<1> DEFINE a == Len(out)
           g == Taken
<1>1. /\ Reads /\ sock = <<>> /\ UNCHANGED <<peer, sock>>
      /\ rp' = (IF Refills THEN [rp EXCEPT !.cnt = 0] ELSE rp)
      /\ call' = (IF call.bytes = <<>> THEN [call EXCEPT !.op = "eof"] ELSE NoCall)
      /\ out' = out \o call.bytes
  BY DEF ReadEof
<1>2. a \in Nat /\ g \in Nat /\ call \in [op : Ops \cup {"none", "eof", "exited"}, max : Nat, bytes : Seq(Nat)]
      /\ rp \in RioT
  BY Counts DEF StreamTyped, RioT
<1>3. Left(rp) = 0 /\ Avail = 0
  BY <1>1, <1>2 DEF Reads, Refills, Calling, Left, Avail, RioT
<1>4. rp' \in RioT /\ rp'.bufptr = rp.bufptr /\ Left(rp') = 0 /\ Avail' = 0
  <2>1. CASE Refills
    <3>1. rp' \in RioT /\ rp'.bufptr = rp.bufptr /\ rp'.cnt = 0
      <4>1. rp' = [rp EXCEPT !.cnt = 0] /\ rp \in RioT
        BY <1>1, <1>2, <2>1
      <4> QED BY <4>1 DEF RioT
    <3> QED BY <3>1 DEF Left, Avail
  <2>2. CASE ~Refills
    BY <1>1, <1>2, <1>3, <2>2 DEF Avail
  <2> QED BY <2>1, <2>2
<1>5. out' = Run(0, a + g) /\ out' \in Seq(Nat) /\ Len(out') = a + g
  <2>1. out' = Run(0, a) \o Run(a, g)
    BY <1>1 DEF InOrder
  <2> HIDE DEF a, g
  <2>2. Run(0, a) \o Run(a, g) = Run(0, a + g) /\ a + g \in Nat
    <3>1. 0 + a = a /\ 0 \in Nat /\ a + g \in Nat
      BY <1>2
    <3>2. Run(0, a) \o Run(0 + a, g) = Run(0, a + g)
      BY <1>2, <3>1, RunRun, ZenonT(40)
    <3> QED BY <3>1, <3>2
  <2>3. Run(0, a + g) \in Seq(Nat) /\ Len(Run(0, a + g)) = a + g
    BY <2>2, RunSeq
  <2> QED BY <2>1, <2>2, <2>3
<1>6. /\ call' \in [op : Ops \cup {"none", "eof", "exited"}, max : Nat, bytes : Seq(Nat)]
      /\ call'.bytes = <<>> /\ call'.op \in {"none", "eof"}
  BY <1>1, <1>2 DEF NoCall, Ops
<1>7. Taken' = 0
  BY <1>6 DEF Taken
<1>8. StreamTyped'
  <2>1. rp'.bufptr + Avail' <= RIO_BUFSIZE
    BY <1>2, <1>3, <1>4 DEF StreamTyped, RioT
  <2> QED BY <1>1, <1>4, <1>5, <1>6, <2>1 DEF StreamTyped, RioT
<1>9. InOrder'
  <2>1. peer.pos = a + g /\ Len(sock) = 0
    BY <1>1, <1>2, <1>3 DEF InOrder
  <2>2. call'.bytes = Run(Len(out'), Taken') /\ Unread' = Run(Len(out') + Taken', Avail')
        /\ sock' = Run(Len(out') + Taken' + Avail', Len(sock'))
    <3>1. \A x : Run(x, 0) = <<>>
      BY DEF Run
    <3>2. Unread' = <<>>
      BY <1>4, UnreadWindow DEF Window
    <3> QED BY <1>1, <1>4, <1>6, <1>7, <2>1, <3>1, <3>2
  <2>3. out' = Run(0, Len(out'))
    BY <1>5
  <2>4. peer'.pos = Len(out') + Taken' + Avail' + Len(sock')
    <3> HIDE DEF a, g
    <3> QED BY <1>1, <1>2, <1>4, <1>5, <1>7, <2>1
  <2> QED BY <2>2, <2>3, <2>4 DEF InOrder
<1>10. Calling'
  BY <1>6, <1>7 DEF Calling, Ops, StreamTyped
<1> QED BY <1>8, <1>9, <1>10

-----------------------------------------------------------------------------
LEMMA StreamInit == RioInit => Stream
<1> SUFFICES ASSUME RioInit PROVE Stream
  OBVIOUS
<1> USE RioAssumption DEF RioInit
<1>1. /\ NoCall \in [op : Ops \cup {"none", "eof", "exited"}, max : Nat, bytes : Seq(Nat)]
      /\ NoCall.op = "none" /\ NoCall.bytes = <<>> /\ NoCall.max = 0 /\ Len(<<>>) = 0
  BY DEF NoCall
<1>2. Left(rp) = 0 /\ Avail = 0 /\ Taken = 0
  BY <1>1 DEF Left, Avail, Taken
<1>3. StreamTyped
  <2>1. rp \in [cnt : Int, bufptr : Nat, buf : [0..RIO_BUFSIZE-1 -> Nat]] /\ rp.bufptr = 0
    OBVIOUS
  <2>2. sock \in Seq(Nat) /\ out \in Seq(Nat) /\ peer \in [pos : Nat, nleft : Nat, open : BOOLEAN]
    OBVIOUS
  <2> QED BY <1>1, <1>2, <2>1, <2>2 DEF StreamTyped
<1>4. InOrder
  <2>1. \A x : Run(x, 0) = <<>>
    BY DEF Run
  <2>2. Unread = <<>>
    BY <1>2, UnreadWindow DEF Window
  <2> QED BY <1>1, <1>2, <2>1, <2>2 DEF InOrder
<1>5. Calling
  BY <1>1, <1>2 DEF Calling, Ops
<1> QED BY <1>3, <1>4, <1>5 DEF Stream

LEMMA StreamStep == Stream /\ [RioNext]_rioVars => Stream'
<1> SUFFICES ASSUME Stream, [RioNext]_rioVars PROVE Stream'
  OBVIOUS
<1>1. CASE ReadInterrupted
  BY <1>1, Fails DEF ReadInterrupted
<1>2. CASE ReadFails
  BY <1>2, Fails DEF ReadFails
<1>3. CASE UNCHANGED rioVars
  BY <1>3, PeerAlone DEF rioVars, Stream, StreamTyped
<1> QED BY <1>1, <1>2, <1>3, PeerSteps, Writes, Begins, Refill, Raw, Ends, Copies DEF RioNext

LEMMA StreamInvariant == RioSpec => []Stream
BY StreamInit, StreamStep, PTL DEF RioSpec

\* No byte of the stream is lost, repeated or overtaken on its way from the peer
\* to what the calls have returned, and no call stores more than it has room for.
THEOREM NothingLost == RioSpec => []Conserved
<1>1. Stream => Conserved
  <2> SUFFICES ASSUME Stream PROVE Conserved
    OBVIOUS
  <2> DEFINE a == Len(out)
             g == Taken
             v == Avail
             l == Len(sock)
             s == call.bytes
  <2>1. a \in Nat /\ g \in Nat /\ v \in Nat /\ l \in Nat
    BY Counts DEF Stream
  <2>2. /\ out = Run(0, a) /\ s = Run(a, g) /\ Unread = Run(a + g, v)
        /\ sock = Run(a + g + v, l) /\ peer.pos = a + g + v + l
    BY DEF Stream, InOrder
  <2> HIDE DEF a, g, v, l, s
  <2>3. out \o s = Run(0, a + g)
    <3>1. 0 + a = a
      BY <2>1
    <3>2. Run(0, a) \o Run(0 + a, g) = Run(0, a + g)
      BY <2>1, RunRun
    <3> QED BY <2>2, <3>1, <3>2
  <2>4. out \o s \o Unread = Run(0, a + g + v)
    <3>1. 0 + (a + g) = a + g /\ a + g \in Nat
      BY <2>1
    <3>2. Run(0, a + g) \o Run(0 + (a + g), v) = Run(0, (a + g) + v)
      BY <2>1, <3>1, RunRun, ZenonT(40)
    <3> QED BY <2>2, <2>3, <3>1, <3>2
  <2>5. out \o s \o Unread \o sock = Run(0, a + g + v + l)
    <3>1. 0 + (a + g + v) = a + g + v /\ a + g + v \in Nat
      BY <2>1
    <3>2. Run(0, a + g + v) \o Run(0 + (a + g + v), l) = Run(0, (a + g + v) + l)
      BY <2>1, <3>1, RunRun, ZenonT(40)
    <3> QED BY <2>2, <2>4, <3>1, <3>2
  <2>6. Run(0, peer.pos) = [i \in 1..peer.pos |-> i]
    <3>1. \A i \in 1..peer.pos : 0 + i = i
      BY <2>1, <2>2
    <3> QED BY <3>1 DEF Run
  <2>7. out \o call.bytes \o Unread \o sock = [i \in 1..peer.pos |-> i]
    BY <2>2, <2>5, <2>6 DEF s
  <2> QED BY <2>7 DEF Conserved, Stream, Calling, Taken
<1> QED BY <1>1, StreamInvariant, PTL

\* What a finished rio_readlineb returns: nothing past a newline, and less than a
\* line only where usrbuf is full or the stream ends.
Line ==
  LET line == {i \in 1..Total : Len(out) < i /\ i <= Len(out')}
  IN /\ \A i \in line : i \in Newlines => i = Len(out')
     /\ \/ Len(out') \in Newlines
        \/ Len(out') = Len(out) + call.max - 1
        \/ Len(out') = peer.pos /\ ~peer.open

LEMMA LineCopied ==
  ASSUME Stream, Copy, call.op = "line", call'.op # "line"
  PROVE  Line
<1> DEFINE a == Len(out)
           g == Taken
           b == Len(out')
<1>1. /\ call' = (IF Finished(More(1)) THEN NoCall ELSE More(1))
      /\ out' = (IF Finished(More(1)) THEN out \o More(1).bytes ELSE out)
  <2>1. PICK cnt \in Nat :
           /\ call.op = "line" => cnt = 1
           /\ call' = (IF Finished(More(cnt)) THEN NoCall ELSE More(cnt))
           /\ out' = (IF Finished(More(cnt)) THEN out \o More(cnt).bytes ELSE out)
    BY CopyCount
  <2> QED BY <2>1
<1>2. a \in Nat /\ g \in Nat /\ out = Run(0, a) /\ out \in Seq(Nat) /\ call.max \in Nat
  BY Counts DEF Stream, InOrder, StreamTyped
<1> DEFINE done == More(1)
<1>3. /\ done.op = "line" /\ done.max = call.max /\ done.bytes \in Seq(Nat)
      /\ Len(done.bytes) = g + 1 /\ \A i \in 1..g+1 : done.bytes[i] = a + i
  BY Gained DEF Stream
<1>4. Finished(done) /\ out' = out \o done.bytes
  BY <1>1, <1>3
<1> HIDE DEF done, a, g, b
<1>5. b = a + g + 1
  <2>1. b = Len(out) + Len(done.bytes)
    BY <1>2, <1>3, <1>4, ConcatProperties DEF b
  <2> QED BY <1>2, <1>3, <2>1 DEF a
<1>6. \A i \in 1..g : a + i \notin Newlines
  BY DEF Stream, Calling, a, g
<1>7. ASSUME NEW i \in 1..Total, a < i, i <= b, i \in Newlines
      PROVE  i = b
  <2>1. i - a \in 1..g \/ i = b
    BY <1>2, <1>5, <1>7
  <2>2. a + (i - a) = i
    BY <1>2
  <2> QED BY <1>6, <1>7, <2>1, <2>2
<1>8. b \in Newlines \/ b = a + call.max - 1
  <2>1. Len(done.bytes) = call.max - 1 \/ Last(done.bytes) \in Newlines
    BY <1>3, <1>4, FinishedCases
  <2>2. Last(done.bytes) = b
    <3>1. g + 1 \in 1..g+1 /\ a + (g + 1) = b
      BY <1>2, <1>5
    <3> QED BY <1>3, <3>1 DEF Last
  <2>3. ASSUME Len(done.bytes) = call.max - 1
        PROVE  b = a + call.max - 1
    <3>1. g + 1 = call.max - 1
      BY <1>3, <2>3
    <3> QED BY <1>2, <1>5, <3>1
  <2> QED BY <2>1, <2>2, <2>3
<1> QED BY <1>7, <1>8 DEF Line, a, b

LEMMA LineEnded ==
  ASSUME Stream, ReadEof, call.op = "line"
  PROVE  Line
<1> DEFINE a == Len(out)
           g == Taken
           b == Len(out')
<1>1. a \in Nat /\ g \in Nat /\ out \in Seq(Nat) /\ call.bytes \in Seq(Nat) /\ g = Len(call.bytes)
  BY Counts DEF Stream, StreamTyped, Taken
<1>2. peer.pos = a + g /\ ~peer.open /\ out' = out \o call.bytes
  <2>1. Avail = 0 /\ sock = <<>> /\ Len(<<>>) = 0
    BY DEF ReadEof, Reads, Refills, Avail, Left, Stream, StreamTyped
  <2> QED BY <1>1, <2>1 DEF Stream, InOrder, ReadEof
<1> HIDE DEF a, g, b
<1>3. b = a + g
  <2>1. b = Len(out) + Len(call.bytes)
    BY <1>1, <1>2, ConcatProperties DEF b
  <2> QED BY <1>1, <2>1 DEF a
<1>4. \A i \in 1..g : a + i \notin Newlines
  BY DEF Stream, Calling, a, g
<1>5. ASSUME NEW i \in 1..Total, a < i, i <= b
      PROVE  i \notin Newlines
  <2>1. i - a \in 1..g /\ a + (i - a) = i
    BY <1>1, <1>3, <1>5
  <2> QED BY <1>4, <2>1
<1> QED BY <1>2, <1>3, <1>5 DEF Line, a, b

\* rio_readlineb reads lines: for every stream, and however its bytes arrive.
THEOREM LinesRead == RioSpec => WholeLines
<1> DEFINE Returned == call.op = "line" /\ call'.op # "line" /\ call'.op # "exited" => Line
<1>1. Stream /\ [RioNext]_rioVars => [Returned]_rioVars
  <2> SUFFICES ASSUME Stream, RioNext, call.op = "line", call'.op # "line", call'.op # "exited"
               PROVE  Line
    OBVIOUS
  <2>1. ReadEof \/ Copy
    <3>1. ~ \E op \in Ops, max \in MaxLens : Start(op, max)
      BY DEF Start
    <3>2. ~ \E k \in 1..Room : ReadN(k)
      BY DEF ReadN
    <3>3. ~ ReadFails
      <4>1. ASSUME ReadFails PROVE call'.op = "exited"
        BY <4>1 DEF ReadFails, Stream, StreamTyped
      <4> QED BY <4>1
    <3>4. call' # call
      OBVIOUS
    <3>5. ~ \E n \in 1..Total : Rio_writen(n)
      BY <3>4 DEF Rio_writen
    <3>6. ~ \E k \in 1..Room : Write(k)
      BY <3>4 DEF Write
    <3>7. ~ \E k \in 1..RIO_BUFSIZE : Read(k)
      BY <3>4 DEF Read
    <3>8. ~ (WriteInterrupted \/ WriteFails \/ Close \/ ReadInterrupted)
      BY <3>4 DEF WriteInterrupted, WriteFails, Close, ReadInterrupted
    <3> QED BY <3>1, <3>2, <3>3, <3>5, <3>6, <3>7, <3>8 DEF RioNext
  <2> QED BY <2>1, LineCopied, LineEnded
<1>2. [][Returned]_rioVars => WholeLines
  BY PTL DEF WholeLines, Line
<1> QED BY <1>1, <1>2, StreamInvariant, PTL DEF RioSpec
=============================================================================
