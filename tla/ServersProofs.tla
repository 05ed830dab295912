--------------------------- MODULE ServersProofs ---------------------------
(***************************************************************************)
(* Theorems about the servers of module Servers, for any clients, workers, *)
(* sizes and kinds of server.                                              *)
(***************************************************************************)
EXTENDS Servers, Induction, SequenceTheorems

Piece == Clients \X Nat
Words == {"200", "403", "404", "501", "Content-type", "Content-length", "body", "content",
          "Server", "output"}
Part == Piece \cup Words
Pcs == {"accept", "none", "read", "write", "process", "forked", "thread", "start", "prethreaded",
        "remove", "once", "lock", "store", "check", "request", "headers", "reply", "mmap", "fork",
        "wait", "finish", "cgi"}
States == {"new", "open", "fin", "left"}
Members == [st : States, sent : Nat, got : Seq(Part)]
Contexts == [pc : Pcs, fd : Fd \cup {None}, rio : Seq(Piece), line : Seq(Part), reg : Nat]
SlotNumbers == 0..FD_SETSIZE-1
Pools == [clientfd : [SlotNumbers -> Fd \cup {None}], maxi : -1..FD_SETSIZE-1,
          read_set : SUBSET Fd, ready_set : SUBSET Fd, nready : Int, i : Nat]

DataOK ==
  /\ cli \in [Clients -> Members]
  /\ sock \in [Clients -> Seq(Piece)]
  /\ cell \in [{Main} \cup Spawned -> Fd \cup {None}]
  /\ sbuf \in Seq(Fd \cup {None}) /\ taken \in [Threads -> Fd \cup {None}]
  /\ once \in BOOLEAN /\ mutex \in {0, 1} /\ byte_cnt \in Nat /\ heard \in Nat
TypeOK ==
  /\ DataOK
  /\ backlog \in Seq(Clients)
  /\ files \in [{Main} \cup Spawned -> [Fd -> Clients \cup {None}]]
  /\ proc \in [Procs -> Contexts]
  /\ pool \in Pools

\* Where a thread or process may be, in each server.
Stands(p, pc) ==
  \/ p = Main /\ pc = "accept"
  \/ p # Main /\ pc = "none"
  \/ kind = "iterative" /\ p = Main /\ pc \in {"read", "write"}
  \/ kind = "process" /\ p = Main /\ pc \in {"process", "forked"}
  \/ kind = "process" /\ p \in Spawned /\ pc \in {"read", "write"}
  \/ kind = "thread" /\ p = Main /\ pc = "thread"
  \/ kind = "thread" /\ p \in Spawned /\ pc \in {"start", "read", "write"}
  \/ kind = "prethreaded" /\ p = Main /\ pc = "prethreaded"
  \/ kind = "prethreaded" /\ p \in Threads
     /\ pc \in {"remove", "once", "read", "lock", "store", "write"}
  \/ kind = "select" /\ p = Main /\ pc \in {"check", "read", "write"}
  \/ kind = "tiny" /\ p = Main
     /\ pc \in {"request", "headers", "reply", "mmap", "fork", "wait", "finish"}
  \/ kind = "tiny" /\ p \in Spawned /\ pc = "cgi"

Names == {"iterative", "process", "thread", "prethreaded", "select", "tiny"}
Shape ==
  /\ kind \in Names
  /\ \A p \in Procs : Stands(p, proc[p].pc)
  /\ \A p \in Procs : proc[p].pc = "reply" => proc[p].line # <<>>

\* A client has one connection of main at most, once accept has returned it.
Open(fd) == fd \in Fd /\ files[Main][fd] # None
Waits(c) == cli[c].st = "new" \/ \E i \in DOMAIN backlog : backlog[i] = c
Table ==
  /\ \A f, g \in Fd : files[Main][f] = files[Main][g] /\ files[Main][f] # None => f = g
  /\ \A i, j \in DOMAIN backlog : backlog[i] = backlog[j] => i = j
  /\ \A i \in DOMAIN backlog : cli[backlog[i]].st # "new"
  /\ \A c \in Clients : Waits(c) => \A f \in Fd : files[Main][f] # c

\* Every connection of the server driven by select is in one slot.
InHand == proc[Main].pc \notin {"accept", "check"}
Slots ==
  kind = "select" =>
  /\ \A j \in SlotNumbers : pool.clientfd[j] # None => Open(pool.clientfd[j])
  /\ \A j, k \in SlotNumbers :
       pool.clientfd[j] = pool.clientfd[k] /\ pool.clientfd[j] # None => j = k
  /\ InHand => pool.i \in SlotNumbers /\ pool.clientfd[pool.i] = proc[Main].fd

\* Main has the connection it works on, unless a thread may close it; the process or
\* thread of a client does not run before main has given it the client's connection,
\* and then has that one.
ToGive == {"process", "thread", "request", "headers", "reply", "mmap", "fork"}
Fresh(c) == Waits(c) \/ (proc[Main].pc \in ToGive /\ files[Main][proc[Main].fd] = c)
Has(c, p, fd) == fd \in Fd /\ files[p][fd] = c
Works == kind # "prethreaded" /\ InHand => Open(proc[Main].fd)
Idle == \A c \in Clients : Fresh(c) => proc[c].pc = "none"
Children ==
  kind \in {"process", "tiny"} => \A c \in Clients : proc[c].pc # "none" => Has(c, c, proc[c].fd)
Given ==
  kind = "thread" /\ proc[Main].pc = "thread" => cell[files[Main][proc[Main].fd]] = proc[Main].fd
Detached ==
  kind = "thread" =>
    \A c \in Clients : /\ proc[c].pc = "start" => Has(c, Main, cell[c])
                       /\ proc[c].pc \in {"read", "write"} => Has(c, Main, proc[c].fd)
Hands == Works /\ Idle /\ Children /\ Given /\ Detached

Inv == TypeOK /\ Shape /\ Table /\ Slots /\ Hands

-----------------------------------------------------------------------------
(* Facts about the operators of the model *)

LEMMA FdFinite ==
  /\ Cardinality(Clients) \in Nat
  /\ IsFiniteSet(Fd) /\ Cardinality(Fd) = Cardinality(Clients) /\ Fd \subseteq Nat
<1>1. Cardinality(Clients) \in Nat
  BY ServersAssumption, FS_CardinalityType
<1>2. ASSUME NEW n \in Nat PROVE IsFiniteSet(1..n) /\ Cardinality(1..n) = n /\ 1..n \subseteq Nat
  BY FS_Interval
<1>3. PICK n \in Nat : n = Cardinality(Clients)
  BY <1>1
<1>4. Fd = 1..n
  BY <1>3 DEF Fd
<1> QED BY <1>2, <1>3, <1>4

LEMMA LineInBounds ==
  ASSUME NEW r \in Seq(Piece)
  PROVE  LineIn(r) \in Nat /\ LineIn(r) <= Len(r)
<1> DEFINE E == {i \in DOMAIN r : r[i][2] % 2 = 0}
<1>1. E \in SUBSET Nat /\ \A i \in E : i <= Len(r)
  OBVIOUS
<1>2. LineIn(r) = IF E = {} THEN 0 ELSE Min(E)
  BY DEF LineIn
<1> HIDE DEF E
<1>3. Len(r) \in Nat
  OBVIOUS
<1>4. CASE E = {}
  BY <1>2, <1>3, <1>4
<1>5. CASE E # {}
  <2>1. Min(E) \in E
    BY <1>1, <1>5, MinNat
  <2> QED BY <1>1, <1>2, <1>5, <2>1
<1> QED BY <1>4, <1>5

LEMMA ReadlineBounds ==
  ASSUME TypeOK, NEW p \in Procs, NEW c
  PROVE  Readline(p, c) \in Nat /\ Readline(p, c) <= Len(proc[p].rio)
<1>1. proc[p].rio \in Seq(Piece)
  BY DEF TypeOK, Contexts
<1> QED BY <1>1, LineInBounds DEF Readline

\* The connection accept returns has a descriptor.
LEMMA Unused ==
  ASSUME TypeOK, Table, backlog # <<>>
  PROVE  Connfd \in Fd /\ files[Main][Connfd] = None
<1> DEFINE F == {f \in Fd : files[Main][f] = None}
           h == Head(backlog)
<1>1. h \in Clients /\ h = backlog[1] /\ 1 \in DOMAIN backlog
  BY DEF TypeOK
<1>2. F # {}
  <2> SUFFICES ASSUME F = {} PROVE FALSE
    OBVIOUS
  <2>1. files[Main] \in [Fd -> Clients \cup {None}] /\ \A f \in Fd : files[Main][f] # h
    BY <1>1 DEF TypeOK, Table, Waits
  <2>2. files[Main] \in [Fd -> Clients \ {h}]
    BY <2>1
  <2>3. IsFiniteSet(Clients \ {h}) /\ Cardinality(Clients \ {h}) = Cardinality(Clients) - 1
    BY <1>1, ServersAssumption, FS_RemoveElement
  <2> HIDE DEF h
  <2>4. Cardinality(Clients \ {h}) < Cardinality(Fd)
    <3>1. PICK n \in Nat : n = Cardinality(Clients)
      BY FdFinite
    <3> QED BY <2>3, <3>1, FdFinite
  <2>5. PICK m \in [Fd -> Clients \ {h}] : m = files[Main]
    BY <2>2
  <2>6. \E f, g \in Fd : f # g /\ m[f] = m[g]
    <3>1. IsFiniteSet(Fd)
      BY FdFinite
    <3> QED BY <2>3, <2>4, <3>1, FS_PigeonHole
  <2> QED BY <2>1, <2>5, <2>6 DEF Table
<1>3. Min(F) \in F
  <2> HIDE DEF F
  <2>1. F \in SUBSET Nat
    BY FdFinite DEF F
  <2> QED BY <1>2, <2>1, MinNat
<1> QED BY <1>3 DEF Connfd

\* and the pool a slot.
LEMMA SlotLeft ==
  ASSUME TypeOK, Table, Slots, kind = "select", backlog # <<>>
  PROVE  Min({j \in SlotNumbers : pool.clientfd[j] = None})
           \in {j \in SlotNumbers : pool.clientfd[j] = None}
<1> DEFINE F == {j \in SlotNumbers : pool.clientfd[j] = None}
           h == Head(backlog)
           g == [j \in SlotNumbers |-> files[Main][pool.clientfd[j]]]
<1>1. h \in Clients /\ h = backlog[1] /\ 1 \in DOMAIN backlog
  BY DEF TypeOK
<1>2. F # {}
  <2> SUFFICES ASSUME F = {} PROVE FALSE
    OBVIOUS
  <2>1. /\ files[Main] \in [Fd -> Clients \cup {None}] /\ \A f \in Fd : files[Main][f] # h
        /\ pool.clientfd \in [SlotNumbers -> Fd \cup {None}]
    BY <1>1 DEF TypeOK, Table, Waits, Pools
  <2>2. \A j \in SlotNumbers : pool.clientfd[j] \in Fd /\ files[Main][pool.clientfd[j]] # None
    BY DEF Slots, Open
  <2>3. g \in [SlotNumbers -> Clients \ {h}]
    BY <2>1, <2>2
  <2>4. IsFiniteSet(Clients \ {h}) /\ Cardinality(Clients \ {h}) = Cardinality(Clients) - 1
    BY <1>1, ServersAssumption, FS_RemoveElement
  <2>5. IsFiniteSet(SlotNumbers) /\ Cardinality(SlotNumbers) = FD_SETSIZE
    <3>1. ASSUME NEW a \in Int, NEW b \in Int, a <= b
          PROVE  IsFiniteSet(a..b) /\ Cardinality(a..b) = b - a + 1
      BY <3>1, FS_Interval
    <3>2. FD_SETSIZE \in Nat /\ FD_SETSIZE > 0
      BY <1>1, <2>4, FdFinite, ServersAssumption, FS_CardinalityType
    <3> QED BY <3>1, <3>2 DEF SlotNumbers
  <2>6. Cardinality(Clients \ {h}) < Cardinality(SlotNumbers)
    BY <2>4, <2>5, FdFinite, ServersAssumption
  <2>7. \E j, k \in SlotNumbers : j # k /\ g[j] = g[k]
    <3> HIDE DEF g, h
    <3> QED BY <2>3, <2>4, <2>5, <2>6, FS_PigeonHole
  <2>8. PICK j \in SlotNumbers, k \in SlotNumbers :
          j # k /\ files[Main][pool.clientfd[j]] = files[Main][pool.clientfd[k]]
    BY <2>7
  <2>9. pool.clientfd[j] = pool.clientfd[k]
    BY <2>2, <2>8 DEF Table
  <2> QED BY <2>2, <2>8, <2>9 DEF Slots
<1>3. Min(F) \in F
  <2> HIDE DEF F
  <2>1. F \in SUBSET Nat
    BY ServersAssumption DEF F, SlotNumbers
  <2> QED BY <1>2, <2>1, MinNat
<1> QED BY <1>3

-----------------------------------------------------------------------------
(* Steps, by what they change *)

LEMMA TableKept ==
  ASSUME TypeOK, Table, backlog' = backlog, \A f \in Fd : files'[Main][f] \in {files[Main][f], None},
         \A c \in Clients : cli'[c].st = "new" <=> cli[c].st = "new"
  PROVE  Table'
<1>1. \A i \in DOMAIN backlog : backlog[i] \in Clients
  BY DEF TypeOK
<1>2. None \notin Clients
  BY ServersAssumption
<1> QED BY <1>1, <1>2 DEF Table, Waits

\* A step of one thread or process, p, with its connections left alone.
LEMMA OneMoves ==
  ASSUME Inv, NEW p \in Procs, NEW r \in Contexts, proc' = [proc EXCEPT ![p] = r],
         Stands(p, r.pc), r.pc = "reply" => r.line # <<>>,
         p = Main /\ r.pc \notin {"accept", "check"} =>
           InHand /\ r.fd = proc[p].fd /\ (r.pc \in ToGive => proc[p].pc \in ToGive),
         p \in Spawned => /\ proc[p].pc # "none" /\ r.pc # "start"
                          /\ kind # "thread" \/ proc[p].pc # "start" => r.fd = proc[p].fd
                          /\ kind = "thread" /\ proc[p].pc = "start" => r.fd = cell[p],
         \/ pool' = pool
         \/ p = Main /\ r.pc \in {"accept", "check"} /\ pool' \in Pools /\ pool'.clientfd = pool.clientfd,
         UNCHANGED <<kind, files, backlog, cell>>, DataOK',
         \A c \in Clients : cli'[c].st = "new" <=> cli[c].st = "new"
  PROVE  Inv'
<1>1. /\ proc' \in [Procs -> Contexts] /\ proc'[p] = r
      /\ \A q \in Procs : q # p => proc'[q] = proc[q]
  BY DEF Inv, TypeOK
<1>2. TypeOK'
  BY <1>1 DEF Inv, TypeOK
<1>3. Shape'
  BY <1>1 DEF Inv, Shape, Stands
<1>4. Table'
  BY TableKept DEF Inv
<1>5. Slots'
  <2>1. Main \in Procs
    BY DEF Procs
  <2>2. InHand' => InHand /\ proc'[Main].fd = proc[Main].fd /\ pool' = pool
    BY <1>1, <2>1 DEF InHand
  <2>3. pool'.clientfd = pool.clientfd
    OBVIOUS
  <2> QED BY <2>2, <2>3 DEF Inv, Slots, Open
<1>6. Hands'
  <2>1. /\ Main \in Procs /\ Main \notin Clients /\ Spawned = Clients /\ Clients \subseteq Procs
    BY ServersAssumption DEF Procs, Spawned
  <2>2. ASSUME NEW c \in Clients, Fresh(c)' PROVE Fresh(c)
    <3>1. CASE Waits(c)'
      BY <3>1 DEF Fresh, Waits
    <3>2. CASE proc'[Main].pc \in ToGive /\ files'[Main][proc'[Main].fd] = c
      BY <1>1, <2>1, <3>2 DEF Fresh, ToGive
    <3> QED BY <2>2, <3>1, <3>2 DEF Fresh
  <2>3. Idle'
    <3> SUFFICES ASSUME NEW c \in Clients, Fresh(c)' PROVE proc'[c].pc = "none"
      BY DEF Idle
    <3>1. proc[c].pc = "none"
      BY <2>2 DEF Inv, Hands, Idle
    <3> QED BY <1>1, <2>1, <3>1
  <2>4. Works'
    <3>1. Works
      BY DEF Inv, Hands
    <3> QED BY <1>1, <2>1, <3>1 DEF Works, InHand, Open
  <2>5. Children'
    <3> SUFFICES ASSUME kind \in {"process", "tiny"}, NEW c \in Clients, proc'[c].pc # "none"
                 PROVE  Has(c, c, proc[c].fd)'
      BY DEF Children
    <3>1. proc[c].pc # "none" /\ proc'[c].fd = proc[c].fd
      BY <1>1, <2>1
    <3>2. Has(c, c, proc[c].fd)
      BY <3>1 DEF Inv, Hands, Children
    <3> QED BY <3>1, <3>2 DEF Has
  <2>6. Given'
    <3> SUFFICES ASSUME kind = "thread", proc'[Main].pc = "thread"
                 PROVE  cell'[files'[Main][proc'[Main].fd]] = proc'[Main].fd
      BY DEF Given
    <3>1. Stands(Main, proc[Main].pc)
      BY <2>1 DEF Inv, Shape
    <3>2. proc[Main].pc = "thread" /\ proc'[Main].fd = proc[Main].fd
      BY <1>1, <2>1, <3>1 DEF ToGive, Stands
    <3> QED BY <3>2 DEF Inv, Hands, Given
  <2>7. Detached'
    <3> SUFFICES ASSUME kind = "thread", NEW c \in Clients
                 PROVE  /\ proc'[c].pc = "start" => Has(c, Main, cell[c])'
                        /\ proc'[c].pc \in {"read", "write"} => Has(c, Main, proc[c].fd)'
      BY DEF Detached
    <3>1. Stands(c, proc[c].pc)
      BY <2>1 DEF Inv, Shape
    <3>2. /\ proc[c].pc = "start" => Has(c, Main, cell[c])
          /\ proc[c].pc \in {"read", "write"} => Has(c, Main, proc[c].fd)
      BY DEF Inv, Hands, Detached
    <3>3. CASE c = p
      <4>1. proc[c].pc \in {"start", "read", "write"}
        BY <2>1, <3>1, <3>3 DEF Stands
      <4> QED BY <1>1, <2>1, <3>2, <3>3, <4>1 DEF Has
    <3>4. CASE c # p
      BY <1>1, <2>1, <3>2, <3>4 DEF Has
    <3> QED BY <3>3, <3>4
  <2> QED BY <2>3, <2>4, <2>5, <2>6, <2>7 DEF Hands
<1> QED BY <1>2, <1>3, <1>4, <1>5, <1>6 DEF Inv

LEMMA OneAlone ==
  ASSUME Inv, NEW p \in Procs, proc' \in [Procs -> Contexts],
         \A q \in Procs : q # p => proc'[q] = proc[q]
  PROVE  \E r \in Contexts : r = proc'[p] /\ proc' = [proc EXCEPT ![p] = r]
<1>1. proc'[p] \in Contexts /\ proc \in [Procs -> Contexts]
  BY DEF Inv, TypeOK
<1> QED BY <1>1

\* A step that leaves the server as it is.
LEMMA HandsKept ==
  ASSUME Hands, UNCHANGED <<kind, files, proc, cell>>, \A c \in Clients : Waits(c)' => Waits(c)
  PROVE  Hands'
<1>1. Works' /\ Given' /\ Children' /\ Detached'
  BY DEF Hands, Works, Given, Children, Detached, InHand, Open, Has
<1>2. Idle'
  BY DEF Hands, Idle, Fresh
<1> QED BY <1>1, <1>2 DEF Hands

\* A step of a client.
LEMMA ClientMoves ==
  ASSUME Inv, NEW c \in Clients, Client(c) \/ Leave(c) PROVE Inv'
<1>1. /\ cli[c] \in Members /\ cli \in [Clients -> Members] /\ sock \in [Clients -> Seq(Piece)]
  BY DEF Inv, TypeOK, DataOK
<1>2. /\ UNCHANGED <<kind, files, backlog, pool, proc, cell, sbuf, taken, once, mutex, byte_cnt, heard>>
  BY DEF Client, Send, Finish, Leave, fixed, buffer, count
<1>3. /\ cli' \in [Clients -> Members] /\ sock' \in [Clients -> Seq(Piece)]
      /\ \A d \in Clients : cli'[d].st = "new" <=> cli[d].st = "new"
  <2>1. CASE Send(c)
    <3>1. <<c, cli[c].sent + 1>> \in Piece
      BY <1>1 DEF Members, Piece
    <3>2. Append(sock[c], <<c, cli[c].sent + 1>>) \in Seq(Piece)
      BY <1>1, <3>1
    <3>3. sock' \in [Clients -> Seq(Piece)]
      BY <1>1, <2>1, <3>2 DEF Send
    <3>4. /\ cli' \in [Clients -> Members]
          /\ \A d \in Clients : cli'[d].st = "new" <=> cli[d].st = "new"
      <4>1. cli' = [cli EXCEPT ![c].sent = @ + 1] /\ cli[c].sent \in Nat
        BY <1>1, <2>1 DEF Send, Members
      <4>2. PICK n \in Nat : n = cli[c].sent + 1
        BY <4>1
      <4>3. cli' = [cli EXCEPT ![c].sent = n]
        BY <4>1, <4>2
      <4> QED BY <1>1, <4>3 DEF Members
    <3> QED BY <3>3, <3>4
  <2>2. CASE Finish(c)
    BY <1>1, <2>2 DEF Finish, Members, States
  <2>3. CASE Leave(c)
    BY <1>1, <2>3 DEF Leave, Members, States
  <2> QED BY <2>1, <2>2, <2>3 DEF Client
<1>4. DataOK'
  BY <1>2, <1>3 DEF Inv, TypeOK, DataOK
<1>5. TypeOK' /\ Shape'
  BY <1>2, <1>4 DEF Inv, TypeOK, Shape, Stands
<1>6. Table'
  BY <1>2, <1>3, TableKept DEF Inv
<1>7. Slots'
  BY <1>2 DEF Inv, Slots, InHand, Open
<1>8. Hands'
  BY <1>2, <1>3, HandsKept DEF Inv, Waits
<1> QED BY <1>5, <1>6, <1>7, <1>8 DEF Inv

LEMMA Connects ==
  ASSUME Inv, NEW c \in Clients, Connect(c) PROVE Inv'
<1>1. /\ cli[c].st = "new" /\ cli' = [cli EXCEPT ![c].st = "open"] /\ backlog' = Append(backlog, c)
      /\ UNCHANGED <<kind, files, pool, proc, sock, cell, sbuf, taken, once, mutex, byte_cnt, heard>>
  BY DEF Connect, fixed, buffer, count
<1>2. /\ cli[c] \in Members /\ cli \in [Clients -> Members] /\ backlog \in Seq(Clients)
  BY DEF Inv, TypeOK, DataOK
<1>3. /\ cli' \in [Clients -> Members] /\ cli'[c].st = "open"
      /\ \A d \in Clients : d # c => cli'[d] = cli[d]
  BY <1>1, <1>2 DEF Members, States
<1>4. /\ backlog' \in Seq(Clients) /\ DOMAIN backlog = 1..Len(backlog) /\ Len(backlog) \in Nat
      /\ DOMAIN backlog' = 1..Len(backlog)+1 /\ backlog'[Len(backlog)+1] = c
      /\ \A i \in DOMAIN backlog : backlog'[i] = backlog[i]
  BY <1>1, <1>2
<1>5. TypeOK' /\ Shape'
  BY <1>1, <1>3, <1>4 DEF Inv, TypeOK, DataOK, Shape, Stands
<1>6. Table'
  <2>1. \A i \in DOMAIN backlog' : i \in DOMAIN backlog \/ i = Len(backlog) + 1
    BY <1>4
  <2>2. \A i \in DOMAIN backlog : backlog[i] # c
    BY <1>1 DEF Inv, Table
  <2>3. \A i, j \in DOMAIN backlog' : backlog'[i] = backlog'[j] => i = j
    BY <1>4, <2>1, <2>2 DEF Inv, Table
  <2>4. \A i \in DOMAIN backlog' : cli'[backlog'[i]].st # "new"
    <3>1. \A i \in DOMAIN backlog : backlog[i] \in Clients
      BY <1>2
    <3> QED BY <1>3, <1>4, <2>1, <3>1 DEF Inv, Table
  <2>5. ASSUME NEW d \in Clients, Waits(d)' PROVE \A f \in Fd : files'[Main][f] # d
    <3>1. Waits(d)
      BY <1>1, <1>3, <1>4, <2>1, <2>5 DEF Waits
    <3> QED BY <1>1, <3>1 DEF Inv, Table
  <2> QED BY <1>1, <2>3, <2>4, <2>5 DEF Inv, Table
<1>7. Slots'
  BY <1>1 DEF Inv, Slots, InHand, Open
<1>8. Hands'
  <2>1. \A d \in Clients : Waits(d)' => Waits(d)
    <3>1. \A i \in DOMAIN backlog' : i \in DOMAIN backlog \/ i = Len(backlog) + 1
      BY <1>4
    <3> QED BY <1>1, <1>3, <1>4, <3>1 DEF Waits
  <2> QED BY <1>1, <2>1, HandsKept DEF Inv
<1> QED BY <1>5, <1>6, <1>7, <1>8 DEF Inv

-----------------------------------------------------------------------------
(* main *)

LEMMA TableAccepts ==
  ASSUME TypeOK, Table, backlog # <<>>, backlog' = Tail(backlog), files' = Accepted, UNCHANGED cli
  PROVE  /\ Table' /\ backlog' \in Seq(Clients) /\ Head(backlog) \in Clients
         /\ files' \in [{Main} \cup Spawned -> [Fd -> Clients \cup {None}]]
         /\ Connfd \in Fd /\ files[Main][Connfd] = None /\ files'[Main][Connfd] = Head(backlog)
         /\ \A f \in Fd : f # Connfd => files'[Main][f] = files[Main][f]
         /\ \A p \in Spawned : files'[p] = files[p]
         /\ Waits(Head(backlog)) /\ \A c \in Clients : Waits(c)' => Waits(c)
<1> DEFINE h == Head(backlog)
           d == Connfd
<1>1. d \in Fd /\ files[Main][d] = None
  BY Unused
<1>2. /\ h \in Clients /\ h = backlog[1] /\ 1 \in DOMAIN backlog /\ backlog \in Seq(Clients)
      /\ backlog' \in Seq(Clients) /\ Len(backlog') = Len(backlog) - 1 /\ Len(backlog) \in Nat
      /\ DOMAIN backlog = 1..Len(backlog) /\ DOMAIN backlog' = 1..Len(backlog)-1
      /\ \A i \in DOMAIN backlog' : backlog'[i] = backlog[i+1] /\ i + 1 \in DOMAIN backlog /\ i + 1 # 1
  BY DEF TypeOK
<1>3. files' = [files EXCEPT ![Main][d] = h]
  BY DEF Accepted
<1>4. files \in [{Main} \cup Spawned -> [Fd -> Clients \cup {None}]]
  BY DEF TypeOK
<1> HIDE DEF h, d
<1>5. /\ files' \in [{Main} \cup Spawned -> [Fd -> Clients \cup {None}]]
      /\ files'[Main][d] = h /\ \A f \in Fd : f # d => files'[Main][f] = files[Main][f]
  BY <1>1, <1>2, <1>3, <1>4
<1>6. \A f \in Fd : files[Main][f] # h
  BY <1>2 DEF Table, Waits
<1>7. \A f, g \in Fd : files'[Main][f] = files'[Main][g] /\ files'[Main][f] # None => f = g
  BY <1>5, <1>6 DEF Table
<1>8. \A i, j \in DOMAIN backlog' : backlog'[i] = backlog'[j] => i = j
  <2> SUFFICES ASSUME NEW i \in DOMAIN backlog', NEW j \in DOMAIN backlog', backlog'[i] = backlog'[j]
               PROVE  i = j
    OBVIOUS
  <2>1. backlog[i+1] = backlog[j+1] /\ i + 1 \in DOMAIN backlog /\ j + 1 \in DOMAIN backlog
    BY <1>2
  <2>2. i + 1 = j + 1
    BY <2>1 DEF Table
  <2> QED BY <1>2, <2>2
<1>9. \A i \in DOMAIN backlog' : cli'[backlog'[i]].st # "new" /\ backlog'[i] # h
  BY <1>2 DEF Table
<1>10. ASSUME NEW c \in Clients, Waits(c)'
       PROVE  Waits(c) /\ \A f \in Fd : files'[Main][f] # c
  <2>1. Waits(c) /\ c # h
    <3>1. CASE cli'[c].st = "new"
      BY <1>2, <3>1 DEF Waits, Table
    <3>2. CASE \E i \in DOMAIN backlog' : backlog'[i] = c
      BY <1>2, <1>9, <3>2 DEF Waits
    <3> QED BY <1>10, <3>1, <3>2 DEF Waits
  <2> QED BY <1>5, <2>1 DEF Table
<1>11. Waits(h)
  BY <1>2 DEF Waits
<1>12. \A p \in Spawned : files'[p] = files[p]
  BY <1>3, <1>4, ServersAssumption DEF Spawned
<1> QED BY <1>1, <1>2, <1>5, <1>7, <1>8, <1>9, <1>10, <1>11, <1>12 DEF Table, h, d

LEMMA Contextual ==
  ASSUME NEW pc \in Pcs, NEW fd \in Fd \cup {None}
  PROVE  /\ Proc(pc, fd) \in Contexts /\ Proc(pc, fd).pc = pc /\ Proc(pc, fd).fd = fd
         /\ Proc(pc, fd).line = <<>> /\ Proc(pc, fd).rio = <<>>
BY DEF Proc, Contexts

LEMMA Fields ==
  ASSUME NEW k \in Contexts, NEW pc \in Pcs
  PROVE  \E r \in Contexts : /\ r = [k EXCEPT !.pc = pc] /\ r.pc = pc
                             /\ r.fd = k.fd /\ r.rio = k.rio /\ r.line = k.line /\ r.reg = k.reg
<1>1. [k EXCEPT !.pc = pc] \in Contexts
  BY DEF Contexts
<1> QED BY <1>1 DEF Contexts

LEMMA Refilled ==
  ASSUME NEW k \in Contexts, NEW x \in Seq(Piece)
  PROVE  \E r \in Contexts : /\ r = [k EXCEPT !.rio = x] /\ r.pc = k.pc
                             /\ r.fd = k.fd /\ r.rio = x /\ r.line = k.line /\ r.reg = k.reg
<1>1. [k EXCEPT !.rio = x] \in Contexts
  BY DEF Contexts
<1> QED BY <1>1 DEF Contexts

LEMMA AcceptingStands ==
  ASSUME Shape, kind # "select"
  PROVE  Accepting \in Pcs /\ Accepting # "reply" /\ Stands(Main, Accepting)
<1>1. CASE kind = "iterative"
  <2>1. Accepting = "read"
    BY <1>1 DEF Accepting
  <2> QED BY <1>1, <2>1 DEF Stands, Pcs
<1>2. CASE kind = "tiny"
  <2>1. Accepting = "request"
    BY <1>2, Zenon DEF Accepting
  <2> QED BY <1>2, <2>1 DEF Stands, Pcs
<1>3. CASE kind \notin {"iterative", "tiny"}
  <2>1. Accepting = kind
    BY <1>3 DEF Accepting
  <2> QED BY <1>3, <2>1 DEF Shape, Names, Stands, Pcs
<1> QED BY <1>1, <1>2, <1>3

LEMMA ShapeMoves ==
  ASSUME Shape, kind' = kind,
         \A p \in Procs : \/ proc'[p] = proc[p]
                          \/ Stands(p, proc'[p].pc) /\ (proc'[p].pc = "reply" => proc'[p].line # <<>>)
  PROVE  Shape'
BY DEF Shape, Stands

LEMMA MainRecord ==
  ASSUME TypeOK, Shape
  PROVE  /\ Main \in Procs /\ proc[Main] \in Contexts /\ proc[Main].fd \in Fd \cup {None}
         /\ Stands(Main, proc[Main].pc) /\ Main \notin Spawned /\ Main \notin Threads
         /\ Clients \subseteq Procs /\ Spawned = Clients /\ Clients \cap Threads = {} /\ None \notin Clients
BY ServersAssumption DEF TypeOK, Shape, Procs, Contexts, Spawned

LEMMA Accepts ==
  ASSUME Inv, Accept PROVE Inv'
<1>1. /\ kind # "select" /\ backlog # <<>> /\ backlog' = Tail(backlog) /\ files' = Accepted
      /\ proc' = [proc EXCEPT ![Main] = Proc(Accepting, Connfd)]
      /\ cell' = (IF kind = "thread" THEN [cell EXCEPT ![Head(backlog)] = Connfd] ELSE cell)
      /\ UNCHANGED <<kind, cli, sock, pool, sbuf, taken, once, mutex, byte_cnt, heard>>
  BY DEF Accept, fixed, client, buffer, count
<1> DEFINE h == Head(backlog)
           d == Connfd
<1>2. /\ Table' /\ backlog' \in Seq(Clients) /\ h \in Clients
      /\ files' \in [{Main} \cup Spawned -> [Fd -> Clients \cup {None}]] /\ d \in Fd
      /\ files'[Main][d] = h /\ files[Main][d] = None /\ Waits(h)
      /\ \A f \in Fd : f # d => files'[Main][f] = files[Main][f]
      /\ \A p \in Spawned : files'[p] = files[p]
      /\ \A c \in Clients : Waits(c)' => Waits(c)
  BY <1>1, TableAccepts DEF Inv
<1>a. /\ proc' = [proc EXCEPT ![Main] = Proc(Accepting, d)]
      /\ cell' = (IF kind = "thread" THEN [cell EXCEPT ![h] = d] ELSE cell)
  BY <1>1
<1> HIDE DEF h, d
<1>3. Accepting \in Pcs /\ Accepting # "reply" /\ Stands(Main, Accepting)
  BY <1>1, AcceptingStands DEF Inv
<1>4. PICK r \in Contexts : r = Proc(Accepting, d) /\ r.pc = Accepting /\ r.fd = d
  BY <1>2, <1>3, Contextual
<1>b. /\ Main \in Procs /\ Clients \subseteq Procs /\ Spawned = Clients /\ Main \notin Clients
      /\ None \notin Clients
  BY MainRecord DEF Inv
<1>5. /\ proc' \in [Procs -> Contexts] /\ proc'[Main] = r
      /\ \A q \in Procs : q # Main => proc'[q] = proc[q]
  BY <1>a, <1>b, <1>4 DEF Inv, TypeOK
<1>6. Shape'
  BY <1>1, <1>3, <1>4, <1>5, ShapeMoves DEF Inv
<1>7. /\ cell' \in [{Main} \cup Spawned -> Fd \cup {None}]
      /\ kind = "thread" => cell'[h] = d /\ \A c \in Clients : c # h => cell'[c] = cell[c]
  BY <1>a, <1>b, <1>2 DEF Inv, TypeOK, DataOK
<1>8. TypeOK'
  BY <1>1, <1>2, <1>5, <1>7 DEF Inv, TypeOK, DataOK
<1>9. Works'
  BY <1>2, <1>4, <1>5, <1>b DEF Works, Open
<1>10. proc[h].pc = "none" /\ Idle'
  <2>1. \A c \in Clients : Waits(c) => proc[c].pc = "none"
    BY DEF Inv, Hands, Idle, Fresh
  <2>2. ASSUME NEW c \in Clients, Fresh(c)' PROVE Waits(c)
    BY <1>2, <1>4, <1>5, <2>2 DEF Fresh
  <2> QED BY <1>2, <1>5, <1>b, <2>1, <2>2 DEF Idle
<1>11. Children'
  BY <1>1, <1>2, <1>5, <1>b DEF Inv, Hands, Children, Has
<1>12. Given'
  BY <1>1, <1>2, <1>4, <1>5, <1>7 DEF Given
<1>13. Detached'
  <2> SUFFICES ASSUME kind = "thread", NEW c \in Clients
               PROVE  /\ proc'[c].pc = "start" => Has(c, Main, cell[c])'
                      /\ proc'[c].pc \in {"read", "write"} => Has(c, Main, proc[c].fd)'
    BY <1>1 DEF Detached
  <2>1. /\ proc[c].pc = "start" => Has(c, Main, cell[c])
        /\ proc[c].pc \in {"read", "write"} => Has(c, Main, proc[c].fd)
    BY DEF Inv, Hands, Detached
  <2>2. proc'[c] = proc[c] /\ (proc[c].pc # "none" => cell'[c] = cell[c])
    BY <1>5, <1>7, <1>10, <1>b
  <2> QED BY <1>2, <1>b, <2>1, <2>2 DEF Has
<1> QED BY <1>1, <1>2, <1>6, <1>8, <1>9, <1>10, <1>11, <1>12, <1>13 DEF Inv, Slots, Hands

\* Main gives the connection to a child, which has a copy of the descriptors.
LEMMA Copies ==
  ASSUME Inv, kind \in {"process", "tiny"}, proc[Main].pc \in ToGive,
         NEW fd \in Fd, fd = proc[Main].fd, NEW c \in Clients, c = files[Main][fd],
         NEW a \in Pcs, NEW b \in Pcs, a # "reply", b \notin ToGive, Stands(c, a), Stands(Main, b),
         files' = [files EXCEPT ![c] = files[Main]],
         proc' = [proc EXCEPT ![c] = Proc(a, fd), ![Main].pc = b],
         UNCHANGED <<kind, cli, sock, backlog, cell, pool, sbuf, taken, once, mutex, byte_cnt, heard>>
  PROVE  Inv'
<1>1. /\ Main \in Procs /\ Clients \subseteq Procs /\ Spawned = Clients /\ Main \notin Clients
      /\ None \notin Clients /\ proc[Main] \in Contexts
  BY MainRecord DEF Inv
<1>4. PICK r \in Contexts : r = Proc(a, fd) /\ r.pc = a /\ r.fd = fd
  BY Contextual
<1>5. PICK m \in Contexts : m = [proc[Main] EXCEPT !.pc = b] /\ m.pc = b /\ m.fd = fd
  BY <1>1, Fields
<1>6. /\ proc' \in [Procs -> Contexts] /\ proc'[Main] = m /\ proc'[c] = r
      /\ \A q \in Procs : q # Main /\ q # c => proc'[q] = proc[q]
  <2>1. proc' = [proc EXCEPT ![c] = r, ![Main] = m]
    BY <1>1, <1>4, <1>5 DEF Inv, TypeOK
  <2>2. PICK f \in [Procs -> Contexts] : f = [proc EXCEPT ![c] = r]
    BY DEF Inv, TypeOK
  <2>3. proc' = [f EXCEPT ![Main] = m]
    BY <2>1, <2>2
  <2>4. f[c] = r /\ \A q \in Procs : q # c => f[q] = proc[q]
    BY <1>1, <2>2 DEF Inv, TypeOK
  <2>5. proc' \in [Procs -> Contexts]
    BY <2>3
  <2>6. proc'[Main] = m /\ \A q \in Procs : q # Main => proc'[q] = f[q]
    BY <1>1, <2>3
  <2> QED BY <1>1, <2>4, <2>5, <2>6
<1>7. /\ files' \in [{Main} \cup Spawned -> [Fd -> Clients \cup {None}]]
      /\ files'[Main] = files[Main] /\ files'[c] = files[Main]
      /\ \A d \in Clients : d # c => files'[d] = files[d]
  BY <1>1 DEF Inv, TypeOK
<1>8. Shape'
  <2>1. Stands(Main, proc'[Main].pc) /\ proc'[Main].pc # "reply"
    BY <1>5, <1>6 DEF ToGive
  <2>2. Stands(c, proc'[c].pc) /\ proc'[c].pc # "reply"
    BY <1>4, <1>6
  <2> QED BY <1>6, <2>1, <2>2, ShapeMoves DEF Inv
<1>9. TypeOK'
  BY <1>6, <1>7 DEF Inv, TypeOK, DataOK
<1>10. Table'
  BY <1>7, TableKept DEF Inv
<1>11. Works'
  <2>1. files'[Main][fd] # None /\ proc'[Main].fd = fd
    BY <1>1, <1>5, <1>6, <1>7
  <2> QED BY <2>1 DEF Works, Open
<1>12. Idle'
  <2>1. \A d \in Clients : Waits(d) => proc[d].pc = "none" /\ d # c
    BY DEF Inv, Hands, Idle, Fresh, Table
  <2>2. ASSUME NEW d \in Clients, Fresh(d)' PROVE Waits(d)
    BY <1>5, <1>6, <2>2 DEF Fresh, Waits, ToGive
  <2> QED BY <1>1, <1>6, <2>1, <2>2 DEF Idle
<1>13. Children'
  <2>1. Has(c, c, proc[c].fd)'
    BY <1>4, <1>6, <1>7 DEF Has
  <2>2. ASSUME NEW d \in Clients, d # c, proc[d].pc # "none"
        PROVE  Has(d, d, proc[d].fd)'
    BY <1>1, <1>6, <1>7, <2>2 DEF Inv, Hands, Children, Has
  <2> QED BY <1>1, <1>6, <2>1, <2>2 DEF Children
<1> QED BY <1>1, <1>8, <1>9, <1>10, <1>11, <1>12, <1>13
        DEF Inv, Slots, Hands, Given, Detached

LEMMA Forks ==
  ASSUME Inv, Fork PROVE Inv'
<1>1. proc[Main].pc = "process" /\ kind = "process" /\ Spawned = Clients /\ Main \notin Clients
  BY MainRecord DEF Inv, Stands, Fork, At
<1>2. PICK fd \in Fd : fd = proc[Main].fd /\ files[Main][fd] # None
  BY <1>1 DEF Inv, Hands, Works, InHand, Open
<1>3. PICK c \in Clients : c = files[Main][fd]
  BY <1>2 DEF Inv, TypeOK
<1>4. /\ files' = [files EXCEPT ![c] = files[Main]]
      /\ proc' = [proc EXCEPT ![c] = Proc("read", fd), ![Main].pc = "forked"]
      /\ UNCHANGED <<kind, cli, sock, backlog, cell, pool, sbuf, taken, once, mutex, byte_cnt, heard>>
  BY <1>2, <1>3 DEF Fork, fixed, client, buffer, count
<1>5. Stands(c, "read") /\ Stands(Main, "forked") /\ "read" \in Pcs /\ "forked" \in Pcs
  BY <1>1 DEF Stands, Pcs
<1>6. proc[Main].pc \in ToGive /\ "forked" \notin ToGive
  BY <1>1 DEF ToGive
<1> QED BY <1>1, <1>2, <1>3, <1>4, <1>5, <1>6, Copies

\* The copy of the connection in main is closed, and no other descriptor.
LEMMA MainCloses ==
  ASSUME Inv, kind \in {"iterative", "process", "tiny"}, InHand,
         files' = [files EXCEPT ![Main][proc[Main].fd] = None],
         proc' = [proc EXCEPT ![Main] = Proc("accept", None)],
         UNCHANGED <<kind, cli, sock, backlog, cell, pool, sbuf, taken, once, mutex, byte_cnt, heard>>
  PROVE  Inv'
<1>1. /\ Main \in Procs /\ Clients \subseteq Procs /\ Spawned = Clients /\ Main \notin Clients
      /\ None \notin Clients
  BY MainRecord DEF Inv
<1>2. PICK r \in Contexts : r = Proc("accept", None) /\ r.pc = "accept"
  BY Contextual DEF Pcs
<1>3. /\ proc' \in [Procs -> Contexts] /\ proc'[Main] = r
      /\ \A q \in Procs : q # Main => proc'[q] = proc[q]
  BY <1>1, <1>2 DEF Inv, TypeOK
<1>4. /\ files' \in [{Main} \cup Spawned -> [Fd -> Clients \cup {None}]]
      /\ \A d \in Clients : files'[d] = files[d]
      /\ \A f \in Fd : files'[Main][f] \in {files[Main][f], None}
  BY <1>1 DEF Inv, TypeOK
<1>5. Shape'
  <2>1. Stands(Main, "accept")
    BY DEF Stands
  <2> QED BY <1>2, <1>3, <2>1, ShapeMoves DEF Inv
<1>6. TypeOK'
  BY <1>3, <1>4 DEF Inv, TypeOK, DataOK
<1>7. Table'
  BY <1>4, TableKept DEF Inv
<1>8. Works'
  BY <1>2, <1>3 DEF Works, InHand
<1>9. Idle'
  <2>1. \A d \in Clients : Waits(d) => proc[d].pc = "none"
    BY DEF Inv, Hands, Idle, Fresh
  <2>2. ASSUME NEW d \in Clients, Fresh(d)' PROVE Waits(d)
    BY <1>2, <1>3, <2>2 DEF Fresh, Waits, ToGive
  <2> QED BY <1>1, <1>3, <2>1, <2>2 DEF Idle
<1>10. Children'
  BY <1>1, <1>3, <1>4 DEF Inv, Hands, Children, Has
<1> QED BY <1>5, <1>6, <1>7, <1>8, <1>9, <1>10 DEF Inv, Slots, Hands, Given, Detached

LEMMA ParentCloses ==
  ASSUME Inv, ParentClose PROVE Inv'
<1>1. proc[Main].pc = "forked" /\ Stands(Main, proc[Main].pc)
  BY MainRecord DEF Inv, ParentClose, At
<1>2. kind = "process" /\ InHand
  BY <1>1 DEF Stands, InHand
<1> QED BY <1>2, MainCloses DEF ParentClose, fixed, client, buffer, count

LEMMA Detaches ==
  ASSUME Inv, Pthread_create PROVE Inv'
<1>1. /\ proc[Main].pc = "thread"
      /\ Main \in Procs /\ Clients \subseteq Procs /\ Spawned = Clients /\ Main \notin Clients
      /\ None \notin Clients /\ kind = "thread"
  BY MainRecord DEF Inv, Stands, Pthread_create, At
<1>2. PICK fd \in Fd : fd = proc[Main].fd /\ files[Main][fd] # None
  BY <1>1 DEF Inv, Hands, Works, InHand, Open
<1>3. PICK c \in Clients : c = files[Main][fd]
  BY <1>2 DEF Inv, TypeOK
<1>4. /\ proc' = [proc EXCEPT ![c].pc = "start", ![Main] = Proc("accept", None)]
      /\ UNCHANGED <<kind, cli, sock, backlog, files, cell, pool, sbuf, taken, once, mutex,
                     byte_cnt, heard>>
  BY <1>2, <1>3 DEF Pthread_create, fixed, client, buffer, count
<1>5. proc \in [Procs -> Contexts] /\ proc[c] \in Contexts
  BY <1>1 DEF Inv, TypeOK
<1>6. PICK r \in Contexts : r = Proc("accept", None) /\ r.pc = "accept"
  BY Contextual DEF Pcs
<1>7. PICK m \in Contexts : m = [proc[c] EXCEPT !.pc = "start"] /\ m.pc = "start"
  <2>1. "start" \in Pcs
    BY DEF Pcs
  <2> QED BY <1>5, <2>1, Fields
<1>8. /\ proc' \in [Procs -> Contexts] /\ proc'[Main] = r /\ proc'[c] = m
      /\ \A q \in Procs : q # Main /\ q # c => proc'[q] = proc[q]
  <2>1. proc' = [proc EXCEPT ![c] = m, ![Main] = r]
    BY <1>1, <1>4, <1>5, <1>6, <1>7
  <2> QED BY <1>1, <1>5, <2>1
<1>9. Shape'
  <2>1. Stands(Main, "accept") /\ Stands(c, "start")
    BY <1>1 DEF Stands
  <2> QED BY <1>4, <1>6, <1>7, <1>8, <2>1, ShapeMoves DEF Inv
<1>10. TypeOK'
  BY <1>4, <1>8 DEF Inv, TypeOK, DataOK
<1>11. Table'
  BY <1>4, TableKept DEF Inv
<1>12. Works' /\ Given'
  BY <1>6, <1>8 DEF Works, InHand, Given
<1>13. Idle'
  <2>1. \A d \in Clients : Waits(d) => proc[d].pc = "none" /\ d # c
    BY <1>2, <1>3 DEF Inv, Hands, Idle, Fresh, Table
  <2>2. ASSUME NEW d \in Clients, Fresh(d)' PROVE Waits(d)
    BY <1>4, <1>6, <1>8, <2>2 DEF Fresh, Waits, ToGive
  <2> QED BY <1>1, <1>8, <2>1, <2>2 DEF Idle
<1>14. Detached'
  <2> SUFFICES ASSUME NEW d \in Clients
               PROVE  /\ proc'[d].pc = "start" => Has(d, Main, cell[d])'
                      /\ proc'[d].pc \in {"read", "write"} => Has(d, Main, proc[d].fd)'
    BY DEF Detached
  <2>1. CASE d = c
    <3>1. cell[c] = fd
      BY <1>1, <1>2, <1>3 DEF Inv, Hands, Given
    <3> QED BY <1>2, <1>3, <1>4, <1>7, <1>8, <2>1, <3>1 DEF Has
  <2>2. CASE d # c
    <3>1. proc'[d] = proc[d]
      BY <1>1, <1>8, <2>2
    <3>2. /\ proc[d].pc = "start" => Has(d, Main, cell[d])
          /\ proc[d].pc \in {"read", "write"} => Has(d, Main, proc[d].fd)
      BY <1>1 DEF Inv, Hands, Detached
    <3> QED BY <1>4, <3>1, <3>2 DEF Has
  <2> QED BY <2>1, <2>2
<1>15. Children'
  BY <1>1, <1>4 DEF Children
<1> QED BY <1>1, <1>4, <1>9, <1>10, <1>11, <1>12, <1>13, <1>14, <1>15 DEF Inv, Slots, Hands

LEMMA Inserts ==
  ASSUME Inv, sbuf_insert PROVE Inv'
<1>1. /\ proc' = [proc EXCEPT ![Main] = Proc("accept", None)]
      /\ sbuf' = Append(sbuf, proc[Main].fd)
      /\ UNCHANGED <<kind, cli, sock, backlog, files, cell, pool, taken, once, mutex, byte_cnt, heard>>
  BY DEF sbuf_insert, Sbuf!Put, fixed, client, count
<1>2. Main \in Procs /\ proc[Main].fd \in Fd \cup {None} /\ Main \notin Spawned
  BY MainRecord DEF Inv
<1>3. PICK r \in Contexts : r = Proc("accept", None) /\ r.pc = "accept"
  BY Contextual DEF Pcs
<1>4. DataOK'
  <2>1. sbuf' \in Seq(Fd \cup {None})
    BY <1>1, <1>2 DEF Inv, TypeOK, DataOK
  <2> QED BY <1>1, <2>1 DEF Inv, TypeOK, DataOK
<1>5. Stands(Main, r.pc)
  BY <1>3 DEF Stands
<1> QED BY <1>1, <1>2, <1>3, <1>4, <1>5, OneMoves

-----------------------------------------------------------------------------
(* The start of a thread *)

LEMMA Record ==
  ASSUME TypeOK, Shape, NEW p \in Procs
  PROVE  /\ proc[p] \in Contexts /\ proc[p].pc \in Pcs /\ proc[p].fd \in Fd \cup {None}
         /\ proc[p].rio \in Seq(Piece) /\ proc[p].line \in Seq(Part) /\ proc[p].reg \in Nat
         /\ Stands(p, proc[p].pc) /\ (p = Main \/ p \in Spawned \/ p \in Threads)
         /\ Main \notin Spawned /\ Main \notin Threads /\ Spawned \cap Threads = {}
<1>1. proc[p] \in Contexts /\ Stands(p, proc[p].pc)
  BY DEF TypeOK, Shape
<1> QED BY <1>1, ServersAssumption DEF Contexts, Procs, Spawned

LEMMA Starts ==
  ASSUME Inv, NEW p \in Spawned, Start(p) PROVE Inv'
<1>1. /\ proc[p].pc = "start" /\ proc' = [proc EXCEPT ![p] = Proc("read", cell[p])]
      /\ UNCHANGED <<kind, cli, sock, backlog, files, cell, pool, sbuf, taken, once, mutex,
                     byte_cnt, heard>>
  BY DEF Start, At, fixed, client, buffer, count
<1>2. p \in Procs /\ cell[p] \in Fd \cup {None}
  BY DEF Inv, TypeOK, DataOK, Procs
<1>3. kind = "thread" /\ p # Main
  BY <1>1, <1>2, Record DEF Inv, Stands
<1>4. PICK r \in Contexts : r = Proc("read", cell[p]) /\ r.pc = "read" /\ r.fd = cell[p]
  BY <1>2, Contextual DEF Pcs
<1>5. DataOK'
  BY <1>1 DEF Inv, TypeOK, DataOK
<1>6. Stands(p, r.pc)
  BY <1>3, <1>4 DEF Stands
<1> QED BY <1>1, <1>2, <1>3, <1>4, <1>5, <1>6, OneMoves

LEMMA Worker ==
  ASSUME Inv, NEW t \in Threads, proc[t].pc # "none"
  PROVE  t \in Procs /\ t # Main /\ t \notin Spawned /\ kind = "prethreaded"
<1>1. t \in Procs
  BY DEF Procs
<1> QED BY <1>1, Record DEF Inv, Stands

LEMMA Removes ==
  ASSUME Inv, NEW t \in Threads, sbuf_remove(t) PROVE Inv'
<1>1. /\ proc[t].pc = "remove" /\ proc' = [proc EXCEPT ![t].pc = "once"]
      /\ sbuf # <<>> /\ taken' = [taken EXCEPT ![t] = Head(sbuf)] /\ sbuf' = Tail(sbuf)
      /\ UNCHANGED <<kind, cli, sock, backlog, files, cell, pool, once, mutex, byte_cnt, heard>>
  BY DEF sbuf_remove, Sbuf!Get, At, Goto, fixed, client, count
<1>2. t \in Procs /\ t # Main /\ t \notin Spawned /\ kind = "prethreaded"
  BY <1>1, Worker
<1>3. PICK r \in Contexts : r = [proc[t] EXCEPT !.pc = "once"] /\ r.pc = "once"
  <2>1. "once" \in Pcs
    BY DEF Pcs
  <2>2. proc[t] \in Contexts
    BY <1>2, Record DEF Inv
  <2> QED BY <2>1, <2>2, Fields
<1>4. proc' = [proc EXCEPT ![t] = r]
  BY <1>1, <1>2, <1>3 DEF Inv, TypeOK
<1>5. DataOK'
  <2>1. Head(sbuf) \in Fd \cup {None} /\ Tail(sbuf) \in Seq(Fd \cup {None})
    BY <1>1 DEF Inv, TypeOK, DataOK
  <2> QED BY <1>1, <2>1 DEF Inv, TypeOK, DataOK
<1>6. Stands(t, r.pc)
  BY <1>2, <1>3 DEF Stands
<1> QED BY <1>1, <1>2, <1>3, <1>4, <1>5, <1>6, OneMoves

LEMMA Initialises ==
  ASSUME Inv, NEW t \in Threads, init_echo_cnt(t) PROVE Inv'
<1>1. /\ proc[t].pc = "once" /\ proc' = [proc EXCEPT ![t] = Proc("read", taken[t])]
      /\ once' = TRUE /\ mutex' \in {1, mutex} /\ byte_cnt' \in {0, byte_cnt}
      /\ UNCHANGED <<kind, cli, sock, backlog, files, cell, pool, sbuf, taken, heard>>
  BY DEF init_echo_cnt, At, fixed, client, buffer
<1>2. t \in Procs /\ t # Main /\ t \notin Spawned /\ kind = "prethreaded"
  BY <1>1, Worker
<1>3. PICK r \in Contexts : r = Proc("read", taken[t]) /\ r.pc = "read"
  <2>1. taken[t] \in Fd \cup {None}
    BY DEF Inv, TypeOK, DataOK
  <2> QED BY <2>1, Contextual DEF Pcs
<1>4. DataOK'
  BY <1>1 DEF Inv, TypeOK, DataOK
<1>5. Stands(t, r.pc)
  BY <1>2, <1>3 DEF Stands
<1> QED BY <1>1, <1>2, <1>3, <1>4, <1>5, OneMoves

-----------------------------------------------------------------------------
(* echo *)

LEMMA Parts ==
  ASSUME NEW s \in Seq(Piece) PROVE s \in Seq(Part)
BY DEF Part

LEMMA Reads ==
  ASSUME Inv, NEW p \in Procs, NEW c \in Clients, Read(p, c) PROVE Inv'
<1>1. PICK k \in 1..Len(sock[c]) :
        /\ proc' = [proc EXCEPT ![p].rio = @ \o SubSeq(sock[c], 1, k)]
        /\ sock' = [sock EXCEPT ![c] = SubSeq(@, k + 1, Len(@))]
  BY DEF Read
<1>2. /\ proc[p].pc \in {"read", "request", "headers"}
      /\ UNCHANGED <<kind, cli, backlog, files, cell, pool, sbuf, taken, once, mutex, byte_cnt, heard>>
  BY DEF Read, Reading, At, fixed, buffer, count
<1>3. /\ proc[p] \in Contexts /\ proc[p].rio \in Seq(Piece) /\ Stands(p, proc[p].pc)
      /\ sock \in [Clients -> Seq(Piece)] /\ sock[c] \in Seq(Piece)
  BY Record DEF Inv, TypeOK, DataOK
<1>4. /\ SubSeq(sock[c], 1, k) \in Seq(Piece)
      /\ SubSeq(sock[c], k + 1, Len(sock[c])) \in Seq(Piece)
  <2>1. sock[c] \in Seq(Piece) /\ k \in 1..Len(sock[c])
    BY <1>3
  <2>2. ASSUME NEW s \in Seq(Piece), NEW j \in 1..Len(s)
        PROVE  SubSeq(s, 1, j) \in Seq(Piece) /\ SubSeq(s, j + 1, Len(s)) \in Seq(Piece)
    OBVIOUS
  <2> QED BY <2>1, <2>2
<1>5. PICK x \in Seq(Piece) : x = proc[p].rio \o SubSeq(sock[c], 1, k)
  <2>1. ASSUME NEW s \in Seq(Piece), NEW t \in Seq(Piece) PROVE s \o t \in Seq(Piece)
    OBVIOUS
  <2> QED BY <1>3, <1>4, <2>1
<1>6. PICK r \in Contexts : r = [proc[p] EXCEPT !.rio = x] /\ r.pc = proc[p].pc /\ r.fd = proc[p].fd
  BY <1>3, Refilled
<1>7. proc' = [proc EXCEPT ![p] = r]
  BY <1>1, <1>5, <1>6 DEF Inv, TypeOK
<1>8. DataOK'
  <2>1. sock' \in [Clients -> Seq(Piece)]
    BY <1>1, <1>3, <1>4
  <2> QED BY <1>2, <2>1 DEF Inv, TypeOK, DataOK
<1>9. Stands(p, r.pc) /\ (p = Main => InHand)
  BY <1>2, <1>3, <1>6 DEF InHand
<1> QED BY <1>2, <1>6, <1>7, <1>8, <1>9, OneMoves

\* What Rio_readlineb returns moves from the buffer to the line.
LEMMA LineTaken ==
  ASSUME Inv, NEW p \in Procs, NEW c \in Clients, Line(p, c)
  PROVE  \E n \in Nat : /\ n = Readline(p, c) /\ n \in 1..Len(proc[p].rio)
                        /\ proc' \in [Procs -> Contexts] /\ \A q \in Procs : q # p => proc'[q] = proc[q]
                        /\ proc'[p].rio = SubSeq(proc[p].rio, n + 1, Len(proc[p].rio))
                        /\ proc'[p].line = SubSeq(proc[p].rio, 1, n)
                        /\ proc'[p].pc = (IF kind = "prethreaded" THEN "lock" ELSE "write")
                        /\ proc'[p].fd = proc[p].fd /\ Len(proc'[p].line) = n
                        /\ byte_cnt' = byte_cnt + (IF kind = "select" THEN n ELSE 0)
                        /\ heard' = heard + n
<1>1. PICK n \in Nat : n = Readline(p, c) /\ n <= Len(proc[p].rio) /\ n > 0
  BY ReadlineBounds DEF Inv, Line
<1>2. PICK pc \in {"lock", "write"} : pc = IF kind = "prethreaded" THEN "lock" ELSE "write"
  OBVIOUS
<1>3. /\ byte_cnt' = byte_cnt + (IF kind = "select" THEN n ELSE 0) /\ heard' = heard + n
  BY <1>1 DEF Line
<1>4. proc' = [proc EXCEPT ![p].rio = SubSeq(proc[p].rio, n + 1, Len(proc[p].rio)),
                           ![p].line = SubSeq(proc[p].rio, 1, n), ![p].pc = pc]
  BY <1>1, <1>2 DEF Line
<1>5. PICK x \in Seq(Piece), y \in Seq(Part) :
        /\ x = SubSeq(proc[p].rio, n + 1, Len(proc[p].rio)) /\ y = SubSeq(proc[p].rio, 1, n)
        /\ Len(y) = n /\ n \in 1..Len(proc[p].rio)
  <2>1. ASSUME NEW s \in Seq(Piece), NEW j \in 1..Len(s)
        PROVE  /\ SubSeq(s, j + 1, Len(s)) \in Seq(Piece) /\ SubSeq(s, 1, j) \in Seq(Piece)
               /\ Len(SubSeq(s, 1, j)) = j
    OBVIOUS
  <2>2. proc[p].rio \in Seq(Piece)
    BY Record DEF Inv
  <2>3. n \in 1..Len(proc[p].rio)
    BY <1>1, <2>2
  <2> QED BY <2>1, <2>2, <2>3, Parts
<1>6. proc \in [Procs -> Contexts] /\ pc \in Pcs
  BY DEF Inv, TypeOK, Pcs
<1>7. PICK a \in [Procs -> Contexts] : a = [proc EXCEPT ![p].rio = x]
  <2>1. [proc EXCEPT ![p].rio = x] \in [Procs -> Contexts]
    BY <1>6 DEF Contexts
  <2> QED BY <2>1
<1>8. PICK b \in [Procs -> Contexts] : b = [a EXCEPT ![p].line = y]
  <2>1. [a EXCEPT ![p].line = y] \in [Procs -> Contexts]
    BY DEF Contexts
  <2> QED BY <2>1
<1>9. [b EXCEPT ![p].pc = pc] \in [Procs -> Contexts]
  BY <1>6 DEF Contexts
<1>10. proc' = [b EXCEPT ![p].pc = pc]
  BY <1>4, <1>5, <1>7, <1>8
<1>11. \A q \in Procs : q # p => proc'[q] = proc[q]
  BY <1>6, <1>7, <1>8, <1>10
<1>12. a[p].fd = proc[p].fd /\ a[p].rio = x
  BY <1>6, <1>7 DEF Contexts
<1>13. b[p].fd = proc[p].fd /\ b[p].rio = x /\ b[p].line = y
  BY <1>8, <1>12 DEF Contexts
<1>14. proc'[p].pc = pc /\ proc'[p].fd = proc[p].fd /\ proc'[p].rio = x /\ proc'[p].line = y
  BY <1>10, <1>13 DEF Contexts
<1> QED BY <1>1, <1>2, <1>3, <1>5, <1>9, <1>10, <1>11, <1>14

LEMMA Lines ==
  ASSUME Inv, NEW p \in Procs, NEW c \in Clients, Line(p, c) PROVE Inv'
<1>1. /\ proc[p].pc = "read"
      /\ UNCHANGED <<kind, cli, sock, backlog, files, cell, pool, sbuf, taken, once, mutex>>
  BY DEF Line, At, fixed, client, buffer
<1>2. /\ Stands(p, proc[p].pc) /\ (p = Main \/ p \in Spawned \/ p \in Threads)
      /\ Main \notin Spawned /\ Main \notin Threads /\ Spawned \cap Threads = {}
  BY Record DEF Inv
<1>3. PICK n \in Nat : /\ proc' \in [Procs -> Contexts] /\ \A q \in Procs : q # p => proc'[q] = proc[q]
                       /\ proc'[p].pc = (IF kind = "prethreaded" THEN "lock" ELSE "write")
                       /\ proc'[p].fd = proc[p].fd
                       /\ byte_cnt' = byte_cnt + (IF kind = "select" THEN n ELSE 0)
                       /\ heard' = heard + n
  BY LineTaken
<1>4. PICK r \in Contexts : r = proc'[p] /\ proc' = [proc EXCEPT ![p] = r]
  BY <1>3, OneAlone
<1>5. DataOK'
  <2>1. byte_cnt \in Nat /\ heard \in Nat
    BY DEF Inv, TypeOK, DataOK
  <2>2. byte_cnt' \in Nat /\ heard' \in Nat
    BY <1>3, <2>1
  <2> QED BY <1>1, <2>2 DEF Inv, TypeOK, DataOK
<1>6. r.pc \in {"lock", "write"} /\ r.pc = (IF kind = "prethreaded" THEN "lock" ELSE "write")
  BY <1>3, <1>4
<1>7. Stands(p, r.pc) /\ (p = Main => InHand) /\ r.pc \notin ToGive
  BY <1>1, <1>2, <1>6 DEF Stands, InHand, ToGive
<1> QED BY <1>1, <1>3, <1>4, <1>5, <1>6, <1>7, OneMoves

LEMMA Locks ==
  ASSUME Inv, NEW p \in Threads, Lock(p) PROVE Inv'
<1>1. /\ proc[p].pc = "lock" /\ mutex' = 0
      /\ proc' = [proc EXCEPT ![p].pc = "store", ![p].reg = byte_cnt + Len(proc[p].line)]
      /\ UNCHANGED <<kind, cli, sock, backlog, files, cell, pool, sbuf, taken, once, byte_cnt, heard>>
  BY DEF Lock, At, fixed, client, buffer
<1>2. p \in Procs /\ p # Main /\ p \notin Spawned /\ kind = "prethreaded"
  BY <1>1, Worker
<1>3. proc[p] \in Contexts /\ proc[p].line \in Seq(Part) /\ byte_cnt \in Nat
  BY <1>2, Record DEF Inv, TypeOK, DataOK
<1>4. PICK n \in Nat : n = byte_cnt + Len(proc[p].line)
  <2>1. Len(proc[p].line) \in Nat
    BY <1>3
  <2> QED BY <1>3, <2>1
<1>5. /\ proc' \in [Procs -> Contexts] /\ \A q \in Procs : q # p => proc'[q] = proc[q]
      /\ proc'[p].pc = "store" /\ proc'[p].fd = proc[p].fd
  <2>1. proc \in [Procs -> Contexts] /\ "store" \in Pcs
    BY DEF Inv, TypeOK, Pcs
  <2>2. proc' = [proc EXCEPT ![p].pc = "store", ![p].reg = n]
    BY <1>1, <1>4
  <2>3. proc' \in [Procs -> Contexts]
    BY <1>2, <2>1, <2>2 DEF Contexts
  <2> QED BY <1>2, <2>1, <2>2, <2>3 DEF Contexts
<1>6. PICK r \in Contexts : r = proc'[p] /\ proc' = [proc EXCEPT ![p] = r]
  BY <1>2, <1>5, OneAlone
<1>7. DataOK' /\ Stands(p, r.pc)
  BY <1>1, <1>2, <1>5, <1>6 DEF Inv, TypeOK, DataOK, Stands
<1> QED BY <1>1, <1>2, <1>5, <1>6, <1>7, OneMoves

LEMMA Unlocks ==
  ASSUME Inv, NEW p \in Threads, Unlock(p) PROVE Inv'
<1>1. /\ proc[p].pc = "store" /\ mutex' = 1 /\ byte_cnt' = proc[p].reg
      /\ proc' = [proc EXCEPT ![p].pc = "write"]
      /\ UNCHANGED <<kind, cli, sock, backlog, files, cell, pool, sbuf, taken, once, heard>>
  BY DEF Unlock, At, Goto, fixed, client, buffer
<1>2. p \in Procs /\ p # Main /\ p \notin Spawned /\ kind = "prethreaded"
  BY <1>1, Worker
<1>3. proc[p] \in Contexts /\ proc[p].reg \in Nat
  BY <1>2, Record DEF Inv
<1>4. PICK r \in Contexts : r = [proc[p] EXCEPT !.pc = "write"] /\ r.pc = "write"
  <2>1. "write" \in Pcs
    BY DEF Pcs
  <2> QED BY <1>3, <2>1, Fields
<1>5. proc' = [proc EXCEPT ![p] = r]
  BY <1>1, <1>2, <1>4 DEF Inv, TypeOK
<1>6. DataOK' /\ Stands(p, r.pc)
  BY <1>1, <1>2, <1>3, <1>4 DEF Inv, TypeOK, DataOK, Stands
<1> QED BY <1>1, <1>2, <1>4, <1>5, <1>6, OneMoves

\* A line or part of a response is sent.
LEMMA Delivered ==
  ASSUME TypeOK, NEW c \in Clients, NEW g \in Seq(Part),
         cli' = (IF cli[c].st = "left" THEN cli ELSE [cli EXCEPT ![c].got = g])
  PROVE  cli' \in [Clients -> Members] /\ \A d \in Clients : cli'[d].st = cli[d].st
<1>1. cli \in [Clients -> Members]
  BY DEF TypeOK, DataOK
<1>2. CASE cli' = [cli EXCEPT ![c].got = g]
  <2>1. cli' \in [Clients -> Members]
    BY <1>1, <1>2 DEF Members
  <2>2. \A d \in Clients : cli'[d].st = cli[d].st
    BY <1>1, <1>2
  <2> QED BY <2>1, <2>2
<1>3. CASE cli' = cli
  BY <1>1, <1>3
<1> QED BY <1>2, <1>3

LEMMA Writes ==
  ASSUME Inv, NEW p \in Procs, NEW c \in Clients, Write(p, c) PROVE Inv'
<1>1. /\ proc[p].pc = "write" /\ proc' = Again(p) /\ pool' = Advance
      /\ cli' = (IF cli[c].st = "left" THEN cli ELSE [cli EXCEPT ![c].got = @ \o proc[p].line])
      /\ UNCHANGED <<kind, sock, backlog, files, cell, sbuf, taken, once, mutex, byte_cnt, heard>>
  BY DEF Write, At, fixed, buffer, count
<1>2. /\ proc[p] \in Contexts /\ proc[p].line \in Seq(Part) /\ Stands(p, proc[p].pc)
      /\ (p = Main \/ p \in Spawned \/ p \in Threads) /\ Main \notin Spawned /\ Main \notin Threads
      /\ Spawned \cap Threads = {}
  BY Record DEF Inv
<1>3. cli' \in [Clients -> Members] /\ \A d \in Clients : cli'[d].st = cli[d].st
  <2>1. ASSUME NEW s \in Seq(Part), NEW t \in Seq(Part) PROVE s \o t \in Seq(Part)
    OBVIOUS
  <2>2. PICK g \in Seq(Part) : g = cli[c].got \o proc[p].line
    BY <1>2, <2>1 DEF Inv, TypeOK, DataOK, Members
  <2>3. cli' = (IF cli[c].st = "left" THEN cli ELSE [cli EXCEPT ![c].got = g])
    BY <1>1, <2>2
  <2> QED BY <2>3, Delivered DEF Inv
<1>4. DataOK'
  BY <1>1, <1>3 DEF Inv, TypeOK, DataOK
<1>5. CASE kind = "select"
  <2>1. PICK r \in Contexts : r = Proc("check", None) /\ r.pc = "check"
    BY Contextual DEF Pcs
  <2>2. proc' = [proc EXCEPT ![p] = r] /\ p = Main /\ Stands(p, r.pc)
    BY <1>1, <1>2, <1>5, <2>1 DEF Again, Stands
  <2>3. pool' \in Pools /\ pool'.clientfd = pool.clientfd
    <3>1. pool' = [pool EXCEPT !.i = @ + 1] /\ pool \in Pools /\ pool.i + 1 \in Nat
      BY <1>1, <1>5 DEF Advance, Inv, TypeOK, Pools
    <3> QED BY <3>1 DEF Pools
  <2> QED BY <1>1, <1>2, <1>3, <1>4, <2>1, <2>2, <2>3, OneMoves
<1>6. CASE kind # "select"
  <2>1. proc' = [proc EXCEPT ![p].pc = "read", ![p].line = <<>>] /\ pool' = pool
    BY <1>1, <1>6 DEF Again, Advance
  <2>2. /\ proc' \in [Procs -> Contexts] /\ \A q \in Procs : q # p => proc'[q] = proc[q]
        /\ proc'[p].pc = "read" /\ proc'[p].fd = proc[p].fd
    <3>1. proc \in [Procs -> Contexts] /\ "read" \in Pcs /\ <<>> \in Seq(Part)
      BY DEF Inv, TypeOK, Pcs
    <3>2. proc' \in [Procs -> Contexts]
      BY <2>1, <3>1 DEF Contexts
    <3> QED BY <2>1, <3>1, <3>2 DEF Contexts
  <2>3. PICK r \in Contexts : r = proc'[p] /\ proc' = [proc EXCEPT ![p] = r]
    BY <2>2, OneAlone
  <2>4. Stands(p, r.pc) /\ (p = Main => InHand) /\ r.pc = "read" /\ r.fd = proc[p].fd
    BY <1>1, <1>2, <1>6, <2>2, <2>3 DEF Stands, InHand
  <2> QED BY <1>1, <1>2, <1>3, <1>4, <2>1, <2>3, <2>4, OneMoves DEF ToGive
<1> QED BY <1>5, <1>6

\* A signal, or a process that ends.
LEMMA Quiet ==
  ASSUME Inv, UNCHANGED <<kind, sock, backlog, files, proc, cell, buffer, count, pool, heard>>,
         cli' \in [Clients -> Members], \A d \in Clients : cli'[d].st = cli[d].st
  PROVE  Inv'
<1>1. TypeOK' /\ Shape' /\ Slots'
  BY DEF Inv, TypeOK, DataOK, Shape, Stands, Slots, InHand, Open, buffer, count
<1>2. Table'
  BY TableKept DEF Inv
<1>3. Hands'
  BY HandsKept DEF Inv, Waits
<1> QED BY <1>1, <1>2, <1>3 DEF Inv

LEMMA Signals ==
  ASSUME Inv, NEW p, NEW c, SigPipe(p, c) \/ Killed(p, c) \/ sigchld_handler
  PROVE  Inv'
<1>1. UNCHANGED <<kind, sock, backlog, files, proc, cell, buffer, count, pool, heard>> /\ cli' = cli
  BY DEF SigPipe, Killed, sigchld_handler, fixed, client
<1>2. cli' \in [Clients -> Members]
  BY <1>1 DEF Inv, TypeOK, DataOK
<1> QED BY <1>1, <1>2, Quiet

-----------------------------------------------------------------------------
(* Close(connfd) *)

\* What a process or thread closes that serves a client: the descriptor only.
LEMMA FilesClose ==
  ASSUME Inv, NEW q \in {Main} \cup Spawned, NEW fd, files' = [files EXCEPT ![q][fd] = None]
  PROVE  /\ files' \in [{Main} \cup Spawned -> [Fd -> Clients \cup {None}]]
         /\ \A p \in {Main} \cup Spawned : p # q => files'[p] = files[p]
         /\ \A f \in Fd : f # fd => files'[q][f] = files[q][f]
         /\ \A f \in Fd : files'[Main][f] \in {files[Main][f], None}
         /\ fd \in Fd => files'[q][fd] = None
BY DEF Inv, TypeOK

LEMMA MainFileCloses ==
  ASSUME Inv, NEW fd \in Fd, files' = [files EXCEPT ![Main][fd] = None]
  PROVE  /\ files' \in [{Main} \cup Spawned -> [Fd -> Clients \cup {None}]]
         /\ \A f \in Fd : f # fd => files'[Main][f] = files[Main][f]
         /\ \A f \in Fd : files'[Main][f] \in {files[Main][f], None}
BY DEF Inv, TypeOK

LEMMA ChildCloses ==
  ASSUME Inv, kind = "process", NEW p \in Spawned,
         files' = [files EXCEPT ![p][proc[p].fd] = None],
         proc' = [proc EXCEPT ![p] = Proc("none", None)],
         UNCHANGED <<kind, cli, sock, backlog, cell, pool, buffer, count, heard>>
  PROVE  Inv'
<1>1. /\ Main \in Procs /\ Clients \subseteq Procs /\ Spawned = Clients /\ Main \notin Clients
  BY MainRecord DEF Inv
<1>2. PICK r \in Contexts : r = Proc("none", None) /\ r.pc = "none"
  BY Contextual DEF Pcs
<1>3. /\ proc' \in [Procs -> Contexts] /\ proc'[p] = r
      /\ \A q \in Procs : q # p => proc'[q] = proc[q]
  BY <1>1, <1>2 DEF Inv, TypeOK
<1>4. PICK fd : fd = proc[p].fd
  OBVIOUS
<1>5. /\ files' \in [{Main} \cup Spawned -> [Fd -> Clients \cup {None}]]
      /\ \A d \in {Main} \cup Clients : d # p => files'[d] = files[d]
      /\ \A f \in Fd : files'[Main][f] \in {files[Main][f], None}
  BY <1>1, <1>4, FilesClose
<1>6. TypeOK' /\ Shape'
  <2>1. Stands(p, "none")
    BY <1>1 DEF Stands
  <2> QED BY <1>2, <1>3, <1>5, <2>1, ShapeMoves DEF Inv, TypeOK, DataOK, buffer, count
<1>7. Table'
  BY <1>5, TableKept DEF Inv
<1>8. Works'
  BY <1>1, <1>3, <1>5 DEF Inv, Hands, Works, InHand, Open
<1>9. Idle'
  <2>1. ASSUME NEW d \in Clients, Fresh(d)' PROVE Fresh(d)
    BY <1>1, <1>3, <1>5, <2>1 DEF Fresh, Waits
  <2> QED BY <1>1, <1>2, <1>3, <2>1 DEF Inv, Hands, Idle
<1>10. Children'
  BY <1>1, <1>2, <1>3, <1>5 DEF Inv, Hands, Children, Has
<1> QED BY <1>6, <1>7, <1>8, <1>9, <1>10 DEF Inv, Slots, Hands, Given, Detached

LEMMA ThreadCloses ==
  ASSUME Inv, kind = "thread", NEW p \in Spawned, proc[p].pc = "read",
         files' = [files EXCEPT ![Main][proc[p].fd] = None],
         proc' = [proc EXCEPT ![p] = Proc("none", None)],
         UNCHANGED <<kind, cli, sock, backlog, cell, pool, buffer, count, heard>>
  PROVE  Inv'
<1>1. /\ Main \in Procs /\ Clients \subseteq Procs /\ Spawned = Clients /\ Main \notin Clients
      /\ Stands(Main, proc[Main].pc)
  BY MainRecord DEF Inv
<1>2. PICK r \in Contexts : r = Proc("none", None) /\ r.pc = "none"
  BY Contextual DEF Pcs
<1>3. /\ proc' \in [Procs -> Contexts] /\ proc'[p] = r
      /\ \A q \in Procs : q # p => proc'[q] = proc[q]
  BY <1>1, <1>2 DEF Inv, TypeOK
<1>4. PICK fd \in Fd : fd = proc[p].fd /\ files[Main][fd] = p
  BY <1>1 DEF Inv, Hands, Detached, Has
<1>5. /\ files' \in [{Main} \cup Spawned -> [Fd -> Clients \cup {None}]]
      /\ \A f \in Fd : f # fd => files'[Main][f] = files[Main][f]
      /\ \A f \in Fd : files'[Main][f] \in {files[Main][f], None}
  <2>1. files' = [files EXCEPT ![Main][fd] = None] /\ Main \in {Main} \cup Spawned
    BY <1>4
  <2> QED BY <1>4, <2>1 DEF Inv, TypeOK
<1>6. TypeOK' /\ Shape'
  <2>1. Stands(p, "none")
    BY <1>1 DEF Stands
  <2> QED BY <1>2, <1>3, <1>5, <2>1, ShapeMoves DEF Inv, TypeOK, DataOK, buffer, count
<1>7. Table'
  BY <1>5, TableKept DEF Inv
<1>8. InHand => /\ proc[Main].pc = "thread" /\ proc[Main].fd \in Fd /\ proc[Main].fd # fd
                /\ files'[Main][proc[Main].fd] = files[Main][proc[Main].fd]
  <2> SUFFICES ASSUME InHand
               PROVE  proc[Main].pc = "thread" /\ proc[Main].fd \in Fd /\ proc[Main].fd # fd
    BY <1>5
  <2>1. proc[Main].pc = "thread" /\ proc[Main].fd \in Fd
    BY <1>1 DEF Stands, InHand, Inv, Hands, Works, Open
  <2>2. proc[Main].fd = fd => Fresh(p)
    BY <1>4, <2>1 DEF Fresh, ToGive
  <2>3. Fresh(p) => proc[p].pc = "none"
    BY <1>1 DEF Inv, Hands, Idle
  <2> QED BY <2>1, <2>2, <2>3
<1>9. Works' /\ Given'
  <2>1. InHand' => InHand /\ proc'[Main] = proc[Main]
    BY <1>1, <1>3 DEF InHand
  <2>2. Works'
    BY <1>8, <2>1 DEF Inv, Hands, Works, Open
  <2>3. Given'
    BY <1>8, <1>1, <1>3 DEF Inv, Hands, Given, InHand
  <2> QED BY <2>2, <2>3
<1>10. Idle'
  <2>1. ASSUME NEW d \in Clients, Fresh(d)' PROVE Fresh(d)
    BY <1>1, <1>3, <1>8, <2>1 DEF Fresh, Waits, InHand, ToGive
  <2> QED BY <1>1, <1>2, <1>3, <2>1 DEF Inv, Hands, Idle
<1>11. Detached'
  <2> SUFFICES ASSUME NEW d \in Clients
               PROVE  /\ proc'[d].pc = "start" => Has(d, Main, cell[d])'
                      /\ proc'[d].pc \in {"read", "write"} => Has(d, Main, proc[d].fd)'
    BY DEF Detached
  <2>1. CASE d = p
    BY <1>2, <1>3, <2>1
  <2>2. CASE d # p
    <3>1. /\ proc[d].pc = "start" => Has(d, Main, cell[d])
          /\ proc[d].pc \in {"read", "write"} => Has(d, Main, proc[d].fd)
          /\ proc'[d] = proc[d]
      BY <1>1, <1>3, <2>2 DEF Inv, Hands, Detached
    <3> QED BY <1>4, <1>5, <2>2, <3>1 DEF Has
  <2> QED BY <2>1, <2>2
<1>12. Children'
  BY DEF Children
<1> QED BY <1>6, <1>7, <1>9, <1>10, <1>11, <1>12 DEF Inv, Slots, Hands

LEMMA WorkerCloses ==
  ASSUME Inv, NEW p \in Threads, proc[p].pc = "read",
         files' = [files EXCEPT ![Main][proc[p].fd] = None],
         proc' = [proc EXCEPT ![p] = Proc("remove", None)],
         UNCHANGED <<kind, cli, sock, backlog, cell, pool, buffer, count, heard>>
  PROVE  Inv'
<1>1. p \in Procs /\ p # Main /\ p \notin Spawned /\ kind = "prethreaded"
  BY Worker
<1>2. PICK r \in Contexts : r = Proc("remove", None) /\ r.pc = "remove"
  BY Contextual DEF Pcs
<1>3. /\ proc' \in [Procs -> Contexts] /\ proc'[p] = r
      /\ \A q \in Procs : q # p => proc'[q] = proc[q]
  BY <1>1, <1>2 DEF Inv, TypeOK
<1>4. PICK fd : fd = proc[p].fd
  OBVIOUS
<1>5. /\ files' \in [{Main} \cup Spawned -> [Fd -> Clients \cup {None}]]
      /\ \A f \in Fd : files'[Main][f] \in {files[Main][f], None}
  BY <1>4, FilesClose
<1>6. TypeOK' /\ Shape'
  <2>1. Stands(p, "remove")
    BY <1>1 DEF Stands
  <2> QED BY <1>2, <1>3, <1>5, <2>1, ShapeMoves DEF Inv, TypeOK, DataOK, buffer, count
<1>7. Table'
  BY <1>5, TableKept DEF Inv
<1>8. Idle'
  <2>1. ASSUME NEW d \in Clients PROVE proc'[d].pc = "none"
    <3>1. d \in Procs /\ d # p /\ d # Main /\ d \notin Threads
      BY <1>1, MainRecord DEF Inv
    <3>2. Stands(d, proc[d].pc)
      BY <3>1 DEF Inv, Shape
    <3> QED BY <1>1, <1>3, <3>1, <3>2 DEF Stands
  <2> QED BY <2>1 DEF Idle
<1> QED BY <1>1, <1>6, <1>7, <1>8 DEF Inv, Slots, Hands, Works, Children, Given, Detached

LEMMA PoolCloses ==
  ASSUME Inv, kind = "select", proc[Main].pc = "read",
         files' = [files EXCEPT ![Main][proc[Main].fd] = None],
         proc' = [proc EXCEPT ![Main] = Proc("check", None)],
         LET i == pool.i
         IN pool' = [pool EXCEPT !.read_set = @ \ {proc[Main].fd}, !.clientfd[i] = None, !.i = @ + 1],
         UNCHANGED <<kind, cli, sock, backlog, cell, buffer, count, heard>>
  PROVE  Inv'
<1>1. /\ Main \in Procs /\ Clients \subseteq Procs /\ Spawned = Clients /\ Main \notin Clients
  BY MainRecord DEF Inv
<1>2. PICK r \in Contexts : r = Proc("check", None) /\ r.pc = "check"
  BY Contextual DEF Pcs
<1>3. /\ proc' \in [Procs -> Contexts] /\ proc'[Main] = r
      /\ \A q \in Procs : q # Main => proc'[q] = proc[q]
  BY <1>1, <1>2 DEF Inv, TypeOK
<1>4. PICK fd \in Fd : fd = proc[Main].fd
  BY DEF Inv, Hands, Works, InHand, Open
<1>5. /\ files' \in [{Main} \cup Spawned -> [Fd -> Clients \cup {None}]]
      /\ \A f \in Fd : f # fd => files'[Main][f] = files[Main][f]
      /\ \A f \in Fd : files'[Main][f] \in {files[Main][f], None}
  <2>1. files' = [files EXCEPT ![Main][fd] = None]
    BY <1>4
  <2> QED BY <2>1, MainFileCloses
<1>6. PICK i \in SlotNumbers : i = pool.i /\ pool.clientfd[i] = fd
  BY <1>4 DEF Inv, Slots, InHand
<1>7. /\ pool' \in Pools /\ pool'.clientfd[i] = None
      /\ \A j \in SlotNumbers : j # i => pool'.clientfd[j] = pool.clientfd[j]
  <2>1. pool \in Pools /\ i \in Int /\ pool.i + 1 \in Nat
    BY ServersAssumption DEF Inv, TypeOK, Pools, SlotNumbers
  <2>2. pool' = [pool EXCEPT !.read_set = @ \ {fd}, !.clientfd[i] = None, !.i = @ + 1]
    BY <1>4, <1>6
  <2>3. PICK c \in [SlotNumbers -> Fd \cup {None}] : c = [pool.clientfd EXCEPT ![i] = None]
    BY <2>1 DEF Pools
  <2>4. pool' = [pool EXCEPT !.read_set = @ \ {fd}, !.clientfd = c, !.i = @ + 1]
    BY <2>2, <2>3
  <2>5. pool.read_set \ {fd} \in SUBSET Fd
    BY <2>1 DEF Pools
  <2>6. pool' \in Pools /\ pool'.clientfd = c
    BY <2>1, <2>4, <2>5 DEF Pools
  <2> QED BY <2>1, <2>3, <2>6 DEF Pools
<1>8. TypeOK' /\ Shape'
  <2>1. Stands(Main, "check")
    BY DEF Stands
  <2> QED BY <1>2, <1>3, <1>5, <1>7, <2>1, ShapeMoves DEF Inv, TypeOK, DataOK, buffer, count
<1>9. Table'
  BY <1>5, TableKept DEF Inv
<1>10. Slots'
  <2>1. \A j \in SlotNumbers : pool'.clientfd[j] # None =>
          j # i /\ pool.clientfd[j] # None /\ pool'.clientfd[j] = pool.clientfd[j]
    BY <1>7
  <2>2. \A j \in SlotNumbers : pool'.clientfd[j] # None => Open(pool.clientfd[j])'
    <3> SUFFICES ASSUME NEW j \in SlotNumbers, pool'.clientfd[j] # None PROVE Open(pool.clientfd[j])'
      OBVIOUS
    <3>1. Open(pool.clientfd[j]) /\ pool.clientfd[j] # pool.clientfd[i]
      BY <2>1 DEF Inv, Slots
    <3> QED BY <1>5, <1>6, <2>1, <3>1 DEF Open
  <2>3. \A j, k \in SlotNumbers :
          pool'.clientfd[j] = pool'.clientfd[k] /\ pool'.clientfd[j] # None => j = k
    BY <2>1 DEF Inv, Slots
  <2> QED BY <1>2, <1>3, <2>2, <2>3 DEF Slots, InHand
<1>11. Works'
  BY <1>2, <1>3 DEF Works, InHand
<1>12. Idle'
  <2>1. ASSUME NEW d \in Clients PROVE proc'[d].pc = "none"
    <3>1. d \in Procs /\ d # Main /\ d \notin Threads
      BY <1>1, MainRecord DEF Inv
    <3>2. Stands(d, proc[d].pc)
      BY <3>1 DEF Inv, Shape
    <3> QED BY <1>3, <3>1, <3>2 DEF Stands
  <2> QED BY <2>1 DEF Idle
<1> QED BY <1>8, <1>9, <1>10, <1>11, <1>12 DEF Inv, Hands, Children, Given, Detached

LEMMA Closes ==
  ASSUME Inv, NEW p \in Procs, NEW c \in Clients, Close(p, c) PROVE Inv'
<1>1. /\ proc[p].pc = "read" /\ files' = [files EXCEPT ![Process(p)][proc[p].fd] = None]
      /\ UNCHANGED <<kind, cli, sock, backlog, cell, buffer, count, heard>>
  BY DEF Close, At, fixed, client
<1>2. \/ kind = "iterative" /\ p = Main
      \/ kind = "process" /\ p \in Spawned
      \/ kind = "thread" /\ p \in Spawned
      \/ kind = "prethreaded" /\ p \in Threads
      \/ kind = "select" /\ p = Main
  <2>1. Stands(p, "read")
    BY <1>1, Record DEF Inv
  <2> QED BY <2>1 DEF Stands
<1>3. kind # "select" => pool' = pool
  BY DEF Close
<1>4. CASE kind = "iterative" /\ p = Main
  <2>1. proc' = [proc EXCEPT ![Main] = Proc("accept", None)] /\ Process(p) = Main /\ InHand
    BY <1>1, <1>4 DEF Close, Process, InHand
  <2> QED BY <1>1, <1>3, <1>4, <2>1, MainCloses DEF buffer, count
<1>5. CASE kind = "process" /\ p \in Spawned
  <2>1. proc' = [proc EXCEPT ![p] = Proc("none", None)] /\ Process(p) = p
    BY <1>5 DEF Close, Process
  <2> QED BY <1>1, <1>3, <1>5, <2>1, ChildCloses
<1>6. CASE kind = "thread" /\ p \in Spawned
  <2>1. proc' = [proc EXCEPT ![p] = Proc("none", None)] /\ Process(p) = Main
    BY <1>6 DEF Close, Process
  <2> QED BY <1>1, <1>3, <1>6, <2>1, ThreadCloses
<1>7. CASE kind = "prethreaded" /\ p \in Threads
  <2>1. proc' = [proc EXCEPT ![p] = Proc("remove", None)] /\ Process(p) = Main
    BY <1>7 DEF Close, Process
  <2> QED BY <1>1, <1>3, <1>7, <2>1, WorkerCloses
<1>8. CASE kind = "select" /\ p = Main
  <2>1. /\ proc' = [proc EXCEPT ![Main] = Proc("check", None)] /\ Process(p) = Main
        /\ LET i == pool.i
           IN pool' = [pool EXCEPT !.read_set = @ \ {proc[Main].fd}, !.clientfd[i] = None, !.i = @ + 1]
    BY <1>8 DEF Close, Process
  <2> QED BY <1>1, <1>8, <2>1, PoolCloses
<1> QED BY <1>2, <1>4, <1>5, <1>6, <1>7, <1>8

-----------------------------------------------------------------------------
(* echoservers *)

LEMMA Selects ==
  ASSUME Inv, Select PROVE Inv'
<1> DEFINE ready == {f \in pool.read_set : Readable(files[Main][f])}
           new == IF backlog = <<>> THEN 0 ELSE 1
           s == [pool EXCEPT !.ready_set = ready, !.nready = Cardinality(ready) + new, !.i = 0]
<1>1. /\ proc[Main].pc = "accept" /\ kind = "select"
      /\ IF new = 1
         THEN backlog' = Tail(backlog) /\ files' = Accepted /\ pool' = add_client(Connfd, s)
         ELSE pool' = s /\ UNCHANGED <<backlog, files>>
      /\ proc' = [proc EXCEPT ![Main].pc = "check"]
      /\ UNCHANGED <<kind, cli, sock, cell, buffer, count, heard>>
  BY DEF Select, At, Goto, fixed, client
<1>2. /\ Main \in Procs /\ proc[Main] \in Contexts /\ Clients \subseteq Procs /\ Spawned = Clients
      /\ Main \notin Clients
  BY MainRecord DEF Inv
<1>3. PICK q \in Pools : q = s /\ q.clientfd = pool.clientfd
  <2>1. pool \in Pools /\ ready \in SUBSET Fd
    BY DEF Inv, TypeOK, Pools
  <2>2. Cardinality(ready) \in Nat
    BY <2>1, FdFinite, FS_Subset, FS_CardinalityType
  <2> HIDE DEF ready
  <2>3. PICK n \in Int : n = Cardinality(ready) + new
    <3>1. new \in {0, 1}
      OBVIOUS
    <3> HIDE DEF new
    <3> QED BY <2>2, <3>1
  <2>4. s = [pool EXCEPT !.ready_set = ready, !.nready = n, !.i = 0]
    BY <2>3
  <2> HIDE DEF s
  <2>5. s \in Pools
    BY <2>1, <2>4 DEF Pools
  <2>6. s.clientfd = pool.clientfd
    BY <2>1, <2>4 DEF Pools
  <2> QED BY <2>5, <2>6
<1> HIDE DEF s
<1>4. PICK r \in Contexts : r = [proc[Main] EXCEPT !.pc = "check"] /\ r.pc = "check"
  <2>1. "check" \in Pcs
    BY DEF Pcs
  <2> QED BY <1>2, <2>1, Fields
<1>5. proc' = [proc EXCEPT ![Main] = r]
  BY <1>1, <1>2, <1>4 DEF Inv, TypeOK
<1>6. /\ proc' \in [Procs -> Contexts] /\ proc'[Main] = r
      /\ \A p \in Procs : p # Main => proc'[p] = proc[p]
  BY <1>2, <1>5 DEF Inv, TypeOK
<1>7. Shape'
  <2>1. Stands(Main, "check")
    BY <1>1 DEF Stands
  <2> QED BY <1>1, <1>4, <1>6, <2>1, ShapeMoves DEF Inv
<1>8. Works' /\ Idle' /\ Children' /\ Given' /\ Detached'
  <2>1. ASSUME NEW d \in Clients PROVE proc'[d].pc = "none"
    <3>1. d \in Procs /\ d # Main /\ d \notin Threads
      BY <1>2, MainRecord DEF Inv
    <3>2. Stands(d, proc[d].pc)
      BY <3>1 DEF Inv, Shape
    <3> QED BY <1>1, <1>6, <3>1, <3>2 DEF Stands
  <2> QED BY <1>1, <1>4, <1>6, <2>1 DEF Works, InHand, Idle, Children, Given, Detached
<1>9. CASE new # 1
  <2>1. pool' = q /\ UNCHANGED <<backlog, files>>
    BY <1>1, <1>3, <1>9
  <2>2. TypeOK'
    BY <1>1, <1>6, <2>1 DEF Inv, TypeOK, DataOK, buffer, count
  <2>3. Table'
    BY <1>1, <2>1, TableKept DEF Inv
  <2>4. Slots'
    <3>1. pool'.clientfd = pool.clientfd /\ ~InHand' /\ files' = files
      BY <1>3, <1>4, <1>6, <2>1 DEF InHand
    <3>2. \A fd : Open(fd)' <=> Open(fd)
      BY <3>1 DEF Open
    <3> QED BY <1>1, <3>1, <3>2 DEF Inv, Slots
  <2> QED BY <1>7, <1>8, <2>2, <2>3, <2>4 DEF Inv, Hands
<1>10. CASE new = 1
  <2>1. /\ backlog # <<>> /\ backlog' = Tail(backlog) /\ files' = Accepted
        /\ pool' = add_client(Connfd, q)
    BY <1>1, <1>3, <1>10
  <2>2. PICK d : d = Connfd
    OBVIOUS
  <2>3. /\ Table' /\ backlog' \in Seq(Clients) /\ Head(backlog) \in Clients
        /\ files' \in [{Main} \cup Spawned -> [Fd -> Clients \cup {None}]]
        /\ d \in Fd /\ files[Main][d] = None /\ files'[Main][d] = Head(backlog)
        /\ \A f \in Fd : f # d => files'[Main][f] = files[Main][f]
    BY <1>1, <2>1, <2>2, TableAccepts DEF Inv
  <2>4. PICK i \in SlotNumbers : /\ pool.clientfd[i] = None
                                 /\ i = Min({j \in SlotNumbers : pool.clientfd[j] = None})
    BY <1>1, <2>1, SlotLeft DEF Inv
  <2>5. DOMAIN q.clientfd = SlotNumbers
    BY DEF Pools
  <2>6. pool' = [q EXCEPT !.nready = @ - 1, !.clientfd[i] = d, !.read_set = @ \cup {d},
                          !.maxi = IF i > @ THEN i ELSE @]
    BY <1>3, <2>1, <2>2, <2>4, <2>5 DEF add_client
  <2>7. /\ pool' \in Pools /\ pool'.clientfd[i] = d
        /\ \A j \in SlotNumbers : j # i => pool'.clientfd[j] = pool.clientfd[j]
    <3>1. PICK c \in [SlotNumbers -> Fd \cup {None}] : c = [q.clientfd EXCEPT ![i] = d]
      BY <2>3 DEF Pools
    <3>2. PICK m \in -1..FD_SETSIZE-1 : m = IF i > q.maxi THEN i ELSE q.maxi
      <4>1. q.maxi \in -1..FD_SETSIZE-1 /\ i \in -1..FD_SETSIZE-1
        BY ServersAssumption DEF Pools, SlotNumbers
      <4> QED BY <4>1
    <3>3. PICK n \in Int : n = q.nready - 1
      BY DEF Pools
    <3>4. PICK z \in SUBSET Fd : z = q.read_set \cup {d}
      BY <2>3 DEF Pools
    <3>5. pool' = [q EXCEPT !.nready = n, !.clientfd = c, !.read_set = z, !.maxi = m]
      BY <2>6, <3>1, <3>2, <3>3, <3>4
    <3>6. pool' \in Pools
      BY <3>5 DEF Pools
    <3>7. pool'.clientfd = c
      BY <3>5 DEF Pools
    <3> QED BY <1>3, <2>3, <3>1, <3>6, <3>7 DEF Pools
  <2>8. TypeOK'
    BY <1>1, <1>6, <2>3, <2>7 DEF Inv, TypeOK, DataOK, buffer, count
  <2>9. Slots'
    <3>1. \A j \in SlotNumbers : j # i /\ pool.clientfd[j] # None =>
            Open(pool.clientfd[j]) /\ pool.clientfd[j] # d
      BY <1>1, <2>3 DEF Inv, Slots, Open
    <3>2. \A j \in SlotNumbers : pool'.clientfd[j] # None => Open(pool.clientfd[j])'
      BY <2>3, <2>7, <3>1, ServersAssumption DEF Open
    <3>3. \A j, k \in SlotNumbers :
            pool'.clientfd[j] = pool'.clientfd[k] /\ pool'.clientfd[j] # None => j = k
      BY <1>1, <2>7, <3>1 DEF Inv, Slots
    <3> QED BY <1>4, <1>6, <3>2, <3>3 DEF Slots, InHand
  <2> QED BY <1>7, <1>8, <2>3, <2>8, <2>9 DEF Inv, Hands
<1> QED BY <1>9, <1>10

LEMMA Checks ==
  ASSUME Inv, check_clients PROVE Inv'
<1> DEFINE next == {j \in pool.i..pool.maxi : pool.clientfd[j] \in pool.ready_set}
<1>1. /\ proc[Main].pc = "check"
      /\ IF next = {} \/ pool.nready = 0
         THEN proc' = [proc EXCEPT ![Main].pc = "accept"] /\ UNCHANGED pool
         ELSE /\ pool' = [pool EXCEPT !.i = Min(next), !.nready = @ - 1]
              /\ proc' = [proc EXCEPT ![Main] = Proc("read", pool.clientfd[Min(next)])]
      /\ UNCHANGED <<kind, cli, sock, backlog, files, cell, sbuf, taken, once, mutex, byte_cnt, heard>>
  BY DEF check_clients, At, Goto, fixed, client, buffer, count
<1>2. /\ Main \in Procs /\ proc[Main] \in Contexts /\ Clients \subseteq Procs /\ Spawned = Clients
      /\ Main \notin Clients /\ Stands(Main, proc[Main].pc)
  BY MainRecord DEF Inv
<1>3. kind = "select"
  BY <1>1, <1>2 DEF Stands
<1>4. DataOK'
  BY <1>1 DEF Inv, TypeOK, DataOK
<1>5. CASE proc' = [proc EXCEPT ![Main].pc = "accept"] /\ UNCHANGED pool
  <2>1. PICK r \in Contexts : r = [proc[Main] EXCEPT !.pc = "accept"] /\ r.pc = "accept"
    <3>1. "accept" \in Pcs
      BY DEF Pcs
    <3> QED BY <1>2, <3>1, Fields
  <2>2. proc' = [proc EXCEPT ![Main] = r] /\ Stands(Main, r.pc)
    BY <1>2, <1>5, <2>1 DEF Inv, TypeOK, Stands
  <2> QED BY <1>1, <1>2, <1>4, <1>5, <2>1, <2>2, OneMoves
<1>6. CASE /\ next # {}
           /\ pool' = [pool EXCEPT !.i = Min(next), !.nready = @ - 1]
           /\ proc' = [proc EXCEPT ![Main] = Proc("read", pool.clientfd[Min(next)])]
  <2>1. pool \in Pools /\ pool.i \in Nat /\ pool.maxi \in -1..FD_SETSIZE-1
    BY DEF Inv, TypeOK, Pools
  <2>2. next \in SUBSET Nat
    BY <2>1, ServersAssumption
  <2>3. PICK j \in next : j = Min(next)
    <3> HIDE DEF next
    <3> QED BY <1>6, <2>2, MinNat
  <2>4. j \in Nat /\ j \in SlotNumbers
    BY <2>1, <2>2, ServersAssumption DEF SlotNumbers
  <2>5. PICK fd \in Fd : fd = pool.clientfd[j]
    BY <2>1 DEF Pools
  <2> HIDE DEF next
  <2>6. Open(fd)
    BY <1>3, <2>4, <2>5, ServersAssumption DEF Inv, Slots
  <2>7. PICK r \in Contexts : r = Proc("read", fd) /\ r.pc = "read" /\ r.fd = fd
    BY Contextual DEF Pcs
  <2>8. /\ proc' \in [Procs -> Contexts] /\ proc'[Main] = r
        /\ \A q \in Procs : q # Main => proc'[q] = proc[q]
    BY <1>2, <1>6, <2>3, <2>5, <2>7 DEF Inv, TypeOK
  <2>9. pool' \in Pools /\ pool'.clientfd = pool.clientfd /\ pool'.i = j
    <3>1. PICK n \in Int : n = pool.nready - 1
      BY <2>1 DEF Pools
    <3>2. pool' = [pool EXCEPT !.i = j, !.nready = n]
      BY <1>6, <2>3, <3>1
    <3>3. pool' \in Pools
      BY <2>1, <2>4, <3>2 DEF Pools
    <3> QED BY <2>1, <3>2, <3>3 DEF Pools
  <2>10. Shape'
    <3>1. Stands(Main, "read")
      BY <1>3 DEF Stands
    <3> QED BY <1>1, <2>7, <2>8, <3>1, ShapeMoves DEF Inv
  <2>11. TypeOK'
    BY <1>1, <1>4, <2>8, <2>9 DEF Inv, TypeOK
  <2>12. Table'
    BY <1>1, TableKept DEF Inv
  <2>13. Slots'
    <3>1. \A f : Open(f)' <=> Open(f)
      BY <1>1 DEF Open
    <3> QED BY <1>3, <2>4, <2>5, <2>7, <2>8, <2>9, <3>1 DEF Inv, Slots
  <2>14. Works'
    BY <1>1, <2>6, <2>7, <2>8 DEF Works, Open
  <2>15. Idle'
    <3>1. ASSUME NEW d \in Clients PROVE proc'[d].pc = "none"
      <4>1. d \in Procs /\ d # Main /\ d \notin Threads
        BY <1>2, MainRecord DEF Inv
      <4>2. Stands(d, proc[d].pc)
        BY <4>1 DEF Inv, Shape
      <4> QED BY <1>3, <2>8, <4>1, <4>2 DEF Stands
    <3> QED BY <3>1 DEF Idle
  <2> QED BY <1>1, <1>3, <2>10, <2>11, <2>12, <2>13, <2>14, <2>15
          DEF Inv, Hands, Children, Given, Detached
<1> HIDE DEF next
<1> QED BY <1>1, <1>5, <1>6

-----------------------------------------------------------------------------
(* tiny *)

LEMMA Takes ==
  ASSUME Inv, NEW p \in Procs, NEW n \in Nat, n <= Len(proc[p].rio)
  PROVE  /\ Took(p, n) \in Contexts /\ Took(p, n).pc = proc[p].pc /\ Took(p, n).fd = proc[p].fd
         /\ Took(p, n).line = proc[p].line
         /\ Took(p, n).rio = SubSeq(proc[p].rio, n + 1, Len(proc[p].rio))
<1>1. proc[p] \in Contexts /\ proc[p].rio \in Seq(Piece)
  BY Record DEF Inv
<1>2. ASSUME NEW s \in Seq(Piece), n <= Len(s) PROVE SubSeq(s, n + 1, Len(s)) \in Seq(Piece)
  BY <1>2
<1>3. PICK x \in Seq(Piece) : x = SubSeq(proc[p].rio, n + 1, Len(proc[p].rio))
  BY <1>1, <1>2
<1>4. Took(p, n) = [proc[p] EXCEPT !.rio = x]
  BY <1>3 DEF Took
<1>5. PICK k \in Contexts : k = proc[p]
  BY <1>1
<1>6. PICK r \in Contexts : /\ r = [k EXCEPT !.rio = x] /\ r.pc = k.pc
                            /\ r.fd = k.fd /\ r.rio = x /\ r.line = k.line
  BY Refilled
<1>7. Took(p, n) = r
  BY <1>4, <1>5, <1>6
<1> QED BY <1>3, <1>5, <1>6, <1>7

LEMMA Responds ==
  ASSUME NEW k \in Contexts, NEW parts \in Seq(Part)
  PROVE  /\ Respond(k, parts) \in Contexts /\ Respond(k, parts).pc = "reply"
         /\ Respond(k, parts).fd = k.fd /\ Respond(k, parts).line = parts
         /\ Respond(k, parts).rio = k.rio
<1>1. "reply" \in Pcs
  BY DEF Pcs
<1>2. Respond(k, parts) \in Contexts
  BY <1>1 DEF Respond, Contexts
<1> QED BY <1>2 DEF Respond, Contexts

LEMMA Replies ==
  ASSUME NEW q
  PROVE  /\ clienterror("501") \in Seq(Part) /\ clienterror("501") # <<>>
         /\ Reply(q) \in Seq(Part) /\ Reply(q) # <<>>
<1>1. ASSUME NEW e \in Words PROVE clienterror(e) \in Seq(Part) /\ clienterror(e) # <<>>
  BY DEF clienterror, Words, Part
<1>2. ASSUME NEW n PROVE serve_static(n) \in Seq(Part) /\ serve_static(n) # <<>>
  <2>1. <<"200">> \in Seq(Part) /\ <<"200", "content">> \in Seq(Part)
    BY DEF Words, Part
  <2>2. <<"200">> # <<>> /\ <<"200", "content">> # <<>>
    OBVIOUS
  <2>3. serve_static(n) = <<"200">> \/ serve_static(n) = <<"200", "content">>
    BY Zenon DEF serve_static
  <2> QED BY <2>1, <2>2, <2>3, Zenon
<1>3. serve_dynamic \in Seq(Part) /\ serve_dynamic # <<>>
  BY DEF serve_dynamic, Words, Part
<1>4. clienterror("501") \in Seq(Part) /\ clienterror("501") # <<>>
  BY <1>1 DEF Words
<1>5. Reply(q) \in {clienterror("501"), clienterror("404"), clienterror("403"),
                    serve_static(stat(parse_uri(q.uri).filename).size), serve_dynamic}
  BY DEF Reply
<1>6. "404" \in Words /\ "403" \in Words
  BY DEF Words
<1> QED BY <1>1, <1>2, <1>3, <1>4, <1>5, <1>6

\* A step of main in doit that leaves its connection to it.
LEMMA Does ==
  ASSUME Inv, kind = "tiny", NEW r \in Contexts, proc' = [proc EXCEPT ![Main] = r],
         proc[Main].pc \notin {"accept", "check"}, r.pc \notin {"accept", "check"},
         Stands(Main, r.pc), r.pc = "reply" => r.line # <<>>,
         r.fd = proc[Main].fd, r.pc \in ToGive => proc[Main].pc \in ToGive,
         UNCHANGED <<kind, sock, files, backlog, cell, pool, sbuf, taken, once, mutex, byte_cnt, heard>>,
         cli' \in [Clients -> Members], \A d \in Clients : cli'[d].st = cli[d].st
  PROVE  Inv'
<1>1. DataOK'
  BY DEF Inv, TypeOK, DataOK
<1>2. Main \in Procs /\ Main \notin Spawned
  BY MainRecord DEF Inv
<1> QED BY <1>1, <1>2, OneMoves DEF InHand

LEMMA Requests ==
  ASSUME Inv, NEW p \in Procs, NEW c \in Clients,
         RequestLine(p, c) \/ NoRequest(p, c) \/ read_requesthdrs(p, c)
  PROVE  Inv'
<1>1. /\ proc[p].pc \in {"request", "headers"} /\ cli' = cli
      /\ UNCHANGED <<kind, sock, files, backlog, cell, pool, sbuf, taken, once, mutex, byte_cnt, heard>>
  BY DEF RequestLine, NoRequest, read_requesthdrs, At, fixed, client, buffer, count
<1>2. Stands(p, proc[p].pc) /\ proc[p] \in Contexts
  BY Record DEF Inv
<1>3. kind = "tiny" /\ p = Main
  BY <1>1, <1>2 DEF Stands
<1>4. cli' \in [Clients -> Members] /\ \A d \in Clients : cli'[d].st = cli[d].st
  BY <1>1 DEF Inv, TypeOK, DataOK
<1>5. /\ Stands(Main, "headers") /\ Stands(Main, "reply") /\ Stands(Main, "finish")
      /\ "headers" \in Pcs /\ "finish" \in Pcs
  BY <1>3 DEF Stands, Pcs
<1>6. PICK n \in Nat : n = Readline(p, c) /\ n <= Len(proc[p].rio)
  BY ReadlineBounds DEF Inv
<1>7. PICK k \in Contexts : k = Took(p, n) /\ k.pc = proc[p].pc /\ k.fd = proc[p].fd
  BY <1>6, Takes
<1>8. ASSUME NEW parts \in Seq(Part), parts # <<>>, proc' = [proc EXCEPT ![p] = Respond(k, parts)]
      PROVE  Inv'
  <2>1. PICK r \in Contexts : r = Respond(k, parts) /\ r.pc = "reply" /\ r.fd = k.fd /\ r.line = parts
    BY Responds
  <2> QED BY <1>1, <1>3, <1>4, <1>5, <1>7, <1>8, <2>1, Does DEF ToGive
<1>9. CASE proc' = [proc EXCEPT ![p] = Respond(k, clienterror("501"))]
  BY <1>8, <1>9, Replies
<1>10. CASE proc' = [proc EXCEPT ![p] = [k EXCEPT !.pc = "headers"]]
  <2>1. PICK r \in Contexts : r = [k EXCEPT !.pc = "headers"] /\ r.pc = "headers" /\ r.fd = k.fd
    BY <1>5, Fields
  <2> QED BY <1>1, <1>3, <1>4, <1>5, <1>7, <1>10, <2>1, Does DEF ToGive
<1>11. CASE RequestLine(p, c)
  BY <1>6, <1>7, <1>9, <1>10, <1>11 DEF RequestLine
<1>12. CASE NoRequest(p, c)
  <2>1. proc' = [proc EXCEPT ![p].pc = "finish"]
    BY <1>12 DEF NoRequest, Goto
  <2>2. PICK r \in Contexts : r = [proc[p] EXCEPT !.pc = "finish"] /\ r.pc = "finish" /\ r.fd = proc[p].fd
    BY <1>2, <1>5, Fields
  <2>3. proc' = [proc EXCEPT ![p] = r]
    BY <2>1, <2>2 DEF Inv, TypeOK
  <2> QED BY <1>1, <1>3, <1>4, <1>5, <2>2, <2>3, Does DEF ToGive
<1>13. CASE read_requesthdrs(p, c)
  <2>1. \/ proc' = [proc EXCEPT ![p] = Respond(k, Reply(asks[c]))]
        \/ proc' = [proc EXCEPT ![p] = k] /\ proc[p].pc = "headers"
    BY <1>6, <1>7, <1>13 DEF read_requesthdrs, At
  <2>2. CASE proc' = [proc EXCEPT ![p] = Respond(k, Reply(asks[c]))]
    BY <1>8, <2>2, Replies
  <2>3. CASE proc' = [proc EXCEPT ![p] = k] /\ proc[p].pc = "headers"
    BY <1>1, <1>3, <1>4, <1>5, <1>7, <2>3, Does DEF ToGive
  <2> QED BY <2>1, <2>2, <2>3
<1> QED BY <1>11, <1>12, <1>13

LEMMA AfterReplies ==
  ASSUME NEW p, NEW c
  PROVE  AfterReply(p, c) \in {"reply", "mmap", "fork", "finish"}
         /\ (AfterReply(p, c) = "reply" => Len(proc[p].line) > 1)
BY DEF AfterReply

LEMMA RepliesWritten ==
  ASSUME Inv, NEW p \in Procs, NEW c \in Clients, WriteReply(p, c) PROVE Inv'
<1>1. /\ proc[p].pc = "reply"
      /\ cli' = (IF cli[c].st = "left" THEN cli ELSE [cli EXCEPT ![c].got = Append(@, Head(proc[p].line))])
      /\ proc' = [proc EXCEPT ![p].pc = AfterReply(p, c), ![p].line = Tail(@)]
      /\ UNCHANGED <<kind, sock, files, backlog, cell, pool, sbuf, taken, once, mutex, byte_cnt, heard>>
  BY DEF WriteReply, At, fixed, buffer, count
<1>2. /\ Stands(p, proc[p].pc) /\ proc[p] \in Contexts /\ proc[p].line \in Seq(Part)
      /\ proc[p].line # <<>>
  BY <1>1, Record DEF Inv, Shape
<1>3. kind = "tiny" /\ p = Main
  BY <1>1, <1>2 DEF Stands
<1>4. cli' \in [Clients -> Members] /\ \A d \in Clients : cli'[d].st = cli[d].st
  <2>1. ASSUME NEW s \in Seq(Part), NEW t \in Seq(Part), t # <<>> PROVE Append(s, Head(t)) \in Seq(Part)
    BY <2>1
  <2>2. PICK g \in Seq(Part) : g = Append(cli[c].got, Head(proc[p].line))
    BY <1>2, <2>1 DEF Inv, TypeOK, DataOK, Members
  <2>3. cli' = (IF cli[c].st = "left" THEN cli ELSE [cli EXCEPT ![c].got = g])
    BY <1>1, <2>2
  <2> QED BY <2>3, Delivered DEF Inv
<1>5. PICK a \in Pcs : /\ a = AfterReply(p, c) /\ Stands(Main, a) /\ a \notin {"accept", "check"}
                       /\ a = "reply" => Len(proc[p].line) > 1
  BY <1>3, AfterReplies DEF Pcs, Stands
<1>6. PICK t \in Seq(Part) : t = Tail(proc[p].line) /\ (Len(proc[p].line) > 1 => t # <<>>)
  <2>1. ASSUME NEW s \in Seq(Part), s # <<>>
        PROVE  Tail(s) \in Seq(Part) /\ (Len(s) > 1 => Tail(s) # <<>>)
    <3>1. Tail(s) \in Seq(Part) /\ Len(Tail(s)) = Len(s) - 1 /\ Len(s) \in Nat
      BY <2>1
    <3>2. \A t \in Seq(Part) : Len(t) > 0 => t # <<>>
      OBVIOUS
    <3> QED BY <3>1, <3>2
  <2> QED BY <1>2, <2>1
<1>7. /\ proc' \in [Procs -> Contexts] /\ \A q \in Procs : q # p => proc'[q] = proc[q]
      /\ proc'[p].pc = a /\ proc'[p].fd = proc[p].fd /\ proc'[p].line = t
  <2>1. proc' = [proc EXCEPT ![p].pc = a, ![p].line = t] /\ proc \in [Procs -> Contexts]
    BY <1>1, <1>5, <1>6 DEF Inv, TypeOK
  <2>2. proc' \in [Procs -> Contexts]
    BY <2>1 DEF Contexts
  <2> QED BY <2>1, <2>2 DEF Contexts
<1>8. PICK r \in Contexts : r = proc'[p] /\ proc' = [proc EXCEPT ![p] = r]
  BY <1>7, OneAlone
<1>9. /\ r.pc = a /\ r.fd = proc[Main].fd /\ (r.pc = "reply" => r.line # <<>>)
      /\ proc[Main].pc \in ToGive /\ proc[Main].pc \notin {"accept", "check"}
  BY <1>1, <1>3, <1>5, <1>6, <1>7, <1>8 DEF ToGive
<1>10. r.pc \notin {"accept", "check"} /\ Stands(Main, r.pc)
  BY <1>5, <1>9
<1>11. proc' = [proc EXCEPT ![Main] = r]
  BY <1>3, <1>8
<1> QED BY <1>1, <1>3, <1>4, <1>9, <1>10, <1>11, Does

LEMMA ForksCGI ==
  ASSUME Inv, NEW p \in Procs, NEW c \in Clients, Peer(p, c), ForkCGI(p, c) PROVE Inv'
<1>1. /\ proc[p].pc = "fork" /\ proc[p].fd # None /\ c = Conn(p)
      /\ files' = [files EXCEPT ![c] = files[p]]
      /\ proc' = [proc EXCEPT ![c] = Proc("cgi", proc[p].fd), ![p].pc = "wait"]
      /\ UNCHANGED <<kind, cli, sock, backlog, cell, pool, sbuf, taken, once, mutex, byte_cnt, heard>>
  BY DEF ForkCGI, Peer, At, fixed, client, buffer, count
<1>2. Stands(p, proc[p].pc) /\ proc[p].fd \in Fd \cup {None}
  BY Record DEF Inv
<1>3. kind = "tiny" /\ p = Main /\ Spawned = Clients /\ Main \notin Clients
  BY <1>1, <1>2, MainRecord DEF Inv, Stands
<1>4. PICK fd \in Fd : fd = proc[Main].fd /\ c = files[Main][fd]
  BY <1>1, <1>2, <1>3 DEF Conn, Process
<1>5. Stands(c, "cgi") /\ Stands(Main, "wait") /\ "cgi" \in Pcs /\ "wait" \in Pcs
  BY <1>3 DEF Stands, Pcs
<1>6. proc[Main].pc \in ToGive /\ "wait" \notin ToGive
  BY <1>1, <1>3 DEF ToGive
<1> QED BY <1>1, <1>3, <1>4, <1>5, <1>6, Copies

LEMMA RunsCGI ==
  ASSUME Inv, NEW p, NEW c \in Clients, CGI(p, c) PROVE Inv'
<1>1. /\ UNCHANGED <<kind, sock, backlog, files, proc, cell, buffer, count, pool, heard>>
      /\ cli' = (IF cli[c].st = "left" THEN cli ELSE [cli EXCEPT ![c].got = Append(@, "output")])
  BY DEF CGI, fixed
<1>2. "output" \in Part
  BY DEF Part, Words
<1>3. PICK g \in Seq(Part) : g = Append(cli[c].got, "output")
  <2>1. ASSUME NEW s \in Seq(Part), NEW x \in Part PROVE Append(s, x) \in Seq(Part)
    OBVIOUS
  <2>2. cli[c].got \in Seq(Part)
    BY DEF Inv, TypeOK, DataOK, Members
  <2> QED BY <1>2, <2>1, <2>2
<1>4. cli' \in [Clients -> Members] /\ \A d \in Clients : cli'[d].st = cli[d].st
  BY <1>1, <1>3, Delivered DEF Inv
<1> QED BY <1>1, <1>4, Quiet

LEMMA Ends ==
  ASSUME Inv, NEW p \in Procs, Wait(p) \/ CloseConn(p) PROVE Inv'
<1>1. /\ proc[p].pc \in {"wait", "finish"} /\ cli' = cli
      /\ UNCHANGED <<kind, sock, backlog, cell, pool, sbuf, taken, once, mutex, byte_cnt, heard>>
  BY DEF Wait, CloseConn, At, fixed, client, buffer, count
<1>2. Stands(p, proc[p].pc) /\ proc[p] \in Contexts
  BY Record DEF Inv
<1>3. kind = "tiny" /\ p = Main
  BY <1>1, <1>2 DEF Stands
<1>4. cli' \in [Clients -> Members] /\ \A d \in Clients : cli'[d].st = cli[d].st
  BY <1>1 DEF Inv, TypeOK, DataOK
<1>5. Stands(Main, "finish") /\ "finish" \in Pcs
  BY <1>3 DEF Stands, Pcs
<1>6. CASE Wait(p)
  <2>1. proc' = [proc EXCEPT ![p].pc = "finish"] /\ files' = files
    BY <1>6 DEF Wait, Goto
  <2>2. PICK r \in Contexts : r = [proc[p] EXCEPT !.pc = "finish"] /\ r.pc = "finish" /\ r.fd = proc[p].fd
    BY <1>2, <1>5, Fields
  <2>3. proc' = [proc EXCEPT ![p] = r]
    BY <2>1, <2>2 DEF Inv, TypeOK
  <2> QED BY <1>1, <1>3, <1>4, <1>5, <2>1, <2>2, <2>3, Does DEF ToGive
<1>7. CASE CloseConn(p)
  <2>1. /\ files' = [files EXCEPT ![Main][proc[Main].fd] = None] /\ InHand
        /\ proc' = [proc EXCEPT ![Main] = Proc("accept", None)]
    BY <1>1, <1>3, <1>7 DEF CloseConn, InHand
  <2> QED BY <1>1, <1>3, <2>1, MainCloses
<1> QED BY <1>6, <1>7

-----------------------------------------------------------------------------
(* Every step *)

LEMMA Starting ==
  ASSUME Init PROVE Inv
<1>1. /\ kind \in Names
      /\ cli = [c \in Clients |-> [st |-> "new", sent |-> 0, got |-> <<>>]]
      /\ sock = [c \in Clients |-> <<>>] /\ backlog = <<>>
      /\ files = [p \in {Main} \cup Spawned |-> [f \in Fd |-> None]]
      /\ cell = [p \in {Main} \cup Spawned |-> None]
      /\ once = FALSE /\ mutex = 0 /\ byte_cnt = 0 /\ heard = 0
  BY ServersAssumption DEF Init, Names
<1>2. sbuf = <<>> /\ taken = [t \in Threads |-> None]
  BY DEF Init, Sbuf!Init
<1>3. DataOK
  <2>1. "new" \in States /\ <<>> \in Seq(Part) /\ <<>> \in Seq(Piece)
    BY DEF States
  <2>2. cli \in [Clients -> Members]
    BY <1>1, <2>1 DEF Members
  <2>3. sbuf \in Seq(Fd \cup {None}) /\ taken \in [Threads -> Fd \cup {None}]
    BY <1>2
  <2>4. /\ cell \in [{Main} \cup Spawned -> Fd \cup {None}] /\ sock \in [Clients -> Seq(Piece)]
        /\ once \in BOOLEAN /\ mutex \in {0, 1} /\ byte_cnt \in Nat /\ heard \in Nat
    BY <1>1, <2>1
  <2> QED BY <2>2, <2>3, <2>4 DEF DataOK
<1>4. pool \in Pools /\ \A j \in SlotNumbers : pool.clientfd[j] = None
  <2>1. pool = [clientfd |-> [i \in SlotNumbers |-> None], maxi |-> -1,
                read_set |-> {}, ready_set |-> {}, nready |-> 0, i |-> 0]
    BY DEF Init, init_pool, SlotNumbers
  <2>2. -1 \in -1..FD_SETSIZE-1
    BY ServersAssumption
  <2> QED BY <2>1, <2>2 DEF Pools
<1>5. /\ proc \in [Procs -> Contexts]
      /\ \A p \in Procs : proc[p].pc \in {"accept", "none", "remove"} /\ Stands(p, proc[p].pc)
      /\ proc[Main].pc = "accept" /\ \A c \in Clients : proc[c].pc = "none"
  <2> DEFINE pc(p) == IF p = Main THEN "accept"
                      ELSE IF p \in Threads /\ kind = "prethreaded" THEN "remove" ELSE "none"
  <2>1. proc = [p \in Procs |-> Proc(pc(p), None)]
    BY DEF Init
  <2>2. \A p \in Procs : pc(p) \in Pcs
    BY DEF Pcs
  <2>3. \A p \in Procs : Proc(pc(p), None) \in Contexts /\ Proc(pc(p), None).pc = pc(p)
    <3> HIDE DEF pc
    <3> QED BY <2>2, Contextual
  <2>4. /\ proc \in [Procs -> Contexts] /\ \A p \in Procs : proc[p].pc = pc(p)
    <3> HIDE DEF pc
    <3> QED BY <2>1, <2>3
  <2> QED BY <2>4, ServersAssumption DEF Stands, Procs, Spawned
<1>6. TypeOK
  <2>1. <<>> \in Seq(Clients)
    OBVIOUS
  <2> QED BY <1>1, <1>3, <1>4, <1>5, <2>1 DEF TypeOK
<1>7. Shape
  BY <1>1, <1>5 DEF Shape
<1>8. Table
  BY <1>1, ServersAssumption DEF Table
<1>9. Slots
  BY <1>4, <1>5 DEF Slots, InHand
<1>10. Hands
  BY <1>5 DEF Hands, Works, Idle, Children, Given, Detached, InHand, ToGive
<1> QED BY <1>6, <1>7, <1>8, <1>9, <1>10 DEF Inv

LEMMA Stepping ==
  ASSUME Inv, [Next]_vars PROVE Inv'
<1>1. CASE UNCHANGED vars
  BY <1>1, Quiet DEF vars, fixed, client, Inv, TypeOK, DataOK
<1>2. ASSUME MainStep PROVE Inv'
  BY <1>2, Accepts, Forks, ParentCloses, Detaches, Inserts, Selects, Checks DEF MainStep
<1>3. ASSUME NEW p \in Procs, Serve(p) PROVE Inv'
  <2>1. PICK c \in Clients : /\ Peer(p, c)
                             /\ Read(p, c) \/ Line(p, c) \/ Write(p, c) \/ SigPipe(p, c) \/ Close(p, c)
                                \/ doit(p, c)
    BY <1>3 DEF Serve
  <2>2. CASE doit(p, c)
    BY <2>1, <2>2, Requests, RepliesWritten, Signals, ForksCGI, RunsCGI, Ends DEF doit
  <2> QED BY <2>1, <2>2, Reads, Lines, Writes, Signals, Closes
<1>4. ASSUME NEW p \in Procs, Run(p) PROVE Inv'
  BY <1>3, <1>4, Starts, Removes, Initialises, Locks, Unlocks DEF Run
<1> QED BY <1>1, <1>2, <1>4, Connects, ClientMoves, Signals DEF Next

-----------------------------------------------------------------------------
(* The bytes counted *)

\* A thread that has a line and has not added its length to byte_cnt yet.
Counts == {t \in Threads : proc[t].pc \in {"lock", "store"}}
Lens == [t \in Threads |-> Len(proc[t].line)]
Uncounted == SumOver(Lens, Counts)

\* A thread between the two steps has the mutex, and the sum in its register; none
\* has come past Pthread_once before it is done.
Counting ==
  /\ kind = "select" => heard = byte_cnt
  /\ kind = "prethreaded" =>
     /\ heard = byte_cnt + Uncounted
     /\ \A t \in Threads :
          proc[t].pc = "store" => mutex = 0 /\ proc[t].reg = byte_cnt + Len(proc[t].line)
     /\ \A t, u \in Threads : proc[t].pc = "store" /\ proc[u].pc = "store" => t = u
     /\ ~once => byte_cnt = 0 /\ \A t \in Threads : proc[t].pc \in {"remove", "once"}

LEMMA Lengths ==
  ASSUME NEW m \in [Procs -> Contexts], NEW S \in SUBSET Threads
  PROVE  IsFiniteSet(S) /\ Threads \subseteq Procs /\ \A t \in Threads : Len(m[t].line) \in Nat
<1>1. IsFiniteSet(S)
  BY ServersAssumption, FS_Subset
<1>2. \A t \in Threads : m[t] \in Contexts /\ m[t].line \in Seq(Part)
  BY DEF Procs, Contexts
<1> QED BY <1>1, <1>2 DEF Procs

LEMMA Summed ==
  ASSUME TypeOK
  PROVE  /\ IsFiniteSet(Counts) /\ Counts \in SUBSET Threads
         /\ Threads \subseteq Procs
         /\ \A t \in Threads : Len(proc[t].line) \in Nat /\ Lens[t] = Len(proc[t].line)
<1>1. proc \in [Procs -> Contexts] /\ Counts \in SUBSET Threads
  BY DEF TypeOK, Counts
<1> QED BY <1>1, Lengths DEF Lens

LEMMA SummedThen ==
  ASSUME TypeOK'
  PROVE  /\ IsFiniteSet(Counts') /\ Counts' \in SUBSET Threads
         /\ \A t \in Threads : Len(proc'[t].line) \in Nat /\ Lens'[t] = Len(proc'[t].line)
<1>1. proc' \in [Procs -> Contexts] /\ Counts' \in SUBSET Threads
  BY DEF TypeOK, Counts
<1> QED BY <1>1, Lengths DEF Lens

LEMMA FoldIsSum ==
  ASSUME TypeOK
  PROVE  FoldSet(LAMBDA t, n : Len(proc[t].line) + n, 0, Counts) = Uncounted
<1> DEFINE Iterates(g) == g = [s \in SUBSET Counts |->
                                IF s = {} THEN 0
                                ELSE LET x == CHOOSE y \in s : TRUE
                                     IN Len(proc[x].line) + g[s \ {x}]]
           iter == CHOOSE g : Iterates(g)
<1>1. FoldSet(LAMBDA t, n : Len(proc[t].line) + n, 0, Counts) = iter[Counts]
  BY DEF FoldSet, MapThenFoldSet
<1>2. \A g : Adds(g, Lens, Counts) <=> Iterates(g)
  <2>1. ASSUME NEW g, NEW s \in SUBSET Counts
        PROVE  AddNext(g, Lens, s) = IF s = {} THEN 0
                                     ELSE LET x == CHOOSE y \in s : TRUE
                                          IN Len(proc[x].line) + g[s \ {x}]
    <3>1. CASE s # {}
      <4>1. PICK x : x = CHOOSE y \in s : TRUE
        OBVIOUS
      <4>2. x \in s
        BY <3>1, <4>1
      <4>3. Lens[x] = Len(proc[x].line)
        BY <4>2, Summed
      <4> QED BY <4>1, <4>3 DEF AddNext
    <3> QED BY <3>1 DEF AddNext
  <2> QED BY <2>1 DEF Adds
<1>3. \E g : Adds(g, Lens, Counts)
  BY Summed, AddsExists
<1> HIDE DEF Iterates
<1>4. Adds(iter, Lens, Counts)
  BY <1>2, <1>3
<1> QED BY <1>1, <1>4, Summed, SumIs DEF Uncounted

LEMMA SumSteps ==
  ASSUME TypeOK, TypeOK', Counts' = Counts, \A t \in Counts : proc'[t].line = proc[t].line
  PROVE  Uncounted' = Uncounted
<1>1. /\ IsFiniteSet(Counts) /\ \A t \in Counts : Lens[t] \in Nat /\ Lens[t] = Len(proc[t].line)
      /\ \A t \in Counts : Lens'[t] = Len(proc'[t].line)
  BY Summed, SummedThen
<1>2. SumOver(Lens, Counts) = SumOver(Lens', Counts)
  BY <1>1, SumSame, SMTT(30)
<1> QED BY <1>2 DEF Uncounted

\* A step that counts nothing.
LEMMA CountKept ==
  ASSUME Inv, Inv', Counting, UNCHANGED <<kind, byte_cnt, heard>>, mutex' = mutex \/ ~once, once => once',
         kind = "prethreaded" =>
           \A t \in Threads : \/ proc'[t] = proc[t]
                              \/ /\ proc[t].pc \notin {"lock", "store"}
                                 /\ proc'[t].pc \notin {"lock", "store"}
                                 /\ once' \/ proc'[t].pc \in {"remove", "once"}
  PROVE  Counting'
<1>1. CASE kind # "prethreaded"
  BY <1>1 DEF Counting
<1>2. CASE kind = "prethreaded"
  <2>1. Counts' = Counts /\ \A t \in Counts : proc'[t].line = proc[t].line
    BY <1>2 DEF Counts
  <2>2. Uncounted' = Uncounted
    BY <2>1, SumSteps DEF Inv
  <2>3. ASSUME NEW t \in Threads, proc'[t].pc = "store" PROVE proc'[t] = proc[t]
    BY <1>2, <2>3
  <2>4. \A t \in Threads :
          proc'[t].pc = "store" => mutex' = 0 /\ proc'[t].reg = byte_cnt' + Len(proc'[t].line)
    BY <1>2, <2>3 DEF Counting
  <2>5. \A t, u \in Threads : proc'[t].pc = "store" /\ proc'[u].pc = "store" => t = u
    BY <1>2, <2>3 DEF Counting
  <2>6. ~once' => byte_cnt' = 0 /\ \A t \in Threads : proc'[t].pc \in {"remove", "once"}
    BY <1>2 DEF Counting
  <2> QED BY <1>2, <2>2, <2>4, <2>5, <2>6 DEF Counting
<1> QED BY <1>1, <1>2

LEMMA CountLine ==
  ASSUME Inv, Inv', Counting, NEW p \in Procs, NEW c \in Clients, Line(p, c) PROVE Counting'
<1>1. proc[p].pc = "read" /\ UNCHANGED <<kind, once, mutex>>
  BY DEF Line, At, fixed
<1>2. PICK n \in Nat : /\ \A q \in Procs : q # p => proc'[q] = proc[q]
                       /\ proc'[p].pc = (IF kind = "prethreaded" THEN "lock" ELSE "write")
                       /\ Len(proc'[p].line) = n
                       /\ byte_cnt' = byte_cnt + (IF kind = "select" THEN n ELSE 0)
                       /\ heard' = heard + n
  BY LineTaken
<1>3. byte_cnt \in Nat /\ heard \in Nat
  BY DEF Inv, TypeOK, DataOK
<1>4. CASE kind # "prethreaded"
  BY <1>1, <1>2, <1>3, <1>4 DEF Counting
<1>5. CASE kind = "prethreaded"
  <2>1. p \in Threads
    BY <1>1, <1>5, Record DEF Inv, Stands
  <2>2. /\ \A q \in Procs : q # p => proc'[q] = proc[q]
        /\ proc'[p].pc = "lock" /\ Len(proc'[p].line) = n
    BY <1>2, <1>5
  <2>3. /\ Threads \subseteq Procs /\ p \notin Counts /\ p \in Counts' /\ Counts' \ {p} = Counts
        /\ \A t \in Threads : t # p => proc'[t] = proc[t]
    BY <1>1, <2>1, <2>2, Summed DEF Inv, Counts
  <2>4. Uncounted' = n + Uncounted /\ Uncounted \in Nat
    <3>1. PICK S, f, e : S = Counts' /\ f = Lens' /\ e = Lens
      OBVIOUS
    <3>2. /\ IsFiniteSet(S) /\ \A t \in S : f[t] \in Nat
          /\ p \in S /\ f[p] = n
      BY <2>1, <2>2, <2>3, <3>1, SummedThen DEF Inv
    <3>3. SumOver(f, S) = n + SumOver(f, S \ {p}) /\ SumOver(f, S \ {p}) \in Nat
      BY <3>2, SumRemove
    <3>4. /\ IsFiniteSet(Counts) /\ \A t \in Counts : f[t] \in Nat /\ e[t] = f[t]
      BY <2>1, <2>3, <3>1, Summed, SummedThen DEF Inv
    <3>5. SumOver(f, Counts) = SumOver(e, Counts)
      BY <3>4, SumSame
    <3> QED BY <2>3, <3>1, <3>3, <3>5 DEF Uncounted
  <2>5. once
    BY <1>1, <1>5, <2>1 DEF Counting
  <2>6. heard' = byte_cnt' + Uncounted'
    BY <1>1, <1>2, <1>3, <1>5, <2>4 DEF Counting
  <2>7. \A t \in Threads :
          proc'[t].pc = "store" => mutex' = 0 /\ proc'[t].reg = byte_cnt' + Len(proc'[t].line)
    <3>1. byte_cnt' = byte_cnt /\ mutex' = mutex
      BY <1>1, <1>2, <1>3, <1>5
    <3>2. \A t \in Threads : proc'[t].pc = "store" => proc'[t] = proc[t]
      BY <2>2, <2>3
    <3> QED BY <1>5, <3>1, <3>2 DEF Counting
  <2>8. \A t, u \in Threads : proc'[t].pc = "store" /\ proc'[u].pc = "store" => t = u
    BY <1>5, <2>2, <2>3 DEF Counting
  <2> QED BY <1>1, <1>5, <2>5, <2>6, <2>7, <2>8 DEF Counting
<1> QED BY <1>4, <1>5

LEMMA CountLock ==
  ASSUME Inv, Inv', Counting, NEW p \in Threads, Lock(p) PROVE Counting'
<1>1. /\ proc[p].pc = "lock" /\ mutex = 1 /\ mutex' = 0
      /\ proc' = [proc EXCEPT ![p].pc = "store", ![p].reg = byte_cnt + Len(proc[p].line)]
      /\ UNCHANGED <<kind, once, byte_cnt, heard>>
  BY DEF Lock, At, fixed
<1>2. p \in Procs /\ kind = "prethreaded" /\ Threads \subseteq Procs
  BY <1>1, Worker, Summed DEF Inv
<1>3. PICK n \in Nat : n = byte_cnt + Len(proc[p].line)
  <2>1. Len(proc[p].line) \in Nat /\ byte_cnt \in Nat
    BY Summed DEF Inv, TypeOK, DataOK
  <2> QED BY <2>1
<1>4. /\ \A q \in Procs : q # p => proc'[q] = proc[q]
      /\ proc'[p].pc = "store" /\ proc'[p].line = proc[p].line /\ proc'[p].reg = n
  <2>1. proc \in [Procs -> Contexts]
    BY DEF Inv, TypeOK
  <2>2. proc' = [proc EXCEPT ![p].pc = "store", ![p].reg = n]
    BY <1>1, <1>3
  <2> QED BY <1>2, <2>1, <2>2 DEF Contexts
<1>5. Counts' = Counts /\ \A t \in Counts : proc'[t].line = proc[t].line
  BY <1>1, <1>2, <1>4 DEF Counts
<1>6. Uncounted' = Uncounted
  BY <1>5, SumSteps DEF Inv
<1>7. \A t \in Threads : proc[t].pc # "store"
  BY <1>1, <1>2 DEF Counting
<1>8. \A t \in Threads : proc'[t].pc = "store" => t = p
  BY <1>2, <1>4, <1>7
<1>9. once
  BY <1>1, <1>2 DEF Counting
<1> QED BY <1>1, <1>2, <1>3, <1>4, <1>6, <1>8, <1>9 DEF Counting

LEMMA CountUnlock ==
  ASSUME Inv, Inv', Counting, NEW p \in Threads, Unlock(p) PROVE Counting'
<1>1. /\ proc[p].pc = "store" /\ mutex' = 1 /\ byte_cnt' = proc[p].reg
      /\ proc' = [proc EXCEPT ![p].pc = "write"]
      /\ UNCHANGED <<kind, once, heard>>
  BY DEF Unlock, At, Goto, fixed
<1>2. p \in Procs /\ kind = "prethreaded" /\ Threads \subseteq Procs
  BY <1>1, Worker, Summed DEF Inv
<1>3. PICK n \in Nat : n = Len(proc[p].line) /\ byte_cnt' = byte_cnt + n /\ Lens[p] = n
  BY <1>1, <1>2, Summed DEF Inv, Counting
<1>4. (\A q \in Procs : q # p => proc'[q] = proc[q]) /\ proc'[p].pc = "write"
  <2>1. proc \in [Procs -> Contexts]
    BY DEF Inv, TypeOK
  <2> QED BY <1>1, <1>2, <2>1 DEF Contexts
<1>5. p \in Counts /\ Counts' = Counts \ {p}
  BY <1>1, <1>2, <1>4 DEF Counts
<1>6. Uncounted = n + Uncounted' /\ Uncounted' \in Nat
  <2>1. PICK S, f, e : S = Counts' /\ f = Lens' /\ e = Lens
    OBVIOUS
  <2>2. IsFiniteSet(Counts) /\ \A t \in Counts : e[t] \in Nat
    BY <2>1, Summed DEF Inv
  <2>3. SumOver(e, Counts) = n + SumOver(e, Counts \ {p}) /\ SumOver(e, Counts \ {p}) \in Nat
    BY <1>3, <1>5, <2>1, <2>2, SumRemove
  <2>4. IsFiniteSet(S) /\ \A t \in S : e[t] \in Nat /\ f[t] = e[t]
    BY <1>2, <1>4, <1>5, <2>1, Summed, SummedThen DEF Inv
  <2>5. SumOver(e, S) = SumOver(f, S)
    BY <2>4, SumSame
  <2> QED BY <1>5, <2>1, <2>3, <2>5 DEF Uncounted
<1>7. \A t \in Threads : t # p => proc[t].pc # "store"
  BY <1>1, <1>2 DEF Counting
<1>8. \A t \in Threads : proc'[t].pc # "store"
  BY <1>2, <1>4, <1>7
<1>9. once /\ byte_cnt \in Nat
  BY <1>1, <1>2 DEF Counting, Inv, TypeOK, DataOK
<1>10. heard' = byte_cnt' + Uncounted'
  BY <1>1, <1>2, <1>3, <1>6, <1>9 DEF Counting
<1> QED BY <1>1, <1>2, <1>8, <1>9, <1>10 DEF Counting

\* A step of one thread that counts nothing.
LEMMA CountOne ==
  ASSUME Inv, Inv', Counting, UNCHANGED <<kind, byte_cnt, heard>>, mutex' = mutex \/ ~once, once => once',
         NEW p \in Procs, \A q \in Procs : q # p => proc'[q] = proc[q],
         kind = "prethreaded" /\ p \in Threads =>
           /\ proc[p].pc \notin {"lock", "store"} /\ proc'[p].pc \notin {"lock", "store"}
           /\ once' \/ proc[p].pc \notin {"remove", "once"} \/ proc'[p].pc \in {"remove", "once"}
  PROVE  Counting'
<1>1. Threads \subseteq Procs
  BY Summed DEF Inv
<1>2. kind = "prethreaded" /\ p \in Threads /\ proc[p].pc \notin {"remove", "once"} => once
  BY DEF Counting
<1> QED BY <1>1, <1>2, CountKept

LEMMA CountMain ==
  ASSUME Inv, Inv', Counting, MainStep PROVE Counting'
<1>1. UNCHANGED <<kind, once, mutex, byte_cnt, heard>>
  BY DEF MainStep, Accept, Fork, ParentClose, Pthread_create, sbuf_insert, Select, check_clients,
         fixed, count
<1>2. Stands(Main, proc[Main].pc) /\ Main \in Procs
  BY MainRecord DEF Inv
<1>3. CASE kind # "prethreaded"
  BY <1>1, <1>3, CountKept
<1>4. CASE kind = "prethreaded"
  <2>1. \E r : proc' = [proc EXCEPT ![Main] = r]
    <3>1. ~Fork /\ ~ParentClose /\ ~Pthread_create /\ ~Select /\ ~check_clients
      BY <1>2, <1>4 DEF Fork, ParentClose, Pthread_create, Select, check_clients, At, Stands
    <3> QED BY <3>1 DEF MainStep, Accept, sbuf_insert
  <2>2. \A q \in Procs : q # Main => proc'[q] = proc[q]
    BY <2>1 DEF Inv, TypeOK
  <2>3. Main \notin Threads
    BY MainRecord DEF Inv
  <2> QED BY <1>1, <1>2, <2>2, <2>3, CountOne
<1> QED BY <1>3, <1>4

LEMMA CountServe ==
  ASSUME Inv, Inv', Counting, NEW p \in Procs, NEW c \in Clients,
         Read(p, c) \/ Line(p, c) \/ Write(p, c) \/ SigPipe(p, c) \/ Close(p, c) \/ doit(p, c)
  PROVE  Counting'
<1>1. Stands(p, proc[p].pc) /\ proc \in [Procs -> Contexts]
  BY Record DEF Inv, TypeOK
<1>2. CASE Read(p, c)
  <2>1. UNCHANGED <<kind, once, mutex, byte_cnt, heard>> /\ Reading(p)
    BY <1>2 DEF Read, fixed, count
  <2>2. proc[p].pc \in {"read", "request", "headers"}
    BY <2>1 DEF Reading, At
  <2>3. PICK x : proc' = [proc EXCEPT ![p].rio = x]
    BY <1>2 DEF Read
  <2>4. (\A q \in Procs : q # p => proc'[q] = proc[q]) /\ proc'[p].pc = proc[p].pc
    BY <1>1, <2>3 DEF Contexts
  <2> QED BY <2>1, <2>2, <2>4, CountOne
<1>3. CASE Write(p, c)
  <2>1. UNCHANGED <<kind, once, mutex, byte_cnt, heard>> /\ proc[p].pc = "write" /\ proc' = Again(p)
    BY <1>3 DEF Write, fixed, count, At
  <2>2. (\A q \in Procs : q # p => proc'[q] = proc[q]) /\ (kind # "select" => proc'[p].pc = "read")
    BY <1>1, <2>1 DEF Again, Contexts
  <2> QED BY <2>1, <2>2, CountOne
<1>4. CASE SigPipe(p, c)
  BY <1>4, CountKept DEF SigPipe, fixed, count
<1>5. CASE Close(p, c)
  <2>1. UNCHANGED <<kind, once, mutex, byte_cnt, heard>> /\ proc[p].pc = "read"
    BY <1>5 DEF Close, fixed, count, At
  <2>2. PICK next : /\ proc' = [proc EXCEPT ![p] = Proc(next, None)]
                    /\ kind = "prethreaded" => next = "remove"
    BY <1>5 DEF Close
  <2>3. /\ \A q \in Procs : q # p => proc'[q] = proc[q]
        /\ kind = "prethreaded" => proc'[p].pc = "remove"
    BY <1>1, <2>2 DEF Proc
  <2> QED BY <2>1, <2>3, CountOne
<1>6. CASE doit(p, c)
  <2>1. UNCHANGED <<kind, once, mutex, byte_cnt, heard>>
    BY <1>6 DEF doit, RequestLine, NoRequest, read_requesthdrs, WriteReply, Killed, ForkCGI, CGI,
                Wait, CloseConn, fixed, count
  <2>2. proc[p].pc \in {"request", "headers", "reply", "mmap", "fork", "cgi", "wait", "finish"}
    BY <1>6 DEF doit, RequestLine, NoRequest, read_requesthdrs, WriteReply, Killed, ForkCGI, CGI,
                Wait, CloseConn, At
  <2>3. kind # "prethreaded"
    BY <1>1, <2>2 DEF Stands
  <2> QED BY <2>1, <2>3, CountKept
<1> QED BY <1>2, <1>3, <1>4, <1>5, <1>6, CountLine

LEMMA CountThread ==
  ASSUME Inv, Inv', Counting, NEW p \in Procs, Run(p) PROVE Counting'
<1>1. Stands(p, proc[p].pc) /\ proc \in [Procs -> Contexts]
  BY Record DEF Inv, TypeOK
<1>2. ASSUME p \in Spawned, Start(p) PROVE Counting'
  <2>1. UNCHANGED <<kind, once, mutex, byte_cnt, heard>> /\ proc[p].pc = "start"
    BY <1>2 DEF Start, fixed, count, At
  <2>2. kind # "prethreaded"
    BY <1>1, <2>1 DEF Stands
  <2> QED BY <2>1, <2>2, CountKept
<1>3. ASSUME p \in Threads, sbuf_remove(p) PROVE Counting'
  <2>1. UNCHANGED <<kind, once, mutex, byte_cnt, heard>> /\ proc[p].pc = "remove"
        /\ proc' = [proc EXCEPT ![p].pc = "once"]
    BY <1>3 DEF sbuf_remove, Goto, fixed, count, At
  <2>2. (\A q \in Procs : q # p => proc'[q] = proc[q]) /\ proc'[p].pc = "once"
    BY <1>1, <2>1 DEF Contexts
  <2> QED BY <2>1, <2>2, CountOne
<1>4. ASSUME p \in Threads, init_echo_cnt(p) PROVE Counting'
  <2>1. /\ UNCHANGED <<kind, heard>> /\ proc[p].pc = "once" /\ once' = TRUE
        /\ once => UNCHANGED <<mutex, byte_cnt>>
        /\ ~once => byte_cnt' = 0
        /\ proc' = [proc EXCEPT ![p] = Proc("read", taken[p])]
    BY <1>4 DEF init_echo_cnt, fixed, At
  <2>2. (\A q \in Procs : q # p => proc'[q] = proc[q]) /\ proc'[p].pc = "read"
    BY <1>1, <2>1 DEF Proc
  <2>3. kind = "prethreaded"
    BY <1>4, <2>1, Worker
  <2>4. byte_cnt' = byte_cnt
    BY <2>1, <2>3 DEF Counting
  <2> QED BY <2>1, <2>2, <2>4, CountOne
<1>5. ASSUME Serve(p) PROVE Counting'
  BY <1>5, CountServe DEF Serve
<1> QED BY <1>2, <1>3, <1>4, <1>5, CountLock, CountUnlock DEF Run

LEMMA CountStep ==
  ASSUME Inv, Inv', Counting, [Next]_vars PROVE Counting'
<1>1. CASE UNCHANGED <<kind, once, mutex, byte_cnt, heard, proc>>
  BY <1>1, CountKept
<1>2. CASE sigchld_handler \/ \E c \in Clients : Connect(c) \/ Client(c) \/ Leave(c)
  BY <1>1, <1>2 DEF sigchld_handler, Connect, Client, Send, Finish, Leave, fixed, count
<1>3. CASE UNCHANGED vars
  BY <1>1, <1>3 DEF vars, fixed, count
<1> QED BY <1>2, <1>3, CountMain, CountThread DEF Next

LEMMA CountStarts ==
  ASSUME Init PROVE Counting
<1>1. /\ heard = 0 /\ byte_cnt = 0
      /\ proc = [p \in Procs |-> Proc(IF p = Main THEN "accept"
                                  ELSE IF p \in Threads /\ kind = "prethreaded" THEN "remove" ELSE "none", None)]
  BY DEF Init
<1>2. kind = "prethreaded" => \A t \in Threads : proc[t].pc = "remove"
  BY <1>1, ServersAssumption DEF Procs, Proc
<1>3. kind = "prethreaded" => Uncounted = 0
  <2>1. kind = "prethreaded" => Counts = {}
    BY <1>2 DEF Counts
  <2> QED BY <2>1, SumEmpty DEF Uncounted
<1>4. heard = 0 /\ byte_cnt = 0
  BY <1>1
<1> QED BY <1>2, <1>3, <1>4 DEF Counting

\* With any number of threads the pieces read are those in byte_cnt and those of
\* the threads that have read a line and not stored the sum yet (echo_cnt.c), and
\* all are counted by check_clients (echoservers.c).
THEOREM BytesCounted == Spec => []Counted
<1>1. Init => Inv /\ Counting
  BY Starting, CountStarts
<1>2. Inv /\ Counting /\ [Next]_vars => (Inv /\ Counting)'
  BY Stepping, CountStep
<1>3. Inv /\ Counting => Counted
  <2> SUFFICES ASSUME Inv, Counting, kind \in {"prethreaded", "select"}
               PROVE  heard = byte_cnt + FoldSet(LAMBDA t, n : Len(proc[t].line) + n, 0, Counts)
    BY DEF Counted, Counts
  <2>1. CASE kind = "prethreaded"
    BY <2>1, FoldIsSum DEF Counting, Inv
  <2>2. CASE kind = "select"
    <3>1. Counts = {}
      <4>1. ASSUME NEW t \in Threads PROVE proc[t].pc \notin {"lock", "store"}
        <5>1. t \in Procs
          BY DEF Procs
        <5>2. Stands(t, proc[t].pc)
          BY <5>1 DEF Inv, Shape
        <5> QED BY <2>2, <5>2 DEF Stands
      <4> QED BY <4>1 DEF Counts
    <3>2. Uncounted = 0
      BY <3>1, SumEmpty DEF Uncounted
    <3>3. heard = byte_cnt + Uncounted
      BY <2>2, <3>2 DEF Counting, Inv, TypeOK, DataOK
    <3> QED BY <3>3, FoldIsSum DEF Inv
  <2> QED BY <2>1, <2>2
<1> QED BY <1>1, <1>2, <1>3, PTL DEF Spec

-----------------------------------------------------------------------------
(***************************************************************************)
(* What the clients of the servers get back: their own lines, each once    *)
(* and in order, or the response to what they asked tiny.                  *)
(***************************************************************************)

\* The pieces of client c after the first k.
Pieced(c, k, n) == [i \in 1..n |-> <<c, k + i>>]

Hearing == {"read", "request", "headers"}
Busy == Hearing \cup {"lock", "store", "write"}
Serves(p, c) == proc[p].pc \in Busy /\ Conn(p) = c

\* In the prethreaded server a connection is in one place: with main, in the
\* buffer, or with a thread.
Held(t) == IF proc[t].pc = "once" THEN taken[t] ELSE proc[t].fd
Working(t) == proc[t].pc \notin {"none", "remove"}
Queued(fd) == \E i \in DOMAIN sbuf : sbuf[i] = fd
Tokens ==
  kind = "prethreaded" =>
  /\ \A i \in DOMAIN sbuf : Open(sbuf[i])
  /\ \A i, j \in DOMAIN sbuf : sbuf[i] = sbuf[j] => i = j
  /\ \A t \in Threads : Working(t) => Open(Held(t)) /\ ~Queued(Held(t))
  /\ \A t, u \in Threads : Working(t) /\ Working(u) /\ Held(t) = Held(u) => t = u
  /\ InHand => /\ Open(proc[Main].fd) /\ ~Queued(proc[Main].fd)
               /\ \A t \in Threads : Working(t) => Held(t) # proc[Main].fd

\* What a client m has got, when the server has taken k of its pieces and has sent
\* those it did not lose; of tiny it gets something else.
Mode(c) == IF kind = "tiny" THEN "answer"
           ELSE IF kind = "select" /\ c \in eager THEN "lossy" ELSE "echo"
Own(c, k, s) == \A i \in 1..Len(s) : \E j \in 1..k : s[i] = <<c, j>>
Rising(s) == \A i, j \in 1..Len(s) : i < j => s[i][2] < s[j][2]
Behind(mode, c, m, k) ==
  /\ mode = "echo" => /\ Len(m.got) <= k /\ m.got = Pieced(c, 0, Len(m.got))
                      /\ m.st # "left" => Len(m.got) = k
  /\ mode = "lossy" => Own(c, k, m.got) /\ Rising(m.got)

\* The pieces a client m has sent are, in order, those the server has echoed, the
\* line it is about to echo, its buffer, and what is on its way in s.
Reached(m, s) == m.sent - Len(s)
Sends(c, m, s) ==
  /\ Len(s) <= m.sent /\ s = Pieced(c, m.sent - Len(s), Len(s))
  /\ m.sent <= Pieces
  /\ m.st = "new" => m.sent = 0
  /\ m.st = "fin" => m.sent = Pieces
Flows(mode, c, m, s, r) ==
  LET k == Reached(m, s) - Len(r.rio)
      j == k - Len(r.line)
  IN /\ 0 <= j
     /\ r.rio = Pieced(c, k, Len(r.rio)) /\ r.line = Pieced(c, j, Len(r.line))
     /\ r.pc \in Hearing => r.line = <<>>
     /\ Behind(mode, c, m, j)
StreamOf(c) ==
  /\ Sends(c, cli[c], sock[c])
  /\ \A p \in Procs : Serves(p, c) => Flows(Mode(c), c, cli[c], sock[c], proc[p])
  /\ (\A p \in Procs : ~Serves(p, c)) => Behind(Mode(c), c, cli[c], Reached(cli[c], sock[c]))
Streams == \A c \in Clients : StreamOf(c)

\* A client that waits has one line on its way at most, and check_clients throws
\* nothing of it away.
Turn(c) ==
  /\ Len(cli[c].got) % 2 = 0 /\ cli[c].sent <= Len(cli[c].got) + 2
  /\ Serves(Main, c) /\ proc[Main].pc = "write" =>
       proc[Main].rio = <<>> /\ (Len(cli[c].got) + Len(proc[Main].line)) % 2 = 0
Turns == kind = "select" => \A c \in Clients \ eager : cli[c].st # "left" => Turn(c)

\* tiny has answered nothing before it has read the request, and what is left of
\* the response completes what the client has got.
Serving(c, pcs) == proc[Main].pc \in pcs /\ files[Main][proc[Main].fd] = c
Complies(c, got) == cli[c].st # "left" => cli[c].got = got /\ Reply(asks[c]) = got
Used(c) == Reached(cli[c], sock[c]) - Len(proc[Main].rio)
Answer(c) ==
  /\ asks[c] \in Asks
  /\ Waits(c) \/ Serving(c, {"request", "headers"}) \/ cli[c].sent <= 1 => cli[c].got = <<>>
  /\ Waits(c) => Reached(cli[c], sock[c]) = 0
  /\ IsPrefix(cli[c].got, Due(asks[c]))
  /\ Serving(c, {"request"}) => Used(c) = 0
  /\ Serving(c, {"headers"}) => Used(c) >= 1
  /\ Serving(c, {"reply"}) /\ cli[c].st # "left" =>
       cli[c].sent > 1 /\ cli[c].got \o proc[Main].line = Reply(asks[c])
  /\ Serving(c, {"fork"}) => Complies(c, serve_dynamic)
  /\ proc[c].pc = "cgi" /\ c \notin dead => Complies(c, serve_dynamic)
Answers == kind = "tiny" => \A c \in Clients : Answer(c)
EchoInv == Tokens /\ Streams /\ Turns /\ Answers

-----------------------------------------------------------------------------
(* The pieces of a client *)

\* The pieces of a client form a sequence with its length and elements.
LEMMA PiecedSeq ==
  ASSUME NEW c \in Clients, NEW k \in Nat, NEW n \in Nat
  PROVE  /\ Pieced(c, k, n) \in Seq(Piece) /\ Len(Pieced(c, k, n)) = n
         /\ \A i \in 1..n : Pieced(c, k, n)[i] = <<c, k + i>>
BY DEF Pieced, Piece

LEMMA PiecedLen ==
  ASSUME NEW c \in Clients, NEW k \in Nat, NEW n \in Nat
  PROVE  Len(Pieced(c, k, n)) = n
BY PiecedSeq

\* What a sequence is that has these elements.
LEMMA IsPieced ==
  ASSUME NEW c, NEW k \in Nat, NEW S, NEW s \in Seq(S), \A i \in 1..Len(s) : s[i] = <<c, k + i>>
  PROVE  s = Pieced(c, k, Len(s))
<1>1. s = [i \in 1..Len(s) |-> s[i]]
  OBVIOUS
<1>2. s = [i \in 1..Len(s) |-> <<c, k + i>>]
  BY <1>1
<1> QED BY <1>2 DEF Pieced

LEMMA PiecedNone ==
  ASSUME NEW c \in Clients, NEW k PROVE Pieced(c, k, 0) = <<>>
BY DEF Pieced

\* The pieces that follow others.
LEMMA PiecedPieced ==
  ASSUME NEW c \in Clients, NEW k \in Nat, NEW n \in Nat, NEW l \in Nat
  PROVE  Pieced(c, k, n) \o Pieced(c, k + n, l) = Pieced(c, k, n + l)
<1> DEFINE s == Pieced(c, k, n)
           t == Pieced(c, k + n, l)
<1>1. s \in Seq(Piece) /\ Len(s) = n /\ \A i \in 1..n : s[i] = <<c, k + i>>
  BY PiecedSeq
<1>2. t \in Seq(Piece) /\ Len(t) = l /\ \A i \in 1..l : t[i] = <<c, (k + n) + i>>
  <2>1. k + n \in Nat
    OBVIOUS
  <2> QED BY <2>1, PiecedSeq
<1> HIDE DEF s, t
<1>3. s \o t \in Seq(Piece) /\ Len(s \o t) = n + l
      /\ \A i \in 1..Len(s)+Len(t) : (s \o t)[i] = IF i <= Len(s) THEN s[i] ELSE t[i - Len(s)]
  BY <1>1, <1>2, ConcatProperties
<1>4. ASSUME NEW i \in 1..n+l PROVE (s \o t)[i] = <<c, k + i>>
  <2>1. (s \o t)[i] = IF i <= n THEN s[i] ELSE t[i - n]
    BY <1>1, <1>2, <1>3
  <2>2. CASE i <= n
    BY <1>1, <2>1, <2>2
  <2>3. CASE i > n
    <3>1. i - n \in 1..l /\ (k + n) + (i - n) = k + i
      BY <2>3
    <3>2. (s \o t)[i] = t[i - n]
      BY <2>1, <2>3
    <3> QED BY <1>2, <3>1, <3>2
  <2>4. i <= n \/ i > n
    OBVIOUS
  <2> QED BY <2>2, <2>3, <2>4
<1>5. s \o t = Pieced(c, k, n + l)
  BY <1>3, <1>4, IsPieced, ZenonT(40)
<1> QED BY <1>5 DEF s, t

\* The first pieces and the rest.
LEMMA PiecedParts ==
  ASSUME NEW c \in Clients, NEW k \in Nat, NEW n \in Nat, NEW j \in 0..n
  PROVE  /\ SubSeq(Pieced(c, k, n), 1, j) = Pieced(c, k, j)
         /\ SubSeq(Pieced(c, k, n), j + 1, n) = Pieced(c, k + j, n - j)
<1> DEFINE s == Pieced(c, k, n)
<1>1. s \in Seq(Piece) /\ Len(s) = n /\ (\A i \in 1..n : s[i] = <<c, k + i>>)
  BY PiecedSeq
<1> HIDE DEF s
<1>2. SubSeq(s, 1, j) = Pieced(c, k, j)
  <2> DEFINE t == SubSeq(s, 1, j)
  <2>1. t \in Seq(Piece) /\ Len(t) = j /\ \A i \in 1..j : t[i] = s[i]
    BY <1>1
  <2>2. \A i \in 1..Len(t) : t[i] = <<c, k + i>>
    BY <1>1, <2>1
  <2> HIDE DEF t
  <2>3. t = Pieced(c, k, j)
    BY <2>1, <2>2, IsPieced
  <2> QED BY <2>3 DEF t
<1>3. SubSeq(s, j + 1, n) = Pieced(c, k + j, n - j)
  <2> DEFINE t == SubSeq(s, j + 1, n)
             l == k + j
  <2>1. t \in Seq(Piece) /\ Len(t) = n - j /\ \A i \in 1..n-j : t[i] = s[j + i]
    BY <1>1
  <2>2. l \in Nat /\ \A i \in 1..n-j : j + i \in 1..n /\ k + (j + i) = l + i
    OBVIOUS
  <2> HIDE DEF t, l
  <2>3. \A i \in 1..Len(t) : t[i] = <<c, l + i>>
    BY <1>1, <2>1, <2>2
  <2>4. t = Pieced(c, l, n - j)
    BY <2>1, <2>2, <2>3, IsPieced
  <2> QED BY <2>4 DEF t, l
<1> QED BY <1>2, <1>3 DEF s

\* One more piece.
LEMMA PiecedOne ==
  ASSUME NEW c \in Clients, NEW k \in Nat, NEW n \in Nat
  PROVE  Append(Pieced(c, k, n), <<c, k + n + 1>>) = Pieced(c, k, n + 1)
<1> DEFINE s == Pieced(c, k, n)
           t == Append(s, <<c, k + n + 1>>)
<1>1. s \in Seq(Piece) /\ Len(s) = n /\ (\A i \in 1..n : s[i] = <<c, k + i>>)
  BY PiecedSeq
<1>2. <<c, k + n + 1>> \in Piece
  BY DEF Piece
<1> HIDE DEF s
<1>3. t \in Seq(Piece) /\ Len(t) = n + 1 /\ t[n + 1] = <<c, k + n + 1>> /\ \A i \in 1..n : t[i] = s[i]
  BY <1>1, <1>2
<1>4. k + (n + 1) = k + n + 1 /\ \A i \in 1..n+1 : i \in 1..n \/ i = n + 1
  OBVIOUS
<1> HIDE DEF t
<1>5. \A i \in 1..Len(t) : t[i] = <<c, k + i>>
  BY <1>1, <1>3, <1>4
<1>6. t = Pieced(c, k, n + 1)
  BY <1>3, <1>5, IsPieced
<1> QED BY <1>6 DEF s, t

\* A client that has got some of its pieces in order may get later ones.
LEMMA LossyMore ==
  ASSUME NEW c \in Clients, NEW j \in Nat, NEW l \in Nat, NEW s \in Seq(Part), NEW w \in Seq(Part),
         w = Pieced(c, j, l), Own(c, j, s), Rising(s), NEW t, t = s \o w
  PROVE  Own(c, j + l, t) /\ Rising(t)
<1> DEFINE g == Len(s)
<1>1. g \in Nat /\ Len(w) \in Nat
  OBVIOUS
<1>2. Len(w) = l /\ \A i \in 1..l : w[i] = <<c, j + i>>
  <2>1. w = Pieced(c, j, l)
    OBVIOUS
  <2> QED BY ONLY <2>1, PiecedSeq, j \in Nat, l \in Nat, c \in Clients
<1>3. /\ Len(t) = g + l /\ \A i \in 1..g : t[i] = s[i]
      /\ \A i \in 1..g+l : i > g => t[i] = w[i - g]
  <2>1. Len(s \o w) = Len(s) + Len(w)
        /\ \A i \in 1..Len(s)+Len(w) : (s \o w)[i] = IF i <= Len(s) THEN s[i] ELSE w[i - Len(s)]
    BY ConcatProperties
  <2>2. Len(t) = g + l /\ \A i \in 1..g+l : t[i] = IF i <= g THEN s[i] ELSE w[i - g]
    BY <1>2, <2>1
  <2>3. \A i \in 1..g : i \in 1..g+l /\ i <= g
    BY <1>1
  <2>4. \A i \in 1..g+l : i > g => ~(i <= g)
    BY <1>1
  <2> HIDE DEF g
  <2> QED BY <2>2, <2>3, <2>4
<1>4. /\ \A i \in 1..g : \E h \in 1..j : s[i] = <<c, h>>
      /\ \A i, h \in 1..g : i < h => s[i][2] < s[h][2]
  BY DEF Own, Rising
<1> HIDE DEF g
<1>5. ASSUME NEW i \in 1..g+l, i > g
      PROVE  t[i] = <<c, j + (i - g)>> /\ j + (i - g) \in 1..j+l /\ t[i][2] = j + (i - g)
  <2>1. i - g \in 1..l
    BY <1>1, <1>5
  <2>2. t[i] = <<c, j + (i - g)>>
    BY <1>2, <1>3, <1>5, <2>1
  <2>3. j + (i - g) \in 1..j+l
    BY <2>1
  <2> QED BY <2>2, <2>3
<1>6. ASSUME NEW i \in 1..g PROVE \E h \in 1..j : t[i] = <<c, h>> /\ t[i][2] = h
  <2>1. PICK h \in 1..j : s[i] = <<c, h>>
    BY <1>4
  <2>2. t[i] = <<c, h>>
    BY <1>3, <2>1
  <2> QED BY <2>2
<1>7. ASSUME NEW i \in 1..g+l PROVE \E h \in 1..j+l : t[i] = <<c, h>>
  <2>1. CASE i > g
    BY <1>5, <2>1
  <2>2. CASE i \in 1..g
    <3>1. \A h \in 1..j : h \in 1..j+l
      OBVIOUS
    <3> QED BY <1>6, <2>2, <3>1
  <2>3. i > g \/ i \in 1..g
    BY <1>1
  <2> QED BY <2>1, <2>2, <2>3
<1>8. ASSUME NEW i \in 1..g+l, NEW h \in 1..g+l, i < h PROVE t[i][2] < t[h][2]
  <2>1. CASE h \in 1..g
    <3>1. i \in 1..g
      BY <1>1, <1>8, <2>1
    <3>2. s[i][2] < s[h][2]
      BY <1>4, <1>8, <2>1, <3>1
    <3> QED BY <1>3, <2>1, <3>1, <3>2
  <2>2. CASE h > g /\ i \in 1..g
    <3>1. PICK x \in 1..j : t[i][2] = x
      BY <1>6, <2>2
    <3>2. t[h][2] = j + (h - g)
      BY <1>5, <2>2
    <3>3. x < j + (h - g)
      BY <1>1, <2>2
    <3> QED BY <3>1, <3>2, <3>3
  <2>3. CASE h > g /\ i > g
    <3>1. t[i][2] = j + (i - g) /\ t[h][2] = j + (h - g)
      BY <1>5, <2>3
    <3>2. j + (i - g) < j + (h - g)
      BY <1>1, <1>8
    <3> QED BY <3>1, <3>2
  <2>4. h \in 1..g \/ (h > g /\ i \in 1..g) \/ (h > g /\ i > g)
    BY <1>1
  <2> QED BY <2>1, <2>2, <2>3, <2>4
<1> QED BY <1>3, <1>7, <1>8 DEF Own, Rising

-----------------------------------------------------------------------------
(* What a server has of a client *)

\* One more piece is on its way.
LEMMA SendOne ==
  ASSUME NEW c \in Clients, NEW m \in Members, NEW s \in Seq(Piece), Sends(c, m, s),
         m.st = "open", m.sent < Pieces,
         NEW n1 \in Nat, n1 = m.sent + 1,
         NEW m2 \in Members, m2.st = m.st, m2.got = m.got, m2.sent = n1
  PROVE  Sends(c, m2, Append(s, <<c, n1>>)) /\ Reached(m2, Append(s, <<c, n1>>)) = Reached(m, s)
<1> DEFINE s2 == Append(s, <<c, n1>>)
           k == m.sent - Len(s)
           n == Len(s)
<1>1. s2 = Append(s, <<c, m.sent + 1>>) /\ m2.sent = m.sent + 1
  OBVIOUS
<1>2. m.sent \in Nat /\ n \in Nat /\ k \in Nat /\ k + n = m.sent /\ s = Pieced(c, k, n)
  BY DEF Sends, Members
<1>3. <<c, m.sent + 1>> \in Piece
  BY <1>2 DEF Piece
<1>4. s2 \in Seq(Piece) /\ Len(s2) = n + 1
  BY <1>1, <1>3
<1> HIDE DEF k, n, s2
<1>5. s2 = Pieced(c, k, n + 1)
  <2>1. m.sent + 1 = k + n + 1
    BY <1>2
  <2> QED BY <1>1, <1>2, <2>1, PiecedOne
<1>6. m2.sent - Len(s2) = k /\ Len(s2) <= m2.sent /\ m2.sent <= Pieces
  <2>1. Pieces \in Nat
    BY ServersAssumption
  <2>2. m2.sent = k + n + 1
    BY <1>1, <1>2
  <2>3. k + n < Pieces
    BY <1>2
  <2> QED BY <1>2, <1>4, <2>1, <2>2, <2>3
<1>7. m2.st # "new" /\ m2.st # "fin"
  OBVIOUS
<1>8. Reached(m, s) = k
  BY DEF Reached, k
<1>9. Sends(c, m2, s2) /\ Reached(m2, s2) = Reached(m, s)
  BY <1>4, <1>5, <1>6, <1>7, <1>8 DEF Sends, Reached
<1> QED BY <1>9 DEF s2

\* What a client has got may be behind by more, unless it must have got it all.
LEMMA BehindLater ==
  ASSUME NEW mode, NEW c \in Clients, NEW m \in Members, NEW k \in Nat, NEW l \in Nat, k <= l,
         Behind(mode, c, m, k), mode = "echo" /\ m.st # "left" => k = l
  PROVE  Behind(mode, c, m, l)
<1>1. Len(m.got) \in Nat
  BY DEF Members
<1>2. \A j \in 1..k : j \in 1..l
  OBVIOUS
<1> QED BY <1>1, <1>2 DEF Behind, Own

\* It matters what a client has got, and that it has not left.
LEMMA BehindKept ==
  ASSUME NEW mode, NEW c, NEW m, NEW m2, NEW k, Behind(mode, c, m, k),
         mode = "answer" \/ m2.got = m.got, m2.st # "left" => m.st # "left"
  PROVE  Behind(mode, c, m2, k)
BY DEF Behind

\* It matters what a server has, and what has reached it.
LEMMA FlowsKept ==
  ASSUME NEW mode, NEW c, NEW m, NEW s, NEW r, NEW m2, NEW s2, NEW r2, Flows(mode, c, m, s, r),
         Reached(m2, s2) = Reached(m, s),
         mode = "answer" \/ m2.got = m.got, m2.st # "left" => m.st # "left",
         r2.rio = r.rio, r2.line = r.line, r2.pc \in Hearing => r.pc \in Hearing
  PROVE  Flows(mode, c, m2, s2, r2)
BY BehindKept DEF Flows

\* A connection that nobody has read is served from where it stands.
LEMMA FlowsStart ==
  ASSUME NEW mode, NEW c \in Clients, NEW m \in Members, NEW s \in Seq(Piece), NEW r,
         Sends(c, m, s), Behind(mode, c, m, Reached(m, s)), r.rio = <<>>, r.line = <<>>
  PROVE  Flows(mode, c, m, s, r)
<1>1. Reached(m, s) \in Nat
  BY DEF Sends, Reached, Members
<1>2. Len(r.rio) = 0 /\ Len(r.line) = 0
  OBVIOUS
<1> QED BY <1>1, <1>2, PiecedNone DEF Flows

\* Pieces come into the buffer.
LEMMA FlowsMore ==
  ASSUME NEW mode, NEW c \in Clients, NEW m \in Members, NEW s \in Seq(Piece), NEW r \in Contexts,
         Sends(c, m, s), Flows(mode, c, m, s, r), NEW n \in 1..Len(s),
         NEW r2, r2.pc = r.pc, r2.line = r.line, r2.rio = r.rio \o SubSeq(s, 1, n),
         NEW s2, s2 = SubSeq(s, n + 1, Len(s))
  PROVE  Sends(c, m, s2) /\ Flows(mode, c, m, s2, r2)
<1> DEFINE a == m.sent - Len(s)
           l == Len(s)
           b == Len(r.rio)
           k == a - b
<1>1. m.sent \in Nat /\ l \in Nat /\ a \in Nat /\ s = Pieced(c, a, l) /\ n \in 0..l
  BY DEF Sends, Members
<1>2. r.rio \in Seq(Piece) /\ r.line \in Seq(Part) /\ Len(r.line) \in Nat
  BY DEF Contexts
<1>3. b \in Nat /\ k \in Nat /\ r.rio = Pieced(c, k, b) /\ k + b = a
  <2>1. Reached(m, s) = a
    BY DEF Reached
  <2>2. 0 <= k - Len(r.line) /\ r.rio = Pieced(c, k, b)
    BY <2>1 DEF Flows
  <2>3. k + b = a
    BY <1>1, <1>2
  <2> HIDE DEF a, k
  <2>4. k \in Int
    BY <1>1, <1>2 DEF k
  <2> QED BY <1>1, <1>2, <2>2, <2>3, <2>4
<1>4. Reached(m, s) - Len(r.rio) = k
  BY DEF Reached
<1>5. l = Len(s) /\ b = Len(r.rio) /\ a = m.sent - l /\ s2 = SubSeq(s, n + 1, l)
  OBVIOUS
<1> HIDE DEF a, b, k, l
<1>6. SubSeq(s, 1, n) = Pieced(c, a, n) /\ s2 = Pieced(c, a + n, l - n)
  <2>1. SubSeq(Pieced(c, a, l), 1, n) = Pieced(c, a, n) /\ SubSeq(Pieced(c, a, l), n + 1, l) = Pieced(c, a + n, l - n)
    BY <1>1, PiecedParts
  <2> QED BY <1>5, <1>1, <2>1
<1>7. r2.rio = Pieced(c, k, b + n)
  <2>1. Pieced(c, k, b) \o Pieced(c, k + b, n) = Pieced(c, k, b + n)
    <3>1. k \in Nat /\ b \in Nat /\ n \in Nat
      BY <1>1, <1>3
    <3> QED BY <3>1, PiecedPieced, Zenon
  <2> QED BY <1>3, <1>6, <2>1
<1>8. Len(s2) = l - n
  <2>1. a + n \in Nat /\ l - n \in Nat
    BY ONLY <1>1
  <2> QED BY <1>6, <2>1, PiecedLen
<1>9. Len(r2.rio) = b + n
  <2>1. b + n \in Nat
    BY <1>1, <1>3
  <2>2. Len(Pieced(c, k, b + n)) = b + n
    BY <1>3, <2>1, PiecedLen, Zenon
  <2> QED BY <1>7, <2>2, Zenon
<1>10. a + n = m.sent - (l - n)
  BY <1>5, <1>1
<1>11. Sends(c, m, s2)
  <2>1. Len(s2) <= m.sent
    BY <1>5, <1>1, <1>8
  <2> QED BY <1>6, <1>8, <1>10, <2>1 DEF Sends
<1>12. Reached(m, s2) - Len(r2.rio) = k
  <2>1. Reached(m, s2) = a + n
    BY <1>8, <1>10 DEF Reached
  <2>2. (a + n) - (b + n) = k
    BY <1>1, <1>3
  <2> QED BY <1>9, <2>1, <2>2
<1>13. Flows(mode, c, m, s2, r2)
  BY <1>7, <1>9, <1>12, <1>4 DEF Flows
<1> QED BY <1>11, <1>13

\* A line leaves the buffer, to be echoed or, as a request, to be understood.
LEMMA FlowsTaken ==
  ASSUME NEW mode, NEW c \in Clients, NEW m \in Members, NEW s \in Seq(Piece), NEW r \in Contexts,
         Sends(c, m, s), Flows(mode, c, m, s, r), r.line = <<>>, NEW n \in 1..Len(r.rio),
         NEW r2, r2.rio = SubSeq(r.rio, n + 1, Len(r.rio)),
         \/ r2.line = SubSeq(r.rio, 1, n) /\ r2.pc \notin Hearing
         \/ r2.line = <<>> /\ mode = "answer"
  PROVE  /\ Flows(mode, c, m, s, r2)
         /\ Len(r2.rio) = Len(r.rio) - n
<1> DEFINE a == Reached(m, s)
           b == Len(r.rio)
           k == a - b
<1>1. b \in Nat /\ a \in Nat /\ n \in 0..b /\ r.rio \in Seq(Piece)
  BY DEF Sends, Reached, Members, Contexts
<1>2. Len(r.line) = 0
  OBVIOUS
<1>3. k \in Nat /\ r.rio = Pieced(c, k, b) /\ Behind(mode, c, m, k) /\ k - 0 = k
  BY <1>1, <1>2 DEF Flows
<1>4. b = Len(r.rio) /\ a = Reached(m, s) /\ k = a - b /\ r2.rio = SubSeq(r.rio, n + 1, b)
  OBVIOUS
<1> HIDE DEF a, b, k
<1>5. SubSeq(r.rio, 1, n) = Pieced(c, k, n) /\ r2.rio = Pieced(c, k + n, b - n)
  <2>1. SubSeq(Pieced(c, k, b), 1, n) = Pieced(c, k, n) /\ SubSeq(Pieced(c, k, b), n + 1, b) = Pieced(c, k + n, b - n)
    BY <1>1, <1>3, PiecedParts
  <2> QED BY <1>4, <1>3, <2>1
<1>6. Len(r2.rio) = b - n /\ a - (b - n) = k + n /\ k + n \in Nat
  <2>1. a - (b - n) = k + n /\ k + n \in Nat /\ b - n \in Nat
    <3>1. k = a - b
      BY <1>4
    <3>2. ASSUME NEW x \in Nat, NEW y \in Nat, NEW z \in 0..y, x - y \in Nat
          PROVE  x - (y - z) = (x - y) + z /\ (x - y) + z \in Nat /\ y - z \in Nat
      BY ONLY x \in Nat, y \in Nat, z \in 0..y, x - y \in Nat
    <3> QED BY <1>1, <1>3, <3>1, <3>2, Zenon
  <2>2. Len(Pieced(c, k + n, b - n)) = b - n
    BY <2>1, PiecedLen, Zenon
  <2> QED BY <1>5, <2>1, <2>2, Zenon
<1>7. CASE r2.line = SubSeq(r.rio, 1, n) /\ r2.pc \notin Hearing
  <2>1. Len(r2.line) = n
    <3>1. n \in Nat
      BY <1>1
    <3>2. Len(Pieced(c, k, n)) = n
      BY <1>3, <3>1, PiecedLen, Zenon
    <3> QED BY <1>5, <1>7, <3>2, Zenon
  <2>2. (k + n) - n = k
    BY <1>1, <1>3
  <2> QED BY <1>3, <1>5, <1>6, <1>7, <2>1, <2>2 DEF Flows, a
<1>8. CASE r2.line = <<>> /\ mode = "answer"
  <2>1. Len(r2.line) = 0 /\ r2.line = Pieced(c, k + n, 0) /\ (k + n) - 0 = k + n
    BY <1>6, <1>8, PiecedNone
  <2>2. Behind(mode, c, m, k + n)
    BY <1>8 DEF Behind
  <2>3. Reached(m, s) - Len(r2.rio) = k + n
    BY <1>4, <1>6
  <2>4. 0 <= (k + n) - Len(r2.line) /\ (k + n) - Len(r2.line) = k + n
    BY <1>6, <2>1
  <2>5. r2.rio = Pieced(c, k + n, Len(r2.rio))
    BY <1>5, <1>6
  <2> QED BY <1>8, <2>1, <2>2, <2>3, <2>4, <2>5 DEF Flows
<1> QED BY <1>4, <1>6, <1>7, <1>8

\* The line is echoed.
LEMMA FlowsEchoed ==
  ASSUME NEW mode, NEW c \in Clients, NEW m \in Members, NEW s \in Seq(Piece), NEW r \in Contexts,
         Sends(c, m, s), Flows(mode, c, m, s, r),
         NEW m2 \in Members, m2.st = m.st, m2.sent = m.sent,
         m2.got = IF m.st = "left" THEN m.got ELSE m.got \o r.line
  PROVE  Behind(mode, c, m2, Reached(m2, s) - Len(r.rio))
<1> DEFINE k == Reached(m, s) - Len(r.rio)
           l == Len(r.line)
           j == k - l
           g == Len(m.got)
<1>1. Len(r.rio) \in Nat /\ l \in Nat /\ Reached(m, s) \in Int /\ g \in Nat
  BY DEF Sends, Reached, Members, Contexts
<1>2. k \in Nat /\ j \in Nat /\ j + l = k /\ Behind(mode, c, m, j) /\ r.line = Pieced(c, j, l)
  BY <1>1 DEF Flows
<1>3. Reached(m2, s) = Reached(m, s)
  BY DEF Reached
<1> HIDE DEF k, j, l, g
<1>4. CASE m.st = "left"
  <2>1. Behind(mode, c, m2, j)
    BY <1>2, <1>4, BehindKept
  <2>2. Behind(mode, c, m2, k)
    BY <1>1, <1>2, <1>4, <2>1, BehindLater
  <2> QED BY <1>3, <2>2 DEF k
<1>5. CASE m.st # "left" /\ mode = "echo"
  <2>1. m.got = Pieced(c, 0, g) /\ g = j
    BY <1>2, <1>5 DEF Behind, g
  <2>2. m2.got = m.got \o r.line
    BY <1>5
  <2>3. m2.got = Pieced(c, 0, j + l)
    <3>1. Pieced(c, 0, j) \o Pieced(c, 0 + j, l) = Pieced(c, 0, j + l)
      <4>1. 0 \in Nat /\ j \in Nat /\ l \in Nat
        BY <1>1, <1>2
      <4> QED BY <4>1, PiecedPieced, Zenon
    <3>2. 0 + j = j
      BY <1>2
    <3>3. m2.got = Pieced(c, 0, j) \o Pieced(c, j, l)
      BY <1>2, <2>1, <2>2
    <3> QED BY <3>1, <3>2, <3>3
  <2>4. Len(m2.got) = j + l
    <3>1. j + l \in Nat /\ 0 \in Nat
      BY <1>1, <1>2
    <3>2. Len(Pieced(c, 0, j + l)) = j + l
      BY <3>1, PiecedLen, Zenon
    <3> QED BY <2>3, <3>2
  <2> QED BY <1>2, <1>3, <1>5, <2>3, <2>4 DEF Behind, k
<1>6. CASE m.st # "left" /\ mode = "lossy"
  <2>1. m.got \in Seq(Part) /\ r.line \in Seq(Part)
    BY DEF Members, Contexts
  <2>2. Own(c, j, m.got) /\ Rising(m.got)
    BY <1>2, <1>6 DEF Behind
  <2>3. m2.got = m.got \o r.line
    BY <1>6
  <2>4. Own(c, j + l, m2.got) /\ Rising(m2.got)
    BY <1>1, <1>2, <2>1, <2>2, <2>3, LossyMore
  <2>5. Behind(mode, c, m2, j + l)
    <3>1. mode # "echo" /\ mode = "lossy"
      BY <1>6
    <3> QED BY <2>4, <3>1, Zenon DEF Behind
  <2>6. Behind(mode, c, m2, k)
    BY <1>2, <2>5
  <2> QED BY <1>3, <2>6 DEF k
<1>7. CASE mode # "echo" /\ mode # "lossy"
  BY <1>7 DEF Behind
<1> QED BY <1>4, <1>5, <1>6, <1>7

-----------------------------------------------------------------------------
(* One place for every connection *)

\* Who may be busy, and with what.
LEMMA Workers ==
  ASSUME Inv, Tokens, NEW p \in Procs, proc[p].pc \in Busy
  PROVE  /\ proc[p].fd \in Fd /\ Conn(p) \in Clients /\ ~Waits(Conn(p))
         /\ \/ kind \in {"process", "thread"} /\ p \in Spawned /\ Conn(p) = p
            \/ kind \in {"iterative", "select", "tiny"} /\ p = Main
            \/ kind = "prethreaded" /\ p \in Threads /\ Working(p) /\ Held(p) = proc[p].fd
<1>1. /\ proc[p].fd \in Fd \cup {None} /\ Stands(p, proc[p].pc) /\ kind \in Names
      /\ p = Main \/ p \in Spawned \/ p \in Threads
      /\ Main \notin Spawned /\ Main \notin Threads /\ Spawned \cap Threads = {} /\ Spawned = Clients
  BY Record DEF Inv, Shape, Spawned
<1>2. files \in [{Main} \cup Spawned -> [Fd -> Clients \cup {None}]]
  BY DEF Inv, TypeOK
<1>3. \A f \in Fd : Open(f) => files[Main][f] \in Clients /\ ~Waits(files[Main][f])
  BY <1>2 DEF Open, Inv, Table
<1>4. CASE kind \in {"iterative", "select", "tiny"}
  <2>1. p = Main /\ proc[Main].pc \notin {"accept", "check"}
    BY <1>1, <1>4 DEF Stands, Busy, Hearing
  <2>2. Open(proc[Main].fd)
    BY <1>4, <2>1 DEF Inv, Hands, Works, InHand
  <2>3. Conn(p) = files[Main][proc[Main].fd]
    BY <2>1 DEF Conn, Process
  <2> QED BY <1>3, <1>4, <2>1, <2>2, <2>3 DEF Open
<1>5. CASE kind = "process"
  <2>1. p \in Spawned /\ p \in Clients /\ proc[p].pc # "none"
    BY <1>1, <1>5 DEF Stands, Busy, Hearing
  <2>2. Has(p, p, proc[p].fd)
    BY <1>5, <2>1 DEF Inv, Hands, Children
  <2>3. Conn(p) = p /\ proc[p].fd \in Fd
    BY <1>5, <2>2 DEF Has, Conn, Process
  <2>4. ~Waits(p)
    BY <2>1 DEF Inv, Hands, Idle, Fresh
  <2> QED BY <1>5, <2>1, <2>3, <2>4
<1>6. CASE kind = "thread"
  <2>1. p \in Spawned /\ p \in Clients /\ proc[p].pc \in {"read", "write"}
    BY <1>1, <1>6 DEF Stands, Busy, Hearing
  <2>2. Has(p, Main, proc[p].fd)
    BY <1>6, <2>1 DEF Inv, Hands, Detached
  <2>3. Conn(p) = p /\ proc[p].fd \in Fd
    BY <1>6, <2>2 DEF Has, Conn, Process
  <2>4. ~Waits(p)
    BY <2>1 DEF Inv, Hands, Idle, Fresh
  <2> QED BY <1>6, <2>1, <2>3, <2>4
<1>7. CASE kind = "prethreaded"
  <2>1. p \in Threads /\ proc[p].pc \notin {"none", "remove", "once"}
    BY <1>1, <1>7 DEF Stands, Busy, Hearing
  <2>2. Working(p) /\ Held(p) = proc[p].fd /\ Open(proc[p].fd)
    BY <1>7, <2>1 DEF Working, Held, Tokens
  <2>3. Conn(p) = files[Main][proc[p].fd]
    BY <1>7 DEF Conn, Process
  <2> QED BY <1>3, <1>7, <2>1, <2>2, <2>3 DEF Open
<1> QED BY <1>1, <1>4, <1>5, <1>6, <1>7 DEF Names

\* No two serve the same client.
LEMMA Alone ==
  ASSUME Inv, Tokens, NEW c, NEW p \in Procs, NEW q \in Procs, Serves(p, c), Serves(q, c)
  PROVE  p = q
<1>1. proc[p].pc \in Busy /\ Conn(p) = c /\ proc[q].pc \in Busy /\ Conn(q) = c
  BY DEF Serves
<1>2. CASE kind # "prethreaded"
  BY <1>1, <1>2, Workers
<1>3. CASE kind = "prethreaded"
  <2>1. /\ p \in Threads /\ Working(p) /\ Held(p) = proc[p].fd
        /\ q \in Threads /\ Working(q) /\ Held(q) = proc[q].fd
        /\ proc[p].fd \in Fd /\ proc[q].fd \in Fd /\ c \in Clients
    BY <1>1, <1>3, Workers
  <2>2. files[Main][proc[p].fd] = c /\ files[Main][proc[q].fd] = c /\ c # None
    BY <1>1, <1>3, <2>1, ServersAssumption DEF Conn, Process
  <2>3. Held(p) = Held(q)
    BY <2>1, <2>2 DEF Inv, Table
  <2> QED BY <1>3, <2>1, <2>3 DEF Tokens
<1> QED BY <1>2, <1>3

\* Threads go on with the connections they have.
LEMMA TokensKept ==
  ASSUME Tokens, UNCHANGED <<kind, files, sbuf>>,
         kind = "prethreaded" =>
           /\ \A t \in Threads : /\ Working(t)' <=> Working(t)
                                 /\ Working(t) => Held(t)' = Held(t)
           /\ InHand' => InHand /\ proc'[Main].fd = proc[Main].fd
  PROVE  Tokens'
<1> SUFFICES ASSUME kind = "prethreaded" PROVE Tokens'
  BY DEF Tokens
<1>1. \A f : (Open(f)' <=> Open(f)) /\ (Queued(f)' <=> Queued(f))
  BY DEF Open, Queued
<1>2. \A t \in Threads : (Working(t)' <=> Working(t)) /\ (Working(t) => Held(t)' = Held(t))
  OBVIOUS
<1>3. \A i \in DOMAIN sbuf' : Open(sbuf[i])'
  BY <1>1 DEF Tokens
<1>4. \A i, j \in DOMAIN sbuf' : sbuf'[i] = sbuf'[j] => i = j
  BY DEF Tokens
<1>5. \A t \in Threads : Working(t)' => Open(Held(t))' /\ ~Queued(Held(t))'
  BY <1>1, <1>2 DEF Tokens
<1>6. \A t, u \in Threads : Working(t)' /\ Working(u)' /\ Held(t)' = Held(u)' => t = u
  BY <1>2 DEF Tokens
<1>7. InHand' => /\ Open(proc[Main].fd)' /\ ~Queued(proc[Main].fd)'
                 /\ \A t \in Threads : Working(t)' => Held(t)' # proc'[Main].fd
  BY <1>1, <1>2 DEF Tokens
<1> QED BY <1>3, <1>4, <1>5, <1>6, <1>7 DEF Tokens

\* A worker takes a step with its connection.
LEMMA TokensGo ==
  ASSUME Inv, Tokens, UNCHANGED <<kind, files, sbuf, taken>>,
         kind = "prethreaded" =>
           \A q \in Procs : \/ proc'[q] = proc[q]
                            \/ /\ q \in Threads /\ Working(q) /\ proc'[q].pc \in Busy
                               /\ proc'[q].fd = Held(q)
  PROVE  Tokens'
<1>1. ASSUME kind = "prethreaded", NEW t \in Threads
      PROVE  (Working(t)' <=> Working(t)) /\ (Working(t) => Held(t)' = Held(t))
  <2>1. t \in Procs
    BY DEF Procs
  <2>2. CASE proc'[t] = proc[t]
    BY <2>2 DEF Working, Held
  <2>3. CASE Working(t) /\ proc'[t].pc \in Busy /\ proc'[t].fd = Held(t)
    <3>1. proc'[t].pc \notin {"none", "remove", "once"}
      BY <2>3 DEF Busy, Hearing
    <3> QED BY <2>3, <3>1 DEF Working, Held
  <2> QED BY <1>1, <2>1, <2>2, <2>3
<1>2. ASSUME kind = "prethreaded" PROVE proc'[Main] = proc[Main]
  BY <1>2, MainRecord DEF Inv
<1>3. kind = "prethreaded" => (InHand' => InHand /\ proc'[Main].fd = proc[Main].fd)
  BY <1>2 DEF InHand
<1> QED BY <1>1, <1>3, TokensKept

\* The connection accept returns is nobody else's.
LEMMA TokensAccept ==
  ASSUME Inv, Tokens, kind = "prethreaded", Accept PROVE Tokens'
<1>1. /\ backlog # <<>> /\ backlog' = Tail(backlog) /\ files' = Accepted
      /\ proc' = [proc EXCEPT ![Main] = Proc(Accepting, Connfd)]
      /\ UNCHANGED <<kind, cli, sbuf, taken>>
  BY DEF Accept, fixed, client, buffer, count
<1>2. Head(backlog) \in Clients /\ Connfd \in Fd
  BY <1>1, TableAccepts DEF Inv
<1>3. PICK h \in Clients, d \in Fd : h = Head(backlog) /\ d = Connfd
  BY <1>2
<1>4. /\ h \in Clients /\ d \in Fd /\ files'[Main][d] = h /\ files[Main][d] = None
      /\ \A f \in Fd : f # d => files'[Main][f] = files[Main][f]
  BY <1>1, <1>3, TableAccepts DEF Inv
<1>5. proc' = [proc EXCEPT ![Main] = Proc("prethreaded", d)]
  BY <1>1, <1>3 DEF Accepting
<1>6. Proc("prethreaded", d).fd = d
  BY DEF Proc
<1>7. proc'[Main].fd = d /\ \A t \in Threads : proc'[t] = proc[t]
  BY <1>5, <1>6, MainRecord DEF Inv, TypeOK, Procs
<1>8. \A t \in Threads : (Working(t)' <=> Working(t)) /\ Held(t)' = Held(t)
  BY <1>1, <1>7 DEF Working, Held
<1>9. Open(d)' /\ ~Open(d) /\ \A f : Open(f) => Open(f)' /\ f # d
  <2>1. h # None
    BY ServersAssumption
  <2>2. Open(d)' /\ ~Open(d)
    BY <1>4, <2>1 DEF Open
  <2>3. \A f : Open(f) => f # d
    BY <2>2
  <2>4. \A f : Open(f) => Open(f)'
    BY <1>4, <2>3 DEF Open
  <2> QED BY <2>2, <2>3, <2>4
<1>10. \A f : Queued(f)' <=> Queued(f)
  BY <1>1 DEF Queued
<1>11. ~Queued(d) /\ \A t \in Threads : Working(t) => Held(t) # d
  BY <1>9 DEF Tokens, Queued
<1>12. \A i \in DOMAIN sbuf' : Open(sbuf[i])'
  BY <1>1, <1>9 DEF Tokens
<1>13. \A i, j \in DOMAIN sbuf' : sbuf'[i] = sbuf'[j] => i = j
  BY <1>1 DEF Tokens
<1>14. \A t \in Threads : Working(t)' => Open(Held(t))' /\ ~Queued(Held(t))'
  BY <1>8, <1>9, <1>10 DEF Tokens
<1>15. \A t, u \in Threads : Working(t)' /\ Working(u)' /\ Held(t)' = Held(u)' => t = u
  BY <1>8 DEF Tokens
<1>16. /\ Open(proc[Main].fd)' /\ ~Queued(proc[Main].fd)'
       /\ \A t \in Threads : Working(t)' => Held(t)' # proc'[Main].fd
  BY <1>7, <1>8, <1>9, <1>10, <1>11
<1> QED BY <1>12, <1>13, <1>14, <1>15, <1>16 DEF Tokens

\* Main puts its connection into the buffer, and no longer has it.
LEMMA TokensInsert ==
  ASSUME Inv, Tokens, sbuf_insert PROVE Tokens'
<1>1. /\ proc[Main].pc = "prethreaded"
      /\ proc' = [proc EXCEPT ![Main] = Proc("accept", None)]
      /\ sbuf' = Append(sbuf, proc[Main].fd) /\ UNCHANGED <<kind, files, taken>>
  BY DEF sbuf_insert, Sbuf!Put, fixed, client, count, At
<1> DEFINE d == proc[Main].fd
<1>2. kind = "prethreaded" /\ InHand
  BY <1>1, MainRecord DEF Inv, Stands, InHand
<1>3. Proc("accept", None).pc = "accept"
  BY DEF Proc
<1>4. proc'[Main].pc = "accept" /\ \A t \in Threads : proc'[t] = proc[t]
  BY <1>1, <1>3, MainRecord DEF Inv, TypeOK, Procs
<1>5. sbuf \in Seq(Fd \cup {None}) /\ d \in Fd \cup {None}
  BY MainRecord DEF Inv, TypeOK, DataOK
<1>6. /\ DOMAIN sbuf' = DOMAIN sbuf \cup {Len(sbuf) + 1} /\ sbuf'[Len(sbuf) + 1] = d
      /\ Len(sbuf) + 1 \notin DOMAIN sbuf /\ \A i \in DOMAIN sbuf : sbuf'[i] = sbuf[i]
  BY <1>1, <1>5
<1>7. Open(d) /\ ~Queued(d) /\ \A t \in Threads : Working(t) => Held(t) # d
  BY <1>2 DEF Tokens
<1> HIDE DEF d
<1>8. \A t \in Threads : (Working(t)' <=> Working(t)) /\ Held(t)' = Held(t)
  BY <1>1, <1>4 DEF Working, Held
<1>9. \A f : (Open(f)' <=> Open(f)) /\ (Queued(f)' => Queued(f) \/ f = d)
  BY <1>1, <1>6 DEF Open, Queued
<1>10. \A i \in DOMAIN sbuf' : Open(sbuf[i])'
  BY <1>2, <1>6, <1>7, <1>9 DEF Tokens
<1>11. \A i, j \in DOMAIN sbuf' : sbuf'[i] = sbuf'[j] => i = j
  BY <1>2, <1>6, <1>7 DEF Tokens, Queued
<1>12. \A t \in Threads : Working(t)' => Open(Held(t))' /\ ~Queued(Held(t))'
  BY <1>2, <1>7, <1>8, <1>9 DEF Tokens
<1>13. \A t, u \in Threads : Working(t)' /\ Working(u)' /\ Held(t)' = Held(u)' => t = u
  BY <1>2, <1>8 DEF Tokens
<1>14. ~InHand'
  BY <1>4 DEF InHand
<1> QED BY <1>10, <1>11, <1>12, <1>13, <1>14 DEF Tokens

\* A worker takes the first connection of the buffer.
LEMMA TokensRemove ==
  ASSUME Inv, Tokens, NEW t \in Threads, sbuf_remove(t) PROVE Tokens'
<1>1. /\ proc[t].pc = "remove" /\ proc' = [proc EXCEPT ![t].pc = "once"]
      /\ sbuf # <<>> /\ taken' = [taken EXCEPT ![t] = Head(sbuf)] /\ sbuf' = Tail(sbuf)
      /\ UNCHANGED <<kind, files>>
  BY DEF sbuf_remove, Sbuf!Get, At, Goto, fixed, client, count
<1>2. t \in Procs /\ t # Main /\ kind = "prethreaded"
  BY <1>1, Worker
<1>3. /\ proc'[t].pc = "once" /\ proc'[Main] = proc[Main]
      /\ \A u \in Threads : u # t => proc'[u] = proc[u] /\ taken'[u] = taken[u]
  BY <1>1, <1>2, MainRecord DEF Inv, TypeOK, DataOK, Procs, Contexts
<1>4. Head(sbuf) \in Fd \cup {None}
  BY <1>1 DEF Inv, TypeOK, DataOK
<1>5. PICK d \in Fd \cup {None} : d = Head(sbuf)
  BY <1>4
<1>6. sbuf \in Seq(Fd \cup {None}) /\ taken'[t] = d
  BY <1>1, <1>5 DEF Inv, TypeOK, DataOK
<1>7. /\ 1 \in DOMAIN sbuf /\ sbuf[1] = d
      /\ \A i \in DOMAIN sbuf' : i + 1 \in DOMAIN sbuf /\ sbuf'[i] = sbuf[i + 1] /\ i \in Nat /\ i + 1 # 1
  BY <1>1, <1>6, <1>5
<1>8. Open(d) /\ Queued(d) /\ ~Queued(d)'
  <2>1. Open(d) /\ Queued(d)
    BY <1>2, <1>7 DEF Tokens, Queued
  <2>2. \A i \in DOMAIN sbuf' : sbuf'[i] # d
    BY <1>2, <1>7 DEF Tokens
  <2> QED BY <2>1, <2>2 DEF Queued
<1>9. \A f : (Open(f)' <=> Open(f)) /\ (Queued(f)' => Queued(f))
  <2>1. \A f : Queued(f)' => Queued(f)
    BY <1>7 DEF Queued
  <2> QED BY <1>1, <2>1 DEF Open
<1>10. Working(t)' /\ Held(t)' = d /\ ~Working(t)
  BY <1>1, <1>3, <1>6 DEF Working, Held
<1>11. \A u \in Threads : u # t => (Working(u)' <=> Working(u)) /\ Held(u)' = Held(u)
  BY <1>3 DEF Working, Held
<1>12. \A u \in Threads : Working(u) => Held(u) # d
  BY <1>2, <1>8 DEF Tokens
<1>13. \A i \in DOMAIN sbuf' : Open(sbuf[i])'
  BY <1>2, <1>7, <1>9 DEF Tokens
<1>14. \A i, j \in DOMAIN sbuf' : sbuf'[i] = sbuf'[j] => i = j
  <2>1. ASSUME NEW i \in DOMAIN sbuf', NEW j \in DOMAIN sbuf', sbuf'[i] = sbuf'[j] PROVE i + 1 = j + 1
    BY <1>2, <1>7, <2>1 DEF Tokens
  <2> QED BY <1>7, <2>1
<1>15. \A u \in Threads : Working(u)' => Open(Held(u))' /\ ~Queued(Held(u))'
  BY <1>2, <1>8, <1>9, <1>10, <1>11 DEF Tokens
<1>16. \A u, v \in Threads : Working(u)' /\ Working(v)' /\ Held(u)' = Held(v)' => u = v
  BY <1>2, <1>10, <1>11, <1>12 DEF Tokens
<1>17. InHand' => /\ Open(proc[Main].fd)' /\ ~Queued(proc[Main].fd)'
                  /\ \A u \in Threads : Working(u)' => Held(u)' # proc'[Main].fd
  <2>1. InHand' => InHand
    BY <1>3 DEF InHand
  <2>2. InHand => Open(proc[Main].fd) /\ ~Queued(proc[Main].fd)
                  /\ \A u \in Threads : Working(u) => Held(u) # proc[Main].fd
    BY <1>2 DEF Tokens
  <2> QED BY <1>3, <1>8, <1>9, <1>10, <1>11, <2>1, <2>2
<1> QED BY <1>13, <1>14, <1>15, <1>16, <1>17 DEF Tokens

\* A thread closes its connection, which nobody else has.
LEMMA TokensClose ==
  ASSUME Inv, Tokens, kind = "prethreaded", NEW t \in Threads, proc[t].pc = "read",
         files' = [files EXCEPT ![Main][proc[t].fd] = None],
         proc' = [proc EXCEPT ![t] = Proc("remove", None)], UNCHANGED <<kind, sbuf, taken>>
  PROVE  Tokens'
<1> DEFINE d == proc[t].fd
<1>1. t \in Procs /\ t # Main
  BY Worker
<1>2. Working(t) /\ Held(t) = d
  BY DEF Working, Held
<1>3. d \in Fd /\ Open(d) /\ ~Queued(d)
  BY <1>2 DEF Tokens, Open
<1>4. Proc("remove", None).pc = "remove"
  BY DEF Proc
<1>5. proc'[t].pc = "remove" /\ proc'[Main] = proc[Main] /\ \A u \in Threads : u # t => proc'[u] = proc[u]
  BY <1>1, <1>4, MainRecord DEF Inv, TypeOK, Procs
<1>6. \A f \in Fd : f # d => files'[Main][f] = files[Main][f]
  BY <1>3, MainFileCloses
<1> HIDE DEF d
<1>7. \A f : Open(f) /\ f # d => Open(f)'
  BY <1>6 DEF Open
<1>8. ~Working(t)' /\ \A u \in Threads : u # t => (Working(u)' <=> Working(u)) /\ Held(u)' = Held(u)
  BY <1>5 DEF Working, Held
<1>9. \A f : Queued(f)' <=> Queued(f)
  BY DEF Queued
<1>10. \A u \in Threads : Working(u) /\ u # t => Held(u) # d
  BY <1>2 DEF Tokens
<1>11. \A i \in DOMAIN sbuf' : Open(sbuf[i])'
  BY <1>3, <1>7 DEF Tokens, Queued
<1>12. \A i, j \in DOMAIN sbuf' : sbuf'[i] = sbuf'[j] => i = j
  BY DEF Tokens
<1>13. \A u \in Threads : Working(u)' => Open(Held(u))' /\ ~Queued(Held(u))'
  BY <1>7, <1>8, <1>9, <1>10 DEF Tokens
<1>14. \A u, v \in Threads : Working(u)' /\ Working(v)' /\ Held(u)' = Held(v)' => u = v
  BY <1>8 DEF Tokens
<1>15. InHand' => /\ Open(proc[Main].fd)' /\ ~Queued(proc[Main].fd)'
                  /\ \A u \in Threads : Working(u)' => Held(u)' # proc'[Main].fd
  <2>1. InHand' => InHand
    BY <1>5 DEF InHand
  <2>2. InHand => Open(proc[Main].fd) /\ ~Queued(proc[Main].fd)
                  /\ \A u \in Threads : Working(u) => Held(u) # proc[Main].fd
    BY DEF Tokens
  <2> QED BY <1>2, <1>5, <1>7, <1>8, <1>9, <2>1, <2>2
<1> QED BY <1>11, <1>12, <1>13, <1>14, <1>15 DEF Tokens

-----------------------------------------------------------------------------
(* The order of the pieces *)

\* A step that moves no piece of d between the server's hands.
LEMMA StreamKept ==
  ASSUME NEW d \in Clients, StreamOf(d), UNCHANGED <<kind, eager>>,
         Sends(d, cli[d], sock[d])', Reached(cli[d], sock[d])' = Reached(cli[d], sock[d]),
         Mode(d) = "answer" \/ cli'[d].got = cli[d].got, cli'[d].st # "left" => cli[d].st # "left",
         \A q \in Procs : Serves(q, d)' => /\ Serves(q, d)
                                           /\ proc'[q].rio = proc[q].rio /\ proc'[q].line = proc[q].line
                                           /\ proc'[q].pc \in Hearing => proc[q].pc \in Hearing,
         (\A q \in Procs : ~Serves(q, d)') => (\A q \in Procs : ~Serves(q, d))
  PROVE  StreamOf(d)'
<1>1. Mode(d)' = Mode(d)
  BY DEF Mode
<1>2. ASSUME NEW q \in Procs, Serves(q, d)' PROVE Flows(Mode(d), d, cli[d], sock[d], proc[q])'
  <2>1. Flows(Mode(d), d, cli[d], sock[d], proc[q])
    BY <1>2 DEF StreamOf
  <2>2. /\ proc'[q].rio = proc[q].rio /\ proc'[q].line = proc[q].line
        /\ proc'[q].pc \in Hearing => proc[q].pc \in Hearing
    BY <1>2
  <2>3. Flows(Mode(d), d, cli'[d], sock'[d], proc'[q])
    BY <2>1, <2>2, FlowsKept
  <2> QED BY <1>1, <2>3
<1>3. (\A q \in Procs : ~Serves(q, d)') => Behind(Mode(d), d, cli[d], Reached(cli[d], sock[d]))'
  <2> SUFFICES ASSUME \A q \in Procs : ~Serves(q, d)'
               PROVE  Behind(Mode(d), d, cli'[d], Reached(cli[d], sock[d]))
    BY <1>1
  <2>1. Behind(Mode(d), d, cli[d], Reached(cli[d], sock[d]))
    BY DEF StreamOf
  <2> QED BY <2>1, BehindKept
<1> QED BY <1>2, <1>3 DEF StreamOf

\* A step that moves no piece between the server's hands.
LEMMA StreamsKept ==
  ASSUME Streams, UNCHANGED <<kind, eager>>,
         \A d \in Clients : /\ Sends(d, cli[d], sock[d])'
                            /\ Reached(cli[d], sock[d])' = Reached(cli[d], sock[d])
                            /\ kind = "tiny" \/ cli'[d].got = cli[d].got
                            /\ cli'[d].st # "left" => cli[d].st # "left",
         \A q \in Procs :
           \/ proc[q].pc \notin Busy /\ proc'[q].pc \notin Busy
           \/ /\ proc[q].pc \in Busy /\ proc'[q].pc \in Busy /\ Conn(q)' = Conn(q)
              /\ proc'[q].rio = proc[q].rio /\ proc'[q].line = proc[q].line
              /\ proc'[q].pc \in Hearing => proc[q].pc \in Hearing
  PROVE  Streams'
<1> SUFFICES ASSUME NEW d \in Clients PROVE StreamOf(d)'
  BY DEF Streams
<1>1. \A q \in Procs : Serves(q, d)' <=> Serves(q, d)
  BY DEF Serves
<1>2. \A q \in Procs : Serves(q, d)' =>
        /\ proc'[q].rio = proc[q].rio /\ proc'[q].line = proc[q].line
        /\ proc'[q].pc \in Hearing => proc[q].pc \in Hearing
  BY DEF Serves
<1>3. kind = "tiny" => Mode(d) = "answer"
  BY DEF Mode
<1>4. StreamOf(d)
  BY DEF Streams
<1>5. Sends(d, cli[d], sock[d])'
  OBVIOUS
<1> QED BY <1>1, <1>2, <1>3, <1>4, <1>5, StreamKept

\* Clients and pieces left alone.
LEMMA StreamsStill ==
  ASSUME Streams, UNCHANGED <<kind, eager, cli, sock>>,
         \A q \in Procs :
           \/ proc[q].pc \notin Busy /\ proc'[q].pc \notin Busy
           \/ /\ proc[q].pc \in Busy /\ proc'[q].pc \in Busy /\ Conn(q)' = Conn(q)
              /\ proc'[q].rio = proc[q].rio /\ proc'[q].line = proc[q].line
              /\ proc'[q].pc \in Hearing => proc[q].pc \in Hearing
  PROVE  Streams'
<1>1. ASSUME NEW d \in Clients PROVE Sends(d, cli[d], sock[d])'
  BY DEF Streams, StreamOf
<1>2. ASSUME NEW d \in Clients PROVE Reached(cli[d], sock[d])' = Reached(cli[d], sock[d])
  OBVIOUS
<1> QED BY <1>1, <1>2, StreamsKept

\* A step of p with the pieces of c, whom nobody else serves.
LEMMA StreamsOne ==
  ASSUME Streams, UNCHANGED <<kind, eager>>, NEW p \in Procs, NEW c \in Clients,
         \A d \in Clients : d # c => cli'[d] = cli[d] /\ sock'[d] = sock[d],
         \A q \in Procs : q # p =>
           \/ proc[q].pc \notin Busy /\ proc'[q].pc \notin Busy
           \/ proc'[q] = proc[q] /\ (proc[q].pc \in Busy => Conn(q)' = Conn(q) /\ Conn(q) # c),
         proc[p].pc \in Busy => Conn(p) = c, proc'[p].pc \in Busy => Conn(p)' = c,
         Sends(c, cli[c], sock[c])',
         proc'[p].pc \in Busy => Flows(Mode(c), c, cli[c], sock[c], proc[p])',
         proc'[p].pc \notin Busy => Behind(Mode(c), c, cli[c], Reached(cli[c], sock[c]))'
  PROVE  Streams'
<1>1. ASSUME NEW d \in Clients, d # c PROVE StreamOf(d)'
  <2>1. \A q \in Procs : (Serves(q, d)' <=> Serves(q, d)) /\ (Serves(q, d) => proc'[q] = proc[q])
    BY <1>1 DEF Serves
  <2>2. StreamOf(d) /\ cli'[d] = cli[d] /\ sock'[d] = sock[d]
    BY <1>1 DEF Streams
  <2>3. Sends(d, cli[d], sock[d])' /\ Reached(cli[d], sock[d])' = Reached(cli[d], sock[d])
    BY <2>2 DEF StreamOf
  <2> QED BY <2>1, <2>2, <2>3, StreamKept
<1>2. StreamOf(c)'
  <2>1. \A q \in Procs : Serves(q, c)' => q = p
    BY DEF Serves
  <2>2. Serves(p, c)' <=> proc'[p].pc \in Busy
    BY DEF Serves
  <2>3. \A q \in Procs : Serves(q, c)' => Flows(Mode(c), c, cli[c], sock[c], proc[q])'
    BY <2>1, <2>2
  <2>4. (\A q \in Procs : ~Serves(q, c)') => Behind(Mode(c), c, cli[c], Reached(cli[c], sock[c]))'
    BY <2>2
  <2> QED BY <2>3, <2>4 DEF StreamOf
<1> QED BY <1>1, <1>2 DEF Streams

-----------------------------------------------------------------------------
(* What the steps of a server do *)

\* What Read does to the buffer, the line and the pieces on their way.
LEMMA ReadDoes ==
  ASSUME Inv, NEW p \in Procs, NEW c \in Clients, Read(p, c)
  PROVE  /\ proc[p].pc \in Hearing
         /\ \E n \in 1..Len(sock[c]), r \in Contexts :
              /\ proc'[p] = r /\ r.pc = proc[p].pc /\ r.fd = proc[p].fd /\ r.line = proc[p].line
              /\ r.rio = proc[p].rio \o SubSeq(sock[c], 1, n)
              /\ sock'[c] = SubSeq(sock[c], n + 1, Len(sock[c]))
         /\ \A q \in Procs : q # p => proc'[q] = proc[q]
         /\ \A d \in Clients : d # c => sock'[d] = sock[d]
         /\ UNCHANGED <<fixed, cli, backlog, files, sbuf, taken, dead>>
<1>1. PICK n \in 1..Len(sock[c]) :
        /\ proc' = [proc EXCEPT ![p].rio = @ \o SubSeq(sock[c], 1, n)]
        /\ sock' = [sock EXCEPT ![c] = SubSeq(@, n + 1, Len(@))]
  BY DEF Read
<1>2. proc[p].pc \in Hearing /\ UNCHANGED <<fixed, cli, backlog, files, sbuf, taken, dead>>
  BY DEF Read, Reading, At, Hearing, fixed, buffer, sig
<1>3. /\ proc[p] \in Contexts /\ proc[p].rio \in Seq(Piece) /\ sock[c] \in Seq(Piece)
      /\ sock \in [Clients -> Seq(Piece)]
  BY Record DEF Inv, TypeOK, DataOK
<1>4. ASSUME NEW s \in Seq(Piece), NEW t \in Seq(Piece), NEW j \in 1..Len(t)
      PROVE  s \o SubSeq(t, 1, j) \in Seq(Piece)
  <2>1. SubSeq(t, 1, j) \in Seq(Piece)
    OBVIOUS
  <2> QED BY <2>1
<1>5. PICK x \in Seq(Piece) : x = proc[p].rio \o SubSeq(sock[c], 1, n)
  BY <1>3, <1>4
<1>6. PICK r \in Contexts : /\ r = [proc[p] EXCEPT !.rio = x] /\ r.pc = proc[p].pc
                            /\ r.fd = proc[p].fd /\ r.rio = x /\ r.line = proc[p].line
  BY <1>3, Refilled
<1>7. proc' = [proc EXCEPT ![p] = r]
  BY <1>1, <1>5, <1>6 DEF Inv, TypeOK
<1>8. proc'[p] = r /\ \A q \in Procs : q # p => proc'[q] = proc[q]
  BY <1>7 DEF Inv, TypeOK
<1>9. /\ sock'[c] = SubSeq(sock[c], n + 1, Len(sock[c]))
      /\ \A d \in Clients : d # c => sock'[d] = sock[d]
  BY <1>1, <1>3
<1> QED BY <1>2, <1>5, <1>6, <1>8, <1>9

\* What Line does.
LEMMA LineDoes ==
  ASSUME Inv, NEW p \in Procs, NEW c \in Clients, Line(p, c)
  PROVE  /\ proc[p].pc = "read"
         /\ \E n \in 1..Len(proc[p].rio), r \in Contexts :
              /\ n = Readline(p, c) /\ proc'[p] = r /\ r.fd = proc[p].fd
              /\ r.pc = (IF kind = "prethreaded" THEN "lock" ELSE "write")
              /\ r.rio = SubSeq(proc[p].rio, n + 1, Len(proc[p].rio))
              /\ r.line = SubSeq(proc[p].rio, 1, n)
         /\ \A q \in Procs : q # p => proc'[q] = proc[q]
         /\ UNCHANGED <<fixed, cli, sock, backlog, files, sbuf, taken, dead>>
<1>1. proc[p].pc = "read" /\ UNCHANGED <<fixed, cli, sock, backlog, files, sbuf, taken, dead>>
  BY DEF Line, At, fixed, client, buffer, sig
<1>2. PICK n \in Nat : /\ n = Readline(p, c) /\ n \in 1..Len(proc[p].rio)
                       /\ proc' \in [Procs -> Contexts] /\ \A q \in Procs : q # p => proc'[q] = proc[q]
                       /\ proc'[p].rio = SubSeq(proc[p].rio, n + 1, Len(proc[p].rio))
                       /\ proc'[p].line = SubSeq(proc[p].rio, 1, n)
                       /\ proc'[p].pc = (IF kind = "prethreaded" THEN "lock" ELSE "write")
                       /\ proc'[p].fd = proc[p].fd
  BY LineTaken
<1>3. PICK r \in Contexts : r = proc'[p]
  BY <1>2
<1>4. /\ n \in 1..Len(proc[p].rio) /\ n = Readline(p, c) /\ proc'[p] = r /\ r.fd = proc[p].fd
      /\ r.pc = (IF kind = "prethreaded" THEN "lock" ELSE "write")
      /\ r.rio = SubSeq(proc[p].rio, n + 1, Len(proc[p].rio))
      /\ r.line = SubSeq(proc[p].rio, 1, n)
  BY <1>2, <1>3
<1>5. \A q \in Procs : q # p => proc'[q] = proc[q]
  BY <1>2
<1> QED BY <1>1, <1>4, <1>5

\* What reaches c, unless it has left.
LEMMA Reaches ==
  ASSUME Inv, NEW c \in Clients, NEW g \in Seq(Part),
         cli' = (IF cli[c].st = "left" THEN cli ELSE [cli EXCEPT ![c].got = g])
  PROVE  /\ \E m \in Members : /\ cli'[c] = m /\ m.st = cli[c].st /\ m.sent = cli[c].sent
                               /\ m.got = IF cli[c].st = "left" THEN cli[c].got ELSE g
         /\ \A d \in Clients : d # c => cli'[d] = cli[d]
<1>1. cli \in [Clients -> Members] /\ cli[c] \in Members
  BY DEF Inv, TypeOK, DataOK
<1>2. CASE cli[c].st = "left"
  BY <1>1, <1>2
<1>3. CASE cli[c].st # "left"
  <2>1. cli' = [cli EXCEPT ![c].got = g]
    BY <1>3
  <2>2. PICK m \in Members : m = [cli[c] EXCEPT !.got = g] /\ m.st = cli[c].st /\ m.sent = cli[c].sent /\ m.got = g
    <3>1. [cli[c] EXCEPT !.got = g] \in Members
      BY <1>1 DEF Members
    <3> QED BY <1>1, <3>1 DEF Members
  <2>3. cli'[c] = m /\ \A d \in Clients : d # c => cli'[d] = cli[d]
    BY <1>1, <2>1, <2>2
  <2> QED BY <1>3, <2>2, <2>3
<1> QED BY <1>2, <1>3

\* What Write does.
LEMMA WriteDoes ==
  ASSUME Inv, NEW p \in Procs, NEW c \in Clients, Write(p, c)
  PROVE  /\ proc[p].pc = "write"
         /\ \E r \in Contexts :
              /\ proc'[p] = r
              /\ kind = "select" => r.pc = "check"
              /\ kind # "select" => /\ r.pc = "read" /\ r.fd = proc[p].fd
                                    /\ r.rio = proc[p].rio /\ r.line = <<>>
         /\ \E m \in Members :
              /\ cli'[c] = m /\ m.st = cli[c].st /\ m.sent = cli[c].sent
              /\ m.got = IF cli[c].st = "left" THEN cli[c].got ELSE cli[c].got \o proc[p].line
         /\ \A q \in Procs : q # p => proc'[q] = proc[q]
         /\ \A d \in Clients : d # c => cli'[d] = cli[d]
         /\ UNCHANGED <<fixed, sock, backlog, files, sbuf, taken, dead>>
<1>1. /\ proc[p].pc = "write" /\ proc' = Again(p)
      /\ cli' = (IF cli[c].st = "left" THEN cli ELSE [cli EXCEPT ![c].got = @ \o proc[p].line])
      /\ UNCHANGED <<fixed, sock, backlog, files, sbuf, taken, dead>>
  BY DEF Write, At, fixed, buffer, sig
<1>2. proc[p] \in Contexts /\ proc[p].line \in Seq(Part) /\ cli[c].got \in Seq(Part)
  BY Record DEF Inv, TypeOK, DataOK, Members
<1>3. PICK g \in Seq(Part) : g = cli[c].got \o proc[p].line
  <2>1. ASSUME NEW s \in Seq(Part), NEW t \in Seq(Part) PROVE s \o t \in Seq(Part)
    OBVIOUS
  <2> QED BY <1>2, <2>1
<1>4. /\ \E m \in Members : /\ cli'[c] = m /\ m.st = cli[c].st /\ m.sent = cli[c].sent
                            /\ m.got = IF cli[c].st = "left" THEN cli[c].got ELSE g
      /\ \A d \in Clients : d # c => cli'[d] = cli[d]
  <2>1. cli' = (IF cli[c].st = "left" THEN cli ELSE [cli EXCEPT ![c].got = g])
    BY <1>1, <1>3
  <2> QED BY <2>1, Reaches
<1>5. /\ \A q \in Procs : q # p => proc'[q] = proc[q]
      /\ \E r \in Contexts : /\ proc'[p] = r
                             /\ kind = "select" => r.pc = "check"
                             /\ kind # "select" => /\ r.pc = "read" /\ r.fd = proc[p].fd
                                                   /\ r.rio = proc[p].rio /\ r.line = <<>>
  <2>1. CASE kind = "select"
    <3>1. PICK r \in Contexts : r = Proc("check", None) /\ r.pc = "check"
      BY Contextual DEF Pcs
    <3>2. proc' = [proc EXCEPT ![p] = r]
      BY <1>1, <2>1, <3>1 DEF Again
    <3> QED BY <2>1, <3>1, <3>2 DEF Inv, TypeOK
  <2>2. CASE kind # "select"
    <3>1. proc' = [proc EXCEPT ![p].pc = "read", ![p].line = <<>>]
      BY <1>1, <2>2 DEF Again
    <3>2. proc \in [Procs -> Contexts] /\ "read" \in Pcs /\ <<>> \in Seq(Part)
      BY DEF Inv, TypeOK, Pcs
    <3>3. proc' \in [Procs -> Contexts]
      BY <3>1, <3>2 DEF Contexts
    <3>4. /\ proc'[p].pc = "read" /\ proc'[p].line = <<>> /\ proc'[p].fd = proc[p].fd
          /\ proc'[p].rio = proc[p].rio /\ \A q \in Procs : q # p => proc'[q] = proc[q]
      BY <3>1, <3>2 DEF Contexts
    <3>5. PICK r \in Contexts : r = proc'[p]
      BY <3>3
    <3> QED BY <2>2, <3>4, <3>5
  <2> QED BY <2>1, <2>2
<1> QED BY <1>1, <1>3, <1>4, <1>5

\* The update of byte_cnt.
LEMMA CountDoes ==
  ASSUME Inv, NEW t \in Threads, Lock(t) \/ Unlock(t)
  PROVE  /\ t \in Procs /\ kind = "prethreaded" /\ proc[t].pc \in {"lock", "store"}
         /\ proc'[t].pc \in {"store", "write"} /\ proc'[t].fd = proc[t].fd
         /\ proc'[t].rio = proc[t].rio /\ proc'[t].line = proc[t].line
         /\ \A q \in Procs : q # t => proc'[q] = proc[q]
         /\ UNCHANGED <<fixed, cli, sock, backlog, files, sbuf, taken, dead>>
<1>1. /\ proc[t].pc \in {"lock", "store"}
      /\ UNCHANGED <<fixed, cli, sock, backlog, files, sbuf, taken, dead>>
      /\ \/ proc' = [proc EXCEPT ![t].pc = "store", ![t].reg = byte_cnt + Len(proc[t].line)]
         \/ proc' = [proc EXCEPT ![t].pc = "write"]
  BY DEF Lock, Unlock, At, Goto, fixed, client, buffer, sig
<1>2. t \in Procs /\ kind = "prethreaded"
  BY <1>1, Worker
<1>3. PICK n : n = byte_cnt + Len(proc[t].line)
  OBVIOUS
<1>4. \/ proc' = [proc EXCEPT ![t].pc = "store", ![t].reg = n]
      \/ proc' = [proc EXCEPT ![t].pc = "write"]
  BY <1>1, <1>3
<1>5. proc \in [Procs -> Contexts]
  BY DEF Inv, TypeOK
<1> QED BY <1>1, <1>2, <1>4, <1>5 DEF Contexts

\* What init_echo_cnt does.
LEMMA OnceDoes ==
  ASSUME Inv, NEW t \in Threads, init_echo_cnt(t)
  PROVE  /\ t \in Procs /\ kind = "prethreaded" /\ proc[t].pc = "once"
         /\ proc'[t].pc = "read" /\ proc'[t].fd = taken[t]
         /\ proc'[t].rio = <<>> /\ proc'[t].line = <<>>
         /\ \A q \in Procs : q # t => proc'[q] = proc[q]
         /\ UNCHANGED <<fixed, cli, sock, backlog, files, sbuf, taken, dead>>
<1>1. /\ proc[t].pc = "once" /\ proc' = [proc EXCEPT ![t] = Proc("read", taken[t])]
      /\ UNCHANGED <<fixed, cli, sock, backlog, files, sbuf, taken, dead>>
  BY DEF init_echo_cnt, At, fixed, client, buffer, sig
<1>2. t \in Procs /\ kind = "prethreaded" /\ taken[t] \in Fd \cup {None}
  BY <1>1, Worker DEF Inv, TypeOK, DataOK
<1>3. PICK r \in Contexts : /\ r = Proc("read", taken[t]) /\ r.pc = "read" /\ r.fd = taken[t]
                            /\ r.rio = <<>> /\ r.line = <<>>
  BY <1>2, Contextual DEF Pcs
<1>4. proc'[t] = r /\ \A q \in Procs : q # t => proc'[q] = proc[q]
  BY <1>1, <1>2, <1>3 DEF Inv, TypeOK
<1> QED BY <1>1, <1>2, <1>3, <1>4

-----------------------------------------------------------------------------
(* One place for every connection, at every step *)

\* A worker goes on with its connection.
LEMMA TokensWork ==
  ASSUME Inv, Tokens, UNCHANGED <<kind, files, sbuf, taken>>, NEW p \in Procs,
         \A q \in Procs : q # p => proc'[q] = proc[q],
         kind = "prethreaded" => /\ p \in Threads /\ Working(p)
                                 /\ proc'[p].pc \in Busy /\ proc'[p].fd = Held(p)
  PROVE  Tokens'
BY TokensGo

\* In the prethreaded server only a worker reads and writes.
LEMMA WorkerOnly ==
  ASSUME Inv, kind = "prethreaded", NEW p \in Procs, proc[p].pc \in Busy
  PROVE  p \in Threads /\ Working(p) /\ Held(p) = proc[p].fd
<1>1. Stands(p, proc[p].pc)
  BY Record DEF Inv
<1> QED BY <1>1 DEF Stands, Busy, Hearing, Working, Held

\* The steps of main.
LEMMA TokensMain ==
  ASSUME Inv, Tokens, MainStep PROVE Tokens'
<1>1. Stands(Main, proc[Main].pc) /\ kind' = kind
  BY MainRecord DEF Inv, MainStep, Accept, Fork, ParentClose, Pthread_create, sbuf_insert, Select,
                    check_clients, fixed
<1>2. CASE kind # "prethreaded"
  BY <1>1, <1>2 DEF Tokens
<1>3. CASE kind = "prethreaded"
  <2>1. ~Fork /\ ~ParentClose /\ ~Pthread_create /\ ~Select /\ ~check_clients
    BY <1>1, <1>3 DEF Fork, ParentClose, Pthread_create, Select, check_clients, At, Stands
  <2> QED BY <1>3, <2>1, TokensAccept, TokensInsert DEF MainStep
<1> QED BY <1>2, <1>3

\* The steps of a worker.
LEMMA TokensRun ==
  ASSUME Inv, Tokens, NEW p \in Procs, Run(p) PROVE Tokens'
<1>1. kind' = kind
  BY DEF Run, Serve, Read, Line, Write, SigPipe, Close, doit, RequestLine, NoRequest, read_requesthdrs,
         WriteReply, Killed, ForkCGI, CGI, Wait, CloseConn, Start, sbuf_remove, init_echo_cnt, Lock,
         Unlock, fixed
<1>2. SUFFICES ASSUME kind = "prethreaded" PROVE Tokens'
  BY <1>1 DEF Tokens
<1>3. Stands(p, proc[p].pc)
  BY Record DEF Inv
<1>4. ~Start(p) /\ \A c : ~doit(p, c)
  BY <1>2, <1>3 DEF Start, doit, RequestLine, NoRequest, read_requesthdrs, WriteReply, Killed, ForkCGI,
                    CGI, Wait, CloseConn, At, Stands
<1>5. {"read", "write", "lock", "store"} \subseteq Busy /\ Hearing \subseteq Busy
  BY DEF Busy, Hearing
<1>6. ASSUME NEW c \in Clients, Read(p, c) PROVE Tokens'
  <2>1. /\ proc[p].pc \in Hearing /\ proc'[p].pc = proc[p].pc /\ proc'[p].fd = proc[p].fd
        /\ \A q \in Procs : q # p => proc'[q] = proc[q]
        /\ UNCHANGED <<kind, files, sbuf, taken>>
    BY <1>6, ReadDoes DEF fixed
  <2> QED BY <1>2, <1>5, <2>1, WorkerOnly, TokensWork
<1>7. ASSUME NEW c \in Clients, Line(p, c) PROVE Tokens'
  <2>1. /\ proc[p].pc = "read" /\ proc'[p].pc = "lock" /\ proc'[p].fd = proc[p].fd
        /\ \A q \in Procs : q # p => proc'[q] = proc[q]
        /\ UNCHANGED <<kind, files, sbuf, taken>>
    BY <1>2, <1>7, LineDoes DEF fixed
  <2> QED BY <1>2, <1>5, <2>1, WorkerOnly, TokensWork
<1>8. ASSUME NEW c \in Clients, Write(p, c) PROVE Tokens'
  <2>1. /\ proc[p].pc = "write" /\ proc'[p].pc = "read" /\ proc'[p].fd = proc[p].fd
        /\ \A q \in Procs : q # p => proc'[q] = proc[q]
        /\ UNCHANGED <<kind, files, sbuf, taken>>
    BY <1>2, <1>8, WriteDoes DEF fixed
  <2> QED BY <1>2, <1>5, <2>1, WorkerOnly, TokensWork
<1>9. ASSUME NEW c \in Clients, SigPipe(p, c) PROVE Tokens'
  <2>1. UNCHANGED <<kind, files, sbuf, taken, proc>>
    BY <1>9 DEF SigPipe, fixed, buffer
  <2> QED BY <2>1, TokensGo
<1>10. ASSUME NEW c \in Clients, Close(p, c) PROVE Tokens'
  <2>1. /\ proc[p].pc = "read" /\ files' = [files EXCEPT ![Main][proc[p].fd] = None]
        /\ proc' = [proc EXCEPT ![p] = Proc("remove", None)] /\ UNCHANGED <<kind, sbuf, taken>>
    BY <1>2, <1>10 DEF Close, At, Process, fixed, buffer
  <2>2. p \in Threads
    BY <1>2, <1>5, <2>1, WorkerOnly
  <2> QED BY <1>2, <2>1, <2>2, TokensClose
<1>11. ASSUME p \in Threads, init_echo_cnt(p) PROVE Tokens'
  <2>1. /\ proc[p].pc = "once" /\ proc'[p].pc = "read" /\ proc'[p].fd = taken[p]
        /\ \A q \in Procs : q # p => proc'[q] = proc[q]
        /\ UNCHANGED <<kind, files, sbuf, taken>>
    BY <1>11, OnceDoes DEF fixed
  <2>2. Working(p) /\ Held(p) = taken[p]
    BY <2>1 DEF Working, Held
  <2> QED BY <1>5, <1>11, <2>1, <2>2, TokensWork
<1>12. ASSUME p \in Threads, Lock(p) \/ Unlock(p) PROVE Tokens'
  <2>1. /\ proc[p].pc \in {"lock", "store"} /\ proc'[p].pc \in {"store", "write"}
        /\ proc'[p].fd = proc[p].fd /\ \A q \in Procs : q # p => proc'[q] = proc[q]
        /\ UNCHANGED <<kind, files, sbuf, taken>>
    BY <1>12, CountDoes DEF fixed
  <2> QED BY <1>2, <1>5, <2>1, WorkerOnly, TokensWork
<1> QED BY <1>4, <1>6, <1>7, <1>8, <1>9, <1>10, <1>11, <1>12, TokensRemove DEF Run, Serve

\* Every step leaves every connection in one place.
LEMMA TokensStep ==
  ASSUME Inv, Tokens, [Next]_vars PROVE Tokens'
<1>1. CASE UNCHANGED <<kind, files, sbuf, taken, proc>>
  BY <1>1, TokensGo
<1>2. CASE sigchld_handler \/ \E c \in Clients : Connect(c) \/ Client(c) \/ Leave(c)
  BY <1>1, <1>2 DEF sigchld_handler, Connect, Client, Send, Finish, Leave, fixed, buffer
<1>3. CASE UNCHANGED vars
  BY <1>1, <1>3 DEF vars, fixed, buffer
<1> QED BY <1>2, <1>3, TokensMain, TokensRun DEF Next

-----------------------------------------------------------------------------
(* The order of the pieces, at the steps of main *)

\* What Accept does.
LEMMA AcceptDoes ==
  ASSUME Inv, Accept
  PROVE  /\ kind # "select" /\ proc[Main].pc = "accept" /\ UNCHANGED <<fixed, cli, sock>>
         /\ proc'[Main].pc = Accepting /\ proc'[Main].rio = <<>> /\ proc'[Main].line = <<>>
         /\ \A q \in Procs : q # Main => proc'[q] = proc[q]
         /\ \A q \in Spawned : files'[q] = files[q]
         /\ \E h \in Clients, d \in Fd :
              /\ Waits(h) /\ proc'[Main].fd = d /\ files[Main][d] = None /\ files'[Main][d] = h
              /\ \A f \in Fd : f # d => files'[Main][f] = files[Main][f]
         /\ \A c \in Clients : Waits(c)' => Waits(c)
<1>1. /\ kind # "select" /\ proc[Main].pc = "accept" /\ backlog # <<>> /\ backlog' = Tail(backlog)
      /\ files' = Accepted /\ proc' = [proc EXCEPT ![Main] = Proc(Accepting, Connfd)]
      /\ UNCHANGED <<fixed, cli, sock>>
  BY DEF Accept, At, client
<1>2. Head(backlog) \in Clients /\ Connfd \in Fd
  BY <1>1, TableAccepts DEF Inv
<1>3. PICK h \in Clients, d \in Fd : h = Head(backlog) /\ d = Connfd
  BY <1>2
<1>4. /\ Waits(h) /\ files[Main][d] = None /\ files'[Main][d] = h
      /\ \A f \in Fd : f # d => files'[Main][f] = files[Main][f]
      /\ \A q \in Spawned : files'[q] = files[q]
      /\ \A c \in Clients : Waits(c)' => Waits(c)
  BY <1>1, <1>3, TableAccepts DEF Inv
<1>5. Accepting \in Pcs
  BY <1>1, AcceptingStands DEF Inv
<1>6. PICK r \in Contexts : /\ r = Proc(Accepting, d) /\ r.pc = Accepting /\ r.fd = d
                            /\ r.rio = <<>> /\ r.line = <<>>
  BY <1>5, Contextual
<1>7. proc' = [proc EXCEPT ![Main] = r] /\ Main \in Procs
  BY <1>1, <1>3, <1>6, MainRecord DEF Inv
<1>8. proc'[Main] = r /\ \A q \in Procs : q # Main => proc'[q] = proc[q]
  BY <1>7 DEF Inv, TypeOK
<1> QED BY <1>1, <1>4, <1>6, <1>8

\* A connection is used while main changes another descriptor.
LEMMA ConnKept ==
  ASSUME Inv, Tokens, kind' = kind, NEW q \in Procs, proc[q].pc \in Busy, proc'[q].fd = proc[q].fd,
         kind = "process" => files'[q] = files[q],
         kind # "process" => \A f \in Fd : files[Main][f] # None => files'[Main][f] = files[Main][f]
  PROVE  Conn(q)' = Conn(q)
<1>1. /\ proc[q].fd \in Fd /\ Conn(q) \in Clients
      /\ \/ kind \in {"process", "thread"} /\ q \in Spawned
         \/ kind \in {"iterative", "select", "tiny"} /\ q = Main
         \/ kind = "prethreaded"
  BY Workers
<1>2. Process(q)' = Process(q) /\ (kind # "process" => Process(q) = Main)
  BY <1>1 DEF Process
<1>3. CASE kind = "process"
  BY <1>2, <1>3 DEF Conn, Process
<1>4. CASE kind # "process"
  <2>1. files[Main][proc[q].fd] # None
    BY <1>1, <1>2, <1>4, ServersAssumption DEF Conn
  <2> QED BY <1>1, <1>2, <1>4, <2>1 DEF Conn
<1> QED BY <1>3, <1>4

\* Whom nobody serves while main is busy with nothing.
LEMMA Unserved ==
  ASSUME Inv, Tokens, NEW c \in Clients,
         Waits(c) \/ (kind \in {"iterative", "select", "tiny"} /\ proc[Main].pc \notin Busy)
  PROVE  \A q \in Procs : ~Serves(q, c)
<1> SUFFICES ASSUME NEW q \in Procs, proc[q].pc \in Busy, Conn(q) = c PROVE FALSE
  BY DEF Serves
<1> QED BY Workers

\* The new connection has what its client has sent, and nobody serves it.
LEMMA StreamsAccept ==
  ASSUME Inv, Tokens, Streams, Accept PROVE Streams'
<1>1. /\ kind # "select" /\ proc[Main].pc = "accept" /\ UNCHANGED <<kind, eager, cli, sock>>
      /\ proc'[Main].pc = Accepting /\ proc'[Main].rio = <<>> /\ proc'[Main].line = <<>>
      /\ \A q \in Procs : q # Main => proc'[q] = proc[q]
      /\ \A q \in Spawned : files'[q] = files[q]
  BY AcceptDoes DEF fixed
<1>2. PICK h \in Clients, d \in Fd :
        /\ Waits(h) /\ proc'[Main].fd = d /\ files[Main][d] = None /\ files'[Main][d] = h
        /\ \A f \in Fd : f # d => files'[Main][f] = files[Main][f]
  BY AcceptDoes
<1>3. Main \in Procs /\ kind \in Names /\ proc[Main].pc \notin Busy /\ Main \notin Spawned
  BY <1>1, MainRecord DEF Inv, Shape, Busy, Hearing
<1>4. ASSUME NEW q \in Procs, q # Main, proc[q].pc \in Busy PROVE Conn(q)' = Conn(q) /\ Conn(q) # h
  <2>1. kind = "process" => files'[q] = files[q]
    BY <1>1, <1>4, Workers
  <2>2. \A f \in Fd : files[Main][f] # None => files'[Main][f] = files[Main][f]
    BY <1>2
  <2>3. Conn(q) # h
    BY <1>2, <1>4, Workers
  <2> QED BY <1>1, <1>4, <2>1, <2>2, <2>3, ConnKept
<1>5. CASE kind \notin {"iterative", "tiny"}
  <2>1. proc'[Main].pc \notin Busy
    BY <1>1, <1>3, <1>5 DEF Accepting, Names, Busy, Hearing
  <2> QED BY <1>1, <1>3, <1>4, <2>1, StreamsStill
<1>6. CASE kind \in {"iterative", "tiny"}
  <2>1. proc'[Main].pc \in Busy
    <3>1. Accepting \in {"read", "request"}
      <4>1. kind = "iterative" => Accepting = "read"
        BY DEF Accepting
      <4>2. kind = "tiny" => Accepting = "request"
        BY Zenon DEF Accepting
      <4> QED BY <1>6, <4>1, <4>2
    <3> QED BY <1>1, <3>1 DEF Busy, Hearing
  <2>2. Conn(Main)' = h
    BY <1>1, <1>2, <1>6 DEF Conn, Process
  <2>3. StreamOf(h) /\ \A q \in Procs : ~Serves(q, h)
    BY <1>2, Unserved DEF Streams
  <2>4. cli[h] \in Members /\ sock[h] \in Seq(Piece)
    BY DEF Inv, TypeOK, DataOK
  <2>5. Sends(h, cli[h], sock[h]) /\ Flows(Mode(h), h, cli[h], sock[h], proc'[Main])
    BY <1>1, <2>3, <2>4, FlowsStart DEF StreamOf
  <2>6. Sends(h, cli[h], sock[h])' /\ Flows(Mode(h), h, cli[h], sock[h], proc[Main])'
    BY <1>1, <2>5 DEF Mode
  <2>7. \A q \in Procs : q # Main => proc'[q] = proc[q] /\ (proc[q].pc \in Busy => Conn(q)' = Conn(q) /\ Conn(q) # h)
    BY <1>1, <1>4
  <2> QED BY <1>1, <1>3, <2>1, <2>2, <2>6, <2>7, StreamsOne
<1> QED BY <1>5, <1>6

\* While main serves nobody, where only main serves.
LEMMA StreamsIdle ==
  ASSUME Inv, Tokens, Streams, UNCHANGED <<kind, eager, cli, sock>>,
         kind \in {"iterative", "select", "tiny"}, proc[Main].pc \notin Busy,
         \A q \in Procs : proc'[q] = proc[q] \/ proc'[q].pc \notin Busy
  PROVE  Streams'
<1>1. \A q \in Procs : proc[q].pc \notin Busy
  BY Workers
<1>2. \A q \in Procs : proc'[q].pc \notin Busy
  BY <1>1
<1> QED BY <1>1, <1>2, StreamsStill

\* Main gives the connection to a child.
Copied(c, fd, a, b) ==
  /\ files' = [files EXCEPT ![c] = files[Main]]
  /\ proc' = [proc EXCEPT ![c] = Proc(a, fd), ![Main].pc = b]

\* What a child is made with.
LEMMA CopyDoes ==
  ASSUME Inv, kind \in {"process", "tiny"}, proc[Main].pc \in ToGive,
         NEW fd \in Fd, fd = proc[Main].fd, NEW c \in Clients, c = files[Main][fd],
         NEW a \in Pcs, NEW b \in Pcs, Copied(c, fd, a, b)
  PROVE  /\ proc[c].pc = "none" /\ proc'[c].pc = a /\ proc'[c].fd = fd /\ proc'[c].rio = <<>>
         /\ proc'[c].line = <<>>
         /\ proc'[Main].pc = b /\ proc'[Main].fd = fd
         /\ \A q \in Procs : q # Main /\ q # c => proc'[q] = proc[q]
         /\ files'[Main] = files[Main] /\ files'[c][fd] = c
         /\ \A d \in Clients : d # c => files'[d] = files[d]
<1>1. /\ Main \in Procs /\ Clients \subseteq Procs /\ Spawned = Clients /\ Main \notin Clients
      /\ None \notin Clients /\ proc[Main] \in Contexts /\ proc \in [Procs -> Contexts]
  BY MainRecord DEF Inv, TypeOK
<1>2. PICK r \in Contexts : r = Proc(a, fd) /\ r.pc = a /\ r.fd = fd /\ r.rio = <<>> /\ r.line = <<>>
  BY Contextual
<1>3. PICK m \in Contexts : m = [proc[Main] EXCEPT !.pc = b] /\ m.pc = b /\ m.fd = fd
  BY <1>1, Fields
<1>4. proc' = [proc EXCEPT ![c] = r, ![Main] = m] /\ files' = [files EXCEPT ![c] = files[Main]]
  BY <1>1, <1>2, <1>3 DEF Copied
<1>5. PICK f \in [Procs -> Contexts] : f = [proc EXCEPT ![c] = r]
  BY <1>1
<1>6. proc' = [f EXCEPT ![Main] = m]
  BY <1>4, <1>5
<1>7. f[c] = r /\ \A q \in Procs : q # c => f[q] = proc[q]
  BY <1>1, <1>5
<1>8. proc'[Main] = m /\ \A q \in Procs : q # Main => proc'[q] = f[q]
  BY <1>1, <1>6
<1>9. /\ files'[Main] = files[Main] /\ files'[c] = files[Main]
      /\ \A d \in Clients : d # c => files'[d] = files[d]
  BY <1>1, <1>4 DEF Inv, TypeOK
<1>10. proc[c].pc = "none"
  BY DEF Inv, Hands, Idle, Fresh
<1> QED BY <1>1, <1>2, <1>3, <1>7, <1>8, <1>9, <1>10

\* What Fork does: parent and child both have the connection, and the child serves it.
LEMMA ForkDoes ==
  ASSUME Inv, Fork
  PROVE  /\ kind = "process" /\ proc[Main].pc = "process" /\ UNCHANGED <<fixed, cli, sock>>
         /\ proc'[Main].pc = "forked"
         /\ \E c \in Clients, fd \in Fd :
              /\ proc[c].pc = "none" /\ proc'[c].pc = "read" /\ proc'[c].fd = fd
              /\ proc'[c].rio = <<>> /\ proc'[c].line = <<>>
              /\ \A q \in Procs : q # Main /\ q # c => proc'[q] = proc[q]
              /\ files'[c][fd] = c /\ \A d \in Clients : d # c => files'[d] = files[d]
<1>1. proc[Main].pc = "process" /\ kind = "process" /\ UNCHANGED <<fixed, cli, sock>>
  BY MainRecord DEF Inv, Stands, Fork, At, client
<1>2. PICK fd \in Fd : fd = proc[Main].fd /\ files[Main][fd] # None
  BY <1>1 DEF Inv, Hands, Works, InHand, Open
<1>3. PICK c \in Clients : c = files[Main][fd]
  BY <1>2 DEF Inv, TypeOK
<1>4. PICK a \in Pcs : a = "read"
  BY DEF Pcs
<1>5. PICK b \in Pcs : b = "forked"
  BY DEF Pcs
<1>6. Copied(c, fd, a, b)
  BY <1>2, <1>3, <1>4, <1>5 DEF Fork, Copied
<1>7. kind \in {"process", "tiny"} /\ proc[Main].pc \in ToGive
  BY <1>1 DEF ToGive
<1>8. /\ proc[c].pc = "none" /\ proc'[c].pc = a /\ proc'[c].fd = fd /\ proc'[c].rio = <<>>
      /\ proc'[c].line = <<>> /\ proc'[Main].pc = b
      /\ \A q \in Procs : q # Main /\ q # c => proc'[q] = proc[q]
      /\ files'[c][fd] = c /\ \A d \in Clients : d # c => files'[d] = files[d]
  BY <1>2, <1>3, <1>6, <1>7, CopyDoes
<1> QED BY <1>1, <1>4, <1>5, <1>8

LEMMA StreamsFork ==
  ASSUME Inv, Tokens, Streams, Fork PROVE Streams'
<1>1. /\ kind = "process" /\ proc[Main].pc = "process" /\ UNCHANGED <<kind, eager, cli, sock>>
      /\ proc'[Main].pc = "forked"
  BY ForkDoes DEF fixed
<1>2. PICK c \in Clients, fd \in Fd :
        /\ proc[c].pc = "none" /\ proc'[c].pc = "read" /\ proc'[c].fd = fd
        /\ proc'[c].rio = <<>> /\ proc'[c].line = <<>>
        /\ \A q \in Procs : q # Main /\ q # c => proc'[q] = proc[q]
        /\ files'[c][fd] = c /\ \A d \in Clients : d # c => files'[d] = files[d]
  BY ForkDoes
<1>3. /\ c \in Procs /\ c # Main /\ Spawned = Clients /\ "process" \notin Busy /\ "forked" \notin Busy
      /\ "none" \notin Busy /\ "read" \in Busy
  BY MainRecord DEF Inv, Busy, Hearing
<1>4. ASSUME NEW q \in Procs, q # c
      PROVE  \/ proc[q].pc \notin Busy /\ proc'[q].pc \notin Busy
             \/ proc'[q] = proc[q] /\ (proc[q].pc \in Busy => Conn(q)' = Conn(q) /\ Conn(q) # c)
  <2>1. CASE q = Main
    BY <1>1, <1>3, <2>1
  <2>2. CASE q # Main
    <3>1. proc'[q] = proc[q]
      BY <1>2, <1>4, <2>2
    <3>2. ASSUME proc[q].pc \in Busy PROVE Conn(q)' = Conn(q) /\ Conn(q) # c
      <4>1. q \in Spawned /\ Conn(q) = q
        BY <1>1, <3>2, Workers
      <4>2. files'[q] = files[q]
        BY <1>2, <1>3, <1>4, <4>1
      <4> QED BY <1>1, <1>4, <3>1, <3>2, <4>1, <4>2, ConnKept
    <3> QED BY <3>1, <3>2
  <2> QED BY <2>1, <2>2
<1>5. \A q \in Procs : ~Serves(q, c)
  BY <1>1, <1>2, <1>3, Workers DEF Serves
<1>6. Conn(c)' = c
  BY <1>1, <1>2 DEF Conn, Process
<1>7. cli[c] \in Members /\ sock[c] \in Seq(Piece) /\ StreamOf(c)
  BY DEF Inv, TypeOK, DataOK, Streams
<1>8. Sends(c, cli[c], sock[c]) /\ Flows(Mode(c), c, cli[c], sock[c], proc'[c])
  BY <1>2, <1>5, <1>7, FlowsStart DEF StreamOf
<1>9. Sends(c, cli[c], sock[c])' /\ Flows(Mode(c), c, cli[c], sock[c], proc[c])'
  BY <1>1, <1>8 DEF Mode
<1> QED BY <1>1, <1>2, <1>3, <1>4, <1>6, <1>9, StreamsOne

\* What check_clients does with a slot.
LEMMA CheckDoes ==
  ASSUME Inv, check_clients
  PROVE  /\ kind = "select" /\ proc[Main].pc = "check" /\ UNCHANGED <<fixed, cli, sock, files>>
         /\ \A q \in Procs : q # Main => proc'[q] = proc[q]
         /\ \/ proc'[Main].pc = "accept"
            \/ /\ proc'[Main].pc = "read" /\ proc'[Main].rio = <<>> /\ proc'[Main].line = <<>>
               /\ \E fd \in Fd : Open(fd) /\ proc'[Main].fd = fd
<1> DEFINE next == {j \in pool.i..pool.maxi : pool.clientfd[j] \in pool.ready_set}
<1>1. /\ proc[Main].pc = "check"
      /\ \/ proc' = [proc EXCEPT ![Main].pc = "accept"]
         \/ next # {} /\ proc' = [proc EXCEPT ![Main] = Proc("read", pool.clientfd[Min(next)])]
      /\ UNCHANGED <<fixed, cli, sock, files>>
  BY DEF check_clients, At, Goto, client
<1>2. Main \in Procs /\ Stands(Main, proc[Main].pc) /\ proc \in [Procs -> Contexts]
  BY MainRecord DEF Inv, TypeOK
<1>3. kind = "select"
  BY <1>1, <1>2 DEF Stands
<1>4. CASE proc' = [proc EXCEPT ![Main].pc = "accept"]
  BY <1>1, <1>2, <1>3, <1>4 DEF Contexts
<1>5. CASE next # {} /\ proc' = [proc EXCEPT ![Main] = Proc("read", pool.clientfd[Min(next)])]
  <2>1. pool \in Pools /\ pool.i \in Nat /\ pool.maxi \in -1..FD_SETSIZE-1
    BY DEF Inv, TypeOK, Pools
  <2>2. next \in SUBSET Nat
    BY <2>1, ServersAssumption
  <2>3. PICK j \in next : j = Min(next)
    <3> HIDE DEF next
    <3> QED BY <1>5, <2>2, MinNat
  <2>4. j \in SlotNumbers
    BY <2>1, <2>2, ServersAssumption DEF SlotNumbers
  <2>5. PICK fd \in Fd : fd = pool.clientfd[j]
    BY <2>1 DEF Pools
  <2> HIDE DEF next
  <2>6. Open(fd)
    BY <1>3, <2>4, <2>5, ServersAssumption DEF Inv, Slots
  <2>7. PICK r \in Contexts : r = Proc("read", fd) /\ r.pc = "read" /\ r.fd = fd /\ r.rio = <<>> /\ r.line = <<>>
    BY Contextual DEF Pcs
  <2>8. proc' = [proc EXCEPT ![Main] = r]
    BY <1>5, <2>3, <2>5, <2>7
  <2> QED BY <1>1, <1>2, <1>3, <2>6, <2>7, <2>8
<1> HIDE DEF next
<1> QED BY <1>1, <1>4, <1>5

\* A slot is served with an empty buffer: what is in it is thrown away.
LEMMA StreamsCheck ==
  ASSUME Inv, Tokens, Streams, check_clients PROVE Streams'
<1>1. /\ kind = "select" /\ proc[Main].pc = "check" /\ UNCHANGED <<kind, eager, cli, sock, files>>
      /\ \A q \in Procs : q # Main => proc'[q] = proc[q]
  BY CheckDoes DEF fixed
<1>2. /\ Main \in Procs /\ proc[Main].pc \notin Busy /\ "accept" \notin Busy /\ "read" \in Busy
  BY <1>1, MainRecord DEF Inv, Busy, Hearing
<1>3. CASE proc'[Main].pc = "accept"
  BY <1>1, <1>2, <1>3, StreamsIdle
<1>4. CASE /\ proc'[Main].pc = "read" /\ proc'[Main].rio = <<>> /\ proc'[Main].line = <<>>
           /\ \E fd \in Fd : Open(fd) /\ proc'[Main].fd = fd
  <2>1. PICK fd \in Fd : Open(fd) /\ proc'[Main].fd = fd
    BY <1>4
  <2>2. PICK c \in Clients : c = files[Main][fd]
    BY <2>1 DEF Open, Inv, TypeOK
  <2>3. Conn(Main)' = c
    BY <1>1, <2>1, <2>2 DEF Conn, Process
  <2>4. \A q \in Procs : ~Serves(q, c)
    BY <1>1, <1>2, Unserved
  <2>5. cli[c] \in Members /\ sock[c] \in Seq(Piece) /\ StreamOf(c)
    BY DEF Inv, TypeOK, DataOK, Streams
  <2>6. Sends(c, cli[c], sock[c]) /\ Flows(Mode(c), c, cli[c], sock[c], proc'[Main])
    BY <1>4, <2>4, <2>5, FlowsStart DEF StreamOf
  <2>7. Sends(c, cli[c], sock[c])' /\ Flows(Mode(c), c, cli[c], sock[c], proc[Main])'
    BY <1>1, <2>6 DEF Mode
  <2>8. \A q \in Procs : q # Main => proc[q].pc \notin Busy /\ proc'[q].pc \notin Busy
    BY <1>1, Workers
  <2> QED BY <1>1, <1>2, <1>4, <2>3, <2>7, <2>8, StreamsOne
<1> QED BY <1>3, <1>4, CheckDoes

\* A step of main that gives nobody's pieces to anybody.
LEMMA StreamsMain ==
  ASSUME Inv, Tokens, Streams, UNCHANGED <<kind, eager, cli, sock>>,
         proc[Main].pc \notin Busy, proc'[Main].pc \notin Busy,
         \A q \in Procs : \/ q = Main \/ proc'[q] = proc[q]
                          \/ proc[q].pc \notin Busy /\ proc'[q].pc \notin Busy,
         kind = "process" => \A q \in Spawned : files'[q] = files[q],
         kind # "process" => \A f \in Fd : files[Main][f] # None => files'[Main][f] = files[Main][f]
  PROVE  Streams'
<1>1. ASSUME NEW q \in Procs, proc[q].pc \in Busy, proc'[q] = proc[q] PROVE Conn(q)' = Conn(q)
  <2>1. kind = "process" => files'[q] = files[q]
    BY <1>1, Workers
  <2> QED BY <1>1, <2>1, ConnKept
<1>2. ASSUME NEW q \in Procs
      PROVE  \/ proc[q].pc \notin Busy /\ proc'[q].pc \notin Busy
             \/ proc[q].pc \in Busy /\ proc'[q] = proc[q]
  OBVIOUS
<1> QED BY <1>1, <1>2, StreamsStill

\* The steps of main that serve no client.
LEMMA StreamsMainStep ==
  ASSUME Inv, Tokens, Streams, MainStep PROVE Streams'
<1>1. /\ Main \in Procs /\ Stands(Main, proc[Main].pc) /\ Main \notin Spawned /\ Spawned = Clients
      /\ proc \in [Procs -> Contexts] /\ Clients \subseteq Procs
  BY MainRecord DEF Inv, TypeOK
<1>2. \A pc \in {"accept", "check", "forked", "thread", "prethreaded", "start", "none"} : pc \notin Busy
  BY DEF Busy, Hearing
<1>3. PICK r \in Contexts : r = Proc("accept", None) /\ r.pc = "accept"
  BY Contextual DEF Pcs
<1>4. CASE ParentClose
  <2>1. /\ proc[Main].pc = "forked" /\ files' = [files EXCEPT ![Main][proc[Main].fd] = None]
        /\ proc' = [proc EXCEPT ![Main] = r] /\ UNCHANGED <<kind, eager, cli, sock>>
    BY <1>3, <1>4 DEF ParentClose, At, fixed, client
  <2>2. kind = "process"
    BY <1>1, <2>1 DEF Stands
  <2>3. \A q \in Spawned : files'[q] = files[q]
    BY <1>1, <2>1 DEF Inv, TypeOK
  <2>4. proc'[Main].pc = "accept" /\ \A q \in Procs : q # Main => proc'[q] = proc[q]
    BY <1>1, <1>3, <2>1
  <2> QED BY <1>2, <2>1, <2>2, <2>3, <2>4, StreamsMain
<1>5. CASE Pthread_create
  <2>1. /\ proc[Main].pc = "thread" /\ UNCHANGED <<kind, eager, cli, sock, files>>
        /\ proc' = [proc EXCEPT ![files[Main][proc[Main].fd]].pc = "start", ![Main] = r]
    BY <1>3, <1>5 DEF Pthread_create, At, fixed, client
  <2>2. kind = "thread"
    BY <1>1, <2>1 DEF Stands
  <2>3. Open(proc[Main].fd)
    BY <2>1, <2>2 DEF Inv, Hands, Works, InHand
  <2>4. PICK c \in Clients : c = files[Main][proc[Main].fd]
    BY <2>3 DEF Open, Inv, TypeOK
  <2>5. proc[c].pc = "none"
    BY <2>1, <2>4 DEF Inv, Hands, Idle, Fresh, ToGive
  <2>6. PICK m \in Contexts : m = [proc[c] EXCEPT !.pc = "start"] /\ m.pc = "start"
    <3>1. "start" \in Pcs /\ proc[c] \in Contexts
      BY <1>1 DEF Pcs
    <3> QED BY <3>1, Fields
  <2>7. proc' = [proc EXCEPT ![c] = m, ![Main] = r]
    BY <1>1, <2>1, <2>4, <2>6
  <2>8. /\ proc'[Main] = r /\ proc'[c] = m
        /\ \A q \in Procs : q # Main /\ q # c => proc'[q] = proc[q]
    BY <1>1, <2>7
  <2>9. \A q \in Procs : \/ q = Main \/ proc'[q] = proc[q]
                         \/ proc[q].pc \notin Busy /\ proc'[q].pc \notin Busy
    BY <1>2, <2>5, <2>6, <2>8
  <2> QED BY <1>1, <1>2, <1>3, <2>1, <2>2, <2>8, <2>9, StreamsMain
<1>6. CASE sbuf_insert
  <2>1. /\ proc[Main].pc = "prethreaded" /\ proc' = [proc EXCEPT ![Main] = r]
        /\ UNCHANGED <<kind, eager, cli, sock, files>>
    BY <1>3, <1>6 DEF sbuf_insert, At, fixed, client
  <2>2. proc'[Main].pc = "accept" /\ \A q \in Procs : q # Main => proc'[q] = proc[q]
    BY <1>1, <1>3, <2>1
  <2> QED BY <1>2, <2>1, <2>2, StreamsMain
<1>7. CASE Select
  <2>1. /\ proc[Main].pc = "accept" /\ proc' = [proc EXCEPT ![Main].pc = "check"]
        /\ UNCHANGED <<kind, eager, cli, sock>> /\ kind = "select"
    BY <1>7 DEF Select, At, Goto, fixed, client
  <2>2. PICK m \in Contexts : m = [proc[Main] EXCEPT !.pc = "check"] /\ m.pc = "check"
    <3>1. "check" \in Pcs /\ proc[Main] \in Contexts
      BY <1>1 DEF Pcs
    <3> QED BY <3>1, Fields
  <2>3. proc' = [proc EXCEPT ![Main] = m]
    BY <1>1, <2>1, <2>2
  <2>4. proc'[Main].pc = "check" /\ \A q \in Procs : q # Main => proc'[q] = proc[q]
    BY <1>1, <2>2, <2>3
  <2> QED BY <1>2, <2>1, <2>4, StreamsIdle
<1> QED BY <1>4, <1>5, <1>6, <1>7, StreamsAccept, StreamsFork, StreamsCheck DEF MainStep

-----------------------------------------------------------------------------
(* The order of the pieces, at the steps of a server *)

\* The threads that are given a connection.
LEMMA StreamsGiven ==
  ASSUME Inv, Tokens, Streams, UNCHANGED <<kind, eager, cli, sock, files>>,
         NEW p \in Procs, proc[p].pc \notin Busy, \A q \in Procs : q # p => proc'[q] = proc[q],
         proc'[p].rio = <<>>, proc'[p].line = <<>>, proc'[p].pc \in Busy,
         NEW c \in Clients, Conn(p)' = c, \A q \in Procs : ~Serves(q, c)
  PROVE  Streams'
<1>1. cli[c] \in Members /\ sock[c] \in Seq(Piece) /\ StreamOf(c)
  BY DEF Inv, TypeOK, DataOK, Streams
<1>2. Sends(c, cli[c], sock[c]) /\ Flows(Mode(c), c, cli[c], sock[c], proc'[p])
  BY <1>1, FlowsStart DEF StreamOf
<1>3. Sends(c, cli[c], sock[c])' /\ Flows(Mode(c), c, cli[c], sock[c], proc[p])'
  BY <1>2 DEF Mode
<1>4. ASSUME NEW q \in Procs, q # p
      PROVE  proc'[q] = proc[q] /\ (proc[q].pc \in Busy => Conn(q)' = Conn(q) /\ Conn(q) # c)
  <2>1. Conn(q)' = Conn(q)
    BY <1>4 DEF Conn, Process
  <2> QED BY <1>4, <2>1 DEF Serves
<1> QED BY <1>3, <1>4, StreamsOne

\* A thread of echoservert reads the descriptor in its cell.
LEMMA StreamsStart ==
  ASSUME Inv, Tokens, Streams, NEW p \in Spawned, Start(p) PROVE Streams'
<1>1. /\ proc[p].pc = "start" /\ proc' = [proc EXCEPT ![p] = Proc("read", cell[p])]
      /\ UNCHANGED <<kind, eager, cli, sock, files>>
  BY DEF Start, At, fixed, client
<1>2. p \in Procs /\ p \in Clients /\ cell[p] \in Fd \cup {None} /\ proc \in [Procs -> Contexts]
  BY DEF Inv, TypeOK, DataOK, Procs, Spawned
<1>3. kind = "thread"
  BY <1>1, <1>2, Record DEF Inv, Stands
<1>4. PICK r \in Contexts : /\ r = Proc("read", cell[p]) /\ r.pc = "read" /\ r.fd = cell[p]
                            /\ r.rio = <<>> /\ r.line = <<>>
  BY <1>2, Contextual DEF Pcs
<1>5. proc'[p] = r /\ \A q \in Procs : q # p => proc'[q] = proc[q]
  BY <1>1, <1>2, <1>4
<1>6. Conn(p)' = p
  <2>1. Has(p, Main, cell[p])
    BY <1>1, <1>2, <1>3 DEF Inv, Hands, Detached
  <2> QED BY <1>1, <1>3, <1>4, <1>5, <2>1 DEF Conn, Process, Has
<1>7. "start" \notin Busy /\ "read" \in Busy
  BY DEF Busy, Hearing
<1>8. \A q \in Procs : ~Serves(q, p)
  BY <1>1, <1>3, <1>7, Workers DEF Serves
<1> QED BY <1>1, <1>2, <1>4, <1>5, <1>6, <1>7, <1>8, StreamsGiven

\* A worker has initialised byte_cnt and begins to serve.
LEMMA StreamsOnce ==
  ASSUME Inv, Tokens, Streams, NEW t \in Threads, init_echo_cnt(t) PROVE Streams'
<1>1. /\ t \in Procs /\ kind = "prethreaded" /\ proc[t].pc = "once"
      /\ proc'[t].pc = "read" /\ proc'[t].fd = taken[t]
      /\ proc'[t].rio = <<>> /\ proc'[t].line = <<>>
      /\ \A q \in Procs : q # t => proc'[q] = proc[q]
      /\ UNCHANGED <<kind, eager, cli, sock, files>>
  BY OnceDoes DEF fixed
<1>2. Working(t) /\ Held(t) = taken[t] /\ "once" \notin Busy /\ "read" \in Busy
  BY <1>1 DEF Working, Held, Busy, Hearing
<1>3. Open(taken[t])
  BY <1>1, <1>2 DEF Tokens
<1>4. PICK c \in Clients : c = files[Main][taken[t]]
  BY <1>3 DEF Open, Inv, TypeOK
<1>5. Conn(t)' = c
  BY <1>1, <1>4 DEF Conn, Process
<1>6. ASSUME NEW q \in Procs, Serves(q, c) PROVE FALSE
  <2>1. proc[q].pc \in Busy /\ Conn(q) = c
    BY <1>6 DEF Serves
  <2>2. q \in Threads /\ Working(q) /\ Held(q) = proc[q].fd /\ proc[q].fd \in Fd
    BY <1>1, <2>1, Workers
  <2>3. files[Main][proc[q].fd] = c /\ taken[t] \in Fd /\ c # None
    BY <1>1, <1>3, <2>1, ServersAssumption DEF Conn, Process, Open
  <2>4. proc[q].fd = taken[t]
    BY <1>4, <2>2, <2>3 DEF Inv, Table
  <2>5. q = t
    BY <1>1, <1>2, <2>2, <2>4 DEF Tokens
  <2> QED BY <1>1, <1>2, <2>1, <2>5
<1> QED BY <1>1, <1>2, <1>5, <1>6, StreamsGiven

\* A step of p with the connection it has.
LEMMA StreamsServe ==
  ASSUME Inv, Tokens, Streams, UNCHANGED <<kind, eager>>,
         NEW p \in Procs, NEW c \in Clients, Serves(p, c),
         \A q \in Procs : q # p => proc'[q] = proc[q],
         \A d \in Clients : d # c => cli'[d] = cli[d] /\ sock'[d] = sock[d],
         \A q \in Procs : proc[q].pc \in Busy /\ q # p => Conn(q)' = Conn(q),
         proc'[p].pc \in Busy => Conn(p)' = c,
         Sends(c, cli[c], sock[c])',
         proc'[p].pc \in Busy => Flows(Mode(c), c, cli[c], sock[c], proc[p])',
         proc'[p].pc \notin Busy => Behind(Mode(c), c, cli[c], Reached(cli[c], sock[c]))'
  PROVE  Streams'
<1>1. ASSUME NEW q \in Procs, q # p
      PROVE  proc'[q] = proc[q] /\ (proc[q].pc \in Busy => Conn(q)' = Conn(q) /\ Conn(q) # c)
  BY <1>1, Alone DEF Serves
<1>2. Conn(p) = c
  BY DEF Serves
<1> QED BY <1>1, <1>2, StreamsOne

\* What a server has of the client it serves.
LEMMA Peered ==
  ASSUME Inv, Streams, NEW p \in Procs, NEW c \in Clients, Peer(p, c), proc[p].pc \in Busy
  PROVE  /\ Serves(p, c) /\ Sends(c, cli[c], sock[c]) /\ Flows(Mode(c), c, cli[c], sock[c], proc[p])
         /\ cli[c] \in Members /\ sock[c] \in Seq(Piece) /\ proc[p] \in Contexts
         /\ proc[p].pc \in Hearing => proc[p].line = <<>>
<1>1. Serves(p, c) /\ cli[c] \in Members /\ sock[c] \in Seq(Piece) /\ proc[p] \in Contexts
  BY DEF Peer, Serves, Inv, TypeOK, DataOK
<1>2. Sends(c, cli[c], sock[c]) /\ Flows(Mode(c), c, cli[c], sock[c], proc[p])
  BY <1>1 DEF Streams, StreamOf
<1> QED BY <1>1, <1>2 DEF Flows

\* Pieces read are in the buffer.
LEMMA StreamsRead ==
  ASSUME Inv, Tokens, Streams, NEW p \in Procs, NEW c \in Clients, Peer(p, c), Read(p, c)
  PROVE  Streams'
<1>1. /\ proc[p].pc \in Hearing /\ \A q \in Procs : q # p => proc'[q] = proc[q]
      /\ \A d \in Clients : d # c => sock'[d] = sock[d]
      /\ UNCHANGED <<kind, eager, cli, files>>
  BY ReadDoes DEF fixed
<1>2. PICK n \in 1..Len(sock[c]), r \in Contexts :
        /\ proc'[p] = r /\ r.pc = proc[p].pc /\ r.fd = proc[p].fd /\ r.line = proc[p].line
        /\ r.rio = proc[p].rio \o SubSeq(sock[c], 1, n)
        /\ sock'[c] = SubSeq(sock[c], n + 1, Len(sock[c]))
  BY ReadDoes
<1>3. proc[p].pc \in Busy
  BY <1>1 DEF Busy
<1>4. /\ Serves(p, c) /\ Sends(c, cli[c], sock[c]) /\ Flows(Mode(c), c, cli[c], sock[c], proc[p])
      /\ cli[c] \in Members /\ sock[c] \in Seq(Piece) /\ proc[p] \in Contexts
  BY <1>3, Peered
<1>5. Sends(c, cli[c], sock'[c]) /\ Flows(Mode(c), c, cli[c], sock'[c], r)
  BY <1>2, <1>4, FlowsMore
<1>6. Sends(c, cli[c], sock[c])' /\ Flows(Mode(c), c, cli[c], sock[c], proc[p])'
  BY <1>1, <1>2, <1>5 DEF Mode
<1>7. Conn(p)' = c /\ \A q \in Procs : proc[q].pc \in Busy /\ q # p => Conn(q)' = Conn(q)
  BY <1>1, <1>2, <1>4 DEF Conn, Process, Serves
<1> QED BY <1>1, <1>2, <1>3, <1>4, <1>6, <1>7, StreamsServe

\* A line leaves the buffer and is about to be echoed.
LEMMA StreamsLine ==
  ASSUME Inv, Tokens, Streams, NEW p \in Procs, NEW c \in Clients, Peer(p, c), Line(p, c)
  PROVE  Streams'
<1>1. /\ proc[p].pc = "read" /\ \A q \in Procs : q # p => proc'[q] = proc[q]
      /\ UNCHANGED <<kind, eager, cli, sock, files>>
  BY LineDoes DEF fixed
<1>2. PICK n \in 1..Len(proc[p].rio), r \in Contexts :
        /\ n = Readline(p, c) /\ proc'[p] = r /\ r.fd = proc[p].fd
        /\ r.pc = (IF kind = "prethreaded" THEN "lock" ELSE "write")
        /\ r.rio = SubSeq(proc[p].rio, n + 1, Len(proc[p].rio))
        /\ r.line = SubSeq(proc[p].rio, 1, n)
  BY LineDoes
<1>3. proc[p].pc \in Busy /\ proc[p].pc \in Hearing /\ r.pc \in Busy /\ r.pc \notin Hearing
  BY <1>1, <1>2 DEF Busy, Hearing
<1>4. /\ Serves(p, c) /\ Sends(c, cli[c], sock[c]) /\ Flows(Mode(c), c, cli[c], sock[c], proc[p])
      /\ cli[c] \in Members /\ sock[c] \in Seq(Piece) /\ proc[p] \in Contexts /\ proc[p].line = <<>>
  BY <1>3, Peered
<1>5. Flows(Mode(c), c, cli[c], sock[c], r)
  BY <1>2, <1>3, <1>4, FlowsTaken
<1>6. Sends(c, cli[c], sock[c])' /\ Flows(Mode(c), c, cli[c], sock[c], proc[p])'
  BY <1>1, <1>2, <1>4, <1>5 DEF Mode
<1>7. Conn(p)' = c /\ \A q \in Procs : proc[q].pc \in Busy /\ q # p => Conn(q)' = Conn(q)
  BY <1>1, <1>2, <1>4 DEF Conn, Process, Serves
<1> QED BY <1>1, <1>2, <1>3, <1>4, <1>6, <1>7, StreamsServe

\* A line counted is still about to be echoed.
LEMMA StreamsCount ==
  ASSUME Inv, Tokens, Streams, NEW t \in Threads, Lock(t) \/ Unlock(t) PROVE Streams'
<1>1. /\ t \in Procs /\ proc[t].pc \in {"lock", "store"}
      /\ proc'[t].pc \in {"store", "write"} /\ proc'[t].fd = proc[t].fd
      /\ proc'[t].rio = proc[t].rio /\ proc'[t].line = proc[t].line
      /\ \A q \in Procs : q # t => proc'[q] = proc[q]
      /\ UNCHANGED <<kind, eager, cli, sock, files>>
  BY CountDoes DEF fixed
<1>2. \A q \in Procs : Conn(q)' = Conn(q)
  BY <1>1 DEF Conn, Process
<1>3. /\ proc[t].pc \in Busy /\ proc'[t].pc \in Busy /\ proc'[t].pc \notin Hearing
  BY <1>1 DEF Busy, Hearing
<1>4. ASSUME NEW q \in Procs
      PROVE  \/ proc[q].pc \notin Busy /\ proc'[q].pc \notin Busy
             \/ /\ proc[q].pc \in Busy /\ proc'[q].pc \in Busy /\ Conn(q)' = Conn(q)
                /\ proc'[q].rio = proc[q].rio /\ proc'[q].line = proc[q].line
                /\ proc'[q].pc \in Hearing => proc[q].pc \in Hearing
  BY <1>1, <1>2, <1>3
<1> QED BY <1>1, <1>4, StreamsStill

\* A server that has echoed its line goes on with what it has read.
LEMMA FlowsAgain ==
  ASSUME NEW mode, NEW c \in Clients, NEW m \in Members, NEW s \in Seq(Piece), NEW r \in Contexts,
         Flows(mode, c, m, s, r), NEW m2 \in Members, m2.sent = m.sent,
         Behind(mode, c, m2, Reached(m2, s) - Len(r.rio)), NEW r2, r2.rio = r.rio, r2.line = <<>>
  PROVE  Flows(mode, c, m2, s, r2)
<1> DEFINE k == Reached(m, s) - Len(r.rio)
<1>1. Len(r.rio) \in Nat /\ Len(r.line) \in Nat /\ Len(s) \in Nat /\ m.sent \in Nat /\ Len(r2.line) = 0
  BY DEF Contexts, Members
<1>2. Reached(m, s) \in Int /\ Reached(m2, s) = Reached(m, s)
  BY <1>1 DEF Reached
<1>3. k \in Nat /\ k - 0 = k /\ r.rio = Pieced(c, k, Len(r.rio))
  BY <1>1, <1>2 DEF Flows
<1>4. r2.line = Pieced(c, k, Len(r2.line))
  BY <1>1, <1>3, PiecedNone
<1>5. Behind(mode, c, m2, k)
  BY <1>2
<1> HIDE DEF k
<1>6. k = Reached(m2, s) - Len(r2.rio) /\ k = k - Len(r2.line) /\ 0 <= k
  BY <1>1, <1>2, <1>3 DEF k
<1> QED BY <1>1, <1>3, <1>4, <1>5, <1>6 DEF Flows

\* A line echoed is got, or its client has left.
LEMMA StreamsWrite ==
  ASSUME Inv, Tokens, Streams, Turns, NEW p \in Procs, NEW c \in Clients, Peer(p, c), Write(p, c)
  PROVE  Streams'
<1>1. /\ proc[p].pc = "write" /\ \A q \in Procs : q # p => proc'[q] = proc[q]
      /\ \A d \in Clients : d # c => cli'[d] = cli[d]
      /\ UNCHANGED <<kind, eager, sock, files>>
  BY WriteDoes DEF fixed
<1>2. PICK r \in Contexts : /\ proc'[p] = r
                            /\ kind = "select" => r.pc = "check"
                            /\ kind # "select" => /\ r.pc = "read" /\ r.fd = proc[p].fd
                                                  /\ r.rio = proc[p].rio /\ r.line = <<>>
  BY WriteDoes
<1>3. PICK m \in Members :
        /\ cli'[c] = m /\ m.st = cli[c].st /\ m.sent = cli[c].sent
        /\ m.got = IF cli[c].st = "left" THEN cli[c].got ELSE cli[c].got \o proc[p].line
  BY WriteDoes
<1>4. proc[p].pc \in Busy /\ "check" \notin Busy /\ "read" \in Busy
  BY <1>1 DEF Busy, Hearing
<1>5. /\ Serves(p, c) /\ Sends(c, cli[c], sock[c]) /\ Flows(Mode(c), c, cli[c], sock[c], proc[p])
      /\ cli[c] \in Members /\ sock[c] \in Seq(Piece) /\ proc[p] \in Contexts
  BY <1>4, Peered
<1>6. Behind(Mode(c), c, m, Reached(m, sock[c]) - Len(proc[p].rio))
  BY <1>3, <1>5, FlowsEchoed
<1>7. Sends(c, m, sock[c])
  BY <1>3, <1>5 DEF Sends
<1>8. Sends(c, cli[c], sock[c])' /\ Mode(c)' = Mode(c)
  BY <1>1, <1>3, <1>7 DEF Mode
<1>9. \A q \in Procs : proc[q].pc \in Busy /\ q # p => Conn(q)' = Conn(q)
  BY <1>1 DEF Conn, Process
<1>10. CASE kind = "select"
  <2>1. p = Main
    BY <1>4, <1>10, Workers
  <2>2. Mode(c) = "lossy" \/ (Mode(c) = "echo" /\ c \notin eager)
    BY <1>10 DEF Mode
  <2>3. Mode(c) = "echo" /\ m.st # "left" => proc[p].rio = <<>>
    BY <1>1, <1>3, <1>5, <1>10, <2>1, <2>2 DEF Turns, Turn
  <2>4. /\ Reached(m, sock[c]) \in Nat /\ Reached(m, sock[c]) - Len(proc[p].rio) \in Nat
        /\ Len(proc[p].rio) \in Nat
    <3>1. Reached(m, sock[c]) = Reached(cli[c], sock[c]) /\ Reached(m, sock[c]) \in Nat
      BY <1>3, <1>7 DEF Reached, Sends, Members
    <3>2. Len(proc[p].rio) \in Nat /\ Len(proc[p].line) \in Nat
      BY <1>5 DEF Contexts
    <3>3. 0 <= (Reached(cli[c], sock[c]) - Len(proc[p].rio)) - Len(proc[p].line)
      BY <1>5 DEF Flows
    <3> QED BY <3>1, <3>2, <3>3
  <2>5. proc[p].rio = <<>> => Len(proc[p].rio) = 0
    OBVIOUS
  <2>6. Behind(Mode(c), c, m, Reached(m, sock[c]))
    <3>1. PICK a \in Nat, b \in Nat : a = Reached(m, sock[c]) - Len(proc[p].rio) /\ b = Reached(m, sock[c])
      BY <2>4
    <3>2. a <= b /\ (Mode(c) = "echo" /\ m.st # "left" => a = b)
      BY <2>3, <2>4, <2>5, <3>1
    <3>3. Behind(Mode(c), c, m, a)
      BY <1>6, <3>1
    <3>4. Behind(Mode(c), c, m, b)
      BY <3>2, <3>3, BehindLater
    <3> QED BY <3>1, <3>4
  <2>7. Behind(Mode(c), c, cli[c], Reached(cli[c], sock[c]))'
    BY <1>1, <1>3, <1>8, <2>6
  <2>8. proc'[p].pc \notin Busy
    BY <1>2, <1>4, <1>10
  <2> QED BY <1>1, <1>5, <1>8, <1>9, <2>7, <2>8, StreamsServe
<1>11. CASE kind # "select"
  <2>1. Flows(Mode(c), c, m, sock[c], r)
    BY <1>2, <1>3, <1>5, <1>6, <1>11, FlowsAgain
  <2>2. Flows(Mode(c), c, cli[c], sock[c], proc[p])'
    BY <1>1, <1>2, <1>3, <1>8, <2>1
  <2>3. Conn(p)' = c /\ proc'[p].pc \in Busy
    BY <1>1, <1>2, <1>4, <1>5, <1>11 DEF Conn, Process, Serves
  <2> QED BY <1>1, <1>5, <1>8, <1>9, <2>2, <2>3, StreamsServe
<1> QED BY <1>10, <1>11

\* Another connection is closed.
LEMMA ConnsKept ==
  ASSUME Inv, Tokens, kind' = kind, NEW p \in Procs, NEW c \in Clients, Serves(p, c),
         files' = [files EXCEPT ![Process(p)][proc[p].fd] = None],
         \A q \in Procs : q # p => proc'[q] = proc[q]
  PROVE  \A q \in Procs : proc[q].pc \in Busy /\ q # p => Conn(q)' = Conn(q)
<1> SUFFICES ASSUME NEW q \in Procs, proc[q].pc \in Busy, q # p PROVE Conn(q)' = Conn(q)
  OBVIOUS
<1>1. proc[p].pc \in Busy /\ Conn(p) = c /\ Conn(q) # c
  BY Alone DEF Serves
<1>2. /\ proc[q].fd \in Fd /\ proc[p].fd \in Fd
      /\ kind \in {"process", "tiny"} => p \in Spawned \cup {Main} /\ q \in Spawned \cup {Main}
  BY <1>1, Workers
<1>3. /\ Process(p) \in {Main} \cup Spawned /\ Process(q) \in {Main} \cup Spawned
      /\ Process(q)' = Process(q)
  BY <1>2 DEF Process
<1>4. files'[Process(q)][proc[q].fd] = files[Process(q)][proc[q].fd]
  <2>1. ~(Process(q) = Process(p) /\ proc[q].fd = proc[p].fd)
    BY <1>1 DEF Conn
  <2>2. files \in [{Main} \cup Spawned -> [Fd -> Clients \cup {None}]]
    BY DEF Inv, TypeOK
  <2> QED BY <1>2, <1>3, <2>1, <2>2
<1> QED BY <1>3, <1>4 DEF Conn

\* A connection is closed at its end, when all that was sent is echoed.
LEMMA StreamsClose ==
  ASSUME Inv, Tokens, Streams, NEW p \in Procs, NEW c \in Clients, Peer(p, c), Close(p, c)
  PROVE  Streams'
<1>1. /\ proc[p].pc = "read" /\ proc[p].rio = <<>>
      /\ files' = [files EXCEPT ![Process(p)][proc[p].fd] = None]
      /\ UNCHANGED <<kind, eager, cli, sock>>
  BY DEF Close, At, fixed, client
<1>2. PICK next \in {"accept", "remove", "check", "none"} : proc' = [proc EXCEPT ![p] = Proc(next, None)]
  BY DEF Close
<1>3. PICK r \in Contexts : r = Proc(next, None) /\ r.pc = next
  BY Contextual DEF Pcs
<1>4. proc'[p] = r /\ \A q \in Procs : q # p => proc'[q] = proc[q]
  <2>1. proc' = [proc EXCEPT ![p] = r] /\ proc \in [Procs -> Contexts]
    BY <1>2, <1>3 DEF Inv, TypeOK
  <2> QED BY <2>1
<1>5. proc[p].pc \in Busy /\ proc[p].pc \in Hearing /\ r.pc \notin Busy
  BY <1>1, <1>3 DEF Busy, Hearing
<1>6. /\ Serves(p, c) /\ Sends(c, cli[c], sock[c]) /\ Flows(Mode(c), c, cli[c], sock[c], proc[p])
      /\ cli[c] \in Members /\ sock[c] \in Seq(Piece) /\ proc[p].line = <<>>
  BY <1>5, Peered
<1>7. Behind(Mode(c), c, cli[c], Reached(cli[c], sock[c]))
  <2>1. Reached(cli[c], sock[c]) \in Int
    BY <1>6 DEF Reached, Members
  <2>2. Len(proc[p].rio) = 0 /\ Len(proc[p].line) = 0
    BY <1>1, <1>6
  <2>3. (Reached(cli[c], sock[c]) - Len(proc[p].rio)) - Len(proc[p].line) = Reached(cli[c], sock[c])
    BY <2>1, <2>2
  <2> QED BY <1>6, <2>3 DEF Flows
<1>8. Sends(c, cli[c], sock[c])' /\ Behind(Mode(c), c, cli[c], Reached(cli[c], sock[c]))'
  BY <1>1, <1>6, <1>7 DEF Mode
<1>9. \A q \in Procs : proc[q].pc \in Busy /\ q # p => Conn(q)' = Conn(q)
  BY <1>1, <1>4, <1>6, ConnsKept
<1> QED BY <1>1, <1>4, <1>5, <1>6, <1>8, <1>9, StreamsServe

\* tiny takes lines and answers something else.
LEMMA StreamsTiny ==
  ASSUME Inv, Tokens, Streams, kind = "tiny", UNCHANGED <<kind, eager, cli, sock, files>>,
         NEW c \in Clients, Serves(Main, c), \A q \in Procs : q # Main => proc'[q] = proc[q],
         proc'[Main].fd = proc[Main].fd,
         proc'[Main].pc \in Busy => Flows("answer", c, cli[c], sock[c], proc'[Main])
  PROVE  Streams'
<1>1. Main \in Procs /\ Mode(c) = "answer" /\ Mode(c)' = "answer"
  BY MainRecord DEF Inv, Mode
<1>2. \A q \in Procs : q # Main => Conn(q)' = Conn(q)
  BY DEF Conn, Process
<1>3. Conn(Main)' = c
  BY DEF Serves, Conn, Process
<1>4. Behind("answer", c, cli[c], Reached(cli[c], sock[c]))'
  BY DEF Behind
<1>5. Sends(c, cli[c], sock[c])
  BY DEF Streams, StreamOf
<1>6. /\ Sends(c, cli[c], sock[c])'
      /\ proc'[Main].pc \in Busy => Flows(Mode(c), c, cli[c], sock[c], proc[Main])'
      /\ Behind(Mode(c), c, cli[c], Reached(cli[c], sock[c]))'
  BY <1>1, <1>4, <1>5
<1> QED BY <1>1, <1>2, <1>3, <1>6, StreamsServe

-----------------------------------------------------------------------------
(* The order of the pieces, in tiny *)

\* A step of main in doit.
LEMMA RequestDoes ==
  ASSUME Inv, NEW p \in Procs, NEW c \in Clients, RequestLine(p, c) \/ read_requesthdrs(p, c)
  PROVE  /\ kind = "tiny" /\ p = Main /\ UNCHANGED <<fixed, cli, sock, files, backlog, dead>>
         /\ \A q \in Procs : q # Main => proc'[q] = proc[q]
         /\ proc'[Main].fd = proc[Main].fd
         /\ \E n \in 1..Len(proc[Main].rio), r \in Contexts :
              /\ n = Readline(Main, c) /\ proc'[Main] = r
              /\ r.rio = SubSeq(proc[Main].rio, n + 1, Len(proc[Main].rio))
              /\ \/ RequestLine(p, c) /\ proc[Main].pc = "request" /\ r.pc = "headers" /\ r.line = proc[Main].line
                    /\ (Whole(Main, n) => asks[c].method = "GET")
                 \/ RequestLine(p, c) /\ proc[Main].pc = "request" /\ r.pc = "reply"
                    /\ r.line = clienterror("501") /\ (Whole(Main, n) => asks[c].method # "GET")
                 \/ proc[Main].pc = "headers" /\ r.pc = "headers" /\ r.line = proc[Main].line
                 \/ proc[Main].pc = "headers" /\ r.pc = "reply" /\ r.line = Reply(asks[c])
<1>1. /\ proc[p].pc \in {"request", "headers"} /\ Readline(p, c) > 0
      /\ UNCHANGED <<fixed, cli, sock, files, backlog, dead>>
  BY DEF RequestLine, read_requesthdrs, At, client, sig
<1>2. Stands(p, proc[p].pc) /\ proc[p] \in Contexts /\ proc \in [Procs -> Contexts]
  BY Record DEF Inv, TypeOK
<1>3. kind = "tiny" /\ p = Main
  BY <1>1, <1>2 DEF Stands
<1>4. PICK n \in Nat : n = Readline(p, c) /\ n <= Len(proc[p].rio) /\ n > 0
  BY <1>1, ReadlineBounds DEF Inv
<1>5. PICK k \in Contexts : /\ k = Took(p, n) /\ k.pc = proc[p].pc /\ k.fd = proc[p].fd
                            /\ k.line = proc[p].line
                            /\ k.rio = SubSeq(proc[p].rio, n + 1, Len(proc[p].rio))
  BY <1>4, Takes
<1>6. n \in 1..Len(proc[Main].rio)
  BY <1>2, <1>3, <1>4 DEF Contexts
<1>7. ASSUME NEW parts \in Seq(Part)
      PROVE  \E r \in Contexts : /\ r = Respond(k, parts) /\ r.pc = "reply" /\ r.line = parts
                                 /\ r.rio = k.rio /\ r.fd = k.fd
  BY Responds
<1>8. \E r \in Contexts : /\ r = [k EXCEPT !.pc = "headers"] /\ r.pc = "headers" /\ r.line = k.line
                          /\ r.rio = k.rio /\ r.fd = k.fd
  <2>1. "headers" \in Pcs
    BY DEF Pcs
  <2> QED BY <2>1, Fields
<1>9. \E r \in Contexts :
        /\ proc' = [proc EXCEPT ![p] = r] /\ r.rio = k.rio /\ r.fd = k.fd
        /\ \/ RequestLine(p, c) /\ proc[p].pc = "request" /\ r.pc = "headers" /\ r.line = k.line
              /\ (Whole(p, n) => asks[c].method = "GET")
           \/ RequestLine(p, c) /\ proc[p].pc = "request" /\ r.pc = "reply"
              /\ r.line = clienterror("501") /\ (Whole(p, n) => asks[c].method # "GET")
           \/ proc[p].pc = "headers" /\ r.pc = "headers" /\ r.line = k.line
           \/ proc[p].pc = "headers" /\ r.pc = "reply" /\ r.line = Reply(asks[c])
  <2>1. CASE RequestLine(p, c)
    <3>1. /\ proc[p].pc = "request"
          /\ \/ proc' = [proc EXCEPT ![p] = Respond(k, clienterror("501"))]
                /\ (Whole(p, n) => asks[c].method # "GET")
             \/ proc' = [proc EXCEPT ![p] = [k EXCEPT !.pc = "headers"]]
                /\ (Whole(p, n) => asks[c].method = "GET")
      BY <1>4, <1>5, <2>1 DEF RequestLine, At
    <3>2. clienterror("501") \in Seq(Part)
      BY Replies
    <3>3. CASE /\ proc' = [proc EXCEPT ![p] = Respond(k, clienterror("501"))]
               /\ Whole(p, n) => asks[c].method # "GET"
      <4>1. PICK r \in Contexts : /\ r = Respond(k, clienterror("501")) /\ r.pc = "reply"
                                 /\ r.line = clienterror("501") /\ r.rio = k.rio /\ r.fd = k.fd
        BY <1>7, <3>2
      <4>2. proc' = [proc EXCEPT ![p] = r]
        BY <3>3, <4>1
      <4> QED BY <2>1, <3>1, <3>3, <4>1, <4>2
    <3>4. CASE /\ proc' = [proc EXCEPT ![p] = [k EXCEPT !.pc = "headers"]]
               /\ Whole(p, n) => asks[c].method = "GET"
      <4>1. PICK r \in Contexts : /\ r = [k EXCEPT !.pc = "headers"] /\ r.pc = "headers"
                                 /\ r.line = k.line /\ r.rio = k.rio /\ r.fd = k.fd
        BY <1>8
      <4>2. proc' = [proc EXCEPT ![p] = r]
        BY <3>4, <4>1
      <4> QED BY <2>1, <3>1, <3>4, <4>1, <4>2
    <3> QED BY <3>1, <3>3, <3>4
  <2>2. CASE read_requesthdrs(p, c)
    <3>1. /\ proc[p].pc = "headers"
          /\ \/ proc' = [proc EXCEPT ![p] = Respond(k, Reply(asks[c]))]
             \/ proc' = [proc EXCEPT ![p] = k]
      BY <1>4, <1>5, <2>2 DEF read_requesthdrs, At
    <3>2. Reply(asks[c]) \in Seq(Part)
      BY Replies
    <3> QED BY <1>5, <1>7, <3>1, <3>2
  <2> QED BY <2>1, <2>2
<1>10. PICK r \in Contexts :
         /\ proc' = [proc EXCEPT ![p] = r] /\ r.rio = k.rio /\ r.fd = k.fd
         /\ \/ RequestLine(p, c) /\ proc[p].pc = "request" /\ r.pc = "headers" /\ r.line = k.line
               /\ (Whole(p, n) => asks[c].method = "GET")
            \/ RequestLine(p, c) /\ proc[p].pc = "request" /\ r.pc = "reply"
               /\ r.line = clienterror("501") /\ (Whole(p, n) => asks[c].method # "GET")
            \/ proc[p].pc = "headers" /\ r.pc = "headers" /\ r.line = k.line
            \/ proc[p].pc = "headers" /\ r.pc = "reply" /\ r.line = Reply(asks[c])
  BY <1>9
<1>11. proc'[Main] = r /\ \A q \in Procs : q # Main => proc'[q] = proc[q]
  BY <1>2, <1>3, <1>10
<1>12. /\ n \in 1..Len(proc[Main].rio) /\ n = Readline(Main, c) /\ proc'[Main] = r
       /\ r.rio = SubSeq(proc[Main].rio, n + 1, Len(proc[Main].rio))
       /\ r.fd = proc[Main].fd
  BY <1>3, <1>4, <1>5, <1>6, <1>10, <1>11
<1>13. \/ RequestLine(p, c) /\ proc[Main].pc = "request" /\ r.pc = "headers" /\ r.line = proc[Main].line
          /\ (Whole(Main, n) => asks[c].method = "GET")
       \/ RequestLine(p, c) /\ proc[Main].pc = "request" /\ r.pc = "reply"
          /\ r.line = clienterror("501") /\ (Whole(Main, n) => asks[c].method # "GET")
       \/ proc[Main].pc = "headers" /\ r.pc = "headers" /\ r.line = proc[Main].line
       \/ proc[Main].pc = "headers" /\ r.pc = "reply" /\ r.line = Reply(asks[c])
  BY <1>3, <1>5, <1>10
<1>14. proc'[Main].fd = proc[Main].fd
  BY <1>12
<1> QED BY <1>1, <1>3, <1>11, <1>12, <1>13, <1>14, ZenonT(30)

\* tiny takes a line of the request.
LEMMA StreamsRequest ==
  ASSUME Inv, Tokens, Streams, NEW p \in Procs, NEW c \in Clients, Peer(p, c),
         RequestLine(p, c) \/ NoRequest(p, c) \/ read_requesthdrs(p, c)
  PROVE  Streams'
<1>1. proc[p].pc \in {"request", "headers"}
  BY DEF RequestLine, NoRequest, read_requesthdrs, At
<1>2. Stands(p, proc[p].pc) /\ proc[p] \in Contexts /\ proc \in [Procs -> Contexts]
  BY Record DEF Inv, TypeOK
<1>3. kind = "tiny" /\ p = Main
  BY <1>1, <1>2 DEF Stands
<1>4. /\ proc[p].pc \in Busy /\ proc[p].pc \in Hearing /\ {"reply", "finish"} \cap Busy = {}
      /\ "headers" \in Hearing
  BY <1>1 DEF Busy, Hearing
<1>5. /\ Serves(Main, c) /\ Sends(c, cli[c], sock[c])
      /\ Flows("answer", c, cli[c], sock[c], proc[Main])
      /\ cli[c] \in Members /\ sock[c] \in Seq(Piece) /\ proc[Main] \in Contexts
      /\ proc[Main].line = <<>>
  BY <1>3, <1>4, Peered DEF Mode
<1>6. CASE NoRequest(p, c)
  <2>1. proc' = [proc EXCEPT ![Main].pc = "finish"] /\ UNCHANGED <<kind, eager, cli, sock, files>>
    BY <1>3, <1>6 DEF NoRequest, Goto, fixed, client
  <2>2. /\ \A q \in Procs : q # Main => proc'[q] = proc[q]
        /\ proc'[Main].fd = proc[Main].fd /\ proc'[Main].pc = "finish"
    BY <1>2, <1>3, <2>1 DEF Contexts
  <2>3. proc'[Main].pc \notin Busy
    BY <1>4, <2>2
  <2> QED BY <1>3, <1>5, <2>1, <2>2, <2>3, StreamsTiny
<1>7. CASE RequestLine(p, c) \/ read_requesthdrs(p, c)
  <2>1. /\ UNCHANGED <<kind, eager, cli, sock, files>> /\ proc'[Main].fd = proc[Main].fd
        /\ \A q \in Procs : q # Main => proc'[q] = proc[q]
    BY <1>7, RequestDoes DEF fixed
  <2>2. PICK n \in 1..Len(proc[Main].rio), r \in Contexts :
          /\ proc'[Main] = r /\ r.rio = SubSeq(proc[Main].rio, n + 1, Len(proc[Main].rio))
          /\ r.pc = "reply" \/ (r.pc = "headers" /\ r.line = proc[Main].line)
    BY <1>7, RequestDoes
  <2>3. ASSUME r.pc \in Busy PROVE Flows("answer", c, cli[c], sock[c], r)
    <3>1. r.line = <<>>
      BY <1>4, <1>5, <2>2, <2>3
    <3> QED BY <1>5, <2>2, <3>1, FlowsTaken
  <2> QED BY <1>3, <1>5, <2>1, <2>2, <2>3, StreamsTiny
<1> QED BY <1>6, <1>7

\* A part of a response is sent.
LEMMA StreamsReply ==
  ASSUME Streams, kind = "tiny", UNCHANGED <<kind, eager, sock, files>>,
         \A d \in Clients : cli'[d].st = cli[d].st /\ cli'[d].sent = cli[d].sent,
         \A q \in Procs : proc'[q] = proc[q] \/ (proc[q].pc \notin Busy /\ proc'[q].pc \notin Busy)
  PROVE  Streams'
<1>1. ASSUME NEW d \in Clients
      PROVE  Sends(d, cli[d], sock[d])' /\ Reached(cli[d], sock[d])' = Reached(cli[d], sock[d])
  <2>1. Sends(d, cli[d], sock[d])
    BY DEF Streams, StreamOf
  <2>2. Sends(d, cli'[d], sock[d]) /\ Reached(cli'[d], sock[d]) = Reached(cli[d], sock[d])
    BY <2>1 DEF Sends, Reached
  <2> QED BY <2>2
<1>2. ASSUME NEW q \in Procs
      PROVE  \/ proc[q].pc \notin Busy /\ proc'[q].pc \notin Busy
             \/ /\ proc[q].pc \in Busy /\ proc'[q].pc \in Busy /\ Conn(q)' = Conn(q)
                /\ proc'[q].rio = proc[q].rio /\ proc'[q].line = proc[q].line
                /\ proc'[q].pc \in Hearing => proc[q].pc \in Hearing
  <2>1. proc'[q] = proc[q] => Conn(q)' = Conn(q)
    BY DEF Conn, Process
  <2> QED BY <2>1
<1> QED BY <1>1, <1>2, StreamsKept

\* What WriteReply does.
LEMMA WriteReplyDoes ==
  ASSUME Inv, NEW p \in Procs, NEW c \in Clients, WriteReply(p, c)
  PROVE  /\ kind = "tiny" /\ p = Main /\ proc[Main].pc = "reply" /\ proc[Main].line # <<>>
         /\ UNCHANGED <<fixed, sock, files, backlog, dead>>
         /\ \A q \in Procs : q # Main => proc'[q] = proc[q]
         /\ proc'[Main].fd = proc[Main].fd /\ proc'[Main].rio = proc[Main].rio
         /\ proc'[Main].line = Tail(proc[Main].line) /\ proc'[Main].pc = AfterReply(Main, c)
         /\ \E m \in Members :
              /\ cli'[c] = m /\ m.st = cli[c].st /\ m.sent = cli[c].sent
              /\ m.got = IF cli[c].st = "left" THEN cli[c].got
                         ELSE Append(cli[c].got, Head(proc[Main].line))
         /\ \A d \in Clients : d # c => cli'[d] = cli[d]
<1>1. /\ proc[p].pc = "reply"
      /\ cli' = (IF cli[c].st = "left" THEN cli ELSE [cli EXCEPT ![c].got = Append(@, Head(proc[p].line))])
      /\ proc' = [proc EXCEPT ![p].pc = AfterReply(p, c), ![p].line = Tail(@)]
      /\ UNCHANGED <<fixed, sock, files, backlog, dead>>
  BY DEF WriteReply, At, sig
<1>2. /\ Stands(p, proc[p].pc) /\ proc[p] \in Contexts /\ proc[p].line \in Seq(Part)
      /\ proc[p].line # <<>> /\ proc \in [Procs -> Contexts]
  BY <1>1, Record DEF Inv, Shape, TypeOK
<1>3. kind = "tiny" /\ p = Main
  BY <1>1, <1>2 DEF Stands
<1>4. PICK g \in Seq(Part) : g = Append(cli[c].got, Head(proc[p].line))
  <2>1. ASSUME NEW s \in Seq(Part), NEW t \in Seq(Part), t # <<>> PROVE Append(s, Head(t)) \in Seq(Part)
    BY <2>1
  <2> QED BY <1>2, <2>1 DEF Inv, TypeOK, DataOK, Members
<1>5. /\ \E m \in Members : /\ cli'[c] = m /\ m.st = cli[c].st /\ m.sent = cli[c].sent
                            /\ m.got = IF cli[c].st = "left" THEN cli[c].got ELSE g
      /\ \A d \in Clients : d # c => cli'[d] = cli[d]
  <2>1. cli' = (IF cli[c].st = "left" THEN cli ELSE [cli EXCEPT ![c].got = g])
    BY <1>1, <1>4
  <2> QED BY <2>1, Reaches
<1>6. PICK a, t : a = AfterReply(p, c) /\ t = Tail(proc[p].line)
  OBVIOUS
<1>7. proc' = [proc EXCEPT ![p].pc = a, ![p].line = t]
  BY <1>1, <1>6, <1>2
<1>8. /\ \A q \in Procs : q # p => proc'[q] = proc[q]
      /\ proc'[p].fd = proc[p].fd /\ proc'[p].rio = proc[p].rio
      /\ proc'[p].line = t /\ proc'[p].pc = a
  BY <1>2, <1>7 DEF Contexts
<1> QED BY <1>1, <1>2, <1>3, <1>4, <1>5, <1>6, <1>8

\* What ForkCGI and CGI do.
LEMMA CGIDoes ==
  ASSUME Inv, NEW p \in Procs, NEW c \in Clients, Peer(p, c), CGI(p, c)
  PROVE  /\ kind = "tiny" /\ p = c /\ proc[c].pc = "cgi" /\ c \notin dead /\ c \in dead'
         /\ ~Waits(c) /\ ~Fresh(c)
         /\ UNCHANGED <<fixed, sock, files, backlog, proc>> /\ dead' = dead \cup {c}
         /\ \E m \in Members :
              /\ cli'[c] = m /\ m.st = cli[c].st /\ m.sent = cli[c].sent
              /\ m.got = IF cli[c].st = "left" THEN cli[c].got ELSE Append(cli[c].got, "output")
         /\ \A d \in Clients : d # c => cli'[d] = cli[d]
<1>1. /\ proc[p].pc = "cgi" /\ Process(p) \notin dead /\ dead' = dead \cup {p}
      /\ cli' = (IF cli[c].st = "left" THEN cli ELSE [cli EXCEPT ![c].got = Append(@, "output")])
      /\ UNCHANGED <<fixed, sock, files, backlog, proc>>
  BY DEF CGI, At
<1>2. Stands(p, "cgi")
  BY <1>1, Record DEF Inv
<1>3. kind = "tiny" /\ p \in Clients /\ Process(p) = p
  BY <1>2, MainRecord DEF Inv, Stands, Process
<1>4. p = c
  <2>1. Has(p, p, proc[p].fd)
    BY <1>1, <1>3 DEF Inv, Hands, Children
  <2> QED BY <1>3, <2>1 DEF Has, Peer, Conn
<1>5. ~Waits(c) /\ ~Fresh(c)
  BY <1>1, <1>4 DEF Inv, Hands, Idle, Fresh
<1>6. PICK g \in Seq(Part) : g = Append(cli[c].got, "output")
  <2>1. ASSUME NEW s \in Seq(Part), NEW x \in Part PROVE Append(s, x) \in Seq(Part)
    OBVIOUS
  <2>2. cli[c].got \in Seq(Part) /\ "output" \in Part
    BY DEF Inv, TypeOK, DataOK, Members, Part, Words
  <2> QED BY <2>1, <2>2
<1>7. /\ \E m \in Members : /\ cli'[c] = m /\ m.st = cli[c].st /\ m.sent = cli[c].sent
                            /\ m.got = IF cli[c].st = "left" THEN cli[c].got ELSE g
      /\ \A d \in Clients : d # c => cli'[d] = cli[d]
  <2>1. cli' = (IF cli[c].st = "left" THEN cli ELSE [cli EXCEPT ![c].got = g])
    BY <1>1, <1>6
  <2> QED BY <2>1, Reaches
<1> QED BY <1>1, <1>3, <1>4, <1>5, <1>6, <1>7

\* The steps of doit.
LEMMA StreamsDoit ==
  ASSUME Inv, Tokens, Streams, NEW p \in Procs, NEW c \in Clients, Peer(p, c), doit(p, c)
  PROVE  Streams'
<1>1. Stands(p, proc[p].pc) /\ proc[p] \in Contexts /\ proc \in [Procs -> Contexts]
  BY Record DEF Inv, TypeOK
<1>2. \A pc \in {"reply", "mmap", "fork", "finish", "wait", "cgi", "accept"} : pc \notin Busy
  BY DEF Busy, Hearing
<1>3. CASE WriteReply(p, c)
  <2>1. /\ kind = "tiny" /\ UNCHANGED <<kind, eager, sock, files>> /\ proc[Main].pc = "reply"
        /\ \A q \in Procs : q # Main => proc'[q] = proc[q]
        /\ proc'[Main].pc = AfterReply(Main, c)
    BY <1>3, WriteReplyDoes DEF fixed
  <2>2. \A d \in Clients : cli'[d].st = cli[d].st /\ cli'[d].sent = cli[d].sent
    BY <1>3, WriteReplyDoes
  <2>3. proc'[Main].pc \notin Busy /\ proc[Main].pc \notin Busy
    BY <1>2, <2>1, AfterReplies
  <2> QED BY <2>1, <2>2, <2>3, StreamsReply
<1>4. CASE Killed(p, c)
  <2>1. UNCHANGED <<kind, eager, cli, sock, files, proc>>
    BY <1>4 DEF Killed, fixed, client
  <2>2. \A q \in Procs : Conn(q)' = Conn(q)
    BY <2>1 DEF Conn, Process
  <2> QED BY <2>1, <2>2, StreamsStill
<1>5. CASE CGI(p, c)
  <2>1. /\ kind = "tiny" /\ UNCHANGED <<kind, eager, sock, files, proc>>
    BY <1>5, CGIDoes DEF fixed
  <2>2. \A d \in Clients : cli'[d].st = cli[d].st /\ cli'[d].sent = cli[d].sent
    BY <1>5, CGIDoes
  <2> QED BY <2>1, <2>2, StreamsReply
<1>6. CASE ForkCGI(p, c) \/ Wait(p) \/ CloseConn(p)
  <2>1. proc[p].pc \in {"fork", "wait", "finish"} /\ UNCHANGED <<kind, eager, cli, sock>>
    BY <1>6 DEF ForkCGI, Wait, CloseConn, At, fixed, client
  <2>2. kind = "tiny" /\ p = Main
    BY <1>1, <2>1 DEF Stands
  <2>3. ASSUME NEW q \in Procs PROVE proc'[q] = proc[q] \/ proc'[q].pc \notin Busy
    <3>1. CASE ForkCGI(p, c)
      <4>1. proc' = [proc EXCEPT ![c] = Proc("cgi", proc[p].fd), ![p].pc = "wait"]
        BY <3>1 DEF ForkCGI
      <4>2. PICK a \in Contexts : a = Proc("cgi", proc[p].fd) /\ a.pc = "cgi"
        BY Contextual, Record DEF Inv, Pcs
      <4>3. PICK b \in Contexts : b = [proc[p] EXCEPT !.pc = "wait"] /\ b.pc = "wait"
        <5>1. "wait" \in Pcs
          BY DEF Pcs
        <5> QED BY <1>1, <5>1, Fields
      <4>4. c # p
        BY <2>2, MainRecord DEF Inv
      <4>5. proc' = [proc EXCEPT ![c] = a, ![p] = b]
        BY <1>1, <4>1, <4>2, <4>3, <4>4
      <4>6. q # c /\ q # p => proc'[q] = proc[q]
        BY <1>1, <4>5
      <4>7. (q = p => proc'[q] = b) /\ (q = c => proc'[q] = a)
        BY <1>1, <4>4, <4>5
      <4> QED BY <1>2, <4>2, <4>3, <4>6, <4>7
    <3>2. CASE Wait(p)
      <4>1. proc' = [proc EXCEPT ![p].pc = "finish"]
        BY <3>2 DEF Wait, Goto
      <4> QED BY <1>1, <1>2, <4>1 DEF Contexts
    <3>3. CASE CloseConn(p)
      <4>1. proc' = [proc EXCEPT ![p] = Proc("accept", None)]
        BY <3>3 DEF CloseConn
      <4> QED BY <1>1, <1>2, <4>1 DEF Proc
    <3> QED BY <1>6, <3>1, <3>2, <3>3
  <2>4. proc[Main].pc \notin Busy
    BY <1>2, <2>1, <2>2
  <2> QED BY <2>1, <2>2, <2>3, <2>4, StreamsIdle
<1> QED BY <1>3, <1>4, <1>5, <1>6, StreamsRequest DEF doit

-----------------------------------------------------------------------------
(* The order of the pieces, at the steps of a client and in all *)

\* What Send does.
LEMMA SendDoes ==
  ASSUME Inv, NEW c \in Clients, Send(c)
  PROVE  /\ cli[c].st = "open" /\ cli[c].sent < Pieces
         /\ c \in eager \/ kind = "tiny" \/ cli[c].sent % 2 = 1 \/ Len(cli[c].got) = cli[c].sent
         /\ \E m \in Members : /\ cli'[c] = m /\ m.st = cli[c].st /\ m.got = cli[c].got
                               /\ m.sent = cli[c].sent + 1
         /\ sock'[c] = Append(sock[c], <<c, cli[c].sent + 1>>)
         /\ \A d \in Clients : d # c => cli'[d] = cli[d] /\ sock'[d] = sock[d]
         /\ UNCHANGED <<fixed, files, proc, backlog, dead>>
<1>1. /\ cli[c].st = "open" /\ cli[c].sent < Pieces
      /\ c \in eager \/ kind = "tiny" \/ cli[c].sent % 2 = 1 \/ Len(cli[c].got) = cli[c].sent
      /\ cli' = [cli EXCEPT ![c].sent = @ + 1]
      /\ sock' = [sock EXCEPT ![c] = Append(@, <<c, cli[c].sent + 1>>)]
      /\ UNCHANGED <<fixed, files, proc, backlog, dead>>
  BY DEF Send, sig
<1>2. cli \in [Clients -> Members] /\ sock \in [Clients -> Seq(Piece)] /\ cli[c] \in Members
  BY DEF Inv, TypeOK, DataOK
<1>3. PICK n \in Nat : n = cli[c].sent + 1
  BY <1>2 DEF Members
<1>4. PICK m \in Members : m = [cli[c] EXCEPT !.sent = n] /\ m.st = cli[c].st /\ m.got = cli[c].got /\ m.sent = n
  <2>1. [cli[c] EXCEPT !.sent = n] \in Members
    BY <1>2 DEF Members
  <2> QED BY <1>2, <2>1 DEF Members
<1>5. cli' = [cli EXCEPT ![c] = m]
  BY <1>1, <1>2, <1>3, <1>4
<1>6. cli'[c] = m /\ \A d \in Clients : d # c => cli'[d] = cli[d] /\ sock'[d] = sock[d]
  BY <1>1, <1>2, <1>5
<1>7. sock'[c] = Append(sock[c], <<c, cli[c].sent + 1>>)
  BY <1>1, <1>2
<1> QED BY <1>1, <1>3, <1>4, <1>6, <1>7

\* A client connects, finishes or leaves.
LEMMA ClientDoes ==
  ASSUME Inv, NEW c \in Clients, Connect(c) \/ Finish(c) \/ Leave(c)
  PROVE  /\ \E m \in Members :
              /\ cli'[c] = m /\ m.sent = cli[c].sent /\ m.got = cli[c].got
              /\ \/ cli[c].st = "new" /\ m.st = "open"
                 \/ cli[c].st = "open" /\ m.st = "fin" /\ cli[c].sent = Pieces
                 \/ cli[c].st = "open" /\ m.st = "left"
         /\ \A d \in Clients : d # c => cli'[d] = cli[d]
         /\ UNCHANGED <<fixed, sock, files, proc, dead>>
         /\ \A d \in Clients : Waits(d)' => Waits(d)
<1>1. cli \in [Clients -> Members] /\ cli[c] \in Members
  BY DEF Inv, TypeOK, DataOK
<1>2. PICK s \in {"open", "fin", "left"} : cli' = [cli EXCEPT ![c].st = s]
  BY DEF Connect, Finish, Leave
<1>3. PICK m \in Members : m = [cli[c] EXCEPT !.st = s] /\ m.st = s /\ m.got = cli[c].got /\ m.sent = cli[c].sent
  <2>1. [cli[c] EXCEPT !.st = s] \in Members
    BY <1>1 DEF Members, States
  <2> QED BY <1>1, <2>1 DEF Members
<1>4. cli' = [cli EXCEPT ![c] = m]
  BY <1>1, <1>2, <1>3
<1>5. cli'[c] = m /\ \A d \in Clients : d # c => cli'[d] = cli[d]
  BY <1>1, <1>4
<1>6. UNCHANGED <<fixed, sock, files, proc, dead>>
  BY DEF Connect, Finish, Leave, sig
<1>7. \/ cli[c].st = "new" /\ m.st = "open"
      \/ cli[c].st = "open" /\ m.st = "fin" /\ cli[c].sent = Pieces
      \/ cli[c].st = "open" /\ m.st = "left"
  <2>1. \/ cli[c].st = "new" /\ cli'[c].st = "open"
        \/ cli[c].st = "open" /\ cli'[c].st = "fin" /\ cli[c].sent = Pieces
        \/ cli[c].st = "open" /\ cli'[c].st = "left"
    BY <1>1 DEF Connect, Finish, Leave, Members
  <2> QED BY <1>5, <2>1
<1>8. ASSUME NEW d \in Clients, Waits(d)' PROVE Waits(d)
  <2>1. CASE Connect(c)
    <3>1. backlog' = Append(backlog, c) /\ cli[c].st = "new" /\ backlog \in Seq(Clients)
      BY <2>1 DEF Connect, Inv, TypeOK
    <3>2. CASE cli'[d].st = "new"
      <4>1. d # c
        BY <1>3, <1>5, <3>2
      <4> QED BY <1>5, <3>2, <4>1 DEF Waits
    <3>3. CASE \E i \in DOMAIN backlog' : backlog'[i] = d
      <4>1. PICK i \in DOMAIN backlog' : backlog'[i] = d
        BY <3>3
      <4>2. (i \in DOMAIN backlog /\ backlog[i] = d) \/ d = c
        BY <3>1, <4>1
      <4> QED BY <3>1, <4>2 DEF Waits
    <3> QED BY <1>8, <3>2, <3>3 DEF Waits
  <2>2. CASE Finish(c) \/ Leave(c)
    <3>1. backlog' = backlog
      BY <2>2 DEF Finish, Leave
    <3> QED BY <1>3, <1>5, <1>8, <3>1 DEF Waits
  <2> QED BY <2>1, <2>2
<1> QED BY <1>3, <1>5, <1>6, <1>7, <1>8

\* The steps of a client.
LEMMA StreamsClient ==
  ASSUME Inv, Tokens, Streams, NEW c \in Clients, Connect(c) \/ Client(c) \/ Leave(c)
  PROVE  Streams'
<1>1. UNCHANGED <<kind, eager, files, proc>> /\ \A q \in Procs : Conn(q)' = Conn(q)
  BY DEF Connect, Client, Send, Finish, Leave, fixed, Conn, Process
<1>2. /\ Sends(c, cli[c], sock[c]) /\ cli[c] \in Members /\ sock[c] \in Seq(Piece)
      /\ \A d \in Clients : Sends(d, cli[d], sock[d])
  BY DEF Streams, StreamOf, Inv, TypeOK, DataOK
<1>3. /\ \A d \in Clients : d # c => cli'[d] = cli[d] /\ sock'[d] = sock[d]
      /\ cli'[c].got = cli[c].got /\ (cli'[c].st # "left" => cli[c].st # "left")
      /\ Sends(c, cli'[c], sock'[c]) /\ Reached(cli'[c], sock'[c]) = Reached(cli[c], sock[c])
  <2>1. CASE Send(c)
    <3>1. /\ cli[c].st = "open" /\ cli[c].sent < Pieces
          /\ sock'[c] = Append(sock[c], <<c, cli[c].sent + 1>>)
          /\ \A d \in Clients : d # c => cli'[d] = cli[d] /\ sock'[d] = sock[d]
      BY <2>1, SendDoes
    <3>2. PICK m \in Members : /\ cli'[c] = m /\ m.st = cli[c].st /\ m.got = cli[c].got
                               /\ m.sent = cli[c].sent + 1
      BY <2>1, SendDoes
    <3>3. PICK n \in Nat : n = cli[c].sent + 1
      BY <1>2 DEF Members
    <3>4. Sends(c, m, Append(sock[c], <<c, n>>)) /\ Reached(m, Append(sock[c], <<c, n>>)) = Reached(cli[c], sock[c])
      BY <1>2, <3>1, <3>2, <3>3, SendOne
    <3> QED BY <3>1, <3>2, <3>3, <3>4
  <2>2. CASE Connect(c) \/ Finish(c) \/ Leave(c)
    <3>1. PICK m \in Members :
            /\ cli'[c] = m /\ m.sent = cli[c].sent /\ m.got = cli[c].got
            /\ \/ cli[c].st = "new" /\ m.st = "open"
               \/ cli[c].st = "open" /\ m.st = "fin" /\ cli[c].sent = Pieces
               \/ cli[c].st = "open" /\ m.st = "left"
      BY <2>2, ClientDoes
    <3>2. sock' = sock /\ \A d \in Clients : d # c => cli'[d] = cli[d]
      BY <2>2, ClientDoes
    <3>3. Sends(c, m, sock[c]) /\ Reached(m, sock[c]) = Reached(cli[c], sock[c])
      BY <1>2, <3>1 DEF Sends, Reached
    <3> QED BY <3>1, <3>2, <3>3
  <2> QED BY <2>1, <2>2 DEF Client
<1>4. ASSUME NEW d \in Clients
      PROVE  /\ Sends(d, cli[d], sock[d])' /\ Reached(cli[d], sock[d])' = Reached(cli[d], sock[d])
             /\ cli'[d].got = cli[d].got /\ (cli'[d].st # "left" => cli[d].st # "left")
  <2>1. CASE d = c
    BY <1>3, <2>1
  <2>2. CASE d # c
    BY <1>2, <1>3, <2>2
  <2> QED BY <2>1, <2>2
<1> QED BY <1>1, <1>4, StreamsKept

\* The steps of a thread or process.
LEMMA StreamsRun ==
  ASSUME Inv, Tokens, Streams, Turns, NEW p \in Procs, Run(p) PROVE Streams'
<1>1. ASSUME NEW c \in Clients, SigPipe(p, c) PROVE Streams'
  <2>1. UNCHANGED <<kind, eager, cli, sock, files, proc>>
    BY <1>1 DEF SigPipe, fixed, client
  <2>2. \A q \in Procs : Conn(q)' = Conn(q)
    BY <2>1 DEF Conn, Process
  <2> QED BY <2>1, <2>2, StreamsStill
<1>2. ASSUME p \in Threads, sbuf_remove(p) PROVE Streams'
  <2>1. /\ proc[p].pc = "remove" /\ UNCHANGED <<kind, eager, cli, sock, files>>
        /\ proc' = [proc EXCEPT ![p].pc = "once"]
    BY <1>2 DEF sbuf_remove, At, Goto, fixed, client
  <2>2. /\ \A q \in Procs : q # p => proc'[q] = proc[q]
        /\ proc'[p].pc = "once"
    BY <2>1 DEF Inv, TypeOK, Contexts
  <2>3. proc[p].pc \notin Busy /\ proc'[p].pc \notin Busy
    BY <2>1, <2>2 DEF Busy, Hearing
  <2>4. \A q \in Procs : q # p => Conn(q)' = Conn(q)
    BY <2>1, <2>2 DEF Conn, Process
  <2> QED BY <2>1, <2>2, <2>3, <2>4, StreamsStill
<1> QED BY <1>1, <1>2, StreamsStart, StreamsOnce, StreamsCount, StreamsRead, StreamsLine,
           StreamsWrite, StreamsClose, StreamsDoit DEF Run, Serve

\* Every step keeps the pieces of every client in order.
LEMMA StreamsStep ==
  ASSUME Inv, Tokens, Streams, Turns, [Next]_vars PROVE Streams'
<1>1. CASE UNCHANGED <<kind, eager, cli, sock, files, proc>>
  <2>1. \A q \in Procs : Conn(q)' = Conn(q)
    BY <1>1 DEF Conn, Process
  <2> QED BY <1>1, <2>1, StreamsStill
<1>2. sigchld_handler \/ UNCHANGED vars => UNCHANGED <<kind, eager, cli, sock, files, proc>>
  BY DEF sigchld_handler, vars, fixed, client
<1> QED BY <1>1, <1>2, StreamsMainStep, StreamsRun, StreamsClient DEF Next

-----------------------------------------------------------------------------
(* A client that waits *)

\* A line ends with the first even piece.
LEMMA LineEnds ==
  ASSUME NEW r \in Seq(Piece)
  PROVE  /\ LineIn(r) > 0 => LineIn(r) \in 1..Len(r) /\ r[LineIn(r)][2] % 2 = 0
         /\ LineIn(r) = 0 => \A i \in 1..Len(r) : r[i][2] % 2 # 0
<1> DEFINE E == {i \in DOMAIN r : r[i][2] % 2 = 0}
<1>1. E \in SUBSET Nat /\ E \in SUBSET (1..Len(r)) /\ \A i \in 1..Len(r) : r[i][2] % 2 = 0 => i \in E
  OBVIOUS
<1>2. LineIn(r) = IF E = {} THEN 0 ELSE Min(E)
  BY DEF LineIn
<1>3. \A i \in E : r[i][2] % 2 = 0
  OBVIOUS
<1> HIDE DEF E
<1>4. CASE E = {}
  BY <1>1, <1>2, <1>4
<1>5. CASE E # {}
  <2>1. Min(E) \in E
    BY <1>1, <1>5, MinNat
  <2>2. LineIn(r) \in E
    BY <1>2, <1>5, <2>1
  <2>3. LineIn(r) \in 1..Len(r) /\ Len(r) \in Nat
    <3>1. PICK n \in Nat : n = Len(r)
      OBVIOUS
    <3>2. \A i \in E : i \in 1..n
      BY <1>1, <3>1
    <3> QED BY <2>2, <3>1, <3>2
  <2>4. LineIn(r) > 0 /\ LineIn(r) # 0
    BY <2>3
  <2> QED BY <1>3, <2>2, <2>3, <2>4
<1> QED BY <1>4, <1>5

\* Parity of sums.
LEMMA Even ==
  ASSUME NEW a \in Nat, NEW b \in Nat, b % 2 = 0
  PROVE  /\ a % 2 = 0 => (b + a) % 2 = 0 /\ (a >= b => (a - b) % 2 = 0)
         /\ (b + a) % 2 = 0 => a % 2 = 0
         /\ a % 2 = 1 /\ a <= b + 2 => a + 1 <= b + 2
<1>1. PICK j \in Nat : b = 2 * j
  OBVIOUS
<1>2. ASSUME a % 2 = 0
      PROVE  (b + a) % 2 = 0 /\ (a >= b => (a - b) % 2 = 0)
  <2>1. PICK i \in Nat : a = 2 * i
    BY <1>2
  <2> QED BY <1>1, <2>1
<1> QED BY <1>1, <1>2

\* The end of a line among the pieces of c after the first k.
LEMMA PiecedEnds ==
  ASSUME NEW c \in Clients, NEW k \in Nat, NEW r \in Seq(Piece), r = Pieced(c, k, Len(r))
  PROVE  /\ LineIn(r) > 0 => LineIn(r) \in 1..Len(r) /\ (k + LineIn(r)) % 2 = 0
         /\ LineIn(r) = 0 => \A i \in 1..Len(r) : (k + i) % 2 # 0
<1>1. \A i \in 1..Len(r) : r[i][2] = k + i
  <2>1. PICK n \in Nat : n = Len(r)
    OBVIOUS
  <2>2. \A i \in 1..n : Pieced(c, k, n)[i] = <<c, k + i>>
    BY DEF Pieced
  <2> QED BY <2>1, <2>2
<1> QED BY <1>1, LineEnds

\* A step that leaves what a client has got and what main has.
LEMMA TurnKept ==
  ASSUME UNCHANGED <<kind, eager>>, NEW c \in Clients, Turn(c),
         cli'[c].got = cli[c].got, cli'[c].sent = cli[c].sent,
         proc'[Main].pc = "write" => proc'[Main] = proc[Main] /\ files'[Main] = files[Main]
  PROVE  Turn(c)'
<1>1. kind = "select" => Process(Main) = Main
  BY DEF Process
<1>2. proc'[Main].pc = "write" => Conn(Main)' = Conn(Main)
  BY DEF Conn, Process
<1> QED BY <1>2 DEF Turn, Serves

LEMMA TurnsKept ==
  ASSUME Turns, UNCHANGED <<kind, eager>>,
         \A d \in Clients : cli'[d].got = cli[d].got /\ cli'[d].sent = cli[d].sent
                            /\ (cli'[d].st # "left" => cli[d].st # "left"),
         proc'[Main].pc = "write" => proc'[Main] = proc[Main] /\ files'[Main] = files[Main]
  PROVE  Turns'
<1> SUFFICES ASSUME kind = "select", NEW c \in Clients \ eager, cli'[c].st # "left" PROVE Turn(c)'
  BY DEF Turns
<1>1. Turn(c)
  BY DEF Turns
<1> QED BY <1>1, TurnKept

\* check_clients takes the line of a client that waits, and nothing is left of its buffer.
LEMMA TurnsLine ==
  ASSUME Inv, Tokens, Streams, Turns, kind = "select",
         NEW p \in Procs, NEW c \in Clients, Peer(p, c), Line(p, c)
  PROVE  Turns'
<1>1. /\ proc[p].pc = "read" /\ UNCHANGED <<kind, eager, cli, sock, files>>
  BY LineDoes DEF fixed
<1>2. PICK n \in 1..Len(proc[p].rio), r \in Contexts :
        /\ n = Readline(p, c) /\ proc'[p] = r /\ r.fd = proc[p].fd
        /\ r.rio = SubSeq(proc[p].rio, n + 1, Len(proc[p].rio))
        /\ r.line = SubSeq(proc[p].rio, 1, n)
  BY LineDoes
<1>3. proc[p].pc \in Busy /\ proc[p].pc \in Hearing
  BY <1>1 DEF Busy, Hearing
<1>4. /\ Sends(c, cli[c], sock[c]) /\ Flows(Mode(c), c, cli[c], sock[c], proc[p])
      /\ cli[c] \in Members /\ sock[c] \in Seq(Piece) /\ proc[p] \in Contexts
      /\ proc[p].line = <<>> /\ Serves(p, c)
  BY <1>3, Peered
<1>5. p = Main
  BY <1>3, Workers
<1>6. Conn(Main)' = c
  BY <1>1, <1>2, <1>4, <1>5 DEF Serves, Conn, Process
<1> SUFFICES ASSUME NEW d \in Clients \ eager, cli'[d].st # "left" PROVE Turn(d)'
  BY <1>1 DEF Turns
<1>7. Turn(d) /\ cli[d].st # "left"
  BY <1>1 DEF Turns
<1>8. CASE d # c
  BY <1>1, <1>6, <1>7, <1>8 DEF Turn, Serves
<1>9. CASE d = c
  <2> DEFINE b == Len(proc[p].rio)
             a == Reached(cli[c], sock[c])
             k == a - b
             g == Len(cli[c].got)
  <2>1. /\ b \in Nat /\ g \in Nat /\ cli[c].sent \in Nat /\ Len(sock[c]) \in Nat /\ a \in Nat
        /\ a = cli[c].sent - Len(sock[c]) /\ proc[p].rio \in Seq(Piece) /\ Pieces \in Nat /\ Pieces % 2 = 0
    <3>1. proc[p].rio \in Seq(Piece) /\ cli[c].sent \in Nat /\ cli[c].got \in Seq(Part)
      BY <1>4 DEF Members, Contexts
    <3>2. Len(sock[c]) <= cli[c].sent /\ Len(sock[c]) \in Nat
      BY <1>4 DEF Sends
    <3>3. Pieces \in Nat /\ Pieces % 2 = 0
      BY ServersAssumption
    <3>4. a = cli[c].sent - Len(sock[c])
      BY DEF Reached
    <3>5. b \in Nat /\ g \in Nat
      BY <3>1
    <3> HIDE DEF a, b, g
    <3>6. a \in Nat
      BY <3>1, <3>2, <3>4
    <3> QED BY <3>1, <3>2, <3>3, <3>4, <3>5, <3>6
  <2>2. Mode(c) = "echo" /\ Len(proc[p].line) = 0
    BY <1>1, <1>4, <1>9 DEF Mode
  <2>3. k \in Nat /\ proc[p].rio = Pieced(c, k, b) /\ g = k
    <3>1. 0 <= k - 0 /\ proc[p].rio = Pieced(c, k, b) /\ Len(cli[c].got) = k - 0
      BY <1>4, <1>7, <1>9, <2>2 DEF Flows, Behind
    <3> HIDE DEF k, a, b
    <3>2. k \in Int
      BY <2>1 DEF k
    <3> QED BY <3>1, <3>2
  <2>4. g % 2 = 0 /\ cli[c].sent <= g + 2
    BY <1>7, <1>9 DEF Turn
  <2>5. LineIn(proc[p].rio) \in Nat /\ Len(proc[p].rio) = b
    BY <2>1, LineInBounds
  <2>6. LineIn(proc[p].rio) > 0 => (k + LineIn(proc[p].rio)) % 2 = 0
    BY <2>1, <2>3, PiecedEnds
  <2>7. n = (IF LineIn(proc[p].rio) > 0 THEN LineIn(proc[p].rio) ELSE IF AtEof(c) THEN b ELSE 0)
    BY <1>2 DEF Readline
  <2>8. AtEof(c) => Len(sock[c]) = 0 /\ cli[c].sent = Pieces
    BY <1>4, <1>7, <1>9 DEF AtEof, Sends
  <2>9. k = a - b
    OBVIOUS
  <2>10. n \in Nat /\ 1 <= n /\ n <= b
    BY <1>2
  <2> HIDE DEF a, b, k, g
  <2>11. n = b /\ n % 2 = 0
    <3>1. CASE LineIn(proc[p].rio) > 0
      <4>1. n % 2 = 0
        <5>1. n = LineIn(proc[p].rio) /\ k % 2 = 0 /\ (k + n) % 2 = 0
          BY <2>3, <2>4, <2>6, <2>7, <3>1
        <5> QED BY <2>10, <2>3, <5>1, Even
      <4>2. b <= 2
        <5>1. ASSUME NEW x \in Nat, NEW y \in Nat, NEW z \in Nat, NEW i \in Nat,
                     x <= i + 2, i = (x - y) - z
              PROVE  z <= 2
          BY ONLY x \in Nat, y \in Nat, z \in Nat, i \in Nat, <5>1
        <5>2. g = (cli[c].sent - Len(sock[c])) - b
          BY <2>9, <2>1, <2>3
        <5> QED BY <2>1, <2>4, <5>1, <5>2, Zenon
      <4> QED BY <2>10, <2>1, <4>1, <4>2
    <3>2. CASE ~(LineIn(proc[p].rio) > 0)
      <4>1. AtEof(c) /\ n = b
        BY <2>10, <2>7, <3>2
      <4>2. b = Pieces - k
        <5>1. a = Pieces
          BY <2>1, <2>8, <4>1
        <5>2. ASSUME NEW x \in Nat, NEW y \in Nat, NEW i \in Nat, i = x - y PROVE y = x - i
          BY ONLY x \in Nat, y \in Nat, i \in Nat, <5>2
        <5>3. k = Pieces - b
          BY <2>9, <5>1, Zenon
        <5>4. k \in Nat /\ b \in Nat /\ Pieces \in Nat
          BY <2>1, <2>3
        <5> QED BY <5>2, <5>3, <5>4, Zenon
      <4>3. k % 2 = 0
        BY <2>3, <2>4
      <4>4. k <= Pieces
        <5>1. ASSUME NEW x \in Nat, NEW y \in Nat, NEW z \in Nat, x = y - z PROVE z <= y
          BY ONLY x \in Nat, y \in Nat, z \in Nat, <5>1
        <5>2. k \in Nat /\ b \in Nat /\ Pieces \in Nat
          BY <2>1, <2>3
        <5> QED BY <4>2, <5>1, <5>2, Zenon
      <4> QED BY <2>1, <2>3, <4>1, <4>2, <4>3, <4>4, Even
    <3> QED BY <3>1, <3>2
  <2>12. r.rio = <<>> /\ Len(r.line) = n
    <3>1. ASSUME NEW s \in Seq(Piece), NEW i \in Nat, i = Len(s)
          PROVE  SubSeq(s, i + 1, Len(s)) = <<>> /\ Len(SubSeq(s, 1, i)) = i
      BY <3>1
    <3> QED BY <1>2, <2>10, <2>1, <2>5, <2>11, <3>1
  <2>13. (g + n) % 2 = 0
    BY <2>10, <2>1, <2>4, <2>11, Even
  <2> QED BY <1>1, <1>2, <1>5, <1>7, <1>9, <2>12, <2>13 DEF Turn, g
<1> QED BY <1>8, <1>9

\* It echoes the line, and the client has whole lines.
LEMMA TurnsWrite ==
  ASSUME Inv, Tokens, Turns, kind = "select",
         NEW p \in Procs, NEW c \in Clients, Peer(p, c), Write(p, c)
  PROVE  Turns'
<1>1. /\ proc[p].pc = "write" /\ \A d \in Clients : d # c => cli'[d] = cli[d]
      /\ UNCHANGED <<kind, eager, sock, files>> /\ proc'[p].pc = "check"
  BY WriteDoes DEF fixed
<1>2. PICK m \in Members :
        /\ cli'[c] = m /\ m.st = cli[c].st /\ m.sent = cli[c].sent
        /\ m.got = IF cli[c].st = "left" THEN cli[c].got ELSE cli[c].got \o proc[p].line
  BY WriteDoes
<1>3. proc[p].pc \in Busy
  BY <1>1 DEF Busy
<1>4. p = Main /\ Conn(p) = c
  BY <1>3, Workers DEF Peer
<1> SUFFICES ASSUME NEW d \in Clients \ eager, cli'[d].st # "left" PROVE Turn(d)'
  BY <1>1 DEF Turns
<1>5. CASE d # c
  <2>1. Turn(d) /\ cli'[d] = cli[d]
    BY <1>1, <1>5 DEF Turns
  <2> QED BY <1>1, <1>4, <2>1 DEF Turn
<1>6. CASE d = c
  <2>1. Turn(c) /\ cli[c].st # "left"
    BY <1>1, <1>2, <1>6 DEF Turns
  <2>2. (Len(cli[c].got) + Len(proc[p].line)) % 2 = 0
    BY <1>1, <1>3, <1>4, <2>1 DEF Turn, Serves
  <2>3. cli[c].got \in Seq(Part) /\ proc[p].line \in Seq(Part) /\ cli[c].sent \in Nat
    BY Record DEF Inv, TypeOK, DataOK, Members
  <2>4. m.got = cli[c].got \o proc[p].line
    BY <1>2, <2>1
  <2>5. Len(m.got) = Len(cli[c].got) + Len(proc[p].line) /\ Len(cli[c].got) \in Nat /\ Len(proc[p].line) \in Nat
    BY <2>3, <2>4
  <2>6. cli[c].sent <= Len(cli[c].got) + 2
    BY <2>1 DEF Turn
  <2>7. m.sent <= Len(m.got) + 2
    <3>1. PICK x \in Nat, y \in Nat, z \in Nat :
            x = cli[c].sent /\ y = Len(cli[c].got) /\ z = Len(proc[p].line)
      BY <2>3, <2>5
    <3>2. x <= y + 2 /\ m.sent = x /\ Len(m.got) = y + z
      BY <1>2, <2>5, <2>6, <3>1
    <3>3. x <= (y + z) + 2
      BY <3>2
    <3> QED BY <3>2, <3>3
  <2> QED BY <1>1, <1>2, <1>4, <1>6, <2>2, <2>5, <2>7 DEF Turn
<1> QED BY <1>5, <1>6

\* The client sends a line when it has got what it sent.
LEMMA TurnsSend ==
  ASSUME Inv, Turns, kind = "select", NEW c \in Clients, Send(c)
  PROVE  Turns'
<1>1. /\ \A d \in Clients : d # c => cli'[d] = cli[d]
      /\ UNCHANGED <<kind, eager, files, proc>>
      /\ c \in eager \/ cli[c].sent % 2 = 1 \/ Len(cli[c].got) = cli[c].sent
  BY SendDoes DEF fixed
<1>2. PICK m \in Members : /\ cli'[c] = m /\ m.st = cli[c].st /\ m.got = cli[c].got
                           /\ m.sent = cli[c].sent + 1
  BY SendDoes
<1> SUFFICES ASSUME NEW d \in Clients \ eager, cli'[d].st # "left" PROVE Turn(d)'
  BY <1>1 DEF Turns
<1>3. Conn(Main)' = Conn(Main)
  BY <1>1 DEF Conn, Process
<1>4. CASE d # c
  <2>1. Turn(d) /\ cli'[d] = cli[d]
    BY <1>1, <1>4 DEF Turns
  <2> QED BY <1>1, <1>3, <2>1 DEF Turn, Serves
<1>5. CASE d = c
  <2>1. Turn(c)
    BY <1>1, <1>2, <1>5 DEF Turns
  <2>2. Len(cli[c].got) \in Nat /\ cli[c].sent \in Nat
    BY DEF Inv, TypeOK, DataOK, Members
  <2>3. cli[c].sent + 1 <= Len(cli[c].got) + 2
    <3>1. PICK x \in Nat, y \in Nat : x = cli[c].sent /\ y = Len(cli[c].got)
      BY <2>2
    <3>2. y % 2 = 0 /\ x <= y + 2 /\ (x % 2 = 1 \/ y = x)
      BY <1>1, <1>5, <2>1, <3>1 DEF Turn
    <3>3. x + 1 <= y + 2
      BY <3>2, Even
    <3> QED BY <3>1, <3>3
  <2> QED BY <1>1, <1>2, <1>3, <1>5, <2>1, <2>3 DEF Turn, Serves
<1> QED BY <1>4, <1>5

\* The server and the clients are as they were in the beginning.
LEMMA FixedKept ==
  ASSUME [Next]_vars PROVE UNCHANGED fixed
<1>1. ASSUME NEW p, NEW c, doit(p, c) PROVE UNCHANGED fixed
  BY <1>1 DEF doit, RequestLine, NoRequest, read_requesthdrs, WriteReply, Killed, ForkCGI, CGI, Wait,
              CloseConn
<1>2. ASSUME NEW p \in Procs, Run(p) PROVE UNCHANGED fixed
  BY <1>1, <1>2 DEF Run, Serve, Read, Line, Write, SigPipe, Close, Start, sbuf_remove, init_echo_cnt,
                    Lock, Unlock
<1>3. ASSUME MainStep PROVE UNCHANGED fixed
  BY <1>3 DEF MainStep, Accept, Fork, ParentClose, Pthread_create, sbuf_insert, Select, check_clients
<1>4. ASSUME sigchld_handler \/ \E c \in Clients : Connect(c) \/ Client(c) \/ Leave(c)
      PROVE  UNCHANGED fixed
  BY <1>4 DEF sigchld_handler, Connect, Client, Send, Finish, Leave
<1>5. ASSUME UNCHANGED vars PROVE UNCHANGED fixed
  BY <1>5 DEF vars
<1> QED BY <1>2, <1>3, <1>4, <1>5 DEF Next

\* Every step keeps the turns of the clients that wait.
LEMMA TurnsStep ==
  ASSUME Inv, Tokens, Streams, Turns, [Next]_vars PROVE Turns'
<1>1. UNCHANGED <<kind, eager>>
  BY FixedKept DEF fixed
<1> SUFFICES ASSUME kind = "select" PROVE Turns'
  BY <1>1 DEF Turns
<1>2. Main \in Procs /\ Stands(Main, proc[Main].pc) /\ proc \in [Procs -> Contexts]
  BY MainRecord DEF Inv, TypeOK
<1>3. ASSUME UNCHANGED cli, proc'[Main].pc # "write" PROVE Turns'
  BY <1>1, <1>3, TurnsKept
<1>4. ASSUME MainStep PROVE Turns'
  <2>1. Select \/ check_clients
    BY <1>2, <1>4 DEF MainStep, Accept, Fork, ParentClose, Pthread_create, sbuf_insert, At, Stands
  <2>2. CASE Select
    <3>1. UNCHANGED cli /\ proc' = [proc EXCEPT ![Main].pc = "check"]
      BY <2>2 DEF Select, Goto, client
    <3>2. proc'[Main].pc = "check"
      BY <1>2, <3>1 DEF Contexts
    <3> QED BY <1>3, <3>1, <3>2
  <2>3. CASE check_clients
    <3>1. UNCHANGED cli /\ proc'[Main].pc \in {"accept", "read"}
      BY <2>3, CheckDoes
    <3> QED BY <1>3, <3>1
  <2> QED BY <2>1, <2>2, <2>3
<1>5. ASSUME UNCHANGED <<files, proc>>,
             \A d \in Clients : cli'[d].got = cli[d].got /\ cli'[d].sent = cli[d].sent
                                /\ (cli'[d].st # "left" => cli[d].st # "left")
      PROVE  Turns'
  BY <1>1, <1>5, TurnsKept
<1>6. ASSUME NEW p \in Procs, Run(p) PROVE Turns'
  <2>1. Stands(p, proc[p].pc)
    BY Record DEF Inv
  <2>2. Serve(p)
    <3>1. ~(p \in Spawned /\ Start(p))
      BY <2>1 DEF Start, At, Stands
    <3>2. p \in Threads => proc[p].pc = "none"
      BY Worker
    <3>3. p \in Threads => ~sbuf_remove(p) /\ ~init_echo_cnt(p) /\ ~Lock(p) /\ ~Unlock(p)
      BY <3>2 DEF sbuf_remove, init_echo_cnt, Lock, Unlock, At
    <3> QED BY <1>6, <3>1, <3>3 DEF Run
  <2>3. PICK c \in Clients : /\ Peer(p, c)
                             /\ Read(p, c) \/ Line(p, c) \/ Write(p, c) \/ SigPipe(p, c) \/ Close(p, c)
                                \/ doit(p, c)
    BY <2>2 DEF Serve
  <2>4. ~doit(p, c)
    BY <2>1 DEF doit, RequestLine, NoRequest, read_requesthdrs, WriteReply, Killed, ForkCGI, CGI, Wait,
                CloseConn, At, Stands
  <2>5. CASE Read(p, c)
    <3>1. proc[p].pc \in Hearing /\ proc'[p].pc = proc[p].pc /\ UNCHANGED cli
      BY <2>5, ReadDoes
    <3>2. p = Main
      BY <3>1, Workers DEF Busy
    <3> QED BY <1>3, <3>1, <3>2 DEF Hearing
  <2>6. CASE SigPipe(p, c)
    BY <1>5, <2>6 DEF SigPipe, client
  <2>7. CASE Close(p, c)
    <3>1. proc[p].pc = "read" /\ proc' = [proc EXCEPT ![p] = Proc("check", None)] /\ UNCHANGED cli
      BY <2>7 DEF Close, At, client
    <3>2. p = Main
      BY <3>1, Workers DEF Busy, Hearing
    <3>3. proc'[Main].pc = "check"
      BY <1>2, <3>1, <3>2 DEF Proc
    <3> QED BY <1>3, <3>1, <3>3
  <2> QED BY <2>3, <2>4, <2>5, <2>6, <2>7, TurnsLine, TurnsWrite
<1>7. ASSUME NEW c \in Clients, Connect(c) \/ Finish(c) \/ Leave(c) PROVE Turns'
  <2>1. PICK m \in Members :
          /\ cli'[c] = m /\ m.sent = cli[c].sent /\ m.got = cli[c].got
          /\ \/ cli[c].st = "new" /\ m.st = "open"
             \/ cli[c].st = "open" /\ m.st = "fin" /\ cli[c].sent = Pieces
             \/ cli[c].st = "open" /\ m.st = "left"
    BY <1>7, ClientDoes
  <2>2. UNCHANGED <<files, proc>> /\ \A d \in Clients : d # c => cli'[d] = cli[d]
    BY <1>7, ClientDoes
  <2>3. ASSUME NEW d \in Clients
        PROVE  cli'[d].got = cli[d].got /\ cli'[d].sent = cli[d].sent
               /\ (cli'[d].st # "left" => cli[d].st # "left")
    BY <2>1, <2>2
  <2> QED BY <1>5, <2>2, <2>3
<1>8. ASSUME sigchld_handler \/ UNCHANGED vars PROVE Turns'
  BY <1>5, <1>8 DEF sigchld_handler, vars, client
<1> QED BY <1>4, <1>6, <1>7, <1>8, TurnsSend DEF Next, Client

-----------------------------------------------------------------------------
(* The answers of tiny *)

\* Short sequences.
LEMMA Joined ==
  ASSUME NEW x, NEW y
  PROVE  /\ <<x>> \o <<>> = <<x>> /\ <<x>> \o <<y>> = <<x, y>> /\ Append(<<x>>, y) = <<x, y>>
         /\ Last(<<x>>) = x /\ Last(<<x, y>>) = y
         /\ \A e : /\ Contains(<<x>>, e) <=> e = x
                  /\ Contains(<<x, y>>, e) <=> e \in {x, y}
<1>1. Last(<<x>>) = x /\ Last(<<x, y>>) = y
  BY DEF Last
<1>2. ASSUME NEW e PROVE Contains(<<x>>, e) <=> e = x
  BY DEF Contains
<1>3. ASSUME NEW e PROVE Contains(<<x, y>>, e) <=> e \in {x, y}
  BY DEF Contains
<1>4. <<x>> \o <<>> = <<x>>
  <2>1. <<x>> \in Seq({x})
    OBVIOUS
  <2> QED BY <2>1
<1>5. ASSUME NEW s, s = <<x>> \o <<y>> \/ s = Append(<<x>>, y) PROVE s = <<x, y>>
  <2>1. <<x>> \in Seq({x, y}) /\ <<y>> \in Seq({x, y}) /\ <<x, y>> \in Seq({x, y}) /\ y \in {x, y}
    OBVIOUS
  <2>2. s \in Seq({x, y}) /\ Len(s) = 2 /\ s[1] = x /\ s[2] = y
    <3>1. CASE s = <<x>> \o <<y>>
      BY <2>1, <3>1
    <3>2. CASE s = Append(<<x>>, y)
      BY <2>1, <3>2
    <3> QED BY <1>5, <3>1, <3>2
  <2>3. Len(<<x, y>>) = 2 /\ \A i \in 1..2 : s[i] = <<x, y>>[i]
    BY <2>2
  <2> QED BY <2>1, <2>2, <2>3, SeqEqual
<1> QED BY <1>1, <1>2, <1>3, <1>4, <1>5

\* The response to each request clients ask.
LEMMA ReplyFile ==
  ASSUME NEW path, NEW query, NEW whole, whole = path \o query, ~Contains(whole, "cgi-bin"),
         NEW filename,
         \/ Last(whole) = "/" /\ filename = Append(whole, "home.html")
         \/ Last(whole) # "/" /\ filename = whole
  PROVE  /\ stat(filename) = Missing =>
              Reply(Request("GET", Uri(path, query))) = clienterror("404")
         /\ stat(filename) # Missing /\ stat(filename).reg = TRUE /\ "read" \in stat(filename).mode =>
              Reply(Request("GET", Uri(path, query))) = serve_static(stat(filename).size)
<1>1. parse_uri(Uri(path, query)).is_static = TRUE /\ parse_uri(Uri(path, query)).filename = filename
  BY DEF Uri, parse_uri
<1> QED BY <1>1 DEF Reply, Request

LEMMA ReplyProgram ==
  ASSUME NEW path, NEW query, Contains(path \o query, "cgi-bin")
  PROVE  LET file == stat(path)
         IN Reply(Request("GET", Uri(path, query))) =
              IF file = Missing THEN clienterror("404")
              ELSE IF ~file.reg \/ "exec" \notin file.mode THEN clienterror("403")
              ELSE serve_dynamic
BY DEF Reply, Request, Uri, parse_uri

\* The files of the server.
LEMMA Stats ==
  /\ stat(<<"/", "home.html">>) = [reg |-> TRUE, mode |-> {"read"}, size |-> 1]
  /\ stat(<<"page", "?">>) = Missing
  /\ stat(<<"empty">>) = [reg |-> TRUE, mode |-> {"read"}, size |-> 0]
  /\ stat(<<"cgi-bin", "adder">>) = [reg |-> TRUE, mode |-> {"read", "exec"}, size |-> 1]
  /\ stat(<<"cgi-bin", "/">>) = [reg |-> FALSE, mode |-> {"read", "exec"}, size |-> 1]
<1>1. /\ <<"/", "home.html">> # <<"page">> /\ <<"/", "home.html">> # <<"empty">>
      /\ <<"/", "home.html">> # <<"cgi-bin", "adder">> /\ <<"/", "home.html">> # <<"cgi-bin", "/">>
      /\ <<"cgi-bin", "adder">> # <<"cgi-bin", "/">> /\ <<"page">> # <<"empty">>
      /\ <<"page">> # <<"cgi-bin", "adder">> /\ <<"page">> # <<"cgi-bin", "/">>
      /\ <<"empty">> # <<"cgi-bin", "adder">> /\ <<"empty">> # <<"cgi-bin", "/">>
      /\ <<"page", "?">> # <<"/", "home.html">> /\ <<"page", "?">> # <<"page">>
      /\ <<"page", "?">> # <<"empty">> /\ <<"page", "?">> # <<"cgi-bin", "adder">>
      /\ <<"page", "?">> # <<"cgi-bin", "/">>
  OBVIOUS
<1> QED BY ONLY <1>1, Zenon DEF stat

\* The response to each.
LEMMA Responses ==
  /\ Reply(Request("GET", Uri(<<"/">>, <<>>))) = <<"200", "content">>
  /\ Reply(Request("GET", Uri(<<"page">>, <<"?">>))) = clienterror("404")
  /\ Reply(Request("GET", Uri(<<"empty">>, <<>>))) = <<"200">>
  /\ Reply(Request("GET", Uri(<<"cgi-bin", "adder">>, <<"?">>))) = serve_dynamic
  /\ Reply(Request("GET", Uri(<<"cgi-bin", "/">>, <<>>))) = clienterror("403")
  /\ Reply(Request("POST", Uri(<<"page">>, <<>>))) = clienterror("501")
<1>1. PICK reg, read, exec :
        /\ reg = [reg |-> TRUE, mode |-> {"read"}, size |-> 1]
        /\ read = [reg |-> TRUE, mode |-> {"read"}, size |-> 0]
        /\ exec = [reg |-> TRUE, mode |-> {"read", "exec"}, size |-> 1]
  OBVIOUS
<1>2. /\ reg # Missing /\ reg.reg = TRUE /\ "read" \in reg.mode /\ reg.size = 1
      /\ read # Missing /\ read.reg = TRUE /\ "read" \in read.mode /\ read.size = 0
      /\ exec # Missing /\ exec.reg = TRUE /\ "exec" \in exec.mode
  BY <1>1 DEF Missing
<1>3. Reply(Request("GET", Uri(<<"/">>, <<>>))) = <<"200", "content">>
  <2>1. PICK path, query, whole : path = <<"/">> /\ query = <<>> /\ whole = path \o query
    OBVIOUS
  <2>2. PICK filename : filename = Append(whole, "home.html")
    OBVIOUS
  <2>3. /\ ~Contains(whole, "cgi-bin") /\ Last(whole) = "/" /\ filename = <<"/", "home.html">>
    <3>1. whole = <<"/">>
      BY <2>1, Joined
    <3> QED BY <2>2, <3>1, Joined
  <2>4. PICK f : f = stat(filename) /\ f # Missing /\ f.reg = TRUE /\ "read" \in f.mode /\ f.size = 1
    BY <1>1, <1>2, <2>3, Stats
  <2>5. Reply(Request("GET", Uri(path, query))) = serve_static(1)
    BY <2>1, <2>2, <2>3, <2>4, ReplyFile, Zenon
  <2> QED BY <2>1, <2>5 DEF serve_static
<1>4. Reply(Request("GET", Uri(<<"page">>, <<"?">>))) = clienterror("404")
  <2>1. PICK path, query, whole : path = <<"page">> /\ query = <<"?">> /\ whole = path \o query
    OBVIOUS
  <2>2. whole = <<"page", "?">> /\ ~Contains(whole, "cgi-bin") /\ Last(whole) # "/"
    <3>1. whole = <<"page", "?">>
      BY <2>1, Joined
    <3>2. ~Contains(<<"page", "?">>, "cgi-bin") /\ Last(<<"page", "?">>) # "/"
      BY DEF Contains, Last
    <3> QED BY <3>1, <3>2, Zenon
  <2>3. stat(whole) = Missing
    BY <2>2, Stats
  <2>4. Reply(Request("GET", Uri(path, query))) = clienterror("404")
    BY <2>1, <2>2, <2>3, ReplyFile
  <2> QED BY <2>1, <2>4
<1>5. Reply(Request("GET", Uri(<<"empty">>, <<>>))) = <<"200">>
  <2>1. /\ <<"empty">> \o <<>> = <<"empty">> /\ ~Contains(<<"empty">>, "cgi-bin")
        /\ Last(<<"empty">>) # "/"
    <3>1. /\ <<"empty">> \o <<>> = <<"empty">> /\ Last(<<"empty">>) = "empty"
          /\ Contains(<<"empty">>, "cgi-bin") <=> "cgi-bin" = "empty"
      BY Joined, Zenon
    <3>2. "cgi-bin" # "empty" /\ "empty" # "/"
      OBVIOUS
    <3> QED BY <3>1, <3>2, Zenon
  <2>2. PICK f : f = stat(<<"empty">>) /\ f # Missing /\ f.reg = TRUE /\ "read" \in f.mode /\ f.size = 0
    BY <1>1, <1>2, Stats
  <2>3. Reply(Request("GET", Uri(<<"empty">>, <<>>))) = serve_static(0)
    BY <2>1, <2>2, ReplyFile
  <2> QED BY <2>3 DEF serve_static
<1>6. Reply(Request("GET", Uri(<<"cgi-bin", "adder">>, <<"?">>))) = serve_dynamic
  <2>1. Contains(<<"cgi-bin", "adder">> \o <<"?">>, "cgi-bin")
    BY DEF Contains
  <2>2. PICK f : f = stat(<<"cgi-bin", "adder">>) /\ f # Missing /\ f.reg = TRUE /\ "exec" \in f.mode
    BY <1>1, <1>2, Stats
  <2> QED BY <2>1, <2>2, ReplyProgram
<1>7. Reply(Request("GET", Uri(<<"cgi-bin", "/">>, <<>>))) = clienterror("403")
  <2>1. Contains(<<"cgi-bin", "/">> \o <<>>, "cgi-bin")
    BY DEF Contains
  <2>2. PICK f : f = stat(<<"cgi-bin", "/">>) /\ f # Missing /\ f.reg = FALSE
    <3>1. [reg |-> FALSE, mode |-> {"read", "exec"}, size |-> 1] # Missing
      BY DEF Missing
    <3> QED BY <3>1, Stats
  <2> QED BY <2>1, <2>2, ReplyProgram
<1>8. Reply(Request("POST", Uri(<<"page">>, <<>>))) = clienterror("501")
  BY DEF Reply, Request
<1> QED BY <1>3, <1>4, <1>5, <1>6, <1>7, <1>8

\* What is due for each.
LEMMA Dues ==
  /\ Due(Request("GET", Uri(<<"/">>, <<>>))) = <<"200", "content">>
  /\ Due(Request("GET", Uri(<<"page">>, <<"?">>))) = clienterror("404")
  /\ Due(Request("GET", Uri(<<"empty">>, <<>>))) = <<"200">>
  /\ Due(Request("GET", Uri(<<"cgi-bin", "adder">>, <<"?">>))) = <<"200", "Server", "output">>
  /\ Due(Request("GET", Uri(<<"cgi-bin", "/">>, <<>>))) = clienterror("403")
  /\ Due(Request("POST", Uri(<<"page">>, <<>>))) = clienterror("501")
<1>1. ASSUME NEW m, NEW path, NEW query
      PROVE  /\ Request(m, Uri(path, query)).method = m /\ Request(m, Uri(path, query)).uri.path = path
             /\ Request(m, Uri(path, query)).uri.query = query
  BY DEF Request, Uri
<1>2. /\ <<"/">> # <<"page">> /\ <<"/">> # <<"empty">> /\ <<"/">> # <<"cgi-bin", "adder">>
      /\ <<"/">> # <<"cgi-bin", "/">> /\ <<"page">> # <<"empty">> /\ <<"page">> # <<"cgi-bin", "adder">>
      /\ <<"page">> # <<"cgi-bin", "/">> /\ <<"empty">> # <<"cgi-bin", "adder">>
      /\ <<"empty">> # <<"cgi-bin", "/">> /\ <<"cgi-bin", "adder">> # <<"cgi-bin", "/">>
      /\ <<"?">> # <<>>
  OBVIOUS
<1>3. "GET" # "POST"
  OBVIOUS
<1>4. ASSUME NEW r, r.method = "POST", r.uri.path = <<"page">>, r.uri.query = <<>>
      PROVE  Due(r) = clienterror("501")
  BY <1>2, <1>4 DEF Due, clienterror
<1>5. ASSUME NEW r, r.method = "GET", r.uri.path = <<"/">>
      PROVE  Due(r) = <<"200", "content">>
  BY <1>2, <1>5 DEF Due
<1>6. ASSUME NEW r, r.method = "GET", r.uri.path = <<"empty">>
      PROVE  Due(r) = <<"200">>
  BY <1>2, <1>6, <1>3 DEF Due
<1>7. ASSUME NEW r, r.method = "GET", r.uri.path = <<"page">>, r.uri.query = <<"?">>
      PROVE  Due(r) = clienterror("404")
  BY <1>2, <1>3, <1>7 DEF Due, clienterror
<1>8. ASSUME NEW r, r.method = "GET", r.uri.path = <<"cgi-bin", "adder">>
      PROVE  Due(r) = <<"200", "Server", "output">>
  BY <1>2, <1>3, <1>8 DEF Due
<1>9. ASSUME NEW r, r.method = "GET", r.uri.path = <<"cgi-bin", "/">>
      PROVE  Due(r) = clienterror("403")
  BY <1>2, <1>3, <1>9 DEF Due, clienterror
<1>10. Due(Request("GET", Uri(<<"/">>, <<>>))) = <<"200", "content">>
  BY <1>1, <1>5
<1>11. Due(Request("GET", Uri(<<"page">>, <<"?">>))) = clienterror("404")
  BY <1>1, <1>7
<1>12. Due(Request("GET", Uri(<<"empty">>, <<>>))) = <<"200">>
  BY <1>1, <1>6
<1>13. Due(Request("GET", Uri(<<"cgi-bin", "adder">>, <<"?">>))) = <<"200", "Server", "output">>
  BY <1>1, <1>8
<1>14. Due(Request("GET", Uri(<<"cgi-bin", "/">>, <<>>))) = clienterror("403")
  BY <1>1, <1>9
<1>15. Due(Request("POST", Uri(<<"page">>, <<>>))) = clienterror("501")
  BY <1>1, <1>4
<1> QED BY <1>10, <1>11, <1>12, <1>13, <1>14, <1>15

-----------------------------------------------------------------------------
(* What is due *)

\* Prefixes.
LEMMA PrefixOf ==
  ASSUME NEW S, NEW s \in Seq(S), NEW t \in Seq(S), NEW u, u = s \o t
  PROVE  IsPrefix(s, u)
<1>1. u \in Seq(S) /\ Len(u) = Len(s) + Len(t) /\ Len(s) \in Nat /\ Len(t) \in Nat
  OBVIOUS
<1>2. \A i \in 1..Len(s) : u[i] = s[i]
  OBVIOUS
<1>3. Len(s) <= Len(u)
  BY <1>1
<1>4. SubSeq(s, 1, Len(s)) = SubSeq(u, 1, Len(s))
  <2>1. SubSeq(u, 1, Len(s)) \in Seq(S) /\ Len(SubSeq(u, 1, Len(s))) = Len(s)
    BY <1>1
  <2>2. SubSeq(s, 1, Len(s)) = s
    OBVIOUS
  <2>3. \A i \in 1..Len(s) : SubSeq(u, 1, Len(s))[i] = s[i]
    BY <1>1, <1>2
  <2>4. SubSeq(u, 1, Len(s)) = s
    BY <2>1, <2>3, SeqEqual
  <2> QED BY <2>2, <2>4
<1> QED BY <1>3, <1>4 DEF IsPrefix

LEMMA LastJoins ==
  ASSUME NEW S, NEW s \in Seq(S), NEW t \in Seq(S), Len(t) = 1, NEW d, d = s \o t
  PROVE  Len(d) = Len(s) + 1 /\ d[Len(s) + 1] = t[1] /\ Len(s) + 1 \in 1..Len(d)
<1>1. /\ Len(s) \in Nat /\ Len(s \o t) = Len(s) + Len(t)
      /\ \A k \in 1..Len(s)+Len(t) : (s \o t)[k] = IF k <= Len(s) THEN s[k] ELSE t[k - Len(s)]
  BY LenProperties, ConcatProperties
<1>2. PICK n \in Nat, i \in Nat : n = Len(s) /\ i = n + 1
  BY <1>1
<1>3. i \in 1..(n + 1) /\ ~(i <= n) /\ i - n = 1
  BY <1>2
<1>4. \A k \in 1..(n + 1) : d[k] = IF k <= n THEN s[k] ELSE t[k - n]
  BY <1>1, <1>2
<1>5. d[i] = t[1]
  BY <1>3, <1>4
<1> QED BY <1>1, <1>2, <1>3, <1>5

LEMMA PrefixMore ==
  ASSUME NEW S, NEW s \in Seq(S), NEW t \in Seq(S), NEW u \in Seq(S), NEW d, d = s \o t
  PROVE  IsPrefix(s, d \o u)
<1>1. t \o u \in Seq(S) /\ (s \o t) \o u = s \o (t \o u)
  BY ConcatAssociative
<1>2. PICK v \in Seq(S) : v = t \o u
  BY <1>1
<1>3. d \o u = s \o v
  BY <1>1, <1>2
<1> QED BY <1>3, PrefixOf

\* tiny responds with what is due; the output of a program is still to come.
LEMMA Asked ==
  ASSUME NEW a \in Asks
  PROVE  /\ a.method # "GET" => Reply(a) = clienterror("501")
         /\ \/ /\ Reply(a) = Due(a)
               /\ \/ Reply(a) = <<"200", "content">> \/ Reply(a) = <<"200">>
                  \/ \E e \in {"403", "404", "501"} : Reply(a) = clienterror(e)
            \/ Reply(a) = serve_dynamic /\ Due(a) = <<"200", "Server", "output">>
<1>1. \/ a = Request("GET", Uri(<<"/">>, <<>>)) \/ a = Request("GET", Uri(<<"page">>, <<"?">>))
      \/ a = Request("GET", Uri(<<"empty">>, <<>>)) \/ a = Request("GET", Uri(<<"cgi-bin", "adder">>, <<"?">>))
      \/ a = Request("GET", Uri(<<"cgi-bin", "/">>, <<>>)) \/ a = Request("POST", Uri(<<"page">>, <<>>))
  BY DEF Asks
<1>2. \A u : Request("GET", u).method = "GET"
  BY DEF Request
<1>3. CASE a = Request("GET", Uri(<<"/">>, <<>>))
  BY <1>2, <1>3, Responses, Dues, Zenon
<1>4. CASE a = Request("GET", Uri(<<"page">>, <<"?">>))
  BY <1>2, <1>4, Responses, Dues, Zenon
<1>5. CASE a = Request("GET", Uri(<<"empty">>, <<>>))
  BY <1>2, <1>5, Responses, Dues, Zenon
<1>6. CASE a = Request("GET", Uri(<<"cgi-bin", "adder">>, <<"?">>))
  BY <1>2, <1>6, Responses, Dues, Zenon
<1>7. CASE a = Request("GET", Uri(<<"cgi-bin", "/">>, <<>>))
  BY <1>2, <1>7, Responses, Dues, Zenon
<1>8. CASE a = Request("POST", Uri(<<"page">>, <<>>))
  BY <1>2, <1>8, Responses, Dues, Zenon
<1> QED BY <1>1, <1>3, <1>4, <1>5, <1>6, <1>7, <1>8

\* The response of a program.
LEMMA Output ==
  ASSUME NEW s, s = serve_dynamic \o <<"output">> \/ s = Append(serve_dynamic, "output")
  PROVE  s = <<"200", "Server", "output">>
<1>1. ASSUME NEW S, NEW x \in S, NEW y \in S, NEW z \in S, NEW r, r = <<x, y>> \o <<z>> \/ r = Append(<<x, y>>, z)
      PROVE  r = <<x, y, z>>
  <2>1. /\ <<x, y>> \in Seq(S) /\ Len(<<x, y>>) = 2 /\ <<x, y>>[1] = x /\ <<x, y>>[2] = y
        /\ <<z>> \in Seq(S) /\ Len(<<z>>) = 1 /\ <<z>>[1] = z
    OBVIOUS
  <2>2. PICK d \in Seq(S) : d = <<x, y>> /\ Len(d) = 2 /\ d[1] = x /\ d[2] = y
    BY <2>1, Zenon
  <2>3. PICK o \in Seq(S) : o = <<z>> /\ Len(o) = 1 /\ o[1] = z
    BY <2>1, Zenon
  <2>4. r = d \o o \/ r = Append(d, z)
    BY <1>1, <2>2, <2>3, Zenon
  <2>5. r \in Seq(S) /\ Len(r) = 3 /\ r[1] = x /\ r[2] = y /\ r[3] = z
    <3>1. CASE r = d \o o
      BY <2>2, <2>3, <3>1
    <3>2. CASE r = Append(d, z)
      BY <2>2, <2>3, <3>2
    <3> QED BY <2>4, <3>1, <3>2
  <2>6. <<x, y, z>> \in Seq(S) /\ Len(<<x, y, z>>) = 3 /\ \A i \in 1..3 : r[i] = <<x, y, z>>[i]
    BY <2>5
  <2> QED BY <2>5, <2>6, SeqEqual
<1>2. PICK S : "200" \in S /\ "Server" \in S /\ "output" \in S
  BY "200" \in {"200", "Server", "output"}
<1> QED BY <1>1, <1>2, ZenonT(30) DEF serve_dynamic

\* What a client gets of a response is the beginning of what is due, and where a
\* program is to go on with it, the program ends it.
LEMMA Beginning ==
  ASSUME NEW a \in Asks, NEW s \in Seq(Part), NEW t \in Seq(Part), s \o t = Reply(a)
  PROVE  /\ IsPrefix(s, Due(a))
         /\ Len(t) = 1 /\ t[1] = "Server" => Reply(a) = serve_dynamic
<1>1. PICK d : d = Reply(a)
  OBVIOUS
<1>2. CASE Reply(a) = Due(a) /\ (\/ Reply(a) = <<"200", "content">> \/ Reply(a) = <<"200">>
                                 \/ \E e \in {"403", "404", "501"} : Reply(a) = clienterror(e))
  <2>1. IsPrefix(s, Due(a))
    BY <1>2, PrefixOf
  <2>2. \A i \in 1..Len(d) : d[i] # "Server"
    <3>1. CASE d = <<"200", "content">>
      BY <3>1
    <3>2. CASE d = <<"200">>
      BY <3>2
    <3>3. ASSUME NEW e \in {"403", "404", "501"}, d = clienterror(e) PROVE \A i \in 1..Len(d) : d[i] # "Server"
      BY <3>3 DEF clienterror
    <3> QED BY <1>1, <1>2, <3>1, <3>2, <3>3
  <2>3. ~(Len(t) = 1 /\ t[1] = "Server")
    <3>1. ASSUME Len(t) = 1 PROVE Len(d) = Len(s) + 1 /\ d[Len(s) + 1] = t[1] /\ Len(s) + 1 \in 1..Len(d)
      <4>1. d = s \o t
        BY <1>1
      <4> QED BY <3>1, <4>1, LastJoins
    <3> QED BY <2>2, <3>1
  <2> QED BY <2>1, <2>3
<1>3. CASE Reply(a) = serve_dynamic /\ Due(a) = <<"200", "Server", "output">>
  <2>1. PICK o \in Seq(Part) : o = <<"output">>
    <3>1. PICK x \in Part : x = "output"
      BY DEF Part, Words
    <3>2. <<x>> \in Seq(Part)
      OBVIOUS
    <3> QED BY <3>1, <3>2, Zenon
  <2>2. d = s \o t /\ IsPrefix(s, d \o o)
    <3>1. d = s \o t
      BY <1>1
    <3> QED BY <3>1, PrefixMore
  <2>3. d \o o = Due(a)
    <3>1. serve_dynamic \o <<"output">> = <<"200", "Server", "output">>
      BY Output
    <3> QED BY <1>1, <1>3, <2>1, <3>1, Zenon
  <2> QED BY <1>3, <2>2, <2>3
<1> QED BY <1>2, <1>3, Asked

\* A response that is sent in full.
LEMMA Ended ==
  ASSUME NEW a \in Asks, Reply(a) = serve_dynamic
  PROVE  /\ Due(a) = <<"200", "Server", "output">> /\ serve_dynamic # <<>>
         /\ Append(serve_dynamic, "output") = <<"200", "Server", "output">>
         /\ IsPrefix(Append(serve_dynamic, "output"), Due(a))
<1>1. /\ serve_dynamic = <<"200", "Server">> /\ serve_dynamic # <<>>
      /\ serve_dynamic # <<"200", "content">> /\ serve_dynamic # <<"200">>
      /\ \A e \in {"403", "404", "501"} : serve_dynamic # clienterror(e)
  BY DEF serve_dynamic, clienterror
<1>2. Due(a) = <<"200", "Server", "output">>
  BY <1>1, Asked, Zenon
<1>3. Append(serve_dynamic, "output") = <<"200", "Server", "output">>
  BY Output
<1>4. IsPrefix(<<"200", "Server", "output">>, <<"200", "Server", "output">>)
  BY DEF IsPrefix
<1> QED BY <1>1, <1>2, <1>3, <1>4, Zenon

AtWork == {"request", "headers", "reply", "fork"}

-----------------------------------------------------------------------------
(* The answers, step by step *)

\* A step that leaves a client, and what main has of its request or response.
LEMMA AnswerKept ==
  ASSUME NEW d \in Clients, Answer(d), UNCHANGED asks, cli'[d].got = cli[d].got,
         cli'[d].sent <= 1 => cli[d].sent <= 1, cli[d].sent > 1 => cli'[d].sent > 1,
         cli'[d].st # "left" => cli[d].st # "left",
         Waits(d)' => Waits(d) /\ Reached(cli[d], sock[d])' = Reached(cli[d], sock[d]),
         Serving(d, AtWork)' =>
           /\ proc'[Main].pc = proc[Main].pc /\ files[Main][proc[Main].fd] = d
           /\ proc'[Main].line = proc[Main].line /\ Used(d)' = Used(d),
         proc'[d].pc = "cgi" /\ d \notin dead' => proc[d].pc = "cgi" /\ d \notin dead
  PROVE  Answer(d)'
<1>1. ASSUME NEW pcs \in SUBSET AtWork, Serving(d, pcs)'
      PROVE  Serving(d, pcs) /\ proc'[Main].line = proc[Main].line /\ Used(d)' = Used(d)
  BY <1>1 DEF Serving
<1>2. /\ {"request", "headers"} \in SUBSET AtWork /\ {"request"} \in SUBSET AtWork
      /\ {"headers"} \in SUBSET AtWork /\ {"reply"} \in SUBSET AtWork /\ {"fork"} \in SUBSET AtWork
  BY DEF AtWork
<1>3. /\ Serving(d, {"request", "headers"})' => Serving(d, {"request", "headers"})
      /\ Serving(d, {"request"})' => Serving(d, {"request"}) /\ Used(d)' = Used(d)
      /\ Serving(d, {"headers"})' => Serving(d, {"headers"}) /\ Used(d)' = Used(d)
      /\ Serving(d, {"reply"})' => Serving(d, {"reply"}) /\ proc'[Main].line = proc[Main].line
      /\ Serving(d, {"fork"})' => Serving(d, {"fork"})
  BY <1>1, <1>2
<1>4. Complies(d, serve_dynamic) => Complies(d, serve_dynamic)'
  BY DEF Complies
<1>5. /\ (asks[d] \in Asks)'
      /\ (Waits(d) \/ Serving(d, {"request", "headers"}) \/ cli[d].sent <= 1 => cli[d].got = <<>>)'
      /\ (Waits(d) => Reached(cli[d], sock[d]) = 0)'
      /\ IsPrefix(cli[d].got, Due(asks[d]))'
  BY <1>3 DEF Answer
<1>6. /\ (Serving(d, {"request"}) => Used(d) = 0)'
      /\ (Serving(d, {"headers"}) => Used(d) >= 1)'
      /\ (Serving(d, {"reply"}) /\ cli[d].st # "left" =>
            cli[d].sent > 1 /\ cli[d].got \o proc[Main].line = Reply(asks[d]))'
      /\ (Serving(d, {"fork"}) => Complies(d, serve_dynamic))'
      /\ (proc[d].pc = "cgi" /\ d \notin dead => Complies(d, serve_dynamic))'
  BY <1>3, <1>4 DEF Answer
<1> QED BY <1>5, <1>6 DEF Answer

\* Main is at work for nobody, or for the same client as before.
LEMMA AnswersKept ==
  ASSUME kind = "tiny", UNCHANGED <<kind, asks, cli, sock>>, Answers,
         \A d \in Clients : Waits(d)' => Waits(d),
         \/ proc'[Main].pc \notin AtWork
         \/ proc'[Main] = proc[Main] /\ files'[Main] = files[Main],
         \A d \in Clients : proc'[d].pc = "cgi" /\ d \notin dead' => proc[d].pc = "cgi" /\ d \notin dead
  PROVE  Answers'
<1> SUFFICES ASSUME NEW d \in Clients PROVE Answer(d)'
  BY DEF Answers
<1>1. Answer(d) /\ Reached(cli[d], sock[d])' = Reached(cli[d], sock[d])
  BY DEF Answers
<1>2. Serving(d, AtWork)' =>
        /\ proc'[Main].pc = proc[Main].pc /\ files[Main][proc[Main].fd] = d
        /\ proc'[Main].line = proc[Main].line /\ Used(d)' = Used(d)
  BY DEF Serving, Used
<1> QED BY <1>1, <1>2, AnswerKept

\* Main works for client c, and no other is concerned.
LEMMA AnswersOne ==
  ASSUME kind = "tiny", UNCHANGED <<kind, asks>>, Answers, NEW c \in Clients, Answer(c)',
         \A d \in Clients : d # c => cli'[d] = cli[d] /\ sock'[d] = sock[d] /\ (Waits(d)' => Waits(d)),
         files'[Main][proc'[Main].fd] = c \/ proc'[Main].pc \notin AtWork,
         \A d \in Clients : d # c /\ proc'[d].pc = "cgi" /\ d \notin dead' => proc[d].pc = "cgi" /\ d \notin dead
  PROVE  Answers'
<1> SUFFICES ASSUME NEW d \in Clients PROVE Answer(d)'
  BY DEF Answers
<1>1. CASE d = c
  BY <1>1
<1>2. CASE d # c
  <2>1. /\ Answer(d) /\ cli'[d] = cli[d] /\ Reached(cli[d], sock[d])' = Reached(cli[d], sock[d])
        /\ Waits(d)' => Waits(d)
    BY <1>2 DEF Answers
  <2>2. ~Serving(d, AtWork)'
    BY <1>2 DEF Serving
  <2>3. proc'[d].pc = "cgi" /\ d \notin dead' => proc[d].pc = "cgi" /\ d \notin dead
    BY <1>2
  <2> QED BY <2>1, <2>2, <2>3, AnswerKept
<1> QED BY <1>1, <1>2

\* tiny accepts a client, who has got nothing yet.
LEMMA AnswersAccept ==
  ASSUME Inv, Answers, kind = "tiny", Accept
  PROVE  Answers'
<1>1. /\ UNCHANGED <<kind, asks, cli, sock>> /\ proc'[Main].pc = "request" /\ proc'[Main].rio = <<>>
      /\ \A q \in Procs : q # Main => proc'[q] = proc[q]
      /\ \A d \in Clients : Waits(d)' => Waits(d)
  <2>1. Accepting = "request"
    BY Zenon DEF Accepting
  <2> QED BY <2>1, AcceptDoes DEF fixed
<1>2. UNCHANGED dead
  BY DEF Accept, sig
<1>3. PICK h \in Clients, fd \in Fd : Waits(h) /\ proc'[Main].fd = fd /\ files'[Main][fd] = h
  BY AcceptDoes
<1>4. \A d \in Clients : proc'[d] = proc[d]
  BY <1>1, MainRecord DEF Inv
<1>5. /\ Answer(h) /\ cli[h].got = <<>> /\ Reached(cli[h], sock[h]) = 0
      /\ cli[h] \in Members
  BY <1>3 DEF Answers, Answer, Inv, TypeOK, DataOK
<1>6. Used(h)' = 0
  <2>1. Len(proc'[Main].rio) = 0 /\ Reached(cli[h], sock[h])' = 0
    BY <1>1, <1>5
  <2> QED BY <2>1 DEF Used
<1>7. ~Serving(h, {"headers"})' /\ ~Serving(h, {"reply"})' /\ ~Serving(h, {"fork"})'
  BY <1>1 DEF Serving
<1>8. files'[Main][proc'[Main].fd] = h
  BY <1>1, <1>3 DEF Serving
<1>9. Complies(h, serve_dynamic) => Complies(h, serve_dynamic)'
  BY <1>1 DEF Complies
<1>10. Answer(h)'
  BY <1>1, <1>2, <1>3, <1>4, <1>5, <1>6, <1>7, <1>9 DEF Answer
<1> QED BY <1>1, <1>2, <1>4, <1>8, <1>10, AnswersOne

\* tiny reads pieces of a request.
LEMMA AnswersRead ==
  ASSUME Inv, Tokens, Streams, Answers, kind = "tiny", NEW p \in Procs, NEW c \in Clients, Peer(p, c),
         Read(p, c)
  PROVE  Answers'
<1>1. /\ proc[p].pc \in Hearing /\ UNCHANGED <<kind, asks, cli, backlog, files, dead>>
      /\ \A q \in Procs : q # p => proc'[q] = proc[q]
      /\ \A d \in Clients : d # c => sock'[d] = sock[d]
  BY ReadDoes DEF fixed
<1>2. PICK n \in 1..Len(sock[c]), r \in Contexts :
        /\ proc'[p] = r /\ r.pc = proc[p].pc /\ r.fd = proc[p].fd /\ r.line = proc[p].line
        /\ r.rio = proc[p].rio \o SubSeq(sock[c], 1, n)
        /\ sock'[c] = SubSeq(sock[c], n + 1, Len(sock[c]))
  BY ReadDoes
<1>3. proc[p].pc \in Busy
  BY <1>1 DEF Busy
<1>4. /\ p = Main /\ Conn(p) = c /\ ~Waits(c) /\ Main \notin Clients /\ Clients \subseteq Procs /\ files[Main][proc[Main].fd] = c
  BY <1>3, Workers, MainRecord DEF Peer, Inv, Conn, Process
<1>5. Used(c)' = Used(c)
  <2>1. /\ proc[p].rio \in Seq(Piece) /\ sock[c] \in Seq(Piece) /\ cli[c].sent \in Nat
    BY Record DEF Inv, TypeOK, DataOK, Contexts, Members
  <2>2. ASSUME NEW s \in Seq(Piece), NEW t \in Seq(Piece), NEW k \in 1..Len(t)
        PROVE  Len(s \o SubSeq(t, 1, k)) = Len(s) + k /\ Len(SubSeq(t, k + 1, Len(t))) = Len(t) - k
    <3>1. SubSeq(t, 1, k) \in Seq(Piece) /\ Len(SubSeq(t, 1, k)) = k
      BY <2>2
    <3>2. Len(SubSeq(t, k + 1, Len(t))) = Len(t) - k
      BY <2>2
    <3> QED BY <3>1, <3>2
  <2>3. Len(r.rio) = Len(proc[p].rio) + n /\ Len(sock'[c]) = Len(sock[c]) - n
    BY <1>2, <2>1, <2>2
  <2>4. n \in Nat /\ Len(sock[c]) \in Nat /\ Len(proc[p].rio) \in Nat
    BY <2>1
  <2>5. ASSUME NEW w \in Nat, NEW x \in Nat, NEW y \in Nat, NEW z \in Nat
        PROVE  (x - (y - w)) - (z + w) = (x - y) - z
    OBVIOUS
  <2>6. (cli[c].sent - (Len(sock[c]) - n)) - (Len(proc[p].rio) + n)
          = (cli[c].sent - Len(sock[c])) - Len(proc[p].rio)
    BY <2>1, <2>4, <2>5
  <2> QED BY <1>1, <1>2, <1>4, <2>3, <2>6 DEF Used, Reached
<1>6. Answer(c) /\ ~Waits(c)' /\ proc'[c] = proc[c]
  BY <1>1, <1>4 DEF Answers, Waits
<1>7. Serving(c, AtWork)' => /\ proc'[Main].pc = proc[Main].pc /\ files[Main][proc[Main].fd] = c
                             /\ proc'[Main].line = proc[Main].line /\ Used(c)' = Used(c)
  BY <1>2, <1>4, <1>5
<1>8. Answer(c)'
  BY <1>1, <1>6, <1>7, AnswerKept
<1>9. files'[Main][proc'[Main].fd] = c /\ \A d \in Clients : Waits(d)' => Waits(d)
  BY <1>1, <1>2, <1>4 DEF Serving, Waits
<1>10. \A d \in Clients : proc'[d] = proc[d]
  BY <1>1, <1>4
<1> QED BY <1>1, <1>8, <1>9, <1>10, AnswersOne

\* The line that ends the request is not its first.
LEMMA HalfLine ==
  ASSUME Inv, NEW c \in Clients, Sends(c, cli[c], sock[c]), cli[c].st # "left",
         NEW rio \in Seq(Piece), rio = Pieced(c, 0, Len(rio)), rio = proc[Main].rio,
         Reached(cli[c], sock[c]) = Len(rio),
         NEW n \in 1..Len(rio), n = Readline(Main, c)
  PROVE  Whole(Main, n) /\ cli[c].sent > 1
<1>1. /\ LineIn(rio) \in Nat /\ LineIn(rio) <= Len(rio) /\ Len(rio) \in Nat /\ n \in Nat /\ 1 <= n /\ n <= Len(rio)
      /\ LineIn(rio) > 0 => (0 + LineIn(rio)) % 2 = 0
      /\ LineIn(rio) = 0 => \A i \in 1..Len(rio) : (0 + i) % 2 # 0
  BY LineInBounds, PiecedEnds
<1>2. n = (IF LineIn(rio) > 0 THEN LineIn(rio) ELSE IF AtEof(c) THEN Len(rio) ELSE 0)
  BY DEF Readline
<1>3. cli[c].sent \in Nat /\ Len(sock[c]) \in Nat /\ cli[c].sent - Len(sock[c]) = Len(rio)
  BY DEF Inv, TypeOK, DataOK, Members, Reached
<1>4. LineIn(rio) # 0
  <2> SUFFICES ASSUME LineIn(rio) = 0 PROVE FALSE
    OBVIOUS
  <2>1. AtEof(c) /\ n = Len(rio)
    BY <1>1, <1>2
  <2>2. Len(sock[c]) = 0 /\ cli[c].sent = Pieces
    <3>1. sock[c] = <<>> /\ cli[c].st = "fin"
      BY <2>1 DEF AtEof
    <3> QED BY <3>1 DEF Sends
  <2>3. Len(rio) = Pieces /\ Pieces % 2 = 0 /\ Pieces \in Nat
    BY <1>3, <2>2, ServersAssumption
  <2>4. (0 + Len(rio)) % 2 # 0
    <3>1. Len(rio) \in 1..Len(rio)
      BY <1>1
    <3>2. \A i \in 1..Len(rio) : (0 + i) % 2 # 0
      BY <1>1
    <3> QED BY <3>1, <3>2
  <2> QED BY <2>3, <2>4
<1>5. n = LineIn(rio) /\ n % 2 = 0
  BY <1>1, <1>2, <1>4
<1>6. n >= 2
  BY <1>1, <1>5
<1>7. cli[c].sent >= Len(rio)
  BY <1>3
<1>8. cli[c].sent > 1
  <2>1. PICK x \in Nat, y \in Nat, z \in Nat : x = cli[c].sent /\ y = Len(rio) /\ z = n
    BY <1>1, <1>3
  <2>2. z >= 2 /\ z <= y /\ x >= y
    BY <1>1, <1>6, <1>7, <2>1
  <2>3. x > 1
    BY <2>2
  <2> QED BY <2>1, <2>3
<1> QED BY <1>5, <1>8 DEF Whole

\* tiny takes a line of the request: with the last one it responds.
LEMMA AnswersRequest ==
  ASSUME Inv, Tokens, Streams, Answers, NEW p \in Procs, NEW c \in Clients, Peer(p, c),
         RequestLine(p, c) \/ read_requesthdrs(p, c)
  PROVE  Answers'
<1>1. /\ kind = "tiny" /\ p = Main /\ UNCHANGED <<kind, asks, cli, sock, files, backlog, dead>>
      /\ \A q \in Procs : q # Main => proc'[q] = proc[q]
      /\ proc'[Main].fd = proc[Main].fd
  BY RequestDoes DEF fixed
<1>2. PICK n \in 1..Len(proc[Main].rio), r \in Contexts :
        /\ n = Readline(Main, c) /\ proc'[Main] = r
        /\ r.rio = SubSeq(proc[Main].rio, n + 1, Len(proc[Main].rio))
        /\ \/ /\ proc[Main].pc = "request" /\ r.pc = "headers"
           \/ /\ proc[Main].pc = "request" /\ r.pc = "reply"
              /\ r.line = clienterror("501") /\ (Whole(Main, n) => asks[c].method # "GET")
           \/ /\ proc[Main].pc = "headers" /\ r.pc = "headers"
           \/ proc[Main].pc = "headers" /\ r.pc = "reply" /\ r.line = Reply(asks[c])
  BY RequestDoes
<1>3. proc[Main].pc \in {"request", "headers"} /\ proc[Main].pc \in Busy /\ proc[Main].pc \in Hearing
  BY <1>2 DEF Busy, Hearing
<1>4. /\ Sends(c, cli[c], sock[c]) /\ Flows(Mode(c), c, cli[c], sock[c], proc[Main])
      /\ cli[c] \in Members /\ sock[c] \in Seq(Piece) /\ proc[Main] \in Contexts
      /\ proc[Main].line = <<>> /\ Serves(Main, c)
  BY <1>1, <1>3, Peered
<1>5. /\ files[Main][proc[Main].fd] = c /\ ~Waits(c) /\ Clients \subseteq Procs /\ Main \notin Clients
  BY <1>1, <1>3, <1>4, Workers, MainRecord DEF Inv, Serves, Conn, Process
<1>6. PICK rio \in Seq(Piece) : rio = proc[Main].rio
  BY <1>4 DEF Contexts
<1>7. /\ cli[c].sent \in Nat /\ Len(sock[c]) \in Nat /\ Len(rio) \in Nat /\ n \in Nat /\ 1 <= n /\ n <= Len(rio)
      /\ Used(c) = (cli[c].sent - Len(sock[c])) - Len(rio) /\ rio = Pieced(c, Used(c), Len(rio))
  BY <1>2, <1>4, <1>6 DEF Members, Flows, Used, Reached
<1>8. Used(c)' = Used(c) + n
  <2>1. ASSUME NEW t \in Seq(Piece), NEW k \in 1..Len(t) PROVE Len(SubSeq(t, k + 1, Len(t))) = Len(t) - k
    BY <2>1
  <2>2. Len(r.rio) = Len(rio) - n
    BY <1>2, <1>6, <2>1
  <2>3. ASSUME NEW w \in Nat, NEW x \in Nat, NEW y \in Nat, NEW z \in Nat
        PROVE  (x - y) - (z - w) = ((x - y) - z) + w
    OBVIOUS
  <2>4. (cli[c].sent - Len(sock[c])) - (Len(rio) - n) = ((cli[c].sent - Len(sock[c])) - Len(rio)) + n
    BY <1>7, <2>3
  <2> QED BY <1>1, <1>2, <1>7, <2>2, <2>4 DEF Used, Reached
<1>9. /\ Answer(c) /\ cli[c].got = <<>> /\ Used(c) \in Int
      /\ proc[Main].pc = "request" => Used(c) = 0
      /\ proc[Main].pc = "headers" => Used(c) >= 1
  <2>1. Answer(c)
    BY <1>1 DEF Answers
  <2>2. /\ Serving(c, {"request", "headers"}) /\ (proc[Main].pc = "request" => Serving(c, {"request"}))
        /\ proc[Main].pc = "headers" => Serving(c, {"headers"})
    BY <1>3, <1>5 DEF Serving
  <2>3. Used(c) \in Int
    BY <1>7
  <2> QED BY <2>1, <2>2, <2>3 DEF Answer
<1>10. Used(c)' >= 1
  <2>1. PICK u \in Int : u = Used(c)
    BY <1>9
  <2>2. u >= 0 /\ Used(c)' = u + n
    BY <1>3, <1>8, <1>9, <2>1
  <2>3. u + n >= 1
    BY <1>7, <2>2
  <2> QED BY <2>2, <2>3
<1>11. ASSUME r.pc = "reply", cli[c].st # "left"
       PROVE  cli[c].sent > 1 /\ r.line = Reply(asks[c])
  <2>1. CASE proc[Main].pc = "request"
    <3>1. rio = Pieced(c, 0, Len(rio)) /\ Reached(cli[c], sock[c]) = Len(rio)
      BY <1>7, <1>9, <2>1 DEF Reached
    <3>2. Whole(Main, n) /\ cli[c].sent > 1
      BY <1>2, <1>4, <1>6, <1>11, <3>1, HalfLine
    <3>3. asks[c] \in Asks /\ asks[c].method # "GET" /\ r.line = clienterror("501")
      BY <1>2, <1>9, <1>11, <2>1, <3>2 DEF Answer
    <3> QED BY <3>2, <3>3, Asked
  <2>2. CASE proc[Main].pc = "headers"
    <3>1. r.line = Reply(asks[c])
      BY <1>2, <1>11, <2>2
    <3>2. PICK x \in Nat, y \in Nat, z \in Nat : x = cli[c].sent /\ y = Len(sock[c]) /\ z = Len(rio)
      BY <1>7
    <3>3. (x - y) - z >= 1 /\ z >= 1
      BY <1>7, <1>9, <2>2, <3>2
    <3>4. x > 1
      BY <3>3
    <3> QED BY <3>1, <3>2, <3>4
  <2> QED BY <1>3, <2>1, <2>2
<1>12. ASSUME r.pc = "reply", cli[c].st # "left"
       PROVE  cli[c].got \o r.line = Reply(asks[c])
  <2>1. r.line \in Seq(Part)
    BY DEF Contexts
  <2>2. ASSUME NEW s \in Seq(Part) PROVE <<>> \o s = s
    OBVIOUS
  <2> QED BY <1>9, <1>11, <1>12, <2>1, <2>2
<1>13. Answer(c)'
  <2>1. /\ (asks[c] \in Asks)' /\ cli'[c].got = <<>> /\ ~Waits(c)' /\ IsPrefix(cli[c].got, Due(asks[c]))'
    BY <1>1, <1>5, <1>9 DEF Answer, Waits
  <2>2. /\ r.pc \in {"headers", "reply"}
        /\ ~Serving(c, {"request"})' /\ ~Serving(c, {"fork"})'
        /\ (Serving(c, {"headers"}) => Used(c) >= 1)'
    BY <1>2, <1>10 DEF Serving
  <2>3. (Serving(c, {"reply"}) /\ cli[c].st # "left" =>
          cli[c].sent > 1 /\ cli[c].got \o proc[Main].line = Reply(asks[c]))'
    BY <1>1, <1>2, <1>11, <1>12 DEF Serving
  <2>4. (proc[c].pc = "cgi" /\ c \notin dead => Complies(c, serve_dynamic))'
    BY <1>1, <1>5, <1>9 DEF Answer, Complies
  <2> QED BY <2>1, <2>2, <2>3, <2>4 DEF Answer
<1>14. \A d \in Clients : (Waits(d)' => Waits(d)) /\ proc'[d] = proc[d]
  BY <1>1, <1>5 DEF Waits
<1>15. files'[Main][proc'[Main].fd] = c
  BY <1>1, <1>5
<1> QED BY <1>1, <1>13, <1>14, <1>15, AnswersOne

\* The first part of what is to be sent is sent.
LEMMA HeadMoves ==
  ASSUME NEW S, NEW s \in Seq(S), NEW t \in Seq(S), t # <<>>
  PROVE  /\ Append(s, Head(t)) \in Seq(S) /\ Tail(t) \in Seq(S)
         /\ Append(s, Head(t)) \o Tail(t) = s \o t
         /\ ~(Len(t) > 1) => Len(t) = 1 /\ Append(s, Head(t)) = s \o t
<1>1. PICK h \in S, u \in Seq(S) : h = Head(t) /\ u = Tail(t) /\ Len(u) = Len(t) - 1
                                 /\ h = t[1] /\ \A i \in 1..Len(u) : u[i] = t[i + 1]
  <2>1. /\ Head(t) \in S /\ Tail(t) \in Seq(S) /\ Len(Tail(t)) = Len(t) - 1
        /\ \A i \in 1..Len(Tail(t)) : Tail(t)[i] = t[i + 1]
    BY HeadTailProperties
  <2>2. Head(t) = t[1]
    OBVIOUS
  <2> QED BY <2>1, <2>2, Zenon
<1>2. PICK g \in Seq(S) : g = Append(s, h) /\ Len(g) = Len(s) + 1 /\ g[Len(s) + 1] = h
                          /\ \A i \in 1..Len(s) : g[i] = s[i]
  <2>1. /\ Append(s, h) \in Seq(S) /\ Len(Append(s, h)) = Len(s) + 1 /\ Append(s, h)[Len(s) + 1] = h
        /\ \A i \in 1..Len(s) : Append(s, h)[i] = s[i]
    BY AppendProperties
  <2> QED BY <2>1, Zenon
<1>3. Len(s) \in Nat /\ Len(t) \in Nat /\ Len(t) >= 1
  OBVIOUS
<1>4. g \o u = s \o t
  <2>1. /\ g \o u \in Seq(S) /\ Len(g \o u) = Len(s) + Len(t)
        /\ \A i \in 1..Len(s)+Len(t) : (g \o u)[i] = IF i <= Len(s) + 1 THEN g[i] ELSE u[i - (Len(s) + 1)]
    BY <1>1, <1>2, <1>3, ConcatProperties
  <2>2. /\ s \o t \in Seq(S) /\ Len(s \o t) = Len(s) + Len(t)
        /\ \A i \in 1..Len(s)+Len(t) : (s \o t)[i] = IF i <= Len(s) THEN s[i] ELSE t[i - Len(s)]
    BY ConcatProperties
  <2>3. ASSUME NEW i \in 1..Len(s)+Len(t) PROVE (g \o u)[i] = (s \o t)[i]
    <3>1. PICK n \in Nat, l \in Nat : n = Len(s) /\ l = Len(t) /\ Len(u) = l - 1 /\ l >= 1
      BY <1>1, <1>3
    <3>2. i \in Nat /\ 1 <= i /\ i <= n + l
      BY <3>1
    <3>3. /\ (g \o u)[i] = IF i <= n + 1 THEN g[i] ELSE u[i - (n + 1)]
          /\ (s \o t)[i] = IF i <= n THEN s[i] ELSE t[i - n]
      BY <2>1, <2>2, <3>1
    <3>4. CASE i <= n
      <4>1. i \in 1..n /\ i <= n + 1
        BY <3>1, <3>2, <3>4
      <4> QED BY <1>2, <3>1, <3>3, <3>4, <4>1
    <3>5. CASE i = n + 1
      <4>1. ~(i <= n) /\ i <= n + 1 /\ i - n = 1
        BY <3>1, <3>5
      <4> QED BY <1>1, <1>2, <3>1, <3>3, <3>5, <4>1
    <3>6. CASE i > n + 1
      <4>1. PICK j \in Nat : i = n + 1 + j
        <5>1. i - (n + 1) \in Nat /\ i = n + 1 + (i - (n + 1))
          BY <3>1, <3>2, <3>6
        <5> QED BY <5>1
      <4>2. /\ ~(i <= n) /\ ~(i <= n + 1) /\ i - (n + 1) = j /\ i - n = j + 1 /\ j \in 1..(l - 1)
        BY <3>1, <3>2, <3>6, <4>1
      <4>3. (g \o u)[i] = u[j] /\ (s \o t)[i] = t[j + 1]
        BY <3>3, <4>2
      <4> QED BY <1>1, <3>1, <4>2, <4>3
    <3>7. i <= n \/ i = n + 1 \/ i > n + 1
      BY <3>1, <3>2
    <3> QED BY <3>4, <3>5, <3>6, <3>7
  <2> QED BY <2>1, <2>2, <2>3, SeqEqual
<1>5. ASSUME ~(Len(t) > 1) PROVE Len(t) = 1 /\ g = s \o t
  <2>1. Len(t) = 1 /\ u = <<>>
    BY <1>1, <1>3, <1>5
  <2>2. g \o u = g
    BY <2>1, ConcatEmptySeq
  <2> QED BY <1>4, <2>1, <2>2
<1> QED BY <1>1, <1>2, <1>4, <1>5

\* Main has taken a connection: its client waits no longer, and its child has not begun.
LEMMA Connected ==
  ASSUME Inv, kind = "tiny", proc[Main].pc \in AtWork, NEW c \in Clients, files[Main][proc[Main].fd] = c
  PROVE  ~Waits(c) /\ proc[c].pc = "none" /\ proc[Main].fd \in Fd
<1>1. proc[Main].pc \notin {"accept", "check"} /\ proc[Main].pc \in ToGive
  BY DEF AtWork, ToGive
<1>2. Open(proc[Main].fd)
  BY <1>1 DEF Inv, Hands, Works, InHand
<1>3. ~Waits(c)
  BY <1>2 DEF Inv, Table, Open
<1>4. proc[c].pc = "none"
  BY <1>1 DEF Inv, Hands, Idle, Fresh
<1> QED BY <1>2, <1>3, <1>4 DEF Open

\* A part of the response is sent.
LEMMA AnswersReply ==
  ASSUME Inv, Answers, NEW p \in Procs, NEW c \in Clients, Peer(p, c), WriteReply(p, c)
  PROVE  Answers'
<1>1. /\ kind = "tiny" /\ p = Main /\ proc[Main].pc = "reply" /\ proc[Main].line # <<>>
      /\ UNCHANGED <<kind, asks, sock, files, backlog, dead>>
      /\ \A q \in Procs : q # Main => proc'[q] = proc[q]
      /\ proc'[Main].fd = proc[Main].fd
      /\ proc'[Main].line = Tail(proc[Main].line) /\ proc'[Main].pc = AfterReply(Main, c)
      /\ \A d \in Clients : d # c => cli'[d] = cli[d]
  BY WriteReplyDoes DEF fixed
<1>2. PICK m \in Members :
        /\ cli'[c] = m /\ m.st = cli[c].st /\ m.sent = cli[c].sent
        /\ m.got = IF cli[c].st = "left" THEN cli[c].got ELSE Append(cli[c].got, Head(proc[Main].line))
  BY WriteReplyDoes
<1>3. /\ files[Main][proc[Main].fd] = c /\ Main \notin Clients /\ Clients \subseteq Procs
      /\ ~Waits(c) /\ proc[c].pc = "none"
  <2>1. files[Main][proc[Main].fd] = c /\ proc[Main].pc \in AtWork
    BY <1>1 DEF Peer, Conn, Process, AtWork
  <2> QED BY <1>1, <2>1, Connected, MainRecord DEF Inv
<1>4. PICK s \in Seq(Part), t \in Seq(Part) :
        s = cli[c].got /\ t = proc[Main].line /\ t # <<>> /\ cli[c].sent \in Nat
  BY <1>1, MainRecord DEF Inv, TypeOK, DataOK, Members, Contexts
<1>5. Answer(c) /\ Serving(c, {"reply"})
  BY <1>1, <1>3 DEF Answers, Serving
<1>6. /\ Waits(c)' = Waits(c) /\ proc'[c].pc = "none" /\ files'[Main][proc'[Main].fd] = c
      /\ \A d \in Clients : d # c => (Waits(d)' => Waits(d)) /\ proc'[d] = proc[d]
  BY <1>1, <1>2, <1>3 DEF Waits
<1>7. proc'[Main].pc \in {"reply", "mmap", "fork", "finish"}
  BY <1>1, AfterReplies
<1>8. CASE cli[c].st = "left"
  <2>1. cli'[c].got = cli[c].got /\ cli'[c].sent = cli[c].sent /\ cli'[c].st = "left"
    BY <1>2, <1>8
  <2>2. ~Serving(c, {"request", "headers"})' /\ ~Serving(c, {"request"})' /\ ~Serving(c, {"headers"})'
    BY <1>7 DEF Serving
  <2>3. Complies(c, serve_dynamic)'
    BY <2>1 DEF Complies
  <2>4. Answer(c)'
    BY <1>1, <1>3, <1>5, <1>6, <2>1, <2>2, <2>3 DEF Answer
  <2> QED BY <1>1, <1>6, <2>4, AnswersOne
<1>9. CASE cli[c].st # "left"
  <2>1. cli[c].sent > 1 /\ s \o t = Reply(asks[c]) /\ asks[c] \in Asks
    BY <1>4, <1>5, <1>9 DEF Answer
  <2>2. PICK g \in Seq(Part), u \in Seq(Part) :
          /\ g = Append(s, Head(t)) /\ u = Tail(t) /\ g \o u = s \o t
          /\ ~(Len(t) > 1) => Len(t) = 1 /\ g = s \o t
    <3>1. /\ Append(s, Head(t)) \in Seq(Part) /\ Tail(t) \in Seq(Part)
          /\ Append(s, Head(t)) \o Tail(t) = s \o t
          /\ ~(Len(t) > 1) => Len(t) = 1 /\ Append(s, Head(t)) = s \o t
      <4>1. t # <<>>
        BY <1>4
      <4> QED BY <4>1, HeadMoves
    <3> QED BY <3>1, Zenon
  <2>3. cli'[c].got = g /\ cli'[c].sent = cli[c].sent /\ proc'[Main].line = u
    BY <1>1, <1>2, <1>4, <1>9, <2>2
  <2>4. IsPrefix(g, Due(asks[c]))
    <3>1. g \o u = Reply(asks[c])
      BY <2>1, <2>2
    <3> QED BY <2>1, <3>1, Beginning
  <2>5. proc'[Main].pc = "fork" => g = serve_dynamic /\ Reply(asks[c]) = serve_dynamic
    <3>1. AfterReply(Main, c) = "fork" => ~(Len(t) > 1) /\ t[1] = "Server"
      BY <1>4 DEF AfterReply
    <3>2. Len(t) = 1 /\ t[1] = "Server" => Reply(asks[c]) = serve_dynamic
      BY <2>1, Beginning
    <3> QED BY <1>1, <2>1, <2>2, <3>1, <3>2
  <2>6. ~Serving(c, {"request", "headers"})' /\ ~Serving(c, {"request"})' /\ ~Serving(c, {"headers"})'
    BY <1>7 DEF Serving
  <2>7. (Serving(c, {"reply"}) /\ cli[c].st # "left" =>
          cli[c].sent > 1 /\ cli[c].got \o proc[Main].line = Reply(asks[c]))'
    BY <1>1, <2>1, <2>2, <2>3
  <2>8. (Serving(c, {"fork"}) => Complies(c, serve_dynamic))'
    BY <1>1, <2>3, <2>5 DEF Serving, Complies
  <2>9. /\ asks'[c] \in Asks /\ ~Waits(c)' /\ ~(cli'[c].sent <= 1)
        /\ IsPrefix(cli[c].got, Due(asks[c]))'
    BY <1>1, <1>3, <1>4, <1>6, <2>1, <2>3, <2>4
  <2>10. Answer(c)'
    BY <1>6, <2>6, <2>7, <2>8, <2>9 DEF Answer
  <2> QED BY <1>1, <1>6, <2>10, AnswersOne
<1> QED BY <1>8, <1>9

\* The child has the connection, and its client what precedes the output.
LEMMA AnswersFork ==
  ASSUME Inv, Answers, NEW p \in Procs, NEW c \in Clients, Peer(p, c), ForkCGI(p, c)
  PROVE  Answers'
<1>1. proc[p].pc = "fork" /\ UNCHANGED <<kind, asks, cli, sock, backlog, dead>>
  BY DEF ForkCGI, At, fixed, client, sig
<1>2. Stands(p, "fork")
  BY <1>1, Record DEF Inv
<1>3. kind = "tiny" /\ p = Main
  BY <1>2 DEF Stands
<1>4. proc[Main].pc \in AtWork /\ proc[Main].pc \in ToGive /\ files[Main][proc[Main].fd] = c
  BY <1>1, <1>3 DEF AtWork, ToGive, Peer, Conn, Process
<1>5. PICK fd \in Fd, a \in Pcs, b \in Pcs : fd = proc[Main].fd /\ a = "cgi" /\ b = "wait"
  <2>1. "cgi" \in Pcs /\ "wait" \in Pcs
    BY DEF Pcs
  <2> QED BY <1>3, <1>4, <2>1, Connected
<1>6. Copied(c, fd, a, b)
  BY <1>3, <1>5 DEF ForkCGI, Copied
<1>7. /\ proc[c].pc = "none" /\ proc'[c].pc = a /\ proc'[Main].pc = b
      /\ \A q \in Procs : q # Main /\ q # c => proc'[q] = proc[q]
  BY <1>3, <1>4, <1>5, <1>6, CopyDoes
<1>8. Main \notin Clients /\ Clients \subseteq Procs /\ proc'[Main].pc \notin AtWork
  BY <1>5, <1>7, MainRecord DEF Inv, AtWork
<1>9. Answer(c) /\ Serving(c, {"fork"}) /\ Complies(c, serve_dynamic)
  BY <1>1, <1>3, <1>4 DEF Answers, Answer, Serving
<1>10. \A d \in Clients : Waits(d)' => Waits(d)
  BY <1>1 DEF Waits
<1>11. Answer(c)'
  <2>1. /\ ~Serving(c, {"request", "headers"})' /\ ~Serving(c, {"request"})' /\ ~Serving(c, {"headers"})'
        /\ ~Serving(c, {"reply"})' /\ ~Serving(c, {"fork"})'
    BY <1>8 DEF Serving, AtWork
  <2>2. Complies(c, serve_dynamic)' /\ UNCHANGED <<cli, sock, asks>>
    BY <1>1, <1>9 DEF Complies
  <2> QED BY <1>9, <1>10, <2>1, <2>2 DEF Answer
<1>12. \A d \in Clients : d # c /\ proc'[d].pc = "cgi" /\ d \notin dead' => proc[d].pc = "cgi" /\ d \notin dead
  BY <1>1, <1>7, <1>8
<1> QED BY <1>1, <1>3, <1>8, <1>10, <1>11, <1>12, AnswersOne

\* The program ends the response.
LEMMA AnswersCGI ==
  ASSUME Inv, Answers, NEW p \in Procs, NEW c \in Clients, Peer(p, c), CGI(p, c)
  PROVE  Answers'
<1>1. /\ kind = "tiny" /\ proc[c].pc = "cgi" /\ c \notin dead /\ c \in dead' /\ ~Waits(c) /\ ~Fresh(c)
      /\ UNCHANGED <<kind, asks, sock, files, backlog, proc>> /\ dead' = dead \cup {c}
      /\ \A d \in Clients : d # c => cli'[d] = cli[d]
  BY CGIDoes DEF fixed
<1>2. PICK m \in Members :
        /\ cli'[c] = m /\ m.st = cli[c].st /\ m.sent = cli[c].sent
        /\ m.got = IF cli[c].st = "left" THEN cli[c].got ELSE Append(cli[c].got, "output")
  BY CGIDoes
<1> SUFFICES ASSUME NEW d \in Clients PROVE Answer(d)'
  BY DEF Answers
<1>3. Answer(d)
  BY <1>1 DEF Answers
<1>4. CASE d # c
  <2>1. /\ cli'[d] = cli[d] /\ (Waits(d)' => Waits(d)) /\ Reached(cli[d], sock[d])' = Reached(cli[d], sock[d])
        /\ proc'[d].pc = "cgi" /\ d \notin dead' => proc[d].pc = "cgi" /\ d \notin dead
    BY <1>1, <1>4 DEF Waits
  <2>2. Serving(d, AtWork)' => /\ proc'[Main].pc = proc[Main].pc /\ files[Main][proc[Main].fd] = d
                               /\ proc'[Main].line = proc[Main].line /\ Used(d)' = Used(d)
    BY <1>1, <2>1 DEF Serving, Used
  <2> QED BY <1>1, <1>3, <2>1, <2>2, AnswerKept
<1>5. CASE d = c
  <2>1. ~Serving(c, AtWork)' /\ Waits(c)' = Waits(c) /\ AtWork \subseteq ToGive
    BY <1>1, <1>2 DEF Serving, Fresh, AtWork, ToGive, Waits
  <2>2. /\ ~Serving(c, {"request", "headers"})' /\ ~Serving(c, {"request"})' /\ ~Serving(c, {"headers"})'
        /\ ~Serving(c, {"reply"})' /\ ~Serving(c, {"fork"})'
    BY <2>1 DEF Serving, AtWork
  <2>3. (cli'[c].sent <= 1 => cli'[c].got = <<>>) /\ IsPrefix(cli'[c].got, Due(asks[c]))
    <3>1. CASE cli[c].st = "left"
      BY <1>2, <1>3, <1>5, <3>1 DEF Answer
    <3>2. CASE cli[c].st # "left"
      <4>1. cli[c].got = serve_dynamic /\ Reply(asks[c]) = serve_dynamic /\ asks[c] \in Asks
        BY <1>1, <1>3, <1>5, <3>2 DEF Answer, Complies
      <4>2. cli'[c].got = Append(serve_dynamic, "output")
        BY <1>2, <3>2, <4>1
      <4>3. cli[c].got # <<>> /\ IsPrefix(cli'[c].got, Due(asks[c]))
        BY <4>1, <4>2, Ended
      <4>4. ~(cli[c].sent <= 1)
        BY <1>3, <1>5, <4>3 DEF Answer
      <4> QED BY <1>2, <4>3, <4>4
    <3> QED BY <3>1, <3>2
  <2>4. (asks[c] \in Asks)' /\ ~Waits(c)'
    BY <1>1, <1>3, <1>5, <2>1 DEF Answer
  <2> QED BY <1>1, <1>5, <2>2, <2>3, <2>4 DEF Answer
<1> QED BY <1>4, <1>5

\* The steps of a client.
LEMMA AnswersClient ==
  ASSUME Inv, Streams, Answers, kind = "tiny", NEW c \in Clients, Connect(c) \/ Client(c) \/ Leave(c)
  PROVE  Answers'
<1>1. UNCHANGED <<kind, asks, files, proc, dead>>
  BY DEF Connect, Client, Send, Finish, Leave, fixed, sig
<1>2. cli[c] \in Members /\ sock[c] \in Seq(Piece) /\ Sends(c, cli[c], sock[c])
  BY DEF Streams, StreamOf, Inv, TypeOK, DataOK
<1>3. /\ \A d \in Clients : d # c => cli'[d] = cli[d] /\ sock'[d] = sock[d]
      /\ cli'[c].got = cli[c].got /\ (cli'[c].st # "left" => cli[c].st # "left")
      /\ Reached(cli'[c], sock'[c]) = Reached(cli[c], sock[c])
      /\ cli'[c].sent <= 1 => cli[c].sent <= 1
      /\ cli[c].sent > 1 => cli'[c].sent > 1
      /\ \A d \in Clients : Waits(d)' => Waits(d)
  <2>1. CASE Send(c)
    <3>1. /\ cli[c].st = "open" /\ cli[c].sent < Pieces
          /\ sock'[c] = Append(sock[c], <<c, cli[c].sent + 1>>)
          /\ \A d \in Clients : d # c => cli'[d] = cli[d] /\ sock'[d] = sock[d]
          /\ UNCHANGED backlog
      BY <2>1, SendDoes
    <3>2. PICK m \in Members : /\ cli'[c] = m /\ m.st = cli[c].st /\ m.got = cli[c].got
                               /\ m.sent = cli[c].sent + 1
      BY <2>1, SendDoes
    <3>3. PICK n \in Nat, k \in Nat : k = cli[c].sent /\ n = k + 1 /\ n = cli[c].sent + 1
      BY <1>2 DEF Members
    <3>4. Reached(m, Append(sock[c], <<c, n>>)) = Reached(cli[c], sock[c])
      <4>1. /\ cli[c] \in Members /\ sock[c] \in Seq(Piece) /\ Sends(c, cli[c], sock[c])
            /\ cli[c].st = "open" /\ cli[c].sent < Pieces
            /\ n \in Nat /\ n = cli[c].sent + 1
            /\ m \in Members /\ m.st = cli[c].st /\ m.got = cli[c].got /\ m.sent = n
        BY <1>2, <3>1, <3>2, <3>3
      <4> QED BY <4>1, SendOne
    <3>5. (n <= 1 => k <= 1) /\ (k > 1 => n > 1)
      BY <3>3
    <3>6. \A d \in Clients : Waits(d)' => Waits(d)
      BY <3>1, <3>2 DEF Waits
    <3> QED BY <3>1, <3>2, <3>3, <3>4, <3>5, <3>6
  <2>2. CASE Connect(c) \/ Finish(c) \/ Leave(c)
    <3>1. PICK m \in Members :
            /\ cli'[c] = m /\ m.sent = cli[c].sent /\ m.got = cli[c].got
            /\ \/ cli[c].st = "new" /\ m.st = "open"
               \/ cli[c].st = "open" /\ m.st = "fin" /\ cli[c].sent = Pieces
               \/ cli[c].st = "open" /\ m.st = "left"
      BY <2>2, ClientDoes
    <3>2. /\ sock' = sock /\ \A d \in Clients : d # c => cli'[d] = cli[d]
          /\ \A d \in Clients : Waits(d)' => Waits(d)
      BY <2>2, ClientDoes
    <3> QED BY <3>1, <3>2 DEF Reached
  <2> QED BY <2>1, <2>2 DEF Client
<1> SUFFICES ASSUME NEW d \in Clients PROVE Answer(d)'
  BY <1>1 DEF Answers
<1>4. /\ Answer(d) /\ cli'[d].got = cli[d].got /\ (cli'[d].st # "left" => cli[d].st # "left")
      /\ Reached(cli[d], sock[d])' = Reached(cli[d], sock[d])
      /\ cli'[d].sent <= 1 => cli[d].sent <= 1
      /\ cli[d].sent > 1 => cli'[d].sent > 1
      /\ Waits(d)' => Waits(d)
  <2>1. CASE d = c
    BY <1>3, <2>1 DEF Answers
  <2>2. CASE d # c
    BY <1>3, <2>2 DEF Answers
  <2> QED BY <2>1, <2>2
<1>5. Serving(d, AtWork)' => /\ proc'[Main].pc = proc[Main].pc /\ files[Main][proc[Main].fd] = d
                             /\ proc'[Main].line = proc[Main].line /\ Used(d)' = Used(d)
  BY <1>1, <1>4 DEF Serving, Used
<1> QED BY <1>1, <1>4, <1>5, AnswerKept

\* The steps of doit that answer nothing.
LEMMA AnswersIdle ==
  ASSUME Inv, Answers, NEW p \in Procs, NEW c \in Clients,
         NoRequest(p, c) \/ Killed(p, c) \/ Wait(p) \/ CloseConn(p)
  PROVE  Answers'
<1>1. /\ proc[p].pc \in {"request", "mmap", "reply", "wait", "finish"}
      /\ UNCHANGED <<kind, asks, cli, sock, backlog>> /\ dead \subseteq dead'
  BY DEF NoRequest, Killed, Wait, CloseConn, At, fixed, client, sig
<1>2. Stands(p, proc[p].pc) /\ proc \in [Procs -> Contexts] /\ Clients \subseteq Procs /\ Main \notin Clients
  BY Record, MainRecord DEF Inv, TypeOK
<1>3. kind = "tiny" /\ p = Main
  BY <1>1, <1>2 DEF Stands
<1>4. \A d \in Clients : Waits(d)' => Waits(d)
  BY <1>1 DEF Waits
<1>5. \/ UNCHANGED <<proc, files>>
      \/ /\ proc'[Main].pc \in {"finish", "accept"} /\ \A d \in Clients : proc'[d] = proc[d]
  <2>1. CASE Killed(p, c)
    BY <2>1 DEF Killed
  <2>2. CASE NoRequest(p, c) \/ Wait(p)
    <3>1. proc' = [proc EXCEPT ![Main].pc = "finish"] /\ Main \in Procs
      BY <1>3, <2>2 DEF NoRequest, Wait, Goto
    <3> QED BY <1>2, <3>1 DEF Contexts
  <2>3. CASE CloseConn(p)
    <3>1. proc' = [proc EXCEPT ![Main] = Proc("accept", None)] /\ Main \in Procs
      BY <1>3, <2>3 DEF CloseConn
    <3> QED BY <1>2, <3>1 DEF Proc
  <2> QED BY <2>1, <2>2, <2>3
<1>6. \/ proc'[Main].pc \notin AtWork
      \/ proc'[Main] = proc[Main] /\ files'[Main] = files[Main]
  BY <1>5 DEF AtWork
<1>7. \A d \in Clients : proc'[d].pc = "cgi" /\ d \notin dead' => proc[d].pc = "cgi" /\ d \notin dead
  BY <1>1, <1>5
<1> QED BY <1>1, <1>3, <1>4, <1>6, <1>7, AnswersKept

\* Every step keeps what tiny has answered a part of what is due.
LEMMA AnswersStep ==
  ASSUME Inv, Tokens, Streams, Answers, [Next]_vars PROVE Answers'
<1>1. UNCHANGED <<kind, asks>>
  BY FixedKept DEF fixed
<1> SUFFICES ASSUME kind = "tiny" PROVE Answers'
  BY <1>1 DEF Answers
<1>2. Main \in Procs /\ Stands(Main, proc[Main].pc)
  BY MainRecord DEF Inv
<1>3. ASSUME MainStep PROVE Answers'
  <2>1. Accept
    BY <1>2, <1>3 DEF MainStep, Fork, ParentClose, Pthread_create, sbuf_insert, Select, check_clients,
                      At, Stands
  <2> QED BY <2>1, AnswersAccept
<1>4. ASSUME NEW p \in Procs, Run(p) PROVE Answers'
  <2>1. Stands(p, proc[p].pc)
    BY Record DEF Inv
  <2>2. Serve(p)
    <3>1. ~(p \in Spawned /\ Start(p))
      BY <2>1 DEF Start, At, Stands
    <3>2. p \in Threads => proc[p].pc = "none"
      BY Worker
    <3>3. p \in Threads => ~sbuf_remove(p) /\ ~init_echo_cnt(p) /\ ~Lock(p) /\ ~Unlock(p)
      BY <3>2 DEF sbuf_remove, init_echo_cnt, Lock, Unlock, At
    <3> QED BY <1>4, <3>1, <3>3 DEF Run
  <2>3. PICK c \in Clients : /\ Peer(p, c)
                             /\ Read(p, c) \/ Line(p, c) \/ Write(p, c) \/ SigPipe(p, c) \/ Close(p, c)
                                \/ doit(p, c)
    BY <2>2 DEF Serve
  <2>4. ~Line(p, c) /\ ~Write(p, c) /\ ~SigPipe(p, c) /\ ~Close(p, c)
    BY <2>1 DEF Line, Write, SigPipe, Close, At, Stands
  <2> QED BY <2>3, <2>4, AnswersRead, AnswersRequest, AnswersReply, AnswersFork, AnswersCGI, AnswersIdle
          DEF doit
<1>5. ASSUME sigchld_handler \/ UNCHANGED vars PROVE Answers'
  <2>1. UNCHANGED <<kind, asks, cli, sock, files, proc, backlog, dead>>
    BY <1>5 DEF sigchld_handler, vars, fixed, client, sig
  <2>2. \A d \in Clients : Waits(d)' => Waits(d)
    BY <2>1 DEF Waits
  <2> QED BY <2>1, <2>2, AnswersKept
<1> QED BY <1>3, <1>4, <1>5, AnswersClient DEF Next

-----------------------------------------------------------------------------
(* The echoes *)

\* In the beginning nothing is sent, and nobody serves.
LEMMA EchoStarts ==
  ASSUME Init, Inv PROVE EchoInv
<1>1. /\ cli = [c \in Clients |-> [st |-> "new", sent |-> 0, got |-> <<>>]]
      /\ sock = [c \in Clients |-> <<>>]
      /\ kind = "tiny" => asks \in [Clients -> Asks]
  BY DEF Init
<1>2. sbuf = <<>>
  BY DEF Init, Sbuf!Init
<1>3. ASSUME NEW p \in Procs PROVE proc[p].pc \in {"accept", "none", "remove"}
  <2>1. proc = [q \in Procs |-> Proc(IF q = Main THEN "accept"
                                  ELSE IF q \in Threads /\ kind = "prethreaded" THEN "remove" ELSE "none", None)]
    BY DEF Init
  <2> QED BY <2>1 DEF Proc
<1>4. Main \in Procs /\ proc[Main].pc = "accept" /\ \A c \in Clients : proc[c].pc \in {"accept", "none"}
  <2>1. proc = [q \in Procs |-> Proc(IF q = Main THEN "accept"
                                  ELSE IF q \in Threads /\ kind = "prethreaded" THEN "remove" ELSE "none", None)]
    BY DEF Init
  <2> QED BY <2>1, ServersAssumption DEF Proc, Procs, Spawned
<1>5. \A c \in Clients : cli[c].st = "new" /\ cli[c].sent = 0 /\ cli[c].got = <<>> /\ sock[c] = <<>>
  BY <1>1
<1>6. Tokens
  <2>1. \A t \in Threads : proc[t].pc \in {"none", "remove"}
    <3>1. ASSUME NEW t \in Threads PROVE proc[t].pc \in {"none", "remove"}
      <4>1. t \in Procs /\ Stands(t, proc[t].pc) /\ t # Main
        BY Record, ServersAssumption DEF Inv, Procs
      <4> QED BY <1>3, <4>1 DEF Stands
    <3> QED BY <3>1
  <2>2. ~InHand
    BY <1>4 DEF InHand
  <2>3. DOMAIN sbuf = {}
    BY <1>2
  <2> QED BY <2>1, <2>2, <2>3 DEF Tokens, Working
<1>7. ASSUME NEW c \in Clients, NEW p \in Procs PROVE ~Serves(p, c)
  BY <1>3 DEF Serves, Busy, Hearing
<1>8. Streams
  <2>1. ASSUME NEW c \in Clients PROVE StreamOf(c)
    <3>1. Pieces \in Nat
      BY ServersAssumption
    <3>2. Reached(cli[c], sock[c]) = 0
      BY <1>5 DEF Reached
    <3>3. Pieced(c, 0, 0) = <<>>
      BY PiecedNone
    <3>4. Sends(c, cli[c], sock[c])
      BY <1>5, <3>1, <3>3 DEF Sends
    <3>5. Len(cli[c].got) = 0 /\ cli[c].got = <<>>
      BY <1>5
    <3>6. Behind(Mode(c), c, cli[c], 0)
      BY <3>3, <3>5 DEF Behind, Own, Rising
    <3> QED BY <1>7, <3>2, <3>4, <3>6 DEF StreamOf
  <2> QED BY <2>1 DEF Streams
<1>9. Turns
  <2>1. ASSUME NEW c \in Clients PROVE Turn(c)
    <3>1. Len(cli[c].got) = 0 /\ cli[c].sent = 0 /\ 0 % 2 = 0
      BY <1>5
    <3>2. cli[c].sent <= Len(cli[c].got) + 2
      BY <3>1
    <3> QED BY <1>4, <1>7, <3>1, <3>2 DEF Turn
  <2> QED BY <2>1 DEF Turns
<1>10. Answers
  <2>1. ASSUME kind = "tiny", NEW c \in Clients PROVE Answer(c)
    <3>1. asks[c] \in Asks
      BY <1>1, <2>1
    <3>2. Reached(cli[c], sock[c]) = 0 /\ cli[c].got = <<>>
      BY <1>5 DEF Reached
    <3>3. PICK d \in Seq(Part) : d = Reply(asks[c])
      BY Replies
    <3>4. IsPrefix(cli[c].got, Due(asks[c]))
      <4>1. <<>> \in Seq(Part) /\ <<>> \o d = d
        BY <3>3
      <4> QED BY <3>1, <3>2, <3>3, <4>1, Beginning
    <3>5. /\ \A pcs : Serving(c, pcs) => "accept" \in pcs
          /\ proc[c].pc # "cgi"
      BY <1>4 DEF Serving
    <3>6. ~Serving(c, {"request"}) /\ ~Serving(c, {"headers"}) /\ ~Serving(c, {"reply"}) /\ ~Serving(c, {"fork"})
      BY <3>5
    <3> QED BY <3>1, <3>2, <3>4, <3>5, <3>6 DEF Answer
  <2> QED BY <2>1 DEF Answers
<1> QED BY <1>6, <1>8, <1>9, <1>10 DEF EchoInv

\* What a client has got, of a server that echoes, is the beginning of what it has sent.
LEMMA Echoed ==
  ASSUME Inv, Tokens, Streams, NEW c \in Clients
  PROVE  /\ Mode(c) = "echo" => IsPrefix(cli[c].got, Sent(c))
         /\ Mode(c) = "lossy" => /\ \A i \in DOMAIN cli[c].got : cli[c].got[i][1] = c
                                 /\ Rising(cli[c].got)
<1>1. cli[c] \in Members /\ sock[c] \in Seq(Piece) /\ StreamOf(c)
  BY DEF Inv, TypeOK, DataOK, Streams
<1>2. PICK n \in Nat, l \in Nat, g \in Nat :
        n = cli[c].sent /\ l = Len(sock[c]) /\ g = Len(cli[c].got) /\ l <= n
  BY <1>1 DEF Members, StreamOf, Sends
<1>3. PICK k \in Nat : k <= n /\ Behind(Mode(c), c, cli[c], k)
  <2>1. Reached(cli[c], sock[c]) = n - l /\ n - l \in Nat /\ n - l <= n
    BY <1>2 DEF Reached
  <2>2. CASE \A p \in Procs : ~Serves(p, c)
    BY <1>1, <2>1, <2>2 DEF StreamOf
  <2>3. ASSUME NEW p \in Procs, Serves(p, c)
        PROVE  \E k \in Nat : k <= n /\ Behind(Mode(c), c, cli[c], k)
    <3>1. Flows(Mode(c), c, cli[c], sock[c], proc[p])
      BY <1>1, <2>3 DEF StreamOf
    <3>2. proc[p].rio \in Seq(Piece) /\ proc[p].line \in Seq(Part)
      BY DEF Inv, TypeOK, Contexts
    <3>3. PICK a \in Nat, b \in Nat : a = Len(proc[p].rio) /\ b = Len(proc[p].line)
      BY <3>2
    <3>4. PICK j \in Int : j = ((n - l) - a) - b
      OBVIOUS
    <3>5. 0 <= j /\ Behind(Mode(c), c, cli[c], j)
      BY <2>1, <3>1, <3>3, <3>4 DEF Flows
    <3>6. j \in Nat /\ j <= n
      <4>1. n - l <= n
        BY <1>2
      <4> QED BY <3>4, <3>5, <4>1
    <3> QED BY <3>5, <3>6
  <2> QED BY <2>2, <2>3
<1>4. ASSUME Mode(c) = "echo" PROVE IsPrefix(cli[c].got, Sent(c))
  <2>1. g <= k /\ cli[c].got = Pieced(c, 0, g)
    BY <1>2, <1>3, <1>4 DEF Behind
  <2>2. Sent(c) = Pieced(c, 0, n)
    <3>1. \A i \in 1..n : 0 + i = i
      OBVIOUS
    <3> QED BY <1>2, <3>1 DEF Sent, Pieced
  <2>3. g \in 0..n /\ 0 \in Nat
    BY <1>3, <2>1
  <2>4. SubSeq(Pieced(c, 0, n), 1, g) = Pieced(c, 0, g) /\ SubSeq(Pieced(c, 0, g), 1, g) = Pieced(c, 0, g)
    <3>1. g \in 0..g
      OBVIOUS
    <3> QED BY <2>3, <3>1, PiecedParts
  <2>5. Len(Pieced(c, 0, n)) = n
    BY <2>3, PiecedLen
  <2>6. Len(cli[c].got) = g /\ g <= n
    BY <1>2, <2>3
  <2> QED BY <2>1, <2>2, <2>4, <2>5, <2>6 DEF IsPrefix
<1>5. ASSUME Mode(c) = "lossy"
      PROVE  (\A i \in DOMAIN cli[c].got : cli[c].got[i][1] = c) /\ Rising(cli[c].got)
  <2>1. Own(c, k, cli[c].got) /\ Rising(cli[c].got)
    BY <1>3, <1>5 DEF Behind
  <2>2. DOMAIN cli[c].got = 1..Len(cli[c].got)
    BY <1>1 DEF Members
  <2>3. ASSUME NEW i \in 1..Len(cli[c].got) PROVE cli[c].got[i][1] = c
    <3>1. PICK j \in 1..k : cli[c].got[i] = <<c, j>>
      BY <2>1 DEF Own
    <3> QED BY <3>1
  <2> QED BY <2>1, <2>2, <2>3
<1> QED BY <1>4, <1>5

\* A client gets its own lines back, each once and in order, of the servers that
\* echo, and of tiny the response to what it asked; the server driven by select
\* loses lines only of a client that does not wait (echo.c, echoservers.c, tiny.c).
THEOREM OwnAnswers == Spec => []Echoes
<1>1. Init => Inv /\ EchoInv
  BY Starting, EchoStarts
<1>2. Inv /\ EchoInv /\ [Next]_vars => (Inv /\ EchoInv)'
  BY Stepping, TokensStep, StreamsStep, TurnsStep, AnswersStep DEF EchoInv
<1>3. Inv /\ EchoInv => Echoes
  <2> SUFFICES ASSUME Inv, EchoInv, NEW c \in Clients
               PROVE  CASE kind = "select" /\ c \in eager ->
                             /\ \A i \in DOMAIN cli[c].got : cli[c].got[i][1] = c
                             /\ \A i, j \in DOMAIN cli[c].got : i < j => cli[c].got[i][2] < cli[c].got[j][2]
                        [] kind = "tiny" /\ cli[c].sent > 1 -> IsPrefix(cli[c].got, Due(asks[c]))
                        [] kind = "tiny" /\ cli[c].sent <= 1 -> cli[c].got = <<>>
                        [] OTHER -> IsPrefix(cli[c].got, Sent(c))
    BY DEF Echoes
  <2>1. CASE kind = "tiny"
    <3>1. Answer(c)
      BY <2>1 DEF EchoInv, Answers
    <3>2. IsPrefix(cli[c].got, Due(asks[c])) /\ (cli[c].sent <= 1 => cli[c].got = <<>>)
      BY <3>1 DEF Answer
    <3>3. kind # "select" /\ (cli[c].sent > 1 <=> ~(cli[c].sent <= 1))
      <4>1. cli[c].sent \in Nat
        BY DEF Inv, TypeOK, DataOK, Members
      <4> QED BY <2>1, <4>1
    <3> QED BY <2>1, <3>2, <3>3, Zenon
  <2>2. CASE kind = "select" /\ c \in eager
    <3>1. kind # "tiny"
      BY <2>2
    <3>2. (\A i \in DOMAIN cli[c].got : cli[c].got[i][1] = c) /\ Rising(cli[c].got)
      BY <2>2, <3>1, Echoed DEF Mode, EchoInv
    <3>3. DOMAIN cli[c].got = 1..Len(cli[c].got)
      BY DEF Inv, TypeOK, DataOK, Members
    <3>4. \A i, j \in DOMAIN cli[c].got : i < j => cli[c].got[i][2] < cli[c].got[j][2]
      BY <3>2, <3>3 DEF Rising
    <3> QED BY <2>2, <3>1, <3>2, <3>4, Zenon
  <2>3. CASE kind # "tiny" /\ ~(kind = "select" /\ c \in eager)
    <3>1. IsPrefix(cli[c].got, Sent(c))
      BY <2>3, Echoed DEF Mode, EchoInv
    <3> QED BY <2>3, <3>1, Zenon
  <2> QED BY <2>1, <2>2, <2>3
<1> QED BY <1>1, <1>2, <1>3, PTL DEF Spec

-----------------------------------------------------------------------------
(***************************************************************************)
(* Who has the connections of main's process.                              *)
(***************************************************************************)
Resting == {"accept", "none", "remove", "check"}
Kept(fd) ==
  IF kind = "select" THEN \E j \in SlotNumbers : pool.clientfd[j] = fd
  ELSE (\E p \in Procs : Process(p) = Main /\ Keeps(p, fd)) \/ Queued(fd)

\* No connection is without one who has it.  This needs that who rests has none, for
\* a parent that closes forgets what it had, and that a child has no connection but
\* its own, which it has since the parent had no other to copy.
Owns ==
  /\ \A fd \in Fd : Open(fd) => Kept(fd)
  /\ \A p \in Procs : proc[p].pc \in Resting => proc[p].fd = None
  /\ \A c \in Clients, f \in Fd : files[c][f] \in {c, None}
  /\ kind # "prethreaded" => sbuf = <<>>

LEMMA OwnsStill ==
  ASSUME Owns, UNCHANGED kind, sbuf' = sbuf \/ kind = "prethreaded",
         \A fd \in Fd : Open(fd)' => Kept(fd)',
         \A p \in Procs : proc'[p] = proc[p] \/ (proc'[p].pc \in Resting => proc'[p].fd = None),
         \A c \in Clients, f \in Fd : files'[c][f] \in {c, None}
  PROVE  Owns'
BY DEF Owns

LEMMA KeptStill ==
  ASSUME Owns, UNCHANGED <<kind, sbuf>>, NEW fd \in Fd, Open(fd),
         kind # "select" => \A p \in Procs : Process(p) = Main /\ Keeps(p, fd) => Keeps(p, fd)',
         kind = "select" => \A j \in SlotNumbers : pool.clientfd[j] = fd => pool'.clientfd[j] = fd
  PROVE  Kept(fd)'
BY DEF Owns, Kept, Queued, Process

LEMMA KeepsSame ==
  ASSUME NEW p, NEW fd, UNCHANGED <<kind, taken>>, cell' = cell, proc'[p] = proc[p], Keeps(p, fd)
  PROVE  Keeps(p, fd)'
BY DEF Keeps

\* One goes on with what it has.
LEMMA OwnsGo ==
  ASSUME Owns, UNCHANGED <<kind, files, sbuf, cell, taken>>, pool'.clientfd = pool.clientfd,
         \A q \in Procs : \/ proc'[q] = proc[q]
                          \/ /\ kind = "select" \/ \A fd \in Fd : Keeps(q, fd) => Keeps(q, fd)'
                             /\ proc'[q].pc \in Resting => proc'[q].fd = None
  PROVE  Owns'
<1>1. ASSUME NEW fd \in Fd, Open(fd)' PROVE Kept(fd)'
  <2>1. Open(fd)
    BY <1>1 DEF Open
  <2>2. kind # "select" => \A p \in Procs : Keeps(p, fd) => Keeps(p, fd)'
    BY KeepsSame
  <2> QED BY <2>1, <2>2, KeptStill
<1>2. \A c \in Clients, f \in Fd : files'[c][f] \in {c, None}
  BY DEF Owns
<1> QED BY <1>1, <1>2, OwnsStill

\* One, p, goes on with its descriptor.
LEMMA OwnsOn ==
  ASSUME Owns, UNCHANGED <<kind, files, sbuf, cell, taken>>, pool'.clientfd = pool.clientfd,
         NEW p \in Procs, proc'[p].fd = proc[p].fd, proc[p].pc \notin {"start", "once"} \cup Resting,
         proc'[p].pc \notin {"start", "once"} \cup Resting,
         \A q \in Procs : q # p => proc'[q] = proc[q]
  PROVE  Owns'
<1>1. \A fd : Keeps(p, fd) => Keeps(p, fd)'
  BY DEF Keeps
<1> QED BY <1>1, OwnsGo

\* One, p, closes what it has.
LEMMA OwnsLeave ==
  ASSUME Owns, kind # "select", UNCHANGED <<kind, sbuf, cell, taken>>, NEW p \in Procs,
         proc'[p].fd = None, \A q \in Procs : q # p => proc'[q] = proc[q],
         \A fd \in Fd : Open(fd)' => Open(fd) /\ (Process(p) = Main => ~Keeps(p, fd)),
         \A c \in Clients, f \in Fd : files'[c][f] \in {c, None}
  PROVE  Owns'
<1>1. ASSUME NEW fd \in Fd, Open(fd)' PROVE Kept(fd)'
  <2>1. Open(fd) /\ (Process(p) = Main => ~Keeps(p, fd))
    BY <1>1
  <2>2. ASSUME NEW q \in Procs, Process(q) = Main, Keeps(q, fd) PROVE Keeps(q, fd)'
    <3>1. q # p
      BY <2>1, <2>2
    <3> QED BY <2>2, <3>1, KeepsSame
  <2> QED BY <2>1, <2>2, KeptStill
<1> QED BY <1>1, OwnsStill

-----------------------------------------------------------------------------
(* main *)

LEMMA OwnsAccept ==
  ASSUME Inv, Owns, Accept PROVE Owns'
<1>1. /\ kind # "select" /\ proc[Main].pc = "accept" /\ UNCHANGED <<kind, sbuf, taken>>
      /\ proc'[Main].pc = Accepting /\ \A q \in Procs : q # Main => proc'[q] = proc[q]
      /\ \A q \in Spawned : files'[q] = files[q]
  BY AcceptDoes DEF Accept, fixed, buffer
<1>2. PICK d \in Fd : /\ proc'[Main].fd = d
                      /\ \A f \in Fd : f # d => files'[Main][f] = files[Main][f]
  BY AcceptDoes
<1>3. Head(backlog) \in Clients /\ Waits(Head(backlog))
  BY TableAccepts DEF Accept, Inv, client
<1>4. PICK h \in Clients : h = Head(backlog) /\ proc[h].pc = "none"
  BY <1>3 DEF Inv, Hands, Idle, Fresh
<1>5. \A p \in Procs : proc[p].pc = "start" => cell'[p] = cell[p]
  <2>1. cell' = cell \/ cell' = [cell EXCEPT ![h] = Connfd]
    BY <1>4 DEF Accept
  <2>2. \A p \in Procs : proc[p].pc = "start" => p \in Spawned
    BY Record DEF Inv, Stands
  <2>3. cell \in [{Main} \cup Spawned -> Fd \cup {None}]
    BY DEF Inv, TypeOK, DataOK
  <2> QED BY <1>4, <2>1, <2>2, <2>3
<1>6. Accepting \notin {"start", "once"} \cup Resting
  BY <1>1 DEF Accepting, Inv, Shape, Names, Resting
<1>7. Main \in Procs /\ None \notin Fd /\ Spawned = Clients
  BY ServersAssumption DEF Procs, Spawned
<1>8. ASSUME NEW fd \in Fd, Open(fd)' PROVE Kept(fd)'
  <2>1. CASE fd = d
    <3>1. Keeps(Main, fd)' /\ (Process(Main) = Main)'
      BY <1>1, <1>2, <1>6, <2>1 DEF Keeps, Process
    <3> QED BY <1>1, <1>7, <3>1 DEF Kept
  <2>2. CASE fd # d
    <3>1. Open(fd)
      BY <1>2, <1>8, <2>2 DEF Open
    <3>2. ASSUME NEW p \in Procs, Keeps(p, fd) PROVE Keeps(p, fd)'
      <4>1. p # Main
        BY <1>1, <1>7, <3>2 DEF Keeps, Owns, Resting
      <4> QED BY <1>1, <1>5, <3>2, <4>1 DEF Keeps
    <3> QED BY <1>1, <3>1, <3>2, KeptStill
  <2> QED BY <2>1, <2>2
<1>9. \A c \in Clients, f \in Fd : files'[c][f] \in {c, None}
  BY <1>1, <1>7 DEF Owns
<1> QED BY <1>1, <1>6, <1>8, <1>9, OwnsStill

\* Where main has one connection at a time, it has no other.
LEMMA OnlyOne ==
  ASSUME Inv, Owns, kind \in {"process", "tiny"}, NEW fd \in Fd, Open(fd) PROVE fd = proc[Main].fd
<1>1. ~Queued(fd)
  BY DEF Owns, Queued
<1>2. PICK p \in Procs : Process(p) = Main /\ Keeps(p, fd)
  BY <1>1 DEF Owns, Kept
<1> QED BY <1>2 DEF Process, Keeps

LEMMA OwnsCopies ==
  ASSUME Inv, Owns, kind \in {"process", "tiny"}, proc[Main].pc \in ToGive,
         NEW fd \in Fd, fd = proc[Main].fd, NEW c \in Clients, c = files[Main][fd],
         NEW a \in Pcs \ Resting, NEW b \in Pcs \ Resting, Copied(c, fd, a, b),
         UNCHANGED <<kind, sbuf>>
  PROVE  Owns'
<1>1. /\ proc'[c].pc = a /\ proc'[Main].pc = b /\ proc'[Main].fd = fd
      /\ \A q \in Procs : q # Main /\ q # c => proc'[q] = proc[q]
      /\ files'[Main] = files[Main] /\ \A d \in Clients : d # c => files'[d] = files[d]
  BY CopyDoes
<1>2. files'[c] = files[Main]
  BY DEF Copied, Inv, TypeOK, Spawned
<1>3. Main \in Procs
  BY DEF Procs
<1>4. ASSUME NEW f \in Fd, Open(f)' PROVE Kept(f)'
  <2>1. f = fd
    BY <1>1, <1>4, OnlyOne DEF Open
  <2>2. Keeps(Main, f)' /\ (Process(Main) = Main)' /\ (kind # "select")'
    BY <1>1, <2>1 DEF Keeps, Process
  <2> QED BY <1>3, <2>2 DEF Kept
<1>5. ASSUME NEW d \in Clients, NEW f \in Fd PROVE files'[d][f] \in {d, None}
  <2>1. CASE d = c
    <3>1. files[Main][f] # None => f = fd
      BY OnlyOne DEF Open
    <3> QED BY <1>2, <2>1, <3>1
  <2>2. CASE d # c
    BY <1>1, <2>2 DEF Owns
  <2> QED BY <2>1, <2>2
<1>6. \A p \in Procs : proc'[p] = proc[p] \/ (proc'[p].pc \in Resting => proc'[p].fd = None)
  BY <1>1
<1> QED BY <1>4, <1>5, <1>6, OwnsStill

\* Fork and ForkCGI.
LEMMA OwnsForks ==
  ASSUME Inv, Owns, NEW p \in Procs, NEW c \in Clients, Fork \/ (Peer(p, c) /\ ForkCGI(p, c))
  PROVE  Owns'
<1>1. PICK a \in Pcs \ Resting, b \in Pcs \ Resting :
        \/ Fork /\ a = "read" /\ b = "forked"
        \/ Peer(p, c) /\ ForkCGI(p, c) /\ a = "cgi" /\ b = "wait"
  BY DEF Pcs, Resting
<1>2. /\ kind \in {"process", "tiny"} /\ proc[Main].pc \in ToGive /\ UNCHANGED <<kind, sbuf>>
      /\ p = Main \/ Fork
  <2>1. CASE Fork
    BY <2>1, MainRecord DEF Inv, Stands, Fork, At, ToGive, fixed, buffer
  <2>2. CASE ForkCGI(p, c)
    BY <2>2, Record DEF Inv, Stands, ForkCGI, At, ToGive, fixed, buffer
  <2> QED BY <1>1, <2>1, <2>2
<1>3. PICK fd \in Fd : fd = proc[Main].fd /\ files[Main][fd] # None
  BY <1>2 DEF Inv, Hands, Works, InHand, Open, ToGive
<1>4. PICK d \in Clients : d = files[Main][fd]
  BY <1>3 DEF Inv, TypeOK
<1>5. Copied(d, fd, a, b)
  <2>1. CASE Fork /\ a = "read" /\ b = "forked"
    BY <1>3, <1>4, <2>1 DEF Fork, Copied
  <2>2. CASE Peer(p, c) /\ ForkCGI(p, c) /\ a = "cgi" /\ b = "wait"
    <3>1. p = Main
      BY <2>2, Record DEF Inv, Stands, ForkCGI, At
    <3>2. c = d
      BY <1>2, <1>3, <1>4, <2>2, <3>1 DEF Peer, Conn, Process
    <3> QED BY <1>3, <2>2, <3>1, <3>2 DEF ForkCGI, Copied
  <2> QED BY <1>1, <2>1, <2>2
<1> QED BY <1>2, <1>3, <1>4, <1>5, OwnsCopies

LEMMA OwnsCreate ==
  ASSUME Inv, Owns, Pthread_create PROVE Owns'
<1>1. /\ proc[Main].pc = "thread" /\ kind = "thread" /\ UNCHANGED <<kind, files, sbuf, cell, taken>>
  BY MainRecord DEF Inv, Stands, Pthread_create, At, fixed, buffer
<1>2. PICK fd \in Fd : fd = proc[Main].fd /\ files[Main][fd] # None
  BY <1>1 DEF Inv, Hands, Works, InHand, Open
<1>3. PICK c \in Clients : c = files[Main][fd]
  BY <1>2 DEF Inv, TypeOK
<1>4. cell[c] = fd /\ proc[c].pc = "none"
  BY <1>1, <1>2, <1>3 DEF Inv, Hands, Given, Idle, Fresh, ToGive
<1>5. /\ proc'[c].pc = "start" /\ proc'[Main].pc = "accept" /\ proc'[Main].fd = None
      /\ \A q \in Procs : q # Main /\ q # c => proc'[q] = proc[q]
  <2>1. /\ Main \in Procs /\ c \in Procs /\ c # Main /\ proc \in [Procs -> Contexts]
    BY MainRecord DEF Inv, TypeOK
  <2>2. proc' = [proc EXCEPT ![c].pc = "start", ![Main] = Proc("accept", None)]
    BY <1>2, <1>3 DEF Pthread_create
  <2> QED BY <2>1, <2>2 DEF Proc, Contexts
<1>6. None \notin Fd /\ c \in Procs
  BY ServersAssumption DEF Procs, Spawned
<1>7. ASSUME NEW f \in Fd, Open(f)' PROVE Kept(f)'
  <2>1. Open(f)
    BY <1>1, <1>7 DEF Open
  <2>2. CASE f = fd
    <3>1. Keeps(c, f)' /\ (Process(c) = Main)' /\ (kind # "select")'
      BY <1>1, <1>4, <1>5, <2>2 DEF Keeps, Process
    <3> QED BY <1>6, <3>1 DEF Kept
  <2>3. CASE f # fd
    <3>1. ASSUME NEW q \in Procs, Keeps(q, f) PROVE Keeps(q, f)'
      <4>1. q # Main
        BY <1>1, <1>2, <2>3, <3>1 DEF Keeps
      <4>2. q # c
        BY <1>4, <1>6, <3>1 DEF Keeps, Owns, Resting
      <4> QED BY <1>1, <1>5, <3>1, <4>1, <4>2, KeepsSame
    <3> QED BY <1>1, <2>1, <3>1, KeptStill
  <2> QED BY <2>2, <2>3
<1>8. \A d \in Clients, f \in Fd : files'[d][f] \in {d, None}
  BY <1>1 DEF Owns
<1>9. \A p \in Procs : proc'[p] = proc[p] \/ (proc'[p].pc \in Resting => proc'[p].fd = None)
  BY <1>5 DEF Resting
<1> QED BY <1>1, <1>7, <1>8, <1>9, OwnsStill


LEMMA OwnsInsert ==
  ASSUME Inv, Owns, sbuf_insert PROVE Owns'
<1>1. /\ proc[Main].pc = "prethreaded" /\ kind = "prethreaded" /\ UNCHANGED <<kind, files, cell, taken>>
      /\ sbuf' = Append(sbuf, proc[Main].fd)
  BY MainRecord DEF Inv, Stands, sbuf_insert, Sbuf!Put, At, fixed
<1>2. proc'[Main].fd = None /\ \A q \in Procs : q # Main => proc'[q] = proc[q]
  BY MainRecord DEF Inv, TypeOK, sbuf_insert, Proc
<1>3. ASSUME NEW fd \in Fd, Open(fd)' PROVE Kept(fd)'
  <2>1. Open(fd)
    BY <1>1, <1>3 DEF Open
  <2>2. \/ \E p \in Procs : Process(p) = Main /\ Keeps(p, fd)
        \/ Queued(fd)
    BY <1>1, <2>1 DEF Owns, Kept
  <2>3. sbuf \in Seq(Fd \cup {None}) /\ proc[Main].fd \in Fd \cup {None}
    BY MainRecord DEF Inv, TypeOK, DataOK
  <2>4. CASE Queued(fd)
    <3>1. Queued(fd)'
      BY <1>1, <2>3, <2>4 DEF Queued
    <3> QED BY <1>1, <3>1 DEF Kept
  <2>5. ASSUME NEW p \in Procs, Process(p) = Main, Keeps(p, fd) PROVE Kept(fd)'
    <3>1. CASE p = Main
      <4>1. fd = proc[Main].fd
        BY <1>1, <2>5, <3>1 DEF Keeps
      <4>2. Queued(fd)'
        <5>1. Len(sbuf) \in Nat /\ DOMAIN sbuf' = 1..Len(sbuf) + 1 /\ sbuf'[Len(sbuf) + 1] = fd
          BY <1>1, <2>3, <4>1
        <5> QED BY <5>1 DEF Queued
      <4> QED BY <1>1, <4>2 DEF Kept
    <3>2. CASE p # Main
      BY <1>1, <1>2, <2>5, <3>2, KeepsSame DEF Kept, Process
    <3> QED BY <3>1, <3>2
  <2> QED BY <2>2, <2>4, <2>5
<1>4. \A c \in Clients, f \in Fd : files'[c][f] \in {c, None}
  BY <1>1 DEF Owns
<1>5. \A p \in Procs : proc'[p] = proc[p] \/ (proc'[p].pc \in Resting => proc'[p].fd = None)
  BY <1>2
<1> QED BY <1>1, <1>3, <1>4, <1>5, OwnsStill

-----------------------------------------------------------------------------
(* Threads, and the pool *)

LEMMA OwnsRemove ==
  ASSUME Inv, Owns, NEW t \in Threads, sbuf_remove(t) PROVE Owns'
<1>1. /\ proc[t].pc = "remove" /\ UNCHANGED <<kind, files, cell>> /\ sbuf # <<>>
      /\ sbuf' = Tail(sbuf) /\ taken' = [taken EXCEPT ![t] = Head(sbuf)]
      /\ proc' = [proc EXCEPT ![t].pc = "once"]
  BY DEF sbuf_remove, Sbuf!Get, At, Goto, fixed
<1>2. t \in Procs /\ kind = "prethreaded"
  BY <1>1, Worker
<1>3. /\ sbuf \in Seq(Fd \cup {None}) /\ taken \in [Threads -> Fd \cup {None}]
      /\ proc \in [Procs -> Contexts]
  BY DEF Inv, TypeOK, DataOK
<1>4. /\ proc'[t].pc = "once" /\ proc'[t].fd = proc[t].fd /\ taken'[t] = Head(sbuf)
      /\ \A q \in Procs : q # t => proc'[q] = proc[q] /\ (q \in Threads => taken'[q] = taken[q])
  BY <1>1, <1>2, <1>3 DEF Contexts
<1>5. \A q \in Procs : proc[q].pc = "once" => q \in Threads
  BY Record DEF Inv, Stands
<1>6. ASSUME NEW fd \in Fd, Open(fd)' PROVE Kept(fd)'
  <2>1. Open(fd)
    BY <1>1, <1>6 DEF Open
  <2>2. \/ \E p \in Procs : Process(p) = Main /\ Keeps(p, fd)
        \/ Queued(fd)
    BY <1>2, <2>1 DEF Owns, Kept
  <2>3. ASSUME NEW p \in Procs, Process(p) = Main, Keeps(p, fd) PROVE Kept(fd)'
    <3>1. p # t
      BY <1>1, <2>3, ServersAssumption DEF Keeps, Owns, Resting
    <3>2. Keeps(p, fd)'
      BY <1>1, <1>2, <1>4, <1>5, <2>3, <3>1 DEF Keeps
    <3> QED BY <1>1, <1>2, <2>3, <3>2 DEF Kept, Process
  <2>4. ASSUME NEW i \in DOMAIN sbuf, sbuf[i] = fd PROVE Kept(fd)'
    <3>1. CASE i = 1
      <4>1. Keeps(t, fd)'
        BY <1>1, <1>2, <1>4, <2>4, <3>1 DEF Keeps
      <4> QED BY <1>1, <1>2, <4>1 DEF Kept, Process
    <3>2. CASE i # 1
      <4>1. i - 1 \in DOMAIN sbuf' /\ sbuf'[i - 1] = fd
        BY <1>1, <1>3, <2>4, <3>2
      <4> QED BY <1>1, <1>2, <4>1 DEF Kept, Queued
    <3> QED BY <3>1, <3>2
  <2> QED BY <2>2, <2>3, <2>4 DEF Queued
<1>7. \A c \in Clients, f \in Fd : files'[c][f] \in {c, None}
  BY <1>1 DEF Owns
<1>8. \A p \in Procs : proc'[p] = proc[p] \/ (proc'[p].pc \in Resting => proc'[p].fd = None)
  BY <1>4 DEF Resting
<1> QED BY <1>1, <1>2, <1>6, <1>7, <1>8, OwnsStill

LEMMA OwnsSelect ==
  ASSUME Inv, Owns, Select PROVE Owns'
<1> DEFINE ready == {f \in pool.read_set : Readable(files[Main][f])}
           new == IF backlog = <<>> THEN 0 ELSE 1
           s == [pool EXCEPT !.ready_set = ready, !.nready = Cardinality(ready) + new, !.i = 0]
<1>1. /\ proc[Main].pc = "accept" /\ kind = "select" /\ UNCHANGED <<kind, sbuf, cli>>
      /\ \/ backlog # <<>> /\ backlog' = Tail(backlog) /\ files' = Accepted /\ pool' = add_client(Connfd, s)
         \/ pool' = s /\ UNCHANGED <<backlog, files>>
      /\ proc' = [proc EXCEPT ![Main].pc = "check"]
  BY DEF Select, At, Goto, fixed, client, buffer
<1>2. Main \in Procs /\ proc \in [Procs -> Contexts] /\ pool \in Pools
  BY MainRecord DEF Inv, TypeOK
<1>3. DOMAIN s = DOMAIN pool /\ s.clientfd = pool.clientfd
  BY <1>2 DEF Pools
<1> HIDE DEF s
<1>4. \A p \in Procs : proc'[p] = proc[p] \/ (proc'[p].pc \in Resting => proc'[p].fd = None)
  <2>1. proc[Main].fd = None
    BY <1>1, <1>2 DEF Owns, Resting
  <2> QED BY <1>1, <1>2, <2>1 DEF Contexts
<1>5. CASE pool' = s /\ UNCHANGED <<backlog, files>>
  <2>1. \A fd \in Fd : Open(fd)' => Kept(fd)'
    BY <1>1, <1>3, <1>5, KeptStill DEF Open
  <2>2. \A c \in Clients, f \in Fd : files'[c][f] \in {c, None}
    BY <1>5 DEF Owns
  <2> QED BY <1>1, <1>4, <2>1, <2>2, OwnsStill
<1>6. CASE /\ backlog # <<>> /\ backlog' = Tail(backlog) /\ files' = Accepted
           /\ pool' = add_client(Connfd, s)
  <2>1. PICK d \in Fd : d = Connfd /\ \A f \in Fd : f # d => files'[Main][f] = files[Main][f]
    BY <1>1, <1>6, TableAccepts DEF Inv
  <2>2. \A p \in Spawned : files'[p] = files[p]
    BY <1>1, <1>6, TableAccepts DEF Inv
  <2>3. PICK i \in SlotNumbers : /\ pool.clientfd[i] = None
                                 /\ i = Min({j \in SlotNumbers : pool.clientfd[j] = None})
    BY <1>1, <1>6, SlotLeft DEF Inv
  <2>4. DOMAIN s.clientfd = SlotNumbers /\ s.clientfd \in [SlotNumbers -> Fd \cup {None}]
    BY <1>2, <1>3 DEF Pools
  <2>5. pool' = [s EXCEPT !.nready = @ - 1, !.clientfd[i] = d, !.read_set = @ \cup {d},
                          !.maxi = IF i > @ THEN i ELSE @]
    BY <1>3, <1>6, <2>1, <2>3, <2>4 DEF add_client
  <2>6. pool'.clientfd = [s.clientfd EXCEPT ![i] = d]
    BY <1>2, <1>3, <2>5 DEF Pools
  <2>7. pool'.clientfd[i] = d /\ \A j \in SlotNumbers : j # i => pool'.clientfd[j] = pool.clientfd[j]
    BY <1>3, <2>4, <2>6
  <2>8. ASSUME NEW fd \in Fd, Open(fd)' PROVE Kept(fd)'
    <3>1. CASE fd = d
      BY <1>1, <2>3, <2>7, <3>1 DEF Kept
    <3>2. CASE fd # d
      <4>1. Open(fd)
        BY <2>1, <2>8, <3>2 DEF Open
      <4>2. PICK j \in SlotNumbers : pool.clientfd[j] = fd
        BY <1>1, <4>1 DEF Owns, Kept
      <4>3. j # i
        BY <2>3, <4>2, ServersAssumption
      <4> QED BY <1>1, <2>7, <4>2, <4>3 DEF Kept
    <3> QED BY <3>1, <3>2
  <2>9. \A c \in Clients, f \in Fd : files'[c][f] \in {c, None}
    BY <2>2 DEF Owns, Spawned
  <2> QED BY <1>1, <1>4, <2>8, <2>9, OwnsStill
<1> QED BY <1>1, <1>5, <1>6

LEMMA OwnsCheck ==
  ASSUME Inv, Owns, check_clients PROVE Owns'
<1>1. /\ kind = "select" /\ proc[Main].pc = "check" /\ UNCHANGED <<kind, files, sbuf, cell, taken>>
      /\ \A q \in Procs : q # Main => proc'[q] = proc[q]
      /\ proc'[Main].pc \in {"accept", "read"}
  BY CheckDoes DEF check_clients, fixed, buffer
<1>2. /\ \/ proc' = [proc EXCEPT ![Main].pc = "accept"]
         \/ \E fd : proc' = [proc EXCEPT ![Main] = Proc("read", fd)]
      /\ pool'.clientfd = pool.clientfd
  <2>1. pool \in Pools
    BY DEF Inv, TypeOK
  <2> QED BY <2>1 DEF check_clients, Goto, Pools
<1>3. proc'[Main].pc \in Resting => proc'[Main].fd = None
  <2>1. Main \in Procs /\ proc \in [Procs -> Contexts] /\ proc[Main].fd = None
    BY <1>1, MainRecord DEF Owns, Resting, Inv, TypeOK
  <2> QED BY <1>2, <2>1 DEF Resting, Proc, Contexts
<1> QED BY <1>1, <1>2, <1>3, OwnsGo


LEMMA OwnsClose ==
  ASSUME Inv, Owns, NEW p \in Procs, NEW c \in Clients, Close(p, c) PROVE Owns'
<1>1. /\ proc[p].pc = "read" /\ files' = [files EXCEPT ![Process(p)][proc[p].fd] = None]
      /\ UNCHANGED <<kind, sbuf, cell, taken>> /\ Stands(p, proc[p].pc) /\ proc[p].fd \in Fd \cup {None}
  BY Record DEF Close, At, fixed, buffer, Inv
<1>2. /\ proc'[p].fd = None /\ \A q \in Procs : q # p => proc'[q] = proc[q]
  <2>1. proc \in [Procs -> Contexts] /\ \E next : proc' = [proc EXCEPT ![p] = Proc(next, None)]
    BY DEF Close, Inv, TypeOK
  <2> QED BY <2>1 DEF Proc
<1>3. files \in [{Main} \cup Spawned -> [Fd -> Clients \cup {None}]] /\ Spawned = Clients /\ None \notin Fd
  BY ServersAssumption DEF Inv, TypeOK, Spawned
<1>4. Process(p) \in {Main} \cup Spawned
  BY <1>1 DEF Process, Stands
<1>5. \A d \in Clients, f \in Fd : files'[d][f] \in {d, None}
  BY <1>1, <1>3, <1>4 DEF Owns
<1>6. ASSUME NEW fd \in Fd, Open(fd)'
      PROVE  Open(fd) /\ (Process(p) = Main => fd # proc[p].fd)
  BY <1>1, <1>3, <1>4, <1>6 DEF Open
<1>7. CASE kind # "select"
  <2>1. \A fd \in Fd : Keeps(p, fd) => fd = proc[p].fd
    BY <1>1 DEF Keeps
  <2> QED BY <1>1, <1>2, <1>5, <1>6, <1>7, <2>1, OwnsLeave
<1>8. CASE kind = "select"
  <2>1. p = Main /\ Process(p) = Main /\ InHand
    BY <1>1, <1>8 DEF Stands, Process, InHand
  <2>2. /\ pool.i \in SlotNumbers /\ pool.clientfd[pool.i] = proc[Main].fd
        /\ pool.clientfd \in [SlotNumbers -> Fd \cup {None}]
    BY <1>8, <2>1 DEF Inv, Slots, TypeOK, Pools
  <2>3. pool'.clientfd = [pool.clientfd EXCEPT ![pool.i] = None]
    BY <1>8 DEF Close, Inv, TypeOK, Pools
  <2>4. ASSUME NEW fd \in Fd, Open(fd)' PROVE Kept(fd)'
    <3>1. PICK j \in SlotNumbers : pool.clientfd[j] = fd
      BY <1>6, <1>8, <2>4 DEF Owns, Kept
    <3>2. j # pool.i
      BY <1>6, <2>1, <2>2, <2>4, <3>1
    <3>3. pool'.clientfd[j] = fd
      BY <2>2, <2>3, <3>1, <3>2
    <3> QED BY <1>1, <1>8, <3>3 DEF Kept
  <2> QED BY <1>1, <1>2, <1>5, <2>4, OwnsStill
<1> QED BY <1>7, <1>8

\* The parent closes the connection: ParentClose and CloseConn.
LEMMA OwnsParentClose ==
  ASSUME Inv, Owns, NEW p \in Procs, ParentClose \/ CloseConn(p) PROVE Owns'
<1>1. /\ kind \in {"process", "tiny"} /\ proc[Main].pc \in {"forked", "finish"}
      /\ files' = [files EXCEPT ![Main][proc[Main].fd] = None]
      /\ proc' = [proc EXCEPT ![Main] = Proc("accept", None)]
      /\ UNCHANGED <<kind, sbuf, cell, taken>>
  <2>1. CASE ParentClose
    BY <2>1, MainRecord DEF ParentClose, At, fixed, buffer, Inv, Stands
  <2>2. CASE CloseConn(p)
    <3>1. p = Main /\ kind = "tiny"
      BY <2>2, Record DEF CloseConn, At, Inv, Stands
    <3> QED BY <2>2, <3>1 DEF CloseConn, At, fixed, buffer
  <2> QED BY <2>1, <2>2
<1>2. /\ files \in [{Main} \cup Spawned -> [Fd -> Clients \cup {None}]] /\ Spawned = Clients
      /\ Main \notin Clients /\ Main \in Procs /\ proc \in [Procs -> Contexts]
  BY ServersAssumption DEF Inv, TypeOK, Spawned, Procs
<1>3. proc'[Main].fd = None /\ \A q \in Procs : q # Main => proc'[q] = proc[q]
  BY <1>1, <1>2 DEF Proc
<1>4. \A d \in Clients, f \in Fd : files'[d][f] \in {d, None}
  BY <1>1, <1>2 DEF Owns
<1>5. \A fd \in Fd : Open(fd)' => Open(fd) /\ ~Keeps(Main, fd)
  BY <1>1, <1>2 DEF Open, Keeps
<1> QED BY <1>1, <1>2, <1>3, <1>4, <1>5, OwnsLeave

\* A thread that starts, or is initialised, finds its connection where it was left.
LEMMA OwnsBegins ==
  ASSUME Inv, Owns, NEW p \in Procs, (p \in Spawned /\ Start(p)) \/ (p \in Threads /\ init_echo_cnt(p))
  PROVE  Owns'
<1>1. /\ UNCHANGED <<kind, files, sbuf, cell, taken, pool>>
      /\ \A q \in Procs : q # p => proc'[q] = proc[q]
      /\ proc'[p].pc = "read"
      /\ \/ kind = "thread" /\ proc[p].pc = "start" /\ proc'[p].fd = cell[p]
         \/ kind = "prethreaded" /\ proc[p].pc = "once" /\ proc'[p].fd = taken[p]
  <2>1. proc \in [Procs -> Contexts]
    BY DEF Inv, TypeOK
  <2>2. CASE p \in Spawned /\ Start(p)
    BY <2>1, <2>2, Record DEF Start, At, Proc, fixed, buffer, Inv, Stands
  <2>3. CASE p \in Threads /\ init_echo_cnt(p)
    BY <2>3, OnceDoes DEF init_echo_cnt, fixed, buffer
  <2> QED BY <2>2, <2>3
<1>2. \A fd \in Fd : Keeps(p, fd) => Keeps(p, fd)'
  BY <1>1 DEF Keeps
<1> QED BY <1>1, <1>2, OwnsGo DEF Resting

\* The steps of one with its connection.
LEMMA OwnsWork ==
  ASSUME Inv, Owns, NEW p \in Procs, NEW c \in Clients,
         \/ Read(p, c) \/ Line(p, c) \/ Write(p, c)
         \/ p \in Threads /\ (Lock(p) \/ Unlock(p))
  PROVE  Owns'
<1>1. UNCHANGED <<kind, files, sbuf, cell, taken>> /\ pool'.clientfd = pool.clientfd
  <2>1. pool \in Pools
    BY DEF Inv, TypeOK
  <2> QED BY <2>1 DEF Read, Line, Write, Lock, Unlock, fixed, buffer, Advance, Pools
<1>2. \A q \in Procs : q # p => proc'[q] = proc[q]
  BY ReadDoes, LineDoes, WriteDoes, CountDoes
<1>3. CASE Write(p, c) /\ kind = "select"
  <2>1. proc'[p].pc = "check" /\ proc'[p].fd = None
    <3>1. proc \in [Procs -> Contexts] /\ proc' = [proc EXCEPT ![p] = Proc("check", None)]
      BY <1>3 DEF Inv, TypeOK, Write, Again
    <3> QED BY <3>1 DEF Proc
  <2> QED BY <1>1, <1>2, <1>3, <2>1, OwnsGo
<1>4. CASE ~(Write(p, c) /\ kind = "select")
  <2>1. /\ proc'[p].fd = proc[p].fd /\ proc[p].pc \in Busy /\ proc'[p].pc \in Busy
    <3>1. Hearing \subseteq Busy /\ {"read", "lock", "store", "write"} \subseteq Busy
      BY DEF Busy, Hearing
    <3>2. CASE Read(p, c)
      BY <3>1, <3>2, ReadDoes
    <3>3. CASE Line(p, c)
      BY <3>1, <3>3, LineDoes
    <3>4. CASE Write(p, c)
      BY <1>4, <3>1, <3>4, WriteDoes
    <3>5. CASE p \in Threads /\ (Lock(p) \/ Unlock(p))
      BY <3>1, <3>5, CountDoes
    <3> QED BY <3>2, <3>3, <3>4, <3>5
  <2>2. Busy \cap ({"start", "once"} \cup Resting) = {}
    BY DEF Busy, Hearing, Resting
  <2> QED BY <1>1, <1>2, <2>1, <2>2, OwnsOn
<1> QED BY <1>3, <1>4

\* The steps of doit that keep the connections.
LEMMA OwnsDoit ==
  ASSUME Inv, Owns, NEW p \in Procs, NEW c \in Clients, Peer(p, c),
         \/ RequestLine(p, c) \/ NoRequest(p, c) \/ read_requesthdrs(p, c) \/ WriteReply(p, c)
         \/ Killed(p, c) \/ CGI(p, c) \/ Wait(p)
  PROVE  Owns'
<1>1. UNCHANGED <<kind, files, sbuf, cell, taken, pool>>
  BY DEF RequestLine, NoRequest, read_requesthdrs, WriteReply, Killed, CGI, Wait, fixed, buffer
<1>2. CASE proc' = proc
  BY <1>1, <1>2, OwnsGo
<1>3. CASE proc' # proc
  <2>1. /\ Main \in Procs /\ proc \in [Procs -> Contexts] /\ \A q \in Procs : q # Main => proc'[q] = proc[q]
        /\ proc'[Main].fd = proc[Main].fd
        /\ proc[Main].pc \in {"request", "headers", "reply", "wait"}
        /\ proc'[Main].pc \in {"headers", "reply", "mmap", "fork", "finish"}
    <3>1. Main \in Procs /\ proc \in [Procs -> Contexts] /\ Stands(p, proc[p].pc)
      BY MainRecord, Record DEF Inv, TypeOK
    <3>2. CASE RequestLine(p, c) \/ read_requesthdrs(p, c)
      BY <3>1, <3>2, RequestDoes
    <3>3. CASE WriteReply(p, c)
      <4>1. AfterReply(Main, c) \in {"reply", "mmap", "fork", "finish"}
        BY DEF AfterReply
      <4> QED BY <3>1, <3>3, <4>1, WriteReplyDoes
    <3>4. CASE NoRequest(p, c) \/ Wait(p)
      <4>1. /\ p = Main /\ proc[p].pc \in {"request", "wait"}
            /\ proc' = [proc EXCEPT ![p].pc = "finish"]
        BY <3>1, <3>4 DEF NoRequest, Wait, At, Goto, Stands
      <4> QED BY <3>1, <4>1 DEF Contexts
    <3>5. CASE Killed(p, c) \/ CGI(p, c)
      BY <1>3, <3>5 DEF Killed, CGI
    <3> QED BY <3>2, <3>3, <3>4, <3>5
  <2>2. /\ proc[Main].pc \notin {"start", "once"} \cup Resting
        /\ proc'[Main].pc \notin {"start", "once"} \cup Resting
    BY <2>1 DEF Resting
  <2> QED BY <1>1, <2>1, <2>2, OwnsOn
<1> QED BY <1>2, <1>3

LEMMA OwnsStep ==
  ASSUME Inv, Owns, [Next]_vars PROVE Owns'
<1>1. ASSUME UNCHANGED <<kind, files, sbuf, cell, taken, pool, proc>> PROVE Owns'
  BY <1>1, OwnsGo
<1>2. ASSUME MainStep PROVE Owns'
  <2>1. Main \in Procs /\ (Fork => \E c \in Clients : TRUE)
    BY ForkDoes DEF Procs
  <2>2. ASSUME Fork PROVE Owns'
    BY <2>1, <2>2, OwnsForks
  <2>3. ASSUME ParentClose PROVE Owns'
    BY <2>1, <2>3, OwnsParentClose
  <2> QED BY <1>2, <2>2, <2>3, OwnsAccept, OwnsCreate, OwnsInsert, OwnsSelect, OwnsCheck DEF MainStep
<1>3. ASSUME NEW p \in Procs, Run(p) PROVE Owns'
  <2>1. ASSUME NEW c \in Clients, Peer(p, c), doit(p, c) PROVE Owns'
    BY <2>1, OwnsForks, OwnsParentClose, OwnsDoit DEF doit
  <2>2. ASSUME NEW c \in Clients, SigPipe(p, c) PROVE Owns'
    BY <1>1, <2>2 DEF SigPipe, fixed, buffer
  <2>3. ASSUME Serve(p) PROVE Owns'
    <3>1. PICK c \in Clients : /\ Peer(p, c)
                               /\ Read(p, c) \/ Line(p, c) \/ Write(p, c) \/ SigPipe(p, c) \/ Close(p, c)
                                  \/ doit(p, c)
      BY <2>3 DEF Serve
    <3> QED BY <2>1, <2>2, <3>1, OwnsWork, OwnsClose
  <2>4. ASSUME p \in Threads, Lock(p) \/ Unlock(p) PROVE Owns'
    <3>1. CASE Clients # {}
      BY <2>4, <3>1, OwnsWork
    <3>2. CASE Clients = {}
      <4>1. proc[p].pc \in {"lock", "store"} /\ Fd = {}
        <5>1. Cardinality(Clients) = 0
          BY <3>2, FS_EmptySet
        <5> QED BY <2>4, <5>1 DEF Lock, Unlock, At, Fd
      <4>2. UNCHANGED <<kind, sbuf>> /\ \A q \in Procs : proc'[q] = proc[q] \/ proc'[q].pc \notin Resting
        BY <2>4, CountDoes DEF fixed, Resting
      <4> QED BY <3>2, <4>1, <4>2, OwnsStill
    <3> QED BY <3>1, <3>2
  <2> QED BY <1>3, <2>3, <2>4, OwnsBegins, OwnsRemove DEF Run
<1>4. ASSUME sigchld_handler \/ (\E c \in Clients : Connect(c) \/ Client(c) \/ Leave(c)) \/ UNCHANGED vars
      PROVE  Owns'
  BY <1>1, <1>4 DEF sigchld_handler, Connect, Client, Send, Finish, Leave, vars, fixed, buffer
<1> QED BY <1>2, <1>3, <1>4 DEF Next

LEMMA OwnsStarts ==
  ASSUME Init PROVE Owns
<1>1. /\ proc = [p \in Procs |-> Proc(IF p = Main THEN "accept"
                                  ELSE IF p \in Threads /\ kind = "prethreaded" THEN "remove" ELSE "none", None)]
      /\ files = [p \in {Main} \cup Spawned |-> [f \in Fd |-> None]] /\ sbuf = <<>>
  BY DEF Init, Sbuf!Init
<1>2. \A p \in Procs : proc[p].fd = None
  BY <1>1 DEF Proc
<1>3. \A p \in {Main} \cup Clients, f \in Fd : files[p][f] = None
  BY <1>1 DEF Spawned
<1> QED BY <1>1, <1>2, <1>3 DEF Owns, Open

-----------------------------------------------------------------------------
(* One keeper *)

\* Whoever keeps a connection is main, the thread it was made for, or a worker.
LEMMA Keeper ==
  ASSUME Inv, Owns, kind # "select", NEW p \in Procs, Process(p) = Main, NEW fd \in Fd, Keeps(p, fd)
  PROVE  \/ p = Main /\ InHand /\ fd = proc[Main].fd
         \/ kind = "thread" /\ p \in Spawned /\ proc[p].pc # "none" /\ files[Main][fd] = p
         \/ kind = "prethreaded" /\ p \in Threads /\ Working(p) /\ fd = Held(p)
<1>1. Stands(p, proc[p].pc) /\ Spawned = Clients /\ None \notin Fd
  BY Record, ServersAssumption DEF Inv, Spawned
<1>2. proc[p].pc \notin Resting
  BY <1>1 DEF Owns, Keeps, Resting
<1>3. CASE p = Main
  BY <1>1, <1>2, <1>3, MainRecord DEF Inv, Stands, InHand, Keeps, Resting
<1>4. CASE kind = "thread" /\ p \in Spawned
  <2>1. proc[p].pc \in {"start", "read", "write"}
    BY <1>1, <1>2, <1>4, MainRecord DEF Inv, Stands, Resting
  <2>2. Has(p, Main, fd)
    BY <1>1, <1>4, <2>1 DEF Inv, Hands, Detached, Keeps
  <2> QED BY <1>4, <2>1, <2>2 DEF Has
<1>5. CASE kind = "prethreaded" /\ p \in Threads
  BY <1>2, <1>5 DEF Working, Held, Keeps, Resting
<1> QED BY <1>1, <1>2, <1>3, <1>4, <1>5, MainRecord DEF Inv, Stands, Process, Resting

LEMMA KeptByOne ==
  ASSUME Inv, Tokens, Owns, kind # "select", NEW p \in Procs, Process(p) = Main, NEW fd \in Fd, Keeps(p, fd)
  PROVE  /\ Open(fd) /\ ~Queued(fd)
         /\ \A q \in Procs : Process(q) = Main /\ Keeps(q, fd) => q = p
<1>1. /\ None \notin Clients /\ None \notin Fd /\ Spawned = Clients /\ Main \notin Clients /\ Main \notin Threads
  BY ServersAssumption DEF Spawned
<1>2. CASE kind = "prethreaded"
  <2>1. ASSUME NEW q \in Procs, Process(q) = Main, Keeps(q, fd)
        PROVE  \/ q = Main /\ InHand /\ fd = proc[Main].fd
               \/ q \in Threads /\ Working(q) /\ fd = Held(q)
    BY <1>2, <2>1, Keeper
  <2> QED BY <1>2, <2>1 DEF Tokens
<1>3. CASE kind = "thread"
  <2>1. ASSUME NEW q \in Procs, Process(q) = Main, Keeps(q, fd)
        PROVE  \/ q = Main /\ InHand /\ fd = proc[Main].fd
               \/ q \in Clients /\ proc[q].pc # "none" /\ files[Main][fd] = q
    BY <1>1, <1>3, <2>1, Keeper
  <2>2. ~Queued(fd)
    BY <1>3 DEF Owns, Queued
  <2>3. Open(fd)
    BY <1>1, <1>3, <2>1 DEF Open, Inv, Hands, Works
  <2>4. ASSUME InHand, fd = proc[Main].fd PROVE proc[files[Main][fd]].pc = "none"
    <3>1. proc[Main].pc = "thread"
      BY <1>3, <2>4, MainRecord DEF Inv, Stands, InHand
    <3>2. files[Main][fd] \in Clients
      BY <2>3 DEF Open, Inv, TypeOK
    <3> QED BY <2>4, <3>1, <3>2 DEF Inv, Hands, Idle, Fresh, ToGive
  <2> QED BY <2>1, <2>2, <2>3, <2>4
<1>4. CASE kind \notin {"thread", "prethreaded"}
  <2>1. \A q \in Procs : Process(q) = Main /\ Keeps(q, fd) => q = Main /\ InHand /\ fd = proc[Main].fd
    BY <1>4, Keeper
  <2>2. ~Queued(fd)
    BY <1>4 DEF Owns, Queued
  <2> QED BY <1>4, <2>1, <2>2 DEF Inv, Hands, Works
<1> QED BY <1>2, <1>3, <1>4

LEMMA KeepersAre ==
  ASSUME Inv, Tokens, Owns, NEW fd \in Fd
  PROVE  \/ Open(fd) /\ \E x : Keepers(fd) = {x}
         \/ ~Open(fd) /\ Keepers(fd) = {}
<1>1. CASE kind = "select"
  <2>1. DOMAIN pool.clientfd = SlotNumbers
    BY DEF Inv, TypeOK, Pools
  <2>2. Keepers(fd) = {<<"slot", i>> : i \in {j \in SlotNumbers : pool.clientfd[j] = fd}}
    BY <1>1, <2>1 DEF Keepers
  <2>3. None \notin Fd
    BY ServersAssumption
  <2>4. CASE Open(fd)
    <3>1. PICK i \in SlotNumbers : pool.clientfd[i] = fd
      BY <1>1, <2>4 DEF Owns, Kept
    <3>2. \A j \in SlotNumbers : pool.clientfd[j] = fd => j = i
      BY <1>1, <2>3, <3>1 DEF Inv, Slots
    <3>3. Keepers(fd) = {<<"slot", i>>}
      BY <2>2, <3>1, <3>2
    <3> QED BY <2>4, <3>3
  <2>5. CASE ~Open(fd)
    <3>1. \A j \in SlotNumbers : pool.clientfd[j] # fd
      BY <1>1, <2>3, <2>5 DEF Inv, Slots
    <3> QED BY <2>2, <2>5, <3>1
  <2> QED BY <2>4, <2>5
<1>2. CASE kind # "select"
  <2> DEFINE Hold == {q \in Procs : Process(q) = Main /\ Keeps(q, fd)}
             Places == {j \in DOMAIN sbuf : sbuf[j] = fd}
  <2>1. Keepers(fd) = {<<"thread", p>> : p \in Hold} \cup {<<"sbuf", i>> : i \in Places}
    BY <1>2 DEF Keepers
  <2>2. \A p \in Hold : Open(fd) /\ Places = {} /\ Hold = {p}
    BY <1>2, KeptByOne DEF Queued
  <2>3. ASSUME NEW i \in Places PROVE Open(fd) /\ Places = {i} /\ Hold = {}
    <3>1. kind = "prethreaded" /\ Queued(fd)
      BY <2>3 DEF Owns, Queued
    <3> QED BY <1>2, <2>3, <3>1, KeptByOne DEF Tokens
  <2>4. Open(fd) => Hold # {} \/ Places # {}
    BY <1>2 DEF Owns, Kept, Queued
  <2> HIDE DEF Hold, Places
  <2>5. ASSUME NEW p \in Hold PROVE Open(fd) /\ Keepers(fd) = {<<"thread", p>>}
    BY <2>1, <2>2, <2>5
  <2>6. ASSUME NEW i \in Places PROVE Open(fd) /\ Keepers(fd) = {<<"sbuf", i>>}
    BY <2>1, <2>3, <2>6
  <2>7. Hold = {} /\ Places = {} => ~Open(fd) /\ Keepers(fd) = {}
    BY <2>1, <2>4
  <2> QED BY <2>5, <2>6, <2>7
<1> QED BY <1>1, <1>2

\* Every open connection has one keeper and every keeper an open connection, in all
\* the servers and whatever their clients do (echoserveri.c, echoserverp.c,
\* echoservert.c, echoservert_pre.c, echoservers.c, tiny.c).
THEOREM ConnectionsOwned == Spec => []Owned
<1>1. Init => Inv /\ Tokens /\ Owns
  BY Starting, EchoStarts, OwnsStarts DEF EchoInv
<1>2. Inv /\ Tokens /\ Owns /\ [Next]_vars => (Inv /\ Tokens /\ Owns)'
  BY Stepping, TokensStep, OwnsStep
<1>3. Inv /\ Tokens /\ Owns => Owned
  <2> SUFFICES ASSUME Inv, Tokens, Owns PROVE Owned
    OBVIOUS
  <2>1. ASSUME NEW fd \in Fd
        PROVE  Cardinality(Keepers(fd)) = IF files[Main][fd] = None THEN 0 ELSE 1
    <3>1. Open(fd) <=> files[Main][fd] # None
      BY DEF Open
    <3> QED BY <3>1, KeepersAre, FS_EmptySet, FS_Singleton
  <2>2. ASSUME NEW c \in Clients PROVE Range(files[c]) \subseteq {c, None}
    <3>1. DOMAIN files[c] = Fd
      BY DEF Inv, TypeOK, Spawned
    <3> QED BY <3>1 DEF Range, Owns
  <2>3. ASSUME kind = "thread", NEW c \in Clients, NEW fd \in Fd, Keeps(c, fd) PROVE files[Main][fd] = c
    <3>1. c \in Procs /\ c # Main /\ Process(c) = Main
      BY <2>3, ServersAssumption DEF Procs, Spawned, Process
    <3> QED BY <2>3, <3>1, Keeper
  <2> QED BY <2>1, <2>2, <2>3 DEF Owned
<1> QED BY <1>1, <1>2, <1>3, PTL DEF Spec

=============================================================================


