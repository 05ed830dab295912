------------------------------ MODULE Sockets ------------------------------
(***************************************************************************)
(* What the servers of the networking examples share: clients that connect *)
(* and send lines, connections as descriptors of processes, and the        *)
(* buffered reads of csapp.c.                                              *)
(*                                                                         *)
(* A line is two pieces, since a read may end within it: client c sends    *)
(* the pieces <<c, 1>>, <<c, 2>>, ... and an even number ends a line.      *)
(***************************************************************************)
EXTENDS Integers, Sequences, FiniteSets, SequencesExt, FiniteSetsExt

CONSTANTS Clients, Threads, Main,   \* clients, the workers of echoservert_pre, main
          None,                     \* no client, no descriptor
          Kinds,                    \* the servers considered
          Pieces,                   \* bound: the pieces a client sends, even
          SBUFSIZE, FD_SETSIZE,
          Rude                      \* the sets of clients that may leave any time

Fd == 1..Cardinality(Clients)            \* the descriptors above listenfd
Spawned == Clients                       \* the process or thread made for a client
Procs == {Main} \cup Spawned \cup Threads

ASSUME ServersAssumption ==
  /\ Kinds \subseteq {"iterative", "process", "thread", "prethreaded", "select", "tiny"}
  /\ Pieces \in Nat /\ Pieces % 2 = 0
  /\ SBUFSIZE \in Nat \ {0} /\ FD_SETSIZE \in Nat
  /\ IsFiniteSet(Clients) /\ IsFiniteSet(Threads)
  /\ Cardinality(Clients) <= FD_SETSIZE     \* else add_client ends the process
  /\ Rude \subseteq SUBSET Clients
  /\ Main \notin Clients \cup Threads /\ Clients \cap Threads = {}
  /\ None \notin Clients /\ None \notin Fd

VARIABLES kind, rude, eager, asks,   \* which server, which clients may leave, or do not
                               \* wait for the echo of a line, and what they ask
                               \* tiny for; constant
          cli,      \* a client: st, the pieces sent, and what it has got
          sock,     \* the pieces on their way to the server
          backlog,  \* the clients accept has not returned yet
          files,    \* the table of descriptors of main and of each child
          proc,     \* pc, connfd, rio buffer and line of each thread or process
          cell,     \* what Malloc(sizeof(int)) gave for a client; Main: a local
          sbuf, taken,         \* echoservert_pre: the buffer, connfd of a worker
          once, mutex, byte_cnt,
          pool,     \* echoservers
          zombies, sigchld, dead,
          heard     \* history: the pieces Rio_readlineb has returned

client == <<cli, sock>>
count  == <<once, mutex, byte_cnt>>
buffer == <<sbuf, taken>>
sig    == <<zombies, sigchld, dead>>
fixed  == <<kind, rude, eager, asks>>
vars   == <<fixed, client, backlog, files, proc, cell, buffer, count, pool, sig, heard>>

Proc(pc, fd) == [pc |-> pc, fd |-> fd, rio |-> <<>>, line |-> <<>>, reg |-> 0]
Goto(p, pc) == [proc EXCEPT ![p].pc = pc]

-----------------------------------------------------------------------------
(* Clients.  They are done when the server has closed the connection. *)

Holds(c) == \E p \in DOMAIN files : p \notin dead /\ c \in Range(files[p])
Closed(c) == ~Holds(c) /\ ~Contains(backlog, c)

Connect(c) ==
  /\ cli[c].st = "new" /\ Main \notin dead
  /\ cli' = [cli EXCEPT ![c].st = "open"]
  /\ backlog' = Append(backlog, c)
  /\ UNCHANGED <<fixed, sock, files, proc, cell, buffer, count, pool, sig, heard>>

\* echoclient waits for a line before it sends the next; other clients do not.
Send(c) ==
  /\ cli[c].st = "open" /\ cli[c].sent < Pieces
  /\ c \in eager \/ kind = "tiny" \/ cli[c].sent % 2 = 1 \/ Len(cli[c].got) = cli[c].sent
  /\ cli' = [cli EXCEPT ![c].sent = @ + 1]
  /\ sock' = [sock EXCEPT ![c] = Append(@, <<c, cli[c].sent + 1>>)]
  /\ UNCHANGED <<fixed, backlog, files, proc, cell, buffer, count, pool, sig, heard>>

Finish(c) ==
  /\ cli[c].st = "open" /\ cli[c].sent = Pieces
  /\ cli' = [cli EXCEPT ![c].st = "fin"]
  /\ UNCHANGED <<fixed, sock, backlog, files, proc, cell, buffer, count, pool, sig, heard>>

Leave(c) ==
  /\ cli[c].st = "open" /\ c \in rude
  /\ cli' = [cli EXCEPT ![c].st = "left"]
  /\ UNCHANGED <<fixed, sock, backlog, files, proc, cell, buffer, count, pool, sig, heard>>

-----------------------------------------------------------------------------
(* Threads and processes, and their connections *)

\* A thread or process is scheduled unless the process it is in has ended.
Process(p) == IF kind \in {"process", "tiny"} THEN p ELSE Main
At(p, pc) == proc[p].pc = pc /\ Process(p) \notin dead

Connfd == Min({f \in Fd : files[Main][f] = None})
Accepted == [files EXCEPT ![Main][Connfd] = Head(backlog)]

Conn(p) == files[Process(p)][proc[p].fd]
Peer(p, c) == At(p, proc[p].pc) /\ proc[p].fd # None /\ c = Conn(p)

\* What a connection has for the server, if only its end.
AtEof(c) == sock[c] = <<>> /\ cli[c].st \in {"fin", "left"}
Readable(c) == sock[c] # <<>> \/ AtEof(c)

\* Rio_readlineb returns a line, or what there is before the end of file; this is
\* its length, 0 if it has to wait or has come to the end.
LineIn(rio) == LET ends == {i \in DOMAIN rio : rio[i][2] % 2 = 0}
               IN IF ends = {} THEN 0 ELSE Min(ends)

Readline(p, c) ==
  LET rio == proc[p].rio
  IN IF LineIn(rio) > 0 THEN LineIn(rio) ELSE IF AtEof(c) THEN Len(rio) ELSE 0

Reading(p) == \E pc \in {"read", "request", "headers"} : At(p, pc)

Read(p, c) ==
  /\ Reading(p) /\ LineIn(proc[p].rio) = 0
  /\ sock[c] # <<>>
  /\ \E k \in 1..Len(sock[c]) :
       /\ proc' = [proc EXCEPT ![p].rio = @ \o SubSeq(sock[c], 1, k)]
       /\ sock' = [sock EXCEPT ![c] = SubSeq(@, k + 1, Len(@))]
  /\ UNCHANGED <<fixed, cli, backlog, files, cell, buffer, count, pool, sig, heard>>
=============================================================================
