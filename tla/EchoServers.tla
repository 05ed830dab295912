---------------------------- MODULE EchoServers ----------------------------
(***************************************************************************)
(* The echo servers: iterative (echoserveri.c), one process per client     *)
(* (echoserverp.c), one thread per client (echoservert.c), prethreaded     *)
(* (echoservert_pre.c, over the buffer of sbuf.c) and driven by select     *)
(* (echoservers.c).                                                        *)
(***************************************************************************)
EXTENDS Sockets

Sbuf == INSTANCE BoundedFifo WITH Capacity <- SBUFSIZE, Consumers <- Threads,
                                  Items <- Fd, NoItem <- None, queue <- sbuf, got <- taken

init_pool == [clientfd |-> [i \in 0..FD_SETSIZE-1 |-> None], maxi |-> -1,
              read_set |-> {}, ready_set |-> {}, nready |-> 0, i |-> 0]

-----------------------------------------------------------------------------
(* main *)

\* What main does with a connection.
Accepting == CASE kind = "iterative" -> "read" [] kind = "tiny" -> "request" [] OTHER -> kind

AcceptShared ==      \* mutant: every thread is given the address of main's connfd
  /\ At(Main, "accept") /\ kind # "select" /\ backlog # <<>>
  /\ backlog' = Tail(backlog) /\ files' = Accepted
  /\ proc' = [proc EXCEPT ![Main] = Proc(Accepting, Connfd)]
  /\ cell' = IF kind = "thread" THEN [p \in DOMAIN cell |-> Connfd] ELSE cell
  /\ UNCHANGED <<fixed, client, buffer, count, pool, sig, heard>>

Accept ==
  /\ At(Main, "accept") /\ kind # "select" /\ backlog # <<>>
  /\ backlog' = Tail(backlog) /\ files' = Accepted
  /\ proc' = [proc EXCEPT ![Main] = Proc(Accepting, Connfd)]
  /\ cell' = IF kind = "thread" THEN [cell EXCEPT ![Head(backlog)] = Connfd] ELSE cell
  /\ UNCHANGED <<fixed, client, buffer, count, pool, sig, heard>>

\* Fork: the child has a copy of the descriptors and runs echo,
Fork ==
  /\ At(Main, "process")
  /\ LET c == files[Main][proc[Main].fd]
     IN /\ files' = [files EXCEPT ![c] = files[Main]]
        /\ proc' = [proc EXCEPT ![c] = Proc("read", proc[Main].fd), ![Main].pc = "forked"]
  /\ UNCHANGED <<fixed, client, backlog, cell, buffer, count, pool, sig, heard>>

ParentCloseNot ==    \* mutant: Close(connfd) forgotten in the parent
  /\ At(Main, "forked")
  /\ proc' = [proc EXCEPT ![Main] = Proc("accept", None)]
  /\ UNCHANGED <<fixed, client, backlog, files, cell, buffer, count, pool, sig, heard>>

\* and the parent closes the connection.
ParentClose ==
  /\ At(Main, "forked")
  /\ files' = [files EXCEPT ![Main][proc[Main].fd] = None]
  /\ proc' = [proc EXCEPT ![Main] = Proc("accept", None)]
  /\ UNCHANGED <<fixed, client, backlog, cell, buffer, count, pool, sig, heard>>

Pthread_create ==
  /\ At(Main, "thread")
  /\ proc' = [proc EXCEPT ![files[Main][proc[Main].fd]].pc = "start", ![Main] = Proc("accept", None)]
  /\ UNCHANGED <<fixed, client, backlog, files, cell, buffer, count, pool, sig, heard>>

sbuf_insert ==
  /\ At(Main, "prethreaded")
  /\ Sbuf!Put(proc[Main].fd)
  /\ proc' = [proc EXCEPT ![Main] = Proc("accept", None)]
  /\ UNCHANGED <<fixed, client, backlog, files, cell, count, pool, sig, heard>>

-----------------------------------------------------------------------------
(* The start of a thread *)

\* connfd = *vargp.
Start(c) ==
  /\ At(c, "start")
  /\ proc' = [proc EXCEPT ![c] = Proc("read", cell[c])]
  /\ UNCHANGED <<fixed, client, backlog, files, cell, buffer, count, pool, sig, heard>>

sbuf_remove(t) ==
  /\ At(t, "remove")
  /\ Sbuf!Get(t)
  /\ proc' = Goto(t, "once")
  /\ UNCHANGED <<fixed, client, backlog, files, cell, count, pool, sig, heard>>

\* echo_cnt: Pthread_once(&once, init_echo_cnt).
init_echo_cnt(t) ==
  /\ At(t, "once")
  /\ once' = TRUE
  /\ IF once THEN UNCHANGED <<mutex, byte_cnt>> ELSE mutex' = 1 /\ byte_cnt' = 0
  /\ proc' = [proc EXCEPT ![t] = Proc("read", taken[t])]
  /\ UNCHANGED <<fixed, client, backlog, files, cell, buffer, pool, sig, heard>>

-----------------------------------------------------------------------------
(* echo and echo_cnt, on the connection c of p *)

\* Rio_readlineb returns.
Line(p, c) ==
  LET rio == proc[p].rio
      n == Readline(p, c)
  IN /\ At(p, "read") /\ n > 0
     /\ proc' = [proc EXCEPT ![p].rio = SubSeq(rio, n + 1, Len(rio)), ![p].line = SubSeq(rio, 1, n),
                             ![p].pc = IF kind = "prethreaded" THEN "lock" ELSE "write"]
     /\ byte_cnt' = byte_cnt + IF kind = "select" THEN n ELSE 0
     /\ heard' = heard + n
     /\ UNCHANGED <<fixed, client, backlog, files, cell, buffer, once, mutex, pool, sig>>

LockNot(p) ==        \* mutant: P(&mutex) forgotten
  /\ At(p, "lock") /\ UNCHANGED mutex
  /\ proc' = [proc EXCEPT ![p].pc = "store", ![p].reg = byte_cnt + Len(proc[p].line)]
  /\ UNCHANGED <<fixed, client, backlog, files, cell, buffer, once, byte_cnt, pool, sig, heard>>

\* P(&mutex), byte_cnt is loaded and added to,
Lock(p) ==
  /\ At(p, "lock") /\ mutex = 1
  /\ mutex' = 0
  /\ proc' = [proc EXCEPT ![p].pc = "store", ![p].reg = byte_cnt + Len(proc[p].line)]
  /\ UNCHANGED <<fixed, client, backlog, files, cell, buffer, once, byte_cnt, pool, sig, heard>>

\* stored, and V(&mutex).
Unlock(p) ==
  /\ At(p, "store")
  /\ byte_cnt' = proc[p].reg /\ mutex' = 1
  /\ proc' = Goto(p, "write")
  /\ UNCHANGED <<fixed, client, backlog, files, cell, buffer, once, pool, sig, heard>>

\* The next turn of a loop of echo, or of check_clients, which forgets its copy of
\* the rio_t.
Again(p) == IF kind = "select" THEN [proc EXCEPT ![p] = Proc("check", None)]
            ELSE [proc EXCEPT ![p].pc = "read", ![p].line = <<>>]
Advance == IF kind = "select" THEN [pool EXCEPT !.i = @ + 1] ELSE pool

\* Rio_writen.  To a client that has left it raises SIGPIPE, which ends the
\* process, but for the first time; and so does the error of a read, once the
\* connection is reset for what the client left unread or what was written to it
\* after that.
Write(p, c) ==
  /\ At(p, "write")
  /\ cli' = IF cli[c].st = "left" THEN cli ELSE [cli EXCEPT ![c].got = @ \o proc[p].line]
  /\ proc' = Again(p) /\ pool' = Advance
  /\ UNCHANGED <<fixed, sock, backlog, files, cell, buffer, count, sig, heard>>

SigPipe(p, c) ==
  /\ At(p, "write") \/ (At(p, "read") /\ cli[c].sent > 0)
  /\ cli[c].st = "left"
  /\ dead' = dead \cup {Process(p)}
  /\ zombies' = IF p # Main /\ kind = "process" THEN zombies \cup {p} ELSE zombies
  /\ sigchld' = (sigchld \/ zombies' # zombies)
  /\ UNCHANGED <<fixed, client, backlog, files, proc, cell, buffer, count, pool, heard>>

\* Rio_readlineb returned 0: Close(connfd), and what follows it.
Close(p, c) ==
  /\ At(p, "read") /\ proc[p].rio = <<>> /\ AtEof(c)
  /\ files' = [files EXCEPT ![Process(p)][proc[p].fd] = None]
  /\ LET next == CASE kind = "iterative" -> "accept" [] kind = "prethreaded" -> "remove"
                   [] kind = "select" -> "check" [] OTHER -> "none"
     IN proc' = [proc EXCEPT ![p] = Proc(next, None)]
  /\ LET i == pool.i
     IN pool' = IF kind = "select"
                THEN [pool EXCEPT !.read_set = @ \ {proc[p].fd}, !.clientfd[i] = None, !.i = @ + 1]
                ELSE pool
  /\ IF kind = "process" THEN dead' = dead \cup {p} /\ zombies' = zombies \cup {p} /\ sigchld' = TRUE
                         ELSE UNCHANGED sig
  /\ UNCHANGED <<fixed, client, backlog, cell, buffer, count, heard>>

sigchld_handlerOnce ==       \* mutant: one child is reaped
  /\ sigchld /\ Main \notin dead
  /\ sigchld' = FALSE /\ \E z \in zombies : zombies' = zombies \ {z}
  /\ UNCHANGED <<fixed, client, backlog, files, proc, cell, buffer, count, pool, dead, heard>>

sigchld_handler ==
  /\ sigchld /\ Main \notin dead
  /\ sigchld' = FALSE /\ zombies' = {}
  /\ UNCHANGED <<fixed, client, backlog, files, proc, cell, buffer, count, pool, dead, heard>>

-----------------------------------------------------------------------------
(* echoservers *)

add_client(fd, p) ==
  LET free == {j \in DOMAIN p.clientfd : p.clientfd[j] = None}
      i == Min(free)
  IN [p EXCEPT !.nready = @ - 1, !.clientfd[i] = fd, !.read_set = @ \cup {fd},
               !.maxi = IF i > @ THEN i ELSE @]

\* Select, and if the listening descriptor is ready the connection is accepted.
Select ==
  LET ready == {f \in pool.read_set : Readable(files[Main][f])}
      new == IF backlog = <<>> THEN 0 ELSE 1
      p == [pool EXCEPT !.ready_set = ready, !.nready = Cardinality(ready) + new, !.i = 0]
  IN /\ At(Main, "accept") /\ kind = "select"
     /\ p.nready > 0
     /\ IF new = 1
        THEN backlog' = Tail(backlog) /\ files' = Accepted /\ pool' = add_client(Connfd, p)
        ELSE pool' = p /\ UNCHANGED <<backlog, files>>
     /\ proc' = Goto(Main, "check")
     /\ UNCHANGED <<fixed, client, cell, buffer, count, sig, heard>>

\* check_clients: the next client that is ready, with a copy of its rio_t.
check_clients ==
  LET next == {j \in pool.i..pool.maxi : pool.clientfd[j] \in pool.ready_set}
  IN /\ At(Main, "check")
     /\ IF next = {} \/ pool.nready = 0
        THEN proc' = Goto(Main, "accept") /\ UNCHANGED pool
        ELSE /\ pool' = [pool EXCEPT !.i = Min(next), !.nready = @ - 1]
             /\ proc' = [proc EXCEPT ![Main] = Proc("read", pool.clientfd[Min(next)])]
     /\ UNCHANGED <<fixed, client, backlog, files, cell, buffer, count, sig, heard>>
=============================================================================
