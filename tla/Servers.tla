------------------------------ MODULE Servers ------------------------------
(***************************************************************************)
(* The servers of the networking examples and of the proxy lab with their  *)
(* clients: the echo servers and tiny.  A behaviour is of one server, with *)
(* clients that wait for their echo, do not wait, or leave.                *)
(***************************************************************************)
EXTENDS EchoServers, TinyServer

Init ==
  /\ kind \in Kinds /\ rude \in Rude /\ eager \in {{}, Clients} /\ (rude = {} \/ eager = {})
  /\ IF kind = "tiny" THEN eager = {} /\ asks \in [Clients -> Asks] ELSE asks = [c \in Clients |-> "echo"]
  /\ cli = [c \in Clients |-> [st |-> "new", sent |-> 0, got |-> <<>>]]
  /\ sock = [c \in Clients |-> <<>>]
  /\ backlog = <<>>
  /\ files = [p \in {Main} \cup Spawned |-> [f \in Fd |-> None]]
  /\ proc = [p \in Procs |-> Proc(IF p = Main THEN "accept"
                                  ELSE IF p \in Threads /\ kind = "prethreaded" THEN "remove" ELSE "none", None)]
  /\ cell = [p \in {Main} \cup Spawned |-> None]
  /\ Sbuf!Init
  /\ once = FALSE /\ mutex = 0 /\ byte_cnt = 0
  /\ pool = init_pool
  /\ zombies = {} /\ sigchld = FALSE /\ dead = {}
  /\ heard = 0

-----------------------------------------------------------------------------
MainStep == Accept \/ Fork \/ ParentClose \/ Pthread_create \/ sbuf_insert \/ Select \/ check_clients

Serve(p) == \E c \in Clients :
  Peer(p, c) /\ (Read(p, c) \/ Line(p, c) \/ Write(p, c) \/ SigPipe(p, c) \/ Close(p, c) \/ doit(p, c))

Run(p) == Serve(p) \/ (p \in Spawned /\ Start(p))
          \/ (p \in Threads /\ (sbuf_remove(p) \/ init_echo_cnt(p) \/ Lock(p) \/ Unlock(p)))

Client(c) == Send(c) \/ Finish(c)

Next == MainStep \/ (\E p \in Procs : Run(p)) \/ sigchld_handler
        \/ \E c \in Clients : Connect(c) \/ Client(c) \/ Leave(c)

\* The kernel schedules every process and thread and delivers signals; a client
\* that is not rude sends what it has and closes.
Fairness ==
  /\ WF_vars(MainStep) /\ WF_vars(sigchld_handler)
  /\ \A p \in Procs : WF_vars(Run(p))
  /\ \A c \in Clients : WF_vars(c \notin rude /\ Client(c))

Spec == Init /\ [][Next]_vars /\ Fairness

-----------------------------------------------------------------------------
Sent(c) == [i \in 1..cli[c].sent |-> <<c, i>>]

\* What is due for what tiny is asked: the default page of a directory, the output
\* of a program with its arguments, or the error that applies first.
Due(request) ==
  LET error(errnum) == <<errnum, "Content-type", "Content-length", "body">>
      uri == request.uri
  IN CASE request.method = "POST"           -> error("501")
       [] uri.path = <<"/">>                -> <<"200", "content">>
       [] uri.path = <<"empty">>            -> <<"200">>
       [] uri.path = <<"cgi-bin", "adder">> -> <<"200", "Server", "output">>
       [] uri.path = <<"cgi-bin", "/">>     -> error("403")
       [] uri.path = <<"page">> /\ uri.query # <<>> -> error("404")

\* A client gets its own lines back, each once and in order, whatever thread or
\* process serves it and whatever descriptor it is given; of tiny it gets the one
\* response to what it asked for, in order.  The server driven by select may lose
\* lines that come together, since check_clients throws away the buffer it read
\* them into, but never lines of a client that waits.
Echoes ==
  \A c \in Clients :
    CASE kind = "select" /\ c \in eager ->
           /\ \A i \in DOMAIN cli[c].got : cli[c].got[i][1] = c
           /\ \A i, j \in DOMAIN cli[c].got : i < j => cli[c].got[i][2] < cli[c].got[j][2]
      [] kind = "tiny" /\ cli[c].sent > 1 -> IsPrefix(cli[c].got, Due(asks[c]))
      [] kind = "tiny" /\ cli[c].sent <= 1 -> cli[c].got = <<>>
      [] OTHER -> IsPrefix(cli[c].got, Sent(c))

\* Who has connection fd of main to work on or to pass on: a thread of main's
\* process, which may not have read it yet from where it finds it, a place of sbuf,
\* or, of the server driven by select, a slot of the pool.
Keeps(p, fd) ==
  CASE kind = "thread" /\ proc[p].pc = "start"     -> fd = cell[p]
    [] kind = "prethreaded" /\ proc[p].pc = "once" -> fd = taken[p]
    [] OTHER                                       -> fd = proc[p].fd
Keepers(fd) ==
  IF kind = "select" THEN {<<"slot", i>> : i \in {j \in DOMAIN pool.clientfd : pool.clientfd[j] = fd}}
  ELSE {<<"thread", p>> : p \in {q \in Procs : Process(q) = Main /\ Keeps(q, fd)}}
         \cup {<<"sbuf", i>> : i \in {j \in DOMAIN sbuf : sbuf[j] = fd}}

\* No connection is leaked, and none is shared: what is open in main's process has
\* one keeper, who will close it, and what a keeper has is open; and the process
\* made for a client has no client's connection but its own.
Owned ==
  /\ \A fd \in Fd : Cardinality(Keepers(fd)) = IF files[Main][fd] = None THEN 0 ELSE 1
  /\ \A c \in Clients : Range(files[c]) \subseteq {c, None}
  /\ kind = "thread" => \A c \in Clients, fd \in Fd : Keeps(c, fd) => files[Main][fd] = c

\* "counts the total number of bytes received from clients" (echo_cnt.c): no update
\* of byte_cnt is lost, and its initialisation happens once, before all of them.
Counted ==
  kind \in {"prethreaded", "select"} =>
    heard = byte_cnt + FoldSet(LAMBDA t, n : Len(proc[t].line) + n, 0,
                               {t \in Threads : proc[t].pc \in {"lock", "store"}})

\* A client that connects has all its lines echoed, or its request answered in
\* full, and the connection closed, if it finishes its lines itself, no other client
\* leaves and none asks tiny for an empty file; with a process for every client,
\* whatever the others do.
Complete(c) ==
  /\ cli[c].st = "fin" /\ Closed(c)
  /\ CASE kind = "tiny" -> cli[c].got = Due(asks[c])
       [] OTHER -> (kind = "select" /\ c \in eager) \/ cli[c].got = Sent(c)
Harmless == rude = {} /\ (kind = "tiny" => \A d \in Clients : ~Fatal(asks[d]))
Served ==
  \A c \in Clients :
    (cli[c].st # "new" /\ c \notin rude /\ (Harmless \/ kind = "process")) ~> Complete(c)

\* Every child that has ended is reaped, though one signal may stand for several.
Reaped == (zombies # {}) ~> (zombies = {})
=============================================================================
