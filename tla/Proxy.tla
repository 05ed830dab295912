------------------------------- MODULE Proxy -------------------------------
(***************************************************************************)
(* The caching web proxy of proxylab-handout/proxy.c: main accepts         *)
(* connections and starts one thread per connection, the threads share the *)
(* cache, the reader count, the semaphores mutex and w, the clock          *)
(* curr_time and the process's descriptors.                                *)
(*                                                                         *)
(* A step holds at most one access to memory another thread may access at  *)
(* that moment.  A request is the object it asks for (equal requests have  *)
(* equal hashes, others differ), an object is a sequence of chunks of at   *)
(* most MAXLINE bytes, as Rio_readnb returns them.                         *)
(***************************************************************************)
EXTENDS Integers, Sequences, FiniteSets, FiniteSetsExt, SequencesExt

CONSTANTS Objects,          \* what clients ask for
          NoObject,         \* the hash of a line never written
          Size,             \* the length of each object's response
          Failing,          \* objects whose server may refuse or reset the connection
          Malformed,        \* requests with another method than GET
          Leaving,          \* connections whose client may be gone at a write
          StaleStack,       \* may a thread's stack hold an earlier thread's?
          MAXLINE, MAX_OBJECT_SIZE, CACHE_LINE_NUM,
          MaxConns,         \* bound: connections accepted
          MaxLive,          \* bound: connections served at a time
          Loads             \* what clients do: which objects they ask for, in
                            \* how many connections, how many of them at a time

ASSUME ProxyAssumption ==
  /\ NoObject \notin Objects
  /\ Size \in [Objects -> Nat] /\ Failing \cup Malformed \subseteq Objects
  /\ MAXLINE \in Nat \ {0} /\ MAX_OBJECT_SIZE \in Nat \ {0}
  /\ CACHE_LINE_NUM \in Nat \ {0}
  /\ MaxConns \in Nat /\ MaxLive \in Nat \ {0}
  /\ Leaving \subseteq 1..MaxConns /\ StaleStack \in BOOLEAN
  /\ Loads \subseteq [objects : SUBSET Objects, conns : 0..MaxConns, live : 1..MaxLive]

VARIABLES status,     \* running, exited (unix_error), or doing I/O the model
                      \* gives no meaning to, on a descriptor of another use
          curr_time,  \* one tick per accepted connection, so also their count
          read_cnt,
          sem,        \* the semaphores mutex and w
          cache,      \* the lines; length is Total(content)
          fds,        \* the process's open descriptors
          th,         \* the locals of serve, per connection
          got,        \* what each client has received
          load        \* the member of Loads this run is about

vars == <<status, curr_time, read_cnt, sem, cache, fds, th, got, load>>

Conns == 1..MaxConns
Lines == 0..CACHE_LINE_NUM-1
FDs   == 0..3 + 2 * MaxLive
ListenFd == 3

-----------------------------------------------------------------------------
(* Objects, chunks and descriptors *)

Chunk(o, n) == [object |-> o, n |-> n]    \* the n-th chunk of the response
ErrorPage(o) == Chunk(o, 0)               \* what clienterror writes

ChunkCount(o) == (Size[o] + MAXLINE - 1) \div MAXLINE
Whole(o) == [n \in 1..ChunkCount(o) |-> Chunk(o, n)]
ChunkSize(k) == IF k.n * MAXLINE <= Size[k.object]
                THEN MAXLINE ELSE Size[k.object] % MAXLINE
Total(chunks) == FoldSeq(LAMBDA k, sum : ChunkSize(k) + sum, 0, chunks)

Free == [kind |-> "free", conn |-> 0, pos |-> 0]
Socket(kind, c) == [kind |-> kind, conn |-> c, pos |-> 0]
Open(fd) == fd \in FDs /\ fds[fd].kind # "free"
LowestFree == Min({fd \in FDs : ~Open(fd)})

\* proxy_serverfd before it is assigned: zero on a fresh stack; on a reused
\* one what the last thread left, or a value that is no descriptor.
Uninitialised ==
  {0} \cup IF StaleStack
           THEN {-1} \cup {th[d].sfd : d \in {e \in Conns : th[e].pc = "done"}}
           ELSE {}

Live == {c \in Conns : th[c].pc \notin {"none", "done"}}

Init ==
  /\ load \in Loads
  /\ status = "running" /\ curr_time = 0 /\ read_cnt = 0
  /\ sem = [s \in {"mutex", "w"} |-> 1]
  /\ cache = [i \in Lines |-> [content |-> <<>>, timestamp |-> 0,
                               hash |-> NoObject, valid |-> FALSE]]
  /\ fds = [fd \in FDs |-> CASE fd < ListenFd -> Socket("std", 0)
                             [] fd = ListenFd -> Socket("listen", 0)
                             [] OTHER -> Free]
  /\ th = [c \in Conns |-> [pc |-> "none", object |-> NoObject, cfd |-> 0,
                            sfd |-> 0, idx |-> 0, oldest |-> 0, lru |-> 0,
                            now |-> 0, buf |-> <<>>]]
  /\ got = [c \in Conns |-> <<>>]

-----------------------------------------------------------------------------
(* Parts of steps *)

At(c, label) == status = "running" /\ th[c].pc = label
Goto(c, label) == th' = [th EXCEPT ![c].pc = label]

P(s) == sem[s] > 0 /\ sem' = [sem EXCEPT ![s] = @ - 1]
V(s) == sem' = [sem EXCEPT ![s] = @ + 1]

\* unix_error: whatever failed, the process is over.
Exit == status' = "exited" /\ UNCHANGED <<cache, fds, th, got>>
Undefined == status' = "undefined" /\ UNCHANGED <<cache, fds, th, got>>

\* Rio_writen(fd, chunks): nothing to write is no system call; a client that
\* has left may end the process, by SIGPIPE or by the error.
Write(fd, chunks) ==
  LET c == fds[fd].conn
  IN \/ /\ chunks = <<>> \/ (Open(fd) /\ fds[fd].kind # "client")
        /\ UNCHANGED <<status, got>>
     \/ /\ chunks # <<>> /\ fds[fd].kind = "client"
        /\ got' = [got EXCEPT ![c] = @ \o chunks]
        /\ UNCHANGED status
     \/ /\ chunks # <<>>
        /\ ~Open(fd) \/ (fds[fd].kind = "client" /\ c \in Leaving)
        /\ status' = "exited"
        /\ UNCHANGED got

-----------------------------------------------------------------------------
(* main *)

Accept(o, stack) ==
  /\ status = "running" /\ curr_time < load.conns
  /\ Cardinality(Live) < load.live
  /\ LET c == curr_time + 1
     IN /\ curr_time' = c
        /\ fds' = [fds EXCEPT ![LowestFree] = Socket("client", c)]
        /\ th' = [th EXCEPT ![c].pc = "parse", ![c].object = o,
                            ![c].cfd = LowestFree, ![c].sfd = stack]
  /\ UNCHANGED <<status, read_cnt, sem, cache, got>>

-----------------------------------------------------------------------------
(* serve: the request and the cache lookup *)

\* A method other than GET is answered with an error page and then goes on,
\* under the hash of what parsed_request happens to hold.  A client that leaves
\* before its blank line: parse_hdr appends the last header without end.
ParseRequest(c) ==
  /\ At(c, "parse")
  /\ \/ /\ fds[th[c].cfd] = Socket("client", c)
        /\ Write(th[c].cfd, IF th[c].object \in Malformed
                             THEN <<ErrorPage(th[c].object)>> ELSE <<>>)
        /\ Goto(c, "check")
        /\ UNCHANGED <<fds, cache>>
     \/ /\ fds[th[c].cfd] = Socket("client", c) /\ c \in Leaving
        /\ Undefined
     \/ /\ ~Open(th[c].cfd)
        /\ Exit
     \/ /\ Open(th[c].cfd) /\ fds[th[c].cfd] # Socket("client", c)
        /\ Undefined
  /\ UNCHANGED <<curr_time, read_cnt, sem>>

CheckLineButLast(c) ==        \* mutant: the loop ends at CACHE_LINE_NUM - 1
  LET i == th[c].idx
      seen == Lines \ {CACHE_LINE_NUM - 1}
      hit == i \in seen /\ cache[i].valid /\ cache[i].hash = th[c].object
  IN /\ At(c, "check")
     /\ th' = [th EXCEPT ![c].pc = IF hit THEN "touch"
                                   ELSE IF i \in seen THEN "check" ELSE "connect",
                         ![c].idx = IF i \in seen /\ ~hit THEN i + 1 ELSE i]
     /\ UNCHANGED <<status, curr_time, read_cnt, sem, cache, fds, got>>

\* One turn of the loop of check_cache, or its end.
CheckLine(c) ==
  LET i == th[c].idx
      hit == i \in Lines /\ cache[i].valid /\ cache[i].hash = th[c].object
  IN /\ At(c, "check")
     /\ th' = [th EXCEPT ![c].pc = IF hit THEN "touch"
                                   ELSE IF i \in Lines THEN "check" ELSE "connect",
                         ![c].idx = IF i \in Lines /\ ~hit THEN i + 1 ELSE i]
     /\ UNCHANGED <<status, curr_time, read_cnt, sem, cache, fds, got>>

TouchLock(c) ==
  /\ At(c, "touch")
  /\ P("w")
  /\ th' = [th EXCEPT ![c].pc = "touched", ![c].now = curr_time]
  /\ UNCHANGED <<status, curr_time, read_cnt, cache, fds, got>>

TouchNothing(c) ==            \* mutant: a hit does not refresh the timestamp
  /\ At(c, "touched")
  /\ V("w")
  /\ Goto(c, "enter")
  /\ UNCHANGED <<status, curr_time, read_cnt, cache, fds, got>>

TouchUnlock(c) ==
  /\ At(c, "touched")
  /\ cache' = [cache EXCEPT ![th[c].idx].timestamp = th[c].now]
  /\ V("w")
  /\ Goto(c, "enter")
  /\ UNCHANGED <<status, curr_time, read_cnt, fds, got>>

-----------------------------------------------------------------------------
(* serve: a hit, as a reader *)

ReaderCount(c) ==
  /\ At(c, "enter")
  /\ P("mutex")
  /\ read_cnt' = read_cnt + 1
  /\ Goto(c, "entered")
  /\ UNCHANGED <<status, curr_time, cache, fds, got>>

ReaderEnterFree(c) ==         \* mutant: the first reader does not wait for w
  /\ At(c, "entered")
  /\ V("mutex")
  /\ Goto(c, "send")
  /\ UNCHANGED <<status, curr_time, read_cnt, cache, fds, got>>

ReaderEnter(c) ==
  /\ At(c, "entered")
  /\ read_cnt = 1 => sem["w"] > 0
  /\ sem' = [mutex |-> 1, w |-> IF read_cnt = 1 THEN sem["w"] - 1 ELSE sem["w"]]
  /\ Goto(c, "send")
  /\ UNCHANGED <<status, curr_time, read_cnt, cache, fds, got>>

SendCached(c) ==
  /\ At(c, "send")
  /\ Write(th[c].cfd, cache[th[c].idx].content)
  /\ Goto(c, "leave")
  /\ UNCHANGED <<curr_time, read_cnt, sem, cache, fds>>

ReaderLeaveEach(c) ==         \* mutant: every reader that leaves posts w
  /\ At(c, "leave")
  /\ sem["mutex"] > 0
  /\ read_cnt' = read_cnt - 1
  /\ V("w")
  /\ Goto(c, "close")
  /\ UNCHANGED <<status, curr_time, cache, fds, got>>

ReaderLeaveNone(c) ==         \* mutant: the last reader does not post w
  /\ At(c, "leave")
  /\ sem["mutex"] > 0
  /\ read_cnt' = read_cnt - 1
  /\ Goto(c, "close")
  /\ UNCHANGED <<status, curr_time, sem, cache, fds, got>>

ReaderLeave(c) ==
  /\ At(c, "leave")
  /\ sem["mutex"] > 0
  /\ read_cnt' = read_cnt - 1
  /\ sem' = [sem EXCEPT !["w"] = IF read_cnt = 1 THEN @ + 1 ELSE @]
  /\ Goto(c, "close")
  /\ UNCHANGED <<status, curr_time, cache, fds, got>>

-----------------------------------------------------------------------------
(* serve: a miss, resend_request and the relay loop *)

\* if (total < MAX_OBJECT_SIZE), and the start of get_write_idx.
Fetched(c, sfd) ==
  th' = [th EXCEPT
           ![c].pc = IF Total(th[c].buf) < MAX_OBJECT_SIZE THEN "choose" ELSE "close",
           ![c].sfd = sfd, ![c].idx = 0, ![c].oldest = MaxConns + 1]

\* A descriptor 0 is taken for a failure: "if (proxy_serverfd > 0)".
Connect(c) ==
  /\ At(c, "connect")
  /\ fds' = [fds EXCEPT ![LowestFree] = Socket("server", c)]
  /\ IF LowestFree > 0
     THEN th' = [th EXCEPT ![c].pc = "relay", ![c].sfd = LowestFree]
     ELSE Fetched(c, LowestFree)
  /\ UNCHANGED <<status, curr_time, read_cnt, sem, cache, got>>

ConnectFails(c) ==
  /\ At(c, "connect")
  /\ th[c].object \in Failing \cup Malformed
  /\ Write(th[c].cfd, <<ErrorPage(th[c].object)>>)
  /\ Fetched(c, -1)
  /\ UNCHANGED <<curr_time, read_cnt, sem, cache, fds>>

\* Rio_readnb of the next chunk, Rio_writen of it, and the copy to cache_buf.
RelayChunk(c) ==
  LET server == fds[th[c].sfd]
      k == Chunk(th[server.conn].object, server.pos + 1)
  IN /\ At(c, "relay")
     /\ Open(th[c].sfd) /\ server.kind = "server"
     /\ k.n <= ChunkCount(k.object)
     /\ Write(th[c].cfd, <<k>>)
     /\ fds' = [fds EXCEPT ![th[c].sfd].pos = k.n]
     /\ th' = [th EXCEPT ![c].buf =
                IF Total(@) + ChunkSize(k) < MAX_OBJECT_SIZE THEN Append(@, k) ELSE @]
     /\ UNCHANGED <<curr_time, read_cnt, sem, cache>>

\* The end of the response; or an error of the connection, on which Rio_writen of
\* the request and Rio_readnb end the process.
RelayEnd(c) ==
  LET server == fds[th[c].sfd]
  IN /\ At(c, "relay")
     /\ \/ /\ Open(th[c].sfd) /\ server.kind = "server"
           /\ server.pos = ChunkCount(th[server.conn].object)
           /\ Fetched(c, th[c].sfd)
           /\ UNCHANGED <<status, fds, cache, got>>
        \/ /\ ~Open(th[c].sfd) \/ th[c].object \in Failing
           /\ Exit
        \/ /\ Open(th[c].sfd) /\ server.kind # "server"
           /\ Undefined
     /\ UNCHANGED <<curr_time, read_cnt, sem>>

-----------------------------------------------------------------------------
(* serve: filling a line *)

\* One turn of the loop of get_write_idx, or its end; idx becomes write_idx.
ChooseLine(c) ==
  LET i == th[c].idx
  IN /\ At(c, "choose")
     /\ \/ /\ i \in Lines /\ ~cache[i].valid
           /\ Goto(c, "write")
        \/ /\ i \in Lines /\ cache[i].valid
           /\ th' = [th EXCEPT
                       ![c].idx = i + 1,
                       ![c].oldest = Min({@, cache[i].timestamp}),
                       ![c].lru = IF cache[i].timestamp < th[c].oldest THEN i ELSE @]
        \/ /\ i \notin Lines
           /\ th' = [th EXCEPT ![c].pc = "write", ![c].idx = th[c].lru]
     /\ UNCHANGED <<status, curr_time, read_cnt, sem, cache, fds, got>>

WriteContentFree(c) ==        \* mutant: the writer does not wait for w
  /\ At(c, "write")
  /\ sem' = [sem EXCEPT !["w"] = 0]
  /\ cache' = [cache EXCEPT ![th[c].idx].content = th[c].buf]
  /\ th' = [th EXCEPT ![c].pc = "stamp", ![c].now = curr_time]
  /\ UNCHANGED <<status, curr_time, read_cnt, fds, got>>

WriteContent(c) ==
  /\ At(c, "write")
  /\ P("w")
  /\ cache' = [cache EXCEPT ![th[c].idx].content = th[c].buf]
  /\ th' = [th EXCEPT ![c].pc = "stamp", ![c].now = curr_time]
  /\ UNCHANGED <<status, curr_time, read_cnt, fds, got>>

WriteTimestamp(c) ==
  /\ At(c, "stamp")
  /\ cache' = [cache EXCEPT ![th[c].idx].timestamp = th[c].now]
  /\ Goto(c, "tag")
  /\ UNCHANGED <<status, curr_time, read_cnt, sem, fds, got>>

WriteHash(c) ==
  /\ At(c, "tag")
  /\ cache' = [cache EXCEPT ![th[c].idx].hash = th[c].object]
  /\ Goto(c, "validate")
  /\ UNCHANGED <<status, curr_time, read_cnt, sem, fds, got>>

WriteValid(c) ==
  /\ At(c, "validate")
  /\ cache' = [cache EXCEPT ![th[c].idx].valid = TRUE]
  /\ V("w")
  /\ Goto(c, "close")
  /\ UNCHANGED <<status, curr_time, read_cnt, fds, got>>

-----------------------------------------------------------------------------
(* serve: Close(proxy_serverfd); Close(proxy_clientfd) *)

Close(c, fd, next) ==
  \/ /\ Open(fd)
     /\ fds' = [fds EXCEPT ![fd] = Free]
     /\ Goto(c, next)
     /\ UNCHANGED <<status, cache, got>>
  \/ /\ ~Open(fd)
     /\ Exit

CloseServerNot(c) ==          \* mutant: proxy_serverfd is never closed
  /\ At(c, "close")
  /\ Goto(c, "closed")
  /\ UNCHANGED <<status, curr_time, read_cnt, sem, cache, fds, got>>

CloseServer(c) ==
  /\ At(c, "close")
  /\ Close(c, th[c].sfd, "closed")
  /\ UNCHANGED <<curr_time, read_cnt, sem>>

CloseClient(c) ==
  /\ At(c, "closed")
  /\ Close(c, th[c].cfd, "done")
  /\ UNCHANGED <<curr_time, read_cnt, sem>>

-----------------------------------------------------------------------------
serve(c) ==
  \/ ParseRequest(c) \/ CheckLine(c) \/ TouchLock(c) \/ TouchUnlock(c)
  \/ ReaderCount(c) \/ ReaderEnter(c) \/ SendCached(c) \/ ReaderLeave(c)
  \/ Connect(c) \/ ConnectFails(c) \/ RelayChunk(c) \/ RelayEnd(c)
  \/ ChooseLine(c) \/ WriteContent(c) \/ WriteTimestamp(c)
  \/ WriteHash(c) \/ WriteValid(c) \/ CloseServer(c) \/ CloseClient(c)

main == \E o \in load.objects, stack \in Uninitialised : Accept(o, stack)

Next == (main \/ \E c \in Conns : serve(c)) /\ UNCHANGED load

\* The kernel schedules every thread; a semaphore wakes whom it likes.
Fairness == \A c \in Conns : WF_vars(serve(c) /\ UNCHANGED load)

Spec == Init /\ [][Next]_vars /\ Fairness

-----------------------------------------------------------------------------
(***************************************************************************)
(* Properties                                                              *)
(***************************************************************************)
In(labels) == {c \in Conns : th[c].pc \in labels}
Writers == In({"touched", "stamp", "tag", "validate"})
Readers == In({"send", "leave"})

\* "w: lock cache while writing", "mutex: lock read_cnt" (proxy.c:63-64): one
\* writer or any number of readers, and the counters agree with who is inside.
ReadersWriters ==
  /\ Cardinality(Writers) <= 1
  /\ Writers # {} => Readers = {}
  /\ read_cnt = Cardinality(Readers) + Cardinality(In({"entered"}))
  /\ sem["w"] = IF Writers \cup Readers = {} THEN 1 ELSE 0
  /\ sem["mutex"] = IF In({"entered"}) = {} THEN 1 ELSE 0

\* A line nobody is writing holds the content and the hash of one and the same
\* response, whoever raced to fill it, and no line is ever too long for it.
NoTornLine ==
  \A i \in Lines :
    /\ Total(cache[i].content) < MAX_OBJECT_SIZE
    /\ cache[i].valid /\ ~(\E c \in Writers : th[c].idx = i)
       => \E c \in Conns : /\ th[c].object = cache[i].hash
                           /\ th[c].buf = cache[i].content

\* Every accepted connection is served to the end, unless the process ends.
Completes ==
  \A c \in Conns :
    th[c].pc = "parse" ~> th[c].pc = "done" \/ status # "running"

\* While no request is a hit (its thread then closes a descriptor it never
\* opened) and no server or client fails, the process lives, every client gets
\* a prefix of its object, the whole object once it is done, and the only
\* descriptors open belong to live connections.
Hits == {c \in In({"touch", "touched", "enter", "entered", "send", "leave",
                   "close", "closed", "done"}) : th[c].buf = <<>>}
Undisturbed ==
  Hits = {} =>
    /\ status = "running"
    /\ \A c \in 1..curr_time : /\ IsPrefix(got[c], Whole(th[c].object))
                               /\ th[c].pc = "done" => got[c] = Whole(th[c].object)
    /\ \A fd \in FDs : fds[fd].conn # 0 =>
         th[fds[fd].conn].pc \notin {"none", "done"}

\* "Use timestamp to implement the LRU eviction policy" (proxy.c:37-38): when
\* requests come one at a time, the object evicted is the one whose last
\* request is the oldest.
LastRequest(o) == Max({0} \cup {c \in Conns : c <= curr_time /\ th[c].object = o})
EvictsLRU ==
  [][load.live = 1 => \A i, j \in Lines :
       cache[i].valid /\ cache'[i].hash # cache[i].hash
         => LastRequest(cache[i].hash) <= LastRequest(cache[j].hash)]_vars

\* Requests one at a time never put an object into two lines.
NoDuplicate ==
  load.live = 1 => \A i, j \in Lines :
    cache[i].valid /\ cache[j].valid /\ cache[i].hash = cache[j].hash => i = j

\* "Cache hit: send cached object to client" (proxy.c:191): the line sent is
\* the line of the request.
HitIsOfRequest ==
  \A c \in Conns : th[c].pc = "send" => cache[th[c].idx].hash = th[c].object
=============================================================================
