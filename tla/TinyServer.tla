----------------------------- MODULE TinyServer -----------------------------
(***************************************************************************)
(* tiny.c: an iterative web server for files and CGI programs.  A client   *)
(* sends a request line and headers, the last of them a blank line, and    *)
(* gets the parts of a response, one for each Rio_writen.                  *)
(*                                                                         *)
(* A uri is the sequence of its names, and what follows a question mark.   *)
(***************************************************************************)
EXTENDS Sockets

Uri(path, query) == [path |-> path, query |-> query]
Request(method, uri) == [method |-> method, uri |-> uri]

\* What clients ask for.
Asks ==
  {Request("GET", u) : u \in
     {Uri(<<"/">>, <<>>), Uri(<<"page">>, <<"?">>), Uri(<<"empty">>, <<>>),
      Uri(<<"cgi-bin", "adder">>, <<"?">>), Uri(<<"cgi-bin", "/">>, <<>>)}}
  \cup {Request("POST", Uri(<<"page">>, <<>>))}

\* The files under the directory tiny runs in; others are missing.
Missing == [reg |-> FALSE, mode |-> {}, size |-> 0]
stat(filename) ==
  CASE filename = <<"/", "home.html">>   -> [reg |-> TRUE, mode |-> {"read"}, size |-> 1]
    [] filename = <<"page">>             -> [reg |-> TRUE, mode |-> {"read"}, size |-> 1]
    [] filename = <<"empty">>            -> [reg |-> TRUE, mode |-> {"read"}, size |-> 0]
    [] filename = <<"cgi-bin", "adder">> -> [reg |-> TRUE, mode |-> {"read", "exec"}, size |-> 1]
    [] filename = <<"cgi-bin", "/">>     -> [reg |-> FALSE, mode |-> {"read", "exec"}, size |-> 1]
    [] OTHER                             -> Missing

-----------------------------------------------------------------------------
(* The response to a request *)

parse_uriUncut(u) ==         \* mutant: the arguments stay part of the name
  LET whole == u.path \o u.query
  IN [is_static |-> ~Contains(whole, "cgi-bin"),
      filename |-> IF Last(whole) = "/" THEN Append(whole, "home.html") ELSE whole]

\* The arguments are cut off only where a program is named.
parse_uri(u) ==
  LET whole == u.path \o u.query
  IN IF ~Contains(whole, "cgi-bin")
     THEN [is_static |-> TRUE,
           filename |-> IF Last(whole) = "/" THEN Append(whole, "home.html") ELSE whole]
     ELSE [is_static |-> FALSE, filename |-> u.path]

clienterror(errnum) == <<errnum, "Content-type", "Content-length", "body">>
serve_static(size) == IF size = 0 THEN <<"200">> ELSE <<"200", "content">>
serve_dynamic == <<"200", "Server">>

\* doit; the output of a CGI program comes from the program.
Reply(request) ==
  LET to == parse_uri(request.uri)
      file == stat(to.filename)
      needs == IF to.is_static THEN "read" ELSE "exec"
  IN IF request.method # "GET" THEN clienterror("501")
     ELSE IF file = Missing THEN clienterror("404")
     ELSE IF ~file.reg \/ needs \notin file.mode THEN clienterror("403")
     ELSE IF to.is_static THEN serve_static(file.size) ELSE serve_dynamic

\* Mmap does not map an empty file, and ends the process.
Fatal(request) == Reply(request) = <<"200">>

-----------------------------------------------------------------------------
(* doit *)

Took(p, n) == [proc[p] EXCEPT !.rio = SubSeq(@, n + 1, Len(@))]
Whole(p, n) == LineIn(proc[p].rio) = n
Respond(r, parts) == [r EXCEPT !.pc = "reply", !.line = parts]

\* The request line; of half a line at the end of file the method may be missing.
RequestLine(p, c) ==
  LET n == Readline(p, c)
      error == Respond(Took(p, n), clienterror("501"))
      go == [Took(p, n) EXCEPT !.pc = "headers"]
  IN /\ At(p, "request") /\ n > 0
     /\ \E r \in IF ~Whole(p, n) THEN {error, go}
                 ELSE IF asks[c].method # "GET" THEN {error} ELSE {go} : proc' = [proc EXCEPT ![p] = r]
     /\ UNCHANGED <<fixed, client, backlog, files, cell, buffer, count, pool, sig, heard>>

NoRequest(p, c) ==
  /\ At(p, "request") /\ proc[p].rio = <<>> /\ AtEof(c)
  /\ proc' = Goto(p, "finish")
  /\ UNCHANGED <<fixed, client, backlog, files, cell, buffer, count, pool, sig, heard>>

\* read_requesthdrs up to the blank line.  At the end of file Rio_readlineb leaves
\* buf as it is, and the loop has no end.
read_requesthdrs(p, c) ==
  LET n == Readline(p, c)
      blank == Whole(p, n) /\ proc[p].rio[n][2] = Pieces
  IN /\ At(p, "headers") /\ n > 0
     /\ proc' = [proc EXCEPT ![p] = IF blank THEN Respond(Took(p, n), Reply(asks[c])) ELSE Took(p, n)]
     /\ UNCHANGED <<fixed, client, backlog, files, cell, buffer, count, pool, sig, heard>>

\* One Rio_writen after the other, and what follows the last.
AfterReply(p, c) ==
  IF Len(proc[p].line) > 1 THEN "reply"
  ELSE IF proc[p].line[1] = "Server" THEN "fork"
  ELSE IF proc[p].line[1] = Last(Reply(asks[c])) /\ Fatal(asks[c]) THEN "mmap"
  ELSE "finish"

WriteReply(p, c) ==
  /\ At(p, "reply")
  /\ cli' = IF cli[c].st = "left" THEN cli ELSE [cli EXCEPT ![c].got = Append(@, Head(proc[p].line))]
  /\ proc' = [proc EXCEPT ![p].pc = AfterReply(p, c), ![p].line = Tail(@)]
  /\ UNCHANGED <<fixed, sock, backlog, files, cell, buffer, count, pool, sig, heard>>

\* SIGPIPE, or Mmap of nothing.
Killed(p, c) ==
  /\ At(p, "mmap") \/ (At(p, "reply") /\ cli[c].st = "left")
  /\ dead' = dead \cup {p}
  /\ UNCHANGED <<fixed, client, backlog, files, proc, cell, buffer, count, pool, zombies, sigchld, heard>>

\* serve_dynamic: the child has a copy of the connection for its output,
ForkCGI(p, c) ==
  /\ At(p, "fork")
  /\ files' = [files EXCEPT ![c] = files[p]]
  /\ proc' = [proc EXCEPT ![c] = Proc("cgi", proc[p].fd), ![p].pc = "wait"]
  /\ UNCHANGED <<fixed, client, backlog, cell, buffer, count, pool, sig, heard>>

\* writes it and ends, or is ended by SIGPIPE.
CGI(p, c) ==
  /\ At(p, "cgi")
  /\ cli' = IF cli[c].st = "left" THEN cli ELSE [cli EXCEPT ![c].got = Append(@, "output")]
  /\ dead' = dead \cup {p} /\ zombies' = zombies \cup {p}
  /\ UNCHANGED <<fixed, sock, backlog, files, proc, cell, buffer, count, pool, sigchld, heard>>

WaitNot(p) ==        \* mutant: Wait(NULL) forgotten
  /\ At(p, "wait")
  /\ proc' = Goto(p, "finish")
  /\ UNCHANGED <<fixed, client, backlog, files, cell, buffer, count, pool, sig, heard>>

Wait(p) ==
  /\ At(p, "wait")
  /\ \E z \in zombies : zombies' = zombies \ {z}
  /\ proc' = Goto(p, "finish")
  /\ UNCHANGED <<fixed, client, backlog, files, cell, buffer, count, pool, sigchld, dead, heard>>

CloseConn(p) ==
  /\ At(p, "finish")
  /\ files' = [files EXCEPT ![p][proc[p].fd] = None]
  /\ proc' = [proc EXCEPT ![p] = Proc("accept", None)]
  /\ UNCHANGED <<fixed, client, backlog, cell, buffer, count, pool, sig, heard>>

doit(p, c) ==
  \/ RequestLine(p, c) \/ NoRequest(p, c) \/ read_requesthdrs(p, c) \/ WriteReply(p, c)
  \/ Killed(p, c) \/ ForkCGI(p, c) \/ CGI(p, c) \/ Wait(p) \/ CloseConn(p)
=============================================================================
