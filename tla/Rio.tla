-------------------------------- MODULE Rio --------------------------------
(***************************************************************************)
(* The robust I/O package of csapp.c on one connection: a peer that sends  *)
(* with rio_writen and closes, and a reader that mixes rio_readlineb and   *)
(* rio_readnb, and rio_readn while nothing is buffered, until it sees the  *)
(* end of file.  A byte is its position in the stream.  read and write are *)
(* the kernel's: they transfer fewer bytes than asked for, are             *)
(* interrupted, or fail.                                                   *)
(***************************************************************************)
EXTENDS Integers, Sequences, SequencesExt

CONSTANTS Total,        \* the length of the stream
          Newlines,     \* the positions of its newlines
          RIO_BUFSIZE,  \* the size of the internal buffer, 8192
          Room,         \* the bytes the socket holds
          MaxLens,      \* the maxlen of rio_readlineb and the n of rio_readnb
          MaxIntr       \* bound on the interrupted system calls

ASSUME RioAssumption ==
  /\ Total \in Nat /\ RIO_BUFSIZE \in Nat \ {0} /\ Room \in Nat \ {0}
  /\ Newlines \subseteq 1..Total
  /\ MaxLens \subseteq Nat \ {0, 1}
  /\ MaxIntr \in Nat

VARIABLES peer,    \* pos: the bytes sent; nleft: of the current rio_writen
          sock,    \* the bytes in the socket
          rp,      \* the reader's rio_t: cnt, bufptr and buf
          call,    \* the reader's call, and the bytes in its usrbuf
          out,     \* the bytes the calls have returned
          intr     \* the interruptions so far

rioVars == <<peer, sock, rp, call, out, intr>>

NoCall == [op |-> "none", max |-> 0, bytes |-> <<>>]

RioInit ==
  /\ peer = [pos |-> 0, nleft |-> 0, open |-> TRUE]
  /\ sock = <<>>
  /\ rp = [cnt |-> 0, bufptr |-> 0, buf |-> [i \in 0..RIO_BUFSIZE-1 |-> 0]]
  /\ call = NoCall
  /\ out = <<>>
  /\ intr = 0

-----------------------------------------------------------------------------
\* The peer.

Rio_writen(n) ==
  /\ peer.open /\ peer.nleft = 0
  /\ peer.pos + n <= Total
  /\ peer' = [peer EXCEPT !.nleft = n]
  /\ UNCHANGED <<sock, rp, call, out, intr>>

WriteAgain(k) ==     \* mutant: bufp does not move on after a short count
  /\ k <= peer.nleft /\ k <= Room - Len(sock)
  /\ sock' = sock \o [i \in 1..k |-> peer.pos + i]
  /\ peer' = [peer EXCEPT !.nleft = @ - k, !.pos = IF k < peer.nleft THEN @ ELSE @ + k]
  /\ UNCHANGED <<rp, call, out, intr>>

\* write takes k of the bytes left.
Write(k) ==
  /\ k <= peer.nleft /\ k <= Room - Len(sock)
  /\ sock' = sock \o [i \in 1..k |-> peer.pos + i]
  /\ peer' = [peer EXCEPT !.nleft = @ - k, !.pos = @ + k]
  /\ UNCHANGED <<rp, call, out, intr>>

WriteInterrupted ==
  /\ peer.nleft > 0 /\ intr < MaxIntr
  /\ intr' = intr + 1
  /\ UNCHANGED <<peer, sock, rp, call, out>>

\* write fails, and the wrapper ends the peer.
WriteFails ==
  /\ peer.nleft > 0
  /\ peer' = [peer EXCEPT !.open = FALSE, !.nleft = 0]
  /\ UNCHANGED <<sock, rp, call, out, intr>>

Close ==
  /\ peer.open /\ peer.nleft = 0 /\ peer.pos = Total
  /\ peer' = [peer EXCEPT !.open = FALSE]
  /\ UNCHANGED <<sock, rp, call, out, intr>>

-----------------------------------------------------------------------------
\* The reader.

Start(op, max) ==
  /\ call.op = "none"
  /\ op = "raw" => rp.cnt <= 0      \* rio_readn does not see what is buffered
  /\ call' = [op |-> op, max |-> max, bytes |-> <<>>]
  /\ UNCHANGED <<peer, sock, rp, out, intr>>

Finished(c) ==
  CASE c.op = "line" -> \/ Len(c.bytes) = c.max - 1
                        \/ c.bytes # <<>> /\ Last(c.bytes) \in Newlines
    [] c.op \in {"n", "raw"} -> Len(c.bytes) = c.max
    [] OTHER         -> FALSE

Refills == call.op \in {"line", "n"} /\ rp.cnt <= 0
Reads   == Refills \/ call.op = "raw"
Failed  == IF Refills THEN [rp EXCEPT !.cnt = -1] ELSE rp

ReadStale(k) ==     \* mutant: bufptr is not reset
  /\ Refills
  /\ k <= Len(sock)
  /\ rp' = [rp EXCEPT !.cnt = k,
                      !.buf = [i \in DOMAIN @ |-> IF i < k THEN sock[i+1] ELSE @[i]]]
  /\ sock' = SubSeq(sock, k + 1, Len(sock))
  /\ UNCHANGED <<peer, call, out, intr>>

\* rio_read refills its buffer: read returns k bytes,
Read(k) ==
  /\ Refills
  /\ k <= Len(sock)
  /\ rp' = [cnt |-> k, bufptr |-> 0,
            buf |-> [i \in DOMAIN rp.buf |-> IF i < k THEN sock[i+1] ELSE rp.buf[i]]]
  /\ sock' = SubSeq(sock, k + 1, Len(sock))
  /\ UNCHANGED <<peer, call, out, intr>>

\* or, in rio_readn, reads into usrbuf;
ReadN(k) ==
  LET done == [call EXCEPT !.bytes = @ \o SubSeq(sock, 1, k)]
  IN /\ call.op = "raw"
     /\ k <= Min({Len(sock), call.max - Len(call.bytes)})
     /\ call' = IF Finished(done) THEN NoCall ELSE done
     /\ out' = IF Finished(done) THEN out \o done.bytes ELSE out
     /\ sock' = SubSeq(sock, k + 1, Len(sock))
     /\ UNCHANGED <<peer, rp, intr>>

\* is interrupted and called again,
ReadInterrupted ==
  /\ Reads /\ intr < MaxIntr
  /\ rp' = Failed
  /\ intr' = intr + 1
  /\ UNCHANGED <<peer, sock, call, out>>

ReadEofNot ==     \* mutant: the end of file is taken for an empty buffer
  /\ Reads /\ sock = <<>> /\ ~peer.open
  /\ UNCHANGED rioVars

\* finds the end of file, and the call returns what it has; a caller stops
\* when that is nothing,
ReadEof ==
  /\ Reads /\ sock = <<>> /\ ~peer.open
  /\ rp' = IF Refills THEN [rp EXCEPT !.cnt = 0] ELSE rp
  /\ call' = IF call.bytes = <<>> THEN [call EXCEPT !.op = "eof"] ELSE NoCall
  /\ out' = out \o call.bytes
  /\ UNCHANGED <<peer, sock, intr>>

\* or fails, and the wrapper ends the program.
ReadFails ==
  /\ Reads
  /\ rp' = Failed
  /\ call' = [call EXCEPT !.op = "exited"]
  /\ UNCHANGED <<peer, sock, out, intr>>

\* rio_read copies what is asked for or what the buffer has, and the call
\* returns or asks for more.
Copied(cnt) == [call EXCEPT !.bytes = @ \o [i \in 1..cnt |-> rp.buf[rp.bufptr + i - 1]]]

CopyToNewline ==     \* mutant: rio_readlineb copies all that is buffered
  /\ call.op \in {"line", "n"} /\ rp.cnt > 0
  /\ LET cnt  == Min({call.max - Len(call.bytes), rp.cnt})
         done == Finished(Copied(cnt))
     IN /\ rp' = [rp EXCEPT !.bufptr = @ + cnt, !.cnt = @ - cnt]
        /\ call' = IF done THEN NoCall ELSE Copied(cnt)
        /\ out' = IF done THEN out \o Copied(cnt).bytes ELSE out
  /\ UNCHANGED <<peer, sock, intr>>

Copy ==
  /\ call.op \in {"line", "n"} /\ rp.cnt > 0
  /\ LET cnt  == Min({IF call.op = "line" THEN 1 ELSE call.max - Len(call.bytes), rp.cnt})
         done == Finished(Copied(cnt))
     IN /\ rp' = [rp EXCEPT !.bufptr = @ + cnt, !.cnt = @ - cnt]
        /\ call' = IF done THEN NoCall ELSE Copied(cnt)
        /\ out' = IF done THEN out \o Copied(cnt).bytes ELSE out
  /\ UNCHANGED <<peer, sock, intr>>

-----------------------------------------------------------------------------
Send == (\E k \in 1..Room : Write(k)) \/ Close
Receive == (\E k \in 1..RIO_BUFSIZE : Read(k)) \/ (\E k \in 1..Room : ReadN(k)) \/ ReadEof \/ Copy

Ops == {"line", "n", "raw"}

RioNext ==
  \/ \E n \in 1..Total : Rio_writen(n)
  \/ \E k \in 1..Room : Write(k)
  \/ WriteInterrupted
  \/ WriteFails
  \/ Close
  \/ \E op \in Ops, max \in MaxLens : Start(op, max)
  \/ \E k \in 1..RIO_BUFSIZE : Read(k)
  \/ \E k \in 1..Room : ReadN(k)
  \/ ReadInterrupted
  \/ ReadEof
  \/ ReadFails
  \/ Copy

\* The peer sends all it has and the reader keeps reading: both are sequential
\* programs that nothing but the system calls above holds up.
RioFairness ==
  /\ WF_rioVars(Send)
  /\ WF_rioVars(\E n \in 1..Total : Rio_writen(n))
  /\ WF_rioVars(\E op \in Ops, max \in MaxLens : Start(op, max))
  /\ WF_rioVars(Receive)

RioSpec == RioInit /\ [][RioNext]_rioVars /\ RioFairness

-----------------------------------------------------------------------------
Unread == [i \in 1..(IF rp.cnt < 0 THEN 0 ELSE rp.cnt) |-> rp.buf[rp.bufptr + i - 1]]

\* No byte is lost, repeated or overtaken: what the calls returned, then what
\* the current call has, the internal buffer and the socket hold, is the stream
\* as far as the peer has sent it, whatever mix of calls and short counts; and
\* a call stores no more than usrbuf has room for.
Conserved ==
  /\ Len(call.bytes) + (IF call.op = "line" THEN 1 ELSE 0) <= call.max
  /\ out \o call.bytes \o Unread \o sock = [i \in 1..peer.pos |-> i]

\* A rio_readlineb that returns hands out no byte past a newline, and less than
\* a line only where usrbuf is full or the stream ends.
WholeLines ==
  [][call.op = "line" /\ call'.op # "line" /\ call'.op # "exited" =>
       LET line == {i \in 1..Total : Len(out) < i /\ i <= Len(out')}
       IN /\ \A i \in line : i \in Newlines => i = Len(out')
          /\ \/ Len(out') \in Newlines
             \/ Len(out') = Len(out) + call.max - 1
             \/ Len(out') = peer.pos /\ ~peer.open]_rioVars

\* The reader gets the whole stream and then its end, unless read fails, or write,
\* and then it gets what was written before.
Delivers ==
  <>(call.op = "exited" \/ (call.op = "eof" /\ Len(out) = peer.pos))
=============================================================================
