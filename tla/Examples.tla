------------------------------ MODULE Examples ------------------------------
(***************************************************************************)
(* The example programs on processes, signals and threads (ecf/ and conc/  *)
(* of code_examples), as code for Machine, and what each of them is an     *)
(* example of.  Labels are positions in the code; a handler is named with  *)
(* the position where it starts; r has the pid that fork or waitpid gave.  *)
(* Loops without end run until fork fails.                                 *)
(***************************************************************************)
EXTENDS Machine

Program(code, handlers) == [code |-> code, handlers |-> handlers]
Plain(code) == Program(code, <<>>)

-----------------------------------------------------------------------------
(* fork *)

fork == Plain(<<
  Set("x", 1), Fork(6), Inc("x", -1), Out("x"), Exit(0),
  Inc("x", 1), Out("x"), Exit(0) >>)

forkprob0 == Plain(<< Set("x", 1), Fork(4), Jump(6), Inc("x", 1), Out("x"), Inc("x", -1), Out("x"), Exit(0) >>)
forkprob1 == Plain(<< Fork(2), Fork(3), Out(""), Exit(0) >>)
\* i is set where end has been registered with atexit.
forkprob2 == Plain(<< Fork(3), Jump(4), Set("i", 1), Fork(7), Out(""), Jump(8), Out(""),
                      If0("i", 10), Out(""), Exit(0) >>)
forkprob3 == Plain(<< Set("x", 3), Fork(5), Inc("x", 1), Out("x"), Inc("x", -1), Out("x"), Exit(0) >>)
forkprob4 == Plain(<< Fork(2), Fork(3), Out(""), Out(""), Exit(0) >>)
forkprob5 == Plain(<< Fork(4), Out(""), Exit(0), Fork(5), Out(""), Exit(0) >>)
forkprob6 == Plain(<< Fork(3), Jump(5), Fork(4), Out(""), Out(""), Exit(0) >>)
forkprob7 == Plain(<< Set("x", 1), Fork(7), Wait(0), Inc("x", 1), Out("x"), Exit(0), Inc("x", -1), Exit(0) >>)
\* foo(2)
forkprob8 == Plain(<< Set("i", -2), If0("i", 6), Fork(4), Inc("i", 1), Jump(2), Out(""), Exit(0) >>)

-----------------------------------------------------------------------------
(* wait *)

waitpid1 == Plain(<< Fork(6), Fork(7), Wait(8), Out("s"), Jump(3), Exit(100), Exit(101), Exit(0) >>)
\* The third waitpid, of a pid read past the array, fails whatever the pid is.
waitpid2 == Plain(<< Fork(10), Mov("x", "r"), Fork(11), Mov("y", "r"),
                     Waitpid("x"), Out("s"), Waitpid("y"), Out("s"), Exit(0), Exit(100), Exit(101) >>)
waitprob0 == Plain(<< Fork(5), Out(""), Wait(4), Jump(6), Out(""), Out(""), Exit(0) >>)
waitprob1 == Plain(<< Out(""), Fork(3), Out(""), If0("r", 7), Wait(7), Out("s"), Out(""), Exit(2) >>)
waitprob3 == Plain(<< Fork(6), Out(""), Wait(4), Out(""), Exit(0), Out(""), Exit(0) >>)

\* A line ends the shell (EOF, quit), is ignored (empty, &), or is a command in
\* the foreground or the background, which is found or not.
shellex == Plain(<<
  Input({1, 2, 6, 11}), Fork(9), Mov("x", "r"), Waitpid("x"), Jump(1),
  Fork(9), Out("r"), Jump(1), Input({10, 12}), Out(""), Exit(0), Quit(0) >>)

-----------------------------------------------------------------------------
(* Signals *)

kill == Plain(<< Fork(4), Kill("r", "KILL"), Exit(0), Pause, Check("r", -1), Exit(0) >>)

\* while ((pid = waitpid(-1, NULL, 0)) > 0) delete the job
handler(at) == << Wait(at+5), Block(Signals, TRUE), Deletejob, SetMask, Jump(at), Return >>

procmask1 == Program(<<
  Signal("CHLD"), Fork(7), Block(Signals, TRUE), Addjob, SetMask, Jump(2), Exit(0) >> \o handler(8),
  [CHLD |-> 8])

procmask2 == Program(<<
  Signal("CHLD"), Block({"CHLD"}, TRUE), Fork(8), Block(Signals, FALSE), Addjob, SetMask, Jump(2),
  SetMask, Exit(0) >> \o handler(10),
  [CHLD |-> 10])

\* Three children; then a line is read, and main loops.
Parent == << Signal("CHLD"), Fork(7), Fork(7), Fork(7), Out(""), Spin, Out(""), Exit(0) >>
signal1 == Program(Parent \o << Wait(0), Out(""), Return >>, [CHLD |-> 9])
signal2 == Program(Parent \o << Wait(12), Out(""), Jump(9), Return >>, [CHLD |-> 9])

signalprob0 == Program(<<
  Set("x", 2), Out("x"), Signal("USR"), Fork(12), Kill("r", "USR"), Wait(0),
  Block(Signals, TRUE), Inc("x", 1), Put("x"), SetMask, Exit(0), Spin,
  Block(Signals, TRUE), Inc("x", -1), Out("x"), SetMask, Quit(0) >>,
  [USR |-> 13])

\* x is the global pid.  The dots stay in the buffer, and in that of every child.
sigsuspend == Program(<<
  Signal("CHLD"), Signal("INT"), Block({"CHLD"}, TRUE), Fork(12), Set("x", 0),
  If0("x", 10), SetMask, Put(""), Jump(3), Suspend, Jump(6), Exit(0),
  Wait(0), Mov("x", "r"), Return, Return >>,
  [CHLD |-> 13, INT |-> 16])

waitforsignal == Program(<<
  Signal("CHLD"), Signal("INT"), Block({"CHLD"}, TRUE), Fork(10), Set("x", 0), SetMask,
  If0("x", 7), Put(""), Jump(3), Exit(0), Wait(0), Mov("x", "r"), Return, Return >>,
  [CHLD |-> 11, INT |-> 14])

\* x is counter.
counterprob == Program(<<
  Signal("USR"), Fork(6), Wait(0), Out("x"), Exit(0),
  Set("i", -5), Kill("parent", "USR"), Out(""), Inc("i", 1), If0("i", 12), Jump(7), Exit(0),
  Inc("x", 1), Return >>,
  [USR |-> 13])

sigint == Program(<< Signal("INT"), Pause, Exit(0), Out(""), Exit(0) >>, [INT |-> 4])
sigintsafe == Program(<< Signal("INT"), Pause, Exit(0), Out(""), Quit(0) >>, [INT |-> 4])

\* x and y are error1 and error2; s is what setjmp returns.
setjmp == Plain(<<
  Set("y", 1), If0("x", 5), Set("s", 1), Jump(8), If0("y", 9), Set("s", 2), Jump(8), Out("s"), Exit(0) >>)

restart == Program(<< Signal("INT"), Out(""), Spin, Longjmp(5), Out(""), Jump(3) >>, [INT |-> 4])

-----------------------------------------------------------------------------
(* Threads *)

hello == Plain(<< Create(4, "i"), Join, Exit(0), Out(""), Finish >>)
hellobug == Plain(<< Create(3, "i"), Exit(0), Out(""), Finish >>)

\* v += n in memory: a load, an addition and a store.
Bump(v, n) == << Mov("r", v), Inc("r", n), Mov(v, "r") >>

\* niters is 2; x is cnt.
badcnt == Plain(<< Create(6, "i"), Create(6, "i"), Join, Check("x", 4), Exit(0) >>
                \o Bump("x", 1) \o Bump("x", 1) \o << Finish >>)

\* N is 3, and x is i: read by the thread, or copied for it.
race == Plain(<< Create(9, "i"), Inc("x", 1), Create(9, "i"), Inc("x", 1), Create(9, "i"), Set("x", 0), Join,
                 Exit(0), Mov("r", "x"), Out("r"), Finish >>)
norace == Plain(<< Create(8, "x"), Inc("x", 1), Create(8, "x"), Inc("x", 1), Create(8, "x"), Join,
                   Exit(0), Out("i"), Finish >>)

\* x is the static cnt, whose printed value is left out.
sharing == Plain(<< Create(5, "s"), Inc("s", 1), Create(5, "s"), Finish >> \o Bump("x", 1) \o << Out("i"), Finish >>)

\* Two threads add 0..3; x and y are psum[0] and psum[1], or x is gsum.
sum_array == << Create(7, "i"), Create(14, "i"), Join, Plus("x", "y"), Check("x", 6), Exit(0) >>
             \o Bump("x", 0) \o Bump("x", 1) \o << Finish >> \o Bump("y", 2) \o Bump("y", 3) \o << Finish >>
psum_array == Plain(sum_array)
psum_local == Plain(<< Create(7, "i"), Create(11, "i"), Join, Plus("x", "y"), Check("x", 6), Exit(0),
                       Inc("s", 0), Inc("s", 1), Mov("x", "s"), Finish,
                       Inc("s", 2), Inc("s", 3), Mov("y", "s"), Finish >>)
Guarded(v, n) == << P >> \o Bump(v, n) \o << V >>
psum_mutex == Plain(<< Create(6, "i"), Create(17, "i"), Join, Check("x", 6), Exit(0) >>
                    \o Guarded("x", 0) \o Guarded("x", 1) \o << Finish >>
                    \o Guarded("x", 2) \o Guarded("x", 3) \o << Finish >>)

\* strcpy from the shared string x to the private y.
ctime_ts == Plain(<< P, Set("x", 1), Mov("y", "x"), V, Out("y"), Exit(0) >>)

-----------------------------------------------------------------------------
AllPrograms ==
  [fork |-> fork, forkprob0 |-> forkprob0, forkprob1 |-> forkprob1, forkprob2 |-> forkprob2,
   forkprob3 |-> forkprob3, forkprob4 |-> forkprob4, forkprob5 |-> forkprob5, forkprob6 |-> forkprob6,
   forkprob7 |-> forkprob7, forkprob8 |-> forkprob8, waitpid1 |-> waitpid1, waitpid2 |-> waitpid2,
   waitprob0 |-> waitprob0, waitprob1 |-> waitprob1, waitprob3 |-> waitprob3, shellex |-> shellex,
   kill |-> kill, procmask1 |-> procmask1, procmask2 |-> procmask2, signal1 |-> signal1, signal2 |-> signal2,
   signalprob0 |-> signalprob0, sigsuspend |-> sigsuspend, waitforsignal |-> waitforsignal,
   counterprob |-> counterprob, sigint |-> sigint, sigintsafe |-> sigintsafe, setjmp |-> setjmp,
   restart |-> restart, hello |-> hello, hellobug |-> hellobug, badcnt |-> badcnt, race |-> race,
   norace |-> norace, sharing |-> sharing, psum_array |-> psum_array, psum_local |-> psum_local,
   psum_mutex |-> psum_mutex, ctime_ts |-> ctime_ts]

\* Those whose source says "WARNING: This code is buggy!".
Buggy == {"procmask1", "signal1", "hellobug", "badcnt", "race"}

\* The dots of a program that prints one after each child, which it forks until
\* that fails: every child has those before it in its buffer, and main all.
Dots == (MaxTasks * (MaxTasks - 1)) \div 2

\* How many lines a program prints when it runs to its end, in all.
Lines ==
  [fork |-> 2, forkprob0 |-> 3, forkprob1 |-> 4, forkprob2 |-> 6, forkprob3 |-> 3, forkprob4 |-> 8,
   forkprob5 |-> 3, forkprob6 |-> 5, forkprob7 |-> 1, forkprob8 |-> 4, waitpid1 |-> 2, waitpid2 |-> 2,
   waitprob0 |-> 4, waitprob1 |-> 6, waitprob3 |-> 3, kill |-> 0, procmask1 |-> 0, procmask2 |-> 0,
   signal1 |-> 7, signal2 |-> 7, signalprob0 |-> 3, sigsuspend |-> Dots, waitforsignal |-> Dots,
   counterprob |-> 6, sigint |-> 1, sigintsafe |-> 1, setjmp |-> 1, hello |-> 1, hellobug |-> 1,
   badcnt |-> 0, race |-> 3, norace |-> 3, sharing |-> 2, psum_array |-> 0, psum_local |-> 0,
   psum_mutex |-> 0, ctime_ts |-> 1]

\* Those that wait for their children before the last line.
Waiting == {"forkprob7", "waitpid1", "waitpid2", "waitprob0", "waitprob1", "waitprob3", "signalprob0",
            "sigsuspend", "waitforsignal", "counterprob"}

Idle(t) == Running(t) /\ Deliverable(t) = {} /\ Ins(t).op \in {"spin", "pause", "input"}
Stopped == \A t \in Tasks : Running(t) => t = 0 /\ Idle(t)
\* ctrl-c arrived before the handler was installed.
Killed == task[0].status = -1
RanToEnd == Stopped /\ ~Killed /\ (Running(0) => Ins(0).op = "spin")
Printed == FoldFunction(\o, <<>>, out)

\* In every interleaving a program that is not marked as buggy reports no error
\* (a wrong sum, a job added after it was deleted, a line never to be reached),
\* and at its end every task has printed all of its lines, and what a process had
\* in its buffer when it was made (sigsuspend.c:28-29 and 40), threads with
\* different arguments different ones; at its prompt the shell has only the
\* children it announced as background jobs (shellex.c:50, psum-mutex.c:48,
\* norace.c:30, procmask2.c:51, kill.c:11, signal2.c:8).
AsPromised ==
  prog \notin Buggy =>
    /\ ~fault
    /\ RanToEnd /\ prog \in DOMAIN Lines => Len(Printed) = Lines[prog]
    /\ prog \in {"norace", "sharing", "waitpid1"} => IsInjective(Printed)
    /\ prog = "shellex" /\ task[0].pc = 1 => Cardinality(Children(0)) = Len(out[0])

\* A program that waits for its children prints its last line after all of
\* theirs, and leaves none unreaped; signal2 leaves none either (waitprob0.c:14,
\* sigsuspend.c:33, signal2.c:8).
LastWord ==
  RanToEnd =>
    /\ prog \in Waiting => last = 0
    /\ prog \in Waiting \cup {"signal2"} => Children(0) = {}

\* Every program comes to its end, or to where it waits for the terminal: no
\* signal that was to wake it is lost (sigsuspend.c:34, psum-mutex.c:65).
Ends == <>Stopped
=============================================================================
