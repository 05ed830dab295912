------------------------------ MODULE Machine ------------------------------
(***************************************************************************)
(* Processes, signals and threads as the example programs use them: every  *)
(* task executes the code of one program, one call or one access to memory *)
(* per step.  The calls are those of csapp.c, whose wrappers end the       *)
(* process when the call fails.                                            *)
(*                                                                         *)
(* A task has the locals r, i and s and a jump back for every handler that *)
(* interrupts it, all copied by fork; a process has a memory, shared by    *)
(* its threads and copied by fork.  Output is line buffered (a terminal):  *)
(* what has no newline yet stays in a buffer of the process, which fork    *)
(* copies and exit prints.  No program here fills it.                      *)
(***************************************************************************)
EXTENDS Integers, Sequences, FiniteSets, SequencesExt, FiniteSetsExt

CONSTANTS MaxTasks,      \* bound: the tasks of a program, main included; then fork fails
          MaxKeys,       \* bound: how often the terminal sends SIGINT
          Programs       \* a function from names to programs: code and handlers

ASSUME MachineAssumption == MaxTasks \in Nat \ {0} /\ MaxKeys \in Nat

Tasks == 0..MaxTasks-1
Locals == {"r", "i", "s"}
Globals == {"x", "y"}
Signals == {"CHLD", "INT", "USR"}      \* those that can be caught

VARIABLES prog,                    \* the program that is run
          task, mem, mutex,
          jobs, deleted,           \* the job list; the pids deleted from it
          out, last,               \* the lines each task has printed; who printed the last one
         unflushed,               \* the buffer of each process
          fault,                   \* an error was reported, or a job added too late
          keys

output == <<out, last, unflushed>>
effects == <<mutex, jobs, deleted, output, fault>>
vars == <<prog, task, mem, effects, keys>>

NoTask == [st |-> "none", own |-> 0, parent |-> 0, pc |-> 1, loc |-> [l \in Locals |-> 0], status |-> 0,
           hnd |-> {}, mask |-> {}, prev |-> {}, pend |-> {}, ret |-> <<>>]

Init ==
  /\ prog \in DOMAIN Programs
  /\ task = [t \in Tasks |-> IF t = 0 THEN [NoTask EXCEPT !.st = "run"] ELSE NoTask]
  /\ mem = [t \in Tasks |-> [g \in Globals |-> 0]]
  /\ mutex = 1 /\ jobs = {} /\ deleted = {} /\ fault = FALSE /\ keys = 0
  /\ out = [t \in Tasks |-> <<>>] /\ unflushed = [t \in Tasks |-> <<>>] /\ last = 0

Running(t) == task[t].st = "run"
Unused == {t \in Tasks : task[t].st = "none"}
Value(t, v) == IF v \in Locals THEN task[t].loc[v] ELSE mem[task[t].own][v]
Children(t) == {c \in Tasks : task[c].parent = t /\ c # 0 /\ task[c].own = c /\ task[c].st \in {"run", "zombie"}}
Zombies(t) == {c \in Children(t) : task[c].st = "zombie"}

\* A signal that is pending and not blocked is delivered before anything else.
Deliverable(t) == task[t].pend \ task[t].mask

Ins(t) == Programs[prog].code[task[t].pc]
At(t, ops) == Running(t) /\ Deliverable(t) = {} /\ Ins(t).op \in ops
Step(t) == [task EXCEPT ![t].pc = @ + 1]
To(t, l) == [task EXCEPT ![t].pc = l]

-----------------------------------------------------------------------------
(* Memory and output *)

Set(v, n)    == [op |-> "set", v |-> v, n |-> n]
Mov(v, w)    == [op |-> "mov", v |-> v, w |-> w]
Inc(v, n)    == [op |-> "inc", v |-> v, n |-> n]
Plus(v, w)   == [op |-> "plus", v |-> v, w |-> w]
If0(v, to)   == [op |-> "if0", v |-> v, to |-> to]
Jump(to)     == [op |-> "jump", to |-> to]
Input(labels) == [op |-> "input", labels |-> labels]     \* what is read decides where it goes
Out(v)       == [op |-> "out", v |-> v]
Put(v)       == [op |-> "put", v |-> v]
Check(v, n)  == [op |-> "check", v |-> v, n |-> n]

Assign(t) ==
  /\ At(t, {"set", "mov", "inc", "plus"})
  /\ LET v == Ins(t).v
         new == CASE Ins(t).op = "set" -> Ins(t).n
                  [] Ins(t).op = "mov" -> Value(t, Ins(t).w)
                  [] Ins(t).op = "inc" -> Value(t, v) + Ins(t).n
                  [] Ins(t).op = "plus" -> Value(t, v) + Value(t, Ins(t).w)
     IN IF v \in Locals THEN task' = [Step(t) EXCEPT ![t].loc[v] = new] /\ UNCHANGED mem
        ELSE task' = Step(t) /\ mem' = [mem EXCEPT ![task[t].own][v] = new]
  /\ UNCHANGED <<prog, effects, keys>>

Branch(t) ==
  /\ At(t, {"if0", "jump", "input"})
  /\ IF Ins(t).op = "input" THEN \E l \in Ins(t).labels : task' = To(t, l)
     ELSE task' = IF Ins(t).op = "jump" \/ Value(t, Ins(t).v) = 0 THEN To(t, Ins(t).to) ELSE Step(t)
  /\ UNCHANGED <<prog, mem, effects, keys>>

\* What task t adds to the buffer of its process p, and whether it is printed now.
Buffer(t, added, flushed) ==
  LET p == task[t].own
      text == unflushed[p] \o added
  IN /\ unflushed' = [unflushed EXCEPT ![p] = IF flushed THEN <<>> ELSE text]
     /\ out' = IF flushed THEN [out EXCEPT ![t] = @ \o text] ELSE out
     /\ last' = IF flushed /\ text # <<>> THEN t ELSE last

\* printf, with the number printed if there is one: a line, or text that fflush
\* follows, goes out at once (as does Sio_puts, with no buffer to pass by here).
Say(t) ==
  /\ At(t, {"out", "put"})
  /\ Buffer(t, <<IF Ins(t).v = "" THEN 0 ELSE Value(t, Ins(t).v)>>, Ins(t).op = "out")
  /\ task' = Step(t)
  /\ UNCHANGED <<prog, mem, mutex, jobs, deleted, fault, keys>>

\* A message about an error, unless v is n.
Complain(t) ==
  /\ At(t, {"check"})
  /\ fault' = (fault \/ Value(t, Ins(t).v) # Ins(t).n)
  /\ task' = Step(t)
  /\ UNCHANGED <<prog, mem, mutex, jobs, deleted, output, keys>>

-----------------------------------------------------------------------------
(* Processes *)

Fork(to)     == [op |-> "fork", to |-> to]       \* the child goes to to
Exit(n)      == [op |-> "exit", n |-> n]
Quit(n)      == [op |-> "quit", n |-> n]         \* _exit, and execve of a program that exits
Wait(to)     == [op |-> "wait", to |-> to]       \* without children to to, or ends the process (to = 0)
Waitpid(v)   == [op |-> "waitpid", v |-> v]

\* Process p ends, with all of its threads, and its parent is told.
Ended(p, status) ==
  [q \in Tasks |->
     IF task[q].own = p /\ Running(q)
     THEN [task[q] EXCEPT !.st = IF q = p /\ p # 0 THEN "zombie" ELSE "gone", !.status = status]
     ELSE IF p # 0 /\ q = task[p].parent THEN [task[q] EXCEPT !.pend = @ \cup {"CHLD"}] ELSE task[q]]

\* exit, which unix_error calls too: the buffer is printed.
Exits(t, status) == task' = Ended(task[t].own, status) /\ Buffer(t, <<>>, TRUE)

DoForkClean(t) ==            \* mutant: the child starts with an empty buffer
  /\ At(t, {"fork"})
  /\ IF Unused = {} THEN Exits(t, 0) /\ UNCHANGED mem
     ELSE LET c == Min(Unused)
              child == [task[t] EXCEPT !.own = c, !.parent = t, !.pc = Ins(t).to, !.loc["r"] = 0, !.pend = {}]
          IN /\ task' = [Step(t) EXCEPT ![c] = child, ![t].loc["r"] = c]
             /\ mem' = [mem EXCEPT ![c] = mem[task[t].own]]
             /\ UNCHANGED output
  /\ UNCHANGED <<prog, mutex, jobs, deleted, fault, keys>>

\* Fork: the child has copies, of the buffer too, and no pending signals.
DoFork(t) ==
  /\ At(t, {"fork"})
  /\ IF Unused = {} THEN Exits(t, 0) /\ UNCHANGED mem
     ELSE LET c == Min(Unused)
              child == [task[t] EXCEPT !.own = c, !.parent = t, !.pc = Ins(t).to, !.loc["r"] = 0, !.pend = {}]
          IN /\ task' = [Step(t) EXCEPT ![c] = child, ![t].loc["r"] = c]
             /\ mem' = [mem EXCEPT ![c] = mem[task[t].own]]
             /\ unflushed' = [unflushed EXCEPT ![c] = unflushed[task[t].own]]
             /\ UNCHANGED <<out, last>>
  /\ UNCHANGED <<prog, mutex, jobs, deleted, fault, keys>>

DoExit(t) ==
  /\ \/ At(t, {"exit"}) /\ Exits(t, Ins(t).n)
     \/ At(t, {"quit"}) /\ task' = Ended(task[t].own, Ins(t).n) /\ UNCHANGED output
  /\ UNCHANGED <<prog, mem, mutex, jobs, deleted, fault, keys>>

Reap(t, c) == [Step(t) EXCEPT ![c].st = "gone", ![t].loc["r"] = c, ![t].loc["s"] = task[c].status]

DoWaitNot(t) ==              \* mutant: waitpid with WNOHANG
  /\ At(t, {"wait"})
  /\ IF Zombies(t) = {} THEN task' = (IF Ins(t).to = 0 THEN Step(t) ELSE To(t, Ins(t).to))
     ELSE \E c \in Zombies(t) : task' = Reap(t, c)
  /\ UNCHANGED <<prog, mem, effects, keys>>

\* wait, waitpid(-1): any child that has ended is reaped; without children it fails.
DoWait(t) ==
  /\ At(t, {"wait"})
  /\ IF Children(t) # {} THEN (\E c \in Zombies(t) : task' = Reap(t, c)) /\ UNCHANGED <<fault, output>>
     ELSE IF Ins(t).to # 0 THEN task' = To(t, Ins(t).to) /\ UNCHANGED <<fault, output>>
     ELSE Exits(t, 0) /\ fault' = TRUE
  /\ UNCHANGED <<prog, mem, mutex, jobs, deleted, keys>>

\* waitpid(v) for a child that is still there.
DoWaitpid(t) ==
  /\ At(t, {"waitpid"}) /\ Value(t, Ins(t).v) \in Zombies(t)
  /\ task' = Reap(t, Value(t, Ins(t).v))
  /\ UNCHANGED <<prog, mem, effects, keys>>

-----------------------------------------------------------------------------
(* Signals *)

Signal(sig)      == [op |-> "signal", sig |-> sig]       \* Signal and signal
Kill(v, sig)     == [op |-> "kill", v |-> v, sig |-> sig]
Block(sigs, old) == [op |-> "block", sigs |-> sigs, old |-> old]
SetMask          == [op |-> "setmask"]
Suspend          == [op |-> "suspend"]
Pause            == [op |-> "pause"]
Spin             == [op |-> "spin"]                      \* a loop without effect
Return           == [op |-> "return"]                    \* from a handler
Longjmp(to)      == [op |-> "longjmp", to |-> to]        \* siglongjmp out of one
Addjob           == [op |-> "addjob"]
Deletejob        == [op |-> "deletejob"]

DoSignal(t) ==
  /\ At(t, {"signal"})
  /\ task' = [Step(t) EXCEPT ![t].hnd = @ \cup {Ins(t).sig}]
  /\ UNCHANGED <<prog, mem, effects, keys>>

\* Kill of the process in a local, or of getppid() for v = "parent".
DoKill(t) ==
  /\ At(t, {"kill"})
  /\ LET target == IF Ins(t).v = "parent" THEN task[t].parent ELSE Value(t, Ins(t).v)
     IN task' = [Step(t) EXCEPT ![target].pend = IF Running(target) THEN @ \cup {Ins(t).sig} ELSE @]
  /\ UNCHANGED <<prog, mem, effects, keys>>

\* The handler of sig starts under mask; it has locals of its own and returns to resume.
Handling(t, sig, resume, mask) ==
  LET frame == [pc |-> resume, mask |-> task[t].mask, prev |-> task[t].prev, loc |-> task[t].loc]
  IN [task EXCEPT ![t].pend = @ \ {sig}, ![t].pc = Programs[prog].handlers[sig],
                  ![t].ret = Append(@, frame), ![t].mask = mask \cup {sig}]

\* A signal is handled, ignored or ends the process; one sent twice is pending once.
Deliver(t) ==
  /\ Running(t)
  /\ \E sig \in Deliverable(t) :
       task' = IF sig \in task[t].hnd
               THEN Handling(t, sig, IF Ins(t).op = "pause" THEN task[t].pc + 1 ELSE task[t].pc, task[t].mask)
               ELSE IF sig = "CHLD" THEN [task EXCEPT ![t].pend = @ \ {sig}]
               ELSE Ended(task[t].own, -1)
  /\ UNCHANGED <<prog, mem, effects, keys>>

DoSuspendLate(t) ==          \* mutant: the mask is set, and then a signal is waited for
  /\ At(t, {"suspend"}) /\ task[t].mask # task[t].prev
  /\ task' = [task EXCEPT ![t].mask = task[t].prev]
  /\ UNCHANGED <<prog, mem, effects, keys>>

\* sigsuspend(&prev): waits, under the mask prev, for a signal that is handled.
DoSuspend(t) ==
  /\ At(t, {"suspend"})
  /\ \E sig \in (task[t].pend \ task[t].prev) \cap task[t].hnd :
       task' = Handling(t, sig, task[t].pc + 1, task[t].prev)
  /\ UNCHANGED <<prog, mem, effects, keys>>

\* A handler returns, or leaves by siglongjmp with the mask that sigsetjmp saved.
DoReturn(t) ==
  /\ At(t, {"return", "longjmp"})
  /\ LET f == Last(task[t].ret)
     IN task' = IF Ins(t).op = "longjmp"
                THEN [task EXCEPT ![t].pc = Ins(t).to, ![t].mask = f.mask, ![t].ret = <<>>]
                ELSE [task EXCEPT ![t].pc = f.pc, ![t].mask = f.mask, ![t].prev = f.prev,
                                  ![t].loc = f.loc, ![t].ret = Front(@)]
  /\ UNCHANGED <<prog, mem, effects, keys>>

\* Sigprocmask, which may store the mask it replaces.
DoMask(t) ==
  /\ At(t, {"block", "setmask"})
  /\ task' = IF Ins(t).op = "setmask" THEN [Step(t) EXCEPT ![t].mask = task[t].prev]
             ELSE [Step(t) EXCEPT ![t].mask = @ \cup Ins(t).sigs,
                                  ![t].prev = IF Ins(t).old THEN task[t].mask ELSE @]
  /\ UNCHANGED <<prog, mem, effects, keys>>

\* addjob and deletejob of the pid in r.
DoJob(t) ==
  /\ At(t, {"addjob", "deletejob"})
  /\ LET pid == task[t].loc["r"]
     IN IF Ins(t).op = "addjob"
        THEN jobs' = jobs \cup {pid} /\ fault' = (fault \/ pid \in deleted) /\ UNCHANGED deleted
        ELSE jobs' = jobs \ {pid} /\ deleted' = deleted \cup {pid} /\ UNCHANGED fault
  /\ task' = Step(t)
  /\ UNCHANGED <<prog, mem, mutex, output, keys>>

-----------------------------------------------------------------------------
(* Threads *)

Create(to, v) == [op |-> "create", to |-> to, v |-> v]   \* the argument of the thread is v
Join          == [op |-> "join"]
Finish        == [op |-> "finish"]
P             == [op |-> "P"]
V             == [op |-> "V"]

\* Pthread_create: the thread starts at to with v in i.
DoCreate(t) ==
  /\ At(t, {"create"})
  /\ LET new == [NoTask EXCEPT !.st = "run", !.own = task[t].own, !.parent = t, !.pc = Ins(t).to,
                               !.loc["i"] = Value(t, Ins(t).v)]
     IN task' = [Step(t) EXCEPT ![Min(Unused)] = new]
  /\ UNCHANGED <<prog, mem, effects, keys>>

\* Pthread_join with every thread made so far.
DoJoin(t) ==
  /\ At(t, {"join"}) /\ \A c \in Tasks \ {t} : ~Running(c)
  /\ task' = Step(t)
  /\ UNCHANGED <<prog, mem, effects, keys>>

\* A thread returns, or main calls Pthread_exit.
DoFinish(t) ==
  /\ At(t, {"finish"})
  /\ task' = [task EXCEPT ![t].st = "gone"]
  /\ UNCHANGED <<prog, mem, effects, keys>>

DoPNot(t) ==                 \* mutant: the semaphore is not waited for
  /\ At(t, {"P"}) /\ mutex' = 0
  /\ task' = Step(t)
  /\ UNCHANGED <<prog, mem, jobs, deleted, output, fault, keys>>

DoP(t) ==
  /\ At(t, {"P"}) /\ mutex > 0 /\ mutex' = mutex - 1
  /\ task' = Step(t)
  /\ UNCHANGED <<prog, mem, jobs, deleted, output, fault, keys>>

DoV(t) ==
  /\ At(t, {"V"}) /\ mutex' = mutex + 1
  /\ task' = Step(t)
  /\ UNCHANGED <<prog, mem, jobs, deleted, output, fault, keys>>

-----------------------------------------------------------------------------
TaskStep(t) ==
  \/ Assign(t) \/ Branch(t) \/ Say(t) \/ Complain(t)
  \/ DoFork(t) \/ DoExit(t) \/ DoWait(t) \/ DoWaitpid(t)
  \/ DoSignal(t) \/ DoKill(t) \/ Deliver(t) \/ DoSuspend(t) \/ DoReturn(t) \/ DoMask(t) \/ DoJob(t)
  \/ DoCreate(t) \/ DoJoin(t) \/ DoFinish(t) \/ DoP(t) \/ DoV(t)

\* ctrl-c: SIGINT to every process of a program that handles it.
Key ==
  /\ keys < MaxKeys /\ "INT" \in DOMAIN Programs[prog].handlers /\ Running(0)
  /\ keys' = keys + 1
  /\ task' = [t \in Tasks |-> IF Running(t) THEN [task[t] EXCEPT !.pend = @ \cup {"INT"}] ELSE task[t]]
  /\ UNCHANGED <<prog, mem, effects>>

Next == (\E t \in Tasks : TaskStep(t)) \/ Key

Spec == Init /\ [][Next]_vars /\ \A t \in Tasks : WF_vars(TaskStep(t))
=============================================================================
