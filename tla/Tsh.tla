-------------------------------- MODULE Tsh --------------------------------
(***************************************************************************)
(* The job-control shell tsh.c: its main program, its signal handlers and  *)
(* the processes it starts.  Between two steps of the shell a signal that  *)
(* is pending and not blocked is delivered at once.  Code that runs with   *)
(* mask_all blocked is one step; so are sigint_handler and                 *)
(* sigtstp_handler, whose only actions are under mask_all, whereas         *)
(* sigchld_handler can be interrupted after each waitpid.                  *)
(***************************************************************************)
EXTENDS JobList, CommandLine

CONSTANTS Lines,      \* the command lines considered
          MaxTyped    \* bound: how often ctrl-c or ctrl-z is typed, or the driver signals

VARIABLES m,        \* the main program: pc, and pid and bg of its command
          handler,  \* sigchld_handler: active, and what waitpid returned
          pending,  \* signals pending for the shell
          child,    \* the processes: phase, and what waitpid has to report
          typed,
          refused   \* kept for the properties: processes addjob found no slot for

vars == <<jobs, nextjid, m, handler, pending, child, typed, refused>>

Keyboard == {"INT", "TSTP"}
Phases == {"none",
           "forked",    \* in the shell's group, with the shell's handlers
           "grouped",   \* after setpgid, still with the shell's handlers
           "running", "stopped",
           "doomed",    \* stopped, with a SIGINT pending
           "spinning",  \* a copy of the shell that signals itself for ever,
           "stuck",     \*   in the shell's group or in its own
           "zombie", "reaped"}
Reports == {"none", "ended", "stopped", "continued"}
Idle == [active |-> FALSE, pid |-> 0, report |-> "none"]

Init ==
  /\ initjobs
  /\ m = [pc |-> "read", pid |-> 0, bg |-> FALSE]
  /\ handler = Idle
  /\ pending = {}
  /\ child = [p \in Pids |-> [phase |-> "none", report |-> "none", sig |-> "INT"]]
  /\ typed = 0
  /\ refused = {}

-----------------------------------------------------------------------------
(* Processes and signals, as the kernel treats them *)

InPhase(phases) == {p \in Pids : child[p].phase \in phases}
ShellGroup == InPhase({"forked"})
Group(pid) == {pid} \cap InPhase({"grouped", "running", "stopped"})

\* A process after a signal.  Before exec it runs the shell's handler, finds no
\* foreground job in its copy of the list, and signals its own group again.
After(c, sig) ==
  CASE sig \in Keyboard /\ c.phase = "forked" ->
         [c EXCEPT !.phase = "spinning", !.sig = sig]
    [] sig \in Keyboard /\ c.phase = "grouped" -> [c EXCEPT !.phase = "stuck"]
    [] sig = "INT" /\ c.phase = "running" ->
         [c EXCEPT !.phase = "zombie", !.report = "ended"]
    [] sig = "INT" /\ c.phase = "stopped" -> [c EXCEPT !.phase = "doomed"]
    [] sig = "TSTP" /\ c.phase = "running" ->
         [c EXCEPT !.phase = "stopped", !.report = "stopped"]
    [] sig = "CONT" /\ c.phase = "stopped" ->
         [c EXCEPT !.phase = "running", !.report = "continued"]
    [] sig = "CONT" /\ c.phase = "doomed" ->
         [c EXCEPT !.phase = "zombie", !.report = "ended"]
    [] OTHER -> c

\* kill: the processes of a group get sig, the shell keeps the signals mine
\* and gets a SIGCHLD when one of them stops, continues or ends.
Kill(group, sig, mine) ==
  /\ child' = [p \in Pids |-> IF p \in group THEN After(child[p], sig) ELSE child[p]]
  /\ pending' = mine \cup
       (IF \E p \in group : After(child[p], sig).report # child[p].report
        THEN {"CHLD"} ELSE {})

Alive == m.pc # "gone"

UserTypes(sig) ==
  /\ Alive /\ typed < MaxTyped
  /\ typed' = typed + 1
  /\ Kill(ShellGroup, sig, pending \cup {sig})
  /\ UNCHANGED <<jobs, nextjid, refused, m, handler>>

\* sdriver.pl plays the user: its TSTP and INT reach the shell alone.  (Its QUIT and
\* KILL end the shell, with nothing left to happen; they are not modelled.)
DriverSends(sig) ==
  /\ Alive /\ typed < MaxTyped
  /\ typed' = typed + 1
  /\ Kill({}, sig, pending \cup {sig})
  /\ UNCHANGED <<jobs, nextjid, refused, m, handler>>

\* A process on its own: setpgid, execv, its end, a stop that it asks for.
Step(p, from, to, report) ==
  /\ Alive /\ child[p].phase = from
  /\ child' = [child EXCEPT ![p].phase = to,
                            ![p].report = IF report = "none" THEN @ ELSE report]
  /\ pending' = pending \cup (IF report = "none" THEN {} ELSE {"CHLD"})
  /\ UNCHANGED <<jobs, nextjid, refused, m, handler, typed>>

Setpgid(p) == Step(p, "forked", "grouped", "none")
Execv(p)   == Step(p, "grouped", "running", "none")
NoExecv(p) == Step(p, "grouped", "zombie", "ended")
End(p)     == Step(p, "running", "zombie", "ended")
Stop(p)    == Step(p, "running", "stopped", "stopped")

Spin(p) ==
  /\ Alive /\ child[p].phase = "spinning"
  /\ Kill(ShellGroup, child[p].sig, pending \cup {child[p].sig})
  /\ UNCHANGED <<jobs, nextjid, refused, m, handler, typed>>

-----------------------------------------------------------------------------
(* The handlers *)

\* sigint_handler, sigtstp_handler.  kill(-0, sig) signals the shell's own group.
handle(sig) ==
  /\ Alive /\ sig \in pending \cap Keyboard
  /\ IF fgpid # 0 THEN Kill(Group(fgpid), sig, pending \ {sig})
                  ELSE Kill(ShellGroup, sig, pending)
  /\ UNCHANGED <<jobs, nextjid, refused, m, handler, typed>>

ChldBlockedNot == FALSE          \* mutant: eval does not block SIGCHLD

\* SIGCHLD is blocked from before fork until the job is in the list.
ChldBlocked == m.pc = "add"

ChldDeliver ==
  /\ Alive /\ "CHLD" \in pending /\ ~ChldBlocked /\ ~handler.active
  /\ handler' = [Idle EXCEPT !.active = TRUE]
  /\ pending' = pending \ {"CHLD"}
  /\ UNCHANGED <<jobs, nextjid, refused, m, child, typed>>

Handling == Alive /\ handler.active /\ pending \cap Keyboard = {}
Waitable == {p \in Pids : child[p].report # "none"}

waitpid(p) ==
  /\ Handling /\ handler.report = "none"
  /\ p \in Waitable
  /\ handler' = [active |-> TRUE, pid |-> p, report |-> child[p].report]
  /\ child' = [child EXCEPT ![p].report = "none",
                            ![p].phase = IF @ = "zombie" THEN "reaped" ELSE @]
  /\ UNCHANGED <<jobs, nextjid, refused, m, pending, typed>>

ChldReturn ==
  /\ Handling /\ handler.report = "none"
  /\ Waitable = {}
  /\ handler' = Idle
  /\ UNCHANGED <<jobs, nextjid, refused, m, pending, child, typed>>

ChldUpdateOnce ==                \* mutant: if (waitpid) instead of while (waitpid)
  /\ Handling /\ handler.report # "none"
  /\ CASE handler.report = "ended"     -> deletejob(handler.pid)
       [] handler.report = "stopped"   -> setjobstate(handler.pid, "ST")
       [] handler.report = "continued" -> UNCHANGED <<jobs, nextjid>>
  /\ handler' = Idle
  /\ UNCHANGED <<m, pending, child, typed, refused>>

\* WCONTINUED is asked for, and its reports are ignored.
ChldUpdate ==
  /\ Handling /\ handler.report # "none"
  /\ CASE handler.report = "ended"     -> deletejob(handler.pid)
       [] handler.report = "stopped"   -> setjobstate(handler.pid, "ST")
       [] handler.report = "continued" -> UNCHANGED <<jobs, nextjid>>
  /\ handler' = [Idle EXCEPT !.active = TRUE]
  /\ UNCHANGED <<m, pending, child, typed, refused>>

-----------------------------------------------------------------------------
(* The main program runs when no handler does and no signal is deliverable *)

Main(from) ==
  /\ m.pc = from /\ ~handler.active
  /\ pending \cap Keyboard = {}
  /\ "CHLD" \notin pending \/ ChldBlocked

\* eval of a program, up to fork; pids are given out in order.
EvalFork(bg) ==
  /\ Main("read")
  /\ InPhase({"none"}) # {}
  /\ LET pid == Min(InPhase({"none"}))
     IN /\ child' = [child EXCEPT ![pid].phase = "forked"]
        /\ m' = [pc |-> "add", pid |-> pid, bg |-> bg]
  /\ UNCHANGED <<jobs, nextjid, refused, handler, pending, typed>>

EvalAdd ==
  /\ Main("add")
  /\ addjob(m.pid, IF m.bg THEN "BG" ELSE "FG")
  /\ m' = [m EXCEPT !.pc = IF m.bg THEN "read" ELSE "waitfg"]
  /\ refused' = refused \cup IF Having(0) = {} THEN {m.pid} ELSE {}
  /\ UNCHANGED <<handler, pending, child, typed>>

waitfgNot ==                     \* mutant: waitfg does not wait
  /\ Main("waitfg")
  /\ m' = [m EXCEPT !.pc = "read"]
  /\ UNCHANGED <<jobs, nextjid, refused, handler, pending, child, typed>>

\* waitfg: sigsuspend(NULL) fails at once, so the shell spins until this holds.
waitfg ==
  /\ Main("waitfg")
  /\ getjobpid(m.pid).state # "FG"
  /\ m' = [m EXCEPT !.pc = "read"]
  /\ UNCHANGED <<jobs, nextjid, refused, handler, pending, child, typed>>

\* do_bgfg of a job named by its PID or its JID.
do_bgfg(argv) ==
  LET num == Number(argv)
      job == IF ByJid(argv) THEN getjobjid(num) ELSE getjobpid(num)
      bg == argv[1] = <<"bg">>
  IN /\ Main("read")
     /\ num # 0 /\ job # NoJob
     /\ m' = [pc |-> IF bg THEN "bgkill" ELSE "fgset", pid |-> job.pid, bg |-> bg]
     /\ UNCHANGED <<jobs, nextjid, refused, handler, pending, child, typed>>

Continue(from, to) ==
  /\ Main(from)
  /\ Kill(Group(m.pid) \cup ({m.pid} \cap InPhase({"doomed"})), "CONT", pending)
  /\ m' = [m EXCEPT !.pc = to]
  /\ UNCHANGED <<jobs, nextjid, refused, handler, typed>>

SetState(from, state, to) ==
  /\ Main(from)
  /\ setjobstate(m.pid, state)
  /\ m' = [m EXCEPT !.pc = to]
  /\ UNCHANGED <<handler, pending, child, typed, refused>>

BgContinue == Continue("bgkill", "bgset")
BgSetState == SetState("bgset", "BG", "read")
FgSetState == SetState("fgset", "FG", "fgkill")
FgContinue == Continue("fgkill", "waitfg")

\* quit raises SIGQUIT; an end of file does the same.
quit ==
  /\ Main("read")
  /\ m' = [m EXCEPT !.pc = "gone"]
  /\ UNCHANGED <<jobs, nextjid, refused, handler, pending, child, typed>>

-----------------------------------------------------------------------------
Builtins == {<<"quit">>, <<"jobs">>, <<"bg">>, <<"fg">>}

Parsed == {parseline(cmdline) : cmdline \in Lines}

\* eval and builtin_cmd; an empty line and jobs change nothing.
Commands ==
  \E line \in Parsed :
    LET argv == line.argv
    IN /\ argv # <<>>
       /\ \/ argv[1] \notin Builtins /\ EvalFork(line.bg)
          \/ argv[1] \in {<<"bg">>, <<"fg">>} /\ do_bgfg(argv)
          \/ argv[1] = <<"quit">> /\ quit

Shell == EvalAdd \/ waitfg \/ BgContinue \/ BgSetState \/ FgSetState \/ FgContinue

Handlers ==
  \/ \E sig \in Keyboard : handle(sig)
  \/ ChldDeliver \/ ChldReturn \/ ChldUpdate
  \/ \E p \in Pids : waitpid(p)

Starting(p) == Setpgid(p) \/ Execv(p) \/ NoExecv(p)

Next ==
  \/ Commands \/ Shell \/ Handlers
  \/ \E sig \in Keyboard : UserTypes(sig) \/ DriverSends(sig)
  \/ \E p \in Pids : Starting(p) \/ End(p) \/ Stop(p) \/ Spin(p)

\* The shell and a process being started run on; what the user does and when
\* a program ends is up to them.
Fairness == WF_vars(Shell) /\ WF_vars(Handlers) /\ \A p \in Pids : WF_vars(Starting(p))

Spec == Init /\ [][Next]_vars /\ Fairness

-----------------------------------------------------------------------------
(***************************************************************************)
(* Properties                                                              *)
(***************************************************************************)
\* "At most 1 job can be in the FG state" (tsh.c:52), and main is with it.
OneForeground ==
  \A i, j \in Slots : jobs[i].state = "FG" /\ jobs[j].state = "FG" =>
    i = j /\ m.pc \in {"fgkill", "waitfg"} /\ jobs[i].pid = m.pid

\* The job list and the processes agree, whatever the order of fork, exec, death,
\* addjob and SIGCHLD, and however often slots are used again: a job is in the
\* list, in one slot, from addjob until the handler deletes it after waitpid,
\* unless addjob found no slot, and then MAXJOBS others were still to be reaped.
Tracked ==
  /\ \A i \in Slots : jobs[i].pid # 0 =>
       /\ Cardinality(Having(jobs[i].pid)) = 1
       /\ \/ child[jobs[i].pid].phase \notin {"none", "reaped"}
          \/ handler.report = "ended" /\ handler.pid = jobs[i].pid
  /\ \A p \in Pids :
       \/ child[p].phase \in {"none", "reaped"}
       \/ m.pc = "add" /\ m.pid = p
       \/ Having(p) # {} \/ p \in refused
  /\ m.pc = "add" /\ Having(0) = {} =>
       Cardinality(InPhase(Phases \ {"none", "reaped"}) \ {m.pid}) >= MAXJOBS

\* waitfg does not miss the end or the stop of the foreground job: the prompt
\* comes back, unless the user has typed ctrl-c or ctrl-z.
PromptReturns ==
  m.pc = "waitfg" /\ child[m.pid].phase \in {"zombie", "reaped", "stopped"}
    ~> m.pc \in {"read", "gone"} \/ typed > 0
=============================================================================
