------------------------------ MODULE TshProofs ------------------------------
(***************************************************************************)
(* Theorems about Tsh, for every number of jobs and processes, whatever is *)
(* typed and in whatever order processes, signals and handlers run.        *)
(***************************************************************************)
EXTENDS Tsh, Induction

Job == [pid : Pids \cup {0}, jid : Nat, state : States]
Places == {"read", "add", "waitfg", "bgkill", "bgset", "fgset", "fgkill", "gone"}
Process == [phase : Phases, report : Reports, sig : Keyboard]

TypeOK ==
  /\ jobs \in [Slots -> Job] /\ nextjid \in Nat
  /\ m \in [pc : Places, pid : Pids \cup {0}, bg : BOOLEAN]
  /\ handler \in [active : BOOLEAN, pid : Pids \cup {0}, report : Reports]
  /\ pending \subseteq Keyboard \cup {"CHLD"}
  /\ child \in [Pids -> Process]
  /\ typed \in Nat

Settled == {"none", "reaped"}      \* no process yet, or no more
Unreaped == InPhase(Phases \ Settled)
Adding(p) == m.pc = "add" /\ m.pid = p
Removing(p) == handler.report = "ended" /\ handler.pid = p

(***************************************************************************)
(* The inductive invariant.  That there is one job in the foreground needs *)
(* that no process has two slots, for waitfg looks at the first of them;   *)
(* that needs that the process eval adds is in no slot; and that needs     *)
(* that a slot is given up only after its process is reaped, and soon.     *)
(***************************************************************************)
List ==
  /\ \A i \in Slots : jobs[i].pid = 0 => jobs[i] = NoJob
  /\ \A i, j \in Slots : jobs[i].pid # 0 /\ jobs[i].pid = jobs[j].pid => i = j
  /\ \A i \in Slots : jobs[i].state = "FG" => m.pc \in {"fgkill", "waitfg"} /\ jobs[i].pid = m.pid

Reaping ==
  /\ handler.report # "none" => handler.active /\ handler.pid \in Pids
  /\ handler.report = "ended" => child[handler.pid].phase = "reaped"
  /\ handler.active => m.pc # "add"

Command ==
  /\ m.pc \notin {"read", "gone"} => m.pid \in Pids
  /\ m.pc = "add" => child[m.pid].phase \notin Settled /\ Having(m.pid) = {}

Lives ==
  /\ \A p \in Pids : child[p].report = "ended" <=> child[p].phase = "zombie"
  /\ \A i \in Slots : jobs[i].pid # 0 =>
       child[jobs[i].pid].phase \notin Settled \/ Removing(jobs[i].pid)

Kept ==
  /\ IsFiniteSet(Unreaped)
  /\ \A p \in Pids :
       child[p].phase \in Settled \/ Adding(p) \/ Having(p) # {} \/ p \in refused

Jobs == TypeOK /\ List /\ Reaping /\ Command /\ Lives /\ Kept
-----------------------------------------------------------------------------
(* What signals and processes do to child *)

Lived(c, d) ==        \* c has become d, neither started nor reaped
  /\ d \in Process
  /\ (c.report = "ended" <=> c.phase = "zombie") => (d.report = "ended" <=> d.phase = "zombie")
  /\ d.phase = c.phase \/ (c.phase \notin Settled /\ d.phase \notin Settled)

Alike == child' \in [Pids -> Process] /\ \A p \in Pids : Lived(child[p], child'[p])

LEMMA AfterAlike ==
  ASSUME NEW c \in Process, NEW sig \in Keyboard \cup {"CONT"}
  PROVE  Lived(c, After(c, sig))
BY ZenonT(40) DEF Process, Phases, Reports, Keyboard, After, Lived, Settled

LEMMA KillAlike ==
  ASSUME TypeOK, NEW group, NEW sig \in Keyboard \cup {"CONT"}, NEW mine \in SUBSET (Keyboard \cup {"CHLD"}),
         Kill(group, sig, mine)
  PROVE  Alike /\ pending' \subseteq Keyboard \cup {"CHLD"}
<1>1. \A p \in Pids : child[p] \in Process
  BY DEF TypeOK
<1>2. ASSUME NEW p \in Pids PROVE Lived(child[p], child[p]) /\ Lived(child[p], After(child[p], sig))
  BY <1>1, AfterAlike DEF Lived
<1>3. child' = [p \in Pids |-> IF p \in group THEN After(child[p], sig) ELSE child[p]]
  BY DEF Kill
<1>4. ASSUME NEW p \in Pids PROVE child'[p] \in Process /\ Lived(child[p], child'[p])
  BY <1>2, <1>3 DEF Lived
<1> QED BY <1>3, <1>4 DEF Kill, Alike

LEMMA StepAlike ==
  ASSUME TypeOK, NEW p \in Pids, NEW from, NEW to \in Phases, NEW report \in Reports,
         from \notin Settled \cup {"zombie"}, to \notin Settled,
         report = "ended" <=> to = "zombie",
         Step(p, from, to, report), Lives
  PROVE  Alike /\ pending' \subseteq Keyboard \cup {"CHLD"}
<1>1. child[p] \in Process /\ child[p].phase = from /\ child[p].report # "ended"
  BY DEF TypeOK, Step, Lives
<1>2. child' = [child EXCEPT ![p] = [child[p] EXCEPT !.phase = to,
                                       !.report = IF report = "none" THEN @ ELSE report]]
  BY DEF TypeOK, Step, Process
<1>3. Lived(child[p], [child[p] EXCEPT !.phase = to,
                          !.report = IF report = "none" THEN @ ELSE report])
  BY <1>1 DEF Lived, Process, Reports, Settled
<1>4. \A q \in Pids : child[q] \in Process /\ Lived(child[q], child[q])
  BY DEF TypeOK, Lived
<1>5. \A q \in Pids : child'[q] \in Process /\ Lived(child[q], child'[q])
  BY <1>2, <1>3, <1>4 DEF TypeOK, Lived
<1> QED BY <1>2, <1>5 DEF Alike, TypeOK, Step

\* Signals and what processes do on their own neither start nor reap any.
LEMMA SameUnreaped ==
  ASSUME TypeOK, Alike
  PROVE  Unreaped' = Unreaped
BY DEF TypeOK, Alike, Lived, Unreaped, InPhase, Process, Phases, Settled

-----------------------------------------------------------------------------
(* Steps that leave the job list alone *)

\* Main goes on, with the job it is about.
Onward ==
  /\ m.pc # "add" /\ m'.pc # "add"
  /\ m'.pc \notin {"read", "gone"} => m'.pid \in Pids
  /\ \A i \in Slots : jobs[i].state = "FG" => m'.pc \in {"fgkill", "waitfg"} /\ jobs[i].pid = m'.pid

\* sigchld_handler goes on, or begins.
Waiting ==
  /\ handler.report = "none" /\ handler'.report = "none"
  /\ handler'.active => m'.pc # "add"

LEMMA Quiet ==
  ASSUME Jobs, TypeOK', UNCHANGED <<jobs, nextjid, refused>>, Alike,
         m' = m \/ Onward,
         (handler' = handler /\ (handler.active => m'.pc # "add")) \/ Waiting
  PROVE  Jobs'
<1> USE DEF Jobs
<1>1. \A p : Having(p)' = Having(p)
  BY DEF Having
<1>2. List'
  BY DEF List, Onward
<1>3. Reaping'
  <2>1. CASE handler' = handler /\ (handler.active => m'.pc # "add")
    BY <2>1 DEF Reaping, Alike, Lived, Settled
  <2>2. CASE Waiting
    BY <2>2 DEF Waiting, Reaping
  <2> QED BY <2>1, <2>2
<1>4. Command'
  BY <1>1 DEF Command, Onward, Alike, Lived, Settled, TypeOK
<1>5. Lives'
  <2>1. \A p \in Pids : Removing(p) => Removing(p)'
    BY DEF Removing, Waiting
  <2>2. \A i \in Slots : jobs[i].pid # 0 => jobs[i].pid \in Pids
    BY DEF TypeOK, Job
  <2> QED BY <2>1, <2>2 DEF Lives, Alike, Lived
<1>6. Kept'
  <2>1. \A p \in Pids : Adding(p) => Adding(p)'
    BY DEF Adding, Onward
  <2>2. \A p \in Pids : child[p].phase \in Settled => child'[p].phase \in Settled
    BY DEF Alike, Lived
  <2> QED BY <1>1, <2>1, <2>2, SameUnreaped DEF Kept
<1> QED BY <1>2, <1>3, <1>4, <1>5, <1>6

LEMMA Same ==
  ASSUME TypeOK, child' = child
  PROVE  Alike
BY DEF TypeOK, Alike, Lived

Undisturbed == UNCHANGED <<jobs, nextjid, refused, m, handler>>

LEMMA Keyed ==
  ASSUME Jobs, NEW sig \in Keyboard, UserTypes(sig) \/ DriverSends(sig)
  PROVE  Undisturbed /\ typed' \in Nat /\ Alike /\ pending' \subseteq Keyboard \cup {"CHLD"}
<1> DEFINE mine == pending \cup {sig}
<1>1. TypeOK /\ typed \in Nat /\ mine \in SUBSET (Keyboard \cup {"CHLD"})
  BY DEF Jobs, TypeOK
<1>2. CASE UserTypes(sig)
  <2>1. Kill(ShellGroup, sig, mine) /\ Undisturbed /\ typed' = typed + 1
    BY <1>2 DEF UserTypes, Undisturbed
  <2> HIDE DEF mine
  <2> QED BY <1>1, <2>1, KillAlike
<1>3. CASE DriverSends(sig)
  <2> DEFINE nobody == {}
  <2>1. Kill(nobody, sig, mine) /\ Undisturbed /\ typed' = typed + 1
    BY <1>3 DEF DriverSends, Undisturbed
  <2> HIDE DEF mine, nobody
  <2> QED BY <1>1, <2>1, KillAlike
<1> QED BY <1>2, <1>3

LEMMA Handled ==
  ASSUME Jobs, NEW sig \in Keyboard, handle(sig)
  PROVE  Undisturbed /\ typed' \in Nat /\ Alike /\ pending' \subseteq Keyboard \cup {"CHLD"}
<1> DEFINE mine == pending \ {sig}
<1>1. TypeOK /\ typed \in Nat /\ mine \in SUBSET (Keyboard \cup {"CHLD"})
      /\ pending \in SUBSET (Keyboard \cup {"CHLD"})
  BY DEF Jobs, TypeOK
<1>2. Undisturbed /\ typed' = typed
  BY DEF handle, Undisturbed
<1>3. CASE fgpid # 0
  <2>1. Kill(Group(fgpid), sig, mine)
    BY <1>3 DEF handle
  <2> HIDE DEF mine
  <2> QED BY <1>1, <1>2, <2>1, KillAlike
<1>4. CASE fgpid = 0
  <2>1. Kill(ShellGroup, sig, pending)
    BY <1>4 DEF handle
  <2> QED BY <1>1, <1>2, <2>1, KillAlike
<1> QED BY <1>3, <1>4

LEMMA Spun ==
  ASSUME Jobs, NEW p \in Pids, Spin(p)
  PROVE  Undisturbed /\ typed' \in Nat /\ Alike /\ pending' \subseteq Keyboard \cup {"CHLD"}
<1> DEFINE sig == child[p].sig
           mine == pending \cup {sig}
<1>1. TypeOK /\ typed \in Nat /\ sig \in Keyboard
  BY DEF Jobs, TypeOK, Process
<1>2. mine \in SUBSET (Keyboard \cup {"CHLD"})
  BY <1>1 DEF TypeOK
<1>3. Kill(ShellGroup, sig, mine) /\ Undisturbed /\ typed' = typed
  BY DEF Spin, Undisturbed
<1> HIDE DEF mine, sig
<1> QED BY <1>1, <1>2, <1>3, KillAlike

LEMMA Lively ==
  ASSUME Jobs, NEW p \in Pids, Starting(p) \/ End(p) \/ Stop(p)
  PROVE  Undisturbed /\ typed' \in Nat /\ Alike /\ pending' \subseteq Keyboard \cup {"CHLD"}
<1>1. Undisturbed /\ typed' \in Nat
  BY DEF Jobs, TypeOK, Starting, Setpgid, Execv, NoExecv, End, Stop, Step, Undisturbed
<1>2. Alike /\ pending' \subseteq Keyboard \cup {"CHLD"}
  <2> USE DEF Jobs, Phases, Reports, Settled
  <2>1. CASE Setpgid(p)
    BY <2>1, StepAlike DEF Setpgid
  <2>2. CASE Execv(p)
    BY <2>2, StepAlike DEF Execv
  <2>3. CASE NoExecv(p)
    BY <2>3, StepAlike DEF NoExecv
  <2>4. CASE End(p)
    BY <2>4, StepAlike DEF End
  <2>5. CASE Stop(p)
    BY <2>5, StepAlike DEF Stop
  <2> QED BY <2>1, <2>2, <2>3, <2>4, <2>5 DEF Starting
<1> QED BY <1>1, <1>2

LEMMA Elsewhere ==
  ASSUME Jobs, Undisturbed, typed' \in Nat, Alike, pending' \subseteq Keyboard \cup {"CHLD"}
  PROVE  Jobs'
<1>1. TypeOK'
  BY DEF Jobs, TypeOK, Alike, Undisturbed
<1>2. handler.active => m.pc # "add"
  BY DEF Jobs, Reaping
<1> QED BY <1>1, <1>2, Quiet DEF Undisturbed

LEMMA Entered ==
  ASSUME NEW r \in [active : BOOLEAN, pid : Pids \cup {0}, report : Reports]
  PROVE  /\ [r EXCEPT !.active = TRUE] \in [active : BOOLEAN, pid : Pids \cup {0}, report : Reports]
         /\ [r EXCEPT !.active = TRUE].report = r.report
OBVIOUS

LEMMA HandlerWaits ==
  ASSUME Jobs, ChldDeliver \/ ChldReturn
  PROVE  Jobs'
<1>1. UNCHANGED <<jobs, nextjid, refused, m, child, typed>>
  BY DEF ChldDeliver, ChldReturn
<1>a. Idle \in [active : BOOLEAN, pid : Pids \cup {0}, report : Reports] /\ Idle.report = "none"
      /\ ~Idle.active
  BY DEF Idle, Reports
<1>b. handler' = [Idle EXCEPT !.active = TRUE] \/ handler' = Idle
  BY DEF ChldDeliver, ChldReturn
<1>2. handler.report = "none" /\ handler'.report = "none"
  BY <1>a, <1>b, Entered DEF Jobs, Reaping, ChldDeliver, ChldReturn
<1>3. handler' \in [active : BOOLEAN, pid : Pids \cup {0}, report : Reports]
  BY <1>a, <1>b, Entered
<1>4. handler'.active => m.pc # "add"
  BY <1>a DEF ChldDeliver, ChldReturn, ChldBlocked
<1>5. pending' \subseteq Keyboard \cup {"CHLD"}
  BY DEF Jobs, TypeOK, ChldDeliver, ChldReturn
<1>6. TypeOK'
  BY <1>1, <1>3, <1>5 DEF Jobs, TypeOK
<1>7. Waiting
  BY <1>1, <1>2, <1>4 DEF Waiting
<1>8. TypeOK
  BY DEF Jobs
<1>9. Alike
  BY <1>1, <1>8, Same
<1> QED BY <1>1, <1>6, <1>7, <1>9, Quiet

LEMMA First ==
  ASSUME TypeOK, NEW p, Having(p) # {}
  PROVE  /\ Min(Having(p)) \in Slots /\ jobs[Min(Having(p))].pid = p
         /\ \A i \in Slots : jobs[i].pid = p => Min(Having(p)) <= i
<1>1. Having(p) \in SUBSET Nat
  BY JobListAssumption DEF Having, Slots
<1> QED BY <1>1, MinNat DEF Having

LEMMA NoForeground ==
  ASSUME Jobs, m.pc \notin {"fgkill", "waitfg"}
  PROVE  \A i \in Slots : jobs[i].state # "FG"
BY DEF Jobs, List

LEMMA NoneForeground ==
  ASSUME Jobs, m.pc = "waitfg", getjobpid(m.pid).state # "FG"
  PROVE  \A i \in Slots : jobs[i].state # "FG"
<1> SUFFICES ASSUME NEW i \in Slots, jobs[i].state = "FG" PROVE FALSE
  OBVIOUS
<1>1. jobs[i].pid = m.pid /\ m.pid # 0
  BY JobListAssumption DEF Jobs, List, Command
<1>2. Having(m.pid) # {}
  BY <1>1 DEF Having
<1>3. TypeOK
  BY DEF Jobs
<1>4. Min(Having(m.pid)) \in Slots /\ jobs[Min(Having(m.pid))].pid = m.pid
  BY <1>2, <1>3, First
<1>5. Min(Having(m.pid)) = i
  BY <1>1, <1>4 DEF Jobs, List
<1> QED BY <1>2, <1>5 DEF getjobpid

\* What bg and fg find is a job in a slot.
LEMMA FoundJob ==
  ASSUME Jobs, NEW num
  PROVE  /\ getjobpid(num) # NoJob => getjobpid(num).pid \in Pids
         /\ getjobjid(num) # NoJob => getjobjid(num).pid \in Pids
<1> USE DEF Jobs
<1>1. \A i \in Slots : jobs[i] # NoJob => jobs[i].pid \in Pids
  BY DEF TypeOK, List, Job
<1>2. getjobpid(num) # NoJob => getjobpid(num).pid \in Pids
  BY <1>1, First DEF getjobpid
<1> DEFINE is == {i \in Slots : jobs[i].jid = num}
<1>3. CASE is # {}
  <2>1. is \in SUBSET Nat
    BY JobListAssumption DEF Slots
  <2>2. Min(is) \in is
    BY <1>3, <2>1, MinNat
  <2> QED BY <1>1, <1>2, <1>3, <2>2 DEF getjobjid
<1>4. CASE is = {}
  BY <1>2, <1>4 DEF getjobjid
<1> QED BY <1>3, <1>4

LEMMA Goes ==
  ASSUME Jobs, UNCHANGED <<jobs, nextjid, refused, handler, typed>>, Alike,
         pending' \subseteq Keyboard \cup {"CHLD"},
         m' \in [pc : Places, pid : Pids \cup {0}, bg : BOOLEAN], Onward
  PROVE  Jobs'
<1>1. TypeOK'
  BY DEF Jobs, TypeOK, Alike
<1>2. handler.active => m'.pc # "add"
  BY DEF Onward
<1> QED BY <1>1, <1>2, Quiet

LEMMA MainGoes ==
  ASSUME Jobs, waitfg \/ quit \/ \E argv : do_bgfg(argv)
  PROVE  Jobs'
<1>1. UNCHANGED <<jobs, nextjid, refused, handler, typed, child, pending>>
  BY DEF waitfg, quit, do_bgfg
<1>2. TypeOK /\ pending' \subseteq Keyboard \cup {"CHLD"} /\ Alike
  BY <1>1, Same DEF Jobs, TypeOK
<1>3. m' \in [pc : Places, pid : Pids \cup {0}, bg : BOOLEAN] /\ Onward
  <2>a. m \in [pc : Places, pid : Pids \cup {0}, bg : BOOLEAN]
    BY DEF Jobs, TypeOK
  <2>1. CASE waitfg
    <3>1. \A i \in Slots : jobs[i].state # "FG"
      BY <2>1, NoneForeground DEF waitfg, Main
    <3> QED BY <2>a, <2>1, <3>1 DEF waitfg, Main, Places, Onward
  <2>2. CASE quit
    <3>1. \A i \in Slots : jobs[i].state # "FG"
      BY <2>2, NoForeground DEF quit, Main
    <3> QED BY <2>a, <2>2, <3>1 DEF quit, Main, Places, Onward
  <2>3. ASSUME NEW argv, do_bgfg(argv)
        PROVE  m' \in [pc : Places, pid : Pids \cup {0}, bg : BOOLEAN] /\ Onward
    <3>1. PICK job \in {getjobjid(Number(argv)), getjobpid(Number(argv))}, bg \in BOOLEAN :
             job # NoJob /\ m' = [pc |-> IF bg THEN "bgkill" ELSE "fgset", pid |-> job.pid, bg |-> bg]
      BY <2>3 DEF do_bgfg
    <3>2. job.pid \in Pids
      BY <3>1, FoundJob
    <3>3. m.pc = "read"
      BY <2>3 DEF do_bgfg, Main
    <3> QED BY <3>1, <3>2, <3>3, NoForeground DEF Places, Onward
  <2> QED BY <2>1, <2>2, <2>3
<1> QED BY <1>1, <1>2, <1>3, Goes

LEMMA Continues ==
  ASSUME Jobs, BgContinue \/ FgContinue
  PROVE  Jobs'
<1> DEFINE group == Group(m.pid) \cup ({m.pid} \cap InPhase({"doomed"}))
           sig == "CONT"
<1>1. Kill(group, sig, pending)
  BY DEF BgContinue, FgContinue, Continue
<1>2. sig \in Keyboard \cup {"CONT"} /\ TypeOK /\ pending \in SUBSET (Keyboard \cup {"CHLD"})
  BY DEF Jobs, TypeOK
<1> HIDE DEF group, sig
<1>3. Alike /\ pending' \subseteq Keyboard \cup {"CHLD"}
  BY <1>1, <1>2, KillAlike
<1>4. m' \in [pc : Places, pid : Pids \cup {0}, bg : BOOLEAN] /\ Onward
  <2>1. CASE BgContinue
    BY <2>1, NoForeground DEF Jobs, TypeOK, Command, BgContinue, Continue, Main, Places, Onward
  <2>2. CASE FgContinue
    BY <2>2 DEF Jobs, TypeOK, List, Command, FgContinue, Continue, Main, Places, Onward
  <2> QED BY <2>1, <2>2
<1>5. UNCHANGED <<jobs, nextjid, refused, handler, typed>>
  BY DEF BgContinue, FgContinue, Continue
<1> QED BY <1>3, <1>4, <1>5, Goes

LEMMA Parses ==
  ASSUME NEW line \in Parsed
  PROVE  line.bg \in BOOLEAN
<1>1. \A a, b : [argv |-> a, bg |-> TRUE].bg \in BOOLEAN /\ [argv |-> b, bg |-> FALSE].bg \in BOOLEAN
  OBVIOUS
<1>2. PICK cmdline \in Lines : line = parseline(cmdline)
  BY DEF Parsed
<1>3. \E a : line = [argv |-> a, bg |-> TRUE] \/ line = [argv |-> a, bg |-> FALSE]
  BY <1>2, Zenon DEF parseline
<1> QED BY <1>1, <1>3
-----------------------------------------------------------------------------
(* A process is started, and reaped *)

LEMMA Fork ==
  ASSUME Jobs, NEW bg \in BOOLEAN, EvalFork(bg)
  PROVE  Jobs'
<1> DEFINE pid == Min(InPhase({"none"}))
<1>1. pid \in Pids /\ child[pid].phase = "none"
  <2>1. InPhase({"none"}) \in SUBSET Nat /\ InPhase({"none"}) # {}
    BY JobListAssumption DEF InPhase, EvalFork
  <2>2. pid \in InPhase({"none"})
    BY <2>1, MinNat
  <2> QED BY <2>2 DEF InPhase
<1>2. /\ child' = [child EXCEPT ![pid].phase = "forked"]
      /\ m' = [pc |-> "add", pid |-> pid, bg |-> bg]
      /\ UNCHANGED <<jobs, nextjid, refused, handler, pending, typed>>
      /\ m.pc = "read" /\ ~handler.active
  BY DEF EvalFork, Main
<1> HIDE DEF pid
<1> USE DEF Jobs
<1>3. /\ child' \in [Pids -> Process] /\ child'[pid].phase = "forked" /\ child'[pid].report = child[pid].report
      /\ \A p \in Pids : p # pid => child'[p] = child[p]
  BY <1>1, <1>2 DEF TypeOK, Process, Phases
<1>4. TypeOK'
  BY <1>1, <1>2, <1>3 DEF TypeOK, Places
<1>5. handler.report = "none" /\ \A p : ~Removing(p)
  BY <1>2 DEF Reaping, Removing
<1>6. \A p : Having(p)' = Having(p)
  BY <1>2 DEF Having
<1>7. Having(pid) = {}
  BY <1>1, <1>5, JobListAssumption DEF Having, Lives, Settled
<1>8. List'
  BY <1>2, NoForeground DEF List
<1>9. Reaping'
  BY <1>2, <1>5 DEF Reaping
<1>10. Command'
  BY <1>1, <1>2, <1>3, <1>6, <1>7 DEF Command, Settled
<1>11. Lives'
  <2>1. \A p \in Pids : child'[p].report = "ended" <=> child'[p].phase = "zombie"
    BY <1>1, <1>3 DEF Lives
  <2>2. \A i \in Slots : jobs[i].pid # 0 => child[jobs[i].pid].phase \notin Settled /\ jobs[i].pid \in Pids
    BY <1>5 DEF Lives, TypeOK, Job
  <2>3. \A i \in Slots : jobs'[i].pid # 0 => child'[jobs'[i].pid].phase \notin Settled
    BY <1>2, <1>3, <2>2 DEF Settled
  <2> QED BY <2>1, <2>3 DEF Lives
<1>12. Kept'
  <2>1. Unreaped' = Unreaped \cup {pid}
    BY <1>1, <1>3 DEF Unreaped, InPhase, Phases, Settled, TypeOK, Process
  <2>2. IsFiniteSet(Unreaped')
    BY <2>1, FS_AddElement DEF Kept
  <2>4. \A p \in Pids : ~Adding(p) /\ (p = pid => Adding(p)')
    BY <1>2 DEF Adding
  <2>5. \A p \in Pids : p # pid => child'[p] = child[p]
    BY <1>3
  <2> QED BY <1>2, <1>6, <2>2, <2>4, <2>5 DEF Kept
<1> QED BY <1>4, <1>8, <1>9, <1>10, <1>11, <1>12

LEMMA Reap ==
  ASSUME Jobs, NEW p \in Pids, waitpid(p)
  PROVE  Jobs'
<1> USE DEF Jobs
<1>1. /\ handler' = [active |-> TRUE, pid |-> p, report |-> child[p].report]
      /\ UNCHANGED <<jobs, nextjid, refused, m, pending, typed>>
      /\ handler.active /\ handler.report = "none" /\ child[p].report # "none"
  BY DEF waitpid, Handling, Waitable
<1>2. /\ child' \in [Pids -> Process]
      /\ child'[p].phase = (IF child[p].phase = "zombie" THEN "reaped" ELSE child[p].phase)
      /\ child'[p].report = "none"
      /\ \A q \in Pids : q # p => child'[q] = child[q]
  <2>1. child \in [Pids -> Process]
    BY DEF TypeOK
  <2>2. PICK told : told = [child EXCEPT ![p].report = "none"]
    OBVIOUS
  <2>3. /\ told \in [Pids -> Process] /\ \A q \in Pids : q # p => told[q] = child[q]
        /\ told[p].phase = child[p].phase /\ told[p].report = "none"
    BY <2>1, <2>2 DEF Process, Reports
  <2>4. child' = [told EXCEPT ![p].phase = IF @ = "zombie" THEN "reaped" ELSE @]
    BY <2>2 DEF waitpid
  <2> QED BY <2>3, <2>4 DEF Process, Phases
<1>3. child[p].report \in Reports
  BY DEF TypeOK, Process
<1>4. TypeOK'
  BY <1>1, <1>2, <1>3 DEF TypeOK
<1>5. \A q : Having(q)' = Having(q) /\ ~Removing(q)
  BY <1>1 DEF Having, Removing
<1>6. m.pc # "add"
  BY <1>1 DEF Reaping
<1>7. child[p].report = "ended" <=> child[p].phase = "zombie"
  BY DEF Lives
<1>8. List'
  BY <1>1 DEF List
<1>9. Reaping'
  BY <1>1, <1>2, <1>6, <1>7 DEF Reaping
<1>10. Command'
  BY <1>1, <1>6 DEF Command
<1>11. Lives'
  <2>1. \A q \in Pids : child'[q].report = "ended" <=> child'[q].phase = "zombie"
    BY <1>2 DEF Lives
  <2>2. \A i \in Slots : jobs[i].pid # 0 => child[jobs[i].pid].phase \notin Settled /\ jobs[i].pid \in Pids
    BY <1>5 DEF Lives, TypeOK, Job
  <2>3. child[p].phase \notin Settled => child'[p].phase \notin Settled \/ Removing(p)'
    BY <1>1, <1>2, <1>7 DEF Settled, Removing
  <2>4. \A q \in Pids : child[q].phase \notin Settled => child'[q].phase \notin Settled \/ Removing(q)'
    BY <1>2, <2>3
  <2> QED BY <1>1, <2>1, <2>2, <2>4 DEF Lives
<1>12. Kept'
  <2>1. \A q \in Pids : child[q].phase \in Settled => child'[q].phase \in Settled
    BY <1>2 DEF Settled
  <2>2. \A q \in Pids : child'[q].phase \in {child[q].phase, "reaped"}
    BY <1>2
  <2>3. IsFiniteSet(Unreaped')
    <3>1. Unreaped' \subseteq Unreaped
      BY <2>2 DEF Unreaped, InPhase, Settled
    <3> QED BY <3>1, FS_Subset DEF Kept
  <2>4. \A q \in Pids : ~Adding(q)
    BY <1>6 DEF Adding
  <2> QED BY <1>1, <1>5, <2>1, <2>3, <2>4 DEF Kept
<1> QED BY <1>4, <1>8, <1>9, <1>10, <1>11, <1>12
-----------------------------------------------------------------------------
(* Steps on the job list *)

\* It has no slot for the process being added only if each slot is taken by another
\* process, not yet reaped.
LEMMA Full ==
  ASSUME Jobs, m.pc = "add", Having(0) = {}
  PROVE  Cardinality(Unreaped \ {m.pid}) >= MAXJOBS
<1> USE DEF Jobs
<1> DEFINE others == Unreaped \ {m.pid}
           f == [i \in Slots |-> jobs[i].pid]
<1>1. Having(m.pid) = {} /\ ~handler.active
  BY DEF Command, Reaping
<1>2. \A i \in Slots : jobs[i].pid \in others
  <2> SUFFICES ASSUME NEW i \in Slots PROVE jobs[i].pid \in others
    OBVIOUS
  <2>1. jobs[i].pid # 0 /\ jobs[i].pid # m.pid /\ jobs[i].pid \in Pids
    BY <1>1 DEF Having, TypeOK, Job
  <2>2. child[jobs[i].pid].phase \notin Settled
    BY <1>1, <2>1 DEF Lives, Removing, Reaping
  <2>3. child[jobs[i].pid].phase \in Phases
    BY <2>1 DEF TypeOK, Process
  <2> QED BY <2>1, <2>2, <2>3 DEF Unreaped, InPhase
<1>3. f \in Injection(Slots, others)
  <2>1. \A i, j \in Slots : jobs[i].pid = jobs[j].pid => i = j
    <3>1. \A i \in Slots : jobs[i].pid # 0
      BY DEF Having
    <3> QED BY <3>1 DEF List
  <2> QED BY <1>2, <2>1 DEF Injection, IsInjective
<1>4. IsFiniteSet(others)
  BY FS_Subset DEF Kept
<1>5. IsFiniteSet(Slots) /\ Cardinality(Slots) = MAXJOBS
  <2>1. 0 <= MAXJOBS - 1 /\ 0 \in Int /\ MAXJOBS - 1 \in Int
    BY JobListAssumption
  <2>2. Cardinality(0..MAXJOBS-1) = (MAXJOBS - 1) - 0 + 1 /\ IsFiniteSet(0..MAXJOBS-1)
    BY <2>1, FS_Interval
  <2> QED BY <2>2, JobListAssumption DEF Slots
<1>6. Cardinality(Slots) <= Cardinality(others)
  <2> HIDE DEF others, f
  <2> QED BY <1>3, <1>4, FS_Injection
<1> QED BY <1>5, <1>6

LEMMA Add ==
  ASSUME Jobs, EvalAdd
  PROVE  Jobs'
<1> USE DEF Jobs
<1>1. /\ m.pc = "add" /\ ~handler.active
      /\ addjob(m.pid, IF m.bg THEN "BG" ELSE "FG")
      /\ UNCHANGED <<handler, pending, child, typed>>
  BY DEF EvalAdd, Main
<1>2. m' \in [pc : Places, pid : Pids \cup {0}, bg : BOOLEAN] /\ m'.pid = m.pid
      /\ m'.pc \in {"read", "waitfg"} /\ (~m.bg => m'.pc = "waitfg")
  BY DEF EvalAdd, TypeOK, Places
<1>3. m.pid \in Pids /\ m.pid # 0 /\ Having(m.pid) = {} /\ child[m.pid].phase \notin Settled
  BY <1>1, JobListAssumption DEF Command
<1>4. \A i \in Slots : jobs[i].state # "FG"
  BY <1>1, NoForeground
<1>5. \A p : ~Removing(p)
  BY <1>1 DEF Reaping, Removing
<1>6. IsFiniteSet(Unreaped') /\ refused \subseteq refused'
  <2>1. Unreaped' = Unreaped
    BY <1>1 DEF Unreaped, InPhase
  <2> QED BY <2>1 DEF Kept, EvalAdd
<1>7. Reaping'
  BY <1>1, <1>2 DEF Reaping
<1>8. Command'
  BY <1>2, <1>3 DEF Command
<1>9. CASE Having(0) = {}
  <2>1. UNCHANGED <<jobs, nextjid>>
    BY <1>1, <1>9 DEF addjob
  <2>2. TypeOK'
    BY <1>1, <1>2, <2>1 DEF TypeOK
  <2>3. List' /\ Lives'
    BY <1>1, <1>4, <2>1 DEF List, Lives, Removing
  <2>4. Kept'
    <3>1. m.pid \in refused'
      BY <1>9 DEF EvalAdd
    <3>2. \A p : Having(p)' = Having(p)
      BY <2>1 DEF Having
    <3> QED BY <1>1, <1>6, <3>1, <3>2 DEF Kept, Adding
  <2> QED BY <1>7, <1>8, <2>2, <2>3, <2>4
<1>10. CASE Having(0) # {}
  <2> DEFINE k == Min(Having(0))
             job == [pid |-> m.pid, jid |-> nextjid, state |-> IF m.bg THEN "BG" ELSE "FG"]
  <2>1. k \in Slots /\ jobs[k].pid = 0
    BY <1>10, First
  <2>2. jobs' = [jobs EXCEPT ![k] = job] /\ nextjid' = IF nextjid + 1 > MAXJOBS THEN 1 ELSE nextjid + 1
    BY <1>1, <1>10 DEF addjob
  <2>3. job \in Job /\ job.pid = m.pid /\ (job.state = "FG" => ~m.bg)
    BY <1>3 DEF TypeOK, Job, States
  <2> HIDE DEF k, job
  <2>4. jobs' \in [Slots -> Job] /\ jobs'[k] = job /\ \A i \in Slots : i # k => jobs'[i] = jobs[i]
    BY <2>1, <2>2, <2>3 DEF TypeOK
  <2>5. nextjid' \in Nat
    BY <2>2 DEF TypeOK
  <2>6. TypeOK'
    BY <1>1, <1>2, <2>4, <2>5 DEF TypeOK
  <2>7. \A i \in Slots : jobs[i].pid # m.pid
    BY <1>3 DEF Having
  <2>8. List'
    <3>1. \A i \in Slots : jobs'[i].pid = 0 => jobs'[i] = NoJob
      BY <1>3, <2>3, <2>4 DEF List
    <3>2. \A i, j \in Slots : jobs'[i].pid # 0 /\ jobs'[i].pid = jobs'[j].pid => i = j
      BY <2>3, <2>4, <2>7 DEF List
    <3>3. \A i \in Slots : jobs'[i].state = "FG" => m'.pc \in {"fgkill", "waitfg"} /\ jobs'[i].pid = m'.pid
      BY <1>2, <1>4, <2>3, <2>4
    <3> QED BY <3>1, <3>2, <3>3 DEF List
  <2>9. Lives'
    <3>1. \A i \in Slots : jobs'[i].pid # 0 => child[jobs'[i].pid].phase \notin Settled
      <4> SUFFICES ASSUME NEW i \in Slots, jobs'[i].pid # 0 PROVE child[jobs'[i].pid].phase \notin Settled
        OBVIOUS
      <4>1. CASE i = k
        BY <1>3, <2>3, <2>4, <4>1
      <4>2. CASE i # k
        BY <1>5, <2>4, <4>2 DEF Lives
      <4> QED BY <4>1, <4>2
    <3>2. \A p \in Pids : child'[p].report = "ended" <=> child'[p].phase = "zombie"
      BY <1>1 DEF Lives
    <3>3. child' = child
      BY <1>1
    <3> QED BY <3>1, <3>2, <3>3 DEF Lives
  <2>10. Kept'
    <3>1. \A p : p = m.pid => Having(p)' # {}
      BY <2>1, <2>3, <2>4 DEF Having
    <3>2. ASSUME NEW p \in Pids, Having(p) # {} PROVE Having(p)' # {}
      <4>1. PICK i \in Slots : jobs[i].pid = p
        BY <3>2 DEF Having
      <4>2. i # k
        BY <2>1, <4>1, JobListAssumption
      <4> QED BY <2>4, <4>1, <4>2 DEF Having
    <3>3. ASSUME NEW p \in Pids
          PROVE  child[p].phase \in Settled \/ Having(p)' # {} \/ p \in refused'
      BY <1>6, <3>1, <3>2 DEF Adding, Kept
    <3>4. child' = child
      BY <1>1
    <3> QED BY <1>6, <3>3, <3>4 DEF Kept
  <2> QED BY <1>7, <1>8, <2>6, <2>8, <2>9, <2>10
<1> QED BY <1>9, <1>10

LEMMA Deleted ==
  ASSUME TypeOK, NEW p, Having(p) # {}, deletejob(p)
  PROVE  /\ jobs' \in [Slots -> Job] /\ nextjid' \in Nat
         /\ \E k \in Slots : /\ jobs[k].pid = p /\ jobs'[k] = NoJob
                             /\ \A i \in Slots : i # k => jobs'[i] = jobs[i]
<1> DEFINE k == Min(Having(p))
<1>1. k \in Slots /\ jobs[k].pid = p
  BY First
<1>2. jobs' = [jobs EXCEPT ![k] = NoJob] /\ nextjid' = maxjid(jobs') + 1
  BY DEF deletejob
<1>3. NoJob \in Job
  BY DEF NoJob, Job, States
<1> HIDE DEF k
<1>4. jobs' \in [Slots -> Job] /\ jobs'[k] = NoJob /\ \A i \in Slots : i # k => jobs'[i] = jobs[i]
  BY <1>1, <1>2, <1>3 DEF TypeOK
<1>5. nextjid' \in Nat
  <2> DEFINE T == {jobs'[i].jid : i \in Slots}
             f == [i \in Slots |-> jobs'[i].jid]
  <2>1. T \in SUBSET Nat /\ T # {}
    BY <1>1, <1>4 DEF Job
  <2>2. f \in Surjection(Slots, T)
    BY DEF Surjection
  <2>3. IsFiniteSet(Slots)
    <3>1. 0 \in Int /\ MAXJOBS - 1 \in Int
      BY JobListAssumption
    <3> QED BY <3>1, FS_Interval DEF Slots
  <2>4. maxjid(jobs') = Max(T)
    BY DEF maxjid
  <2> HIDE DEF T, f
  <2>5. IsFiniteSet(T)
    BY <2>2, <2>3, FS_Surjection
  <2>6. Max(T) \in Nat
    BY <2>1, <2>5, MaxNat
  <2> QED BY <1>2, <2>4, <2>6
<1> QED BY <1>1, <1>4, <1>5

LEMMA Restated ==
  ASSUME TypeOK, NEW p, NEW state \in States, setjobstate(p, state)
  PROVE  /\ jobs' \in [Slots -> Job] /\ nextjid' = nextjid
         /\ \A i \in Slots : /\ jobs'[i].pid = jobs[i].pid
                             /\ jobs[i].pid # p => jobs'[i] = jobs[i]
                             /\ jobs'[i].state \in {jobs[i].state, state}
<1>1. CASE Having(p) = {}
  BY <1>1 DEF setjobstate, TypeOK
<1>2. CASE Having(p) # {}
  <2> DEFINE k == Min(Having(p))
  <2>1. k \in Slots /\ jobs[k].pid = p
    BY <1>2, First
  <2>2. jobs' = [jobs EXCEPT ![k].state = state] /\ nextjid' = nextjid
    BY <1>2 DEF setjobstate
  <2> HIDE DEF k
  <2> QED BY <2>1, <2>2 DEF TypeOK, Job
<1> QED BY <1>1, <1>2

LEMMA Relabel ==
  ASSUME Jobs, TypeOK', UNCHANGED <<child, refused>>, m.pc # "add", m'.pc # "add",
         m'.pc \notin {"read", "gone"} => m'.pid \in Pids,
         handler' = handler \/ (handler.report # "ended" /\ handler'.report = "none"),
         \A i \in Slots : jobs'[i].pid = jobs[i].pid /\ (jobs[i].pid = 0 => jobs'[i] = jobs[i]),
         \A i \in Slots : jobs'[i].state = "FG" => m'.pc \in {"fgkill", "waitfg"} /\ jobs'[i].pid = m'.pid
  PROVE  Jobs'
<1> USE DEF Jobs
<1>1. \A p : Having(p)' = Having(p)
  BY DEF Having
<1>2. Unreaped' = Unreaped
  BY DEF Unreaped, InPhase
<1>3. List'
  BY DEF List
<1>4. Reaping'
  BY DEF Reaping
<1>5. Command'
  BY DEF Command
<1>6. Lives'
  <2>1. \A p : Removing(p) => Removing(p)'
    BY DEF Removing
  <2>2. \A p \in Pids : child'[p].report = "ended" <=> child'[p].phase = "zombie"
    BY DEF Lives
  <2> QED BY <2>1, <2>2 DEF Lives
<1>7. Kept'
  <2>1. \A p \in Pids : ~Adding(p)
    BY DEF Adding
  <2> QED BY <1>1, <1>2, <2>1 DEF Kept
<1> QED BY <1>3, <1>4, <1>5, <1>6, <1>7

LEMMA Sets ==
  ASSUME Jobs, BgSetState \/ FgSetState
  PROVE  Jobs'
<1>1. TypeOK /\ m \in [pc : Places, pid : Pids \cup {0}, bg : BOOLEAN]
  BY DEF Jobs, TypeOK
<1>2. PICK state \in {"BG", "FG"} :
        /\ setjobstate(m.pid, state)
        /\ m' = [m EXCEPT !.pc = IF state = "BG" THEN "read" ELSE "fgkill"]
        /\ m.pc \in {"bgset", "fgset"} /\ UNCHANGED <<handler, pending, child, typed, refused>>
  BY DEF BgSetState, FgSetState, SetState, Main
<1>3. /\ jobs' \in [Slots -> Job] /\ nextjid' = nextjid
      /\ \A i \in Slots : /\ jobs'[i].pid = jobs[i].pid
                          /\ jobs[i].pid # m.pid => jobs'[i] = jobs[i]
                          /\ jobs'[i].state \in {jobs[i].state, state}
  BY <1>1, <1>2, Restated DEF States
<1>4. m' \in [pc : Places, pid : Pids \cup {0}, bg : BOOLEAN] /\ m'.pid = m.pid
      /\ m'.pc = (IF state = "BG" THEN "read" ELSE "fgkill")
  BY <1>1, <1>2 DEF Places
<1>5. m.pid \in Pids /\ m.pid # 0
  BY <1>2, JobListAssumption DEF Jobs, Command
<1>6. TypeOK'
  BY <1>2, <1>3, <1>4 DEF Jobs, TypeOK
<1>7. \A i \in Slots : jobs[i].state # "FG"
  BY <1>2, NoForeground
<1>8. ASSUME NEW i \in Slots, jobs'[i].state = "FG"
      PROVE  m'.pc \in {"fgkill", "waitfg"} /\ jobs'[i].pid = m'.pid
  <2>1. state = "FG" /\ jobs[i].pid = m.pid
    BY <1>3, <1>7, <1>8
  <2> QED BY <1>3, <1>4, <2>1
<1>9. m.pc # "add" /\ m'.pc # "add" /\ UNCHANGED <<child, refused, handler>>
  BY <1>2, <1>4
<1> QED BY <1>3, <1>4, <1>5, <1>6, <1>8, <1>9, Relabel

LEMMA Updates ==
  ASSUME Jobs, ChldUpdate
  PROVE  Jobs'
<1> USE DEF Jobs
<1> DEFINE p == handler.pid
<1>1. /\ handler.active /\ handler.report # "none" /\ m.pc # "add"
      /\ p \in Pids /\ p # 0
      /\ UNCHANGED <<m, pending, child, typed, refused>>
  BY JobListAssumption DEF ChldUpdate, Handling, Reaping
<1>2. handler' \in [active : BOOLEAN, pid : Pids \cup {0}, report : Reports] /\ handler'.report = "none"
  <2>1. Idle \in [active : BOOLEAN, pid : Pids \cup {0}, report : Reports] /\ Idle.report = "none"
    BY DEF Idle, Reports
  <2> QED BY <2>1, Entered DEF ChldUpdate
<1>3. handler.report \in Reports
  BY DEF TypeOK
<1>4. CASE handler.report = "ended"
  <2>1. deletejob(p) /\ child[p].phase = "reaped"
    BY <1>4 DEF ChldUpdate, Reaping
  <2>2. \A q : Removing(q) => q = p
    BY DEF Removing
  <2>3. CASE Having(p) = {}
    <3>1. UNCHANGED <<jobs, nextjid>>
      BY <2>1, <2>3 DEF deletejob
    <3>2. TypeOK'
      BY <1>1, <1>2, <3>1 DEF TypeOK
    <3>3. List' /\ Command' /\ Reaping'
      BY <1>1, <1>2, <3>1 DEF List, Command, Reaping
    <3>4. Lives'
      <4>1. \A i \in Slots : jobs[i].pid # 0 => child[jobs[i].pid].phase \notin Settled
        BY <2>2, <2>3 DEF Lives, Having
      <4>2. \A q \in Pids : child[q].report = "ended" <=> child[q].phase = "zombie"
        BY DEF Lives
      <4> QED BY <1>1, <3>1, <4>1, <4>2 DEF Lives
    <3>5. Unreaped' = Unreaped /\ \A q : Having(q)' = Having(q) /\ (Adding(q) <=> Adding(q)')
      BY <1>1, <3>1 DEF Unreaped, InPhase, Having, Adding
    <3>6. Kept'
      BY <1>1, <3>5 DEF Kept
    <3> QED BY <3>2, <3>3, <3>4, <3>6
  <2>4. CASE Having(p) # {}
    <3>1. jobs' \in [Slots -> Job] /\ nextjid' \in Nat
      BY <2>1, <2>4, Deleted
    <3>2. PICK k \in Slots : /\ jobs[k].pid = p /\ jobs'[k] = NoJob
                             /\ \A i \in Slots : i # k => jobs'[i] = jobs[i]
      BY <2>1, <2>4, Deleted
    <3> HIDE DEF p
    <3>3. TypeOK'
      BY <1>1, <1>2, <3>1 DEF TypeOK
    <3>4. NoJob.pid = 0 /\ NoJob.state # "FG"
      BY DEF NoJob
    <3>5. List'
      <4>1. \A i \in Slots : jobs'[i].pid = 0 => jobs'[i] = NoJob
        BY <3>2 DEF List
      <4>2. \A i \in Slots : jobs'[i].pid # 0 => i # k
        BY <3>2, <3>4
      <4>3. \A i, j \in Slots : jobs'[i].pid # 0 /\ jobs'[i].pid = jobs'[j].pid => i = j
        BY <3>2, <4>2 DEF List
      <4>4. \A i \in Slots : jobs'[i].state = "FG" => m'.pc \in {"fgkill", "waitfg"} /\ jobs'[i].pid = m'.pid
        BY <1>1, <3>2, <3>4 DEF List
      <4> QED BY <4>1, <4>3, <4>4 DEF List
    <3>6. Command' /\ Reaping'
      BY <1>1, <1>2 DEF Command, Reaping
    <3>7. Lives'
      <4>1. ASSUME NEW i \in Slots, jobs'[i].pid # 0 PROVE child[jobs'[i].pid].phase \notin Settled
        <5>1. i # k /\ jobs'[i].pid = jobs[i].pid /\ jobs[i].pid # p
          BY <1>1, <3>2, <3>4, <4>1 DEF List
        <5> QED BY <2>2, <4>1, <5>1 DEF Lives
      <4>2. \A q \in Pids : child[q].report = "ended" <=> child[q].phase = "zombie"
        BY DEF Lives
      <4> QED BY <1>1, <4>1, <4>2 DEF Lives
    <3>8. Kept'
      <4>1. Unreaped' = Unreaped /\ \A q : Adding(q) <=> Adding(q)'
        BY <1>1 DEF Unreaped, InPhase, Adding
      <4>2. \A q \in Pids : q # p /\ Having(q) # {} => Having(q)' # {}
        BY <3>2 DEF Having
      <4>3. child[p].phase \in Settled
        BY <2>1 DEF Settled
      <4> QED BY <1>1, <4>1, <4>2, <4>3 DEF Kept
    <3> QED BY <3>3, <3>5, <3>6, <3>7, <3>8
  <2> QED BY <2>3, <2>4
<1>5. CASE handler.report # "ended"
  <2>1. /\ jobs' \in [Slots -> Job] /\ nextjid' \in Nat
        /\ \A i \in Slots : /\ jobs'[i].pid = jobs[i].pid
                            /\ jobs[i].pid # p => jobs'[i] = jobs[i]
                            /\ jobs'[i].state \in {jobs[i].state, "ST"}
    <3>1. CASE handler.report = "stopped"
      <4>1. setjobstate(p, "ST")
        BY <3>1 DEF ChldUpdate
      <4> HIDE DEF p
      <4> QED BY <4>1, Restated DEF States, TypeOK
    <3>2. CASE handler.report = "continued"
      BY <3>2 DEF ChldUpdate, TypeOK
    <3> QED BY <1>1, <1>3, <1>5, <3>1, <3>2 DEF Reports
  <2> HIDE DEF p
  <2>2. TypeOK'
    BY <1>1, <1>2, <2>1 DEF TypeOK
  <2>3. m' = m /\ (m.pc \notin {"read", "gone"} => m.pid \in Pids)
    BY <1>1 DEF Command
  <2>4. \A i \in Slots : jobs'[i].state = "FG" => m'.pc \in {"fgkill", "waitfg"} /\ jobs'[i].pid = m'.pid
    BY <2>1, <2>3 DEF List
  <2> QED BY <1>1, <1>2, <1>5, <2>1, <2>2, <2>3, <2>4, Relabel
<1> QED BY <1>4, <1>5

-----------------------------------------------------------------------------
LEMMA JobsInit == Init => Jobs
<1> SUFFICES ASSUME Init PROVE Jobs
  OBVIOUS
<1> USE DEF Init, initjobs
<1>1. TypeOK
  BY DEF TypeOK, Job, NoJob, States, Places, Idle, Reports, Process, Phases, Keyboard
<1>2. \A i \in Slots : jobs[i].pid = 0 /\ jobs[i].state # "FG" /\ jobs[i] = NoJob
  BY DEF NoJob
<1>3. List /\ Reaping /\ Command
  BY <1>2 DEF List, Reaping, Command, Idle
<1>4. Lives
  BY <1>2 DEF Lives
<1>5. Unreaped = {}
  BY DEF Unreaped, InPhase, Settled
<1>6. Kept
  BY <1>5, FS_EmptySet DEF Kept, Settled
<1> QED BY <1>1, <1>3, <1>4, <1>6 DEF Jobs

LEMMA JobsStep == Jobs /\ [Next]_vars => Jobs'
<1> SUFFICES ASSUME Jobs, [Next]_vars PROVE Jobs'
  OBVIOUS
<1>1. CASE Commands
  <2>1. PICK line \in Parsed : EvalFork(line.bg) \/ do_bgfg(line.argv) \/ quit
    BY <1>1 DEF Commands
  <2>2. CASE EvalFork(line.bg)
    BY <2>2, Parses, Fork
  <2> QED BY <2>1, <2>2, MainGoes
<1>2. CASE Shell
  BY <1>2, Add, MainGoes, Continues, Sets DEF Shell
<1>3. CASE Handlers
  <2>1. ASSUME NEW sig \in Keyboard, handle(sig) PROVE Jobs'
    BY <2>1, Handled, Elsewhere
  <2> QED BY <1>3, <2>1, HandlerWaits, Updates, Reap DEF Handlers
<1>4. ASSUME NEW sig \in Keyboard, UserTypes(sig) \/ DriverSends(sig) PROVE Jobs'
  BY <1>4, Keyed, Elsewhere
<1>5. ASSUME NEW p \in Pids, Starting(p) \/ End(p) \/ Stop(p) PROVE Jobs'
  BY <1>5, Lively, Elsewhere
<1>6. ASSUME NEW p \in Pids, Spin(p) PROVE Jobs'
  BY <1>6, Spun, Elsewhere
<1>7. CASE UNCHANGED vars
  <2>1. TypeOK' /\ Alike
    BY <1>7, Same DEF vars, Jobs, TypeOK
  <2>2. handler.active => m.pc # "add"
    BY DEF Jobs, Reaping
  <2> QED BY <1>7, <2>1, <2>2, Quiet DEF vars
<1> QED BY <1>1, <1>2, <1>3, <1>4, <1>5, <1>6, <1>7 DEF Next

LEMMA JobsInvariant == Spec => []Jobs
BY JobsInit, JobsStep, PTL DEF Spec

\* There is one job in the foreground at most, and main is with it: for every
\* number of slots and processes, and any order of forks, ends and signals.
THEOREM ForegroundAlone == Spec => []OneForeground
<1>1. Jobs => OneForeground
  <2> SUFFICES ASSUME Jobs, NEW i \in Slots, NEW j \in Slots, jobs[i].state = "FG", jobs[j].state = "FG"
               PROVE  i = j /\ m.pc \in {"fgkill", "waitfg"} /\ jobs[i].pid = m.pid
    BY DEF OneForeground
  <2>1. m.pc \in {"fgkill", "waitfg"} /\ jobs[i].pid = m.pid /\ jobs[j].pid = m.pid
    BY DEF Jobs, List
  <2>2. m.pid # 0
    BY <2>1, JobListAssumption DEF Jobs, Command
  <2> QED BY <2>1, <2>2 DEF Jobs, List
<1> QED BY <1>1, JobsInvariant, PTL

\* The list and the processes agree: a job has one slot, from addjob until the
\* handler deletes it after waitpid, and a process that is not yet reaped has one
\* unless it came when MAXJOBS others were not reaped: for every number of
\* processes, of which any number may have used a slot before.
THEOREM JobsTracked == Spec => []Tracked
<1>1. Jobs => Tracked
  <2> SUFFICES ASSUME Jobs PROVE Tracked
    OBVIOUS
  <2>1. ASSUME NEW i \in Slots, jobs[i].pid # 0
        PROVE  Cardinality(Having(jobs[i].pid)) = 1
    <3>1. Having(jobs[i].pid) = {i}
      BY <2>1 DEF Jobs, List, Having
    <3> QED BY <3>1, FS_Singleton
  <2>2. m.pc = "add" /\ Having(0) = {} => Cardinality(Unreaped \ {m.pid}) >= MAXJOBS
    BY Full
  <2> QED BY <2>1, <2>2 DEF Tracked, Jobs, Lives, Kept, Settled, Removing, Adding, Unreaped
<1> QED BY <1>1, JobsInvariant, PTL
=============================================================================
