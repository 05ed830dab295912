------------------------------ MODULE JobList ------------------------------
(***************************************************************************)
(* The job list of tsh.c and the helper routines that manipulate it.  A    *)
(* routine is an action on jobs and nextjid; module Tsh calls them with    *)
(* every signal blocked.                                                   *)
(***************************************************************************)
EXTENDS Integers, FiniteSets, FiniteSetsExt

CONSTANTS MAXJOBS,
          Pids        \* the processes ever forked, positive

ASSUME JobListAssumption == MAXJOBS \in Nat \ {0} /\ Pids \subseteq Nat \ {0}

VARIABLES jobs, nextjid

Slots  == 0..MAXJOBS-1
States == {"UNDEF", "FG", "BG", "ST"}
NoJob  == [pid |-> 0, jid |-> 0, state |-> "UNDEF"]

initjobs ==
  /\ jobs = [i \in Slots |-> NoJob]
  /\ nextjid = 1

\* The slots of a process, and the first of several slots.
Having(pid) == {i \in Slots : jobs[i].pid = pid}
maxjid(js)  == Max({js[i].jid : i \in Slots})

\* pid of the foreground job, 0 if none.
fgpid == LET fg == {i \in Slots : jobs[i].state = "FG"}
         IN IF fg = {} THEN 0 ELSE jobs[Min(fg)].pid

\* The job with a PID or a JID, NoJob if none.
getjobpid(pid) == IF Having(pid) = {} THEN NoJob ELSE jobs[Min(Having(pid))]
getjobjid(jid) == LET is == {i \in Slots : jobs[i].jid = jid}
                  IN IF is = {} THEN NoJob ELSE jobs[Min(is)]

addjob(pid, state) ==
  IF Having(0) = {}
  THEN UNCHANGED <<jobs, nextjid>>
  ELSE /\ jobs' = [jobs EXCEPT ![Min(Having(0))] =
                     [pid |-> pid, jid |-> nextjid, state |-> state]]
       /\ nextjid' = IF nextjid + 1 > MAXJOBS THEN 1 ELSE nextjid + 1

deletejob(pid) ==
  IF Having(pid) = {}
  THEN UNCHANGED <<jobs, nextjid>>
  ELSE /\ jobs' = [jobs EXCEPT ![Min(Having(pid))] = NoJob]
       /\ nextjid' = maxjid(jobs') + 1

setjobstate(pid, state) ==
  /\ jobs' = IF Having(pid) = {} THEN jobs
             ELSE [jobs EXCEPT ![Min(Having(pid))].state = state]
  /\ UNCHANGED nextjid
=============================================================================
