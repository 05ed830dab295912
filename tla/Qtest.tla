------------------------------- MODULE Qtest -------------------------------
(***************************************************************************)
(* The program qtest: the commands of qtest.c on the queue, read and       *)
(* counted by the console of console.c.  A command is one step, an         *)
(* insertion one step per repetition.  A time limit may stop the routine   *)
(* of the queue after any of its writes.                                   *)
(*                                                                         *)
(* siglongjmp goes back to exception_setup, which has returned: with the   *)
(* frames of the build (-O0) the command goes on as if the routine it had  *)
(* called last had returned 0 or NULL.                                     *)
(***************************************************************************)
EXTENDS LinkedQueue, Report, FiniteSetsExt

CONSTANTS Strings,
          NoQueue,      \* the queue of Deque before q_new
          Commands,     \* what the sources may hold, see Line
          BIG_QUEUE,
          Levels,       \* the verbosity levels of main's option v
          MaxSize,      \* bound: elements of the queue
          MaxLines,     \* bound: commands read
          MaxSources,   \* bound: sources open at a time, beyond which open fails
          MaxTimeouts   \* bound: time limits that strike

ASSUME QtestAssumption ==
  /\ {BIG_QUEUE, MaxSize, MaxLines, MaxSources, MaxTimeouts} \subseteq Nat
  /\ \A c \in Commands : DOMAIN c = {"name", "s", "n", "timed"} /\ c.n \in Nat
  /\ \A c \in Commands : c.name \in {"ih", "it"} => c.s \in Strings

VARIABLES m,          \* the memory and the flags of harness.c
          q, qcnt, fail_count,
          params,     \* the options: fail_probability, fail_limit, err_limit, verblevel
          sources,    \* the number of files on buf_stack
          err_cnt, quit_flag,
          account,    \* what report.c has given to console.c
          cmd,        \* the insertion that goes on, or the last command
          status,     \* running, exit0, exit1, or undefined
          lines, timeouts,
          faulty, trusted    \* history: what became of the errors that were met, see
                             \* Fate; no time limit has struck and no removal has
                             \* emptied the queue

queue == <<q, qcnt, fail_count>>
console == <<params, sources, err_cnt, quit_flag, account, lines>>
qtestVars == <<m, queue, console, cmd, status, timeouts, faulty, trusted>>

\* argv, as far as it matters; n is a repetition count, or an option's value.
Line(name, s, n, timed) == [name |-> name, s |-> s, n |-> n, timed |-> timed]
NoWord == ""

\* The number of words of a line.
Given(given) == IF given THEN 1 ELSE 0
argc(c) == Given(c.timed) + Given(TRUE) + Given(c.s # NoWord) + Given(c.n > 0)

QtestInit ==
  /\ m = NoMemory /\ q = NULL /\ qcnt = 0 /\ fail_count = 0
  /\ params \in [malloc : {0}, fail : {BIG_QUEUE}, error : {5}, verbose : Levels]
  /\ sources = 1 /\ err_cnt = 0 /\ quit_flag = FALSE /\ account = push_file(init_cmd)
  /\ cmd = Line(NoWord, NoWord, 0, FALSE)
  /\ status = "running" /\ lines = 0 /\ timeouts = 0 /\ faulty = {} /\ trusted = TRUE

-----------------------------------------------------------------------------
(* console.c *)

cmd_done == sources = 0 \/ quit_flag

record_errorLast(c, ok) ==       \* mutant: the count starts again with each command
  LET n == IF ok THEN 0 ELSE IF c.timed THEN 2 ELSE 1
  IN err_cnt' = n /\ quit_flag' = (quit_flag \/ n >= params.error)

\* interpret_cmda of a command c that returned ok, and again of a time before it.
record_error(c, ok) ==
  LET n == IF ok THEN 0 ELSE IF c.timed THEN 2 ELSE 1
  IN /\ err_cnt' = err_cnt + n
     /\ quit_flag' = (quit_flag \/ (n > 0 /\ err_cnt + n >= params.error))

do_option_cmd(c) ==
  /\ params' = IF c.s \in DOMAIN params THEN [params EXCEPT ![c.s] = c.n] ELSE params
  /\ record_error(c, c.s \in DOMAIN params)

\* Whether push_file opens the file, with n sources open.
Opens(c, n) == c.name = "source" /\ n < MaxSources
do_source_cmd(c, n) == record_error(c, Opens(c, n)) /\ UNCHANGED params

-----------------------------------------------------------------------------
(* qtest.c: the parts of a command *)

\* The addresses the next allocation may return: the lowest and the highest that
\* is free, or none when it is made to fail.
Offered(taken) ==
  LET free == Unused(m) \ taken
  IN (IF params.malloc < 100 THEN {Min(free), Max(free)} ELSE {})
     \cup (IF params.malloc > 0 THEN {NULL} ELSE {})

\* exception_setup, the routine, exception_cancel: its program is executed to the
\* end, or a prefix of it, and then the routine seems to have returned 0.
Outcomes(mem, program, loops) ==
  {[m |-> Run(mem, program), done |-> TRUE] : n \in {1} \ {IF loops THEN 1 ELSE 0}}
  \cup {[m |-> [Run(mem, SubSeq(program, 1, n)) EXCEPT !.error = TRUE], done |-> FALSE] :
          n \in IF timeouts < MaxTimeouts \/ loops THEN 0..Len(program) ELSE {}}

Clear(mem) == [mem EXCEPT !.error = FALSE]     \* error_check

\* The elements show_queue prints, and what its loop leaves: it asks error_check
\* after each of them.
Printed(mem, queue_, count) ==
  IF Removable(mem, queue_)
  THEN LET chain == Chain(mem, Data(mem, queue_).head)
       IN SubSeq(chain, 1, Min({Len(chain), count})) ELSE <<>>
Shown(mem, queue_, count) ==
  LET printed == Printed(mem, queue_, count)
      next == IF printed = <<>> THEN Data(mem, queue_).head ELSE Data(mem, Last(printed)).next
  IN IF ~Removable(mem, queue_) \/ count = 0 THEN mem
     ELSE IF Len(printed) < count /\ next # NULL THEN Lose(mem) ELSE Clear(mem)

show_queue(mem, queue_, count) ==              \* at level 3
  IF params.verbose >= 3 THEN Shown(mem, queue_, count) ELSE mem

Settle(mem) == m' = mem /\ status' = IF mem.lost THEN "undefined" ELSE "running"

\* What becomes of error_occurred as a routine leaves it: it is there when the
\* command asks for it, show_queue takes it first, or queue_quit never asks.
Asked(error) == IF error THEN {"asked"} ELSE {}
Fate(before, after) ==
  IF before.error /\ ~after.error THEN {"shown"} ELSE Asked(before.error)
Unasked(o) == IF o.m.error THEN {"quit"} ELSE {}

\* A command c ends: mem is what it leaves, fates what became of its errors.
Return(c, mem, ok, fates) ==
  /\ Settle(mem)
  /\ record_error(c, ok)
  /\ cmd' = Line(NoWord, NoWord, 0, FALSE)
  /\ faulty' = faulty \cup fates
Struck(done) == timeouts' = timeouts + IF done THEN 0 ELSE 1

-----------------------------------------------------------------------------
(* qtest.c: the commands *)

\* q_free as do_free and queue_quit call it: a big queue is freed incautiously.
Released(mem) ==
  {[o EXCEPT !.m.cautious_mode = TRUE] :
     o \in Outcomes([mem EXCEPT !.cautious_mode = qcnt <= BIG_QUEUE], q_free(mem, q), Cyclic(mem, q))}

\* Whether do_free returns true; its error_check is not reached if it does not.
Freed(o) == o.m.allocated_count = 0
Left(o)  == IF Freed(o) THEN Clear(o.m) ELSE o.m

do_free(c) ==
  \E o \in Released(Clear(m)) :
    /\ Return(c, Left(o), Freed(o) /\ ~o.m.error, Asked(o.m.error))
    /\ q' = NULL /\ qcnt' = 0 /\ UNCHANGED fail_count
    /\ Struck(o.done) /\ trusted' = (trusted /\ o.done)

do_new(c) ==
  \E o \in IF q = NULL THEN {[m |-> m, done |-> TRUE]} ELSE Released(Clear(m)), a \in Offered({}) :
    \E n \in Outcomes(Clear(o.m), q_new(a), FALSE) :
      /\ o.done \/ n.done
      /\ Return(c, Clear(n.m), (q = NULL \/ (Freed(o) /\ ~o.m.error)) /\ ~n.m.error,
                Asked(o.m.error \/ n.m.error))
      /\ q' = IF n.done THEN a ELSE NULL
      /\ qcnt' = 0 /\ UNCHANGED fail_count
      /\ Struck(o.done /\ n.done) /\ trusted' = (trusted /\ o.done /\ n.done)

\* One turn of the loop of do_insert_head and do_insert_tail, whose routine got a
\* and b and had the outcome o.  They look at the head of the queue, and a NULL
\* there is a segmentation fault: the routine is left a second time, and seems to
\* have failed.
Turn(c, a, b, o) ==
  LET inserted == o.done /\ q # NULL /\ a # NULL /\ b # NULL
      fault == inserted /\ ~Removable(o.m, q)
      count == qcnt + IF inserted THEN 1 ELSE 0
      fails == fail_count + IF inserted /\ ~fault THEN 0 ELSE 1
      ok == (fails = fail_count \/ fails < params.fail) /\ ~fault /\ ~o.m.error
  IN /\ qcnt' = count /\ fail_count' = fails /\ UNCHANGED q
     /\ Struck(o.done) /\ trusted' = (trusted /\ o.done /\ ~fault)
     /\ \/ /\ ok /\ c.n > 1
           /\ Settle(o.m) /\ cmd' = [c EXCEPT !.n = @ - 1]
           /\ UNCHANGED <<err_cnt, quit_flag, faulty>>
        \/ /\ ~(ok /\ c.n > 1)
           /\ Return(c, show_queue(Clear(o.m), q, count), ok, Asked(o.m.error \/ fault))

Insert(c) ==
  \E a \in Offered({}) : \E b \in IF a = NULL THEN {NULL} ELSE Offered({a}) :
    \E o \in Outcomes(m, IF c.name = "ih" THEN q_insert_head(m, q, c.s, a, b)
                                          ELSE q_insert_tail(m, q, c.s, a, b), FALSE) :
      Turn(c, a, b, o)

\* do_remove_head with a string to compare or without, and the quiet one.
do_remove_head(c) ==
  \E o \in Outcomes(Clear(m), q_remove_head(m, q), FALSE) :
    LET removed == o.done /\ Removable(m, q)
        text == Data(m, Data(m, Data(m, q).head).value)
        fails == fail_count + IF removed THEN 0 ELSE 1
        count == qcnt - IF removed THEN 1 ELSE 0
        ok == IF removed /\ ~o.m.lost THEN c.s # NoWord => text = Text(c.s)
              ELSE c.s = NoWord /\ fails < params.fail
        end == show_queue(o.m, q, count)
    IN /\ qcnt' = count /\ fail_count' = fails /\ UNCHANGED q
       /\ Return(c, IF ok THEN Clear(end) ELSE end, ok /\ ~end.error, Fate(o.m, end))
       /\ Struck(o.done)
       /\ trusted' = (trusted /\ o.done /\ (removed => Removable(o.m, q)))

do_reverseForgets(c) ==          \* mutant: allocation stays disallowed after a time limit
  \E o \in Outcomes([Clear(m) EXCEPT !.noallocate_mode = TRUE], q_reverse(m, q), FALSE) :
    LET end == show_queue([o.m EXCEPT !.noallocate_mode = ~o.done], q, qcnt)
    IN /\ Return(c, Clear(end), ~end.error, Fate(o.m, end))
       /\ Struck(o.done) /\ trusted' = (trusted /\ o.done)
       /\ UNCHANGED queue

do_reverse(c) ==
  \E o \in Outcomes([Clear(m) EXCEPT !.noallocate_mode = TRUE], q_reverse(m, q), FALSE) :
    LET end == show_queue([o.m EXCEPT !.noallocate_mode = FALSE], q, qcnt)
    IN /\ Return(c, Clear(end), ~end.error, Fate(o.m, end))
       /\ Struck(o.done) /\ trusted' = (trusted /\ o.done)
       /\ UNCHANGED queue

do_size(c) ==
  \E o \in Outcomes(Clear(m), <<>>, FALSE) :
    /\ Return(c, show_queue(Clear(m), q, qcnt), o.done /\ q_size(m, q) = qcnt, Asked(o.m.error))
    /\ Struck(o.done) /\ trusted' = (trusted /\ o.done)
    /\ UNCHANGED queue

do_show(c) ==
  LET printed == Printed(m, q, qcnt)
      rest == IF printed = <<>> THEN Data(m, q).head ELSE Data(m, Last(printed)).next
  IN /\ Return(c, Shown(m, q, qcnt), q = NULL \/ (rest = NULL /\ (printed = <<>> \/ ~m.error)), {})
     /\ UNCHANGED <<queue, timeouts, trusted>>

-----------------------------------------------------------------------------
(* console.c: a line *)

\* do_quit_cmd and queue_quit.
do_quit_cmd(c) ==
  \E o \in Released(m) :
    /\ Settle(o.m)
    /\ err_cnt' = err_cnt + IF Freed(o) THEN 0 ELSE IF c.timed THEN 2 ELSE 1
    /\ sources' = 0 /\ quit_flag' = TRUE
    /\ faulty' = faulty \cup Unasked(o)
    /\ Struck(o.done) /\ trusted' = FALSE
    /\ UNCHANGED <<queue, params, cmd>>

Interpret(c) ==
  \/ c.name = "new" /\ Unused(m) # {} /\ do_new(c)
  \/ c.name = "free" /\ do_free(c)
  \/ c.name \in {"rh", "rhq"} /\ do_remove_head(c)
  \/ c.name = "reverse" /\ do_reverse(c)
  \/ c.name = "size" /\ do_size(c)
  \/ c.name = "show" /\ do_show(c)

\* An insertion goes on with NextInsert.
StartInsert(c) ==
  /\ c.name \in {"ih", "it"} /\ c.n > 0
  /\ qcnt + c.n <= MaxSize /\ Cardinality(Unused(m)) >= 2 * c.n
  /\ cmd' = c /\ m' = Clear(m)
  /\ UNCHANGED <<queue, params, err_cnt, quit_flag, status, timeouts, faulty, trusted>>

\* A command of the console itself, or one that is unknown, with n sources open.
InterpretOwn(c, n) ==
  /\ \/ c.name = "option" /\ do_option_cmd(c)
     \/ c.name = "source" /\ do_source_cmd(c, n)
     \/ c.name \in {"help", "#"} /\ record_error(c, TRUE) /\ UNCHANGED params
     \/ c.name \notin ToSet(cmd_list) /\ record_error(c, FALSE) /\ UNCHANGED params
  /\ UNCHANGED <<m, queue, cmd, status, timeouts, faulty, trusted>>

\* readline and interpret_cmd.  The last line of a file may lack its newline, and
\* the file is popped before the line is interpreted.
ReadLine ==
  /\ status = "running" /\ cmd.name = NoWord /\ ~cmd_done /\ lines < MaxLines
  /\ lines' = lines + 1
  /\ \E c \in Commands, popped \in BOOLEAN :
       LET parsed == parse_args(IF popped THEN pop_file(account) ELSE account, argc(c))
           left == IF popped THEN sources - 1 ELSE sources
           opened == IF Opens(c, left) THEN 1 ELSE 0
       IN \/ /\ (Interpret(c) /\ UNCHANGED params) \/ InterpretOwn(c, left)
             /\ sources' = left + opened
             /\ account' = free_args(IF opened = 1 THEN push_file(parsed) ELSE parsed, argc(c))
          \/ /\ StartInsert(c)
             /\ sources' = left /\ account' = parsed
          \/ /\ c.name = "quit" /\ do_quit_cmd(c)
             /\ account' = free_args(FreeLists(parsed, left), argc(c))

NextInsert ==
  /\ status = "running" /\ cmd.name # NoWord
  /\ Insert(cmd)
  /\ account' = IF cmd'.name = NoWord THEN free_args(account, argc(cmd)) ELSE account
  /\ UNCHANGED <<params, sources, lines>>

EndOfFile ==
  /\ status = "running" /\ cmd.name = NoWord /\ ~cmd_done
  /\ sources' = sources - 1 /\ account' = pop_file(account)
  /\ UNCHANGED <<m, queue, params, err_cnt, quit_flag, lines, cmd, status, timeouts, faulty, trusted>>

\* run_console returns; finish_cmd quits unless that has been done.
Finish ==
  /\ status = "running" /\ cmd.name = NoWord /\ cmd_done
  /\ IF err_cnt = 0 /\ ~quit_flag
     THEN \E o \in Released(m) :
            /\ m' = o.m /\ faulty' = faulty \cup Unasked(o) /\ Struck(o.done)
            /\ account' = FreeLists(account, sources)
            /\ status' = IF o.m.lost THEN "undefined" ELSE IF Freed(o) THEN "exit0" ELSE "exit1"
     ELSE /\ status' = IF err_cnt = 0 THEN "exit0" ELSE "exit1"
          /\ UNCHANGED <<m, faulty, timeouts, account>>
  /\ trusted' = FALSE
  /\ UNCHANGED <<queue, params, sources, err_cnt, quit_flag, lines, cmd>>

QtestNext == ReadLine \/ NextInsert \/ EndOfFile \/ Finish

QtestSpec == QtestInit /\ [][QtestNext]_qtestVars

-----------------------------------------------------------------------------
\* Every time limit, segmentation fault and misuse of free that is still reported
\* when its command asks makes qtest exit with 1, whatever command it fell into,
\* wherever it left a routine and whatever came after it (console.c:593).
ErrorsCounted == status = "exit0" => "asked" \notin faulty

\* "Return true if no errors occurred" (console.h:80), of all the errors commands
\* meet: true only where the verbosity stays below that of show_queue.
CommandErrorsTold == status = "exit0" => faulty \subseteq {"quit"}

\* Whatever leaves a command, and wherever a file ends, a program that exits with 0
\* has given back all that report.c gave out.
GivenBack == status = "exit0" => account = Account(0, 0)

\* Before a time limit strikes the list of allocated blocks is linked both ways,
\* its length is the count, and the blocks are those of the queue, so that
\* do_free finds none left whichever allocations failed before; and what the
\* console has allocated is given back.
Accounted ==
  /\ trusted =>
       LET list == Blocks(m, m.allocated)
           chain == IF q = NULL THEN <<>> ELSE Chain(m, Data(m, q).head)
       IN /\ ToSet(list) = Live(m) /\ Len(list) = m.allocated_count
          /\ \A i \in DOMAIN list : m.blk[list[i]].prev = IF i = 1 THEN NULL ELSE list[i - 1]
          /\ Live(m) = ({q} \ {NULL}) \cup UNION {{e, Data(m, e).value} : e \in ToSet(chain)}
  /\ GivenBack

\* Between commands the harness is as cautious as at the start, and allocation is
\* allowed, wherever a time limit has left a command.
Restored == cmd.name = NoWord => m.cautious_mode /\ ~m.noallocate_mode

\* While trusted the linked list is the sequence of strings queue.h describes.
Items ==
  IF q = NULL \/ ~trusted THEN NoQueue
  ELSE LET chain == Chain(m, Data(m, q).head)
       IN [i \in DOMAIN chain |-> Data(m, Data(m, chain[i]).value).s]
Deq == INSTANCE Deque WITH items <- Items
ImplementsDeque == Deq!Spec
=============================================================================
