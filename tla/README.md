# A verification development of the CMU 15-213 lab solutions

The repository holds one student's solutions to the labs of CMU 15-213 with the
lab handouts and the example programs of the book. It is not one program: it is
a dozen small ones, and the libraries they share. This directory models them in
TLA+, checks the models with TLC and proves theorems about them with TLAPS.
`PROJECT.json` maps definitions to source lines, lists the runs, the mutants,
the findings and the hazards.

## Inventory

| component | state | operations | what must hold |
|---|---|---|---|
| `sbuf` (`7_ProxyLab/demoCode/conc/sbuf.c`) | `buf`, `front`, `rear`, three semaphores | `sbuf_insert`, `sbuf_remove` | a bounded FIFO queue, no deadlock, exclusion |
| proxy (`7_ProxyLab/proxylab-handout/proxy.c`) | cache lines, `read_cnt`, `mutex`, `w`, `curr_time`, descriptors | `main` accepts, `serve` runs once per thread | readers-writers, lines not torn, the client gets its object, LRU |
| rio (`csapp.c`) | internal buffer, pointer, count | `rio_writen`, `rio_readn`, `rio_readnb`, `rio_readlineb` | bytes in order, none lost, whole lines |
| tsh (`5_ShellLab/shlab-handout/tsh.c`) | job list, `nextjid`, signal mask | `eval`, `parseline`, `do_bgfg`, `waitfg`, three signal handlers | the list agrees with the processes, one foreground job, the prompt returns |
| allocators (`6_MallocLab`, `code_examples/vm/malloc`) | heap words, free list or rover | `mm_init`, `mm_malloc`, `mm_free`, `mm_realloc` | disjoint blocks, contents kept, consistent tags and lists |
| `mdriver` (`6_MallocLab`) | ranges, blocks, errors, a stopwatch | judge, measure and time a trace | errors are those of the package, times are those of the runs |
| string queue and `qtest` (`0_CProgrammingLab/cprogramminglab-handout-solution`) | linked list, harness blocks, sources, options, counts | `q_*` under the commands of a console | a deque, no leak, an honest exit status |
| csim, transpose, `test-trans` (`4_CacheLab/cachelab-handout`) | lines with tag and time; matrices | one reference at a time | counts of an LRU cache; a transposed matrix and its misses |
| data lab (`1_DataLab/datalab-handout-solution`) | words; the state of `btest` | 13 puzzles, generated arguments, an alarm | puzzles equal their references, the verdict falls on the right one |
| echo servers (`7_ProxyLab/demoCode`) and `tiny` | `sbuf` or a `select` pool, `byte_cnt`, descriptors, children | accept, read, answer, close, reap | every client gets its own answer, everyone is served |
| book examples (`code_examples/ecf`, `code_examples/conc`) | a few variables, masks, children | one program each | what the program is an example of |

How they interact: `proxy.c`, `tiny` and the echo servers read and write through
`rio` on sockets the kernel hands out; the prethreaded server passes descriptors
from `main` to its workers through `sbuf`; `proxy.c`'s threads share memory;
`tsh`'s main program and its handlers share the job list, and signals are the
only messages; the queue allocates through the harness, and a time limit of the
console leaves a routine of the queue by a jump; the allocators get memory from
`memlib.c` and are called by `mdriver`; `test-trans` feeds the references of a
transpose function to `csim`. No component persists anything, so there is no
crash recovery.

What is hard here: threads that read the cache without a lock and act on it
later; descriptors reused by the kernel while a thread still holds the number;
signals in any order between fork, setpgid, exec, death and `addjob`; signals
that coalesce; pointer surgery whose cases depend on a long history; a jump out
of the middle of it; short counts and interruptions; a failure between two
allocations; clients that leave.

## The modules

| module | models | refines |
|---|---|---|
| `Sbuf` | `sbuf.c` | `BoundedFifo` |
| `Proxy`, `MCProxy` | `proxy.c` | |
| `ProxyProofs` | theorems about `Proxy`: readers and writers, whole lines, duplicates, replacement, delivery | |
| `Rio` | `rio_*` of `csapp.c` | |
| `CsappProofs` | theorems about `Sbuf`, among them that it implements `BoundedFifo`, and about `Rio`: the stream and its lines | |
| `JobList`, `CommandLine`, `Tsh` (extends both), `MCTsh` | `tsh.c`, the signals of `sdriver.pl` | |
| `TshProofs` | theorems about `Tsh`: the job list and its foreground job | |
| `ImplicitMalloc` | `malloclab-implicit/mm.c` (next fit), `code_examples/vm/malloc/mm.c` (first fit), `memlib.c` | `RoverHeap`, `BlockHeap` |
| `ExplicitMalloc` | `malloclab-explicit/mm.c` (best fit), `mm_copy.c` (as a list), `memlib.c` | `FreeListHeap` |
| `BlockHeap`, `RoverHeap`, `FreeListHeap` | the two `vm/malloc/mm.c` and what all builds have in common, without words | |
| `BlockHeapProofs` | theorems about the heaps of blocks, with next fit and with an explicit list | |
| `Timing`, `Mdriver` (extends `ImplicitMalloc`) | `mdriver.c`; `fsecs.c`, `fcyc.c`, `ftimer.c`, `clock.c` | `Allocator` |
| `MdriverProofs` | theorems about `Mdriver`: the ranges of the payloads, the count of errors | |
| `Harness`, `LinkedQueue`, `Report`, `Qtest`, `MCQtest` | `harness.c`, `queue.c`, `report.c`, `qtest.c` with `console.c` | `Deque` |
| `Csim`, `Transpose`, `CacheLab` (extends both) | `csim.c`, `trans.c`, `tracegen.c`, `test-trans.c` | `LruCache` |
| `Words`, `DataLab`, `Btest` | gcc's words, `bits.c` with `tests.c`, `btest.c` with `decl.c` | |
| `LabProofs` | theorems about `Csim`, among them that it implements `LruCache`, about the alarm of `Btest`, and about `Qtest`: modes, exit status, accounts | |
| `Sockets`, `EchoServers`, `TinyServer`, `Servers` | clients and `csapp.c`, the five echo servers, `tiny.c` with `adder.c` | uses `BoundedFifo` |
| `ServersProofs` | theorems about `Servers`: who holds which descriptor, what is counted, what every client gets back | |
| `Machine`, `Examples` | what the programs call, the programs of `ecf/` and `conc/` | |
| `Induction` | induction and sums over finite sets, for the proofs | |

`BoundedFifo`, `Allocator`, `Deque`, `LruCache` and `BlockHeap` with its two
extensions say what a caller is promised, without the mechanism; the detailed
module instantiates them with a mapping of its state and checks the result as a
property.

A definition marked `\* mutant:` is a plausible bug in the definition that
follows it. It is used by no specification; it stands there to show which
property catches the bug.

### Sbuf

`buf`, `front`, `rear` are the fields of `sbuf_t`; `sem` holds its three
semaphores; `pc`, `reg` and `item` are a thread's place in its call, the
incremented index it holds in a register and its argument or result. `P`
decrements a positive counter, `V` increments. `++sp->rear` is two steps, since
only the lock makes it one. `MaxInserts` bounds the insertions, so that `front`
and `rear` are bounded too; `IntMax` is `INT_MAX`, and the increment wraps as
the usual builds do. The abstract queue is the part of the ring from `front+1`
to `rear`: an insertion takes effect at its store, a removal at its own.

### Proxy

A connection `c` has the locals of its `serve` in `th[c]`; `pc` names the next
step. A step has at most one access to memory that other threads can change at
that moment: each turn of the two loops over the cache is a step, and so are
each assignment to a line field and each descriptor operation. Under `w` the
copy of content and length is one step, since readers are excluded and the two
unlocked scans look only at other fields. `curr_time` is read with the first
step of a locked section. An object stands for a request, its hash and its
response; the response is a sequence of chunks as `Rio_readnb` returns them.
The descriptor table is the kernel's, which returns the lowest free number.
`proxy_serverfd`, which a hit never assigns, starts as 0 or, with `StaleStack`,
as anything an earlier thread left. Reading or relaying on a descriptor that
belongs to something else has no meaning the source gives it: `status` becomes
`undefined` and the behaviour ends. A load says which objects are asked for and
how many connections live at once, so that one run has both concurrent requests
and a longer sequence of requests one at a time.

### Rio

The peer's `rio_writen` and the reader's calls share the socket. A byte is its
position in the stream, so order and loss are visible. `Copy` is the tail of
`rio_read` with the loop of its caller; `Read`, `ReadInterrupted`, `ReadEof`
and `ReadFails` are the outcomes of the system call in its refill loop. `ReadN`
is the same for `rio_readn`, which reads past the internal buffer and is used
while nothing is in it. A write that fails ends the peer where it is.

### JobList, CommandLine and Tsh

The routines of the job list are operators on `jobs` and `nextjid`, which `Tsh`
uses under a full signal mask. `CommandLine` has `parseline` and what `do_bgfg`
makes of its argument; a line is a sequence of spaces, quotes, ampersands, digits
and words, and a command of `Tsh` is what comes of one. In `Tsh`, `m` is
the main program, `handler` the SIGCHLD handler between two `waitpid`s,
`pending` the signals not yet delivered, `child` the processes: before `setpgid`
a child is in the shell's group, and before `execv` it has the shell's
handlers. Main moves only when no unblocked signal is pending. `sigsuspend(NULL)`
fails with `EFAULT`, so `waitfg` is a loop that spins; the model has the turn
that leaves it. The keyboard signals the group of the terminal, the driver the
shell alone.

### The allocators

`mem` is the heap word by word; headers, footers and links are in it as the
code writes them, and the macros are operators on it. `coalesce`, `place`,
`extend_heap` and `find_fit` are functions of a heap. `ImplicitMalloc` has both
settings of `NEXT_FIT`, `ExplicitMalloc` both of `BEST_FIT`. The program
writes a mark into every word it owns, and words nobody owns are overwritten
with junk, so that a routine that reads what it may not rely on, or writes
where it must not, is seen. `Allocator` keeps only the words each handle owns.

`BlockHeap` is the level between: blocks with a size, allocated or free, that
tile the heap, and routines that find, split and merge them. The search may be
left open or return the lowest block that fits. `RoverHeap` adds the rover of next fit,
`FreeListHeap` the sequence of free blocks, whose three times three cases of
`coalesce` come to one: the merged neighbours leave the list and the result is
its head. The four builds of words and links implement the heap of blocks that
belongs to them (`ImplementsBlocks`).

### Mdriver and Timing

`phase` is where the driver is in a trace: `eval_mm_valid`, `eval_mm_util`,
`eval_mm_speed` or, first and with `-l`, the two passes over libc. A trace is
chosen while its first pass runs, since no pass looks ahead. `ranges`,
`blocks`, `block_sizes` are the driver's. Besides the four builds it drives a
package that returns anything at all, for which the driver's own checks matter,
and libc, external, which returns any range that overlaps no other or NULL.
A trace has up to `MaxOps` requests; for the packages of `Endless` there is also
one that is judged and never ends, so that the heap goes through every state its
size allows.

In `Timing` the unit of time is a cycle and a stopwatch a record; a run of the
function takes any of a few durations, and the timer may tick in it. `Word` is
the width of half of the cycle counter, and `get_counter` subtracts by halves
as the code does. `fcyc` keeps the `kbest` fastest runs and stops when they
agree or after `maxsamples`.

### Harness, LinkedQueue, Report and Qtest

A routine of the queue is the sequence of the writes it makes, its program,
chosen for the memory it starts in. `Run` executes a program or, when the time
limit strikes, a prefix of it. A block has a header with the links of the list
of allocated blocks and a magic number; an insertion takes two free addresses,
whichever they are, or fails. A command of the console is one step, an insertion
one step per repetition. After the jump out of a routine the command goes on as
if the routine had returned 0 or NULL: that is what the frames of the build
without optimisation give (`siglongjmp` to a frame that has returned has no
defined meaning, and `lost` marks the cases where that makes a difference).
`account` is the blocks and bytes `report.c` believes are out: commands, options, a
buffer for each source, the words of a line. `trusted` holds until a time limit has
struck or a removal has emptied the queue.

### Csim, Transpose, CacheLab

The cache is the flat array of lines with `E * set + line` as index; an address
is decoded by `set_bits` and `tag_bits`, and `TagMod` is the width of the `int`
that carries the tag. The lines start with garbage apart from `valid_bit`. The
abstract cache orders the blocks of each set by recency and keeps no time.
A transpose function is the sequence of its references to A and B; `CacheLab`
executes them on the matrices and on an instance of `Csim` with the geometry of
the lab, and validates the result, as `tracegen.c` and `test-trans.c` do.

### Words, DataLab, Btest

A word is the set of the positions of its one bits; `Words` has what gcc on x86
makes of C's operators on it. `DataLab` has the puzzles of `bits.c` and the
references of `tests.c`. In `Btest` a fault is a puzzle whose solution is wrong
or does not return; SIGALRM jumps to where the test began.

### Sockets, EchoServers, TinyServer, Servers

A line is two pieces, since a read may end within it. A process has its own
table of descriptors, copied by fork; threads share one, and read the
descriptor they were given from a cell that main may overwrite. `pool` is that
of `echoservers.c`, whose `check_clients` works on a copy of a client's buffer.
A response of `tiny` is the sequence of its parts, one for each `Rio_writen`.

### Machine, Examples

A program is a sequence of instructions, and `Machine` executes one call or one
access to memory per step: `fork`, `waitpid`, `kill`, masks, handlers, jumps,
threads, semaphores. Output is line buffered: what is printed without a newline
stays in the buffer of its process (`unflushed`) until a newline comes or the process
exits, fork copies it, and `_exit` and `execve` lose it. Printed text is reduced to who printed it and the number in it.

## The runs

| run | question | bounds and why they are enough |
|---|---|---|
| `sbuf` | FIFO, exclusion, accounting, progress | 2 producers, 2 consumers, 2 slots, 4 insertions: full and empty buffer, two threads waiting at either end, an index that goes round twice |
| `proxy_race` | readers-writers, torn lines, delivery, duplicates, replacement | 3 connections at once for 2 objects, and 5 one at a time for 3 objects, on 2 lines: two writers and a reader, duplicates, fill, hit, evict, and evict again; one object too large for a line |
| `proxy_faults` | completion, with failures | 1 line, 3 connections, 2 at a time, a failing and a malformed object, one leaving client, reused stacks |
| `proxy_stale` | a hit sends what was asked for | 1 line, 3 connections |
| `tsh` | agreement of list and processes, one foreground job, the prompt returns | 3 processes, 2 table slots (so the table overflows), job IDs 1 to 3 (three additions reach no other), 1 signal of the keyboard or the driver, 22 command lines |
| `mdriver` | heaps, driver, timing, refinement of `Allocator` and of the heaps of blocks | 4 handles, one of which is an index whose low byte is no positive char, 2 sizes, heaps of 20 to 36 words: splits, exact fits, extension, exhaustion, and every case of `coalesce`; 2 traces of up to 4 requests; counters of 2 bits in each half |
| `datalab` | puzzles against references, verdict, alarm | arguments of `btest` with a range of 8 and two random words; all 13 puzzles; one wrong or endless solution of each kind; a float puzzle on all arguments from 16 exponents and 10 bits of the fraction |
| `qtest` | exit status, accounts, modes, deque | verbosity 4, the default, or 1 after an option; 4 lines of 16 commands, 7 addresses, 2 strings, nested sources to depth 2, one time limit at any write |
| `csim` | LRU counts, transposition, misses | 2 sets of 2 lines of 2 bytes, 7 addresses, 5 references; the transpose functions on the matrices of the lab (32 by 32, 64 by 64, 61 by 67) and on others of 5 to 24 rows and columns |
| `rio` | byte stream, lines, end | 6 bytes, buffer 2, socket 3, user buffers 2, 3 and 5, 2 interruptions: lines across refills, lines longer than the buffer, an unterminated last line |
| `servers` | own answers, counts, who closes which connection, progress, reaping | 2 clients with 2 lines of 2 pieces, 2 workers, a buffer of 1, a pool of 2; each of the six servers |
| `examples` | outputs, reaping, termination | 4 tasks, 2 keyboard signals, 39 programs |

Deadlock is not checked: every one of these systems may stop. The bounds end,
every connection is served, every consumer waits on an empty buffer, a program
has run to its end. There progress is a property of its own (`Drains`,
`Completes`, `PromptReturns`, `Terminates`, `Delivers`, `Served`, `Reaped`,
`Ends`).

Every property has a mutant that violates it under the bounds of its run, so that
none of the bounds is too small for the case the property is about.

### What the code does not do

One run checks a statement of a comment, and TLC finds a behaviour of the code
that contradicts it: `proxy_stale`. A hit sends the cached object
(`proxy.c:191`), but between `check_cache` and the read lock another thread may
fill the line with another object.

The models also do the following, as the code does. The third column says by what the
behaviour enters a model, and what the properties leave out because of it.

| code | what happens | where in the models |
|---|---|---|
| `sbuf.c:32` | `rear` and `front` wrap after `INT_MAX` insertions and index outside `buf` | `IntMax`, which is above `MaxInserts` in the run: the FIFO queue is claimed for insertions an `int` can count |
| `proxy.c:214` | a failed connect leaves an empty object in the cache, and `Close(-1)` ends the process for every client | `ConnectFails`, `Close`; `NoTornLine` is about what a thread has kept, and `Completes` counts the end of the process as an end |
| `proxy.c:237` | `total` counts only the chunks that fitted, so an object above the maximum is cached, truncated | `Size`s above `MAX_OBJECT_SIZE`, as `big` in `proxy_race` |
| `proxy.c:240` | two threads that miss the same object at once fill two lines with it | `NoDuplicate` is about one connection at a time |
| `proxy.c:263` | a hit closes whatever number is on the stack, usually 0; a server that later gets descriptor 0 is taken for a failed connect | `Undisturbed` is stated for behaviours without a hit |
| `proxy.c:361`, `:374` | after a 501 or a 400 the request is served all the same | `Malformed` in `proxy_faults` |
| `proxy.c:391` | `parse_hdr` goes on for ever at the end of file, past the end of its buffer | status `undefined` |
| `tsh.c:416` | a ctrl-c without a foreground job makes the shell signal its own group for ever | `pending` never loses the signal |
| `tsh.c:212` | a ctrl-c between `fork` and `setpgid` reaches a background job, whose copy of the handler spins | phases `spinning` and `stuck` |
| `tsh.c:319` | `bg` unblocks signals between `kill` and `setjobstate`, and overwrites the ST of a job that stops in between | no property says that a BG job is running |
| `tsh.c:480` | `addjob` does not look whether `nextjid` is taken; after its wrap or a deletion it may be, and two jobs have one ID | job IDs in `jobs` |
| `mm.c:457` (explicit), `vm/malloc/mm.c:113` | the adjustment of a size near the largest `size_t` wraps, and the block is too small | `Adjusted` is taken modulo `SizeMod`; the sizes of the run, and those `Room` is about, stay below |
| `mm.c:589` (explicit) | `realloc` copies the size of the old block, overhead included | the new block holds junk beyond the old payload, which `Implements` allows |
| `mdriver.c:392` | a payload around an older one is not noticed | `OverlapsOnlyAround` |
| `mdriver.c:628` | the data of a correct `realloc` is taken for lost if the low byte of the index is 128 or more | index 130 in the run; `NoFalseAlarm` names such indices (`Plain`) |
| `fcyc.c` | with compensation a best time below zero never converges; calibration may find no tick and is run again | `comp` in `Timing` |
| `queue.c:197` | an emptied queue has a dangling tail, to which the next insertion is linked | `trusted` becomes FALSE |
| `queue.c:236` | the reversal of a list that has become a cycle comes back to its start and ends | `Returned` |
| `qtest.c:417` | `show_queue` asks `error_check` after every element, which clears the error its caller asks for next | the fate `"shown"` in `faulty`, which `ErrorsCounted` leaves out; `CommandErrorsTold` has it, and holds below verbosity 3 |
| `qtest.c:471` | the errors of the last `q_free` are asked for by nobody | the fate `"quit"`, which `ErrorsCounted` leaves out |
| `harness.c:218` | the time limit jumps into a frame that has returned | `lost`, status `undefined` |
| `console.c` | `quit` ignores a time limit unless blocks are left; `time` counts the error of its command twice | `Finish`, `record_error` |
| `report.c:82` | an error closes the log file, also when there is none | not modelled, with the log |
| `csim.c` | the check of the options looks at the address of the file's pointer, so a missing `-t` is not found | `Accepted` |
| `csim.c:48` | 64-bit tags are compared in 32 bits | `TagMod`, which no tag of the run reaches: `ImplementsLru` is about tags that fit |
| `tracegen.c:37` | the result is compared with A as the function leaves it, and without `-F` all functions run on the same B | `Evaluated` also compares A with what it was |
| `trans.c` | `transpose_submit` of a square matrix whose size is no multiple of 8 writes outside the matrix | no such matrix is among `AllJobs` |
| `bits.c` | `float_f2i` and `float_i2f` differ from their references on some arguments `btest` does not try | `Deviates` |
| `echoservers.c:107` | lines that come together are lost with the copy of the `rio_t`; half a line blocks every client | `Echoes`, `Served` |
| `echo_cnt.c:32` | a client that has left raises SIGPIPE, or the read of its reset connection fails, which ends all the threads | `SigPipe`; `Served` claims nothing then |
| `tiny.c:113` | headers that end without a blank line are read for ever | `Served` claims nothing once a client leaves |
| `tiny.c:176` | an empty file cannot be mapped, and the server ends | `Fatal` |
| `tiny.c` | a POST is answered before its headers are read; a static uri with a question mark is not found | `Due` |
| `sharing.c:27` | `++cnt` of a static variable without a lock | `AsPromised` asks for different lines, which the thread's own argument gives |
| `sigsuspend.c:40`, `waitforsignal.c:40` | the dots are not flushed, so each child's `exit(0)` prints again the dots of its parent that no newline has followed | `Dots` says how many there may be |

## Fairness

- `Sbuf`: every thread that can move does so eventually (weak fairness per
  thread): the kernel schedules all threads. The semaphores are not fair, and
  `Drains` does not need them to be, since the insertions are bounded.
- `Proxy`: weak fairness per connection, for the same reason. Clients and
  servers answer or fail; one that is silent for ever would hold up its own
  thread only, and, as a reader, every writer.
- `Tsh`: the shell and its handlers run on, and a process being started reaches
  `exec` or its failure. Nothing is assumed of the user, of `kill` or of the
  running programs.
- `Rio`: the peer and the reader keep going; the interruptions are bounded.
- `Servers`: every process and thread is scheduled, a pending SIGCHLD is
  delivered, and a client that is not rude sends what it has and closes.
- `Btest`: time passes (weak fairness of the second), and the program is given
  the processor infinitely often or rests.
- `Machine`: weak fairness of every task, thread or process.

## What is proved

`CsappProofs` proves of the buffer, for every number of threads, slots, items and every width of
`int`:

- `Typed`: `Spec => []TypeOK`;
- `MutualExclusion`: `Spec => []Exclusion`;
- `SlotsAccounted`: `Spec => []Accounting`, if `MaxInserts <= IntMax`;
- `SbufIsFifo`: `Spec => ImplementsFifo`, under the same hypothesis.

The first two are not inductive alone. `Unlock` increments `mutex`, and the result is at
most 1 only because a thread inside means that `mutex` is 0, which is
`Exclusion`; and `Exclusion` is kept by `Lock` only because `mutex`, a number by
`TypeOK`, is 0 while somebody is inside. Their conjunction `Locked` is inductive:
`LockedInit` for the initial states, `LockedStep` with one step per action.

`Accounting` needs more. The index a thread has loaded must still be the next
one when it stores it, which `Exclusion` gives and `Indices` records; and no
increment may wrap. `rear` plus the number of threads that will still fill a
slot is at most the number of insertions started, so it stays within `IntMax`;
`front` stays below `rear` because a consumer that holds an item is counted by
`Accounting` itself. `Accounted`, the conjunction of `Locked`, `Indices` and
`Accounting`, is inductive: `AccountedInit`, `AccountedStep`. The cardinalities
change by one with a thread that joins or leaves one of the four sets (`Join`,
`Leave`). Without the hypothesis the theorem is false: see the wrap above.

`SbufIsFifo` maps each step of `Sbuf` to a step of `BoundedFifo` or to none: the
store of an insertion is its `Put` (`StoreIsPut`), the store of a removal its `Get`
(`StoreIsGet`), and everything else leaves the queue alone (`FifoStep`). That a
producer on its way holds an item is `Carrying`. That there is room, and an
item, is `Accounting`. That the store overwrites no item still queued is
`SlotsDiffer`: indices less than `N` apart differ modulo `N`.

The assumptions are those of `Sbuf`: producers and consumers are disjoint finite
sets, `N` and `IntMax` are positive numbers.

`ProxyProofs` proves for every number of connections and of cache lines, and
whatever clients ask for:

- `ReadersOrWriter`: `Spec => []ReadersWriters`;
- `LinesWhole`: `Spec => []NoTornLine`;
- `NoObjectTwice`: `Spec => []NoDuplicate`;
- `OldestEvicted`: `Spec => EvictsLRU`;
- `MissesServed`: `Spec => []Undisturbed`, if `Failing`, `Malformed` and
  `Leaving` are empty.

`ReadersWriters` compares cardinalities of the threads inside with `read_cnt`
and the semaphores, and is not inductive. That the reader whose increment gave 1
is the one to wait for `w` needs that one thread at most is between `P(&mutex)`
and `V(&mutex)`; that accepting a connection disturbs nobody needs that its
thread has not started (`Shape`). `Protocol` adds both. Each action either moves
one thread from one label to another (`MovedAll` says what becomes of the four
sets) or none; the actions are proved by the kind of their move.

A line is filled in four steps, so `NoTornLine` needs to say what a line is like
in between. `Filled` does: `Sound` for each thread (what it has relayed into its
buffer, what it has written so far of the line it fills) and `Settled` for each
line that nobody fills. `Protocol` gives that one thread fills at a time, and
every other one leaves the lines alone (`Elsewhere`, `Aside`).

`NoDuplicate` and `EvictsLRU` speak of one connection at a time. `Serial` is
`OneAtATime` under that condition: the one thread that lives has not found its
object in the lines it has passed (`Searching`), the line it has picked so far is
empty or has the smallest time of those it has passed (`Choosing`), and the time
of a line is that of the last request for its object (`Stamped`, `Requests`),
since `curr_time` grows with every connection. `EvictsLRU` is then read off at the step
that gives a line to another object.

`Undisturbed` speaks of what happens until the first hit. `Calm` is `Smooth`
under that condition: each descriptor a thread holds is its own and open
(`OwnClient`, `OwnServer`), every other one is free (`Owned`), and what the client
has got is a prefix of its response as long as what the thread has relayed
(`Answer`). That `accept` and `connect` find a descriptor is a pigeonhole
(`FreeLeft`): a connection has at most two, and `Few` bounds those that live. The
hypotheses are what the property is about: a server that fails, a request
without a method the proxy knows and a client that leaves each cut a response
short, and `proxy_faults` has all three.

The assumption is `ProxyAssumption`: numbers for the bounds, and an object that
is none.

`CsappProofs` proves of Rio, for every size of the buffers and every stream:

- `NothingLost`: `RioSpec => []Conserved`;
- `LinesRead`: `RioSpec => WholeLines`.

A byte is its position, so that what a buffer or the socket holds is a run of
consecutive numbers (`Run`) that begins where what was delivered before it ends.
`Stream` says so of the calls' results, of the window of the internal buffer and
of the socket (`InOrder`), and of a call that is not finished: `rio_readn` reads past the
buffer, so the buffer has to be empty then; `rio_readlineb` has passed no newline yet
(`Calling`). How `Copy` and the refill act on runs is stated once, as lemmas about
`Run`. `RioAssumption` has sizes of at least one, and buffers for lines of at least
two bytes.

`TshProofs` proves for every number of processes, job slots and job IDs:

- `ForegroundAlone`: `Spec => []OneForeground`;
- `JobsTracked`: `Spec => []Tracked`.

Neither is inductive. `waitfg` waits while the first slot in the foreground is
the job it was given, so a second one would keep it there for ever or let it
leave too early; that there is no second one needs that `eval` adds a process
which has no slot yet (`Command`), that no process has two slots (`List`), that a slot is given up
only after `waitpid` has reaped its process (`Reaping`), and soon: a slot whose
process is no more is the one the handler is about to delete (`Lives`). `Kept`
is the other direction: a process that is not reaped and has no slot is the one `eval` is about
to add, or one of `refused`, a variable kept for the property, which `addjob` found no slot for.
That it finds none only when every slot has a process of its own still to be reaped is the
pigeonhole `Full`. `Jobs` is the conjunction with `TypeOK`, and `JobsStep` has a lemma for each
action of main, of the handler and of the processes. The assumption is that of
`JobList`: process IDs are not 0, and the limits are numbers.

`ServersProofs` proves for each of the six servers, and for every number of
clients, workers, slots of the buffer and of the pool:

- `BytesCounted`: `Spec => []Counted`;
- `OwnAnswers`: `Spec => []Echoes`, for any number of pieces a client sends too;
- `ConnectionsOwned`: `Spec => []Owned`.

`Inv` says who holds what. `Stands` has the places a process or thread of each kind
of server can be at; no client has two descriptors in main, and one that waits has
none (`Table`); a slot of the pool that is taken has a descriptor that is open
and in no other slot (`Slots`); what main works on is open, a child has a copy of
its own client's descriptor, and the cell given to a thread holds the descriptor of
its client until the thread has read it (`Hands`). `accept` and `add_client`
find a descriptor and a slot because every one in use has a client of its own
(`Unused`, `SlotLeft`), which needs the assumption that the clients are not more than `FD_SETSIZE`.

`Counted` compares what has been read with `byte_cnt` and the lines of the threads
between reading and storing. `Counting` adds that a thread about to store holds the
mutex and has `byte_cnt` plus the length of its line in its register, that there is
one such thread, and that no thread is past `Pthread_once` before it is
done. The sum over the threads is the fold of the property (`FoldIsSum`), and
changes with one thread at a time.

For `OwnAnswers`, `EchoInv` is inductive together with `Inv`, and has four
parts:

- `Tokens`: in the prethreaded server a connection is in one place, with main,
  once in the buffer, or with one worker. Without it two workers could serve one
  client and mix its lines (`Alone`).
- `Streams`: the pieces a client has sent are, in order, those the server has
  echoed, the line it is about to echo, its buffer, and those in the socket
  (`Sends`, `Flows`). A step moves pieces from one to the next, and what serves the
  client is one process or thread. What a client has got is all that is echoed
  unless it has left, or for the server driven by `select` some of it in order if
  the client does not wait (`Behind`): `check_clients` begins each line with an empty
  buffer, and what it read beyond the line is gone.
- `Turns`: a client that waits never has more than one line on its way, so nothing of it is
  in the buffer that is thrown away.
- `Answers`: `tiny` has sent nothing before it has read a whole line, and what it has sent
  and is about to send make up the response. The CGI program adds the last part
  itself; until then its client has got exactly what precedes the output.

The lemmas have one part for each of the four and one step lemma for each
(`TokensStep`, `StreamsStep`, `TurnsStep`, `AnswersStep`). How runs of pieces are cut
and joined is stated once, as lemmas about `Pieced`.

For `ConnectionsOwned`, `Table`, `Slots` and `Tokens` say that no connection has two who will
close it. That none is without one is `Owns`: a descriptor that is open is kept by somebody, and
who rests keeps none. The first is kept only because of the second, since a parent that accepts
forgets the descriptor it had, and because a child has no connection but its own, for its parent
has one at a time (`OnlyOne`).

`Induction` has what these proofs need of numbers and of finite sets. A theorem of
the library that takes an operator as a parameter cannot be used with the provers at hand, so
induction is stated over a set of numbers (`Induct`, from the least number that
is not in it), and a sum is a function on the elements of a finite set (`SumOver`) with
the facts that adding or removing an element changes it by its summand
(`SumIs`, `SumRemove`, `SumSame`).

`BlockHeapProofs` proves for a heap of any limit, any chunk size, any sizes of
requests and whatever block the search picks:

- `HeapInvariant`: `Spec => []HeapInv(h)`;
- `Consistent`: there is never a gap, an overlap or two free neighbours;
- `Preserved`: no call moves, resizes or gives out again a block that is held;
- `Room`: `Spec => Roomy`, a block that `mm_malloc` returns has room for the request and
  its overhead.

`HeapInv` is inductive: the heap has its type, the blocks tile it from the
prologue to the epilogue with aligned sizes (`Layout`), and no two free blocks
are neighbours (`MergedBut(s, NULL)`). Tiling alone would not do: `coalesce`
merges a block with one neighbour on each side, and what results is merged only
because the neighbours' neighbours are allocated; and during a call there is a
moment when one block is not merged yet, which `MergedBut(s, b)` says of `b`.
`Coalesced`, `ExtendHeap`, `Placed` and `Freed` state what each routine does to
the invariant, and the theorems follow the call that uses them. The assumption is
`HeapParams`: alignment, a minimum block that has room for its overhead, a chunk
of at least that, and a `SizeMod` that the adjusted size of no request reaches; without the last one
`Room` is false. `mdriver`'s run assumes it of the four builds (`BlockAssumption`)
and shows that they implement these heaps, so that what is proved of blocks is
what the words do, on the heaps TLC reaches.

It also proves that the next-fit heap implements `BlockHeap` with the
search left open (`RoverImplements`) and so inherits its theorems, and that the rover
is always on a block (`RoverStays`), which needs the invariant of the blocks:
merging moves it to the start of the block that swallowed its own.

The same for the explicit list of `mm_copy.c`, with first fit and best fit, if there is
room for the first chunk (`ChunkFits`):

- `FreeListSound`: `ListSpec => []EachFreeOnce`, every free block is in the list, once,
  and nothing else is;
- `ListImplements`: `ListSpec => Spec`, with the search left open.

The two need each other. The list is right after a call only if the neighbours
`coalesce` unlinks were in it, each at one place, and are not free any more
(`ListsPushed`, `ListsReplaced`), which `HeapInv` says; and the block that the search
takes from the list is one that fits only because the list has the free blocks
(`ListFit`). `Lists(free, F)` says that a sequence has the elements of `F`, each once.

`LabProofs` proves of the cache simulator, for any number of sets, lines and bytes in a
block, any addresses and a trace of any length,

- `CsimIsLru`: `Spec => ImplementsLru`, if the tags of the addresses fit in the `int` that
  carries them (`TagsFit`; without it two blocks are taken for one).

`LruCache` has the blocks it holds and which was used before which; the mapping reads both
from the lines in use and their times. `CsimInv` has what makes it one: no two lines of a
set hold the same tag, so that a block is in one place and the lines in use are as many as the
blocks (`MatesCount`), and no two were accessed at the same time, so that the line with the
earliest access is the one of the block used before all others (`LeastRecentIs`). Every
reference writes one line (`Loads`), and what a write does is stated once
(`Written`, `WriteKeeps`, `WrittenBlocks`). The uninitialised times and tags are those of
lines that are not in use.

Of `btest` it proves, for any limit of more than twice the time a test takes that returns,

- `OnlyLoopsLate`: `TestSpec => []Blame`.

The alarm of a test is not cancelled when the test ends, but replaced when the next
one begins. `Alarms` says at each phase how much of it is left at least: all but the ticks
since it was set, and those are counted anew with each puzzle, so that the time between two alarms is
twice that of a test. With `-f` no other puzzle sets it; it names one of the last three
(`FloatPuzzles`, those that are given the values of `-1`), and the program ends before the
alarm goes off.

Of `qtest` it proves, for any commands, strings, addresses and limits, and a time limit that
strikes between any two writes of a routine,

- `ModesRestored`: `QtestSpec => []Restored`;
- `ErrorsTold`: `QtestSpec => []ErrorsCounted`, at every verbosity;
- `QuietErrorsTold`: `QtestSpec => []CommandErrorsTold`, if no verbosity reaches 3 (`Quiet`; at the
  default of 4 it is false, see `qtest.c:417` in the table; `driver.py` asks for 0 or 1);
- `AllGivenBack`: `QtestSpec => []GivenBack`, the second half of `Accounted`;
- `BlocksAccounted`: `QtestSpec => []Accounted`, if the content of a free block is none that a
  block can have (`FreeIsNoBlock`: `Free` is a model value);
- `QueueImplements`: `QtestSpec => ImplementsDeque`, if moreover the queue that is not there is no
  sequence (`NoQueueIsNone`: `NoQueue` is one too).

A routine is a program of writes, and what the time limit leaves of it is a prefix. `Run` is
a recursive function on the length of the program; that it has a value for every program
(`RunExists`) and that no write touches the two modes (`Keeps`, from `ExecuteKeeps` by
induction over the program) hold whether the list is sound, broken or a cycle. `q_free` collects its program
from the list, which has a length even when it is a cycle, since `Chain` stops at as many
elements as there are addresses. `Modes` then says that each command sets back what it has set,
along every way out. `Told` says that an error that was
there when a command asked has been counted, and that what harness.c has not yet told is about to be:
while the program runs, a flag that is set belongs to such a command or to one that makes it quit.
It holds at every verbosity. `Silent`, that the level stays below 3, adds that
`show_queue` takes none. `Balanced` gives the number of blocks and bytes of `report.c` at each point from three
numbers: the commands and options of the start, the sources that are open, and the words
of the line an insertion was read from; `quit` in the middle of nested sources gives them all back, and
the end of the last file too.

The last two theorems have the invariant `Fitting`: while `trusted`, the memory fits the queue
(`Fits`), and an insertion that goes on finds the free blocks its repetitions need. A
memory `Holds` the contents of its blocks if some sequence of the blocks is linked both ways
by their headers, as long as the count says (`Listed`); the contents are `Queued` if there
are sequences of elements, of their blocks for strings and of texts, such that each element leads to
the next, the queue to the first and the last, and every block is one of them. A routine is
taken through its program write by write (`RunTwo`, `RunFour`, `RunSix`): `Malloced` and
`FreedIs` say what the writes of `test_malloc` and `test_free` do to the list of blocks,
`MallocHolds`, `FreeHolds` and `WriteHolds` what they leave of the contents, and these are all
that the proofs of the routines use. The loops of `q_free` and `q_reverse` are inductions
along their programs (`ElementsFreed`, `LinksTurned`). The elements the code finds by following
`next` are those of the sequence since `Walk` along a sequence returns it (`WalkIs`). What a
command makes of the texts (`Becomes`) is a step of `Deque`. `trusted` is needed: after a removal
that empties the queue the tail points to a block that is free, and the next insertion at the
tail is not in the list.

`MdriverProofs` proves for any trace, any number of blocks and any package, whatever it returns:

- `RangesNest`: `Spec => []OverlapsOnlyAround`;
- `ErrorsAreTraces`: `Spec => []TracesCounted`, the second half of `NoFalseAlarm`.

`OverlapsOnlyAround` is not about the last call only: `RangesInv` says it of every pair in the
list, the newer first, since a range may stay long after the one it lies around is
removed (`RangesRemoved`, `RangesAdded`). `TracesInv` follows the count of errors
through the phases: it lags behind the traces evaluated by those that were correct, so that a
trace is counted when it is judged and at no other time.

Only model-checked: the words of the heaps, that they implement the heaps of blocks and
`Allocator`, and of `mdriver` the timing (`Measured`) and that it blames no right allocator
(`NoFalseAlarm`); the transpose functions, the
puzzles of the data lab and the verdict on them, and the book's examples. Out of the
prover's reach and left to TLC are liveness
under fairness (`Drains`, `Completes`, `PromptReturns`, `Terminates`, `Delivers`, `Served`,
`Reaped`, `Ends`) and what recursive functions compute on every input (the routines
of the heaps of words, the puzzles and their references, the transpose
functions).

## What is not modelled

- Text: the wording of requests, headers and error pages, usage messages, the
  log file, reports of `mdriver` and `report.c`; the parsing of trace files and
  options, but for those of `csim`.
- `url_parser.c`: string splitting, without state between calls.
- `select.c`, whose server also reads commands from the terminal.
- Of the proxy: hash collisions and the write one past `cache_buf`. That
  `parse_hdr` goes on for ever at the end of file, past the end of its buffer, is a
  behaviour that ends as `undefined`.
- `adder.c` without an ampersand in its arguments, where it writes through NULL.
- The reset a client may see when `tiny` closes with headers unread.
- The perl and python drivers that grade the labs, apart from the signals of
  `sdriver.pl`; the BDD checker of the data lab.
- The sequential examples (measurements, single functions), the binary labs and
  the exercises of the first book: no state or no source.

Hazards of the code that the list in `PROJECT.json` leaves to the modules:
`tsh.c:416` (above), `tsh.c:211` and `:504`, `norace.c:28` and `psum-mutex.c:66`
(the same kinds as in the servers), `restart.c:8`, `harness.c:132`,
`proxy.c:234` and `:300`.

## What is next

1. `Mdriver`: the first half of `NoFalseAlarm`, from the theorems about heaps of blocks.
