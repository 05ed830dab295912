------------------------------ MODULE Report ------------------------------
(***************************************************************************)
(* The allocation of report.c, which counts the blocks and the bytes it    *)
(* has given out, and what console.c keeps in its blocks: the commands,    *)
(* the options, a buffer for every source and the words of a line, which   *)
(* are all of one length.                                                  *)
(*                                                                         *)
(* An account is the blocks and bytes not yet given back: the differences  *)
(* of allocate_cnt and free_cnt, and of allocate_bytes and free_bytes.     *)
(***************************************************************************)
EXTENDS Integers, Sequences

Account(cnt, bytes) == [cnt |-> cnt, current_bytes |-> bytes]

\* n calls in a row, for blocks or strings of one size.
malloc_or_fail(a, n, bytes) == Account(a.cnt + n, a.current_bytes + n * bytes)
calloc_or_fail(a, cnt, bytes) == malloc_or_fail(a, 1, cnt * bytes)
strsave_or_fail(a, n, len) == malloc_or_fail(a, n, len + 1)

free_block(a, n, bytes) == Account(a.cnt - n, a.current_bytes - n * bytes)
free_array(a, cnt, bytes) == free_block(a, 1, cnt * bytes)
free_string(a, n, len) == free_block(a, n, len + 1)

-----------------------------------------------------------------------------
(* console.c *)

Size == [cmd_ele |-> 32, param_ele |-> 40, rio_t |-> 8216, pointer |-> 8, word |-> 4]

cmd_list   == <<"help", "option", "quit", "source", "log", "time", "#",
                "new", "free", "ih", "it", "rh", "rhq", "reverse", "size", "show">>
param_list == <<"verbose", "error", "echo", "length", "malloc", "fail">>

\* A command and an option are a block each; their names are constants.
add_cmd(a, n)   == malloc_or_fail(a, n, Size.cmd_ele)
add_param(a, n) == malloc_or_fail(a, n, Size.param_ele)
init_cmd == add_param(add_cmd(Account(0, 0), Len(cmd_list)), Len(param_list))

push_file(a) == malloc_or_fail(a, 1, Size.rio_t)
pop_fileKept(a) == a                 \* mutant: the buffer of a file is not freed
pop_file(a)  == free_block(a, 1, Size.rio_t)

\* A line of argc words: parse_args copies it to a buffer that it frees, and makes
\* the words argv, which interpret_cmd frees after the command.
LineLength(argc) == argc * (Size.word + 1)
parse_args(a, argc) ==
  LET copy == malloc_or_fail(a, 1, LineLength(argc) + 1)
      argv == strsave_or_fail(calloc_or_fail(copy, argc, Size.pointer), argc, Size.word)
  IN free_block(argv, 1, LineLength(argc) + 1)
free_args(a, argc) == free_array(free_string(a, argc, Size.word), argc, Size.pointer)

\* do_quit_cmd with n files open.
FreeLists(a, n) ==
  LET cmds   == free_block(a, Len(cmd_list), Size.cmd_ele)
      params == free_block(cmds, Len(param_list), Size.param_ele)
  IN free_block(params, n, Size.rio_t)
=============================================================================
