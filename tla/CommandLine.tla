---------------------------- MODULE CommandLine ----------------------------
(***************************************************************************)
(* Command lines of tsh.c and what the shell makes of them.  A character   *)
(* is a space, a quote, an ampersand, a percent sign, a digit, or a word   *)
(* that stands for its letters.                                            *)
(***************************************************************************)
EXTENDS Integers, Sequences, FiniteSets, FiniteSetsExt

Space == " "
Quote == "'"
NoWord == <<>>          \* argv[i] == NULL, and the empty argument

\* argv, and whether the job is to run in the background.  The newline at the end
\* has become a space, and a quote that is not closed ends the arguments.
parseline(cmdline) ==
  LET buf == Append(cmdline, Space)
      n == Len(buf)
      next(i, found) == Min({j \in i..n : found[j]} \cup {n + 1})
      Is(char) == [j \in 1..n |-> buf[j] = char]
      IsNot(char) == [j \in 1..n |-> buf[j] # char]
      args[i \in 1..n + 1] ==
        LET start == next(i, IsNot(Space))
            quoted == start <= n /\ buf[start] = Quote
            open == IF quoted THEN start + 1 ELSE start
            delim == next(open, Is(IF quoted THEN Quote ELSE Space))
        IN IF delim > n THEN <<>> ELSE <<SubSeq(buf, open, delim - 1)>> \o args[delim + 1]
      argv == args[1]
      last == IF argv = <<>> THEN NoWord ELSE argv[Len(argv)]
  IN IF argv = <<>> THEN [argv |-> <<>>, bg |-> TRUE]
     ELSE IF last # NoWord /\ Head(last) = "&" THEN [argv |-> SubSeq(argv, 1, Len(argv) - 1), bg |-> TRUE]
     ELSE [argv |-> argv, bg |-> FALSE]

\* strtol: the number a word starts with, else 0; numbers are of one digit.
Digits == <<"1", "2", "3", "4">>
strtol(word) ==
  LET value == {d \in DOMAIN Digits : word # NoWord /\ Head(word) = Digits[d]}
  IN IF value = {} THEN 0 ELSE Min(value)

\* The job that bg and fg are given, 0 if their arguments are no use.
ByJid(argv) == Head(argv[2]) = "%"
Number(argv) ==
  IF Len(argv) # 2 \/ argv[2] = NoWord THEN 0
  ELSE IF ByJid(argv) THEN strtol(Tail(argv[2])) ELSE strtol(argv[2])
=============================================================================
