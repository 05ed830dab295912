------------------------------ MODULE MCQtest ------------------------------
(***************************************************************************)
(* Commands for Qtest: every command of qtest.c and the console that       *)
(* changes its state, with the arguments that make a difference.           *)
(***************************************************************************)
EXTENDS Qtest

CONSTANTS s1, s2

Session ==
  {Line(name, NoWord, 0, FALSE) :
     name \in {"new", "free", "rhq", "reverse", "size", "show", "quit", "source", "help"}}
  \cup {Line("ih", s1, 2, FALSE), Line("it", s2, 1, FALSE), Line("rh", s1, 0, TRUE),
        Line("unknown", NoWord, 0, FALSE), Line("option", "malloc", 50, FALSE),
        Line("option", "error", 2, FALSE), Line("option", "verbose", 1, FALSE)}
=============================================================================
