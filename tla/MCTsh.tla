------------------------------- MODULE MCTsh -------------------------------
(***************************************************************************)
(* Command lines for Tsh: programs in the foreground and the background,   *)
(* with arguments in quotes; bg and fg of every job by PID and by JID, and *)
(* with arguments that are no use; lines that are no command.              *)
(***************************************************************************)
EXTENDS Tsh

Typed ==
  {<<"program">>, <<Space, "program", Space, Quote, "a", Space, "b", Quote, Space, "&">>,
   <<Quote, "quit", Quote>>, <<"jobs">>, <<Space>>, <<"&">>, <<Quote, "program">>,
   <<"fg">>, <<"bg", Space, "program">>, <<"fg", Space, "1", Space, "2">>}
  \cup {<<"fg", Space, digit>> : digit \in {"1", "2", "3"}}
  \cup {<<"bg", Space, "%", digit, Space, "&">> : digit \in {"1", "2", "3"}}
  \cup {<<"fg", Space, Quote, "%", digit, Quote>> : digit \in {"1", "2", "3"}}
  \cup {<<"bg", Space, digit>> : digit \in {"1", "2", "3"}}
=============================================================================
