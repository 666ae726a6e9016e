----------------------------- MODULE MCPingMain -----------------------------
(***************************************************************************)
(* Small instances of PingMain for TLC.                                    *)
(***************************************************************************)
EXTENDS PingMain

\* Every verdict of the parser and every combination of socket options.
AllCommands ==
  [verdict: {"accepted"}, options: SUBSET Range(SocketOptions)] \cup
  [verdict: {"rejected", "help"}, options: {{}}]

NoOptions  == {[verdict |-> "accepted", options |-> {}]}

Paced  == [burst |-> 0, interval |-> 1, per_reply |-> FALSE, limited |-> FALSE]
Timed  == [Paced EXCEPT !.limited = TRUE]
PerReply == [Paced EXCEPT !.burst = 1, !.interval = 2, !.per_reply = TRUE]

AllSessions == {Paced, Timed, PerReply}
PacedOnly   == {Paced}
=============================================================================
