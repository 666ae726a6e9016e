----------------------------- MODULE MCPingLoop -----------------------------
(***************************************************************************)
(* Small instances of PingLoop for TLC.  A clock unit is half a            *)
(* millisecond, so intervals need not be whole milliseconds and ms_until() *)
(* has something to round; the ring has two or three slots, so it wraps.   *)
(***************************************************************************)
EXTENDS PingRefinement

CONSTANTS inf, me, other

\* Datagrams that answer no probe of ours: an echo reply to a process that
\* has our id, and one to a process that has another.
Twin ==
  [len |-> 84, ip_hl |-> 5, type |-> 0, code |-> 0, intact |-> TRUE,
   zerotail |-> FALSE, id |-> me, sequence |-> 0, inner_hl |-> 0,
   inner_id |-> me]
Foreign == [Twin EXCEPT !.id = other]

\* A port-unreachable error, whose id field is not an id but happens to be ours.
Unreachable == [Twin EXCEPT !.type = 3, !.code = 3]

NoWires     == {}
Strangers   == {Twin, Foreign, Unreachable}
ForeignOnly == {Foreign}

\* No option at all.
Plain == [preload |-> 0, has_interval |-> FALSE, interval |-> 1,
          flood |-> FALSE, bsd_flood |-> FALSE, has_timeout |-> FALSE,
          timeout |-> 0, exit_on_reply |-> FALSE, quiet |-> FALSE,
          quiet_errors |-> FALSE, verbose |-> FALSE,
          has_packet_size |-> FALSE, packet_size |-> 0]

Fast     == [Plain EXCEPT !.has_interval = TRUE, !.interval = 1]
Slow     == [Plain EXCEPT !.has_interval = TRUE, !.interval = 7]
Preload  == [Plain EXCEPT !.preload = 2]
Timeout  == [Plain EXCEPT !.has_timeout = TRUE, !.timeout = 1]
OneReply == [Plain EXCEPT !.exit_on_reply = TRUE]
Flood    == [Plain EXCEPT !.flood = TRUE]
BsdFlood == [Flood EXCEPT !.bsd_flood = TRUE]
BsdTimed == [BsdFlood EXCEPT !.has_timeout = TRUE, !.timeout = 1,
                             !.preload = 1]

\* "-t 4294967295" and "-l 4294967295", after the cast to int.
Wrapped  == [Plain EXCEPT !.has_timeout = TRUE, !.timeout = -1, !.preload = -1]

PacedFlags   == {Plain, Slow, Preload, Timeout, OneReply, Wrapped}
FloodFlags   == {BsdFlood}
LiveFlags    == {Fast, BsdTimed}
PlainOnly    == {Plain}
TimeoutOnly  == {Timeout}

PacedBudget   == [reply |-> 1, dup |-> 0, twin |-> 0, stray |-> 0, eintr |-> 1]
FloodBudget   == [reply |-> 1, dup |-> 1, twin |-> 1, stray |-> 1, eintr |-> 0]
LiveBudget    == [reply |-> 1, dup |-> 0, twin |-> 0, stray |-> 1, eintr |-> 1]
TwinBudget    == [reply |-> 1, dup |-> 0, twin |-> 1, stray |-> 0, eintr |-> 0]
NoBudget      == [reply |-> 0, dup |-> 0, twin |-> 0, stray |-> 0, eintr |-> 0]
=============================================================================
