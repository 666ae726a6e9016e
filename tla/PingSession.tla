---------------------------- MODULE PingSession ----------------------------
(***************************************************************************)
(* What a ping session promises, whoever calls ping_run(): how many probes *)
(* it may have handed to the kernel, when it may count a reply, what a     *)
(* stop request does, and that it returns.  Nothing here says how: no      *)
(* poll(), no schedule, no sequence numbers.  PingLoop implements this     *)
(* (PingRefinement); PingMain runs it between set-up and tear-down.        *)
(***************************************************************************)
EXTENDS Integers

VARIABLES
  opts,     \* what the session was asked for, see Opts
  phase,    \* "before", "running" or "over"
  stop,     \* a stop was requested
  now,      \* the clock
  start,    \* when the session began
  sent,     \* probes handed to the kernel
  recv,     \* replies counted
  late      \* probes sent since the stop request

vars == <<opts, phase, stop, now, start, sent, recv, late>>

\* burst: probes of the preload; interval: clock units between two probes;
\* per_reply: every reply may be answered; limited: the session has a deadline.
Opts == [burst: Nat, interval: Nat \ {0}, per_reply: BOOLEAN, limited: BOOLEAN]

\* Probes that may be sent because replies came in.
Answers == IF opts.per_reply THEN recv ELSE 0

\* Probes that may leave after a stop request.
LateAllowance == IF opts.per_reply THEN 2 ELSE 1

Init ==
  /\ opts \in Opts
  /\ phase = "before"
  /\ stop \in BOOLEAN
  /\ now \in Nat
  /\ start = now
  /\ sent = 0 /\ recv = 0 /\ late = 0

Begin ==
  /\ phase = "before"
  /\ phase' = "running" /\ start' = now
  /\ UNCHANGED <<opts, stop, now, sent, recv, late>>

\* One probe, if the burst, the first packet, a reply or the clock pays for it.
Transmit ==
  /\ phase = "running"
  /\ (sent - opts.burst - Answers) * opts.interval <= now - start
  /\ stop => late < LateAllowance
  /\ sent' = sent + 1
  /\ late' = IF stop THEN late + 1 ELSE late
  /\ UNCHANGED <<opts, phase, stop, now, start, recv>>

\* A reply is counted only by a session that has sent something; nothing is
\* said of how many replies a probe may have.
Collect ==
  /\ phase = "running" /\ sent > 0
  /\ recv' = recv + 1
  /\ UNCHANGED <<opts, phase, stop, now, start, sent, late>>

RequestStop ==
  /\ phase # "over"
  /\ stop' = TRUE
  /\ UNCHANGED <<opts, phase, now, start, sent, recv, late>>

Pass ==
  /\ phase = "running"
  /\ now' = now + 1
  /\ UNCHANGED <<opts, phase, stop, start, sent, recv, late>>

\* The session may end at any time: a system call may fail.
Return ==
  /\ phase = "running"
  /\ phase' = "over"
  /\ UNCHANGED <<opts, stop, now, start, sent, recv, late>>

Next == Begin \/ Transmit \/ Collect \/ RequestStop \/ Pass \/ Return

Spec == Init /\ [][Next]_vars

\* A session that was told to stop, or that has a deadline, does end.
FairSpec ==
  Spec /\ WF_vars(Begin) /\ WF_vars((stop \/ opts.limited) /\ Return)
=============================================================================
