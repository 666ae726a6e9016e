----------------------------- MODULE PingReport -----------------------------
(***************************************************************************)
(* The closing summary of src/output/ping_print_report.c, computed in int  *)
(* arithmetic as wide as INT_MAX says.  Formatting is left out.            *)
(***************************************************************************)
EXTENDS CInt

\* Mutant: the percentage is rounded to the nearest.
loss_percent_rounded(n_sent, n_recv) ==
  IF n_sent <= 0 THEN 0
  ELSE CDiv(Wrap((n_sent - n_recv) * 100) + n_sent \div 2, n_sent)

loss_percent(n_sent, n_recv) ==
  IF n_sent <= 0 THEN 0
  ELSE CDiv(Wrap((n_sent - n_recv) * 100), n_sent)

\* What print_stats() shows: the loss, or the remark on forged packets, and
\* whether there is a round-trip line.
print_stats(n_sent, n_recv) ==
  LET forged == n_sent > 0 /\ n_recv > n_sent
  IN  [forged |-> forged,
       loss   |-> IF forged THEN 0 ELSE loss_percent(n_sent, n_recv),
       rtt    |-> n_recv # 0]

\* A summary r of s probes and n replies is true: the percentage shown is the
\* share of probes without a reply, cut to a whole number, and a round-trip
\* line goes with replies.
TruthfulReport(r, s, n) ==
  /\ r.forged <=> n > s
  /\ r.rtt <=> n > 0
  /\ ~r.forged =>
       /\ r.loss \in 0 .. 100
       /\ r.loss * s <= 100 * (s - n)
       /\ s > 0 => 100 * (s - n) < (r.loss + 1) * s
=============================================================================
