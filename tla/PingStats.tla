------------------------------ MODULE PingStats ------------------------------
(***************************************************************************)
(* The running totals of a session (t_ping_stats, include/ping_types.h)    *)
(* and how one reply is folded into them (record_rtt,                      *)
(* src/net/ping_receive.c).  Times are in clock units (see PingTime).      *)
(***************************************************************************)
EXTENDS Integers

\* t_ping_stats.
Stats == [n_sent: Nat, n_recv: Nat, sum: Nat, sum_sq: Nat,
          rtt_min: Nat, rtt_max: Nat]

\* memset(stats, 0, sizeof *stats) at the top of ping_run().
ZeroStats == [n_sent |-> 0, n_recv |-> 0, sum |-> 0, sum_sq |-> 0,
              rtt_min |-> 0, rtt_max |-> 0]

\* Mutant: min is never seeded from the first reply, so it stays at the 0 the
\* memset left there.
record_rtt_unseeded(s, rtt) ==
  [n_sent  |-> s.n_sent,
   n_recv  |-> s.n_recv + 1,
   sum     |-> s.sum + rtt,
   sum_sq  |-> s.sum_sq + rtt * rtt,
   rtt_min |-> IF rtt < s.rtt_min THEN rtt ELSE s.rtt_min,
   rtt_max |-> IF s.n_recv = 0 \/ rtt > s.rtt_max THEN rtt ELSE s.rtt_max]

\* One matched reply: counters and accumulators, min and max seeded by the
\* first reply (the n_recv == 1 test comes after the increment in the code).
record_rtt(s, rtt) ==
  [n_sent  |-> s.n_sent,
   n_recv  |-> s.n_recv + 1,
   sum     |-> s.sum + rtt,
   sum_sq  |-> s.sum_sq + rtt * rtt,
   rtt_min |-> IF s.n_recv = 0 \/ rtt < s.rtt_min THEN rtt ELSE s.rtt_min,
   rtt_max |-> IF s.n_recv = 0 \/ rtt > s.rtt_max THEN rtt ELSE s.rtt_max]

\* What print_stats() prints is a possible summary of n_recv samples: both
\* extremes were really seen, so the sum lies between n - 1 samples at one
\* extreme plus one at the other, and the variance it takes the square root
\* of, sum_sq/n - (sum/n)^2, is not negative (written without division).
\* That is so in exact arithmetic: in the code's doubles rounding can leave it
\* just below 0, which print_stats() clamps; rounding is not modelled.
Coherent(s) ==
  s.n_recv > 0 =>
    /\ s.rtt_min <= s.rtt_max
    /\ (s.n_recv - 1) * s.rtt_min + s.rtt_max <= s.sum
    /\ s.sum <= s.rtt_min + (s.n_recv - 1) * s.rtt_max
    /\ s.sum * s.sum <= s.n_recv * s.sum_sq
=============================================================================
