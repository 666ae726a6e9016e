------------------------------ MODULE PingTime ------------------------------
(***************************************************************************)
(* The clock helpers of src/utils/ping_time.c.                             *)
(*                                                                         *)
(* Time is a natural number of clock UNITS, UnitsPerMs of them to the      *)
(* millisecond: now_ms() and the timestamps keep their fraction of a       *)
(* millisecond (a double there, a unit count here) while poll() only takes *)
(* whole milliseconds, and that difference is what ms_until() is about.    *)
(***************************************************************************)
EXTENDS Integers

CONSTANTS
  UnitsPerMs,         \* clock units in one millisecond
  PING_POLL_MAX_MS,   \* longest single poll() block, in ms
  INFINITY            \* the deadline of a run without -t

ASSUME TimeAssumption ==
  /\ UnitsPerMs \in Nat \ {0}
  /\ PING_POLL_MAX_MS \in Nat \ {0}
  /\ INFINITY \notin Int

\* Difference of two readings of CLOCK_MONOTONIC.
elapsed_ms(start, end) == end - start

\* fmin() of the next send instant, which is finite, and the -t deadline.
fmin(a, deadline) ==
  IF deadline # INFINITY /\ deadline < a THEN deadline ELSE a

\* The least number of whole milliseconds that is at least d units.
Ceil(d) == (d + UnitsPerMs - 1) \div UnitsPerMs

\* Mutant: the fraction of a millisecond is cut off instead of rounded up.
ms_until_truncated(target, now) ==
  LET d == target - now IN
  CASE d < 0                             -> 0
    [] d > PING_POLL_MAX_MS * UnitsPerMs -> PING_POLL_MAX_MS
    [] OTHER                             -> d \div UnitsPerMs

\* Mutant: a target in the past gives a negative timeout, which poll() takes
\* for "block for ever".
ms_until_unclamped(target, now) ==
  LET d == target - now IN
  IF d > PING_POLL_MAX_MS * UnitsPerMs THEN PING_POLL_MAX_MS ELSE Ceil(d)

\* How long to block in poll(), in the whole milliseconds it wants: never
\* negative, never more than the clamp, and rounded up.
ms_until(target, now) ==
  LET d == target - now IN
  CASE d < 0                             -> 0
    [] d > PING_POLL_MAX_MS * UnitsPerMs -> PING_POLL_MAX_MS
    [] OTHER                             -> Ceil(d)
=============================================================================
