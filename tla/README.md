# ft_ping in TLA+

A verification project for `ft_ping`, a reimplementation of `ping` in C. The
program is about 1,000 lines of code, one thread, one raw ICMP socket, no
library beyond libc and libm. What makes it hard is not its size. A send never
waits for its reply, so sends run on a clock, replies arrive as events, Ctrl+C
arrives at any instruction, and one `poll()` has to serve all of them. The
modules here model the program from `argv` to the exit status, TLC checks them
on small instances, and TLAPS proves every safety property the runs check for
every value of the parameters.

Paths below are relative to the repository root (`src/` in `PROJECT.json`
stands for that root, so the event loop is `src/src/core/ping_loop.c` there).

## 1. Inventory

| Component | State | Operations | Interacts with |
|---|---|---|---|
| Event loop, `src/core/ping_loop.c` | `t_sched`: interval, deadline, last_send, seq | `sched_init`, `send_preload`, `loop_once`, `send_per_reply`, `send_if_due`, `ping_run` | calls send and receive paths, reads the clock and the stop flag, blocks in `poll()` |
| Stop flag, `src/core/ping_signal.c` | `g_stop` | `on_sigint`, `signal_install`, `ping_should_stop`, `ping_request_stop` | written from signal context, read by the loop |
| Send path, `src/net/ping_send.c` | packet buffer, timestamp ring, `n_sent` | `send_one`, `fill_payload` | called from four places of the loop |
| Receive path, `src/net/ping_receive.c` | `t_ping_stats` | `ping_receive`, `locate_icmp`, `checksum_ok`, `record_rtt` | drains the socket, reads the ring |
| ICMP errors, `src/net/ping_icmp_error.c` | none | `handle_icmp_error`, `quoted_probe` | called by the receive path |
| Clock helpers, `src/utils/ping_time.c` | none | `now_ms`, `elapsed_ms`, `ms_until` | used everywhere |
| Context, `src/core/ping_context.c` | flags, id, buffers | `ctx_init`, `ctx_destroy` | parser, resolver |
| Entry, `src/main.c` | | set-up, run, summary, tear-down, exit status | all of the above |
| Socket set-up, `src/net/ping_socket.c`, `ping_resolve.c` | descriptor | `socket_open`, `configure_socket`, `resolve_host` | `main` |
| Command line, `src/cli/*` | `t_flags` | `parse_info`, `extract_long_opts`, `decode_pattern`, `test_strton` | `ctx_init` |
| Checksum, `src/net/ping_checksum.c` | none | `ft_checksum` | send and receive |
| Report, `src/output/*` | none | `print_stats`, `print_counts`, `loss_percent`, packet lines | `main`, send, receive |

Left aside: `inetutils-2.0/` (the reference implementation, vendored),
`legacy/`, `learn/`, `learn_es/`, `docker/`, tests and build output.

What is hard, and what has to hold:

* **Clock and events.** `poll()` returns because something arrived, because a
  send or the `-t` deadline is near, because a signal came, or because the wait
  was clamped. Only the clock may decide a send (rate, spacing, no spinning on
  a fraction of a millisecond).
* **Signal.** The flag may be set between any two instructions. The run must end,
  few probes may leave afterwards, and the loop should not sleep on a pending
  request.
* **Feedback.** With `--bsd-flood` every reply triggers a send. The rate must stay
  bounded by the replies.
* **Ring.** Timestamps live in a ring indexed by a 16-bit sequence number.
  A reply must be timed against its own probe.
* **Failure.** A `sendto()` that fails in the burst, at the first send or in the
  loop must end the run and leave the counters consistent.
* **Set-up.** Six steps obtain buffers, a privileged socket, its options and
  the handler. Any of them may fail and Ctrl+C may come at any of them: nothing
  may leak, and exactly one diagnostic or one summary is printed.
* **Bytes.** The receive buffer is reused without being cleared and may be
  shorter than a datagram. No step may read beyond what was received, a reply to
  our own probe must always fit, and the checksum must be RFC 1071's on hosts of
  either byte order and for odd lengths.
* **Command line.** Two passes over one vector, each with its own idea of where
  the options end; ranges checked as `long` and kept as `int`.
* **Network.** Replies are lost, late, duplicated, or belong to somebody else,
  and the raw socket shows all ICMP traffic of the host.

`PROJECT.json` lists these as hazards, each at its line, with the properties
that would catch it.

## 2. Modules

| Module | Models | Kind |
|---|---|---|
| `PingTime` | `ping_time.c` | operators over a clock counted in units, `UnitsPerMs` to the millisecond |
| `PingStats` | `t_ping_stats`, `record_rtt()` | operators |
| `IcmpReceive` | the verdict of the receive path on one datagram, buffer sizes | operators |
| `PingLoop` | one session: `ping_run()` and all it calls, the signal, the clock, the network | state machine |
| `PingSession` | what a session promises its caller | abstract specification |
| `PingRefinement` | `PingLoop` implements `PingSession` | refinement mapping |
| `PingMain` | `main.c`, `ping_context.c`, `ping_socket.c`, `ping_resolve.c`, `signal_install()`, around a `PingSession` | state machine, composition |
| `PingReport` | `ping_print_report.c` | operators in `int` arithmetic |
| `IcmpDrain` | the receive path step by step through the shared buffer | state machine |
| `PingChecksum` | `ft_checksum()` in its two callers | state machine |
| `PingCli` | `src/cli/*.c` | state machine |
| `CInt` | the C `int` of the build | operators |
| `PingLoopProofs`, `PingDataProofs`, `PingRefinementProofs` | schedule and stop; statistics, counters and ring; refinement | theorems about `PingLoop` |
| `PingMainProofs`, `IcmpDrainProofs`, `PingChecksumProofs`, `PingCliProofs` | | theorems about the module of that name |
| `ArithmeticLemmas` | division and remainder, wrap-around, induction over a set of numbers | lemmas |
| `MCPingLoop`, `MCPingMain`, `MCIcmpDrain`, `MCPingCli` | command lines, datagrams and budgets for TLC | instances |

`PingLoop` extends `PingTime`, `PingStats` and `IcmpReceive`; `IcmpDrain` extends
`IcmpReceive` too, and one of its properties says that its steps reach the
outcome `PingLoop` uses. `PingLoop` implements `PingSession`, and `PingMain`
instantiates it: what `main()` relies on is exactly what the loop is checked to
give. `PingMain` and `PingCli` share `CInt`. Definitions whose comment begins
with "Mutant" are plausible wrong versions of the definition that follows; no
specification uses them, they show that each property can fail.

### PingLoop

`pc` is the place in the single thread. A step ends where something outside can
make a difference: at each reading of the clock or of the flag, and at each
system call. Code between two such points is one step.

| `pc` | code | action |
|---|---|---|
| `start` | `memset`, `sched_init()` | `sched_init` |
| `preload` | while test of `send_preload()` | `send_preload` |
| `first` | `ping_run()` line 210 | `first_send` |
| `build` | `send_one()` steps 1 to 3 with `sched->seq++` | `send_one` |
| `sendto` | `sendto()` and the reaction of the caller `ret` | `sendto_ok`, `sendto_fail` |
| `stamp` | `last_send = now_ms()` | `stamp_last_send` |
| `while` | while test, deadline test, `ms_until()` | `loop_once` |
| `poll` | between computing the timeout and blocking | `poll` |
| `blocked` | inside `poll()` | `poll_readable`, `poll_timeout`, `poll_error` |
| `recv` | drain loop of `ping_receive()` | `ping_receive`, `drain_ends`, `recv_fail` |
| `replies` | while and deadline tests of `send_per_reply()` | `send_per_reply` |
| `due` | `send_if_due()` | `send_if_due` |
| `done` | `ping_run()` has returned | |

The environment: `on_sigint` may run at any `pc`, and wakes a blocked `poll()`.
`Tick` advances the clock. `NetReply`, `NetDuplicate` and `StrayArrives` put
datagrams in the socket's queue. A lost probe or reply is one that stays in
`net`. Replies may arrive in any order. A stray that is an echo reply with our id
(`Imitates`), which no filter can tell from an answer, has a budget of its own.
A negative timeout blocks `poll()` for ever, as in the system call; that
`ms_until()` never computes one is part of `TypeOK`, and `KeepsSending` fails if
it does.

Abstractions: payload bytes, printing and addresses are left out. A datagram is
the fields the code reads plus whether its checksum verifies. Time is an
integer (the code's doubles are exact for the readings they hold up to 2^53
units). `PING_TS_RING` serves both as ring size and as the number of sequence
numbers, which are equal in the code (65536). `n_sent` and `n_recv` do not wrap.
`-i` values are finite. `recvfrom()` with an `EINTR` is possible although the
call does not block, because the code handles it. Time does not pass before
`sched_init`, which loses nothing since the first reading is arbitrary.

`by` and `hist` are history: probes per caller, the start of the run, the last
transmission, probes built, and probes sent since the stop request. No guard of
the program reads them.

### PingSession and PingRefinement

`PingSession` has no `poll()`, no schedule and no sequence numbers. A probe may be
sent (`Transmit`) when the preload burst, the first packet, a reply (with
`--bsd-flood`) or the clock pays for it, and after a stop request only one or two
more times. A reply is counted (`Collect`) only after something was sent. The
session may return at any time, since any system call may fail, and does return
once it was told to stop or has a deadline (`FairSpec`). The mapping takes
`n_sent`, `n_recv`, `g_stop` and the clock as they are, `pc` to the three phases
and the flags to the four the contract speaks of; a negative `-l` is no burst.

### PingMain

One action per step of `main()`: `parse_info`, `resolve_host`,
`ctx_alloc_buffers` (any subset of the three allocations may succeed; if one
fails, `ctx_destroy` has to free those that did not),
`print_ping_banner`, `socket`, `configure_socket` (one socket option per step, in
the code's order), `signal_install`, `ping_run` (the steps of the session),
`summary`, `close`, `ctx_destroy`. `SIGINT` kills the process until the handler is
installed and sets the flag afterwards. State: the live buffers, the descriptor,
the options in force, what was printed, the exit status.

### IcmpDrain

One action per block of the body of `ping_receive()`: `receive`, `locate`,
`checksum`, `classify`, `icmp_error`, `filter`, `again`. Since the buffer is never
cleared, the state of interest is `reach`, the end of the furthest byte read of
the current datagram, against `n`, what `recvfrom()` returned. `checksum_ok` takes
the range that is summed: it agrees with the sender's sum over an intact
message if it starts right behind the IP header, `ihl` bytes in, and reaches the
end of the datagram or misses zeros only.

### PingChecksum

`call` clears the field, `add_word`, `add_last` and `fold` are the three loops,
`verify` and `store` what the two callers do with the result. `endian` is the
host's byte order. A message to be sent has arbitrary bytes in its checksum
field (the previous probe's); a message received was checksummed by its sender
and may have had one byte altered. The reference, `Checksummed`, is written from
RFC 1071, modulo 2^16 - 1, without a fold.

### PingCli

`extract_long_opts` (one token per step), `getopt` (one option per step, with
the `switch` of `parse_info()`), `finalise_flags`. `args` is the compacted vector
of pointers, so `drop_arg()` and `getopt()`'s permutation act on it while `argv`
keeps what the user typed. A token is its text as an option and what `strtol()`,
`strtod()` and the hex test make of it as an argument. Letters in a cluster
(`-fq`) are read as if written apart, which is what `getopt()` makes of them. So
is an attached argument (`-s56`), as a token with the text "word": the pre-pass
sees it as part of a token that does not begin with `--`, so `-S--bsd-flood` is
not the line `-S --bsd-flood`. An infinite `-i` is a "normal" wait here, which is
how the `switch` treats it.

## 3. Properties and runs

| Run | Checks | Instance |
|---|---|---|
| `loop_paced` | `TypeOK`, `RateBounded`, `PacedApart`, `LoopHasSent`, `FailureIsFinal`, `StopBoundsSends`, `NoSpin`, `ExitOnReplyEnds`, `ImplementsSession` | no option; `-i` beyond the clamp; `-l 2`; `-t 1`; `-o`; `-l`/`-t` that wrapped to -1; one reply, one EINTR |
| `loop_flood` | `OnePerReply`, `RttExact`, `StatsCoherent`, `CountsExplained`, `StopBoundsSends`, `ImplementsSession` | `-f --bsd-flood`, two ring slots; a reply, a duplicate, a reply to a process with our id, and a reply to another id or an ICMP error |
| `loop_live` | `StopHonoured`, `DeadlineHonoured`, `KeepsSending`, `ImplementsFairSession` | `-i` of one clock unit; `-f --bsd-flood -l 1 -t 1`; finite noise |
| `main_run` | `TypeOK`, `ReleasedAtExit`, `SessionIsEquipped`, `SummaryOrDiagnostic`, `StatusTellsReachability`, `ReportIsTrue`, `InterruptEndsCleanly` | every outcome of the parser, all 16 sets of socket options, three kinds of session |
| `drain_walk` | `ReadsReceivedBytes`, `StepsGiveVerdict`, `OwnReplyCounted`, `OwnErrorShown` | some 19,000 datagrams around every limit, six command lines |
| `checksum` | `SumFits`, `SentAsRFC1071`, `AcceptsExactlyIntact`, `BufferRestored`, `ChecksumEnds` | all messages of 4 to 7 four-valued bytes, every damage to one byte, both byte orders |
| `cli_parse` | `FlagsUsable`, `ReadAsWritten`, `ParseEnds` | some 100,000 command lines, as root and not |

The session:

* `RateBounded`: probes that neither the preload, the first send nor a reply
  accounts for number at most one per interval since the start.
* `PacedApart`: a timer-driven probe leaves at least one interval after the
  previous transmission, even if `sendto()` was slow.
* `OnePerReply`: `--bsd-flood` never sends more than the replies it counted.
* `RttExact`: every reply on its way is going to be timed against its own probe,
  unless a full ring of later probes was built. The bound is exact.
* `StatsCoherent`: min, sum and max fit `n_recv` samples and the variance is not
  negative. That is exact arithmetic: in doubles it can come out just below 0,
  which `print_stats()` clamps.
* `CountsExplained`: every answer that was read is counted once, and so is
  nothing else but an echo reply with our id. `n_recv` lies between the answers
  read (those that arrived less those still queued) and that number plus the
  replies to a process that shares our id, and exceeds `n_sent` by no more than
  those and the duplicates. Other processes' replies and errors arrive in the
  instance; without the id filter they are counted and the property fails.
* `LoopHasSent`, `FailureIsFinal`: the loop is only entered after a
  transmission; a failed send is the last one.
* `StopBoundsSends`: after the stop request at most one more probe leaves, two
  with `--bsd-flood`. Both numbers are reached.
* `NoSpin`: a `poll()` timeout means the target has come or the wait was clamped.
* `ExitOnReplyEnds`: with `-o`, once a reply is counted nothing follows but the
  rest of the drain that counted it: no probe, no further `poll()`.
* `StopHonoured`, `DeadlineHonoured`, `KeepsSending`: the session ends when told
  to, and goes on otherwise.
* `ImplementsSession`, `ImplementsFairSession`: every step of the loop is a step
  of the contract or leaves it alone, and the loop returns when it must.

The program around it:

* `ReleasedAtExit`: whichever step failed, no buffer and no descriptor is left.
* `SessionIsEquipped`: no probe leaves before buffers, socket, handler and all
  requested options are in place.
* `SummaryOrDiagnostic`: an exit comes with banner and exactly one summary, or
  with help, or with exactly one diagnostic.
* `StatusTellsReachability`: status 0 exactly when a reply was counted or help
  was asked for.
* `ReportIsTrue`: the loss shown is the truncated percentage, forged-packet
  remark and round-trip line appear exactly when they should. It rests on the
  contract: the remark's condition `n_sent > 0` is never the deciding one only
  because a session that sent nothing counts nothing.
* `InterruptEndsCleanly`: with the handler installed, Ctrl+C leads to a summary
  and a normal exit.

Datagrams, checksum, command line:

* `ReadsReceivedBytes`: no step reads beyond the bytes received, in the outer
  headers, the checksummed range or the quoted headers.
* `StepsGiveVerdict`: the steps agree with `Verdict`, which `PingLoop` uses.
* `OwnReplyCounted`, `OwnErrorShown`: a reply to our probe is counted and an error
  about it shown, for every `-s`, every IP option length and every amount quoted.
* `SentAsRFC1071`, `AcceptsExactlyIntact`: what is sent and what is accepted
  agree with the RFC on both byte orders. This is what `intact` stands for in
  `IcmpReceive`.
* `SumFits`, `BufferRestored`, `ChecksumEnds`: no overflow and no read outside the
  message, the field is put back, the fold ends.
* `FlagsUsable`: what later code takes for granted of accepted flags (a pattern
  length that is not 0, sizes in range, `-q` over `-v` and `-Q`, root's options).
* `ReadAsWritten`: the two passes read a line as one left-to-right reading
  (`Role`) does: host, options in force, last value of an option, nothing after
  `--`. A `--` that is an option's argument does not end the options in that
  reading. Lines in which a long option stands as another option's argument are
  exempt (`Ambiguous`), since nothing in the repository says how to read them.
  Numbers beyond an `int` are exempt as well; they are the run `cli_values`.
* `ParseEnds`: the pre-pass, which does not advance over what it removes, ends.

**Bounds.** *Loop:* a clock unit is half a millisecond, the poll clamp 3 ms, the
interval 1.5 ms, the flood interval 1 ms and a "second" 2 ms, so that rounding,
clamping, deadline and interval all interact within a few units; the ring has 2
or 3 slots, so it wraps. `MaxClock` leaves room for two intervals and the clamp.
In `loop_live` a "second" is 1.5 ms and the interval of the first command line
half a millisecond, so that within `MaxClock` (4 units, from 1) the `-t` deadline
passes in the burst, in the first send or in a drain, and a probe may be overdue
by more than an interval when the timeout is computed.
The horizon is passed only by a `poll()` that must still time out (`Tick`), so
liveness does not depend on the horizon; `LastClock` keeps broken variants
finite and is never reached by the model itself. `Budget` bounds replies,
duplicates, strays and spurious EINTRs, and `MaxQueue` the socket buffer. Two
queued datagrams are enough for one drain to count two replies. *Main:*
`MaxSent`, `MaxRecv` and `MaxNow` leave room for loss, for more replies than
probes and for two intervals; `INT_MAX` is 1023, enough for the products.
*Drain:* `Lengths` holds every gate and the byte before it, for IP headers of 20,
24 and 60 bytes and `-s` 0, 56 and 2000. *Checksum:* a byte has 4 values and the
word sizes scale with it; 7 bytes let a fold carry twice, and even and odd
lengths behave differently. *Command line:* all lines of up to three tokens over
all options and ten kinds of value, all lines of up to five over the nine tokens
that interact, and `-x value option token host` for every option; `INT_MAX` and
`LONG_MAX` are scaled to 131071 and 524287, above the largest range checked
(65507). `CHECK_DEADLOCK` is off where the program ends.

**Fairness.** `PingLoop`: `WF(Succeeding)`, the operating system keeps running the
process and a system call that can succeed or time out returns, and `WF(Tick)`,
time passes. A call may fail but is never obliged to, so no liveness property
holds merely because a failure would end the run. Nothing is assumed of the
network or of the signal. `StopHonoured` and `DeadlineHonoured` are checked for
traffic that comes to an end; `endless_drain` shows the other case.
`PingMain`: its own steps are taken, and the session keeps the promise
`loop_live` checks. `PingChecksum` and `PingCli`: one thread that never waits.

### Disagreements between comments or tests and the code

Each of these has a run whose violation TLC must find.

| Run | What the repository says | What the code does |
|---|---|---|
| `lost_wakeup` | Ctrl+C is noticed "at once" (`ping_signal.c`), the loop "never sleeps through an event" | a signal between the flag test and `poll()` interrupts nothing, and the wait runs its course |
| `endless_drain` | `-t`: "Exit after this many seconds regardless" | the drain ends only when the socket is dry; steady traffic keeps it going |
| `loss_overflow` | "Percentage of probes that never came back" | `(n_sent - n_recv) * 100` overflows an `int` (scaled in the run; 21,474,837 losses in the program) |
| `twin_reply` | "The id alone identifies our process's traffic" (`ping_receive.c:17-18`), "More replies than probes is impossible on an honest network" (`ping_print_report.c:61`) | the id is 16 bits of the pid; the reply to a process that shares them is counted (`NoMoreRepliesThanProbes`, with neither duplicates nor forgery) |
| `cli_values` | `-t`: "Exit after this many seconds", `-l`: "Send that many packets", `-i`: "Wait `wait` seconds" | a `long` is cast to `int`, so another number is kept; `nan` is accepted as an interval |

Others follow from the same definitions and have no run of their own:

* "-o stops after exactly one reply" (`test.sh:847`): `-o` is looked at after the
  drain (`ping_loop.c:181`), so replies queued together are all counted and
  printed before the run ends (`drain_ends`). What does hold is
  `ExitOnReplyEnds`.
* "Corrupted in flight" (`ping_receive.c:183`): an intact datagram longer than the
  buffer is cut by `recvfrom()` and fails the checksum as well (`checksum_ok`).
* "the pre-pass has to honour the end-of-options marker the same way getopt does"
  (`test.sh:995-996`): a `--` that is the argument of an option ends the pre-pass
  and not `getopt()`, which refuses the long option behind it as letters.
* The preload and the first send do not test the `-t` deadline
  (`ping_loop.c:51`).
* "A bogus -S is caught before we print anything" (`ping_socket.c:41-43`): the
  banner is printed before the socket is opened (`main.c:33`, and the order of
  `print_ping_banner` and `configure_socket` in `PingMain`).
* `-v` lists "ICMP packets other than ECHO_RESPONSE" (`ping_parse_args.c:53-54`):
  only the five error types (`ping_icmp_error.c:120`).
* `-Q` hides errors "in response to our own query messages"
  (`ping_parse_args.c:34-35`): it hides all of them (`ping_icmp_error.c:127`).
* `extract_long_opts()` keeps from `getopt()` what it lifts
  (`ping_parse_long.c:6-9`): it also lifts a long option that stands as another
  option's argument, and that option then takes the token after it. Nothing in
  the repository says how such a line is to be read.

## 4. Proofs

Every invariant and action property of the passing runs is also a theorem, for
every value of the constants that meets the named assumptions of its module
(`TimeAssumption`, `IdAssumption`, `LoopAssumption`, `IntAssumption`,
`MainAssumption`, `ByteAssumption`, `LengthAssumption`, `CliAssumption`): any
interval, ring size, clock resolution, horizon, buffer, datagram, message,
command line.

| Theorem | Property | Rests on |
|---|---|---|
| `PingLoopProofs`: `TypeCorrect` | `TypeOK` | `TypeInv`: no ring slot is ahead of the clock, so no RTT is negative |
| `RateIsBounded` | `RateBounded` | `CountInv`, `TimerInv`, `FloodInv` |
| `FloodBounded` | `OnePerReply` | `FloodInv` |
| `TimerSendsAreApart` | `PacedApart` | `PacedInv` |
| `LoopNeverEmpty` | `LoopHasSent` | `SentInv`, `PacedInv` |
| `FailureEndsRun` | `FailureIsFinal` | `FailInv` |
| `FewSendsAfterStop` | `StopBoundsSends` | `StopInv`, `FloodInv` |
| `PollNeverSpins` | `NoSpin` | `SpinInv` with the lemma `MsUntilReaches` on rounding up |
| `OneReplyEndsRun` | `ExitOnReplyEnds` | itself and `TypeInv` |
| `PingDataProofs`: `TotalsCoherent` | `StatsCoherent` | `StatsInv` |
| `RepliesAccountedFor` | `CountsExplained` | `SupplyInv` |
| `RoundTripExact` | `RttExact` | `RingInv` |
| `PingRefinementProofs`: `LoopImplementsSession` | `ImplementsSession` | `RefInv`: `FloodInv`, `CountInv`, `TimerInv`, `SentInv`, `StopInv`, `MapInv` |
| `PingMainProofs`: `MainTypes`, `NothingLeaks`, `SessionEquipped`, `ExplainsItself`, `StatusIsReachability`, `SummaryIsTrue` | `TypeOK`, `ReleasedAtExit`, `SessionIsEquipped`, `SummaryOrDiagnostic`, `StatusTellsReachability`, `ReportIsTrue` | `MainInv`: `ResourceInv`, `PhaseInv`, `OutputInv` |
| `IcmpDrainProofs`: `ReadsOnlyReceived`, `VerdictIsReached`, `OwnRepliesCount`, `OwnErrorsShow` | `ReadsReceivedBytes`, `StepsGiveVerdict`, `OwnReplyCounted`, `OwnErrorShown` | `DrainInv` |
| `PingChecksumProofs`: `BufferIsRestored` | `BufferRestored` | `FieldInv` |
| `SumNeverOverflows`, `SentChecksumIsRFC1071`, `OneByteIsNoticed` | `SumFits`, `SentAsRFC1071`, `AcceptsExactlyIntact` | `SumInv` |
| `PingCliProofs`: `AcceptedFlagsUsable` | `FlagsUsable` | `UsableInv` |
| `LineReadAsWritten` | `ReadAsWritten` | `UsableInv`, `ReadInv` |

Some theorems have a hypothesis of their own:

* `SummaryIsTrue`: `100 * MaxSent <= INT_MAX`. Without it the statement is false,
  which is what the run `loss_overflow` shows; in the program the bound is
  21,474,836 probes.
* `SumNeverOverflows`, `SentChecksumIsRFC1071`, `OneByteIsNoticed`: messages of at
  most `2 * U16` bytes, which is 131,072 in the program, twice what an IP datagram
  can hold.
* `AcceptedFlagsUsable`, `LineReadAsWritten`: `INT_MAX >= 65507`, true of every
  32-bit `int`; with a narrower one the cast of a valid `-s` would wrap.

The arguments, by component:

**Schedule.** But for `ExitOnReplyEnds`, none of the invariants is inductive as it stands. The rate argument
shows why: `RateBounded` says nothing of where the last probe came from, so the
step that sends could break it. `CountInv` assigns every transmission to one of
the four callers of `send_one()` and bounds three of them. `TimerInv` says that
the fourth, the timer, has used up one interval per probe, measured to
`last_send` when that is stamped, and to the clock while a send is under way.
`FloodInv` carries the replies `send_per_reply()` still owes.

**Refinement.** One step per action, all of them immediate but two. `sendto_ok`
must meet the guard of `Transmit` (`ProbePaidFor`): a preload or first probe is
covered by the burst and the one packet the contract allows at once, a
`--bsd-flood` probe by a reply that `FloodInv` knows is unanswered, a timer probe
by the interval `TimerInv` has just seen pass. `ping_receive` must meet the guard
of `Collect`, which is `SentInv`. `MapInv` adds that `sched.interval` is the one the
command line asked for.

**Counters and ring.** `CountsExplained` compares a total with what the queue
holds, so its strengthening `SupplyInv` follows every datagram from arrival to
verdict. It counts two kinds of queued datagrams: `Genuine`, those that answer a
probe, and `Lookalike`, those that carry what the filter asks for. Answers that
arrived are counted or still queued; what is counted or queued and looks like an
answer is one, or spent the budget for twins; and every queued answer will pass
the filters (`Verdict` is "reply" for the `EchoReply` of a probe, for every `-s`).
When the head of the queue is taken, a `Genuine` one is counted (`AnswerCounts`)
and only a `Lookalike` one can be (`CountedImitates`), so both balances are kept.
The set of strays is arbitrary, so the id filter is needed for the second.

`RingInv` says of every probe on the wire and every packet in the queue that,
unless a ring of later probes was built, the slot its sequence number names still
holds its own reading; `ModDistinct` is the fact that
two probes less than a ring apart never share a slot, so the slot `send_one()`
overwrites is never one that is still needed. For `StatsCoherent` the step is the
inequality behind a non-negative variance when one sample is added.

**Entry.** `MainInv` ties each place of `main()` to what is held there
(`ResourceInv`), to the phase of the session (`PhaseInv`) and to what was printed
(`OutputInv`); with it each property is read off at `exit`.

**Datagrams.** `DrainInv` records the gates that a place has behind it. The
properties then follow from the sizes `ctx_size_buffers()` chose.

**Checksum.** The reference works modulo `U16 - 1`. `SumInv` says that the sum so
far agrees, modulo `U16 - 1`, with the words read so far, on a big-endian host
directly and on a little-endian one after multiplication by `Byte` (swapping the
bytes of a word is that multiplication, modulo `U16 - 1`). Folding keeps the
remainder, so the result is the reference's; that no single altered byte keeps
it follows since the difference it makes is not a multiple of `U16 - 1`.

**Command line.** `UsableInv` is a range for every field. `LineReadAsWritten`
relates the passes to `Role` as follows. `Lifted` describes the vector during the
first pass: what is not yet scanned has moved down by as many places as options
were lifted, and nothing but those options is missing. At its end the vector is
`Compact`: increasing, complete from the first `--` on, with gaps only where a
`--bsd-flood` stood. `Reading` describes the second pass at its entry `n`: the
flags (`Known`) and the first operand (`FirstIs`) are those of the tokens of
`argv` before the place entry `n` points to, and that place is `Fresh`, not the
argument of the option before it. The first `--` of the line may be an
argument, so getopt() may read past the place where the first pass stopped: all
tokens read so far still leave the options going on (`Before`), and none from
that place on is a `--bsd-flood` in force (`NoneLeft`), since getopt() would have
refused it. The lemma `Gap` carries this over the lifted tokens, and
`ArgumentRead` is where "not ambiguous" is needed: it is why the entry after an
option is the token after it.

**Induction over data.** The library's induction theorems take an operator as a
parameter, which the provers cannot instantiate. `SetInduction` in
`ArithmeticLemmas` states induction for a *set* of numbers instead, derived from
the well-foundedness of `<`. It gives the existence of the values of the recursive
functions the models use (`Role`, the sums of the checksum) and what they compute
for arguments of every length.

**What the proofs changed in the model.** Attempts to prove `VerdictIsReached` and
`RoleIs` failed on `CASE` expressions whose guards overlapped: TLA+ leaves open
which arm is taken, although TLC takes the first, as the C code does. They are
now `IF ... ELSE IF`. `ToApply` in `PingMain` became a set of positions and `drop_arg`
in `PingCli` the shift the code performs, because the provers reason about
those. The runs and mutants cover the models as they are now.

TLC finds the strengthenings of the session, `MainInv`, `DrainInv` and `FieldInv` to
hold on the instances of the runs as well. `SumInv` and `ReadInv` quantify over
all partial sums and all assignments of roles, which TLC cannot enumerate, and
rest on their proofs alone.

Only model-checked: `StopHonoured`, `DeadlineHonoured`, `KeepsSending`,
`ImplementsFairSession`, `InterruptEndsCleanly`, `ChecksumEnds` and `ParseEnds`.
All are liveness properties, which need fairness and `ENABLED`, out of the
prover's reach.

## 5. Plan

Every component with state is modelled and every safety property checked is
proved. What could still be added are safety properties that bound what the
liveness properties promise without fairness (for instance a measure that every
step of the parser or of the checksum decreases), and theorems about `PingTime`
and `PingReport` beyond the ones their users need.

## 6. Not modelled

* Formatting and wording of output: packet lines, the usage text, the table of
  error descriptions (`icmp_error_desc`), the addresses and names in them.
* The bytes of a payload (`fill_default`, `fill_pattern`): nothing reads them
  back, apart from the checksum, which `PingChecksum` treats for all bytes.
* Mean and deviation of the report, which are doubles. That their arguments
  belong together is `StatsCoherent`.
* What the resolver answers, and the kernel beyond what the code observes.
* Everything listed as left aside in section 1. The vendored `inetutils-2.0/` is
  about 190,000 of the repository's 200,000 lines of C; it is the program whose
  output `ft_ping` imitates, and none of it is compiled into `ft_ping`.
