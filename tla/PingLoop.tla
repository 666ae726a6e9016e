------------------------------ MODULE PingLoop ------------------------------
(***************************************************************************)
(* One ping session: ping_run() and everything it calls.                   *)
(*                                                                         *)
(*   src/core/ping_loop.c     the schedule and the event loop              *)
(*   src/net/ping_send.c      the send path                                *)
(*   src/net/ping_receive.c   the receive path (decisions in IcmpReceive)  *)
(*   src/core/ping_signal.c   the stop flag and its SIGINT handler         *)
(*                                                                         *)
(* The program is one thread, so its steps are sequential (pc); the clock, *)
(* the SIGINT handler and the network take steps in between.  A program    *)
(* step ends where one of those can make a difference: at every reading of *)
(* the clock or of the stop flag and at every system call.                 *)
(***************************************************************************)
EXTENDS Integers, Sequences, FiniteSets, PingTime, PingStats, IcmpReceive

CONSTANTS
  FlagChoices,            \* the command lines under study, after parsing
  PING_INTERVAL,          \* 1000.0 * PING_INTERVAL_SEC, in clock units
  PING_FLOOD_INTERVAL,    \* PING_FLOOD_INTERVAL_MS, in clock units
  Second,                 \* clock units in a second (-t counts seconds)
  PING_TS_RING,           \* slots of send_ts = number of uint16_t values
  StrayWires,             \* datagrams that are no answer to a probe of ours
  EndlessStrays,          \* TRUE: traffic of others keeps coming for ever
  Budget,                 \* bounds on what the environment does, see Budgets
  MaxQueue,               \* datagrams the socket buffer holds
  StartClock,             \* first reading of the clock
  MaxClock, LastClock,    \* its horizon and its end, see Tick
  MinProbes               \* the horizon is passed until this many are built

\* The options ping_run() and its callees read (t_flags).  interval is in
\* clock units, timeout in seconds; preload and timeout are what is left of a
\* long that was cast to int, so they can be negative.
Flags == [preload: Int, has_interval: BOOLEAN, interval: Nat \ {0},
          flood: BOOLEAN, bsd_flood: BOOLEAN, has_timeout: BOOLEAN,
          timeout: Int, exit_on_reply: BOOLEAN, quiet: BOOLEAN,
          quiet_errors: BOOLEAN, verbose: BOOLEAN,
          has_packet_size: BOOLEAN, packet_size: Nat]

\* Replies the network delivers, duplicates it makes, strays that look like an
\* answer to us (see Imitates), other strays, and calls that return EINTR
\* without a stop request (SIGSTOP and SIGCONT).
Budgets == [reply: Nat, dup: Nat, twin: Nat, stray: Nat, eintr: Nat]

ASSUME LoopAssumption ==
  /\ FlagChoices \subseteq Flags
  /\ PING_INTERVAL \in Nat \ {0}
  /\ PING_FLOOD_INTERVAL \in Nat \ {0}
  /\ Second \in Nat \ {0}
  /\ PING_TS_RING \in Nat \ {0}
  /\ StrayWires \subseteq Wire
  /\ EndlessStrays \in BOOLEAN
  /\ Budget \in Budgets
  /\ MaxQueue \in Nat \ {0}
  /\ StartClock \in Nat
  /\ MaxClock \in Nat /\ LastClock \in Nat
  /\ MinProbes \in Nat

VARIABLES
  flags,      \* ctx->flags, fixed before ping_run()
  pc,         \* where the program is
  g_stop,     \* the stop flag
  clock,      \* CLOCK_MONOTONIC
  sched,      \* t_sched
  send_ts,    \* ctx->send_ts, the timestamp ring
  pkt,        \* ctx->pkt, the probe being sent
  stats,      \* t_ping_stats
  ret,        \* which call of send_one() is in progress
  i,          \* send_preload()'s counter
  before,     \* n_recv when the drain began
  replies,    \* send_per_reply()'s counter
  wait,       \* the poll() timeout, ms
  wake,       \* the instant the blocked poll() times out
  net,        \* probes on the wire or at the far host
  queue,      \* the socket's receive queue
  budget,     \* what the environment may still do
  by,         \* history: probes sent by each caller of send_one()
  hist        \* history: start of the run, instant of the last transmission,
              \*   probes built, probes sent since the stop request

program == <<sched, send_ts, pkt, stats>>
locals  == <<ret, i, before, replies, wait, wake>>
network == <<net, queue, budget>>
history == <<by, hist>>
vars == <<flags, pc, g_stop, clock, program, locals, network, history>>

\* The four calls of send_one().
Callers == {"preload", "first", "due", "reply"}

Labels == {"start", "preload", "first", "build", "sendto", "stamp", "while",
           "poll", "blocked", "recv", "replies", "due", "done"}

\* A probe: sequence is on the wire; n numbers the probes of the run and sent
\* is the reading stored for it (both history).
Probe == [sequence: 0 .. PING_TS_RING - 1, n: Nat, sent: Nat]

\* A queued datagram; n = -1 when it answers no probe of ours.
Packet == [wire: Wire, n: Nat \cup {-1}, sent: Nat]
-----------------------------------------------------------------------------
ping_should_stop == g_stop

ping_request_stop == g_stop' = TRUE

DeadlineReached(now) ==
  sched.deadline # INFINITY /\ now >= sched.deadline

\* Mutant: the schedule is ignored: whenever poll() returns, send.
NotDueYetNever(now) == FALSE

\* The not-due-yet test of send_if_due().
NotDueYet(now) == now < sched.last_send + sched.interval

\* The instant poll() should wake at: the next send or the deadline.
Target == fmin(sched.last_send + sched.interval, sched.deadline)

Goto(l) == pc' = l

\* Which call of send_one() comes next.
CallSendOne(caller) == Goto("build") /\ ret' = caller
-----------------------------------------------------------------------------
(* The program.                                                            *)

interval_of(f) ==
  IF f.flood THEN PING_FLOOD_INTERVAL
  ELSE IF f.has_interval THEN f.interval ELSE PING_INTERVAL

\* ping_run(): memset(stats) and sched_init().
sched_init ==
  /\ pc = "start" /\ Goto("preload")
  /\ stats' = ZeroStats
  /\ sched' = [interval  |-> interval_of(flags),
               deadline  |-> IF flags.has_timeout
                             THEN clock + Second * flags.timeout
                             ELSE INFINITY,
               last_send |-> 0,
               seq       |-> 0]
  /\ hist' = [hist EXCEPT !.t0 = clock]
  /\ UNCHANGED <<flags, g_stop, clock, send_ts, pkt, locals, network, by>>

\* Mutant: the preload burst does not look at the stop flag.
send_preload_unstoppable ==
  /\ pc = "preload"
  /\ IF i < flags.preload
     THEN CallSendOne("preload")
     ELSE Goto("first") /\ UNCHANGED ret
  /\ UNCHANGED <<flags, g_stop, clock, program, i, before, replies, wait, wake,
                 network, history>>

\* The while test of send_preload().
send_preload ==
  /\ pc = "preload"
  /\ IF i < flags.preload /\ ~ping_should_stop
     THEN CallSendOne("preload")
     ELSE Goto("first") /\ UNCHANGED ret
  /\ UNCHANGED <<flags, g_stop, clock, program, i, before, replies, wait, wake,
                 network, history>>

\* ping_run(): the first paced packet, unless a stop came during the preload.
first_send ==
  /\ pc = "first"
  /\ IF ping_should_stop
     THEN Goto("stamp") /\ ret' = "first"
     ELSE CallSendOne("first")
  /\ UNCHANGED <<flags, g_stop, clock, program, i, before, replies, wait, wake,
                 network, history>>

\* Mutant: the timestamp goes into the slot of the NEXT sequence number, as it
\* would if fill_payload() were handed sched->seq after the increment.
send_one_late_slot ==
  /\ pc = "build" /\ Goto("sendto")
  /\ pkt' = [sequence |-> sched.seq, n |-> hist.built, sent |-> clock]
  /\ send_ts' = [send_ts EXCEPT ![(sched.seq + 1) % PING_TS_RING] = clock]
  /\ sched' = [sched EXCEPT !.seq = (@ + 1) % PING_TS_RING]
  /\ hist' = [hist EXCEPT !.built = @ + 1]
  /\ UNCHANGED <<flags, g_stop, clock, stats, locals, network, by>>

\* send_one(..., sched->seq++, ...), steps 1 to 3: header, timestamp, payload
\* and checksum.  The argument's increment precedes the call.
send_one ==
  /\ pc = "build" /\ Goto("sendto")
  /\ pkt' = [sequence |-> sched.seq, n |-> hist.built, sent |-> clock]
  /\ send_ts' = [send_ts EXCEPT ![sched.seq % PING_TS_RING] = clock]
  /\ sched' = [sched EXCEPT !.seq = (@ + 1) % PING_TS_RING]
  /\ hist' = [hist EXCEPT !.built = @ + 1]
  /\ UNCHANGED <<flags, g_stop, clock, stats, locals, network, by>>

\* send_one(), step 4: the kernel takes the probe.  A preload goes back to its
\* loop, the other callers re-read the clock next.
sendto_ok ==
  /\ pc = "sendto"
  /\ net' = net \cup {pkt}
  /\ stats' = [stats EXCEPT !.n_sent = @ + 1]
  /\ IF ret = "preload"
     THEN Goto("preload") /\ i' = i + 1
     ELSE Goto("stamp") /\ UNCHANGED i
  /\ by' = [by EXCEPT ![ret] = @ + 1]
  /\ hist' = [hist EXCEPT !.tx = clock,
                          !.late = IF g_stop THEN @ + 1 ELSE @]
  /\ UNCHANGED <<flags, g_stop, clock, sched, send_ts, pkt, ret, before,
                 replies, wait, wake, queue, budget>>

\* Mutant: a failed preload send is ignored and the burst carries on.
sendto_fail_ignored ==
  /\ pc = "sendto"
  /\ IF ret = "preload"
     THEN Goto("preload") /\ i' = i + 1
     ELSE IF ret = "first" THEN Goto("stamp") /\ UNCHANGED i
     ELSE Goto("done") /\ UNCHANGED i
  /\ UNCHANGED <<flags, g_stop, clock, program, ret, before, replies, wait,
                 wake, network, history>>

\* send_one() returns -1: the preload and the first send request a stop, the
\* other two end the run.
sendto_fail ==
  /\ pc = "sendto"
  /\ \/ /\ ret = "preload"
        /\ Goto("preload") /\ ping_request_stop /\ i' = i + 1
     \/ /\ ret = "first"
        /\ Goto("stamp") /\ ping_request_stop /\ UNCHANGED i
     \/ /\ ret \in {"due", "reply"}
        /\ Goto("done") /\ UNCHANGED <<g_stop, i>>
  /\ UNCHANGED <<flags, clock, program, ret, before, replies, wait, wake,
                 network, history>>

\* Mutant: the next send is paced from the reading taken before sendto().
stamp_before_send ==
  /\ pc = "stamp"
  /\ sched' = [sched EXCEPT !.last_send = pkt.sent]
  /\ IF ret = "reply"
     THEN Goto("replies") /\ replies' = replies - 1
     ELSE Goto("while") /\ UNCHANGED replies
  /\ UNCHANGED <<flags, g_stop, clock, send_ts, pkt, stats, ret, i, before,
                 wait, wake, network, history>>

\* sched->last_send = now_ms(), after the system call.
stamp_last_send ==
  /\ pc = "stamp"
  /\ sched' = [sched EXCEPT !.last_send = clock]
  /\ IF ret = "reply"
     THEN Goto("replies") /\ replies' = replies - 1
     ELSE Goto("while") /\ UNCHANGED replies
  /\ UNCHANGED <<flags, g_stop, clock, send_ts, pkt, stats, ret, i, before,
                 wait, wake, network, history>>

\* Mutant: ping_run() does not look at the stop flag.
loop_once_unstoppable ==
  /\ pc = "while"
  /\ IF DeadlineReached(clock)
     THEN Goto("done") /\ UNCHANGED wait
     ELSE Goto("poll") /\ wait' = ms_until(Target, clock)
  /\ UNCHANGED <<flags, g_stop, clock, program, ret, i, before, replies, wake,
                 network, history>>

\* Mutant: loop_once() returns 0, not -1, when the deadline has come.
loop_once_goes_on ==
  /\ pc = "while"
  /\ IF ping_should_stop
     THEN Goto("done") /\ UNCHANGED wait
     ELSE IF DeadlineReached(clock)
     THEN Goto("while") /\ UNCHANGED wait
     ELSE Goto("poll") /\ wait' = ms_until(Target, clock)
  /\ UNCHANGED <<flags, g_stop, clock, program, ret, i, before, replies, wake,
                 network, history>>

\* The while test of ping_run() and the top of loop_once(), up to the call of
\* poll() with the timeout computed from this reading of the clock.
loop_once ==
  /\ pc = "while"
  /\ IF ping_should_stop \/ DeadlineReached(clock)
     THEN Goto("done") /\ UNCHANGED wait
     ELSE Goto("poll") /\ wait' = ms_until(Target, clock)
  /\ UNCHANGED <<flags, g_stop, clock, program, ret, i, before, replies, wake,
                 network, history>>

\* The process enters poll().  Nothing tests the stop flag from here on.  A
\* negative timeout would mean no timeout at all.
poll ==
  /\ pc = "poll" /\ Goto("blocked")
  /\ wake' = IF wait < 0 THEN INFINITY ELSE clock + wait * UnitsPerMs
  /\ UNCHANGED <<flags, g_stop, clock, program, ret, i, before, replies, wait,
                 network, history>>

\* The timeout of the blocked poll() has run out.
TimedOut == wake # INFINITY /\ clock >= wake

\* poll() has something to report, whatever the stop flag says.
PollReady == queue # <<>> \/ TimedOut

\* rc > 0: readable.
poll_readable ==
  /\ pc = "blocked" /\ queue # <<>>
  /\ Goto("recv")
  /\ before' = stats.n_recv
  /\ UNCHANGED <<flags, g_stop, clock, program, ret, i, replies, wait, wake,
                 network, history>>

\* rc = 0: timed out with nothing to read.
poll_timeout ==
  /\ pc = "blocked" /\ queue = <<>> /\ TimedOut
  /\ Goto("due")
  /\ UNCHANGED <<flags, g_stop, clock, program, locals, network, history>>

\* rc < 0: EINTR goes round the loop, anything else ends the run.
poll_error ==
  /\ pc = "blocked"
  /\ \/ /\ budget.eintr > 0
        /\ Goto("while")
        /\ budget' = [budget EXCEPT !.eintr = @ - 1]
     \/ /\ Goto("done")
        /\ UNCHANGED budget
  /\ UNCHANGED <<flags, g_stop, clock, program, locals, net, queue, history>>

\* ping_receive(): one datagram off the queue.  Only a reply changes the
\* totals; its RTT is read against the ring slot of its sequence number.
ping_receive ==
  /\ pc = "recv" /\ queue # <<>>
  /\ queue' = Tail(queue)
  /\ LET w == Head(queue).wire IN
     stats' = IF Verdict(w, flags) = "reply"
              THEN record_rtt(stats,
                     elapsed_ms(send_ts[w.sequence % PING_TS_RING], clock))
              ELSE stats
  /\ UNCHANGED <<flags, pc, g_stop, clock, sched, send_ts, pkt, locals, net,
                 budget, history>>

\* Mutant: -o waits for a second reply.
drain_ends_wants_two ==
  /\ pc = "recv"
  /\ \/ queue = <<>> /\ UNCHANGED budget
     \/ /\ queue # <<>> /\ budget.eintr > 0
        /\ budget' = [budget EXCEPT !.eintr = @ - 1]
  /\ \/ /\ flags.exit_on_reply /\ stats.n_recv > 1
        /\ Goto("done") /\ UNCHANGED replies
     \/ /\ ~(flags.exit_on_reply /\ stats.n_recv > 1)
        /\ flags.bsd_flood
        /\ Goto("replies") /\ replies' = stats.n_recv - before
     \/ /\ ~(flags.exit_on_reply /\ stats.n_recv > 1)
        /\ ~flags.bsd_flood
        /\ Goto("due") /\ UNCHANGED replies
  /\ UNCHANGED <<flags, g_stop, clock, program, ret, i, before, wait, wake,
                 net, queue, history>>

\* recvfrom() < 0 with EAGAIN or EINTR: the drain is over and loop_once() goes
\* on with -o, then --bsd-flood, then the schedule.
drain_ends ==
  /\ pc = "recv"
  /\ \/ queue = <<>> /\ UNCHANGED budget
     \/ /\ queue # <<>> /\ budget.eintr > 0
        /\ budget' = [budget EXCEPT !.eintr = @ - 1]
  /\ \/ /\ flags.exit_on_reply /\ stats.n_recv > 0
        /\ Goto("done") /\ UNCHANGED replies
     \/ /\ ~(flags.exit_on_reply /\ stats.n_recv > 0)
        /\ flags.bsd_flood
        /\ Goto("replies") /\ replies' = stats.n_recv - before
     \/ /\ ~(flags.exit_on_reply /\ stats.n_recv > 0)
        /\ ~flags.bsd_flood
        /\ Goto("due") /\ UNCHANGED replies
  /\ UNCHANGED <<flags, g_stop, clock, program, ret, i, before, wait, wake,
                 net, queue, history>>

\* recvfrom() < 0 for any other reason.
recv_fail ==
  /\ pc = "recv" /\ Goto("done")
  /\ UNCHANGED <<flags, g_stop, clock, program, locals, network, history>>

\* Mutant: the counter of replies to answer is not looked at.
send_per_reply_unbounded ==
  /\ pc = "replies"
  /\ IF ping_should_stop
     THEN Goto("due") /\ UNCHANGED ret
     ELSE IF DeadlineReached(clock)
     THEN Goto("done") /\ UNCHANGED ret
     ELSE CallSendOne("reply")
  /\ UNCHANGED <<flags, g_stop, clock, program, i, before, replies, wait, wake,
                 network, history>>

\* Mutant: a burst of --bsd-flood sends does not look at the stop flag.
send_per_reply_unstoppable ==
  /\ pc = "replies"
  /\ IF replies <= 0
     THEN Goto("due") /\ UNCHANGED ret
     ELSE IF DeadlineReached(clock)
     THEN Goto("done") /\ UNCHANGED ret
     ELSE CallSendOne("reply")
  /\ UNCHANGED <<flags, g_stop, clock, program, i, before, replies, wait, wake,
                 network, history>>

\* The while test of send_per_reply() and its deadline test.
send_per_reply ==
  /\ pc = "replies"
  /\ IF replies <= 0 \/ ping_should_stop
     THEN Goto("due") /\ UNCHANGED ret
     ELSE IF DeadlineReached(clock)
     THEN Goto("done") /\ UNCHANGED ret
     ELSE CallSendOne("reply")
  /\ UNCHANGED <<flags, g_stop, clock, program, i, before, replies, wait, wake,
                 network, history>>

\* send_if_due(): the clock decides, never poll()'s return value.
send_if_due ==
  /\ pc = "due"
  /\ IF DeadlineReached(clock)
     THEN Goto("done") /\ UNCHANGED ret
     ELSE IF NotDueYet(clock)
     THEN Goto("while") /\ UNCHANGED ret
     ELSE CallSendOne("due")
  /\ UNCHANGED <<flags, g_stop, clock, program, i, before, replies, wait, wake,
                 network, history>>

\* The steps of a process whose system calls succeed.
Succeeding ==
  \/ sched_init \/ send_preload \/ first_send
  \/ send_one \/ sendto_ok \/ stamp_last_send
  \/ loop_once \/ poll \/ poll_readable \/ poll_timeout
  \/ ping_receive \/ drain_ends \/ send_per_reply \/ send_if_due

Program == Succeeding \/ sendto_fail \/ poll_error \/ recv_fail
-----------------------------------------------------------------------------
(* The environment.                                                        *)

\* The SIGINT handler runs.  A poll() blocked at that moment returns EINTR,
\* unless it already has something to report (the kernel then returns that).
on_sigint ==
  /\ pc # "done"
  /\ g_stop' = TRUE
  /\ \/ pc # "blocked" /\ UNCHANGED pc
     \/ pc = "blocked" /\ Goto("while")
     \/ pc = "blocked" /\ PollReady /\ UNCHANGED pc
  /\ UNCHANGED <<flags, clock, program, locals, network, history>>

\* Time passes.  Past the horizon it does so only for a poll() that has yet
\* to time out in a run that is to end or has yet to build MinProbes probes.
Tick ==
  /\ pc \notin {"start", "done"}
  /\ \/ clock < MaxClock
     \/ /\ clock < LastClock /\ pc = "blocked" /\ ~TimedOut
        /\ g_stop \/ sched.deadline # INFINITY \/ hist.built < MinProbes
  /\ clock' = clock + 1
  /\ UNCHANGED <<flags, pc, g_stop, program, locals, network, history>>

\* An echo reply to p reaches the socket.  The probe is used up; a probe that
\* stays in net for ever is one that was lost, or whose answer was.
NetReply(p) ==
  /\ pc # "done" /\ Len(queue) < MaxQueue /\ budget.reply > 0
  /\ queue' = Append(queue, [wire |-> EchoReply(p.sequence, flags),
                             n |-> p.n, sent |-> p.sent])
  /\ net' = net \ {p}
  /\ budget' = [budget EXCEPT !.reply = @ - 1]
  /\ UNCHANGED <<flags, pc, g_stop, clock, program, locals, history>>

\* A reply to p arrives and another will: the network duplicated it, or p went
\* to a group of hosts.
NetDuplicate(p) ==
  /\ pc # "done" /\ Len(queue) < MaxQueue /\ budget.dup > 0
  /\ queue' = Append(queue, [wire |-> EchoReply(p.sequence, flags),
                             n |-> p.n, sent |-> p.sent])
  /\ budget' = [budget EXCEPT !.dup = @ - 1]
  /\ UNCHANGED <<flags, pc, g_stop, clock, program, locals, net, history>>

\* An echo reply with our id: from the far host this cannot be told from an
\* answer to a probe of ours.
Imitates(w) == w.type = 0 /\ w.code = 0 /\ w.id = MyId

\* A raw socket sees all ICMP traffic of the host: errors, other processes'
\* replies, damaged datagrams.
StrayArrives(w) ==
  /\ pc # "done" /\ Len(queue) < MaxQueue
  /\ queue' = Append(queue, [wire |-> w, n |-> -1, sent |-> 0])
  /\ \/ /\ Imitates(w) /\ budget.twin > 0
        /\ budget' = [budget EXCEPT !.twin = @ - 1]
     \/ /\ ~Imitates(w) /\ ~EndlessStrays /\ budget.stray > 0
        /\ budget' = [budget EXCEPT !.stray = @ - 1]
     \/ /\ ~Imitates(w) /\ EndlessStrays
        /\ UNCHANGED budget
  /\ UNCHANGED <<flags, pc, g_stop, clock, program, locals, net, history>>

Environment ==
  \/ on_sigint \/ Tick
  \/ \E p \in net : NetReply(p) \/ NetDuplicate(p)
  \/ \E w \in StrayWires : StrayArrives(w)
-----------------------------------------------------------------------------
\* ping_run() is entered with g_stop = 0 or, if SIGINT came between
\* signal_install() and here, 1; the ring is calloc()ed; the socket has been
\* open for a while, so strays may be queued as soon as the run starts.
Init ==
  /\ flags \in FlagChoices
  /\ pc = "start"
  /\ g_stop \in BOOLEAN
  /\ clock = StartClock
  /\ sched = [interval |-> PING_INTERVAL, deadline |-> INFINITY,
              last_send |-> 0, seq |-> 0]
  /\ send_ts = [s \in 0 .. PING_TS_RING - 1 |-> 0]
  /\ pkt = [sequence |-> 0, n |-> 0, sent |-> 0]
  /\ stats = ZeroStats
  /\ ret = "first" /\ i = 0 /\ before = 0 /\ replies = 0
  /\ wait = 0 /\ wake = 0
  /\ net = {} /\ queue = <<>> /\ budget = Budget
  /\ by = [c \in Callers |-> 0]
  /\ hist = [t0 |-> StartClock, tx |-> 0, built |-> 0, late |-> 0]

Next == Program \/ Environment

Spec == Init /\ [][Next]_vars

\* The operating system keeps running the process, and time passes.  Nothing
\* obliges a system call to fail: a poll() with nothing to report may block
\* for ever.
Fairness == WF_vars(Succeeding) /\ WF_vars(Tick)

FairSpec == Spec /\ Fairness
-----------------------------------------------------------------------------
(* Properties.                                                             *)

Schedule == [interval: Nat \ {0}, deadline: Int \cup {INFINITY},
             last_send: Nat, seq: 0 .. PING_TS_RING - 1]

History == [t0: Nat, tx: Nat, built: Nat, late: Nat]

\* Every variable keeps its type.  Two parts have content: the sums in stats
\* stay natural only because no ring slot is ever ahead of the clock, and wait
\* is never the negative timeout that poll() takes for "block for ever".
TypeOK ==
  /\ flags \in Flags
  /\ pc \in Labels
  /\ g_stop \in BOOLEAN
  /\ clock \in Nat
  /\ sched \in Schedule
  /\ send_ts \in [0 .. PING_TS_RING - 1 -> Nat]
  /\ pkt \in Probe
  /\ stats \in Stats
  /\ ret \in Callers
  /\ i \in Nat /\ before \in Nat /\ replies \in Int
  /\ wait \in Nat /\ wake \in Nat
  /\ net \in SUBSET Probe
  /\ queue \in Seq(Packet)
  /\ budget \in Budgets
  /\ by \in [Callers -> Nat]
  /\ hist \in History

\* The size of the preload burst: a negative preload is no burst.
Burst == IF flags.preload > 0 THEN flags.preload ELSE 0

\* Probes that only the timer can account for: not the preload burst, not the
\* first packet, not --bsd-flood's one per reply.
TimerSends ==
  stats.n_sent - Burst - 1 - (IF flags.bsd_flood THEN stats.n_recv ELSE 0)

\* The sending rate never exceeds the interval, however poll() returns: by
\* readable sockets, by timeouts against the -t deadline, by signals.  The
\* comments of send_if_due() ("turns the last fraction of a millisecond before
\* the deadline into a flood") and of send_per_reply() ("It cannot run away")
\* say why this could fail.
RateBounded == TimerSends * sched.interval <= clock - hist.t0

\* --bsd-flood answers each reply it counted at most once, and nothing else
\* calls send_per_reply(): the number of such sends never overtakes n_recv,
\* over all the drains of a run and the sends still owed by the current one.
OnePerReply ==
  by["reply"] <= (IF flags.bsd_flood THEN stats.n_recv ELSE 0)

\* A send the timer decides is at least one interval after the transmission
\* before it, whoever made that one and however long its sendto() took
\* (send_if_due() re-reads the clock after the call for this reason).
PacedApart ==
  [][ (pc = "sendto" /\ ret = "due" /\ stats'.n_sent # stats.n_sent)
      => clock >= hist.tx + sched.interval ]_vars

\* A reply that is still to be read, or yet to come, will be timed against
\* its own probe's transmission, unless PING_TS_RING or more probes were built
\* after it and took its slot (the CAVEAT of send_per_reply()).
RttExact ==
  /\ \A p \in net :
       hist.built - p.n <= PING_TS_RING => send_ts[p.sequence] = p.sent
  /\ \A k \in 1 .. Len(queue) :
       (queue[k].n >= 0 /\ hist.built - queue[k].n <= PING_TS_RING)
       => send_ts[queue[k].wire.sequence] = queue[k].sent

\* What print_stats() will print is the summary of n_recv real samples: min,
\* mean and max are in order, and so far as arithmetic is exact the variance
\* is not negative (record_rtt(); print_stats() clamps what rounding leaves
\* below 0).
StatsCoherent == Coherent(stats)

\* Answers to our probes that have reached the socket, and among them those
\* the program has not read yet.
Answered == (Budget.reply - budget.reply) + (Budget.dup - budget.dup)
Unread == Cardinality({k \in 1 .. Len(queue) : queue[k].n >= 0})

\* Every answer read is counted, once, and so is nothing else but an echo
\* reply that carries our id: n_recv lies between the answers read so far and
\* those plus such replies, and it exceeds n_sent only by them and by the
\* network's duplicates.  ping_receive() keeps no record of what it counted
\* and filters by checksum, type, code and id alone, so this rests on every
\* filter, on recvbuf being long enough and on the order of queue and totals.
CountsExplained ==
  LET twins == Budget.twin - budget.twin
      dups  == Budget.dup - budget.dup
  IN  /\ stats.n_recv \in Answered - Unread .. Answered - Unread + twins
      /\ stats.n_recv <= stats.n_sent + dups + twins

\* "The loop body always has a last_send to schedule the next one from and
\* never has to special-case nothing sent yet" (ping_run()): in the loop
\* something was transmitted, and last_send is no earlier than that.
LoopHasSent ==
  pc \in {"poll", "blocked", "recv", "replies", "due"} =>
    stats.n_sent >= 1 /\ sched.last_send >= hist.tx

\* A failed sendto() is the last one of the run, in the preload burst, the
\* first send and the loop alike: at most one sequence number was used up by
\* a probe that never left, and only in a run that is ending.
FailureIsFinal ==
  \/ hist.built = stats.n_sent
  \/ /\ hist.built = stats.n_sent + 1
     /\ g_stop \/ pc \in {"sendto", "done"}

\* After the stop request the run hands at most one more probe to the kernel,
\* or two with --bsd-flood: the one in progress and, since send_if_due() does
\* not look at the flag, one that falls due before the while test.
StopBoundsSends == hist.late <= IF flags.bsd_flood THEN 2 ELSE 1

\* A poll() that times out did so for a reason: its target has come (a send
\* is due or -t has expired), or it was clamped to PING_POLL_MAX_MS.  It never
\* returns on a fraction of a millisecond to go (ms_until() rounds up), which
\* would make the loop spin.
NoSpin ==
  (pc = "blocked" /\ TimedOut) =>
    wait = PING_POLL_MAX_MS \/ clock >= Target

\* -o, "exit successfully after receiving one reply packet": once a reply is
\* counted nothing follows but the rest of the drain that counted it and the
\* end.  No probe is built, none is transmitted and poll() is not entered
\* again, although loop_once() looks at -o only when the drain is over.
ExitOnReplyEnds ==
  flags.exit_on_reply /\ stats.n_recv > 0 => pc \in {"recv", "done"}

\* Ctrl+C and a failed send end the run: whatever the loop is doing when the
\* flag is set, ping_run() returns.
StopHonoured == g_stop ~> pc = "done"

\* A run with -t ends, whatever arrives or does not arrive.
DeadlineHonoured == (pc # "start" /\ flags.has_timeout) ~> pc = "done"

\* Probes keep being sent whether or not anything comes back ("a send never
\* waits for a reply"): until the run ends the next probe is always built.
KeepsSending ==
  \A k \in 0 .. MinProbes - 1 :
    hist.built = k ~> hist.built > k \/ pc = "done"
-----------------------------------------------------------------------------
(* What comments and tests of the repository say and the code does not do. *)

\* ping_signal.c: a poll() "that is blocked when Ctrl+C arrives must return
\* EINTR so the loop can notice the stop request at once".  The loop is never
\* asleep while a stop request is pending.
StopNoticedAtOnce == (pc = "blocked" /\ g_stop) => PollReady

\* ping_receive.c: "The id alone identifies our process's traffic";
\* ping_print_report.c: more replies than probes is "impossible on an honest
\* network".  No probe is counted as answered more than once.
NoMoreRepliesThanProbes == stats.n_recv <= stats.n_sent
=============================================================================
