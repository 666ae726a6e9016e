--------------------------- MODULE PingLoopProofs ---------------------------
(***************************************************************************)
(* What TLAPS proves of PingLoop for every value of its constants.         *)
(*                                                                         *)
(* Each theorem Spec => []Inv rests on an inductive strengthening of Inv   *)
(* and has one step per action of Next.                                    *)
(***************************************************************************)
EXTENDS PingLoop, TLAPS

-----------------------------------------------------------------------------
(* Types.                                                                  *)

\* No slot of the timestamp ring is ahead of the clock (inductive companion of
\* TypeOK: a round-trip time is a difference of the two, and must not be
\* negative for the sums to stay natural).
TimestampsInPast ==
  \A s \in 0 .. PING_TS_RING - 1 : send_ts[s] <= clock

TypeInv == TypeOK /\ TimestampsInPast

\* The answer a host makes to a probe is a datagram.
LEMMA EchoReplyType ==
  ASSUME NEW f \in Flags, NEW s \in Nat
  PROVE  EchoReply(s, f) \in Wire
BY IdAssumption
   DEF EchoReply, Wire, payload_len, Flags, IP_HDR, ICMP_HDR,
       PING_PAYLOAD_SIZE

\* record_rtt() keeps the totals natural.
LEMMA RecordRttType ==
  ASSUME NEW s \in Stats, NEW rtt \in Nat
  PROVE  record_rtt(s, rtt) \in Stats
<1>1. rtt * rtt \in Nat
  OBVIOUS
<1>2. s.sum_sq + rtt * rtt \in Nat
  BY <1>1 DEF Stats
<1> QED BY <1>2 DEF record_rtt, Stats

\* The timeout ms_until() hands to poll() is a whole number of milliseconds
\* between 0 and the clamp.
LEMMA MsUntilType ==
  ASSUME NEW target \in Int, NEW now \in Int
  PROVE  ms_until(target, now) \in 0 .. PING_POLL_MAX_MS
<1> DEFINE d == target - now
<1>1. CASE d < 0
  BY <1>1, TimeAssumption DEF ms_until
<1>2. CASE d > PING_POLL_MAX_MS * UnitsPerMs
  <2>1. PING_POLL_MAX_MS * UnitsPerMs >= 0
    BY TimeAssumption
  <2> QED BY <1>2, <2>1, TimeAssumption DEF ms_until
<1>3. CASE 0 <= d /\ d <= PING_POLL_MAX_MS * UnitsPerMs
  <2>1. Ceil(d) \in 0 .. PING_POLL_MAX_MS
    BY <1>3, TimeAssumption DEF Ceil
  <2>2. ms_until(target, now) = Ceil(d)
    BY <1>3, TimeAssumption DEF ms_until
  <2> QED BY <2>1, <2>2
<1> QED BY <1>1, <1>2, <1>3, TimeAssumption

\* The initial state has the types TypeInv gives.
LEMMA TypeInit == Init => TypeInv
BY LoopAssumption, TimeAssumption
   DEF Init, TypeInv, TypeOK, TimestampsInPast, Labels, Callers, Probe, Stats,
       ZeroStats, Schedule, History

\* Every step keeps TypeInv.
LEMMA TypeStep == TypeInv /\ [Next]_vars => TypeInv'
<1> SUFFICES ASSUME TypeInv, [Next]_vars
             PROVE  TypeInv'
  OBVIOUS
<1> USE DEF program, locals, network, history, Goto, CallSendOne,
            ping_should_stop, ping_request_stop
<1>pc. pc \in Labels /\ ret \in Callers
  BY DEF TypeInv, TypeOK
<1>stop. g_stop \in BOOLEAN
  BY DEF TypeInv, TypeOK
<1>clock. clock \in Nat
  BY DEF TypeInv, TypeOK
<1>flags. flags \in Flags
  BY DEF TypeInv, TypeOK
<1>sched. sched \in Schedule
  BY DEF TypeInv, TypeOK
<1>ring. /\ send_ts \in [0 .. PING_TS_RING - 1 -> Nat]
         /\ \A s \in 0 .. PING_TS_RING - 1 : send_ts[s] <= clock
  BY DEF TypeInv, TypeOK, TimestampsInPast
<1>pkt. pkt \in Probe
  BY DEF TypeInv, TypeOK
<1>stats. stats \in Stats
  BY DEF TypeInv, TypeOK
<1>locals. /\ i \in Nat /\ before \in Nat /\ replies \in Int
           /\ wait \in Nat /\ wake \in Nat
  BY DEF TypeInv, TypeOK
<1>net. net \in SUBSET Probe /\ queue \in Seq(Packet)
  BY DEF TypeInv, TypeOK
<1>budget. budget \in Budgets
  BY DEF TypeInv, TypeOK
<1>hist. by \in [Callers -> Nat] /\ hist \in History
  BY DEF TypeInv, TypeOK
<1>1. CASE sched_init
  <2>1. /\ interval_of(flags) \in Nat \ {0}
        /\ flags.timeout \in Int
    BY <1>flags, LoopAssumption DEF interval_of, Flags
  <2>2. flags.has_timeout => clock + Second * flags.timeout \in Int
    BY <2>1, <1>clock, LoopAssumption
  <2>3. sched' \in Schedule
    BY <1>1, <2>1, <2>2, LoopAssumption DEF sched_init, Schedule
  <2>4. stats' \in Stats
    BY <1>1 DEF sched_init, ZeroStats, Stats
  <2>5. hist' \in History
    BY <1>1, <1>hist, <1>clock DEF sched_init, History
  <2> QED BY <1>1, <2>3, <2>4, <2>5
          DEF sched_init, TypeInv, TypeOK, TimestampsInPast, Labels
<1>2. CASE send_preload
  BY <1>2 DEF send_preload, TypeInv, TypeOK, TimestampsInPast, Labels, Callers
<1>3. CASE first_send
  BY <1>3 DEF first_send, TypeInv, TypeOK, TimestampsInPast, Labels, Callers
<1>4. CASE send_one
  <2>1. sched.seq \in 0 .. PING_TS_RING - 1 /\ hist.built \in Nat
    BY <1>sched, <1>hist DEF Schedule, History
  <2>2. (sched.seq + 1) % PING_TS_RING \in 0 .. PING_TS_RING - 1
    BY <2>1, LoopAssumption
  <2>3. sched' \in Schedule
    BY <1>4, <1>sched, <2>2 DEF send_one, Schedule
  <2>4. pkt' \in Probe
    BY <1>4, <1>clock, <2>1 DEF send_one, Probe
  <2>5. hist' \in History
    BY <1>4, <1>hist DEF send_one, History
  <2>6. sched.seq % PING_TS_RING \in 0 .. PING_TS_RING - 1
    BY <2>1, LoopAssumption
  <2>7. /\ send_ts' \in [0 .. PING_TS_RING - 1 -> Nat]
        /\ \A s \in 0 .. PING_TS_RING - 1 : send_ts'[s] <= clock'
    BY <1>4, <1>ring, <1>clock, <2>6 DEF send_one
  <2> QED BY <1>4, <2>3, <2>4, <2>5, <2>7
          DEF send_one, TypeInv, TypeOK, TimestampsInPast, Labels
<1>5. CASE sendto_ok
  <2>1. stats' \in Stats
    BY <1>5, <1>stats DEF sendto_ok, Stats
  <2>2. by' \in [Callers -> Nat]
    BY <1>5, <1>pc, <1>hist DEF sendto_ok
  <2>3. hist' \in History
    <3>1. hist.late \in Nat /\ hist.late + 1 \in Nat
      BY <1>hist DEF History
    <3> QED BY <1>5, <1>hist, <1>clock, <3>1 DEF sendto_ok, History
  <2>4. net' \in SUBSET Probe
    BY <1>5, <1>net, <1>pkt DEF sendto_ok
  <2>5. i' \in Nat /\ pc' \in Labels
    BY <1>5, <1>locals DEF sendto_ok, Labels
  <2> QED BY <1>5, <2>1, <2>2, <2>3, <2>4, <2>5
          DEF sendto_ok, TypeInv, TypeOK, TimestampsInPast
<1>6. CASE sendto_fail
  <2>1. i' \in Nat /\ pc' \in Labels
    BY <1>6, <1>locals DEF sendto_fail, Labels
  <2>2. g_stop' \in BOOLEAN
    BY <1>6, <1>stop DEF sendto_fail
  <2> QED BY <1>6, <2>1, <2>2 DEF sendto_fail, TypeInv, TypeOK, TimestampsInPast
<1>7. CASE stamp_last_send
  <2>1. sched' \in Schedule
    BY <1>7, <1>sched, <1>clock DEF stamp_last_send, Schedule
  <2>2. replies' \in Int /\ pc' \in Labels
    BY <1>7, <1>locals DEF stamp_last_send, Labels
  <2> QED BY <1>7, <2>1, <2>2
          DEF stamp_last_send, TypeInv, TypeOK, TimestampsInPast
<1>8. CASE loop_once
  <2>1. Target \in Int
    BY <1>sched, TimeAssumption DEF Target, fmin, Schedule
  <2>2. ms_until(Target, clock) \in Nat
    BY <2>1, <1>clock, MsUntilType, TimeAssumption
  <2>3. wait' \in Nat /\ pc' \in Labels
    BY <1>8, <1>locals, <2>2 DEF loop_once, Labels
  <2> QED BY <1>8, <2>3 DEF loop_once, TypeInv, TypeOK, TimestampsInPast
<1>9. CASE poll
  <2>1. wait * UnitsPerMs \in Nat
    BY <1>locals, TimeAssumption
  <2>2. ~(wait < 0) /\ clock + wait * UnitsPerMs \in Nat
    BY <1>locals, <1>clock, <2>1
  <2>3. wake' \in Nat /\ pc' \in Labels
    BY <1>9, <2>2 DEF poll, Labels
  <2> QED BY <1>9, <2>3 DEF poll, TypeInv, TypeOK, TimestampsInPast
<1>10. CASE poll_readable
  <2>1. before' \in Nat /\ pc' \in Labels
    BY <1>10, <1>stats DEF poll_readable, Stats, Labels
  <2> QED BY <1>10, <2>1 DEF poll_readable, TypeInv, TypeOK, TimestampsInPast
<1>11. CASE poll_timeout
  BY <1>11 DEF poll_timeout, TypeInv, TypeOK, TimestampsInPast, Labels
<1>12. CASE poll_error
  <2>1. budget' \in Budgets
    BY <1>12, <1>budget DEF poll_error, Budgets
  <2>2. pc' \in Labels
    BY <1>12 DEF poll_error, Labels
  <2> QED BY <1>12, <2>1, <2>2 DEF poll_error, TypeInv, TypeOK, TimestampsInPast
<1>13. CASE ping_receive
  <2> DEFINE w == Head(queue).wire
  <2>1. Head(queue) \in Packet /\ queue' \in Seq(Packet)
    BY <1>13, <1>net DEF ping_receive
  <2>2. w.sequence \in Nat
    BY <2>1 DEF Packet, Wire
  <2>3. w.sequence % PING_TS_RING \in 0 .. PING_TS_RING - 1
    BY <2>2, LoopAssumption
  <2>4. elapsed_ms(send_ts[w.sequence % PING_TS_RING], clock) \in Nat
    BY <1>ring, <1>clock, <2>3 DEF elapsed_ms
  <2>5. stats' \in Stats
    BY <1>13, <1>stats, <2>4, RecordRttType DEF ping_receive
  <2> QED BY <1>13, <2>1, <2>5
          DEF ping_receive, TypeInv, TypeOK, TimestampsInPast
<1>14. CASE drain_ends
  <2>1. budget' \in Budgets
    BY <1>14, <1>budget DEF drain_ends, Budgets
  <2>2. replies' \in Int
    BY <1>14, <1>stats, <1>locals DEF drain_ends, Stats
  <2>3. pc' \in Labels
    BY <1>14 DEF drain_ends, Labels
  <2> QED BY <1>14, <2>1, <2>2, <2>3
          DEF drain_ends, TypeInv, TypeOK, TimestampsInPast
<1>15. CASE recv_fail
  BY <1>15 DEF recv_fail, TypeInv, TypeOK, TimestampsInPast, Labels
<1>16. CASE send_per_reply
  BY <1>16 DEF send_per_reply, TypeInv, TypeOK, TimestampsInPast, Labels,
               Callers
<1>17. CASE send_if_due
  BY <1>17 DEF send_if_due, TypeInv, TypeOK, TimestampsInPast, Labels, Callers
<1>18. CASE on_sigint
  BY <1>18 DEF on_sigint, TypeInv, TypeOK, TimestampsInPast, Labels
<1>19. CASE Tick
  BY <1>19 DEF Tick, TypeInv, TypeOK, TimestampsInPast
<1>20. ASSUME NEW p \in net, NetReply(p) PROVE TypeInv'
  <2>1. p.sequence \in Nat /\ p.n \in Nat /\ p.sent \in Nat
    BY <1>net, LoopAssumption DEF Probe
  <2>2. [wire |-> EchoReply(p.sequence, flags), n |-> p.n, sent |-> p.sent]
          \in Packet
    BY <1>flags, <2>1, EchoReplyType DEF Packet
  <2>3. queue' \in Seq(Packet) /\ net' \in SUBSET Probe
    BY <1>20, <1>net, <2>2 DEF NetReply
  <2>4. budget' \in Budgets
    BY <1>20, <1>budget DEF NetReply, Budgets
  <2> QED BY <1>20, <2>3, <2>4 DEF NetReply, TypeInv, TypeOK, TimestampsInPast
<1>21. ASSUME NEW p \in net, NetDuplicate(p) PROVE TypeInv'
  <2>1. p.sequence \in Nat /\ p.n \in Nat /\ p.sent \in Nat
    BY <1>net, LoopAssumption DEF Probe
  <2>2. [wire |-> EchoReply(p.sequence, flags), n |-> p.n, sent |-> p.sent]
          \in Packet
    BY <1>flags, <2>1, EchoReplyType DEF Packet
  <2>3. queue' \in Seq(Packet) /\ net' \in SUBSET Probe
    BY <1>21, <1>net, <2>2 DEF NetDuplicate
  <2>4. budget' \in Budgets
    BY <1>21, <1>budget DEF NetDuplicate, Budgets
  <2> QED BY <1>21, <2>3, <2>4 DEF NetDuplicate, TypeInv, TypeOK, TimestampsInPast
<1>22. ASSUME NEW w \in StrayWires, StrayArrives(w) PROVE TypeInv'
  <2>1. [wire |-> w, n |-> -1, sent |-> 0] \in Packet
    BY LoopAssumption DEF Packet
  <2>2. queue' \in Seq(Packet)
    BY <1>22, <1>net, <2>1 DEF StrayArrives
  <2>3. budget' \in Budgets
    <3>1. \/ budget' = budget
          \/ budget.twin > 0 /\ budget' = [budget EXCEPT !.twin = @ - 1]
          \/ budget.stray > 0 /\ budget' = [budget EXCEPT !.stray = @ - 1]
      BY <1>22 DEF StrayArrives
    <3> QED BY <1>budget, <3>1 DEF Budgets
  <2> QED BY <1>22, <2>2, <2>3
          DEF StrayArrives, TypeInv, TypeOK, TimestampsInPast
<1>23. CASE UNCHANGED vars
  BY <1>23 DEF vars, TypeInv, TypeOK, TimestampsInPast
<1> QED
  BY <1>1, <1>2, <1>3, <1>4, <1>5, <1>6, <1>7, <1>8, <1>9, <1>10, <1>11,
     <1>12, <1>13, <1>14, <1>15, <1>16, <1>17, <1>18, <1>19, <1>20, <1>21,
     <1>22, <1>23
     DEF Next, Program, Succeeding, Environment

\* ping_run() keeps the type of all its state for every ring size, interval,
\* command line and network: in particular no round-trip time is negative, so
\* the sums record_rtt() keeps stay natural.
THEOREM TypeCorrect == Spec => []TypeOK
<1>1. Spec => []TypeInv
  BY TypeInit, TypeStep, PTL DEF Spec
<1>2. TypeInv => TypeOK
  BY DEF TypeInv
<1> QED BY <1>1, <1>2, PTL
-----------------------------------------------------------------------------
(* The strengthenings of the other invariants.                             *)

\* send_one() is running for caller c and the probe has not gone out yet.
Sending(c) == pc \in {"build", "sendto"} /\ ret = c

\* send_per_reply() is running.
Flooding ==
  pc = "replies" \/ (pc \in {"build", "sendto", "stamp"} /\ ret = "reply")

\* Neither the first paced packet nor the loop has sent anything yet.
Early ==
  \/ pc \in {"start", "preload", "first"}
  \/ Sending("preload") \/ Sending("first")

\* last_send has been stamped since the last transmission.
Stamped ==
  \/ pc \in {"while", "poll", "blocked", "recv", "replies", "due"}
  \/ Sending("reply")

\* OnePerReply made inductive: the replies send_per_reply() still owes are
\* counted and not answered, and a drain starts with all earlier ones answered.
FloodInv ==
  /\ by["reply"] <= stats.n_recv
  /\ pc = "start" => by["reply"] = 0
  /\ pc = "recv" => by["reply"] <= before /\ before <= stats.n_recv
  /\ pc = "replies" => by["reply"] + replies <= stats.n_recv
  /\ Sending("reply") => by["reply"] + replies <= stats.n_recv /\ replies >= 1
  /\ (pc = "stamp" /\ ret = "reply")
     => by["reply"] + replies - 1 <= stats.n_recv
  /\ ~flags.bsd_flood => by["reply"] = 0 /\ ~Flooding

\* Every transmission is accounted to one caller, and each caller but the timer
\* is bounded by what it is for.
CountInv ==
  /\ stats.n_sent = by["preload"] + by["first"] + by["due"] + by["reply"]
  /\ by["preload"] <= i /\ i <= Burst
  /\ Sending("preload") => i < flags.preload
  /\ by["first"] <= 1
  /\ Early => by["first"] = 0 /\ by["due"] = 0 /\ by["reply"] = 0
  /\ pc = "start" => i = 0

\* Each send of the timer used up one interval: until the last stamp, or until
\* now while the next one is under way.
TimerInv ==
  /\ Early => by["due"] = 0
  /\ hist.t0 + by["due"] * sched.interval <= clock
  /\ Stamped => hist.t0 + by["due"] * sched.interval <= sched.last_send
  /\ Sending("due") =>
       hist.t0 + by["due"] * sched.interval + sched.interval <= clock

\* The last transmission is in the past, no later than last_send once that is
\* stamped, and an interval ago when the timer sends.
PacedInv ==
  /\ hist.tx <= clock
  /\ Stamped => hist.tx <= sched.last_send
  /\ Sending("due") => hist.tx + sched.interval <= clock

\* LoopHasSent made inductive: without a stop request, leaving the first send
\* means that something went out.
SentInv ==
  /\ pc \in {"poll", "blocked", "recv", "replies", "due"} => stats.n_sent >= 1
  /\ (pc \in {"while", "stamp"} /\ ~g_stop) => stats.n_sent >= 1
  /\ (pc \in {"build", "sendto", "stamp"} /\ ret \in {"due", "reply"})
     => stats.n_sent >= 1

\* FailureIsFinal made inductive: nothing is begun with a failed probe behind.
FailInv ==
  /\ hist.built = stats.n_sent \/ hist.built = stats.n_sent + 1
  /\ pc = "start" => hist.built = 0
  /\ pc = "sendto" => hist.built = stats.n_sent + 1
  /\ pc \in {"start", "build", "poll", "blocked", "recv", "replies", "due"}
     => hist.built = stats.n_sent
  /\ (pc = "stamp" /\ ret # "first") => hist.built = stats.n_sent
  /\ (pc \notin {"sendto", "done"} /\ ~g_stop) => hist.built = stats.n_sent

\* StopBoundsSends made inductive: where the late sends can come from.
StopInv ==
  LET Extra == IF flags.bsd_flood THEN 1 ELSE 0 IN
  /\ hist.late <= 1 + Extra
  /\ ~g_stop => hist.late = 0
  /\ pc \in {"start", "poll", "blocked", "recv"} => hist.late = 0
  /\ (pc \in {"build", "sendto"} /\ ret # "due") => hist.late = 0
  /\ Sending("due") => hist.late <= Extra
  /\ pc \in {"replies", "due"} => hist.late <= Extra
  /\ (pc = "stamp" /\ ret = "reply") => hist.late <= Extra /\ flags.bsd_flood

\* NoSpin made inductive: the timeout covers the way to the target.
SpinInv ==
  /\ pc = "poll" =>
       wait = PING_POLL_MAX_MS \/ clock + wait * UnitsPerMs >= Target
  /\ pc = "blocked" => wait = PING_POLL_MAX_MS \/ wake >= Target

\* The fields the counting arguments are about, one by one.
LEMMA FieldTypes ==
  TypeInv => /\ stats.n_sent \in Nat /\ stats.n_recv \in Nat
             /\ by["preload"] \in Nat /\ by["first"] \in Nat
             /\ by["due"] \in Nat /\ by["reply"] \in Nat
             /\ hist.t0 \in Nat /\ hist.tx \in Nat
             /\ hist.built \in Nat /\ hist.late \in Nat
             /\ sched.interval \in Nat \ {0} /\ sched.last_send \in Nat
             /\ flags.preload \in Int
BY DEF TypeInv, TypeOK, Stats, Callers, History, Schedule, Flags

\* One datagram changes no counter of sends and takes no reply back.
LEMMA ReceiveCounts ==
  ASSUME TypeInv, ping_receive
  PROVE  /\ stats'.n_sent = stats.n_sent
         /\ stats'.n_recv = stats.n_recv \/ stats'.n_recv = stats.n_recv + 1
BY DEF ping_receive, record_rtt, TypeInv, TypeOK, Stats

\* What sendto_ok() adds.
LEMMA SendCounts ==
  ASSUME TypeInv, sendto_ok
  PROVE  /\ stats'.n_sent = stats.n_sent + 1 /\ stats'.n_recv = stats.n_recv
         /\ by'[ret] = by[ret] + 1
         /\ \A c \in Callers : c # ret => by'[c] = by[c]
         /\ hist'.t0 = hist.t0 /\ hist'.tx = clock /\ hist'.built = hist.built
         /\ hist'.late = IF g_stop THEN hist.late + 1 ELSE hist.late
BY DEF sendto_ok, TypeInv, TypeOK, Stats, History

\* Every step keeps FloodInv.
LEMMA FloodStep == TypeInv /\ FloodInv /\ [Next]_vars => FloodInv'
<1> SUFFICES ASSUME TypeInv, FloodInv, [Next]_vars
             PROVE  FloodInv'
  OBVIOUS
<1> USE FieldTypes
        DEF program, locals, network, history, Goto, CallSendOne,
            ping_should_stop, ping_request_stop, FloodInv, Sending, Flooding
<1>t. /\ clock \in Nat /\ i \in Nat /\ before \in Nat /\ replies \in Int
      /\ wait \in Nat /\ wake \in Nat /\ pc \in Labels /\ ret \in Callers
      /\ sched \in Schedule /\ hist \in History
  BY DEF TypeInv, TypeOK
<1>1. CASE sched_init
  BY <1>1, <1>t DEF sched_init, ZeroStats
<1>2. CASE send_preload
  BY <1>2, <1>t DEF send_preload
<1>3. CASE first_send
  BY <1>3, <1>t DEF first_send
<1>4. CASE send_one
  BY <1>4, <1>t DEF send_one, Schedule, History
<1>5. CASE sendto_ok
  BY <1>5, <1>t, SendCounts DEF sendto_ok, Callers
<1>6. CASE sendto_fail
  BY <1>6, <1>t DEF sendto_fail
<1>7. CASE stamp_last_send
  BY <1>7, <1>t DEF stamp_last_send, Schedule
<1>8. CASE loop_once
  BY <1>8, <1>t DEF loop_once
<1>9. CASE poll
  BY <1>9, <1>t DEF poll
<1>10. CASE poll_readable
  BY <1>10, <1>t DEF poll_readable
<1>11. CASE poll_timeout
  BY <1>11, <1>t DEF poll_timeout
<1>12. CASE poll_error
  BY <1>12, <1>t DEF poll_error
<1>13. CASE ping_receive
  <2>1. /\ by' = by /\ flags' = flags /\ ret' = ret /\ pc' = pc
        /\ before' = before /\ replies' = replies /\ pc = "recv"
    BY <1>13 DEF ping_receive
  <2> QED BY <1>13, <1>t, <2>1, ReceiveCounts
<1>14. CASE drain_ends
  <2>1. /\ by' = by /\ stats' = stats /\ flags' = flags /\ ret' = ret
        /\ pc = "recv" /\ pc' \in {"done", "replies", "due"}
    BY <1>14 DEF drain_ends
  <2>2. pc' = "replies" =>
          flags.bsd_flood /\ replies' = stats.n_recv - before
    BY <1>14 DEF drain_ends
  <2> QED BY <1>14, <1>t, <2>1, <2>2
<1>15. CASE recv_fail
  BY <1>15, <1>t DEF recv_fail
<1>16. CASE send_per_reply
  BY <1>16, <1>t DEF send_per_reply
<1>17. CASE send_if_due
  BY <1>17, <1>t DEF send_if_due
<1>18. CASE on_sigint
  BY <1>18, <1>t DEF on_sigint
<1>19. CASE Tick
  BY <1>19, <1>t DEF Tick
<1>20. ASSUME NEW p \in net, NetReply(p) PROVE FloodInv'
  BY <1>20 DEF NetReply
<1>21. ASSUME NEW p \in net, NetDuplicate(p) PROVE FloodInv'
  BY <1>21 DEF NetDuplicate
<1>22. ASSUME NEW w \in StrayWires, StrayArrives(w) PROVE FloodInv'
  BY <1>22 DEF StrayArrives
<1>23. CASE UNCHANGED vars
  BY <1>23 DEF vars
<1> QED
  BY <1>1, <1>2, <1>3, <1>4, <1>5, <1>6, <1>7, <1>8, <1>9, <1>10, <1>11,
     <1>12, <1>13, <1>14, <1>15, <1>16, <1>17, <1>18, <1>19, <1>20, <1>21,
     <1>22, <1>23
     DEF Next, Program, Succeeding, Environment

\* Every step keeps CountInv.
LEMMA CountStep == TypeInv /\ CountInv /\ [Next]_vars => CountInv'
<1> SUFFICES ASSUME TypeInv, CountInv, [Next]_vars
             PROVE  CountInv'
  OBVIOUS
<1> USE FieldTypes
        DEF program, locals, network, history, Goto, CallSendOne,
            ping_should_stop, ping_request_stop, CountInv, Sending, Early, Burst
<1>t. /\ clock \in Nat /\ i \in Nat /\ before \in Nat /\ replies \in Int
      /\ wait \in Nat /\ wake \in Nat /\ pc \in Labels /\ ret \in Callers
      /\ sched \in Schedule /\ hist \in History
  BY DEF TypeInv, TypeOK
<1>1. CASE sched_init
  BY <1>1, <1>t DEF sched_init, ZeroStats
<1>2. CASE send_preload
  BY <1>2, <1>t DEF send_preload
<1>3. CASE first_send
  BY <1>3, <1>t DEF first_send
<1>4. CASE send_one
  BY <1>4, <1>t DEF send_one, Schedule, History
<1>5. CASE sendto_ok
  BY <1>5, <1>t, SendCounts DEF sendto_ok, Callers
<1>6. CASE sendto_fail
  BY <1>6, <1>t DEF sendto_fail
<1>7. CASE stamp_last_send
  BY <1>7, <1>t DEF stamp_last_send, Schedule
<1>8. CASE loop_once
  BY <1>8, <1>t DEF loop_once
<1>9. CASE poll
  BY <1>9, <1>t DEF poll
<1>10. CASE poll_readable
  BY <1>10, <1>t DEF poll_readable
<1>11. CASE poll_timeout
  BY <1>11, <1>t DEF poll_timeout
<1>12. CASE poll_error
  BY <1>12, <1>t DEF poll_error
<1>13. CASE ping_receive
  BY <1>13, <1>t, ReceiveCounts DEF ping_receive
<1>14. CASE drain_ends
  BY <1>14, <1>t DEF drain_ends
<1>15. CASE recv_fail
  BY <1>15, <1>t DEF recv_fail
<1>16. CASE send_per_reply
  BY <1>16, <1>t DEF send_per_reply
<1>17. CASE send_if_due
  BY <1>17, <1>t DEF send_if_due
<1>18. CASE on_sigint
  BY <1>18, <1>t DEF on_sigint
<1>19. CASE Tick
  BY <1>19, <1>t DEF Tick
<1>20. ASSUME NEW p \in net, NetReply(p) PROVE CountInv'
  BY <1>20 DEF NetReply
<1>21. ASSUME NEW p \in net, NetDuplicate(p) PROVE CountInv'
  BY <1>21 DEF NetDuplicate
<1>22. ASSUME NEW w \in StrayWires, StrayArrives(w) PROVE CountInv'
  BY <1>22 DEF StrayArrives
<1>23. CASE UNCHANGED vars
  BY <1>23 DEF vars
<1> QED
  BY <1>1, <1>2, <1>3, <1>4, <1>5, <1>6, <1>7, <1>8, <1>9, <1>10, <1>11,
     <1>12, <1>13, <1>14, <1>15, <1>16, <1>17, <1>18, <1>19, <1>20, <1>21,
     <1>22, <1>23
     DEF Next, Program, Succeeding, Environment

\* The two facts of arithmetic the pacing argument needs.
LEMMA NextMultiple ==
  ASSUME NEW a \in Nat, NEW c \in Nat
  PROVE  (a + 1) * c = a * c + c /\ 0 * c = 0
OBVIOUS

LEMMA ProductMonotone ==
  ASSUME NEW a \in Int, NEW b \in Int, a <= b, NEW c \in Nat
  PROVE  a * c <= b * c
OBVIOUS

\* Every step keeps TimerInv.
LEMMA TimerStep == TypeInv /\ TimerInv /\ [Next]_vars => TimerInv'
<1> SUFFICES ASSUME TypeInv, TimerInv, [Next]_vars
             PROVE  TimerInv'
  OBVIOUS
<1> USE FieldTypes
        DEF program, locals, network, history, Goto, CallSendOne,
            ping_should_stop, ping_request_stop, TimerInv, Sending, Early, Stamped
<1>t. /\ clock \in Nat /\ i \in Nat /\ before \in Nat /\ replies \in Int
      /\ wait \in Nat /\ wake \in Nat /\ pc \in Labels /\ ret \in Callers
      /\ sched \in Schedule /\ hist \in History
  BY DEF TypeInv, TypeOK
<1>1. CASE sched_init
  <2>1. by["due"] = 0 /\ by' = by /\ hist'.t0 = clock /\ clock' = clock
    BY <1>1, <1>t DEF sched_init, History
  <2>2. sched'.interval \in Nat
    BY <1>1, TypeStep DEF TypeInv, TypeOK, Schedule
  <2>3. by'["due"] * sched'.interval = 0
    BY <2>1, <2>2
  <2> QED BY <1>1, <1>t, <2>1, <2>3 DEF sched_init
<1>2. CASE send_preload
  BY <1>2, <1>t DEF send_preload
<1>3. CASE first_send
  BY <1>3, <1>t DEF first_send
<1>4. CASE send_one
  BY <1>4, <1>t DEF send_one, Schedule, History
<1>5. CASE sendto_ok
  <2>1. /\ sched' = sched /\ clock' = clock /\ hist'.t0 = hist.t0 /\ ret' = ret
        /\ pc = "sendto"
        /\ IF ret = "preload" THEN pc' = "preload" ELSE pc' = "stamp"
    BY <1>5, SendCounts DEF sendto_ok
  <2>2. CASE ret = "due"
    <3>1. by'["due"] = by["due"] + 1
      BY <1>5, <2>2, SendCounts
    <3>2. by'["due"] * sched.interval = by["due"] * sched.interval + sched.interval
      BY <3>1, NextMultiple
    <3> QED BY <1>t, <2>1, <2>2, <3>2
  <2>3. CASE ret # "due"
    <3>1. by'["due"] = by["due"]
      BY <1>5, <2>3, SendCounts DEF Callers
    <3> QED BY <1>t, <2>1, <2>3, <3>1
  <2> QED BY <2>2, <2>3
<1>6. CASE sendto_fail
  BY <1>6, <1>t DEF sendto_fail
<1>7. CASE stamp_last_send
  BY <1>7, <1>t DEF stamp_last_send, Schedule
<1>8. CASE loop_once
  BY <1>8, <1>t DEF loop_once
<1>9. CASE poll
  BY <1>9, <1>t DEF poll
<1>10. CASE poll_readable
  BY <1>10, <1>t DEF poll_readable
<1>11. CASE poll_timeout
  BY <1>11, <1>t DEF poll_timeout
<1>12. CASE poll_error
  BY <1>12, <1>t DEF poll_error
<1>13. CASE ping_receive
  BY <1>13, <1>t, ReceiveCounts DEF ping_receive
<1>14. CASE drain_ends
  BY <1>14, <1>t DEF drain_ends
<1>15. CASE recv_fail
  BY <1>15, <1>t DEF recv_fail
<1>16. CASE send_per_reply
  BY <1>16, <1>t DEF send_per_reply
<1>17. CASE send_if_due
  BY <1>17, <1>t DEF send_if_due, NotDueYet
<1>18. CASE on_sigint
  BY <1>18, <1>t DEF on_sigint
<1>19. CASE Tick
  BY <1>19, <1>t DEF Tick
<1>20. ASSUME NEW p \in net, NetReply(p) PROVE TimerInv'
  BY <1>20 DEF NetReply
<1>21. ASSUME NEW p \in net, NetDuplicate(p) PROVE TimerInv'
  BY <1>21 DEF NetDuplicate
<1>22. ASSUME NEW w \in StrayWires, StrayArrives(w) PROVE TimerInv'
  BY <1>22 DEF StrayArrives
<1>23. CASE UNCHANGED vars
  BY <1>23 DEF vars
<1> QED
  BY <1>1, <1>2, <1>3, <1>4, <1>5, <1>6, <1>7, <1>8, <1>9, <1>10, <1>11,
     <1>12, <1>13, <1>14, <1>15, <1>16, <1>17, <1>18, <1>19, <1>20, <1>21,
     <1>22, <1>23
     DEF Next, Program, Succeeding, Environment

\* Every step keeps PacedInv.
LEMMA PacedStep == TypeInv /\ PacedInv /\ [Next]_vars => PacedInv'
<1> SUFFICES ASSUME TypeInv, PacedInv, [Next]_vars
             PROVE  PacedInv'
  OBVIOUS
<1> USE FieldTypes
        DEF program, locals, network, history, Goto, CallSendOne,
            ping_should_stop, ping_request_stop, PacedInv, Sending, Stamped
<1>t. /\ clock \in Nat /\ i \in Nat /\ before \in Nat /\ replies \in Int
      /\ wait \in Nat /\ wake \in Nat /\ pc \in Labels /\ ret \in Callers
      /\ sched \in Schedule /\ hist \in History
  BY DEF TypeInv, TypeOK
<1>1. CASE sched_init
  BY <1>1, <1>t DEF sched_init, ZeroStats
<1>2. CASE send_preload
  BY <1>2, <1>t DEF send_preload
<1>3. CASE first_send
  BY <1>3, <1>t DEF first_send
<1>4. CASE send_one
  BY <1>4, <1>t DEF send_one, Schedule, History
<1>5. CASE sendto_ok
  BY <1>5, <1>t, SendCounts DEF sendto_ok, Callers
<1>6. CASE sendto_fail
  BY <1>6, <1>t DEF sendto_fail
<1>7. CASE stamp_last_send
  BY <1>7, <1>t DEF stamp_last_send, Schedule
<1>8. CASE loop_once
  BY <1>8, <1>t DEF loop_once
<1>9. CASE poll
  BY <1>9, <1>t DEF poll
<1>10. CASE poll_readable
  BY <1>10, <1>t DEF poll_readable
<1>11. CASE poll_timeout
  BY <1>11, <1>t DEF poll_timeout
<1>12. CASE poll_error
  BY <1>12, <1>t DEF poll_error
<1>13. CASE ping_receive
  BY <1>13, <1>t, ReceiveCounts DEF ping_receive
<1>14. CASE drain_ends
  BY <1>14, <1>t DEF drain_ends
<1>15. CASE recv_fail
  BY <1>15, <1>t DEF recv_fail
<1>16. CASE send_per_reply
  BY <1>16, <1>t DEF send_per_reply
<1>17. CASE send_if_due
  BY <1>17, <1>t DEF send_if_due, NotDueYet
<1>18. CASE on_sigint
  BY <1>18, <1>t DEF on_sigint
<1>19. CASE Tick
  BY <1>19, <1>t DEF Tick
<1>20. ASSUME NEW p \in net, NetReply(p) PROVE PacedInv'
  BY <1>20 DEF NetReply
<1>21. ASSUME NEW p \in net, NetDuplicate(p) PROVE PacedInv'
  BY <1>21 DEF NetDuplicate
<1>22. ASSUME NEW w \in StrayWires, StrayArrives(w) PROVE PacedInv'
  BY <1>22 DEF StrayArrives
<1>23. CASE UNCHANGED vars
  BY <1>23 DEF vars
<1> QED
  BY <1>1, <1>2, <1>3, <1>4, <1>5, <1>6, <1>7, <1>8, <1>9, <1>10, <1>11,
     <1>12, <1>13, <1>14, <1>15, <1>16, <1>17, <1>18, <1>19, <1>20, <1>21,
     <1>22, <1>23
     DEF Next, Program, Succeeding, Environment

\* Every step keeps SentInv.
LEMMA SentStep == TypeInv /\ SentInv /\ [Next]_vars => SentInv'
<1> SUFFICES ASSUME TypeInv, SentInv, [Next]_vars
             PROVE  SentInv'
  OBVIOUS
<1> USE FieldTypes
        DEF program, locals, network, history, Goto, CallSendOne,
            ping_should_stop, ping_request_stop, SentInv
<1>t. /\ clock \in Nat /\ i \in Nat /\ before \in Nat /\ replies \in Int
      /\ wait \in Nat /\ wake \in Nat /\ pc \in Labels /\ ret \in Callers
      /\ sched \in Schedule /\ hist \in History
  BY DEF TypeInv, TypeOK
<1>1. CASE sched_init
  BY <1>1, <1>t DEF sched_init, ZeroStats
<1>2. CASE send_preload
  BY <1>2, <1>t DEF send_preload
<1>3. CASE first_send
  BY <1>3, <1>t DEF first_send
<1>4. CASE send_one
  BY <1>4, <1>t DEF send_one, Schedule, History
<1>5. CASE sendto_ok
  BY <1>5, <1>t, SendCounts DEF sendto_ok, Callers
<1>6. CASE sendto_fail
  BY <1>6, <1>t DEF sendto_fail
<1>7. CASE stamp_last_send
  BY <1>7, <1>t DEF stamp_last_send, Schedule
<1>8. CASE loop_once
  BY <1>8, <1>t DEF loop_once
<1>9. CASE poll
  BY <1>9, <1>t DEF poll
<1>10. CASE poll_readable
  BY <1>10, <1>t DEF poll_readable
<1>11. CASE poll_timeout
  BY <1>11, <1>t DEF poll_timeout
<1>12. CASE poll_error
  BY <1>12, <1>t DEF poll_error
<1>13. CASE ping_receive
  BY <1>13, <1>t, ReceiveCounts DEF ping_receive
<1>14. CASE drain_ends
  BY <1>14, <1>t DEF drain_ends
<1>15. CASE recv_fail
  BY <1>15, <1>t DEF recv_fail
<1>16. CASE send_per_reply
  BY <1>16, <1>t DEF send_per_reply
<1>17. CASE send_if_due
  BY <1>17, <1>t DEF send_if_due
<1>18. CASE on_sigint
  BY <1>18, <1>t DEF on_sigint
<1>19. CASE Tick
  BY <1>19, <1>t DEF Tick
<1>20. ASSUME NEW p \in net, NetReply(p) PROVE SentInv'
  BY <1>20 DEF NetReply
<1>21. ASSUME NEW p \in net, NetDuplicate(p) PROVE SentInv'
  BY <1>21 DEF NetDuplicate
<1>22. ASSUME NEW w \in StrayWires, StrayArrives(w) PROVE SentInv'
  BY <1>22 DEF StrayArrives
<1>23. CASE UNCHANGED vars
  BY <1>23 DEF vars
<1> QED
  BY <1>1, <1>2, <1>3, <1>4, <1>5, <1>6, <1>7, <1>8, <1>9, <1>10, <1>11,
     <1>12, <1>13, <1>14, <1>15, <1>16, <1>17, <1>18, <1>19, <1>20, <1>21,
     <1>22, <1>23
     DEF Next, Program, Succeeding, Environment

\* Every step keeps FailInv.
LEMMA FailStep == TypeInv /\ FailInv /\ [Next]_vars => FailInv'
<1> SUFFICES ASSUME TypeInv, FailInv, [Next]_vars
             PROVE  FailInv'
  OBVIOUS
<1> USE FieldTypes
        DEF program, locals, network, history, Goto, CallSendOne,
            ping_should_stop, ping_request_stop, FailInv
<1>t. /\ clock \in Nat /\ i \in Nat /\ before \in Nat /\ replies \in Int
      /\ wait \in Nat /\ wake \in Nat /\ pc \in Labels /\ ret \in Callers
      /\ sched \in Schedule /\ hist \in History
  BY DEF TypeInv, TypeOK
<1>1. CASE sched_init
  BY <1>1, <1>t DEF sched_init, ZeroStats, History
<1>2. CASE send_preload
  BY <1>2, <1>t DEF send_preload
<1>3. CASE first_send
  BY <1>3, <1>t DEF first_send
<1>4. CASE send_one
  BY <1>4, <1>t DEF send_one, Schedule, History
<1>5. CASE sendto_ok
  BY <1>5, <1>t, SendCounts DEF sendto_ok, Callers
<1>6. CASE sendto_fail
  BY <1>6, <1>t DEF sendto_fail
<1>7. CASE stamp_last_send
  BY <1>7, <1>t DEF stamp_last_send, Schedule
<1>8. CASE loop_once
  BY <1>8, <1>t DEF loop_once
<1>9. CASE poll
  BY <1>9, <1>t DEF poll
<1>10. CASE poll_readable
  BY <1>10, <1>t DEF poll_readable
<1>11. CASE poll_timeout
  BY <1>11, <1>t DEF poll_timeout
<1>12. CASE poll_error
  BY <1>12, <1>t DEF poll_error
<1>13. CASE ping_receive
  BY <1>13, <1>t, ReceiveCounts DEF ping_receive
<1>14. CASE drain_ends
  BY <1>14, <1>t DEF drain_ends
<1>15. CASE recv_fail
  BY <1>15, <1>t DEF recv_fail
<1>16. CASE send_per_reply
  BY <1>16, <1>t DEF send_per_reply
<1>17. CASE send_if_due
  BY <1>17, <1>t DEF send_if_due
<1>18. CASE on_sigint
  BY <1>18, <1>t DEF on_sigint
<1>19. CASE Tick
  BY <1>19, <1>t DEF Tick
<1>20. ASSUME NEW p \in net, NetReply(p) PROVE FailInv'
  BY <1>20 DEF NetReply
<1>21. ASSUME NEW p \in net, NetDuplicate(p) PROVE FailInv'
  BY <1>21 DEF NetDuplicate
<1>22. ASSUME NEW w \in StrayWires, StrayArrives(w) PROVE FailInv'
  BY <1>22 DEF StrayArrives
<1>23. CASE UNCHANGED vars
  BY <1>23 DEF vars
<1> QED
  BY <1>1, <1>2, <1>3, <1>4, <1>5, <1>6, <1>7, <1>8, <1>9, <1>10, <1>11,
     <1>12, <1>13, <1>14, <1>15, <1>16, <1>17, <1>18, <1>19, <1>20, <1>21,
     <1>22, <1>23
     DEF Next, Program, Succeeding, Environment

\* Every step keeps StopInv.
LEMMA StopStep == TypeInv /\ StopInv /\ FloodInv /\ [Next]_vars => StopInv'
<1> SUFFICES ASSUME TypeInv, StopInv, FloodInv, [Next]_vars
             PROVE  StopInv'
  OBVIOUS
<1> USE FieldTypes
        DEF program, locals, network, history, Goto, CallSendOne,
            ping_should_stop, ping_request_stop, StopInv, Sending
<1>t. /\ clock \in Nat /\ i \in Nat /\ before \in Nat /\ replies \in Int
      /\ wait \in Nat /\ wake \in Nat /\ pc \in Labels /\ ret \in Callers
      /\ sched \in Schedule /\ hist \in History
  BY DEF TypeInv, TypeOK
<1>1. CASE sched_init
  BY <1>1, <1>t DEF sched_init, ZeroStats
<1>2. CASE send_preload
  BY <1>2, <1>t DEF send_preload
<1>3. CASE first_send
  BY <1>3, <1>t DEF first_send
<1>4. CASE send_one
  BY <1>4, <1>t DEF send_one, Schedule, History
<1>5. CASE sendto_ok
  <2>1. /\ flags' = flags /\ ret' = ret /\ g_stop' = g_stop /\ pc = "sendto"
        /\ IF ret = "preload" THEN pc' = "preload" ELSE pc' = "stamp"
    BY <1>5 DEF sendto_ok
  <2>2. hist'.late = IF g_stop THEN hist.late + 1 ELSE hist.late
    BY <1>5, SendCounts
  <2>3. ret = "reply" => flags.bsd_flood
    BY <2>1 DEF FloodInv, Flooding
  <2>4. CASE ret = "due"
    BY <1>t, <2>1, <2>2, <2>4
  <2>5. CASE ret # "due"
    BY <1>t, <2>1, <2>2, <2>3, <2>5
  <2> QED BY <2>4, <2>5
<1>6. CASE sendto_fail
  BY <1>6, <1>t DEF sendto_fail
<1>7. CASE stamp_last_send
  BY <1>7, <1>t DEF stamp_last_send, Schedule
<1>8. CASE loop_once
  BY <1>8, <1>t DEF loop_once
<1>9. CASE poll
  BY <1>9, <1>t DEF poll
<1>10. CASE poll_readable
  BY <1>10, <1>t DEF poll_readable
<1>11. CASE poll_timeout
  BY <1>11, <1>t DEF poll_timeout
<1>12. CASE poll_error
  BY <1>12, <1>t DEF poll_error
<1>13. CASE ping_receive
  BY <1>13, <1>t, ReceiveCounts DEF ping_receive
<1>14. CASE drain_ends
  <2>1. /\ hist' = hist /\ flags' = flags /\ hist.late = 0
        /\ pc' \in {"done", "replies", "due"}
    BY <1>14 DEF drain_ends
  <2> QED BY <1>t, <2>1
<1>15. CASE recv_fail
  BY <1>15, <1>t DEF recv_fail
<1>16. CASE send_per_reply
  BY <1>16, <1>t DEF send_per_reply
<1>17. CASE send_if_due
  BY <1>17, <1>t DEF send_if_due
<1>18. CASE on_sigint
  BY <1>18, <1>t DEF on_sigint
<1>19. CASE Tick
  BY <1>19, <1>t DEF Tick
<1>20. ASSUME NEW p \in net, NetReply(p) PROVE StopInv'
  BY <1>20 DEF NetReply
<1>21. ASSUME NEW p \in net, NetDuplicate(p) PROVE StopInv'
  BY <1>21 DEF NetDuplicate
<1>22. ASSUME NEW w \in StrayWires, StrayArrives(w) PROVE StopInv'
  BY <1>22 DEF StrayArrives
<1>23. CASE UNCHANGED vars
  BY <1>23 DEF vars
<1> QED
  BY <1>1, <1>2, <1>3, <1>4, <1>5, <1>6, <1>7, <1>8, <1>9, <1>10, <1>11,
     <1>12, <1>13, <1>14, <1>15, <1>16, <1>17, <1>18, <1>19, <1>20, <1>21,
     <1>22, <1>23
     DEF Next, Program, Succeeding, Environment

\* ms_until() rounds up: unless it was clamped, the timeout reaches the target.
LEMMA MsUntilReaches ==
  ASSUME NEW target \in Int, NEW now \in Int
  PROVE  \/ ms_until(target, now) = PING_POLL_MAX_MS
         \/ now + ms_until(target, now) * UnitsPerMs >= target
<1> DEFINE d == target - now
<1>1. CASE d < 0
  BY <1>1, TimeAssumption DEF ms_until
<1>2. CASE d > PING_POLL_MAX_MS * UnitsPerMs
  <2>1. PING_POLL_MAX_MS * UnitsPerMs >= 0
    BY TimeAssumption
  <2> QED BY <1>2, <2>1, TimeAssumption DEF ms_until
<1>3. CASE 0 <= d /\ d <= PING_POLL_MAX_MS * UnitsPerMs
  <2>1. Ceil(d) * UnitsPerMs >= d
    BY <1>3, TimeAssumption DEF Ceil
  <2>2. ms_until(target, now) = Ceil(d)
    BY <1>3, TimeAssumption DEF ms_until
  <2>3. Ceil(d) \in Int
    BY <2>2, MsUntilType, TimeAssumption
  <2> QED BY <2>1, <2>2, <2>3, TimeAssumption
<1> QED BY <1>1, <1>2, <1>3, TimeAssumption

\* The instant poll() should wake at is a number.
LEMMA TargetType == TypeInv => Target \in Int
BY TimeAssumption DEF TypeInv, TypeOK, Schedule, Target, fmin

\* Every step keeps SpinInv.
LEMMA SpinStep == TypeInv /\ SpinInv /\ [Next]_vars => SpinInv'
<1> SUFFICES ASSUME TypeInv, SpinInv, [Next]_vars
             PROVE  SpinInv'
  OBVIOUS
<1> USE FieldTypes
        DEF program, locals, network, history, Goto, CallSendOne,
            ping_should_stop, ping_request_stop, SpinInv
<1>t. /\ clock \in Nat /\ i \in Nat /\ before \in Nat /\ replies \in Int
      /\ wait \in Nat /\ wake \in Nat /\ pc \in Labels /\ ret \in Callers
      /\ sched \in Schedule /\ hist \in History
  BY DEF TypeInv, TypeOK
<1>1. CASE sched_init
  BY <1>1, <1>t DEF sched_init, ZeroStats
<1>2. CASE send_preload
  BY <1>2, <1>t DEF send_preload
<1>3. CASE first_send
  BY <1>3, <1>t DEF first_send
<1>4. CASE send_one
  BY <1>4, <1>t DEF send_one, Schedule, History
<1>5. CASE sendto_ok
  BY <1>5, <1>t, SendCounts DEF sendto_ok, Callers
<1>6. CASE sendto_fail
  BY <1>6, <1>t DEF sendto_fail
<1>7. CASE stamp_last_send
  BY <1>7, <1>t DEF stamp_last_send, Schedule
<1>8. CASE loop_once
  <2>1. sched' = sched /\ clock' = clock
    BY <1>8 DEF loop_once
  <2>2. Target' = Target
    BY <2>1 DEF Target, fmin
  <2>3. pc' = "poll" => wait' = ms_until(Target, clock)
    BY <1>8 DEF loop_once
  <2>4. pc' # "blocked"
    BY <1>8 DEF loop_once
  <2> QED BY <1>t, <2>1, <2>2, <2>3, <2>4, MsUntilReaches, TargetType
<1>9. CASE poll
  <2>1. Target' = Target
    BY <1>9 DEF poll, Target, fmin
  <2> QED BY <1>9, <1>t, <2>1 DEF poll
<1>10. CASE poll_readable
  BY <1>10, <1>t DEF poll_readable
<1>11. CASE poll_timeout
  BY <1>11, <1>t DEF poll_timeout
<1>12. CASE poll_error
  BY <1>12, <1>t DEF poll_error
<1>13. CASE ping_receive
  BY <1>13, <1>t, ReceiveCounts DEF ping_receive
<1>14. CASE drain_ends
  BY <1>14, <1>t DEF drain_ends
<1>15. CASE recv_fail
  BY <1>15, <1>t DEF recv_fail
<1>16. CASE send_per_reply
  BY <1>16, <1>t DEF send_per_reply
<1>17. CASE send_if_due
  BY <1>17, <1>t DEF send_if_due
<1>18. CASE on_sigint
  BY <1>18, <1>t DEF on_sigint, Target, fmin
<1>19. CASE Tick
  <2>1. Target' = Target
    BY <1>19 DEF Tick, Target, fmin
  <2>2. wait * UnitsPerMs \in Nat
    BY <1>t, TimeAssumption
  <2> QED BY <1>19, <1>t, <2>1, <2>2, TargetType DEF Tick
<1>20. ASSUME NEW p \in net, NetReply(p) PROVE SpinInv'
  BY <1>20 DEF NetReply, Target, fmin
<1>21. ASSUME NEW p \in net, NetDuplicate(p) PROVE SpinInv'
  BY <1>21 DEF NetDuplicate, Target, fmin
<1>22. ASSUME NEW w \in StrayWires, StrayArrives(w) PROVE SpinInv'
  BY <1>22 DEF StrayArrives, Target, fmin
<1>23. CASE UNCHANGED vars
  BY <1>23 DEF vars, Target, fmin
<1> QED
  BY <1>1, <1>2, <1>3, <1>4, <1>5, <1>6, <1>7, <1>8, <1>9, <1>10, <1>11,
     <1>12, <1>13, <1>14, <1>15, <1>16, <1>17, <1>18, <1>19, <1>20, <1>21,
     <1>22, <1>23
     DEF Next, Program, Succeeding, Environment

\* ExitOnReplyEnds is inductive: only ping_receive() counts a reply, and the
\* drain it is part of ends the run.
LEMMA ExitStep == TypeInv /\ ExitOnReplyEnds /\ [Next]_vars => ExitOnReplyEnds'
<1> SUFFICES ASSUME TypeInv, ExitOnReplyEnds, [Next]_vars
             PROVE  ExitOnReplyEnds'
  OBVIOUS
<1> USE FieldTypes
        DEF program, locals, network, history, Goto, CallSendOne,
            ping_should_stop, ping_request_stop, ExitOnReplyEnds
<1>t. /\ clock \in Nat /\ i \in Nat /\ before \in Nat /\ replies \in Int
      /\ wait \in Nat /\ wake \in Nat /\ pc \in Labels /\ ret \in Callers
      /\ sched \in Schedule /\ hist \in History
  BY DEF TypeInv, TypeOK
<1>1. CASE sched_init
  BY <1>1, <1>t DEF sched_init, ZeroStats
<1>2. CASE send_preload
  BY <1>2, <1>t DEF send_preload
<1>3. CASE first_send
  BY <1>3, <1>t DEF first_send
<1>4. CASE send_one
  BY <1>4, <1>t DEF send_one, Schedule, History
<1>5. CASE sendto_ok
  BY <1>5, <1>t, SendCounts DEF sendto_ok, Callers
<1>6. CASE sendto_fail
  BY <1>6, <1>t DEF sendto_fail
<1>7. CASE stamp_last_send
  BY <1>7, <1>t DEF stamp_last_send, Schedule
<1>8. CASE loop_once
  BY <1>8, <1>t DEF loop_once
<1>9. CASE poll
  BY <1>9, <1>t DEF poll
<1>10. CASE poll_readable
  BY <1>10, <1>t DEF poll_readable
<1>11. CASE poll_timeout
  BY <1>11, <1>t DEF poll_timeout
<1>12. CASE poll_error
  BY <1>12, <1>t DEF poll_error
<1>13. CASE ping_receive
  BY <1>13, <1>t, ReceiveCounts DEF ping_receive
<1>14. CASE drain_ends
  BY <1>14, <1>t DEF drain_ends
<1>15. CASE recv_fail
  BY <1>15, <1>t DEF recv_fail
<1>16. CASE send_per_reply
  BY <1>16, <1>t DEF send_per_reply
<1>17. CASE send_if_due
  BY <1>17, <1>t DEF send_if_due
<1>18. CASE on_sigint
  BY <1>18, <1>t DEF on_sigint
<1>19. CASE Tick
  BY <1>19, <1>t DEF Tick
<1>20. ASSUME NEW p \in net, NetReply(p) PROVE ExitOnReplyEnds'
  BY <1>20 DEF NetReply
<1>21. ASSUME NEW p \in net, NetDuplicate(p) PROVE ExitOnReplyEnds'
  BY <1>21 DEF NetDuplicate
<1>22. ASSUME NEW w \in StrayWires, StrayArrives(w) PROVE ExitOnReplyEnds'
  BY <1>22 DEF StrayArrives
<1>23. CASE UNCHANGED vars
  BY <1>23 DEF vars
<1> QED
  BY <1>1, <1>2, <1>3, <1>4, <1>5, <1>6, <1>7, <1>8, <1>9, <1>10, <1>11,
     <1>12, <1>13, <1>14, <1>15, <1>16, <1>17, <1>18, <1>19, <1>20, <1>21,
     <1>22, <1>23
     DEF Next, Program, Succeeding, Environment

\* Every strengthening holds when ping_run() is entered.
LEMMA InitInv ==
  Init => /\ FloodInv /\ CountInv /\ TimerInv /\ PacedInv
          /\ SentInv /\ FailInv /\ StopInv /\ SpinInv
BY LoopAssumption, TimeAssumption
   DEF Init, FloodInv, CountInv, TimerInv, PacedInv, SentInv, FailInv, StopInv,
       SpinInv, Sending, Flooding, Early, Stamped, Burst, Callers, ZeroStats,
       Flags
-----------------------------------------------------------------------------
(* The theorems.                                                           *)

\* --bsd-flood cannot run away (send_per_reply()): over the whole run it never
\* sends more probes than replies were counted, whatever the network duplicates
\* and whatever interrupts a burst; without the option it sends none.
THEOREM FloodBounded == Spec => []OnePerReply
<1>1. Spec => [](TypeInv /\ FloodInv)
  BY TypeInit, TypeStep, InitInv, FloodStep, PTL DEF Spec
<1>2. TypeInv /\ FloodInv => OnePerReply
  BY FieldTypes DEF FloodInv, OnePerReply
<1> QED BY <1>1, <1>2, PTL

\* The sending rate is bounded by the interval (send_if_due()), for every
\* interval, deadline, preload and ring size and any sequence of wakeups,
\* signals and arrivals.
THEOREM RateIsBounded == Spec => []RateBounded
<1>1. Spec => [](TypeInv /\ FloodInv /\ CountInv /\ TimerInv)
  BY TypeInit, TypeStep, InitInv, FloodStep, CountStep, TimerStep, PTL DEF Spec
<1>2. TypeInv /\ FloodInv /\ CountInv /\ TimerInv => RateBounded
  <2> SUFFICES ASSUME TypeInv, FloodInv, CountInv, TimerInv
               PROVE  RateBounded
    OBVIOUS
  <2>1. clock \in Int /\ hist.t0 \in Int /\ sched.interval \in Nat
    <3>1. clock \in Nat
      BY DEF TypeInv, TypeOK
    <3> QED BY <3>1, FieldTypes
  <2>2. Burst \in Nat /\ by["preload"] <= Burst
    <3>1. i \in Nat /\ by["preload"] <= i /\ i <= Burst
      BY DEF CountInv, TypeInv, TypeOK
    <3>2. Burst \in Nat
      BY FieldTypes DEF Burst
    <3> QED BY <3>1, <3>2, FieldTypes
  <2>3. TimerSends \in Int /\ TimerSends <= by["due"]
    <3>1. CASE flags.bsd_flood
      BY <2>2, <3>1, FieldTypes DEF TimerSends, FloodInv, CountInv
    <3>2. CASE ~flags.bsd_flood
      BY <2>2, <3>2, FieldTypes DEF TimerSends, FloodInv, CountInv
    <3> QED BY <3>1, <3>2
  <2>4. TimerSends * sched.interval <= by["due"] * sched.interval
    BY <2>1, <2>3, FieldTypes, ProductMonotone
  <2> DEFINE paced == TimerSends * sched.interval
             due == by["due"] * sched.interval
  <2>5. paced \in Int /\ due \in Int
    BY <2>1, <2>3, FieldTypes
  <2>6. hist.t0 + due <= clock
    BY DEF TimerInv
  <2>7. paced <= due
    BY <2>4
  <2> HIDE DEF paced, due
  <2>8. paced <= clock - hist.t0
    BY <2>1, <2>5, <2>6, <2>7
  <2> QED BY <2>8 DEF RateBounded, paced
<1> QED BY <1>1, <1>2, PTL

\* A timer-driven probe leaves at least one interval after the transmission
\* before it, however long sendto() took (send_if_due(), send_per_reply(),
\* ping_run() stamp last_send after the call).
THEOREM TimerSendsAreApart == Spec => PacedApart
<1>1. Spec => [](TypeInv /\ PacedInv)
  BY TypeInit, TypeStep, InitInv, PacedStep, PTL DEF Spec
<1>2. TypeInv /\ PacedInv =>
        (pc = "sendto" /\ ret = "due" /\ stats'.n_sent # stats.n_sent
           => clock >= hist.tx + sched.interval)
  BY FieldTypes DEF PacedInv, Sending, TypeInv, TypeOK
<1> QED BY <1>1, <1>2, PTL DEF PacedApart

\* Inside the loop something was transmitted and last_send dates from after it
\* (ping_run()'s comment on the first paced packet).
THEOREM LoopNeverEmpty == Spec => []LoopHasSent
<1>1. Spec => [](TypeInv /\ PacedInv /\ SentInv)
  BY TypeInit, TypeStep, InitInv, PacedStep, SentStep, PTL DEF Spec
<1>2. TypeInv /\ PacedInv /\ SentInv => LoopHasSent
  BY FieldTypes DEF PacedInv, SentInv, Stamped, LoopHasSent
<1> QED BY <1>1, <1>2, PTL

\* A failed sendto() is followed by no other probe.
THEOREM FailureEndsRun == Spec => []FailureIsFinal
<1>1. Spec => [](TypeInv /\ FailInv)
  BY TypeInit, TypeStep, InitInv, FailStep, PTL DEF Spec
<1>2. TypeInv /\ FailInv => FailureIsFinal
  BY FieldTypes DEF FailInv, FailureIsFinal
<1> QED BY <1>1, <1>2, PTL

\* After a stop request at most one more probe is sent, two with --bsd-flood,
\* wherever in the session the request arrives.
THEOREM FewSendsAfterStop == Spec => []StopBoundsSends
<1>1. Spec => [](TypeInv /\ FloodInv /\ StopInv)
  BY TypeInit, TypeStep, InitInv, FloodStep, StopStep, PTL DEF Spec
<1>2. TypeInv /\ StopInv => StopBoundsSends
  BY FieldTypes DEF StopInv, StopBoundsSends
<1> QED BY <1>1, <1>2, PTL

\* poll() never times out with its target still to come, unless it was clamped
\* (ms_until() rounds up), for every resolution of the clock.
THEOREM PollNeverSpins == Spec => []NoSpin
<1>1. Spec => [](TypeInv /\ SpinInv)
  BY TypeInit, TypeStep, InitInv, SpinStep, PTL DEF Spec
<1>2. TypeInv /\ SpinInv => NoSpin
  BY TargetType DEF SpinInv, NoSpin, TimedOut, TypeInv, TypeOK
<1> QED BY <1>1, <1>2, PTL

\* Once -o has its reply the session sends nothing more and goes back to
\* poll() no more (loop_once()).
THEOREM OneReplyEndsRun == Spec => []ExitOnReplyEnds
<1>1. Init => ExitOnReplyEnds
  BY DEF Init, ExitOnReplyEnds, ZeroStats
<1> QED BY <1>1, TypeInit, TypeStep, ExitStep, PTL DEF Spec
=============================================================================
