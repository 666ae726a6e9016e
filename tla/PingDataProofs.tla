--------------------------- MODULE PingDataProofs ---------------------------
(***************************************************************************)
(* What TLAPS proves of the data a session keeps: the running totals, the  *)
(* counters against what the network did, and the ring of timestamps.      *)
(***************************************************************************)
EXTENDS PingLoopProofs, ArithmeticLemmas, FunctionTheorems, FiniteSetTheorems,
        SequenceTheorems

-----------------------------------------------------------------------------
(* The running totals.                                                     *)

\* Nothing was accumulated before the first reply.
Untouched(s) == s.n_recv = 0 => s.sum = 0 /\ s.sum_sq = 0

\* One more sample r after n samples of sum S and sum of squares Q with
\* S^2 <= n Q: the cross term 2 S r is at most n r^2 + Q, because n times the
\* difference is at least (n r - S)^2.
LEMMA CrossTerm ==
  ASSUME NEW n \in Nat \ {0}, NEW S \in Nat, NEW Q \in Nat, NEW r \in Nat,
         S * S <= n * Q
  PROVE  2 * (S * r) <= n * (r * r) + Q
<1> DEFINE d == n * r - S
           x == n * (r * r) + Q - 2 * (S * r)
<1>1. d \in Int /\ x \in Int
  OBVIOUS
<1>2. d * d >= 0
  <2> HIDE DEF d
  <2> QED BY <1>1
<1>3. n * x = d * d + (n * Q - S * S)
  OBVIOUS
<1>4. n * Q - S * S >= 0
  OBVIOUS
<1>5. n * x >= 0
  <2> HIDE DEF x, d
  <2>1. n * Q \in Int /\ S * S \in Int /\ d * d \in Int /\ n * x \in Int
    BY <1>1
  <2> QED BY <1>2, <1>3, <1>4, <2>1
<1>6. x >= 0
  <2> HIDE DEF x
  <2>1. SUFFICES ASSUME x <= -1 PROVE FALSE
    BY <1>1
  <2>2. n * x <= -n
    BY <1>1, <2>1
  <2> QED BY <1>1, <1>5, <2>2
<1>7. n * (r * r) \in Int /\ S * r \in Int
  OBVIOUS
<1> QED BY <1>6, <1>7

\* record_rtt() keeps the totals those of real samples.
LEMMA RecordCoherent ==
  ASSUME NEW s \in Stats, NEW r \in Nat, Coherent(s), Untouched(s)
  PROVE  Coherent(record_rtt(s, r)) /\ Untouched(record_rtt(s, r))
<1> DEFINE n == s.n_recv
           lo == s.rtt_min
           hi == s.rtt_max
           t == record_rtt(s, r)
<1>1. /\ n \in Nat /\ lo \in Nat /\ hi \in Nat
      /\ s.sum \in Nat /\ s.sum_sq \in Nat
  BY DEF Stats
<1>2. /\ t.n_recv = n + 1 /\ t.sum = s.sum + r
      /\ t.sum_sq = s.sum_sq + r * r
      /\ t.rtt_min = (IF n = 0 \/ r < lo THEN r ELSE lo)
      /\ t.rtt_max = (IF n = 0 \/ r > hi THEN r ELSE hi)
  BY DEF record_rtt
<1>3. Untouched(t)
  BY <1>1, <1>2 DEF Untouched
<1>4. CASE n = 0
  <2>1. s.sum = 0 /\ s.sum_sq = 0
    BY <1>4 DEF Untouched
  <2>2. /\ t.n_recv = 1 /\ t.sum = r /\ t.sum_sq = r * r
        /\ t.rtt_min = r /\ t.rtt_max = r
    BY <1>2, <1>4, <2>1
  <2> HIDE DEF t
  <2>3. 0 * r = 0 /\ 1 * (r * r) = r * r
    OBVIOUS
  <2> QED BY <1>3, <2>2, <2>3 DEF Coherent, t
<1>5. CASE n > 0
  <2> DEFINE a == (n - 1) * lo
             b == (n - 1) * hi
  <2>1. lo <= hi /\ a + hi <= s.sum /\ s.sum <= lo + b
    BY <1>1, <1>5 DEF Coherent
  <2>2. s.sum * s.sum <= n * s.sum_sq
    BY <1>1, <1>5 DEF Coherent
  <2>3. n * lo = a + lo /\ n * hi = b + hi /\ a \in Nat /\ b \in Nat
    BY <1>1, <1>5
  <2>4. /\ t.rtt_min <= t.rtt_max
        /\ n * t.rtt_min + t.rtt_max <= s.sum + r
        /\ s.sum + r <= t.rtt_min + n * t.rtt_max
    <3>1. CASE r < lo
      <4>1. t.rtt_min = r /\ t.rtt_max = hi
        BY <1>1, <1>2, <1>5, <2>1, <3>1
      <4>2. (n - 1) * r <= a /\ n * r = (n - 1) * r + r
        BY <1>1, <1>5, <3>1
      <4>3. (n - 1) * r \in Nat
        BY <1>1, <1>5
      <4> HIDE DEF a, b, t
      <4> QED BY <1>1, <2>1, <2>3, <3>1, <4>1, <4>2, <4>3
    <3>2. CASE lo <= r /\ r <= hi
      <4>1. t.rtt_min = lo /\ t.rtt_max = hi
        BY <1>1, <1>2, <1>5, <3>2
      <4> HIDE DEF a, b, t
      <4> QED BY <1>1, <2>1, <2>3, <3>2, <4>1
    <3>3. CASE r > hi
      <4>1. t.rtt_min = lo /\ t.rtt_max = r
        BY <1>1, <1>2, <1>5, <2>1, <3>3
      <4>2. b <= (n - 1) * r /\ n * r = (n - 1) * r + r
        BY <1>1, <1>5, <3>3
      <4>3. (n - 1) * r \in Nat
        BY <1>1, <1>5
      <4> HIDE DEF a, b, t
      <4> QED BY <1>1, <2>1, <2>3, <3>3, <4>1, <4>2, <4>3
    <3> QED BY <1>1, <3>1, <3>2, <3>3
  <2>5. t.sum * t.sum <= (n + 1) * t.sum_sq
    <3> DEFINE S == s.sum
               Q == s.sum_sq
    <3>1. 2 * (S * r) <= n * (r * r) + Q
      BY <1>1, <1>5, <2>2, CrossTerm
    <3>2. (S + r) * (S + r) = S * S + 2 * (S * r) + r * r
      BY <1>1
    <3>3. (n + 1) * (Q + r * r) = n * Q + n * (r * r) + Q + r * r
      BY <1>1
    <3>4. /\ S * S \in Nat /\ S * r \in Nat /\ r * r \in Nat /\ n * Q \in Nat
          /\ n * (r * r) \in Nat
      BY <1>1
    <3>5. (S + r) * (S + r) <= (n + 1) * (Q + r * r)
      BY <1>1, <2>2, <3>1, <3>2, <3>3, <3>4
    <3> QED BY <1>2, <3>5
  <2>6. (t.n_recv - 1) * t.rtt_min = n * t.rtt_min
        /\ (t.n_recv - 1) * t.rtt_max = n * t.rtt_max
    BY <1>1, <1>2
  <2>7. t.n_recv = n + 1 /\ t.sum = s.sum + r
    BY <1>2
  <2> HIDE DEF t
  <2>8. Coherent(t)
    BY <2>4, <2>5, <2>6, <2>7 DEF Coherent
  <2> QED BY <1>3, <2>8 DEF t
<1> QED BY <1>1, <1>4, <1>5
-----------------------------------------------------------------------------
(* The steps that touch the data.                                          *)

\* All the others: the schedule's instants, the program's locals, the clock
\* and the stop flag may change, and EINTR may be used up.
DataKept ==
  /\ UNCHANGED <<flags, send_ts, pkt, stats, net, queue, hist>>
  /\ sched'.seq = sched.seq
  /\ budget'.reply = budget.reply /\ budget'.dup = budget.dup
  /\ budget'.twin = budget.twin
  /\ pc' = "start" => pc = "start"
  /\ pc' = "sendto" => pc = "sendto"

NetworkStep ==
  \/ \E p \in net : NetReply(p) \/ NetDuplicate(p)
  \/ \E w \in StrayWires : StrayArrives(w)

\* Five kinds of step touch the data of a session.
LEMMA Footprint ==
  ASSUME TypeInv, [Next]_vars
  PROVE  \/ sched_init \/ send_one \/ sendto_ok \/ ping_receive
         \/ NetworkStep \/ DataKept
<1> USE DEF program, locals, network, history, Goto, CallSendOne,
            ping_should_stop, ping_request_stop
<1>1. CASE send_preload
  BY <1>1 DEF send_preload, DataKept
<1>2. CASE first_send
  BY <1>2 DEF first_send, DataKept
<1>3. CASE sendto_fail
  BY <1>3 DEF sendto_fail, DataKept
<1>4. CASE stamp_last_send
  <2>1. sched'.seq = sched.seq
    BY <1>4 DEF stamp_last_send, TypeInv, TypeOK, Schedule
  <2> QED BY <1>4, <2>1 DEF stamp_last_send, DataKept
<1>5. CASE loop_once
  BY <1>5 DEF loop_once, DataKept
<1>6. CASE poll
  BY <1>6 DEF poll, DataKept
<1>7. CASE poll_readable
  BY <1>7 DEF poll_readable, DataKept
<1>8. CASE poll_timeout
  BY <1>8 DEF poll_timeout, DataKept
<1>9. CASE poll_error
  <2>1. /\ budget'.reply = budget.reply /\ budget'.dup = budget.dup
        /\ budget'.twin = budget.twin
    BY <1>9 DEF poll_error, TypeInv, TypeOK, Budgets
  <2> QED BY <1>9, <2>1 DEF poll_error, DataKept
<1>10. CASE drain_ends
  <2>1. /\ budget'.reply = budget.reply /\ budget'.dup = budget.dup
        /\ budget'.twin = budget.twin
    BY <1>10 DEF drain_ends, TypeInv, TypeOK, Budgets
  <2> QED BY <1>10, <2>1 DEF drain_ends, DataKept
<1>11. CASE recv_fail
  BY <1>11 DEF recv_fail, DataKept
<1>12. CASE send_per_reply
  BY <1>12 DEF send_per_reply, DataKept
<1>13. CASE send_if_due
  BY <1>13 DEF send_if_due, DataKept
<1>14. CASE on_sigint
  BY <1>14 DEF on_sigint, DataKept
<1>15. CASE Tick
  BY <1>15 DEF Tick, DataKept
<1>16. CASE UNCHANGED vars
  BY <1>16 DEF vars, DataKept
<1> QED BY <1>1, <1>2, <1>3, <1>4, <1>5, <1>6, <1>7, <1>8, <1>9, <1>10, <1>11,
           <1>12, <1>13, <1>14, <1>15, <1>16
        DEF Next, Program, Succeeding, Environment, NetworkStep

\* The datagram ping_receive() takes, and the sample it may make of it.
LEMMA ReceivedSample ==
  ASSUME TypeInv, ping_receive
  PROVE  \/ stats' = stats
         \/ \E r \in Nat : stats' = record_rtt(stats, r)
<1> DEFINE k == Head(queue).wire.sequence % PING_TS_RING
<1>1. k \in 0 .. PING_TS_RING - 1
  <2>1. Head(queue) \in Packet
    BY HeadTailProperties DEF TypeInv, TypeOK, ping_receive
  <2>2. Head(queue).wire.sequence \in Nat
    BY <2>1 DEF Packet, Wire
  <2> QED BY <2>2, LoopAssumption
<1>2. clock \in Nat /\ send_ts[k] \in Nat /\ send_ts[k] <= clock
  BY <1>1 DEF TypeInv, TypeOK, TimestampsInPast
<1>3. elapsed_ms(send_ts[k], clock) \in Nat
  BY <1>2 DEF elapsed_ms
<1>4. stats' = stats \/ stats' = record_rtt(stats, elapsed_ms(send_ts[k], clock))
  BY DEF ping_receive
<1> QED BY <1>3, <1>4

-----------------------------------------------------------------------------
(* StatsCoherent.                                                          *)

StatsInv == Coherent(stats) /\ Untouched(stats)

\* Every step keeps StatsInv: only ping_receive() adds a sample.
LEMMA StatsStep == TypeInv /\ StatsInv /\ [Next]_vars => StatsInv'
<1> SUFFICES ASSUME TypeInv, StatsInv, [Next]_vars PROVE StatsInv'
  OBVIOUS
<1>stats. stats \in Stats
  BY DEF TypeInv, TypeOK
<1>1. CASE sched_init
  BY <1>1 DEF sched_init, ZeroStats, StatsInv, Coherent, Untouched
<1>2. CASE stats' = stats
  BY <1>2 DEF StatsInv
<1>3. CASE sendto_ok
  <2>1. /\ stats'.n_recv = stats.n_recv /\ stats'.sum = stats.sum
        /\ stats'.sum_sq = stats.sum_sq /\ stats'.rtt_min = stats.rtt_min
        /\ stats'.rtt_max = stats.rtt_max
    BY <1>3, <1>stats DEF sendto_ok, Stats
  <2> QED BY <2>1 DEF StatsInv, Coherent, Untouched
<1>4. CASE ping_receive
  <2>1. CASE stats' = stats
    BY <1>2, <2>1
  <2>2. ASSUME NEW r \in Nat, stats' = record_rtt(stats, r) PROVE StatsInv'
    <3>1. Coherent(record_rtt(stats, r)) /\ Untouched(record_rtt(stats, r))
      BY <1>stats, RecordCoherent DEF StatsInv
    <3> QED BY <2>2, <3>1 DEF StatsInv
  <2> QED BY <1>4, <2>1, <2>2, ReceivedSample
<1>5. CASE send_one
  BY <1>2, <1>5 DEF send_one
<1>6. CASE NetworkStep
  BY <1>2, <1>6 DEF NetworkStep, NetReply, NetDuplicate, StrayArrives, program
<1>7. CASE DataKept
  BY <1>2, <1>7 DEF DataKept
<1> QED BY <1>1, <1>3, <1>4, <1>5, <1>6, <1>7, Footprint

\* Whatever arrives, in whatever order, the totals print_stats() computes the
\* mean and the deviation from are those of real samples: the extremes bound
\* the sum from both sides and, in exact arithmetic, the variance is not
\* negative (what rounding leaves below 0 print_stats() clamps).
THEOREM TotalsCoherent == Spec => []StatsCoherent
<1>1. Init => StatsInv
  BY DEF Init, StatsInv, Coherent, Untouched, ZeroStats
<1>2. StatsInv => StatsCoherent
  BY DEF StatsInv, StatsCoherent
<1> QED BY TypeInit, TypeStep, StatsStep, <1>1, <1>2, PTL DEF Spec

-----------------------------------------------------------------------------
(* CountsExplained.                                                        *)

\* How many elements of the sequence q belong to S.
Count(q, S) == Cardinality({k \in 1 .. Len(q) : q[k] \in S})

\* A sequence has finitely many elements of a kind.
LEMMA CountType ==
  ASSUME NEW T, NEW q \in Seq(T), NEW S
  PROVE  /\ IsFiniteSet({k \in 1 .. Len(q) : q[k] \in S})
         /\ Count(q, S) \in Nat
<1>1. IsFiniteSet(1 .. Len(q))
  <2>1. Len(q) \in Int /\ 1 \in Int
    OBVIOUS
  <2> QED BY <2>1, FS_Interval
<1>2. IsFiniteSet({k \in 1 .. Len(q) : q[k] \in S})
  <2>1. {k \in 1 .. Len(q) : q[k] \in S} \subseteq 1 .. Len(q)
    OBVIOUS
  <2> QED BY <1>1, <2>1, FS_Subset
<1> QED BY <1>2, FS_CardinalityType DEF Count

\* An element that joins the sequence counts if it is of the kind.
LEMMA CountAppend ==
  ASSUME NEW T, NEW q \in Seq(T), NEW e \in T, NEW S
  PROVE  Count(Append(q, e), S) = Count(q, S) + (IF e \in S THEN 1 ELSE 0)
<1> DEFINE I == {k \in 1 .. Len(q) : q[k] \in S}
           J == {k \in 1 .. Len(Append(q, e)) : Append(q, e)[k] \in S}
<1>1. IsFiniteSet(I) /\ Cardinality(I) \in Nat
  BY CountType DEF Count
<1>2. Len(q) \in Nat /\ Len(Append(q, e)) = Len(q) + 1
  OBVIOUS
<1>3. /\ \A k \in 1 .. Len(q) : Append(q, e)[k] = q[k]
      /\ Append(q, e)[Len(q) + 1] = e
  OBVIOUS
<1>4. CASE e \in S
  <2>1. J = I \cup {Len(q) + 1} /\ Len(q) + 1 \notin I
    BY <1>2, <1>3, <1>4
  <2> HIDE DEF I, J
  <2>2. Cardinality(J) = Cardinality(I) + 1
    BY <1>1, <2>1, FS_AddElement
  <2> QED BY <1>4, <2>2 DEF Count, I, J
<1>5. CASE e \notin S
  <2>1. J = I
    BY <1>2, <1>3, <1>5
  <2> HIDE DEF I, J
  <2>2. Cardinality(J) = Cardinality(I) + 0
    BY <1>1, <2>1
  <2> QED BY <1>5, <2>2 DEF Count, I, J
<1> QED BY <1>4, <1>5

\* The element that leaves the sequence counted if it was of the kind.
LEMMA CountTail ==
  ASSUME NEW T, NEW q \in Seq(T), q # <<>>, NEW S
  PROVE  Count(q, S) = Count(Tail(q), S) + (IF Head(q) \in S THEN 1 ELSE 0)
<1> DEFINE I == {k \in 1 .. Len(q) : q[k] \in S}
           J == {k \in 1 .. Len(Tail(q)) : Tail(q)[k] \in S}
           K == I \ {1}
           f == [k \in J |-> k + 1]
<1>1. /\ Tail(q) \in Seq(T) /\ Len(Tail(q)) = Len(q) - 1
      /\ \A k \in 1 .. Len(Tail(q)) : Tail(q)[k] = q[k + 1]
      /\ Len(q) \in Nat \ {0} /\ Head(q) = q[1]
  BY HeadTailProperties
<1>2. /\ IsFiniteSet(I) /\ Cardinality(I) \in Nat
      /\ IsFiniteSet(J) /\ Cardinality(J) \in Nat
  BY <1>1, CountType DEF Count
<1>3. f \in Bijection(J, K)
  <2>1. ASSUME NEW k \in J PROVE k + 1 \in K
    BY <1>1
  <2>2. f \in [J -> K]
    BY <2>1
  <2>3. \A a, b \in J : f[a] = f[b] => a = b
    OBVIOUS
  <2>4. ASSUME NEW m \in K PROVE \E k \in J : f[k] = m
    <3>1. m \in 1 .. Len(q) /\ m # 1 /\ q[m] \in S /\ m - 1 \in 1 .. Len(Tail(q))
      BY <1>1
    <3>2. m - 1 \in J
      <4>1. Tail(q)[m - 1] = q[(m - 1) + 1] /\ (m - 1) + 1 = m
        BY <1>1, <3>1
      <4> QED BY <3>1, <4>1
    <3>3. f[m - 1] = m
      BY <3>1, <3>2
    <3> QED BY <3>2, <3>3
  <2> HIDE DEF f, J, K
  <2> QED BY <2>2, <2>3, <2>4, Fun_IsBij
<1>4. Cardinality(K) = Cardinality(J)
  <2> HIDE DEF f, J, K
  <2>1. ExistsBijection(J, K)
    BY <1>3, Fun_ExistsBij
  <2> QED BY <1>2, <2>1, FS_Bijection
<1>5. CASE Head(q) \in S
  <2>1. 1 \in I
    BY <1>1, <1>5
  <2>2. Cardinality(K) = Cardinality(I) - 1
    <3> HIDE DEF I
    <3> QED BY <1>2, <2>1, FS_RemoveElement
  <2> HIDE DEF I, J, K
  <2>3. Cardinality(I) = Cardinality(J) + 1
    BY <1>2, <1>4, <2>2
  <2> QED BY <1>5, <2>3 DEF Count, I, J
<1>6. CASE Head(q) \notin S
  <2>1. K = I
    BY <1>1, <1>6
  <2> HIDE DEF I, J, K
  <2>2. Cardinality(I) = Cardinality(J) + 0
    BY <1>2, <1>4, <2>1
  <2> QED BY <1>6, <2>2 DEF Count, I, J
<1> QED BY <1>5, <1>6

\* Queued packets that answer a probe, and those that look as if they did.
Genuine == {e \in Packet : e.n >= 0}
Lookalike == {e \in Packet : Imitates(e.wire)}

\* The filters of ping_receive(): only an echo reply with our id is counted.
LEMMA CountedImitates ==
  ASSUME NEW w \in Wire, NEW f \in Flags, Verdict(w, f) = "reply"
  PROVE  Imitates(w)
BY DEF Verdict, Imitates

\* The far host's answer passes every filter: recvbuf holds all of it.
LEMMA AnswerCounts ==
  ASSUME NEW f \in Flags, NEW s \in Nat
  PROVE  Imitates(EchoReply(s, f)) /\ Verdict(EchoReply(s, f), f) = "reply"
<1> DEFINE w == EchoReply(s, f)
<1>1. payload_len(f) \in Nat
  BY DEF payload_len, Flags, PING_PAYLOAD_SIZE
<1>2. /\ w.len = 28 + payload_len(f) /\ w.ip_hl = 5 /\ w.type = 0
      /\ w.code = 0 /\ w.intact = TRUE /\ w.id = MyId
  BY <1>1 DEF EchoReply, IP_HDR, ICMP_HDR
<1> HIDE DEF w
<1>3. recvfrom(w, f) = w.len
  BY <1>1, <1>2
     DEF recvfrom, recvbuf_len, PING_RECVBUF_MIN, PING_RECVBUF_SLACK
<1>4. locate_icmp(w, w.len) = 20
  BY <1>1, <1>2 DEF locate_icmp, IP_HDR, ICMP_HDR
<1>5. checksum_ok(w, 20, w.len)
  BY <1>2 DEF checksum_ok
<1>6. Verdict(w, f) = "reply"
  BY <1>2, <1>3, <1>4, <1>5 DEF Verdict
<1> QED BY <1>2, <1>6 DEF Imitates, w

\* What one datagram adds to n_recv.
LEMMA ReceiveExact ==
  ASSUME TypeInv, ping_receive
  PROVE  stats'.n_recv =
           stats.n_recv + (IF Verdict(Head(queue).wire, flags) = "reply"
                           THEN 1 ELSE 0)
<1>1. stats \in Stats /\ stats.n_recv \in Nat
  BY DEF TypeInv, TypeOK, Stats
<1>2. CASE Verdict(Head(queue).wire, flags) = "reply"
  BY <1>1, <1>2 DEF ping_receive, record_rtt
<1>3. CASE Verdict(Head(queue).wire, flags) # "reply"
  BY <1>1, <1>3 DEF ping_receive
<1> QED BY <1>2, <1>3

\* An arrival adds the same to both sides of a balance: n counted, g answers
\* and h lookalikes queued, a answers and t twins arrived.
LEMMA BalanceKept ==
  ASSUME NEW n \in Int, NEW g \in Int, NEW h \in Int, NEW a \in Int,
         NEW t \in Int, NEW x \in Int, NEW y \in Int, a <= n + g, n + h <= a + t
  PROVE  a + x <= n + (g + x) /\ n + (h + y) <= a + t + y
OBVIOUS

\* What the balance says of n counted: d duplicates and r first answers make
\* up the a answers, c probes of the s sent are still out.
LEMMA BalanceBounds ==
  ASSUME NEW n \in Nat, NEW g \in Nat, NEW h \in Nat, NEW a \in Int,
         NEW t \in Int, NEW r \in Int, NEW d \in Int, NEW c \in Nat,
         NEW s \in Nat, a <= n + g, n + h <= a + t, g <= h, r + c <= s,
         a = r + d
  PROVE  n \in a - g .. a - g + t /\ n <= s + d + t
OBVIOUS

Replied == Budget.reply - budget.reply
Twins   == Budget.twin - budget.twin

\* Probes answered were sent; every answer that arrived is queued or counted;
\* what is counted or queued and looks like an answer is one or is a twin; and
\* a queued answer will pass the filters.
SupplyInv ==
  /\ IsFiniteSet(net)
  /\ pc = "start" => stats.n_recv = 0 /\ stats.n_sent = 0
  /\ Replied + Cardinality(net) <= stats.n_sent
  /\ Answered <= stats.n_recv + Count(queue, Genuine)
  /\ stats.n_recv + Count(queue, Lookalike) <= Answered + Twins
  /\ \A k \in 1 .. Len(queue) :
       queue[k] \in Genuine =>
         Imitates(queue[k].wire) /\ Verdict(queue[k].wire, flags) = "reply"

\* Every step keeps SupplyInv: a datagram is counted only when it leaves the
\* queue, and enters it only from the wire, as a copy or as a stray.
LEMMA SupplyStep == TypeInv /\ SupplyInv /\ [Next]_vars => SupplyInv'
<1> SUFFICES ASSUME TypeInv, SupplyInv, [Next]_vars PROVE SupplyInv'
  OBVIOUS
<1> USE DEF program, locals, network, history, Goto
<1> DEFINE G == Count(queue, Genuine)
           H == Count(queue, Lookalike)
<1>types. /\ stats \in Stats /\ stats.n_recv \in Nat /\ stats.n_sent \in Nat
          /\ queue \in Seq(Packet) /\ Len(queue) \in Nat
          /\ net \subseteq Probe /\ flags \in Flags
  BY DEF TypeInv, TypeOK, Stats
<1>budget. /\ budget \in Budgets /\ Budget \in Budgets
           /\ budget.reply \in Nat /\ budget.dup \in Nat /\ budget.twin \in Nat
           /\ Budget.reply \in Nat /\ Budget.dup \in Nat /\ Budget.twin \in Nat
  BY LoopAssumption DEF TypeInv, TypeOK, Budgets
<1>card. IsFiniteSet(net) /\ Cardinality(net) \in Nat
  BY FS_CardinalityType DEF SupplyInv
<1>count. G \in Nat /\ H \in Nat
  BY <1>types, CountType
<1>ints. Replied \in Int /\ Twins \in Int /\ Answered \in Int
  BY <1>budget DEF Replied, Twins, Answered
<1>inv. /\ Replied + Cardinality(net) <= stats.n_sent
        /\ Answered <= stats.n_recv + G
        /\ stats.n_recv + H <= Answered + Twins
  BY DEF SupplyInv
<1>kept. ASSUME UNCHANGED <<net, queue, flags>>,
                budget'.reply = budget.reply, budget'.dup = budget.dup,
                budget'.twin = budget.twin,
                pc' = "start" => pc = "start",
                stats'.n_recv = stats.n_recv, stats'.n_sent = stats.n_sent
         PROVE  SupplyInv'
  BY <1>kept DEF SupplyInv, Replied, Twins, Answered, Count
<1>1. CASE sched_init
  <2>1. stats'.n_recv = stats.n_recv /\ stats'.n_sent = stats.n_sent
    BY <1>1 DEF sched_init, SupplyInv, ZeroStats
  <2> QED BY <1>1, <1>kept, <2>1 DEF sched_init
<1>2. CASE send_one
  BY <1>2, <1>kept DEF send_one
<1>3. CASE sendto_ok
  <2>1. stats'.n_recv = stats.n_recv /\ stats'.n_sent = stats.n_sent + 1
    BY <1>3, <1>types DEF sendto_ok, Stats
  <2>2. /\ IsFiniteSet(net \cup {pkt})
        /\ Cardinality(net \cup {pkt}) <= Cardinality(net) + 1
        /\ Cardinality(net \cup {pkt}) \in Nat
    <3>1. /\ IsFiniteSet(net \cup {pkt})
          /\ Cardinality(net \cup {pkt}) =
               IF pkt \in net THEN Cardinality(net) ELSE Cardinality(net) + 1
      BY <1>card, FS_AddElement
    <3> QED BY <1>card, <3>1
  <2>3. /\ net' = net \cup {pkt} /\ UNCHANGED <<queue, budget, flags>>
        /\ pc' # "start"
    BY <1>3 DEF sendto_ok
  <2>4. Replied' = Replied /\ Twins' = Twins /\ Answered' = Answered
    BY <2>3 DEF Replied, Twins, Answered
  <2>5. Replied' + Cardinality(net') <= stats'.n_sent
    BY <1>types, <1>card, <1>ints, <1>inv, <2>1, <2>2, <2>3, <2>4
  <2> QED BY <2>1, <2>2, <2>3, <2>4, <2>5 DEF SupplyInv, Count
<1>4. CASE ping_receive
  <2> DEFINE h == Head(queue)
             G2 == Count(Tail(queue), Genuine)
             H2 == Count(Tail(queue), Lookalike)
  <2>1. queue # <<>> /\ queue' = Tail(queue)
        /\ UNCHANGED <<net, budget, flags>> /\ pc' # "start"
    BY <1>4 DEF ping_receive
  <2>2. /\ h \in Packet /\ h = queue[1] /\ Tail(queue) \in Seq(Packet)
        /\ Len(queue') = Len(queue) - 1 /\ Len(queue) > 0
        /\ \A k \in 1 .. Len(queue') : queue'[k] = queue[k + 1]
    BY <1>types, <2>1, HeadTailProperties
  <2>3. G2 \in Nat /\ H2 \in Nat
    BY <2>2, CountType
  <2>4. /\ G = G2 + (IF h \in Genuine THEN 1 ELSE 0)
        /\ H = H2 + (IF h \in Lookalike THEN 1 ELSE 0)
    BY <1>types, <2>1, CountTail
  <2>5. h \in Genuine =>
          h \in Lookalike /\ Verdict(h.wire, flags) = "reply"
    BY <1>types, <2>2 DEF SupplyInv, Lookalike
  <2>6. Verdict(h.wire, flags) = "reply" => h \in Lookalike
    <3>1. h.wire \in Wire
      BY <2>2 DEF Packet
    <3> QED BY <1>types, <2>2, <3>1, CountedImitates DEF Lookalike
  <2>7. stats'.n_recv =
          stats.n_recv + (IF Verdict(h.wire, flags) = "reply" THEN 1 ELSE 0)
    BY <1>4, ReceiveExact
  <2>8. stats'.n_sent = stats.n_sent
    BY <1>4, ReceiveCounts
  <2>9. Replied' = Replied /\ Twins' = Twins /\ Answered' = Answered
    BY <2>1 DEF Replied, Twins, Answered
  <2>10. ASSUME NEW k \in 1 .. Len(queue'), queue'[k] \in Genuine
         PROVE  Imitates(queue'[k].wire) /\ Verdict(queue'[k].wire, flags') = "reply"
    <3>1. k + 1 \in 1 .. Len(queue) /\ queue'[k] = queue[k + 1]
      BY <1>types, <2>2
    <3> QED BY <2>1, <2>10, <3>1 DEF SupplyInv
  <2>11. Answered <= stats'.n_recv + G2
         /\ stats'.n_recv + H2 <= Answered + Twins
    <3> HIDE DEF G, H, G2, H2, h
    <3>1. CASE Verdict(h.wire, flags) = "reply"
      BY <1>types, <1>ints, <1>inv, <1>count, <2>3, <2>4, <2>6, <2>7, <3>1, SMTT(30)
    <3>2. CASE Verdict(h.wire, flags) # "reply"
      BY <1>types, <1>ints, <1>inv, <1>count, <2>3, <2>4, <2>5, <2>7, <3>2
    <3> QED BY <3>1, <3>2
  <2>12. G2 = Count(queue', Genuine) /\ H2 = Count(queue', Lookalike)
    BY <2>1
  <2> HIDE DEF G, H, G2, H2, h
  <2>13. Answered' <= stats'.n_recv + Count(queue', Genuine)
         /\ stats'.n_recv + Count(queue', Lookalike) <= Answered' + Twins'
    BY <2>9, <2>11, <2>12
  <2>14. IsFiniteSet(net') /\ Replied' + Cardinality(net') <= stats'.n_sent
    BY <1>card, <1>inv, <2>1, <2>8, <2>9
  <2> QED BY <2>1, <2>10, <2>13, <2>14 DEF SupplyInv, Count, Genuine, Lookalike
<1>append. ASSUME NEW e \in Packet, queue' = Append(queue, e),
                  UNCHANGED <<flags, stats, pc>>,
                  e \in Genuine => Imitates(e.wire)
                                   /\ Verdict(e.wire, flags) = "reply",
                  IsFiniteSet(net'), Replied' + Cardinality(net') <= stats.n_sent,
                  Answered' = Answered + (IF e \in Genuine THEN 1 ELSE 0),
                  Answered' + Twins' = Answered + Twins
                                       + (IF e \in Lookalike THEN 1 ELSE 0)
           PROVE  SupplyInv'
  <2>1. /\ Count(queue', Genuine) = G + (IF e \in Genuine THEN 1 ELSE 0)
        /\ Count(queue', Lookalike) = H + (IF e \in Lookalike THEN 1 ELSE 0)
    BY <1>types, <1>append, CountAppend
  <2>2. /\ Answered' <= stats.n_recv + Count(queue', Genuine)
        /\ stats.n_recv + Count(queue', Lookalike) <= Answered' + Twins'
    <3> DEFINE x == IF e \in Genuine THEN 1 ELSE 0
               y == IF e \in Lookalike THEN 1 ELSE 0
    <3>1. x \in Int /\ y \in Int
      OBVIOUS
    <3>2. /\ Count(queue', Genuine) = G + x /\ Answered' = Answered + x
          /\ Count(queue', Lookalike) = H + y
          /\ Answered' + Twins' = Answered + Twins + y
      BY <1>append, <2>1
    <3> HIDE DEF G, H, x, y
    <3>3. /\ Answered + x <= stats.n_recv + (G + x)
          /\ stats.n_recv + (H + y) <= Answered + Twins + y
      BY <1>types, <1>ints, <1>inv, <1>count, <3>1, BalanceKept, SMTT(30)
    <3> QED BY <3>2, <3>3
  <2>3. ASSUME NEW k \in 1 .. Len(queue'), queue'[k] \in Genuine
        PROVE  Imitates(queue'[k].wire) /\ Verdict(queue'[k].wire, flags') = "reply"
    <3>1. CASE k \in 1 .. Len(queue)
      <4>1. queue'[k] = queue[k]
        BY <1>types, <1>append, <3>1
      <4> QED BY <1>append, <2>3, <3>1, <4>1 DEF SupplyInv
    <3>2. CASE k = Len(queue) + 1
      <4>1. queue'[k] = e
        BY <1>types, <1>append, <3>2
      <4> QED BY <1>append, <2>3, <4>1
    <3>3. Len(queue') = Len(queue) + 1
      BY <1>types, <1>append
    <3> QED BY <1>types, <3>1, <3>2, <3>3
  <2>4. pc' = "start" => stats'.n_recv = 0 /\ stats'.n_sent = 0
    BY <1>append DEF SupplyInv
  <2> HIDE DEF G, H
  <2> QED BY <1>append, <2>2, <2>3, <2>4 DEF SupplyInv, Count, Genuine, Lookalike
<1>5. ASSUME NEW p \in net, NetReply(p) \/ NetDuplicate(p) PROVE SupplyInv'
  <2> DEFINE e == [wire |-> EchoReply(p.sequence, flags), n |-> p.n,
                   sent |-> p.sent]
  <2>1. p \in Probe /\ p.sequence \in Nat /\ p.n \in Nat
    BY <1>types, LoopAssumption DEF Probe
  <2>2. e \in Packet
    BY <1>types, <2>1, EchoReplyType DEF Probe, Packet
  <2>3. /\ queue' = Append(queue, e) /\ UNCHANGED <<flags, stats, pc>>
    BY <1>5 DEF NetReply, NetDuplicate
  <2>4. Imitates(e.wire) /\ Verdict(e.wire, flags) = "reply" /\ e.n >= 0
    BY <1>types, <2>1, AnswerCounts
  <2> HIDE DEF e
  <2>5. e \in Genuine /\ e \in Lookalike
    BY <2>2, <2>4 DEF Genuine, Lookalike
  <2>6. CASE NetReply(p)
    <3>1. /\ budget'.reply = budget.reply - 1 /\ budget'.dup = budget.dup
          /\ budget'.twin = budget.twin /\ net' = net \ {p}
      BY <2>6, <1>budget DEF NetReply, Budgets
    <3>2. IsFiniteSet(net') /\ Cardinality(net') = Cardinality(net) - 1
      BY <1>card, <3>1, FS_RemoveElement
    <3>3. /\ Replied' = Replied + 1 /\ Answered' = Answered + 1
          /\ Twins' = Twins
      BY <1>budget, <3>1 DEF Replied, Answered, Twins
    <3>4. /\ Replied' + Cardinality(net') <= stats.n_sent
          /\ Answered' + Twins' = Answered + Twins + 1
      BY <1>types, <1>ints, <1>card, <1>inv, <3>2, <3>3
    <3> QED BY <1>append, <2>2, <2>3, <2>4, <2>5, <3>2, <3>3, <3>4
  <2>7. CASE NetDuplicate(p)
    <3>1. /\ budget'.reply = budget.reply /\ budget'.dup = budget.dup - 1
          /\ budget'.twin = budget.twin /\ net' = net
      BY <2>7, <1>budget DEF NetDuplicate, Budgets
    <3>2. /\ Replied' = Replied /\ Answered' = Answered + 1 /\ Twins' = Twins
      BY <1>budget, <3>1 DEF Replied, Answered, Twins
    <3>3. /\ Replied' + Cardinality(net') <= stats.n_sent /\ IsFiniteSet(net')
          /\ Answered' + Twins' = Answered + Twins + 1
      BY <1>types, <1>ints, <1>card, <1>inv, <3>1, <3>2
    <3> QED BY <1>append, <2>2, <2>3, <2>4, <2>5, <3>2, <3>3
  <2> QED BY <1>5, <2>6, <2>7
<1>6. ASSUME NEW w \in StrayWires, StrayArrives(w) PROVE SupplyInv'
  <2> DEFINE e == [wire |-> w, n |-> -1, sent |-> 0]
  <2>1. e \in Packet /\ e \notin Genuine
    BY LoopAssumption DEF Packet, Genuine
  <2>2. /\ queue' = Append(queue, e) /\ UNCHANGED <<flags, stats, pc, net>>
    BY <1>6 DEF StrayArrives
  <2>3. e \in Lookalike <=> Imitates(w)
    BY <2>1 DEF Lookalike
  <2> HIDE DEF e
  <2>4. budget'.reply = budget.reply /\ budget'.dup = budget.dup
    BY <1>6, <1>budget DEF StrayArrives, Budgets
  <2>5. Imitates(w) => budget'.twin = budget.twin - 1
    BY <1>6, <1>budget DEF StrayArrives, Budgets
  <2>6. ~Imitates(w) => budget'.twin = budget.twin
    BY <1>6, <1>budget DEF StrayArrives, Budgets
  <2>7. Replied' = Replied /\ Answered' = Answered
    BY <2>4 DEF Replied, Answered
  <2>8. Twins' = Twins + (IF e \in Lookalike THEN 1 ELSE 0)
    BY <1>budget, <2>3, <2>5, <2>6 DEF Twins
  <2>9. /\ Replied' + Cardinality(net') <= stats.n_sent /\ IsFiniteSet(net')
        /\ Answered' = Answered + (IF e \in Genuine THEN 1 ELSE 0)
        /\ Answered' + Twins' = Answered + Twins
                                + (IF e \in Lookalike THEN 1 ELSE 0)
    BY <1>ints, <1>card, <1>inv, <2>1, <2>2, <2>7, <2>8
  <2> QED BY <1>append, <2>1, <2>2, <2>9
<1>7. CASE DataKept
  BY <1>7, <1>kept DEF DataKept
<1> QED BY <1>1, <1>2, <1>3, <1>4, <1>5, <1>6, <1>7, Footprint DEF NetworkStep

\* Over a run of any length, for every set of strays, every answer read is
\* counted once and so is nothing but an echo reply with our id; n_recv exceeds
\* n_sent only by duplicates and by such replies to others.
THEOREM RepliesAccountedFor == Spec => []CountsExplained
<1>1. Init => SupplyInv
  <2> SUFFICES ASSUME Init PROVE SupplyInv
    OBVIOUS
  <2>1. Replied = 0 /\ Twins = 0 /\ Answered = 0
    BY LoopAssumption DEF Init, Budgets, Replied, Twins, Answered
  <2>2. queue = <<>> /\ net = {} /\ stats.n_recv = 0 /\ stats.n_sent = 0
    BY DEF Init, ZeroStats
  <2>3. \A S : Count(queue, S) = 0
    <3>1. \A S : {k \in 1 .. Len(queue) : queue[k] \in S} = {}
      BY <2>2
    <3> QED BY <3>1, FS_EmptySet DEF Count
  <2> QED BY <2>1, <2>2, <2>3, FS_EmptySet DEF SupplyInv
<1>2. TypeInv /\ SupplyInv => CountsExplained
  <2> SUFFICES ASSUME TypeInv, SupplyInv PROVE CountsExplained
    OBVIOUS
  <2> DEFINE I == {k \in 1 .. Len(queue) : queue[k] \in Genuine}
             J == {k \in 1 .. Len(queue) : queue[k] \in Lookalike}
  <2>1. queue \in Seq(Packet) /\ stats.n_recv \in Nat /\ stats.n_sent \in Nat
    BY DEF TypeInv, TypeOK, Stats
  <2>2. I = {k \in 1 .. Len(queue) : queue[k].n >= 0}
    BY <2>1 DEF Genuine
  <2>3. I \subseteq J
    BY <2>1 DEF SupplyInv, Lookalike
  <2>4. /\ IsFiniteSet(I) /\ Cardinality(I) \in Nat
        /\ IsFiniteSet(J) /\ Cardinality(J) \in Nat
    BY <2>1, CountType DEF Count
  <2>5. Unread = Cardinality(I)
    BY <2>2 DEF Unread
  <2>6. Cardinality(I) = Count(queue, Genuine)
        /\ Cardinality(J) = Count(queue, Lookalike)
    BY DEF Count
  <2> HIDE DEF I, J
  <2>7. Cardinality(I) <= Cardinality(J)
    BY <2>3, <2>4, FS_Subset
  <2>8. Cardinality(net) \in Nat
    BY FS_CardinalityType DEF SupplyInv
  <2>9. /\ budget.reply \in Nat /\ budget.dup \in Nat /\ budget.twin \in Nat
        /\ Budget.reply \in Nat /\ Budget.dup \in Nat /\ Budget.twin \in Nat
    BY LoopAssumption DEF TypeInv, TypeOK, Budgets
  <2>10. /\ Answered = Replied + (Budget.dup - budget.dup)
         /\ Replied \in Int /\ Answered \in Int /\ Twins \in Int
         /\ Twins = Budget.twin - budget.twin
    BY <2>9 DEF Answered, Replied, Twins
  <2>11. /\ Replied + Cardinality(net) <= stats.n_sent
         /\ Answered <= stats.n_recv + Cardinality(I)
         /\ stats.n_recv + Cardinality(J) <= Answered + Twins
    BY <2>6 DEF SupplyInv
  <2> DEFINE g == Cardinality(I)
             h == Cardinality(J)
             d == Budget.dup - budget.dup
  <2>12. /\ g \in Nat /\ h \in Nat /\ g <= h /\ d \in Int /\ Unread = g
         /\ Answered <= stats.n_recv + g
         /\ stats.n_recv + h <= Answered + Twins /\ Answered = Replied + d
    BY <2>4, <2>5, <2>7, <2>9, <2>10, <2>11
  <2>13. CountsExplained <=>
           /\ stats.n_recv \in Answered - Unread .. Answered - Unread + Twins
           /\ stats.n_recv <= stats.n_sent + d + Twins
    BY <2>10 DEF CountsExplained
  <2> HIDE DEF g, h, d
  <2> DEFINE c == Cardinality(net)
             r == stats.n_recv
             s == stats.n_sent
  <2>types. /\ r \in Nat /\ s \in Nat /\ c \in Nat /\ g \in Nat /\ h \in Nat
            /\ d \in Int /\ Replied \in Int /\ Answered \in Int /\ Twins \in Int
    BY <2>1, <2>8, <2>10, <2>12
  <2>facts. /\ Answered <= r + g /\ r + h <= Answered + Twins /\ g <= h
            /\ Replied + c <= s /\ Answered = Replied + d
    BY <2>11, <2>12
  <2> HIDE DEF c, r, s
  <2>14. r \in Answered - g .. Answered - g + Twins /\ r <= s + d + Twins
    BY <2>types, <2>facts, BalanceBounds
  <2> QED BY <2>12, <2>13, <2>14 DEF r, s
<1> QED BY TypeInit, TypeStep, SupplyStep, <1>1, <1>2, PTL DEF Spec
-----------------------------------------------------------------------------
(* RttExact.                                                               *)

\* With built probes built and ts the ring: the n-th probe of the run, sent at
\* t, carries the sequence number seq, and the slot of seq holds t unless a
\* whole ring of probes was built since.
Timed(built, ts, n, seq, t) ==
  /\ n < built /\ seq = n % PING_TS_RING
  /\ built - n <= PING_TS_RING => ts[seq] = t

\* The same of a queued packet, if it answers a probe.
PacketTimed(built, ts, e) ==
  e.n >= 0 => Timed(built, ts, e.n, e.wire.sequence, e.sent)

RingInv ==
  /\ sched.seq = hist.built % PING_TS_RING
  /\ pc = "start" => hist.built = 0
  /\ pc = "sendto" => Timed(hist.built, send_ts, pkt.n, pkt.sequence, pkt.sent)
  /\ \A p \in net : Timed(hist.built, send_ts, p.n, p.sequence, p.sent)
  /\ \A k \in 1 .. Len(queue) : PacketTimed(hist.built, send_ts, queue[k])

\* The slot send_one() writes is that of the sequence number it sends.
LEMMA SlotWritten ==
  ASSUME TypeInv, RingInv, send_one
  PROVE  /\ sched.seq = hist.built % PING_TS_RING
         /\ sched.seq \in 0 .. PING_TS_RING - 1
         /\ send_ts' = [send_ts EXCEPT ![sched.seq] = clock]
         /\ hist.built \in Nat /\ hist'.built = hist.built + 1
<1> DEFINE R == PING_TS_RING
<1>1. R \in Nat \ {0}
  BY LoopAssumption
<1>2. sched.seq = hist.built % R /\ sched.seq \in 0 .. R - 1
  BY DEF RingInv, TypeInv, TypeOK, Schedule
<1>3. sched.seq % R = sched.seq
  <2>1. sched.seq = R * 0 + sched.seq /\ sched.seq \in Nat
    BY <1>1, <1>2
  <2> QED BY <1>1, <1>2, <2>1, ModUnique
<1>4. send_ts' = [send_ts EXCEPT ![sched.seq] = clock]
  BY <1>3 DEF send_one
<1>5. hist.built \in Nat /\ hist'.built = hist.built + 1
  BY DEF send_one, TypeInv, TypeOK, History
<1> QED BY <1>2, <1>4, <1>5

\* Building a probe keeps every other one timed.
LEMMA StillTimed ==
  ASSUME TypeInv, RingInv, send_one,
         NEW n \in Nat, NEW seq, NEW t, Timed(hist.built, send_ts, n, seq, t)
  PROVE  Timed(hist'.built, send_ts', n, seq, t)
<1> DEFINE R == PING_TS_RING
           b == hist.built
<1>1. R \in Nat \ {0} /\ n < b /\ seq = n % R
  BY LoopAssumption DEF Timed
<1>2. /\ sched.seq = b % R /\ b \in Nat /\ hist'.built = b + 1
      /\ send_ts' = [send_ts EXCEPT ![sched.seq] = clock]
  BY SlotWritten
<1>3. ASSUME b + 1 - n <= R PROVE send_ts'[seq] = t
  <2>1. n % R # b % R
    BY <1>1, <1>2, <1>3, ModDistinct
  <2>2. send_ts[seq] = t
    BY <1>1, <1>2, <1>3 DEF Timed
  <2>3. seq # sched.seq
    BY <1>1, <1>2, <2>1
  <2>4. send_ts \in [0 .. R - 1 -> Nat] /\ seq \in 0 .. R - 1
    BY <1>1, DivMod DEF TypeInv, TypeOK
  <2> QED BY <1>2, <2>2, <2>3, <2>4
<1> QED BY <1>1, <1>2, <1>3 DEF Timed

\* A packet that joins the queue, timed if it answers a probe.
LEMMA QueuedTimed ==
  ASSUME NEW q \in Seq(Packet), NEW e \in Packet, NEW built, NEW ts,
         \A k \in 1 .. Len(q) : PacketTimed(built, ts, q[k]),
         PacketTimed(built, ts, e)
  PROVE  \A k \in 1 .. Len(Append(q, e)) : PacketTimed(built, ts, Append(q, e)[k])
<1> SUFFICES ASSUME NEW k \in 1 .. Len(Append(q, e))
             PROVE  PacketTimed(built, ts, Append(q, e)[k])
  OBVIOUS
<1>1. Len(q) \in Nat /\ Len(Append(q, e)) = Len(q) + 1
  OBVIOUS
<1>2. CASE k \in 1 .. Len(q)
  <2>1. Append(q, e)[k] = q[k]
    BY <1>2
  <2> QED BY <1>2, <2>1
<1>3. CASE k = Len(q) + 1
  <2>1. Append(q, e)[k] = e
    BY <1>3
  <2> QED BY <2>1
<1> QED BY <1>1, <1>2, <1>3

\* Every step keeps RingInv.
LEMMA RingStep == TypeInv /\ RingInv /\ [Next]_vars => RingInv'
<1> SUFFICES ASSUME TypeInv, RingInv, [Next]_vars PROVE RingInv'
  OBVIOUS
<1> USE DEF program, locals, network, history, Goto
<1>ring. PING_TS_RING \in Nat \ {0}
  BY LoopAssumption
<1>types. /\ hist \in History /\ hist.built \in Nat /\ sched \in Schedule
          /\ flags \in Flags /\ net \subseteq Probe /\ pkt \in Probe
          /\ queue \in Seq(Packet) /\ Len(queue) \in Nat
  BY DEF TypeInv, TypeOK, History
<1>1. CASE sched_init
  <2>1. hist'.built = 0 /\ hist.built = 0 /\ sched'.seq = 0
    BY <1>1, <1>types DEF sched_init, RingInv, History
  <2>2. 0 % PING_TS_RING = 0
    BY <1>ring
  <2>3. UNCHANGED <<send_ts, net, queue>> /\ pc' \notin {"start", "sendto"}
    BY <1>1 DEF sched_init
  <2> QED BY <2>1, <2>2, <2>3 DEF RingInv
<1>2. CASE send_one
  <2>1. /\ hist'.built = hist.built + 1
        /\ sched.seq = hist.built % PING_TS_RING
        /\ sched.seq \in 0 .. PING_TS_RING - 1
        /\ send_ts' = [send_ts EXCEPT ![sched.seq] = clock]
    BY <1>2, SlotWritten
  <2>2. sched'.seq = hist'.built % PING_TS_RING
    <3>1. sched'.seq = (sched.seq + 1) % PING_TS_RING
      BY <1>2, <1>types DEF send_one, Schedule
    <3> QED BY <1>types, <1>ring, <2>1, <3>1, ModSuccessor
  <2>3. UNCHANGED <<net, queue>> /\ pc' = "sendto"
    BY <1>2 DEF send_one
  <2>4. ASSUME NEW p \in net
        PROVE  Timed(hist'.built, send_ts', p.n, p.sequence, p.sent)
    <3>1. p.n \in Nat /\ Timed(hist.built, send_ts, p.n, p.sequence, p.sent)
      BY <1>types DEF Probe, RingInv
    <3> QED BY <1>2, <3>1, StillTimed
  <2>5. ASSUME NEW k \in 1 .. Len(queue)
        PROVE  PacketTimed(hist'.built, send_ts', queue[k])
    <3>1. queue[k] \in Packet /\ PacketTimed(hist.built, send_ts, queue[k])
      BY <1>types DEF RingInv
    <3>2. queue[k].n >= 0 => queue[k].n \in Nat
      BY <3>1 DEF Packet
    <3> QED BY <1>2, <3>1, <3>2, StillTimed DEF PacketTimed
  <2>6. Timed(hist'.built, send_ts', pkt'.n, pkt'.sequence, pkt'.sent)
    <3>1. pkt'.n = hist.built /\ pkt'.sequence = sched.seq /\ pkt'.sent = clock
      BY <1>2 DEF send_one
    <3>2. send_ts'[sched.seq] = clock
      BY <2>1 DEF TypeInv, TypeOK
    <3> QED BY <1>types, <2>1, <3>1, <3>2 DEF Timed
  <2>7. hist'.built # 0 /\ pc' # "start"
    BY <1>types, <2>1, <2>3
  <2> QED BY <2>2, <2>3, <2>4, <2>5, <2>6, <2>7 DEF RingInv
<1>3. CASE sendto_ok
  <2>1. hist'.built = hist.built
    BY <1>3, <1>types DEF sendto_ok, History
  <2>2. /\ UNCHANGED <<sched, send_ts, queue>> /\ net' = net \cup {pkt}
        /\ pc = "sendto" /\ pc' \notin {"start", "sendto"}
    BY <1>3 DEF sendto_ok
  <2> QED BY <2>1, <2>2 DEF RingInv
<1>4. CASE ping_receive
  <2>1. /\ Len(queue') = Len(queue) - 1
        /\ \A k \in 1 .. Len(queue') : queue'[k] = queue[k + 1]
    BY <1>4, <1>types, HeadTailProperties DEF ping_receive
  <2>2. UNCHANGED <<sched, send_ts, hist, net>> /\ pc' = "recv"
    BY <1>4 DEF ping_receive
  <2>3. ASSUME NEW k \in 1 .. Len(queue')
        PROVE  PacketTimed(hist'.built, send_ts', queue'[k])
    <3>1. k + 1 \in 1 .. Len(queue) /\ queue'[k] = queue[k + 1]
      BY <1>types, <2>1
    <3> QED BY <2>2, <3>1 DEF RingInv
  <2> QED BY <2>2, <2>3 DEF RingInv
<1>5. ASSUME NEW p \in net, NetReply(p) \/ NetDuplicate(p) PROVE RingInv'
  <2> DEFINE e == [wire |-> EchoReply(p.sequence, flags), n |-> p.n,
                   sent |-> p.sent]
  <2>1. /\ queue' = Append(queue, e) /\ net' \subseteq net
        /\ UNCHANGED <<hist, send_ts, sched, pkt, pc>>
    BY <1>5 DEF NetReply, NetDuplicate
  <2>2. p \in Probe /\ p.sequence \in Nat
    BY <1>types, <1>ring DEF Probe
  <2>3. EchoReply(p.sequence, flags) \in Wire
    BY <1>types, <2>2, EchoReplyType
  <2>4. e \in Packet
    BY <2>2, <2>3 DEF Probe, Packet
  <2>5. e.wire.sequence = p.sequence /\ e.n = p.n /\ e.sent = p.sent
    BY DEF EchoReply
  <2> HIDE DEF e
  <2>6. PacketTimed(hist.built, send_ts, e)
    BY <1>5, <2>5 DEF RingInv, PacketTimed
  <2>7. \A k \in 1 .. Len(queue') : PacketTimed(hist.built, send_ts, queue'[k])
    BY <1>types, <2>1, <2>4, <2>6, QueuedTimed DEF RingInv
  <2> QED BY <2>1, <2>7 DEF RingInv
<1>6. ASSUME NEW w \in StrayWires, StrayArrives(w) PROVE RingInv'
  <2> DEFINE e == [wire |-> w, n |-> -1, sent |-> 0]
  <2>1. /\ queue' = Append(queue, e)
        /\ UNCHANGED <<hist, send_ts, sched, pkt, pc, net>>
    BY <1>6 DEF StrayArrives
  <2>2. e \in Packet /\ PacketTimed(hist.built, send_ts, e)
    BY LoopAssumption DEF Packet, PacketTimed
  <2> HIDE DEF e
  <2>3. \A k \in 1 .. Len(queue') : PacketTimed(hist.built, send_ts, queue'[k])
    BY <1>types, <2>1, <2>2, QueuedTimed DEF RingInv
  <2> QED BY <2>1, <2>3 DEF RingInv
<1>7. CASE DataKept
  BY <1>7 DEF DataKept, RingInv
<1> QED BY <1>1, <1>2, <1>3, <1>4, <1>5, <1>6, <1>7, Footprint DEF NetworkStep

\* A reply that is queued, or still to come, is timed against the reading of
\* its own probe unless a whole ring of probes was built after that one, for
\* a ring of any size and however often the sequence numbers have wrapped.
THEOREM RoundTripExact == Spec => []RttExact
<1>1. Init => RingInv
  <2>1. 0 % PING_TS_RING = 0
    BY LoopAssumption
  <2> QED BY <2>1 DEF Init, RingInv
<1>2. RingInv => RttExact
  BY DEF RingInv, Timed, PacketTimed, RttExact
<1> QED BY TypeInit, TypeStep, RingStep, <1>1, <1>2, PTL DEF Spec
=============================================================================
