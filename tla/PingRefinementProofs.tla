------------------------ MODULE PingRefinementProofs ------------------------
(***************************************************************************)
(* PingLoop implements PingSession, for every value of the constants: the  *)
(* initial states agree, and every step of the loop is a step of the       *)
(* session or leaves it alone.  The invariants are PingLoopProofs'.        *)
(***************************************************************************)
EXTENDS PingRefinement, PingLoopProofs

\* What the mapping needs beyond the loop's own invariants: nothing was
\* counted before sched_init(), and from then on the interval is the one the
\* command line asked for.
MapInv ==
  /\ pc = "start" => stats.n_sent = 0 /\ stats.n_recv = 0
  /\ pc # "start" => sched.interval = interval_of(flags)

\* Every step keeps MapInv.
LEMMA MapStep == TypeInv /\ MapInv /\ [Next]_vars => MapInv'
<1> SUFFICES ASSUME TypeInv, MapInv, [Next]_vars
             PROVE  MapInv'
  OBVIOUS
<1> USE DEF MapInv, Goto, CallSendOne, interval_of
<1>1. CASE sched_init
  BY <1>1 DEF sched_init
<1>2. CASE send_preload
  BY <1>2 DEF send_preload, program
<1>3. CASE first_send
  BY <1>3 DEF first_send, program
<1>4. CASE send_one
  BY <1>4 DEF send_one, TypeInv, TypeOK, Schedule
<1>5. CASE sendto_ok
  BY <1>5 DEF sendto_ok
<1>6. CASE sendto_fail
  BY <1>6 DEF sendto_fail, program
<1>7. CASE stamp_last_send
  BY <1>7 DEF stamp_last_send, TypeInv, TypeOK, Schedule
<1>8. CASE loop_once
  BY <1>8 DEF loop_once, program
<1>9. CASE poll
  BY <1>9 DEF poll, program
<1>10. CASE poll_readable \/ poll_timeout \/ poll_error
  BY <1>10 DEF poll_readable, poll_timeout, poll_error, program
<1>11. CASE ping_receive
  BY <1>11 DEF ping_receive
<1>12. CASE drain_ends \/ recv_fail
  BY <1>12 DEF drain_ends, recv_fail, program
<1>13. CASE send_per_reply \/ send_if_due
  BY <1>13 DEF send_per_reply, send_if_due, program
<1>14. CASE on_sigint
  BY <1>14 DEF on_sigint, program
<1>15. CASE Tick
  BY <1>15 DEF Tick, program
<1>16. ASSUME NEW p \in net, NetReply(p) \/ NetDuplicate(p) PROVE MapInv'
  BY <1>16 DEF NetReply, NetDuplicate, program
<1>17. ASSUME NEW w \in StrayWires, StrayArrives(w) PROVE MapInv'
  BY <1>17 DEF StrayArrives, program
<1>18. CASE UNCHANGED vars
  BY <1>18 DEF vars, program
<1> QED
  BY <1>1, <1>2, <1>3, <1>4, <1>5, <1>6, <1>7, <1>8, <1>9, <1>10, <1>11,
     <1>12, <1>13, <1>14, <1>15, <1>16, <1>17, <1>18
     DEF Next, Program, Succeeding, Environment

\* The inductive invariant of the refinement.
RefInv ==
  TypeInv /\ FloodInv /\ CountInv /\ TimerInv /\ SentInv /\ StopInv /\ MapInv

\* What the session sees of a state of the loop, apart from its phase.
SessionView == <<flags, g_stop, clock, stats, hist>>

\* A step that changes nothing the session sees, except that it may end it.
LEMMA QuietStep ==
  ASSUME UNCHANGED SessionView,
         pc' = pc \/ (pc \notin {"start", "done"} /\ pc' # "start")
  PROVE  [Session!Next]_Session!vars
BY DEF SessionView, SessionPhase, SessionOpts, Burst, interval_of,
       Session!Next, Session!Return, Session!vars

\* A stop request, by the handler or by a send that failed.
LEMMA StopRequest ==
  ASSUME UNCHANGED <<flags, clock, stats, hist>>, g_stop' = TRUE, pc # "done",
         pc' = pc \/ (pc # "start" /\ pc' \notin {"start", "done"})
  PROVE  Session!RequestStop
BY DEF SessionPhase, SessionOpts, Burst, interval_of, Session!RequestStop

\* The probe sendto() takes is paid for: by the burst, by being the first, by
\* a reply not answered yet or by an interval that has passed.
LEMMA ProbePaidFor ==
  ASSUME RefInv, pc = "sendto"
  PROVE  (stats.n_sent - Burst - (IF flags.bsd_flood THEN stats.n_recv ELSE 0))
           * interval_of(flags) <= clock - hist.t0
<1> DEFINE owed == stats.n_sent - Burst
                   - (IF flags.bsd_flood THEN stats.n_recv ELSE 0)
           due  == by["due"]
           step == sched.interval
<1> USE DEF RefInv
<1>1. /\ clock \in Nat /\ ret \in Callers /\ i \in Nat /\ replies \in Int
      /\ flags.bsd_flood \in BOOLEAN
  BY DEF TypeInv, TypeOK, Flags
<1>2. Burst \in Nat
  BY FieldTypes DEF Burst
<1>3. step = interval_of(flags) /\ step \in Nat /\ due \in Nat
      /\ hist.t0 \in Nat /\ owed \in Int
  BY <1>1, <1>2, FieldTypes DEF MapInv
<1> SUFFICES owed * step <= clock - hist.t0
  BY <1>3
<1>4. CASE ret \in {"preload", "first"}
  <2>1. owed <= 0
    BY <1>1, <1>2, <1>4, FieldTypes DEF CountInv, Early, Sending
  <2>2. owed * step <= 0 * step
    BY <1>3, <2>1, ProductMonotone
  <2>3. hist.t0 + due * step <= clock /\ due = 0
    BY <1>4 DEF TimerInv, Early, Sending
  <2> HIDE DEF owed, due, step
  <2>4. owed * step <= 0 /\ due * step = 0
    BY <1>3, <2>2, <2>3, NextMultiple
  <2>5. owed * step \in Int
    BY <1>3
  <2> QED BY <1>1, <1>3, <2>3, <2>4, <2>5
<1>5. CASE ret = "reply"
  <2>1. owed <= due
    BY <1>1, <1>2, <1>5, FieldTypes
       DEF CountInv, FloodInv, Flooding, Sending
  <2>2. owed * step <= due * step
    BY <1>3, <2>1, ProductMonotone
  <2>3. hist.t0 + due * step <= clock
    BY DEF TimerInv
  <2> HIDE DEF owed, due, step
  <2>4. owed * step \in Int /\ due * step \in Int
    BY <1>3
  <2> QED BY <1>1, <1>3, <2>2, <2>3, <2>4
<1>6. CASE ret = "due"
  <2>1. owed <= due + 1
    BY <1>1, <1>2, <1>6, FieldTypes DEF CountInv, FloodInv
  <2>2. owed * step <= (due + 1) * step
    BY <1>3, <2>1, ProductMonotone
  <2>3. hist.t0 + due * step + step <= clock
    BY <1>6 DEF TimerInv, Sending
  <2> HIDE DEF owed, due, step
  <2>4. (due + 1) * step = due * step + step
    BY <1>3, NextMultiple
  <2>5. owed * step \in Int /\ due * step \in Int
    BY <1>3
  <2> QED BY <1>1, <1>3, <2>2, <2>3, <2>4, <2>5
<1> QED BY <1>1, <1>4, <1>5, <1>6 DEF Callers

\* Every step of the loop is a step of the session or leaves it alone.
LEMMA SimulationStep == RefInv /\ [Next]_vars => [Session!Next]_Session!vars
<1> SUFFICES ASSUME RefInv, [Next]_vars
             PROVE  [Session!Next]_Session!vars
  OBVIOUS
<1> USE DEF Goto, CallSendOne, SessionView
<1>1. CASE sched_init
  <2>1. /\ pc = "start" /\ pc' = "preload"
        /\ UNCHANGED <<flags, g_stop, clock>>
        /\ stats.n_sent = 0 /\ stats'.n_sent = 0
        /\ stats.n_recv = 0 /\ stats'.n_recv = 0
        /\ hist'.t0 = clock /\ hist'.late = hist.late
    BY <1>1 DEF sched_init, RefInv, MapInv, ZeroStats, TypeInv, TypeOK, History
  <2>2. Session!Begin
    BY <2>1 DEF Session!Begin, SessionPhase, SessionOpts, Burst, interval_of
  <2> QED BY <2>2 DEF Session!Next
<1>2. CASE send_preload \/ first_send
  BY <1>2, QuietStep DEF send_preload, first_send, program, history
<1>3. CASE send_one
  <2>1. /\ pc = "build" /\ pc' = "sendto"
        /\ UNCHANGED <<flags, g_stop, clock, stats>>
        /\ hist'.t0 = hist.t0 /\ hist'.late = hist.late
    BY <1>3 DEF send_one, RefInv, TypeInv, TypeOK, History
  <2> QED
    BY <2>1 DEF Session!vars, SessionPhase, SessionOpts, Burst, interval_of
<1>4. CASE sendto_ok
  <2>1. /\ pc = "sendto" /\ pc' \in {"preload", "stamp"}
        /\ UNCHANGED <<flags, g_stop, clock>>
    BY <1>4 DEF sendto_ok
  <2>2. /\ stats'.n_sent = stats.n_sent + 1 /\ stats'.n_recv = stats.n_recv
        /\ hist'.t0 = hist.t0
        /\ hist'.late = IF g_stop THEN hist.late + 1 ELSE hist.late
    BY <1>4, SendCounts DEF RefInv
  <2>3. g_stop => hist.late < IF flags.bsd_flood THEN 2 ELSE 1
    BY <2>1, FieldTypes DEF RefInv, StopInv, Sending
  <2>4. Session!Transmit
    BY <2>1, <2>2, <2>3, ProbePaidFor
       DEF Session!Transmit, Session!Answers, Session!LateAllowance,
           SessionPhase, SessionOpts, Burst, interval_of
  <2> QED BY <2>4 DEF Session!Next
<1>5. CASE sendto_fail
  <2>1. pc = "sendto" /\ UNCHANGED <<flags, clock, stats, hist>>
    BY <1>5 DEF sendto_fail, program, history
  <2>2. CASE ret \in {"preload", "first"}
    <3>1. g_stop' = TRUE /\ pc' \in {"preload", "stamp"}
      BY <1>5, <2>2 DEF sendto_fail, ping_request_stop
    <3> QED BY <2>1, <3>1, StopRequest DEF Session!Next
  <2>3. CASE ret \in {"due", "reply"}
    <3>1. UNCHANGED g_stop /\ pc' = "done"
      BY <1>5, <2>3 DEF sendto_fail
    <3> QED BY <2>1, <3>1, QuietStep
  <2> QED BY <1>5, <2>2, <2>3 DEF sendto_fail
<1>6. CASE stamp_last_send \/ loop_once \/ poll
  BY <1>6, QuietStep
     DEF stamp_last_send, loop_once, poll, program, history
<1>7. CASE poll_readable \/ poll_timeout \/ poll_error
  BY <1>7, QuietStep
     DEF poll_readable, poll_timeout, poll_error, program, history
<1>8. CASE ping_receive
  <2>1. /\ pc = "recv" /\ UNCHANGED <<flags, pc, g_stop, clock, hist>>
        /\ stats'.n_sent = stats.n_sent
        /\ stats'.n_recv = stats.n_recv \/ stats'.n_recv = stats.n_recv + 1
    BY <1>8, ReceiveCounts DEF ping_receive, history, RefInv
  <2>2. stats.n_sent > 0
    BY <2>1, FieldTypes DEF RefInv, SentInv
  <2>3. Session!Collect \/ UNCHANGED Session!vars
    BY <2>1, <2>2 DEF Session!Collect, Session!vars, SessionPhase,
                      SessionOpts, Burst, interval_of
  <2> QED BY <2>3 DEF Session!Next
<1>9. CASE drain_ends \/ recv_fail
  BY <1>9, QuietStep DEF drain_ends, recv_fail, program, history
<1>10. CASE send_per_reply \/ send_if_due
  BY <1>10, QuietStep DEF send_per_reply, send_if_due, program, history
<1>11. CASE on_sigint
  <2>1. /\ UNCHANGED <<flags, clock, stats, hist>> /\ g_stop' = TRUE
        /\ pc # "done"
        /\ pc' = pc \/ (pc = "blocked" /\ pc' = "while")
    BY <1>11 DEF on_sigint, program, history
  <2> QED BY <2>1, StopRequest DEF Session!Next
<1>12. CASE Tick
  <2>1. /\ pc \notin {"start", "done"} /\ clock' = clock + 1
        /\ UNCHANGED <<flags, pc, g_stop, stats, hist>>
    BY <1>12 DEF Tick, program, history
  <2>2. Session!Pass
    BY <2>1 DEF Session!Pass, SessionPhase, SessionOpts, Burst, interval_of
  <2> QED BY <2>2 DEF Session!Next
<1>13. ASSUME NEW p \in net, NetReply(p) \/ NetDuplicate(p)
       PROVE  [Session!Next]_Session!vars
  BY <1>13, QuietStep DEF NetReply, NetDuplicate, program, history
<1>14. ASSUME NEW w \in StrayWires, StrayArrives(w)
       PROVE  [Session!Next]_Session!vars
  BY <1>14, QuietStep DEF StrayArrives, program, history
<1>15. CASE UNCHANGED vars
  BY <1>15, QuietStep DEF vars, program, history
<1> QED
  BY <1>1, <1>2, <1>3, <1>4, <1>5, <1>6, <1>7, <1>8, <1>9, <1>10, <1>11,
     <1>12, <1>13, <1>14, <1>15
     DEF Next, Program, Succeeding, Environment

\* The initial states agree.
LEMMA SimulationInit == Init => Session!Init
<1> SUFFICES ASSUME Init PROVE Session!Init
  OBVIOUS
<1>1. flags \in Flags /\ SessionOpts \in Session!Opts
  BY LoopAssumption
     DEF Init, Flags, SessionOpts, Burst, interval_of, Session!Opts
<1> QED BY <1>1, LoopAssumption
        DEF Init, Session!Init, SessionPhase, ZeroStats

-----------------------------------------------------------------------------
\* ping_run() implements the session main() relies on, for every interval,
\* deadline, preload, ring size and command line: every probe is paid for by
\* the burst, the first packet, a reply or the clock, replies are counted only
\* after a probe, and a stop request lets at most one or two probes through.
THEOREM LoopImplementsSession == Spec => ImplementsSession
<1>1. Init => RefInv
  BY TypeInit, InitInv DEF RefInv, MapInv, Init, ZeroStats
<1>2. RefInv /\ [Next]_vars => RefInv'
  BY TypeStep, FloodStep, CountStep, TimerStep, SentStep, StopStep, MapStep
     DEF RefInv
<1> QED
  BY <1>1, <1>2, SimulationInit, SimulationStep, PTL
     DEF Spec, ImplementsSession, Session!Spec
=============================================================================
