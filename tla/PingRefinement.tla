--------------------------- MODULE PingRefinement ---------------------------
(***************************************************************************)
(* PingLoop implements PingSession: the event loop, its schedule, ring and *)
(* signal handling keep the promises a session makes.                      *)
(***************************************************************************)
EXTENDS PingLoop

SessionOpts ==
  [burst |-> Burst, interval |-> interval_of(flags),
   per_reply |-> flags.bsd_flood, limited |-> flags.has_timeout]

SessionPhase ==
  CASE pc = "start" -> "before"
    [] pc = "done"  -> "over"
    [] OTHER        -> "running"

Session == INSTANCE PingSession WITH
  opts  <- SessionOpts,
  phase <- SessionPhase,
  stop  <- g_stop,
  now   <- clock,
  start <- hist.t0,
  sent  <- stats.n_sent,
  recv  <- stats.n_recv,
  late  <- hist.late

\* ping_run() keeps every promise of a session, step by step: probes are paid
\* for by the burst, the first packet, a reply or the clock, replies are
\* counted only after a probe, and a stop request lets few probes through.
ImplementsSession == Session!Spec

\* ... and it returns when told to stop or when its deadline has passed.
ImplementsFairSession == Session!FairSpec
=============================================================================
