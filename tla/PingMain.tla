------------------------------ MODULE PingMain ------------------------------
(***************************************************************************)
(* The whole run of the program, from argv to the exit status:             *)
(*                                                                         *)
(*   src/main.c               the order of the steps                       *)
(*   src/core/ping_context.c  parse, resolve, allocate, release            *)
(*   src/net/ping_socket.c    the raw socket and its options               *)
(*   src/net/ping_resolve.c   name resolution                              *)
(*   src/core/ping_signal.c   when the handler is installed                *)
(*                                                                         *)
(* ping_run() is the session PingSession promises, which PingLoop          *)
(* implements.  Every call that can fail may fail, and SIGINT may arrive   *)
(* at any time; until signal_install() it kills the process.               *)
(***************************************************************************)
EXTENDS Sequences, Functions, PingReport

CONSTANTS
  CommandChoices,             \* outcomes of parse_info(), see Commands
  SessionChoices,             \* what sessions are asked for, see PingSession
  MaxSent, MaxRecv, MaxNow    \* bounds on the session

VARIABLES
  cmd,        \* what parse_info() made of argv
  pc,         \* where main() is
  heap,       \* the context's buffers that are allocated
  sockfd,     \* "none", "open" or "closed"
  applied,    \* socket options in force
  handler,    \* is on_sigint() installed?
  out,        \* the lines on stdout that bracket a run
  errs,       \* diagnostics of set-up on stderr (a session has its own)
  report,     \* what the summary says
  status,     \* exit status
  opts, phase, stop, now, start, sent, recv, late   \* the session

Run == INSTANCE PingSession

resources == <<heap, sockfd, applied, handler>>
output    == <<out, errs, report, status>>
session   == <<opts, phase, stop, now, start, sent, recv, late>>
vars == <<cmd, pc, resources, output, session>>

Buffers == {"pkt", "send_ts", "recvbuf"}

\* -m, -T, -r and -S, in the order configure_socket() looks at them.
SocketOptions == <<"ttl", "multicast_ttl", "bypass_routing", "source_addr">>

\* "help" exits successfully from inside the parser.
Commands == [verdict: {"accepted", "rejected", "help"},
             options: SUBSET Range(SocketOptions)]

Labels == {"parse", "resolve", "alloc", "banner", "socket", "options",
           "install", "run", "summary", "close", "destroy", "exit", "killed"}

ASSUME MainAssumption ==
  /\ CommandChoices \subseteq Commands
  /\ SessionChoices \subseteq Run!Opts
  /\ MaxSent \in Nat /\ MaxRecv \in Nat /\ MaxNow \in Nat

Goto(l) == pc' = l

Exit(s) == Goto("exit") /\ status' = s

\* A message on stderr.
Complain == errs' = errs + 1
-----------------------------------------------------------------------------
\* ctx_init(), first step: the command line (PingCli).
parse_info ==
  /\ pc = "parse"
  /\ \/ cmd.verdict = "accepted" /\ Goto("resolve") /\ UNCHANGED <<errs, status>>
     \/ cmd.verdict = "rejected" /\ Complain /\ Exit(1)
     \/ cmd.verdict = "help" /\ Exit(0) /\ UNCHANGED errs
  /\ UNCHANGED <<cmd, resources, out, report, session>>

\* ctx_init(), second step: the destination.
resolve_host ==
  /\ pc = "resolve"
  /\ \/ Goto("alloc") /\ UNCHANGED <<errs, status>>
     \/ Complain /\ Exit(1)
  /\ UNCHANGED <<cmd, resources, out, report, session>>

\* ctx_init(), last step: the three allocations, each of which may fail; if
\* one did, ctx_destroy() is handed what the others got.
ctx_alloc_buffers ==
  /\ pc = "alloc"
  /\ \E got \in SUBSET Buffers :
       /\ heap' = got
       /\ IF got = Buffers
          THEN Goto("banner") /\ UNCHANGED errs
          ELSE Goto("destroy") /\ Complain
  /\ UNCHANGED <<cmd, sockfd, applied, handler, out, report, status, session>>

print_ping_banner ==
  /\ pc = "banner" /\ Goto("socket")
  /\ out' = Append(out, "banner")
  /\ UNCHANGED <<cmd, resources, errs, report, status, session>>

\* socket_open(): the privileged call.
socket ==
  /\ pc = "socket"
  /\ \/ Goto("options") /\ sockfd' = "open" /\ UNCHANGED errs
     \/ Goto("destroy") /\ Complain /\ UNCHANGED sockfd
  /\ UNCHANGED <<cmd, heap, applied, handler, out, report, status, session>>

\* Mutant: an option is set whether or not it was asked for.
ToApplyAll == {k \in DOMAIN SocketOptions : SocketOptions[k] \notin applied}

\* Where the options asked for and not yet in force stand in SocketOptions.
ToApply ==
  {k \in DOMAIN SocketOptions : SocketOptions[k] \in cmd.options \ applied}

\* The first of them is the next one.
NextOption(k) == k \in ToApply /\ \A j \in ToApply : k <= j

\* Mutant: an option that fails is reported and the rest still applied.
configure_socket_carries_on ==
  /\ pc = "options"
  /\ \/ /\ ToApply = {}
        /\ Goto("install") /\ UNCHANGED <<sockfd, applied, errs>>
     \/ \E k \in DOMAIN SocketOptions :
          /\ NextOption(k)
          /\ applied' = applied \cup {SocketOptions[k]}
          /\ UNCHANGED <<pc, sockfd, errs>>
     \/ /\ ToApply # {} /\ Goto("install") /\ Complain
        /\ UNCHANGED <<sockfd, applied>>
  /\ UNCHANGED <<cmd, heap, handler, out, report, status, session>>

\* configure_socket(), one option (for -S: its resolution and the bind), and
\* socket_open()'s reaction to the first one that fails.
configure_socket ==
  /\ pc = "options"
  /\ \/ /\ ToApply = {}
        /\ Goto("install") /\ UNCHANGED <<sockfd, applied, errs>>
     \/ \E k \in DOMAIN SocketOptions :
          /\ NextOption(k)
          /\ applied' = applied \cup {SocketOptions[k]}
          /\ UNCHANGED <<pc, sockfd, errs>>
     \/ /\ ToApply # {}
        /\ Goto("destroy") /\ sockfd' = "closed" /\ Complain
        /\ UNCHANGED applied
  /\ UNCHANGED <<cmd, heap, handler, out, report, status, session>>

\* Mutant: the failure path of signal_install() forgets the socket.
signal_install_leaky ==
  /\ pc = "install"
  /\ \/ Goto("run") /\ handler' = TRUE /\ UNCHANGED <<sockfd, errs>>
     \/ Goto("destroy") /\ Complain /\ UNCHANGED <<handler, sockfd>>
  /\ UNCHANGED <<cmd, heap, applied, out, report, status, session>>

\* signal_install(), and main()'s reaction when it fails.
signal_install ==
  /\ pc = "install"
  /\ \/ Goto("run") /\ handler' = TRUE /\ UNCHANGED <<sockfd, errs>>
     \/ Goto("destroy") /\ sockfd' = "closed" /\ Complain /\ UNCHANGED handler
  /\ UNCHANGED <<cmd, heap, applied, out, report, status, session>>

\* Mutant: main() skips the summary of a session that counted nothing.
ping_run_unreported ==
  /\ pc = "run"
  /\ \/ Run!Begin
     \/ sent < MaxSent /\ Run!Transmit
     \/ recv < MaxRecv /\ Run!Collect
     \/ Run!Return
  /\ pc' = IF phase' # "over" THEN pc
           ELSE IF recv > 0 THEN "summary" ELSE "close"
  /\ UNCHANGED <<cmd, resources, output>>

\* A step of ping_run(); when the session is over main() goes on.
ping_run ==
  /\ pc = "run"
  /\ \/ Run!Begin
     \/ sent < MaxSent /\ Run!Transmit
     \/ recv < MaxRecv /\ Run!Collect
     \/ Run!Return
  /\ pc' = IF phase' = "over" THEN "summary" ELSE pc
  /\ UNCHANGED <<cmd, resources, output>>

summary ==
  /\ pc = "summary" /\ Goto("close")
  /\ out' = Append(out, "stats")
  /\ report' = print_stats(sent, recv)
  /\ UNCHANGED <<cmd, resources, errs, status, session>>

close ==
  /\ pc = "close" /\ Goto("destroy")
  /\ sockfd' = "closed"
  /\ UNCHANGED <<cmd, heap, applied, handler, output, session>>

\* Mutant: the exit status tells whether the session took place.
ctx_destroy_exit_zero ==
  /\ pc = "destroy"
  /\ heap' = {}
  /\ Exit(IF phase = "over" THEN 0 ELSE 1)
  /\ UNCHANGED <<cmd, sockfd, applied, handler, out, errs, report, session>>

\* ctx_destroy(), called by ctx_init() or main(), and main()'s return:
\* EXIT_FAILURE on the error paths and when nothing came back.
ctx_destroy ==
  /\ pc = "destroy"
  /\ heap' = {}
  /\ Exit(IF phase = "over" /\ recv # 0 THEN 0 ELSE 1)
  /\ UNCHANGED <<cmd, sockfd, applied, handler, out, errs, report, session>>

Main ==
  \/ parse_info \/ resolve_host \/ ctx_alloc_buffers \/ print_ping_banner
  \/ socket \/ configure_socket \/ signal_install \/ ping_run
  \/ summary \/ close \/ ctx_destroy

\* Ctrl+C: the default action until the handler is installed, the stop flag
\* from then on.  After the session nobody reads the flag any more.
SIGINT ==
  \/ /\ ~handler /\ pc \notin {"exit", "killed"}
     /\ Goto("killed")
     /\ UNCHANGED <<cmd, resources, output, session>>
  \/ /\ handler /\ pc # "exit" /\ Run!RequestStop
     /\ UNCHANGED <<cmd, pc, resources, output>>

Time ==
  /\ pc = "run" /\ now < MaxNow /\ Run!Pass
  /\ UNCHANGED <<cmd, pc, resources, output>>

Init ==
  /\ cmd \in CommandChoices
  /\ pc = "parse"
  /\ heap = {} /\ sockfd = "none" /\ applied = {} /\ handler = FALSE
  /\ out = <<>> /\ errs = 0 /\ status = -1
  /\ report = [forged |-> FALSE, loss |-> 0, rtt |-> FALSE]
  /\ opts \in SessionChoices
  /\ phase = "before" /\ stop = FALSE /\ now = 0 /\ start = 0
  /\ sent = 0 /\ recv = 0 /\ late = 0

Next == Main \/ SIGINT \/ Time

Spec == Init /\ [][Next]_vars

\* The process keeps running, and a session keeps PingSession's promise to
\* return when it was told to.
FairSpec ==
  /\ Spec
  /\ WF_vars(Main /\ pc # "run") /\ WF_vars(ping_run /\ Run!Begin)
  /\ WF_vars(ping_run /\ Run!Return /\ (stop \/ opts.limited))
-----------------------------------------------------------------------------
(* Properties.                                                             *)

\* Every variable keeps its type.
TypeOK ==
  /\ cmd \in Commands /\ pc \in Labels
  /\ heap \subseteq Buffers /\ sockfd \in {"none", "open", "closed"}
  /\ applied \subseteq cmd.options /\ handler \in BOOLEAN
  /\ out \in Seq({"banner", "stats"}) /\ errs \in Nat
  /\ report.loss \in Int /\ status \in {-1, 0, 1}
  /\ opts \in Run!Opts /\ phase \in {"before", "running", "over"}
  /\ stop \in BOOLEAN /\ now \in Nat /\ start \in Nat
  /\ sent \in Nat /\ recv \in Nat /\ late \in Nat

\* However far set-up came and whichever step failed, a process that exits
\* has released its buffers and closed its socket ("Either the context comes
\* back complete or nothing is left allocated"; socket_open() "owns the fd
\* until it successfully hands it back").
ReleasedAtExit == pc = "exit" => heap = {} /\ sockfd # "open"

\* While the session runs it has its buffers, an open socket and the handler,
\* and every option of the command line is in force before the first probe:
\* no packet "only half obeys the command line" (configure_socket()).
SessionIsEquipped ==
  phase = "running" =>
    heap = Buffers /\ sockfd = "open" /\ handler /\ applied = cmd.options

\* A process that exits has either run a session, and then bracketed it by
\* the banner and exactly one summary, or shown its help, or printed exactly
\* one diagnostic: each layer says of its caller "message already printed".
SummaryOrDiagnostic ==
  pc = "exit" =>
    \/ phase = "over" /\ out = <<"banner", "stats">> /\ errs = 0
    \/ cmd.verdict = "help" /\ out = <<>> /\ errs = 0
    \/ phase = "before" /\ "stats" \notin Range(out) /\ errs = 1

\* The exit status answers "is the host reachable": success exactly when a
\* reply was counted (or help was asked for), whatever ended the session.
StatusTellsReachability ==
  pc = "exit" => (status = 0 <=> recv > 0 \/ cmd.verdict = "help")

\* What the summary says of the session is true.
ReportIsTrue == "stats" \in Range(out) => TruthfulReport(report, sent, recv)

\* Once the handler is installed Ctrl+C ends the run cleanly: summary printed,
\* everything released, a status returned.
InterruptEndsCleanly ==
  handler /\ stop ~> pc = "exit" /\ out = <<"banner", "stats">>
=============================================================================
