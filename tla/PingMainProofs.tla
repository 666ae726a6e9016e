--------------------------- MODULE PingMainProofs ---------------------------
(***************************************************************************)
(* What TLAPS proves of PingMain: for every command line, every session    *)
(* and any bounds on it.                                                   *)
(***************************************************************************)
EXTENDS PingMain, ArithmeticLemmas

\* The steps from the first allocation on, and those of them that hold the
\* socket.
Holding == {"banner", "socket", "options", "install", "run", "summary", "close"}
Connected == {"options", "install", "run", "summary", "close"}

\* What each place in main() owes to the steps before it.
ResourceInv ==
  /\ pc \in {"parse", "resolve", "alloc"} => heap = {}
  /\ pc \in Holding => heap = Buffers
  /\ pc \in {"parse", "resolve", "alloc", "banner", "socket"} =>
       sockfd = "none" /\ applied = {}
  /\ pc \in Connected => sockfd = "open"
  /\ pc \in {"install", "run", "summary", "close"} => applied = cmd.options
  /\ pc \in {"destroy", "exit"} => sockfd # "open"
  /\ pc = "exit" => heap = {}
  /\ handler =>
       pc = "run" \/ (pc \in {"summary", "close", "destroy", "exit"}
                      /\ phase = "over")
  /\ pc \in {"run", "summary", "close"} => handler

\* Where the session can be.
PhaseInv ==
  /\ pc \notin {"run", "summary", "close", "destroy", "exit"} => phase = "before"
  /\ pc = "run" => phase # "over"
  /\ pc \in {"summary", "close"} => phase = "over"
  /\ pc = "destroy" => phase # "running"
  /\ pc = "exit" => phase # "running"
  /\ ~handler => phase = "before"
  /\ phase = "before" => sent = 0 /\ recv = 0
  /\ recv > 0 => sent > 0
  /\ sent <= MaxSent

\* What has been printed, and which way the program came.
OutputInv ==
  /\ pc \in {"resolve", "alloc"} \cup Holding \cup {"destroy"} =>
       cmd.verdict = "accepted"
  /\ pc \in {"parse", "resolve", "alloc", "banner"} => out = <<>> /\ errs = 0
  /\ pc \in {"socket", "options", "install", "run", "summary"} =>
       out = <<"banner">> /\ errs = 0
  /\ pc = "close" => out = <<"banner", "stats">> /\ errs = 0
  /\ pc = "destroy" =>
       \/ phase = "over" /\ out = <<"banner", "stats">> /\ errs = 0
       \/ phase = "before" /\ (out = <<>> \/ out = <<"banner">>) /\ errs = 1
  /\ pc = "exit" =>
       \/ phase = "over" /\ out = <<"banner", "stats">> /\ errs = 0
          /\ cmd.verdict = "accepted"
       \/ phase = "before" /\ cmd.verdict = "help" /\ out = <<>> /\ errs = 0
       \/ phase = "before" /\ cmd.verdict # "help"
          /\ (out = <<>> \/ out = <<"banner">>) /\ errs = 1
  /\ pc = "killed" => out = <<>> \/ out = <<"banner">>
  /\ out = <<"banner", "stats">> => report = print_stats(sent, recv)
  /\ pc = "exit" => (status = 0 <=> recv > 0 \/ cmd.verdict = "help")

MainInv == TypeOK /\ ResourceInv /\ PhaseInv /\ OutputInv

\* The loss is an integer whatever the counters are.
LEMMA LossType ==
  ASSUME NEW s \in Nat, NEW r \in Nat
  PROVE  loss_percent(s, r) \in Int
<1>1. Wrap((s - r) * 100) \in Int
  BY IntAssumption DEF Wrap
<1> QED BY <1>1 DEF loss_percent, CDiv

\* Once nothing is left to apply, every option asked for is in force.
LEMMA AllApplied ==
  ASSUME TypeOK, ToApply = {}
  PROVE  applied = cmd.options
<1>1. cmd.options \subseteq Range(SocketOptions) /\ applied \subseteq cmd.options
  BY DEF TypeOK, Commands
<1>2. ASSUME NEW o \in cmd.options PROVE o \in applied
  <2>1. PICK k \in DOMAIN SocketOptions : o = SocketOptions[k]
    BY <1>1 DEF Range
  <2> QED BY <2>1 DEF ToApply
<1> QED BY <1>1, <1>2

\* The three things stdout can hold are distinct.
LEMMA Outputs ==
  /\ <<"banner">> # <<"banner", "stats">>
  /\ <<>> # <<"banner", "stats">>
  /\ Append(<<"banner">>, "stats") = <<"banner", "stats">>
  /\ Append(<<>>, "banner") = <<"banner">>
<1>1. Len(<<"banner">>) = 1 /\ Len(<<"banner", "stats">>) = 2
  OBVIOUS
<1>2. <<"banner">> # <<"banner", "stats">> /\ <<>> # <<"banner", "stats">>
  BY <1>1
<1>3. Append(<<"banner">>, "stats") = <<"banner", "stats">>
  <2> DEFINE s == Append(<<"banner">>, "stats")
  <2>1. <<"banner">> \in Seq({"banner", "stats"})
    OBVIOUS
  <2>2. /\ s \in Seq({"banner", "stats"}) /\ Len(s) = 2
        /\ s[1] = "banner" /\ s[2] = "stats"
    BY <1>1, <2>1
  <2> HIDE DEF s
  <2>3. s = <<"banner", "stats">>
    BY <2>2
  <2> QED BY <2>3 DEF s
<1>4. Append(<<>>, "banner") = <<"banner">>
  OBVIOUS
<1> QED BY <1>2, <1>3, <1>4

\* A program that has not started satisfies the invariant.
LEMMA MainInit == Init => MainInv
<1> SUFFICES ASSUME Init PROVE MainInv
  OBVIOUS
<1>1. TypeOK
  <2>1. cmd \in Commands /\ opts \in Run!Opts
    BY MainAssumption DEF Init
  <2>2. out \in Seq({"banner", "stats"})
    BY DEF Init
  <2>3. report.loss \in Int
    BY DEF Init
  <2> QED BY <2>1, <2>2, <2>3 DEF Init, TypeOK, Labels
<1>2. ResourceInv
  BY DEF Init, ResourceInv, Holding, Connected
<1>3. PhaseInv
  BY MainAssumption DEF Init, PhaseInv
<1>4. OutputInv
  BY DEF Init, OutputInv, Holding
<1> QED BY <1>1, <1>2, <1>3, <1>4 DEF MainInv

\* Whatever the step, TypeOK is kept.
LEMMA MainTypeStep == TypeOK /\ [Next]_vars => TypeOK'
<1> SUFFICES ASSUME TypeOK, [Next]_vars PROVE TypeOK'
  OBVIOUS
<1> USE DEF resources, output, session, Goto, Exit, Complain
<1>1. CASE parse_info
  BY <1>1 DEF parse_info, TypeOK, Labels
<1>2. CASE resolve_host
  BY <1>2 DEF resolve_host, TypeOK, Labels
<1>3. CASE ctx_alloc_buffers
  BY <1>3 DEF ctx_alloc_buffers, TypeOK, Labels
<1>4. CASE print_ping_banner
  <2>1. out' \in Seq({"banner", "stats"})
    BY <1>4 DEF print_ping_banner, TypeOK
  <2> QED BY <1>4, <2>1 DEF print_ping_banner, TypeOK, Labels
<1>5. CASE socket
  BY <1>5 DEF socket, TypeOK, Labels
<1>6. CASE configure_socket
  <2>1. applied' \subseteq cmd.options
    BY <1>6 DEF configure_socket, NextOption, ToApply, TypeOK
  <2> QED BY <1>6, <2>1 DEF configure_socket, TypeOK, Labels
<1>7. CASE signal_install
  <2>1. handler' \in BOOLEAN
    BY <1>7 DEF signal_install, TypeOK
  <2>2. errs' \in Nat /\ sockfd' \in {"none", "open", "closed"} /\ pc' \in Labels
    BY <1>7 DEF signal_install, TypeOK, Labels
  <2> QED BY <1>7, <2>1, <2>2 DEF signal_install, TypeOK
<1>8. CASE ping_run
  BY <1>8 DEF ping_run, TypeOK, Labels, Run!Begin, Run!Transmit, Run!Collect,
              Run!Return
<1>9. CASE summary
  <2>1. out' \in Seq({"banner", "stats"})
    BY <1>9 DEF summary, TypeOK
  <2>2. report'.loss \in Int
    BY <1>9, LossType DEF summary, TypeOK, print_stats
  <2> QED BY <1>9, <2>1, <2>2 DEF summary, TypeOK, Labels
<1>10. CASE close
  BY <1>10 DEF close, TypeOK, Labels
<1>11. CASE ctx_destroy
  BY <1>11 DEF ctx_destroy, TypeOK, Labels
<1>12. CASE SIGINT
  BY <1>12 DEF SIGINT, TypeOK, Labels, Run!RequestStop
<1>13. CASE Time
  BY <1>13 DEF Time, TypeOK, Run!Pass
<1>14. CASE UNCHANGED vars
  BY <1>14 DEF vars, TypeOK
<1> QED BY <1>1, <1>2, <1>3, <1>4, <1>5, <1>6, <1>7, <1>8, <1>9, <1>10, <1>11,
           <1>12, <1>13, <1>14 DEF Next, Main

\* What main() holds at each place is kept up by every step.
LEMMA ResourceStep == MainInv /\ [Next]_vars => ResourceInv'
<1> SUFFICES ASSUME MainInv, [Next]_vars PROVE ResourceInv'
  OBVIOUS
<1> USE DEF resources, output, session, Goto, Exit, Complain
<1>0. TypeOK /\ ResourceInv /\ PhaseInv
  BY DEF MainInv
<1>1. CASE parse_info
  BY <1>0, <1>1 DEF parse_info, ResourceInv, PhaseInv, TypeOK, Holding, Connected
<1>2. CASE resolve_host
  BY <1>0, <1>2 DEF resolve_host, ResourceInv, PhaseInv, TypeOK, Holding, Connected
<1>3. CASE ctx_alloc_buffers
  BY <1>0, <1>3 DEF ctx_alloc_buffers, ResourceInv, PhaseInv, TypeOK, Holding, Connected
<1>4. CASE print_ping_banner
  BY <1>0, <1>4 DEF print_ping_banner, ResourceInv, PhaseInv, TypeOK, Holding, Connected
<1>5. CASE socket
  BY <1>0, <1>5 DEF socket, ResourceInv, PhaseInv, TypeOK, Holding, Connected
<1>6. CASE configure_socket
  <2>1. CASE ToApply = {} /\ pc' = "install"
    BY <1>0, <1>6, <2>1, AllApplied
       DEF configure_socket, ResourceInv, PhaseInv, Holding, Connected
  <2>2. CASE pc' = pc /\ sockfd' = sockfd
    BY <1>0, <1>6, <2>2
       DEF configure_socket, ResourceInv, PhaseInv, Holding, Connected
  <2>3. CASE pc' = "destroy" /\ sockfd' = "closed"
    BY <1>0, <1>6, <2>3
       DEF configure_socket, ResourceInv, PhaseInv, Holding, Connected
  <2> QED BY <1>6, <2>1, <2>2, <2>3 DEF configure_socket
<1>7. CASE signal_install
  BY <1>0, <1>7 DEF signal_install, ResourceInv, PhaseInv, TypeOK, Holding, Connected
<1>8. CASE ping_run
  BY <1>0, <1>8 DEF ping_run, Run!Begin, Run!Transmit, Run!Collect, Run!Return, ResourceInv, PhaseInv, TypeOK, Holding, Connected
<1>9. CASE summary
  BY <1>0, <1>9 DEF summary, ResourceInv, PhaseInv, TypeOK, Holding, Connected
<1>10. CASE close
  BY <1>0, <1>10 DEF close, ResourceInv, PhaseInv, TypeOK, Holding, Connected
<1>11. CASE ctx_destroy
  BY <1>0, <1>11 DEF ctx_destroy, ResourceInv, PhaseInv, TypeOK, Holding, Connected
<1>12. CASE SIGINT
  BY <1>0, <1>12 DEF SIGINT, Run!RequestStop, ResourceInv, PhaseInv, TypeOK, Holding, Connected
<1>13. CASE Time
  BY <1>0, <1>13 DEF Time, Run!Pass, ResourceInv, PhaseInv, TypeOK, Holding, Connected
<1>14. CASE UNCHANGED vars
  BY <1>0, <1>14 DEF vars, ResourceInv, PhaseInv, TypeOK, Holding, Connected
<1> QED BY <1>1, <1>2, <1>3, <1>4, <1>5, <1>6, <1>7, <1>8, <1>9, <1>10, <1>11,
           <1>12, <1>13, <1>14 DEF Next, Main

\* The session is where main() takes it to be.
LEMMA PhaseStep == MainInv /\ [Next]_vars => PhaseInv'
<1> SUFFICES ASSUME MainInv, [Next]_vars PROVE PhaseInv'
  OBVIOUS
<1> USE DEF resources, output, session, Goto, Exit, Complain
<1>0. TypeOK /\ ResourceInv /\ PhaseInv
  BY DEF MainInv
<1>1. CASE parse_info
  BY <1>0, <1>1 DEF parse_info, ResourceInv, PhaseInv, TypeOK
<1>2. CASE resolve_host
  BY <1>0, <1>2 DEF resolve_host, ResourceInv, PhaseInv, TypeOK
<1>3. CASE ctx_alloc_buffers
  BY <1>0, <1>3 DEF ctx_alloc_buffers, ResourceInv, PhaseInv, TypeOK
<1>4. CASE print_ping_banner
  BY <1>0, <1>4 DEF print_ping_banner, ResourceInv, PhaseInv, TypeOK
<1>5. CASE socket
  BY <1>0, <1>5 DEF socket, ResourceInv, PhaseInv, TypeOK
<1>6. CASE configure_socket
  BY <1>0, <1>6 DEF configure_socket, ResourceInv, PhaseInv, TypeOK
<1>7. CASE signal_install
  BY <1>0, <1>7 DEF signal_install, ResourceInv, PhaseInv, TypeOK
<1>8. CASE ping_run
  <2>0. pc = "run" /\ handler /\ handler' = handler
    BY <1>0, <1>8 DEF ping_run, ResourceInv, PhaseInv
  <2>1. CASE Run!Begin
    BY <1>0, <1>8, <2>0, <2>1 DEF ping_run, Run!Begin, PhaseInv, TypeOK
  <2>2. CASE sent < MaxSent /\ Run!Transmit
    BY <1>0, <1>8, <2>0, <2>2, MainAssumption
       DEF ping_run, Run!Transmit, PhaseInv, TypeOK
  <2>3. CASE recv < MaxRecv /\ Run!Collect
    BY <1>0, <1>8, <2>0, <2>3 DEF ping_run, Run!Collect, PhaseInv, TypeOK
  <2>4. CASE Run!Return
    BY <1>0, <1>8, <2>0, <2>4 DEF ping_run, Run!Return, PhaseInv, TypeOK
  <2> QED BY <1>8, <2>1, <2>2, <2>3, <2>4 DEF ping_run
<1>9. CASE summary
  BY <1>0, <1>9 DEF summary, ResourceInv, PhaseInv, TypeOK
<1>10. CASE close
  BY <1>0, <1>10 DEF close, ResourceInv, PhaseInv, TypeOK
<1>11. CASE ctx_destroy
  BY <1>0, <1>11 DEF ctx_destroy, ResourceInv, PhaseInv, TypeOK
<1>12. CASE SIGINT
  <2>1. CASE ~handler /\ pc' = "killed"
    BY <1>0, <1>12, <2>1 DEF SIGINT, PhaseInv, Run!RequestStop
  <2>2. CASE handler /\ pc' = pc
    BY <1>0, <1>12, <2>2 DEF SIGINT, PhaseInv, Run!RequestStop
  <2> QED BY <1>12, <2>1, <2>2 DEF SIGINT
<1>13. CASE Time
  BY <1>0, <1>13 DEF Time, Run!Pass, ResourceInv, PhaseInv, TypeOK
<1>14. CASE UNCHANGED vars
  BY <1>0, <1>14 DEF vars, ResourceInv, PhaseInv, TypeOK
<1> QED BY <1>1, <1>2, <1>3, <1>4, <1>5, <1>6, <1>7, <1>8, <1>9, <1>10, <1>11,
           <1>12, <1>13, <1>14 DEF Next, Main

\* What was printed matches the way the program came.
LEMMA OutputStep == MainInv /\ [Next]_vars => OutputInv'
<1> SUFFICES ASSUME MainInv, [Next]_vars PROVE OutputInv'
  OBVIOUS
<1> USE DEF resources, output, session, Goto, Exit, Complain
<1>0. TypeOK /\ ResourceInv /\ PhaseInv /\ OutputInv
  BY DEF MainInv
<1>1. CASE parse_info
  BY <1>0, <1>1 DEF parse_info, ResourceInv, PhaseInv, OutputInv, TypeOK, Holding
<1>2. CASE resolve_host
  BY <1>0, <1>2 DEF resolve_host, ResourceInv, PhaseInv, OutputInv, TypeOK, Holding
<1>3. CASE ctx_alloc_buffers
  BY <1>0, <1>3 DEF ctx_alloc_buffers, ResourceInv, PhaseInv, OutputInv, TypeOK, Holding
<1>4. CASE print_ping_banner
  BY <1>0, <1>4 DEF print_ping_banner, ResourceInv, PhaseInv, OutputInv, TypeOK, Holding
<1>5. CASE socket
  BY <1>0, <1>5 DEF socket, ResourceInv, PhaseInv, OutputInv, TypeOK, Holding
<1>6. CASE configure_socket
  BY <1>0, <1>6 DEF configure_socket, ResourceInv, PhaseInv, OutputInv, TypeOK, Holding
<1>7. CASE signal_install
  <2>0. /\ pc = "install" /\ phase = "before" /\ cmd.verdict = "accepted"
        /\ out = <<"banner">> /\ out # <<"banner", "stats">> /\ errs = 0
    BY <1>0, <1>7, Outputs DEF signal_install, PhaseInv, OutputInv, Holding
  <2>1. CASE pc' = "run" /\ errs' = errs
    BY <1>7, <2>0, <2>1 DEF signal_install, OutputInv, Holding
  <2>2. CASE pc' = "destroy" /\ errs' = errs + 1
    BY <1>7, <2>0, <2>2 DEF signal_install, OutputInv, Holding
  <2> QED BY <1>7, <2>1, <2>2 DEF signal_install
<1>8. CASE ping_run
  <2>1. /\ cmd.verdict = "accepted" /\ out = <<"banner">> /\ errs = 0
        /\ out # <<"banner", "stats">>
    BY <1>0, <1>8, Outputs DEF ping_run, OutputInv, Holding
  <2>2. pc' \in {"run", "summary"} /\ UNCHANGED <<cmd, out, errs>>
    BY <1>8 DEF ping_run
  <2> QED BY <2>1, <2>2 DEF OutputInv, Holding
<1>9. CASE summary
  <2>1. cmd.verdict = "accepted" /\ out' = <<"banner", "stats">> /\ errs' = 0
    BY <1>0, <1>9, Outputs DEF summary, OutputInv, Holding
  <2>2. report' = print_stats(sent', recv')
    BY <1>9 DEF summary
  <2> QED BY <1>9, <2>1, <2>2 DEF summary, OutputInv, Holding
<1>10. CASE close
  BY <1>0, <1>10 DEF close, ResourceInv, PhaseInv, OutputInv, TypeOK, Holding
<1>11. CASE ctx_destroy
  BY <1>0, <1>11 DEF ctx_destroy, ResourceInv, PhaseInv, OutputInv, TypeOK, Holding
<1>12. CASE SIGINT
  <2>1. CASE ~handler /\ pc' = "killed"
    <3>1. pc # "exit" /\ UNCHANGED <<cmd, output, session>>
      BY <1>12, <2>1 DEF SIGINT
    <3>2. pc \in Labels /\ pc \notin {"close", "killed"} /\ phase = "before"
      BY <1>0, <1>12, <2>1 DEF SIGINT, TypeOK, ResourceInv, PhaseInv
    <3>3. out = <<>> \/ out = <<"banner">>
      BY <1>0, <3>1, <3>2 DEF OutputInv, Labels
    <3> QED BY <2>1, <3>1, <3>3, Outputs DEF OutputInv, Holding
  <2>2. CASE handler /\ pc' = pc
    BY <1>0, <1>12, <2>2 DEF SIGINT, OutputInv, Run!RequestStop
  <2> QED BY <1>12, <2>1, <2>2 DEF SIGINT
<1>13. CASE Time
  BY <1>0, <1>13 DEF Time, Run!Pass, ResourceInv, PhaseInv, OutputInv, TypeOK, Holding
<1>14. CASE UNCHANGED vars
  BY <1>0, <1>14 DEF vars, ResourceInv, PhaseInv, OutputInv, TypeOK, Holding
<1> QED BY <1>1, <1>2, <1>3, <1>4, <1>5, <1>6, <1>7, <1>8, <1>9, <1>10, <1>11,
           <1>12, <1>13, <1>14 DEF Next, Main
-----------------------------------------------------------------------------
(* Theorems.                                                               *)

\* The invariant holds throughout.
LEMMA MainAlways == Spec => []MainInv
<1>1. MainInv /\ [Next]_vars => MainInv'
  BY MainTypeStep, ResourceStep, PhaseStep, OutputStep DEF MainInv
<1> QED BY MainInit, <1>1, PTL DEF Spec

\* Every variable of main() and of the session it runs keeps its type.
THEOREM MainTypes == Spec => []TypeOK
<1>1. MainInv => TypeOK
  BY DEF MainInv
<1> QED BY MainAlways, <1>1, PTL

\* Whichever call fails, in whatever order the options are applied, a process
\* that exits holds neither a buffer nor the socket: every error path of
\* main(), socket_open() and ctx_init() releases what was taken before it.
THEOREM NothingLeaks == Spec => []ReleasedAtExit
<1>1. MainInv => ReleasedAtExit
  BY DEF MainInv, ResourceInv, ReleasedAtExit
<1> QED BY MainAlways, <1>1, PTL

\* No probe leaves before the buffers, the socket, the handler and all of the
\* options asked for are in place, for every set of options.
THEOREM SessionEquipped == Spec => []SessionIsEquipped
<1>1. MainInv => SessionIsEquipped
  <2> SUFFICES ASSUME MainInv, phase = "running"
               PROVE  heap = Buffers /\ sockfd = "open" /\ handler
                      /\ applied = cmd.options
    BY DEF SessionIsEquipped
  <2>1. pc = "run"
    BY DEF MainInv, TypeOK, Labels, PhaseInv
  <2> QED BY <2>1 DEF MainInv, ResourceInv, Holding, Connected
<1> QED BY MainAlways, <1>1, PTL

\* What can be on stdout: nothing, the banner, or the banner and one summary.
LEMMA OutputCases ==
  MainInv => \/ out = <<>> \/ out = <<"banner">>
             \/ out = <<"banner", "stats">> /\ report = print_stats(sent, recv)
BY DEF MainInv, TypeOK, Labels, OutputInv

\* Only a printed summary puts "stats" on stdout.
LEMMA SummaryPrinted ==
  ASSUME "stats" \in Range(out), out = <<>> \/ out = <<"banner">>
  PROVE  FALSE
<1>1. PICK k \in DOMAIN out : out[k] = "stats"
  BY DEF Range
<1>2. CASE out = <<>>
  BY <1>1, <1>2
<1>3. CASE out = <<"banner">>
  BY <1>1, <1>3
<1> QED BY <1>2, <1>3

\* A process that exits has printed the banner and exactly one summary, or
\* its help, or exactly one diagnostic, on every path through main().
THEOREM ExplainsItself == Spec => []SummaryOrDiagnostic
<1>1. MainInv => SummaryOrDiagnostic
  <2> SUFFICES ASSUME MainInv, pc = "exit"
               PROVE  \/ phase = "over" /\ out = <<"banner", "stats">> /\ errs = 0
                      \/ cmd.verdict = "help" /\ out = <<>> /\ errs = 0
                      \/ phase = "before" /\ "stats" \notin Range(out) /\ errs = 1
    BY DEF SummaryOrDiagnostic
  <2> QED BY SummaryPrinted DEF MainInv, OutputInv
<1> QED BY MainAlways, <1>1, PTL

\* The exit status is 0 exactly when a reply was counted or help was asked
\* for: neither an interrupt nor a failure on the way changes that.
THEOREM StatusIsReachability == Spec => []StatusTellsReachability
<1>1. MainInv => StatusTellsReachability
  BY DEF MainInv, OutputInv, StatusTellsReachability
<1> QED BY MainAlways, <1>1, PTL

\* print_stats() is truthful about a session whose loss, in hundredths, fits
\* an int; replies to a session that sent nothing do not exist.
LEMMA StatsTruthful ==
  ASSUME NEW s \in Nat, NEW n \in Nat, n > 0 => s > 0, 100 * s <= INT_MAX
  PROVE  TruthfulReport(print_stats(s, n), s, n)
<1> DEFINE r == print_stats(s, n)
<1>1. /\ r.forged <=> n > s
      /\ r.rtt <=> n > 0
  <2>1. r.forged = (s > 0 /\ n > s)
    BY Zenon DEF print_stats
  <2>2. r.rtt = (n # 0)
    BY Zenon DEF print_stats
  <2>3. (s > 0 /\ n > s) <=> n > s
    OBVIOUS
  <2>4. (n # 0) <=> n > 0
    OBVIOUS
  <2> HIDE DEF r
  <2>5. r.forged <=> n > s
    BY <2>1, <2>3, Zenon
  <2>6. r.rtt <=> n > 0
    BY <2>2, <2>4, Zenon
  <2> QED BY <2>5, <2>6
<1>2. ASSUME ~(n > s)
      PROVE  /\ r.loss \in 0 .. 100
             /\ r.loss * s <= 100 * (s - n)
             /\ s > 0 => 100 * (s - n) < (r.loss + 1) * s
  <2>1. r.loss = loss_percent(s, n)
    BY <1>2 DEF print_stats
  <2>2. CASE s = 0
    BY <1>2, <2>1, <2>2 DEF loss_percent
  <2>3. CASE s > 0
    <3> DEFINE x == (s - n) * 100
    <3>1. x \in 0 .. INT_MAX /\ x <= 100 * s /\ x = 100 * (s - n)
      BY <1>2, IntAssumption
    <3>2. Wrap(x) = x
      BY <3>1, WrapIdentity, IntAssumption DEF Wrap
    <3>3. r.loss = x \div s
      BY <2>1, <2>3, <3>1, <3>2 DEF loss_percent, CDiv
    <3>4. r.loss \in Nat /\ r.loss * s <= x /\ x < (r.loss + 1) * s
      BY <2>3, <3>1, <3>3, Quotient
    <3>5. r.loss <= 100
      <4> HIDE DEF x, r
      <4>1. SUFFICES ASSUME r.loss >= 101 PROVE FALSE
        BY <3>4
      <4>2. r.loss * s >= 101 * s
        BY <2>3, <3>4, <4>1
      <4> QED BY <2>3, <3>1, <3>4, <4>2
    <3> QED BY <3>1, <3>4, <3>5
  <2> QED BY <2>2, <2>3
<1> QED BY <1>1, <1>2 DEF TruthfulReport

\* The summary is true of every session of up to INT_MAX / 100 probes.  The
\* hypothesis cannot be dropped: print_stats() multiplies the packets lost by
\* 100 in an int, and TLC finds the session past that bound it is wrong about.
THEOREM SummaryIsTrue ==
  ASSUME 100 * MaxSent <= INT_MAX
  PROVE  Spec => []ReportIsTrue
<1>1. MainInv => ReportIsTrue
  <2> SUFFICES ASSUME MainInv, "stats" \in Range(out)
               PROVE  TruthfulReport(report, sent, recv)
    BY DEF ReportIsTrue
  <2>1. report = print_stats(sent, recv)
    BY OutputCases, SummaryPrinted
  <2>2. sent \in Nat /\ recv \in Nat /\ (recv > 0 => sent > 0) /\ sent <= MaxSent
    BY DEF MainInv, TypeOK, PhaseInv
  <2>3. 100 * sent <= INT_MAX
    BY <2>2, MainAssumption, IntAssumption
  <2> QED BY <2>1, <2>2, <2>3, StatsTruthful
<1> QED BY MainAlways, <1>1, PTL
=============================================================================
