----------------------------- MODULE IcmpDrain -----------------------------
(***************************************************************************)
(* The drain of src/net/ping_receive.c and src/net/ping_icmp_error.c, one  *)
(* datagram after another through the one receive buffer.  recvbuf is      *)
(* never cleared: beyond the n bytes just received lie those of earlier    *)
(* datagrams, so what matters is how far each step reads.  PingLoop takes  *)
(* the outcome as one operator, Verdict; here its steps are taken apart.   *)
(***************************************************************************)
EXTENDS IcmpReceive

CONSTANTS
  FlagChoices,    \* the options the receive path reads
  Wires           \* the datagrams that may arrive

VARIABLES
  flags, wire,
  n,          \* bytes recvfrom() returned
  ihl,        \* IP header length found by locate_icmp()
  pc,
  reach,      \* end of the furthest byte read of this datagram
  verdict     \* what became of it, see Verdict

vars == <<flags, wire, n, ihl, pc, reach, verdict>>

Flags == [quiet: BOOLEAN, quiet_errors: BOOLEAN, verbose: BOOLEAN,
          has_packet_size: BOOLEAN, packet_size: Nat]

ASSUME DrainAssumption == FlagChoices \subseteq Flags /\ Wires \subseteq Wire

\* No datagram received yet.
Nothing == [EchoReply(0, [has_packet_size |-> FALSE]) EXCEPT !.len = 0]

\* Byte offsets: the end of a field in the IP and in the ICMP header.
IP_HL_END == 1
TYPE_CODE_END == 2
ID_END == 6
SEQUENCE_END == 8

Read(end) == reach' = IF end > reach THEN end ELSE reach

\* The loop body is done with this datagram.
Settle(v) == pc' = "continue" /\ verdict' = v

Goto(l) == pc' = l /\ UNCHANGED verdict
-----------------------------------------------------------------------------
\* The socket is readable and hands over the next datagram.
receive ==
  /\ pc = "recvfrom"
  /\ wire' \in Wires /\ n' = recvfrom(wire', flags)
  /\ Goto("locate")
  /\ UNCHANGED <<flags, ihl, reach>>

\* locate_icmp(): ip_hl is read behind the first gate.
locate ==
  /\ pc = "locate"
  /\ ihl' = locate_icmp(wire, n)
  /\ IF n < IP_HDR THEN UNCHANGED reach ELSE Read(IP_HL_END)
  /\ IF ihl' < 0 THEN Settle("skip") ELSE Goto("checksum")
  /\ UNCHANGED <<flags, wire, n>>

\* checksum_ok() touches the checksum field and reads all that was received.
checksum ==
  /\ pc = "checksum"
  /\ Read(IF n < ihl + ICMP_HDR THEN ihl + ICMP_HDR ELSE n)
  /\ IF checksum_ok(wire, ihl, n) THEN Goto("classify") ELSE Settle("mismatch")
  /\ UNCHANGED <<flags, wire, n, ihl>>

\* Mutant: an echo reply is told by its type alone.
classify_type_only ==
  /\ pc = "classify"
  /\ Read(ihl + TYPE_CODE_END)
  /\ Goto(IF wire.type # 0 THEN "error" ELSE "filter")
  /\ UNCHANGED <<flags, wire, n, ihl>>

\* type and code.
classify ==
  /\ pc = "classify"
  /\ Read(ihl + TYPE_CODE_END)
  /\ Goto(IF wire.type # 0 \/ wire.code # 0 THEN "error" ELSE "filter")
  /\ UNCHANGED <<flags, wire, n, ihl>>

\* handle_icmp_error(): the quoted ip_hl is read behind its own gate, id and
\* sequence of the quoted probe behind quoted_probe().
icmp_error ==
  /\ pc = "error"
  /\ LET quote_off == ihl + ICMP_HDR IN
     Read(IF ~is_icmp_error_type(wire.type) \/ n < quote_off + IP_HDR THEN 0
          ELSE IF quoted_probe(wire, ihl, n)
          THEN quote_off + 4 * wire.inner_hl + SEQUENCE_END
          ELSE quote_off + IP_HL_END)
  /\ Settle(IF handle_icmp_error(wire, ihl, n, flags) THEN "error" ELSE "skip")
  /\ UNCHANGED <<flags, wire, n, ihl>>

\* The id filter, then record_rtt() and report_reply().
filter ==
  /\ pc = "filter"
  /\ Read(ihl + (IF wire.id = MyId THEN SEQUENCE_END ELSE ID_END))
  /\ Settle(IF wire.id = MyId THEN "reply" ELSE "skip")
  /\ UNCHANGED <<flags, wire, n, ihl>>

\* while (1): no local of ping_receive() outlives an iteration.
again ==
  /\ pc = "continue"
  /\ wire' = Nothing /\ n' = 0 /\ ihl' = 0 /\ reach' = 0
  /\ pc' = "recvfrom" /\ verdict' = "skip"
  /\ UNCHANGED flags

Init ==
  /\ flags \in FlagChoices /\ wire = Nothing
  /\ n = 0 /\ ihl = 0 /\ reach = 0
  /\ pc = "recvfrom" /\ verdict = "skip"

Next ==
  \/ receive \/ again \/ locate \/ checksum \/ classify \/ icmp_error \/ filter

Spec == Init /\ [][Next]_vars
-----------------------------------------------------------------------------
(* Properties.                                                             *)

\* Nothing is read beyond the bytes received: "do the bytes I am about to read
\* actually exist?" (ping_receive.c), "a truncated quote must be skipped, not
\* read past" (ping_icmp_error.c).  A step too far would read what an earlier
\* datagram left in recvbuf, or past its end.
ReadsReceivedBytes == reach <= n /\ n <= recvbuf_len(flags)

\* The steps of the drain come to the outcome PingLoop uses.
StepsGiveVerdict == pc = "continue" => verdict = Verdict(wire, flags)

\* An echo reply to a probe of ours, whatever -s asked for and whatever
\* options its IP header carries: all of it was sent by the far host.
OwnReply(w) ==
  /\ w.type = 0 /\ w.code = 0 /\ w.id = MyId /\ w.intact /\ w.ip_hl >= 5
  /\ w.len = 4 * w.ip_hl + ICMP_HDR + payload_len(flags)

\* A reply to our own probe is counted: recvbuf is never too small for it
\* (ctx_size_buffers(): "the payload plus header slack").
OwnReplyCounted == pc = "continue" /\ OwnReply(wire) => verdict = "reply"

\* An ICMP error about a probe of ours, which left without IP options: it
\* quotes the probe's headers and any part of its payload.
OwnError(w) ==
  LET quote == 4 * w.ip_hl + ICMP_HDR + IP_HDR + ICMP_HDR IN
  /\ is_icmp_error_type(w.type) /\ w.intact /\ w.ip_hl >= 5
  /\ w.inner_hl = 5 /\ w.inner_id = MyId
  /\ w.len \in quote .. quote + payload_len(flags)

\* An error about our own probe is shown, however much of the probe the
\* router quotes, unless -q or -Q asks for silence.
OwnErrorShown ==
  pc = "continue" /\ OwnError(wire) /\ ~flags.quiet /\ ~flags.quiet_errors
  => verdict = "error"
=============================================================================
