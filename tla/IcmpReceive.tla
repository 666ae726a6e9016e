----------------------------- MODULE IcmpReceive -----------------------------
(***************************************************************************)
(* What the receive path decides about ONE datagram: the gates and filters *)
(* of ping_receive() (src/net/ping_receive.c), the ICMP-error path         *)
(* (src/net/ping_icmp_error.c) and the size of the buffer the datagram is  *)
(* read into (src/core/ping_context.c).                                    *)
(*                                                                         *)
(* A datagram is abstracted to the header fields the code reads and to how *)
(* its checksum verifies; payload bytes are left out.                      *)
(***************************************************************************)
EXTENDS Integers

CONSTANTS
  Ids,    \* 16-bit ICMP identifiers
  MyId    \* ctx->id: htons((uint16_t)getpid())

ASSUME IdAssumption == MyId \in Ids

IP_HDR   == 20    \* sizeof(struct ip)
ICMP_HDR == 8     \* sizeof(t_icmp_hdr)
PING_PAYLOAD_SIZE  == 56
PING_RECVBUF_MIN   == 1024
PING_RECVBUF_SLACK == 128

\* A datagram on the wire.
Wire == [len:      Nat,         \* total length, IP header included
         ip_hl:    0 .. 15,     \* IP header length field, in 32-bit words
         type:     0 .. 255,
         code:     0 .. 255,
         intact:   BOOLEAN,     \* does the ICMP checksum verify over all of it?
         zerotail: BOOLEAN,     \* ... and still without the bytes a short
                                \*     receive buffer cuts off?
         id:       Ids,
         sequence: Nat,
         inner_hl: 0 .. 15,     \* header length field of the quoted IP header
         inner_id: Ids]         \* id in the quoted ICMP header

-----------------------------------------------------------------------------
\* ctx_size_buffers(): what we send and what we can receive.
payload_len(flags) ==
  IF flags.has_packet_size THEN flags.packet_size ELSE PING_PAYLOAD_SIZE

\* Mutant: ctx_size_buffers() that forgets the header slack.
recvbuf_len_tight(flags) ==
  IF payload_len(flags) < PING_RECVBUF_MIN
  THEN PING_RECVBUF_MIN ELSE payload_len(flags)

recvbuf_len(flags) ==
  LET want == payload_len(flags) + PING_RECVBUF_SLACK
  IN  IF want < PING_RECVBUF_MIN THEN PING_RECVBUF_MIN ELSE want

\* recvfrom() into recvbuf: a longer datagram is silently cut.
recvfrom(w, flags) ==
  IF w.len > recvbuf_len(flags) THEN recvbuf_len(flags) ELSE w.len

-----------------------------------------------------------------------------
\* Mutant: locate_icmp() without gate 3.
locate_icmp_ungated(w, n) ==
  IF n < IP_HDR \/ 4 * w.ip_hl < IP_HDR THEN -1 ELSE 4 * w.ip_hl

\* The IP header length in bytes, or -1 when one of the three gates closes.
locate_icmp(w, n) ==
  LET ihl == 4 * w.ip_hl
  IN  IF n < IP_HDR \/ ihl < IP_HDR \/ n < ihl + ICMP_HDR THEN -1 ELSE ihl

\* Recompute over bytes off .. n - 1 and compare.  The sender summed the ICMP
\* message, which starts behind the IP header; a sum over any other range is
\* taken to differ, unless the bytes it misses were zeros at the end.
checksum_ok(w, off, n) ==
  w.intact /\ off = 4 * w.ip_hl /\ (n = w.len \/ w.zerotail)

is_icmp_error_type(type) == type \in {3, 4, 5, 11, 12}

\* Mutant: one byte more is asked for.
quoted_probe_strict(w, ihl, n) ==
  /\ w.inner_hl >= 5
  /\ n > ihl + ICMP_HDR + 4 * w.inner_hl + ICMP_HDR

\* Is the quoted ICMP header fully present in the n bytes received?
quoted_probe(w, ihl, n) ==
  LET quote_off == ihl + ICMP_HDR
      inner_ihl == 4 * w.inner_hl
  IN  /\ n >= quote_off + IP_HDR
      /\ inner_ihl >= IP_HDR
      /\ n >= quote_off + inner_ihl + ICMP_HDR

\* Does handle_icmp_error() print its line?
handle_icmp_error(w, ihl, n, flags) ==
  /\ is_icmp_error_type(w.type)
  /\ quoted_probe(w, ihl, n)
  /\ w.inner_id = MyId \/ flags.verbose
  /\ ~flags.quiet /\ ~flags.quiet_errors

\* Mutant: an echo reply is counted whoever it is for.
Verdict_anyone(w, flags) ==
  LET n   == recvfrom(w, flags)
      ihl == locate_icmp(w, n)
  IN  IF ihl < 0 THEN "skip"
      ELSE IF ~checksum_ok(w, ihl, n) THEN "mismatch"
      ELSE IF w.type # 0 \/ w.code # 0
           THEN IF handle_icmp_error(w, ihl, n, flags) THEN "error" ELSE "skip"
      ELSE "reply"

\* The fate of one datagram in the body of the drain loop:
\*   "skip"     malformed, somebody else's, or an error nobody is told about
\*   "mismatch" reported on stderr as corrupted
\*   "error"    one "From ..." line
\*   "reply"    counted and timed
Verdict(w, flags) ==
  LET n   == recvfrom(w, flags)
      ihl == locate_icmp(w, n)
  IN  IF ihl < 0 THEN "skip"
      ELSE IF ~checksum_ok(w, ihl, n) THEN "mismatch"
      ELSE IF w.type # 0 \/ w.code # 0
           THEN IF handle_icmp_error(w, ihl, n, flags) THEN "error" ELSE "skip"
      ELSE IF w.id # MyId THEN "skip" ELSE "reply"

\* The echo reply a host sends back for our probe with this sequence number
\* (external: the answering host).
EchoReply(sequence, flags) ==
  [len |-> IP_HDR + ICMP_HDR + payload_len(flags), ip_hl |-> 5,
   type |-> 0, code |-> 0, intact |-> TRUE, zerotail |-> FALSE,
   id |-> MyId, sequence |-> sequence, inner_hl |-> 0, inner_id |-> MyId]
=============================================================================
