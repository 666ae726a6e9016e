-------------------------- MODULE IcmpDrainProofs --------------------------
(***************************************************************************)
(* What TLAPS proves of IcmpDrain for every datagram, of any length and    *)
(* with any header fields, and for every -s: the instances TLC checks have *)
(* lengths around the gates only.                                          *)
(***************************************************************************)
EXTENDS IcmpDrain, TLAPS

\* The places in the body of the drain loop.
Labels ==
  {"recvfrom", "locate", "checksum", "classify", "error", "filter", "continue"}

\* Where the program is tells which gates were passed: n is what recvfrom()
\* returned, ihl what locate_icmp() made of it, and the datagram has got past
\* every test before this place.
DrainInv ==
  /\ flags \in Flags /\ pc \in Labels /\ n \in Nat /\ reach \in Nat
  /\ pc = "recvfrom" => n = 0 /\ reach = 0
  /\ pc # "recvfrom" => wire \in Wire /\ n = recvfrom(wire, flags)
  /\ pc = "locate" => reach = 0
  /\ pc \in {"checksum", "classify", "error", "filter"} =>
       /\ ihl = locate_icmp(wire, n) /\ ihl >= 0
  /\ pc \in {"classify", "error", "filter"} => checksum_ok(wire, ihl, n)
  /\ pc = "error" => wire.type # 0 \/ wire.code # 0
  /\ pc = "filter" => wire.type = 0 /\ wire.code = 0
  /\ pc = "continue" => verdict = Verdict(wire, flags)
  /\ reach <= n

\* The buffer has room for a payload and its headers.
LEMMA BufferSize ==
  ASSUME NEW f \in Flags
  PROVE  /\ payload_len(f) \in Nat /\ recvbuf_len(f) \in Nat
         /\ recvbuf_len(f) >= payload_len(f) + PING_RECVBUF_SLACK
<1>1. payload_len(f) \in Nat
  BY DEF Flags, payload_len, PING_PAYLOAD_SIZE
<1> QED BY <1>1 DEF recvbuf_len, PING_RECVBUF_MIN, PING_RECVBUF_SLACK

\* What is received fits it, and is all of the datagram if that fits.
LEMMA BufferFits ==
  ASSUME NEW f \in Flags, NEW w \in Wire
  PROVE  /\ recvfrom(w, f) \in Nat /\ recvfrom(w, f) <= recvbuf_len(f)
         /\ w.len <= recvbuf_len(f) => recvfrom(w, f) = w.len
BY BufferSize DEF recvfrom, Wire

\* What the three gates of locate_icmp() establish.
LEMMA Located ==
  ASSUME NEW w \in Wire, NEW k \in Nat, locate_icmp(w, k) >= 0
  PROVE  /\ locate_icmp(w, k) = 4 * w.ip_hl
         /\ 4 * w.ip_hl >= IP_HDR /\ k >= 4 * w.ip_hl + ICMP_HDR
BY DEF locate_icmp, Wire, IP_HDR, ICMP_HDR

\* Every step keeps DrainInv.
LEMMA DrainStep == DrainInv /\ [Next]_vars => DrainInv'
<1> SUFFICES ASSUME DrainInv, [Next]_vars
             PROVE  DrainInv'
  OBVIOUS
<1> USE DEF Labels, Goto, Settle, Read
<1>1. CASE receive
  <2>1. PICK w \in Wire : wire' = w /\ n' = recvfrom(w, flags)
    BY <1>1, DrainAssumption DEF receive
  <2>2. n' \in Nat
    BY <2>1, BufferFits DEF DrainInv
  <2> QED BY <1>1, <2>1, <2>2 DEF receive, DrainInv
<1>2. CASE again
  BY <1>2 DEF again, DrainInv
<1>3. CASE locate
  <2>1. pc = "locate" /\ UNCHANGED <<flags, wire, n>>
        /\ wire \in Wire /\ n = recvfrom(wire, flags) /\ n \in Nat
        /\ flags \in Flags
        /\ ihl' = locate_icmp(wire, n)
    BY <1>3 DEF locate, DrainInv
  <2>2. reach' \in Nat /\ reach' <= n
    BY <1>3, <2>1 DEF locate, DrainInv, IP_HDR, IP_HL_END
  <2>3. CASE ihl' < 0
    BY <1>3, <2>1, <2>2, <2>3 DEF locate, DrainInv, Verdict
  <2>4. CASE ~(ihl' < 0)
    <3>1. ihl' >= 0
      BY <2>1, <2>4 DEF locate_icmp, Wire
    <3> QED BY <1>3, <2>1, <2>2, <2>4, <3>1 DEF locate, DrainInv
  <2> QED BY <2>3, <2>4
<1>4. CASE checksum
  <2>1. pc = "checksum" /\ UNCHANGED <<flags, wire, n, ihl>>
        /\ wire \in Wire /\ n = recvfrom(wire, flags) /\ n \in Nat
        /\ flags \in Flags /\ ihl = locate_icmp(wire, n) /\ ihl >= 0
    BY <1>4 DEF checksum, DrainInv
  <2>2. n >= ihl + ICMP_HDR /\ ihl \in Nat
    BY <2>1, Located DEF Wire
  <2>3. reach' \in Nat /\ reach' <= n
    BY <1>4, <2>1, <2>2 DEF checksum, DrainInv, ICMP_HDR
  <2>4. CASE checksum_ok(wire, ihl, n)
    BY <1>4, <2>1, <2>3, <2>4 DEF checksum, DrainInv
  <2>5. CASE ~checksum_ok(wire, ihl, n)
    <3>1. pc' = "continue" /\ verdict' = "mismatch"
      BY <1>4, <2>5 DEF checksum
    <3>2. Verdict(wire, flags) = "mismatch"
      BY <2>1, <2>2, <2>5 DEF Verdict
    <3> QED BY <2>1, <2>3, <3>1, <3>2 DEF DrainInv
  <2> QED BY <2>4, <2>5
<1>5. CASE classify
  <2>1. pc = "classify" /\ UNCHANGED <<flags, wire, n, ihl>>
        /\ wire \in Wire /\ n \in Nat /\ ihl = locate_icmp(wire, n) /\ ihl >= 0
    BY <1>5 DEF classify, DrainInv
  <2>2. n >= ihl + ICMP_HDR /\ ihl \in Nat
    BY <2>1, Located DEF Wire
  <2>3. reach' \in Nat /\ reach' <= n
    BY <1>5, <2>2 DEF classify, DrainInv, ICMP_HDR, TYPE_CODE_END
  <2> QED BY <1>5, <2>1, <2>3 DEF classify, DrainInv
<1>6. CASE icmp_error
  <2>1. pc = "error" /\ UNCHANGED <<flags, wire, n, ihl>>
        /\ wire \in Wire /\ n = recvfrom(wire, flags) /\ n \in Nat
        /\ ihl = locate_icmp(wire, n) /\ ihl >= 0
        /\ checksum_ok(wire, ihl, n) /\ (wire.type # 0 \/ wire.code # 0)
    BY <1>6 DEF icmp_error, DrainInv
  <2>2. ihl \in Nat /\ wire.inner_hl \in Nat
    BY <2>1, Located DEF Wire
  <2>3. reach' \in Nat /\ reach' <= n
    BY <1>6, <2>1, <2>2
       DEF icmp_error, DrainInv, quoted_probe, IP_HDR, ICMP_HDR, IP_HL_END,
           SEQUENCE_END
  <2>4. verdict' = Verdict(wire, flags)
    BY <1>6, <2>1, <2>2 DEF icmp_error, Verdict
  <2>5. pc' = "continue"
    BY <1>6 DEF icmp_error
  <2> QED BY <2>1, <2>3, <2>4, <2>5 DEF DrainInv
<1>7. CASE filter
  <2>1. pc = "filter" /\ UNCHANGED <<flags, wire, n, ihl>>
        /\ wire \in Wire /\ n = recvfrom(wire, flags) /\ n \in Nat
        /\ ihl = locate_icmp(wire, n) /\ ihl >= 0
        /\ checksum_ok(wire, ihl, n) /\ wire.type = 0 /\ wire.code = 0
    BY <1>7 DEF filter, DrainInv
  <2>2. n >= ihl + ICMP_HDR /\ ihl \in Nat
    BY <2>1, Located DEF Wire
  <2>3. reach' \in Nat /\ reach' <= n
    BY <1>7, <2>2 DEF filter, DrainInv, ICMP_HDR, ID_END, SEQUENCE_END
  <2>4. verdict' = Verdict(wire, flags)
    BY <1>7, <2>1, <2>2 DEF filter, Verdict
  <2>5. pc' = "continue"
    BY <1>7 DEF filter
  <2> QED BY <2>1, <2>3, <2>4, <2>5 DEF DrainInv
<1>8. CASE UNCHANGED vars
  BY <1>8 DEF vars, DrainInv
<1> QED
  BY <1>1, <1>2, <1>3, <1>4, <1>5, <1>6, <1>7, <1>8 DEF Next

\* DrainInv is an invariant of the drain.
LEMMA DrainAlways == Spec => []DrainInv
<1>1. Init => DrainInv
  BY DrainAssumption DEF Init, DrainInv, Labels
<1> QED BY <1>1, DrainStep, PTL DEF Spec
-----------------------------------------------------------------------------
(* The theorems.                                                           *)

\* No step of the drain reads beyond the bytes received, for any datagram.
THEOREM ReadsOnlyReceived == Spec => []ReadsReceivedBytes
<1>1. DrainInv => ReadsReceivedBytes
  <2> SUFFICES ASSUME DrainInv PROVE ReadsReceivedBytes
    OBVIOUS
  <2>1. CASE pc = "recvfrom"
    BY <2>1, BufferSize DEF DrainInv, ReadsReceivedBytes
  <2>2. CASE pc # "recvfrom"
    BY <2>2, BufferFits DEF DrainInv, ReadsReceivedBytes
  <2> QED BY <2>1, <2>2
<1> QED BY <1>1, DrainAlways, PTL

\* The steps of ping_receive() reach the verdict the event loop's model uses.
THEOREM VerdictIsReached == Spec => []StepsGiveVerdict
<1>1. DrainInv => StepsGiveVerdict
  BY DEF DrainInv, StepsGiveVerdict
<1> QED BY <1>1, DrainAlways, PTL

\* A reply to our own probe is counted, for every -s and every length of IP
\* options: recvbuf is large enough and no gate closes on it.
THEOREM OwnRepliesCount == Spec => []OwnReplyCounted
<1>1. ASSUME DrainInv, pc = "continue", OwnReply(wire)
      PROVE  verdict = "reply"
  <2>1. wire \in Wire /\ flags \in Flags
    BY <1>1 DEF DrainInv
  <2>2. wire.ip_hl \in 5 .. 15
    BY <1>1, <2>1 DEF OwnReply, Wire
  <2>3. wire.len <= recvbuf_len(flags)
    BY <1>1, <2>1, <2>2, BufferSize, BufferFits DEF OwnReply, ICMP_HDR, PING_RECVBUF_SLACK
  <2>4. recvfrom(wire, flags) = wire.len /\ wire.len >= 4 * wire.ip_hl + ICMP_HDR
    BY <1>1, <2>1, <2>2, <2>3, BufferSize, BufferFits DEF OwnReply, ICMP_HDR
  <2>5. locate_icmp(wire, wire.len) = 4 * wire.ip_hl
    BY <2>1, <2>2, <2>4 DEF locate_icmp, Wire, IP_HDR, ICMP_HDR
  <2> QED BY <1>1, <2>2, <2>4, <2>5 DEF DrainInv, Verdict, OwnReply, checksum_ok
<1>2. DrainInv => OwnReplyCounted
  BY <1>1 DEF OwnReplyCounted
<1> QED BY <1>2, DrainAlways, PTL

\* An error about our own probe is shown unless -q or -Q asks for silence,
\* however much of the probe the router quotes.
THEOREM OwnErrorsShow == Spec => []OwnErrorShown
<1>1. ASSUME DrainInv, pc = "continue", OwnError(wire),
             ~flags.quiet, ~flags.quiet_errors
      PROVE  verdict = "error"
  <2>1. wire \in Wire /\ flags \in Flags
    BY <1>1 DEF DrainInv
  <2>2. wire.ip_hl \in 5 .. 15 /\ wire.inner_hl = 5 /\ wire.inner_id = MyId
        /\ is_icmp_error_type(wire.type) /\ wire.intact
    BY <1>1, <2>1 DEF OwnError, Wire
  <2>3. wire.len <= recvbuf_len(flags)
        /\ wire.len >= 4 * wire.ip_hl + 8 + 20 + 8
    BY <1>1, <2>1, <2>2, BufferSize, BufferFits
       DEF OwnError, IP_HDR, ICMP_HDR, PING_RECVBUF_SLACK
  <2>4. recvfrom(wire, flags) = wire.len /\ wire.len \in Nat
    BY <2>1, <2>3, BufferFits DEF Wire
  <2>5. locate_icmp(wire, wire.len) = 4 * wire.ip_hl
    BY <2>2, <2>3, <2>4 DEF locate_icmp, IP_HDR, ICMP_HDR
  <2>6. quoted_probe(wire, 4 * wire.ip_hl, wire.len)
    BY <2>2, <2>3, <2>4 DEF quoted_probe, IP_HDR, ICMP_HDR
  <2>7. handle_icmp_error(wire, 4 * wire.ip_hl, wire.len, flags)
    BY <1>1, <2>2, <2>6 DEF handle_icmp_error
  <2>8. wire.type # 0
    BY <2>2 DEF is_icmp_error_type
  <2> QED BY <1>1, <2>2, <2>4, <2>5, <2>7, <2>8 DEF DrainInv, Verdict, checksum_ok
<1>2. DrainInv => OwnErrorShown
  BY <1>1 DEF OwnErrorShown
<1> QED BY <1>2, DrainAlways, PTL
=============================================================================
