---------------------------- MODULE MCIcmpDrain ----------------------------
(***************************************************************************)
(* Datagrams around every limit the receive path tests, for TLC.           *)
(***************************************************************************)
EXTENDS IcmpDrain

CONSTANTS me, other

\* Lengths at, and one short of, each gate for headers of 20, 24 and 60 bytes,
\* of an answer to and a full quote of -s 0, -s 56 and -s 2000, and of the
\* buffer (1024, 2128).
Lengths == {19, 20, 27, 28, 47, 48, 55, 56, 84, 88, 95, 96, 112, 124, 135,
            136, 152, 1024, 1025, 2028, 2056, 2068, 2096, 2128, 2129}

AllWires ==
  [len: Lengths, ip_hl: {4, 5, 6, 15}, type: {0, 3, 8, 11}, code: {0, 1},
   intact: {TRUE}, zerotail: BOOLEAN, id: {me, other}, sequence: {0},
   inner_hl: {0, 5, 15}, inner_id: {me, other}] \cup
  [len: Lengths, ip_hl: {5, 15}, type: {0, 11}, code: {0}, intact: {FALSE},
   zerotail: {FALSE}, id: {me}, sequence: {0}, inner_hl: {5}, inner_id: {me}]

Default == [quiet |-> FALSE, quiet_errors |-> FALSE, verbose |-> FALSE,
            has_packet_size |-> FALSE, packet_size |-> 0]
Empty   == [Default EXCEPT !.has_packet_size = TRUE]
Large   == [Empty EXCEPT !.packet_size = 2000]
Verbose == [Default EXCEPT !.verbose = TRUE]
Quiet   == [Large EXCEPT !.quiet = TRUE]
QuietVerbose == [Verbose EXCEPT !.quiet_errors = TRUE]

AllFlags == {Default, Empty, Large, Verbose, Quiet, QuietVerbose}
=============================================================================
