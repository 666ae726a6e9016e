---------------------------- MODULE PingChecksum ----------------------------
(***************************************************************************)
(* ft_checksum() of src/net/ping_checksum.c, loop by loop, in the two      *)
(* places it is called: send_one() fills in the checksum of a packet whose *)
(* buffer still holds the previous probe's, and checksum_ok() verifies a   *)
(* message that may have been damaged on the way.  The reference is RFC    *)
(* 1071: big-endian words, whatever the host's byte order.                 *)
(*                                                                         *)
(* A byte has Byte values, 256 in the code and fewer in the instances; the *)
(* 16- and 32-bit types scale with it.                                     *)
(***************************************************************************)
EXTENDS Integers, Sequences

CONSTANTS
  Byte,       \* number of values of a uint8_t
  Lengths     \* message lengths tried, in bytes

ASSUME ByteAssumption == Byte \in Nat /\ Byte >= 2
ASSUME LengthAssumption == Lengths \subseteq {n \in Nat : n >= 4}

Bytes == 0 .. Byte - 1
U16   == Byte * Byte
U32   == U16 * U16

\* The checksum field: bytes 3 and 4 of the header.
CK == 3

VARIABLES
  endian,     \* byte order of the host, "little" or "big"
  caller,     \* "send_one" or "checksum_ok"
  wire,       \* the message when the caller got it
  damaged,    \* does it differ from what its sender checksummed?
  buf,        \* the message in memory
  claimed,    \* checksum_ok(): the field as received
  p, len,     \* ft_checksum(): next byte, bytes left
  sum,
  pc, ok

vars == <<endian, caller, wire, damaged, buf, claimed, p, len, sum, pc, ok>>

\* memcpy() between two bytes and a uint16_t.
Word(a, b) == IF endian = "little" THEN a + Byte * b ELSE Byte * a + b
First(w)   == IF endian = "little" THEN w % Byte ELSE w \div Byte
Second(w)  == IF endian = "little" THEN w \div Byte ELSE w % Byte

PutField(m, w) == [m EXCEPT ![CK] = First(w), ![CK + 1] = Second(w)]
-----------------------------------------------------------------------------
(* RFC 1071.                                                               *)

\* The sum of the big-endian words of m, an odd byte padded with a zero.
WordSum(m) ==
  LET upto[k \in 0 .. Len(m)] ==
        IF k = 0 THEN 0
        ELSE upto[k - 1] + (IF k % 2 = 1 THEN Byte * m[k] ELSE m[k])
  IN  upto[Len(m)]

\* Its one's complement sum: the residue modulo U16 - 1, never 0 for a message
\* that is not all zero.
OnesSum(m) == IF WordSum(m) = 0 THEN 0 ELSE ((WordSum(m) - 1) % (U16 - 1)) + 1

Zeroed(m) == [m EXCEPT ![CK] = 0, ![CK + 1] = 0]

\* m with its checksum, most significant byte first.
Checksummed(m) ==
  LET c == (U16 - 1) - OnesSum(Zeroed(m))
  IN  [m EXCEPT ![CK] = c \div Byte, ![CK + 1] = c % Byte]

\* What a network that alters one byte makes of m.
Damage(m) == {[m EXCEPT ![k] = b] : k \in DOMAIN m, b \in Bytes} \ {m}
-----------------------------------------------------------------------------
Messages == UNION {[1 .. n -> Bytes] : n \in Lengths}

\* A packet to be sent, or a message received.
Init ==
  /\ endian \in {"little", "big"}
  /\ \/ /\ caller = "send_one" /\ damaged = FALSE
        /\ wire \in Messages
     \/ /\ caller = "checksum_ok"
        /\ \E m \in {Zeroed(x) : x \in Messages} :
             \/ damaged = FALSE /\ wire = Checksummed(m)
             \/ damaged = TRUE /\ wire \in Damage(Checksummed(m))
  /\ buf = wire
  /\ claimed = 0 /\ p = 1 /\ len = 0 /\ sum = 0
  /\ pc = "call" /\ ok = FALSE

\* The caller clears the field (checksum_ok() keeps it) and calls.
call ==
  /\ pc = "call" /\ pc' = "words"
  /\ claimed' = Word(buf[CK], buf[CK + 1])
  /\ buf' = PutField(buf, 0)
  /\ p' = 1 /\ len' = Len(buf) /\ sum' = 0
  /\ UNCHANGED <<endian, caller, wire, damaged, ok>>

\* Mutant: the pointer advances by a byte.
add_word_overlapping ==
  /\ pc = "words" /\ len > 1
  /\ sum' = (sum + Word(buf[p], buf[p + 1])) % U32
  /\ p' = p + 1 /\ len' = len - 2
  /\ UNCHANGED <<endian, caller, wire, damaged, buf, claimed, pc, ok>>

\* while (len > 1)
add_word ==
  /\ pc = "words" /\ len > 1
  /\ sum' = (sum + Word(buf[p], buf[p + 1])) % U32
  /\ p' = p + 2 /\ len' = len - 2
  /\ UNCHANGED <<endian, caller, wire, damaged, buf, claimed, pc, ok>>

\* Mutant: the odd byte is added as a number.
add_last_low ==
  /\ pc = "words" /\ len <= 1
  /\ sum' = IF len = 1 THEN (sum + buf[p]) % U32 ELSE sum
  /\ pc' = "fold"
  /\ UNCHANGED <<endian, caller, wire, damaged, buf, claimed, p, len, ok>>

\* if (len == 1): one byte copied into a zeroed word.
add_last ==
  /\ pc = "words" /\ len <= 1
  /\ sum' = IF len = 1 THEN (sum + Word(buf[p], 0)) % U32 ELSE sum
  /\ pc' = "fold"
  /\ UNCHANGED <<endian, caller, wire, damaged, buf, claimed, p, len, ok>>

\* Mutant: the carry is folded once.
fold_once ==
  /\ pc = "fold"
  /\ sum' = ((sum % U16) + (sum \div U16)) % U16
  /\ pc' = "return"
  /\ UNCHANGED <<endian, caller, wire, damaged, buf, claimed, p, len, ok>>

\* Mutant: while (sum >= 0xFFFF)
fold_forever ==
  /\ pc = "fold"
  /\ IF sum >= U16 - 1
     THEN sum' = (sum % U16) + (sum \div U16) /\ UNCHANGED pc
     ELSE pc' = "return" /\ UNCHANGED sum
  /\ UNCHANGED <<endian, caller, wire, damaged, buf, claimed, p, len, ok>>

\* while (sum >> 16)
fold ==
  /\ pc = "fold"
  /\ IF sum >= U16
     THEN sum' = (sum % U16) + (sum \div U16) /\ UNCHANGED pc
     ELSE pc' = "return" /\ UNCHANGED sum
  /\ UNCHANGED <<endian, caller, wire, damaged, buf, claimed, p, len, ok>>

\* (uint16_t)~sum
Result == (U16 - 1) - sum

\* Mutant: the field is left cleared.
verify_unrestored ==
  /\ pc = "return" /\ caller = "checksum_ok" /\ pc' = "done"
  /\ ok' = (Result = claimed)
  /\ UNCHANGED <<endian, caller, wire, damaged, buf, claimed, p, len, sum>>

\* Back in checksum_ok(): restore the field and compare.
verify ==
  /\ pc = "return" /\ caller = "checksum_ok" /\ pc' = "done"
  /\ buf' = PutField(buf, claimed)
  /\ ok' = (Result = claimed)
  /\ UNCHANGED <<endian, caller, wire, damaged, claimed, p, len, sum>>

\* Back in send_one(): store it.
store ==
  /\ pc = "return" /\ caller = "send_one" /\ pc' = "done"
  /\ buf' = PutField(buf, Result)
  /\ UNCHANGED <<endian, caller, wire, damaged, claimed, p, len, sum, ok>>

Next == call \/ add_word \/ add_last \/ fold \/ verify \/ store

Spec == Init /\ [][Next]_vars

\* One thread that never waits.
FairSpec == Spec /\ WF_vars(Next)
-----------------------------------------------------------------------------
(* Properties.                                                             *)

\* The sum of a message of any length the program handles stays below the
\* uint32_t it is kept in, and every read is within the message.
SumFits ==
  /\ sum + ((len + 1) \div 2) * (U16 - 1) < U32
  /\ pc = "words" => p + len = Len(buf) + 1

\* What send_one() stores is the RFC 1071 checksum in network order, for odd
\* lengths too, on hosts of either byte order ("the value comes out already
\* in network order") and whatever the previous probe left in the field.
SentAsRFC1071 ==
  pc = "done" /\ caller = "send_one" => buf = Checksummed(wire)

\* A message from any host that follows RFC 1071 passes, one with a single
\* altered byte, in the checksum field or elsewhere, does not: IcmpReceive's
\* "intact".
AcceptsExactlyIntact ==
  pc = "done" /\ caller = "checksum_ok" => (ok <=> ~damaged)

\* checksum_ok() leaves the buffer as it was: "the restore matters because
\* the ICMP-error path reads the same buffer afterwards".
BufferRestored == pc = "done" /\ caller = "checksum_ok" => buf = wire

\* The fold loop ends ("adding the carry back can itself carry").
ChecksumEnds == <>(pc = "done")
=============================================================================
