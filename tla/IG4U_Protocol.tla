---------------------------- MODULE IG4U_Protocol ----------------------------
(***************************************************************************)
(* The packet format of ig4u_protocol.c: the frame a telecommand is        *)
(* encoded into, the checks a received frame has to pass and the search    *)
(* for the sync word.  A buffer is a sequence of bytes; index 0 of the     *)
(* code is index 1 here.                                                   *)
(*                                                                         *)
(*   [0-1] sync  [2] version  [3] type  [4] id  [5-6] length N, low first  *)
(*   [7 ..] N bytes of payload, then the CRC, low byte first               *)
(***************************************************************************)
EXTENDS Naturals, Sequences

CONSTANTS
  HEADER_BYTE_0,      \* 0xAA
  HEADER_BYTE_1,      \* 0x55
  MAX_PAYLOAD,        \* IG4U_PACKET_MAX_PAYLOAD, 256 in the code
  CalcCRC16(_)        \* the checksum of a sequence of bytes

Byte == 0 .. 255

ASSUME FormatAssumption ==
  /\ HEADER_BYTE_0 \in Byte /\ HEADER_BYTE_1 \in Byte
  /\ MAX_PAYLOAD \in 0 .. 65535

OVERHEAD == 9         \* IG4U_PACKET_OVERHEAD_BYTES
MAX_TOTAL == OVERHEAD + MAX_PAYLOAD
OFFSET_PAYLOAD == 7
PACKET_VERSION == 16
MSGTYPE_COMMAND == 0

LE16(lo, hi) == lo + 256 * hi

(* Seeded fault: the high byte first. *)
WriteBE16(n) == <<n \div 256, n % 256>>

WriteLE16(n) == <<n % 256, n \div 256>>

(* What EncodeTC computes the checksum of.                                 *)
Body(msg_id, payload) ==
  <<HEADER_BYTE_0, HEADER_BYTE_1, PACKET_VERSION, MSGTYPE_COMMAND, msg_id>>
    \o WriteLE16(Len(payload)) \o payload

Frame(msg_id, payload) ==
  Body(msg_id, payload) \o WriteLE16(CalcCRC16(Body(msg_id, payload)))

(* EncodeTC into a buffer of `size' bytes: the frame, or why there is none.*)
EncodeTC(size, msg_id, payload) ==
  IF Len(payload) > MAX_PAYLOAD
    THEN [status |-> "ERR_BAD_LENGTH", out_buf |-> <<>>]
  ELSE IF size < OVERHEAD + Len(payload)
    THEN [status |-> "ERR_BUF_SIZE", out_buf |-> <<>>]
  ELSE [status |-> "OK", out_buf |-> Frame(msg_id, payload)]

(* The sync word stands at index i. *)
SyncPair(b, i) == b[i] = HEADER_BYTE_0 /\ b[i + 1] = HEADER_BYTE_1

(* Seeded fault: any sync word will do. *)
SyncAtAny(b, off) == SyncPair(b, off + 1)

(* FindSyncHeader: off is the first offset of a sync word in b ...         *)
SyncAt(b, off) ==
  /\ SyncPair(b, off + 1)
  /\ \A i \in 1 .. off : ~SyncPair(b, i)

(* ... or there is none; the last byte alone never makes one.              *)
NoSync(b) == \A i \in 1 .. Len(b) - 1 : ~SyncPair(b, i)

PayloadLen(b) == LE16(b[6], b[7])

(* The other outputs of DecodeTM.  The version is not looked at, and the   *)
(* type is left to callers that do not look at it either.                  *)
MsgId(b) == b[5]
Payload(b) == SubSeq(b, OFFSET_PAYLOAD + 1, OFFSET_PAYLOAD + PayloadLen(b))

(* Seeded fault: the checksum is not compared.                             *)
DecodeUnchecked(b) ==
  CASE Len(b) < OVERHEAD -> "ERR_BAD_LENGTH"
    [] Len(b) >= OVERHEAD /\ ~SyncPair(b, 1) -> "ERR_BAD_HEADER"
    [] /\ Len(b) >= OVERHEAD /\ SyncPair(b, 1)
       /\ \/ PayloadLen(b) > MAX_PAYLOAD
          \/ Len(b) < OVERHEAD + PayloadLen(b) -> "ERR_BAD_LENGTH"
    [] OTHER -> "OK"

(* The answers of DecodeTM, in the order the code checks for them.         *)
DecodeTM(b) ==
  CASE Len(b) < OVERHEAD -> "ERR_BAD_LENGTH"
    [] Len(b) >= OVERHEAD /\ ~SyncPair(b, 1) -> "ERR_BAD_HEADER"
    [] /\ Len(b) >= OVERHEAD /\ SyncPair(b, 1)
       /\ \/ PayloadLen(b) > MAX_PAYLOAD
          \/ Len(b) < OVERHEAD + PayloadLen(b) -> "ERR_BAD_LENGTH"
    [] OTHER ->
       LET end == OFFSET_PAYLOAD + PayloadLen(b)
       IN  IF LE16(b[end + 1], b[end + 2]) = CalcCRC16(SubSeq(b, 1, end))
             THEN "OK" ELSE "ERR_CRC_FAIL"
=============================================================================
