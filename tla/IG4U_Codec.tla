------------------------------ MODULE IG4U_Codec ------------------------------
(***************************************************************************)
(* Telecommands as ig4u_commands.c makes them: a payload is written into   *)
(* the caller's buffer byte by byte, EncodeTC frames it, and whoever reads *)
(* the frame takes it apart with DecodeTM. IG4U_HAL_Recv reads two bytes   *)
(* more than a frame has (ig4u_hal.c 238), so DecodeTM is given a frame    *)
(* and what was read behind it.                                            *)
(***************************************************************************)
EXTENDS IG4U_Protocol, IG4U_Crc

CONSTANTS
  MsgIds,          \* the message ids in use
  PayloadBytes,    \* the bytes that are written
  Masks,           \* how a byte may be damaged: what is added to it, modulo 256;
                   \* 0 leaves it alone
  Behind,          \* what may have been read behind a frame
  LENGTH_LIMIT     \* bound on the payload, beyond MAX_PAYLOAD

ASSUME CodecAssumption ==
  /\ MsgIds \subseteq Byte /\ PayloadBytes \subseteq Byte
  /\ Masks \subseteq Byte /\ Behind \subseteq Seq(Byte)
  /\ LENGTH_LIMIT \in Nat

(* What the proofs assume of the checksum: for one theorem only that it is *)
(* a uint16_t, for the other that it is the code's.                        *)
ChecksumIs16Bit ==
  \A b \in Seq(Byte) : CalcCRC16(b) \in Nat /\ CalcCRC16(b) < 65536

ChecksumIsCRC16 == \A b \in Seq(Byte) : CalcCRC16(b) = CRC16(b)

VARIABLE payload

Init == payload = <<>>

WriteByte ==
  \E byte \in PayloadBytes :
    /\ Len(payload) < LENGTH_LIMIT
    /\ payload' = Append(payload, byte)

Spec == Init /\ [][WriteByte]_payload

-----------------------------------------------------------------------------
(* Properties *)

(* DecodeTM gets out of a frame what EncodeTC put in, whatever was read    *)
(* behind it; EncodeTC into the program's own buffer refuses only payloads *)
(* above the limit.                                                        *)
RoundTrips ==
  \A msg_id \in MsgIds, behind \in Behind :
    LET enc == EncodeTC(MAX_TOTAL, msg_id, payload)
        read == enc.out_buf \o behind
    IN  IF Len(payload) <= MAX_PAYLOAD
          THEN /\ enc.status = "OK"
               /\ DecodeTM(read) = "OK"
               /\ MsgId(read) = msg_id
               /\ Payload(read) = payload
          ELSE enc.status = "ERR_BAD_LENGTH"

(* Damage to one byte of a frame, or to two neighbours, does not pass      *)
(* DecodeTM, wherever it strikes and whatever was read behind the frame,   *)
(* with two exceptions that the format has: a length that now names other  *)
(* bytes that were read, of the payload or behind the frame, moves the     *)
(* place where the checksum is looked for; and the checksum is sent low    *)
(* byte first, so that the last byte it covers and the byte sent next are  *)
(* not neighbours of the division. A length beyond all that was read is    *)
(* no exception.                                                           *)
Damaged(frame, i, first, second) ==
  [frame EXCEPT ![i] = (@ + first) % 256, ![i + 1] = (@ + second) % 256]

ChecksumMoved(read, behind) ==
  /\ PayloadLen(read) # Len(payload)
  /\ PayloadLen(read) <= Len(payload) + Len(behind)

DamageIsDetected ==
  \A msg_id \in MsgIds, behind \in Behind :
    LET enc == EncodeTC(MAX_TOTAL, msg_id, payload) IN
    enc.status = "OK" =>
      \A i \in 1 .. Len(enc.out_buf) - 1, first, second \in Masks :
        LET damaged == Damaged(enc.out_buf, i, first, second)
            read == damaged \o behind
        IN  /\ damaged # enc.out_buf
            /\ ~ChecksumMoved(read, behind)
            /\ i = Len(enc.out_buf) - 2 => 0 \in {first, second}
            => DecodeTM(read) # "OK"

(* The shifts and exclusive-ors of CalcCRC16 divide polynomials, as        *)
(* CRC-16/CCITT has it (ig4u_protocol.c 26-59): what the register holds at *)
(* the end is shorter than the generator and differs from the dividend by  *)
(* a multiple of it.                                                       *)
ChecksumIsRemainder ==
  \A msg_id \in MsgIds :
    LET data == Body(msg_id, payload)
        rest == Plus(Dividend(data), Times(Quotient(data)))
    IN  rest \subseteq 0 .. 15 /\ CRC16(data) = Word(rest)
=============================================================================
