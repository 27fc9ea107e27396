-------------------------- MODULE IG4U_Codec_proofs --------------------------
(* Proofs about IG4U_Codec: whatever is encoded decodes to itself, for      *)
(* every payload up to the limit and every 16-bit checksum; with the code's *)
(* own checksum, damage to a frame is noticed.                              *)
EXTENDS IG4U_Codec, IG4U_Crc_proofs, SequenceTheorems, TLAPS

-----------------------------------------------------------------------------
(* The bytes of a frame *)

LEMMA ConcatOK ==
  ASSUME NEW s \in Seq(Byte), NEW t \in Seq(Byte)
  PROVE  /\ s \o t \in Seq(Byte)
         /\ Len(s \o t) = Len(s) + Len(t)
         /\ \A i \in 1 .. Len(s) : (s \o t)[i] = s[i]
         /\ \A i \in 1 .. Len(t) : (s \o t)[Len(s) + i] = t[i]
  BY ConcatProperties

(* What stands ahead in a sequence is not changed by what stands behind. *)
LEMMA AheadOK ==
  ASSUME NEW s \in Seq(Byte), NEW t \in Seq(Byte), NEW k \in 0 .. Len(s)
  PROVE  SubSeq(s \o t, 1, k) = SubSeq(s, 1, k)
<1> DEFINE r == s \o t
<1>1. r \in Seq(Byte) /\ Len(r) = Len(s) + Len(t) /\ \A i \in 1 .. Len(s) : r[i] = s[i]
  BY ConcatOK
<1> HIDE DEF r
<1>2. k \in Nat /\ Len(s) \in Nat /\ Len(t) \in Nat /\ k <= Len(s) /\ k <= Len(r)
  BY <1>1
<1> DEFINE a == SubSeq(r, 1, k)
           c == SubSeq(s, 1, k)
<1>3. a \in Seq(Byte) /\ Len(a) = k /\ \A i \in 1 .. k : a[i] = r[1 + i - 1]
  BY <1>1, <1>2, SubSeqProperties
<1>4. c \in Seq(Byte) /\ Len(c) = k /\ \A i \in 1 .. k : c[i] = s[1 + i - 1]
  BY <1>2, SubSeqProperties
<1> HIDE DEF a, c
<1>5. \A i \in 1 .. k : a[i] = c[i]
  <2> TAKE i \in 1 .. k
  <2>1. 1 + i - 1 = i /\ i \in 1 .. Len(s)
    BY <1>2
  <2> QED
    BY <1>1, <1>3, <1>4, <2>1
<1>6. a = c
  BY <1>3, <1>4, <1>5, SeqEqual
<1> QED
  BY <1>6 DEF a, c, r

(* Two bytes carry a 16-bit number. *)
LEMMA HalvesMakeWhole ==
  ASSUME NEW n \in Nat, n < 65536
  PROVE  /\ WriteLE16(n) \in Seq(Byte) /\ Len(WriteLE16(n)) = 2
         /\ LE16(WriteLE16(n)[1], WriteLE16(n)[2]) = n
<1>1. n % 256 \in Byte /\ n \div 256 \in Byte /\ n = (n % 256) + 256 * (n \div 256)
  BY DEF Byte
<1> QED
  BY <1>1 DEF WriteLE16, LE16

(* The seven bytes ahead of the payload, and the payload behind them.       *)
LEMMA BodyOK ==
  ASSUME NEW msg_id \in Byte, NEW p \in Seq(Byte), Len(p) <= MAX_PAYLOAD
  PROVE  LET b == Body(msg_id, p) IN
         /\ b \in Seq(Byte) /\ Len(b) = OFFSET_PAYLOAD + Len(p)
         /\ SyncPair(b, 1) /\ b[5] = msg_id /\ LE16(b[6], b[7]) = Len(p)
         /\ \A i \in 1 .. Len(p) : b[OFFSET_PAYLOAD + i] = p[i]
<1> DEFINE head == <<HEADER_BYTE_0, HEADER_BYTE_1, PACKET_VERSION,
                     MSGTYPE_COMMAND, msg_id>>
           size == WriteLE16(Len(p))
           b == Body(msg_id, p)
<1>1. head \in Seq(Byte) /\ Len(head) = 5
      /\ head[1] = HEADER_BYTE_0 /\ head[2] = HEADER_BYTE_1 /\ head[5] = msg_id
  BY FormatAssumption DEF Byte, PACKET_VERSION, MSGTYPE_COMMAND
<1> HIDE DEF head, size, b
<1>2. Len(p) \in Nat /\ Len(p) < 65536
  <2>1. MAX_PAYLOAD \in Nat /\ MAX_PAYLOAD <= 65535
    BY FormatAssumption
  <2> QED
    BY <2>1
<1>3. size \in Seq(Byte) /\ Len(size) = 2 /\ LE16(size[1], size[2]) = Len(p)
  BY <1>2, HalvesMakeWhole DEF size
<1>4. /\ head \o size \in Seq(Byte) /\ Len(head \o size) = 7
      /\ \A i \in 1 .. 5 : (head \o size)[i] = head[i]
      /\ \A i \in 1 .. 2 : (head \o size)[5 + i] = size[i]
  <2>1. /\ head \o size \in Seq(Byte)
        /\ Len(head \o size) = Len(head) + Len(size)
        /\ \A i \in 1 .. Len(head) : (head \o size)[i] = head[i]
        /\ \A i \in 1 .. Len(size) : (head \o size)[Len(head) + i] = size[i]
    BY <1>1, <1>3, ConcatOK
  <2> QED
    BY <1>1, <1>3, <2>1
<1>5. b = (head \o size) \o p
  BY DEF Body, head, size, b
<1>6. /\ b \in Seq(Byte) /\ Len(b) = 7 + Len(p)
      /\ \A i \in 1 .. 7 : b[i] = (head \o size)[i]
      /\ \A i \in 1 .. Len(p) : b[7 + i] = p[i]
  <2> DEFINE h == head \o size
  <2>1. h \in Seq(Byte) /\ Len(h) = 7
    BY <1>4
  <2> HIDE DEF h
  <2>2. /\ h \o p \in Seq(Byte) /\ Len(h \o p) = Len(h) + Len(p)
        /\ \A i \in 1 .. Len(h) : (h \o p)[i] = h[i]
        /\ \A i \in 1 .. Len(p) : (h \o p)[Len(h) + i] = p[i]
    BY <2>1, ConcatOK
  <2>3. b = h \o p
    BY <1>5 DEF h
  <2>4. /\ b \in Seq(Byte) /\ Len(b) = 7 + Len(p)
        /\ \A i \in 1 .. 7 : b[i] = h[i]
        /\ \A i \in 1 .. Len(p) : b[7 + i] = p[i]
    BY <2>1, <2>2, <2>3
  <2> QED
    BY <2>4 DEF h
<1>7. b[1] = head[1] /\ b[2] = head[2] /\ b[5] = head[5]
  <2>1. 1 \in 1 .. 5 /\ 2 \in 1 .. 5 /\ 5 \in 1 .. 5
        /\ 1 \in 1 .. 7 /\ 2 \in 1 .. 7 /\ 5 \in 1 .. 7
    OBVIOUS
  <2>2. \A i \in 1 .. 5 : (head \o size)[i] = head[i]
    BY <1>4
  <2>3. \A i \in 1 .. 7 : b[i] = (head \o size)[i]
    BY <1>6
  <2>4. (head \o size)[1] = head[1] /\ (head \o size)[2] = head[2]
        /\ (head \o size)[5] = head[5]
    BY <2>1, <2>2, Zenon
  <2>5. b[1] = (head \o size)[1] /\ b[2] = (head \o size)[2]
        /\ b[5] = (head \o size)[5]
    BY <2>1, <2>3, Zenon
  <2> QED
    BY <2>4, <2>5, Zenon
<1>8. b[6] = size[1] /\ b[7] = size[2]
  <2>1. 6 = 5 + 1 /\ 7 = 5 + 2 /\ 1 \in 1 .. 2 /\ 2 \in 1 .. 2
    OBVIOUS
  <2>2. (head \o size)[6] = size[1] /\ (head \o size)[7] = size[2]
    BY <1>4, <2>1
  <2>3. \A i \in 1 .. 7 : b[i] = (head \o size)[i]
    BY <1>6
  <2>4. 6 \in 1 .. 7 /\ 7 \in 1 .. 7
    OBVIOUS
  <2> QED
    BY <2>2, <2>3, <2>4, Zenon
<1>9. SyncPair(b, 1)
  BY <1>1, <1>7 DEF SyncPair
<1>10. /\ b \in Seq(Byte) /\ Len(b) = OFFSET_PAYLOAD + Len(p)
       /\ \A i \in 1 .. Len(p) : b[OFFSET_PAYLOAD + i] = p[i]
  BY <1>6 DEF OFFSET_PAYLOAD
<1>11. b[5] = msg_id /\ LE16(b[6], b[7]) = Len(p)
  BY <1>1, <1>3, <1>7, <1>8
<1> QED
  BY <1>9, <1>10, <1>11 DEF b

(* The parts of a frame, where its readers look for them. *)
LEMMA FrameParts ==
  ASSUME ChecksumIs16Bit,
         NEW msg_id \in Byte, NEW p \in Seq(Byte), Len(p) <= MAX_PAYLOAD
  PROVE  LET f == Frame(msg_id, p) IN
         /\ f \in Seq(Byte) /\ Len(f) = 9 + Len(p)
         /\ SyncPair(f, 1) /\ MsgId(f) = msg_id /\ PayloadLen(f) = Len(p)
         /\ \A i \in 1 .. Len(p) : f[7 + i] = p[i]
         /\ LE16(f[7 + Len(p) + 1], f[7 + Len(p) + 2])
              = CalcCRC16(SubSeq(f, 1, 7 + Len(p)))
<1> DEFINE b == Body(msg_id, p)
           crc == CalcCRC16(b)
           tail == WriteLE16(crc)
           f == Frame(msg_id, p)
<1>1. /\ b \in Seq(Byte) /\ Len(b) = 7 + Len(p)
      /\ SyncPair(b, 1) /\ b[5] = msg_id /\ LE16(b[6], b[7]) = Len(p)
      /\ \A i \in 1 .. Len(p) : b[7 + i] = p[i]
  BY BodyOK DEF OFFSET_PAYLOAD, b
<1> HIDE DEF b, crc, tail, f
<1>2. Len(p) \in Nat
  OBVIOUS
<1>3. crc \in Nat /\ crc < 65536
  BY <1>1 DEF ChecksumIs16Bit, crc
<1>4. tail \in Seq(Byte) /\ Len(tail) = 2 /\ LE16(tail[1], tail[2]) = crc
  BY <1>3, HalvesMakeWhole DEF tail
<1>5. f = b \o tail
  BY DEF Frame, b, tail, crc, f
<1>6. /\ f \in Seq(Byte) /\ Len(f) = 9 + Len(p)
      /\ \A i \in 1 .. 7 + Len(p) : f[i] = b[i]
      /\ \A i \in 1 .. 2 : f[7 + Len(p) + i] = tail[i]
  <2>1. /\ b \o tail \in Seq(Byte) /\ Len(b \o tail) = Len(b) + Len(tail)
        /\ \A i \in 1 .. Len(b) : (b \o tail)[i] = b[i]
        /\ \A i \in 1 .. Len(tail) : (b \o tail)[Len(b) + i] = tail[i]
    BY <1>1, <1>4, ConcatOK
  <2>2. Len(b) = 7 + Len(p) /\ Len(tail) = 2
    BY <1>1, <1>4
  <2>3. Len(f) = 9 + Len(p)
    BY <1>2, <1>5, <2>1, <2>2
  <2>4. \A i \in 1 .. 7 + Len(p) : f[i] = b[i]
    BY <1>5, <2>1, <2>2
  <2>5. \A i \in 1 .. 2 : f[7 + Len(p) + i] = tail[i]
    BY <1>5, <2>1, <2>2
  <2> QED
    BY <1>5, <2>1, <2>3, <2>4, <2>5
<1>7. \A i \in 1 .. 7 : f[i] = b[i]
  BY <1>2, <1>6
<1>8. SyncPair(f, 1) /\ MsgId(f) = msg_id /\ PayloadLen(f) = Len(p)
  BY <1>1, <1>7 DEF SyncPair, MsgId, PayloadLen
<1>9. SubSeq(f, 1, 7 + Len(p)) = b
  <2>1. 7 + Len(p) \in 0 .. Len(f)
    BY <1>2, <1>6
  <2>2. /\ SubSeq(f, 1, 7 + Len(p)) \in Seq(Byte)
        /\ Len(SubSeq(f, 1, 7 + Len(p))) = 7 + Len(p)
        /\ \A i \in 1 .. 7 + Len(p) : SubSeq(f, 1, 7 + Len(p))[i] = f[1 + i - 1]
    BY <1>2, <1>6, <2>1, SubSeqProperties
  <2>3. \A i \in 1 .. 7 + Len(p) : SubSeq(f, 1, 7 + Len(p))[i] = b[i]
    BY <1>2, <1>6, <2>2
  <2> QED
    BY <1>1, <2>2, <2>3, SeqEqual
<1>10. LE16(f[7 + Len(p) + 1], f[7 + Len(p) + 2]) = CalcCRC16(SubSeq(f, 1, 7 + Len(p)))
  <2>1. 1 \in 1 .. 2 /\ 2 \in 1 .. 2
    OBVIOUS
  <2>2. f[7 + Len(p) + 1] = tail[1] /\ f[7 + Len(p) + 2] = tail[2]
    BY <1>6, <2>1
  <2> QED
    BY <1>4, <1>9, <2>2 DEF crc
<1>11. \A i \in 1 .. Len(p) : f[7 + i] = p[i]
  BY <1>1, <1>2, <1>6
<1> QED
  BY <1>6, <1>8, <1>10, <1>11 DEF f

(* What EncodeTC makes, DecodeTM takes apart, whatever stands behind it.    *)
LEMMA FrameDecodes ==
  ASSUME ChecksumIs16Bit, NEW behind \in Seq(Byte),
         NEW msg_id \in Byte, NEW p \in Seq(Byte), Len(p) <= MAX_PAYLOAD
  PROVE  LET r == Frame(msg_id, p) \o behind IN
         DecodeTM(r) = "OK" /\ MsgId(r) = msg_id /\ Payload(r) = p
<1> DEFINE f == Frame(msg_id, p)
           r == f \o behind
<1>1. /\ f \in Seq(Byte) /\ Len(f) = 9 + Len(p)
      /\ SyncPair(f, 1) /\ MsgId(f) = msg_id /\ PayloadLen(f) = Len(p)
      /\ \A i \in 1 .. Len(p) : f[7 + i] = p[i]
      /\ LE16(f[7 + Len(p) + 1], f[7 + Len(p) + 2]) = CalcCRC16(SubSeq(f, 1, 7 + Len(p)))
  BY FrameParts
<1> HIDE DEF f
<1>2. Len(p) \in Nat /\ Len(behind) \in Nat
  OBVIOUS
<1>3. /\ r \in Seq(Byte) /\ Len(r) = 9 + Len(p) + Len(behind)
      /\ \A i \in 1 .. 9 + Len(p) : r[i] = f[i]
  <2>1. /\ r \in Seq(Byte) /\ Len(r) = Len(f) + Len(behind)
        /\ \A i \in 1 .. Len(f) : r[i] = f[i]
    BY <1>1, ConcatOK
  <2> HIDE DEF r
  <2> QED
    BY <1>1, <2>1
<1>4. SubSeq(r, 1, 7 + Len(p)) = SubSeq(f, 1, 7 + Len(p))
  <2>1. 7 + Len(p) \in 0 .. Len(f)
    BY <1>1, <1>2
  <2> QED
    BY <1>1, <2>1, AheadOK
<1> HIDE DEF r
<1>5. /\ SyncPair(r, 1) /\ MsgId(r) = msg_id /\ PayloadLen(r) = Len(p)
      /\ \A i \in 1 .. Len(p) : r[7 + i] = p[i]
      /\ LE16(r[7 + Len(p) + 1], r[7 + Len(p) + 2]) = CalcCRC16(SubSeq(r, 1, 7 + Len(p)))
  <2>5. \A i \in 1 .. 9 + Len(p) : r[i] = f[i]
    BY <1>3
  <2>1. r[1] = f[1] /\ r[2] = f[2] /\ r[5] = f[5] /\ r[6] = f[6] /\ r[7] = f[7]
    <3>1. 1 \in 1 .. 9 + Len(p) /\ 2 \in 1 .. 9 + Len(p) /\ 5 \in 1 .. 9 + Len(p)
          /\ 6 \in 1 .. 9 + Len(p) /\ 7 \in 1 .. 9 + Len(p)
      BY <1>2
    <3> QED
      BY <2>5, <3>1, Zenon
  <2>2. r[7 + Len(p) + 1] = f[7 + Len(p) + 1] /\ r[7 + Len(p) + 2] = f[7 + Len(p) + 2]
    <3>1. 7 + Len(p) + 1 \in 1 .. 9 + Len(p) /\ 7 + Len(p) + 2 \in 1 .. 9 + Len(p)
      BY <1>2
    <3> QED
      BY <2>5, <3>1, Zenon
  <2>3. SyncPair(r, 1) /\ MsgId(r) = msg_id /\ PayloadLen(r) = Len(p)
    BY <1>1, <2>1 DEF SyncPair, MsgId, PayloadLen
  <2>4. \A i \in 1 .. Len(p) : r[7 + i] = p[i]
    BY <1>1, <1>2, <1>3
  <2> QED
    BY <1>1, <1>4, <2>2, <2>3, <2>4
<1>6. Payload(r) = p
  <2> DEFINE q == SubSeq(r, 8, 7 + Len(p))
  <2>1. /\ q \in Seq(Byte) /\ Len(q) = Len(p)
        /\ \A i \in 1 .. Len(p) : q[i] = r[8 + i - 1]
    BY <1>2, <1>3, SubSeqProperties
  <2>2. \A i \in 1 .. Len(p) : r[8 + i - 1] = p[i]
    BY <1>2, <1>5
  <2>3. q = p
    BY <2>1, <2>2, SeqEqual
  <2> QED
    BY <1>5, <2>3 DEF Payload, OFFSET_PAYLOAD
<1>7. DecodeTM(r) = "OK"
  <2>1. ~(Len(r) < OVERHEAD) /\ ~(Len(r) < OVERHEAD + PayloadLen(r))
    BY <1>2, <1>3, <1>5 DEF OVERHEAD
  <2>2. ~(PayloadLen(r) > MAX_PAYLOAD)
    <3>1. MAX_PAYLOAD \in Nat
      BY FormatAssumption
    <3> QED
      BY <1>2, <1>5, <3>1
  <2> DEFINE end == OFFSET_PAYLOAD + PayloadLen(r)
  <2>3. end = 7 + Len(p)
    BY <1>5 DEF OFFSET_PAYLOAD
  <2> QED
    BY <1>5, <2>1, <2>2, <2>3 DEF DecodeTM
<1> QED
  BY <1>5, <1>6, <1>7 DEF f, r

(* What DecodeTM has seen when it accepts. *)
LEMMA AcceptedOK ==
  ASSUME NEW b, Len(b) \in Nat, DecodeTM(b) = "OK"
  PROVE  /\ ~(PayloadLen(b) > MAX_PAYLOAD) /\ ~(Len(b) < OVERHEAD + PayloadLen(b))
         /\ LET end == OFFSET_PAYLOAD + PayloadLen(b)
            IN  LE16(b[end + 1], b[end + 2]) = CalcCRC16(SubSeq(b, 1, end))
<1>1. Len(b) >= OVERHEAD /\ ~(Len(b) < OVERHEAD)
  BY DEF DecodeTM, OVERHEAD
<1>2. SyncPair(b, 1)
  BY <1>1 DEF DecodeTM
<1>3. ~(PayloadLen(b) > MAX_PAYLOAD) /\ ~(Len(b) < OVERHEAD + PayloadLen(b))
  BY <1>1, <1>2 DEF DecodeTM
<1> QED
  BY <1>1, <1>2, <1>3 DEF DecodeTM

(* A byte after damage. *)
LEMMA DamagedByte ==
  ASSUME NEW x, NEW y, x \in 0 .. 255, y \in 0 .. 255
  PROVE  (x + y) % 256 \in 0 .. 255 /\ (y = 0 => (x + y) % 256 = x)
  OBVIOUS

-----------------------------------------------------------------------------
(* The payload is made of bytes. *)
Bytes == payload \in Seq(Byte)

LEMMA BytesAlways == Spec => []Bytes
<1>1. Init => Bytes
  BY DEF Init, Bytes
<1>2. Bytes /\ [WriteByte]_payload => Bytes'
  <2> SUFFICES ASSUME Bytes, WriteByte PROVE Bytes'
    BY DEF Bytes
  <2>1. PICK byte \in PayloadBytes : payload' = Append(payload, byte)
    BY DEF WriteByte
  <2>2. byte \in Byte
    BY CodecAssumption
  <2> QED
    BY <2>1, <2>2, AppendProperties DEF Bytes
<1> QED
  BY <1>1, <1>2, PTL DEF Spec

(* RoundTrips, for every payload length, everything that may be read behind *)
(* the frame and every checksum of 16 bits: the decoder of ig4u_protocol.c  *)
(* inverts its encoder and no permitted payload is refused.                 *)
THEOREM FramesRoundTrip ==
  ASSUME ChecksumIs16Bit
  PROVE  Spec => []RoundTrips
<1>1. Bytes => RoundTrips
  <2> SUFFICES ASSUME Bytes, NEW msg_id \in MsgIds, NEW behind \in Behind
               PROVE  LET enc == EncodeTC(MAX_TOTAL, msg_id, payload)
                          read == enc.out_buf \o behind
                      IN  IF Len(payload) <= MAX_PAYLOAD
                            THEN /\ enc.status = "OK"
                                 /\ DecodeTM(read) = "OK"
                                 /\ MsgId(read) = msg_id
                                 /\ Payload(read) = payload
                            ELSE enc.status = "ERR_BAD_LENGTH"
    BY DEF RoundTrips, Bytes
  <2>1. /\ msg_id \in Byte /\ behind \in Seq(Byte)
        /\ Len(payload) \in Nat /\ MAX_PAYLOAD \in Nat
    <3>1. msg_id \in Byte /\ behind \in Seq(Byte)
      BY CodecAssumption, Zenon
    <3>2. Len(payload) \in Nat
      BY DEF Bytes
    <3>3. MAX_PAYLOAD \in Nat
      BY FormatAssumption
    <3> QED
      BY <3>1, <3>2, <3>3
  <2>2. CASE Len(payload) <= MAX_PAYLOAD
    <3>1. EncodeTC(MAX_TOTAL, msg_id, payload)
            = [status |-> "OK", out_buf |-> Frame(msg_id, payload)]
      BY <2>1, <2>2 DEF EncodeTC, MAX_TOTAL, OVERHEAD
    <3> QED
      BY <2>1, <2>2, <3>1, FrameDecodes DEF Bytes
  <2>3. CASE ~(Len(payload) <= MAX_PAYLOAD)
    BY <2>1, <2>3 DEF EncodeTC
  <2> QED
    BY <2>2, <2>3
<1> QED
  BY <1>1, BytesAlways, PTL

(* ChecksumIsRemainder, for payloads of any length: the two loops of        *)
(* CalcCRC16 (ig4u_protocol.c 43-57) leave the remainder of the division.   *)
THEOREM ChecksumDivides == Spec => []ChecksumIsRemainder
<1>1. Bytes => ChecksumIsRemainder
  <2> SUFFICES ASSUME Bytes, NEW msg_id \in MsgIds
               PROVE  LET data == Body(msg_id, payload)
                          rest == Plus(Dividend(data), Times(Quotient(data)))
                      IN  rest \subseteq 0 .. 15 /\ CRC16(data) = Word(rest)
    BY DEF ChecksumIsRemainder
  <2> DEFINE data == Body(msg_id, payload)
             rest == Plus(Dividend(data), Times(Quotient(data)))
  <2>1. Len(data) \in Nat
    <3> DEFINE head == <<HEADER_BYTE_0, HEADER_BYTE_1, PACKET_VERSION,
                         MSGTYPE_COMMAND, msg_id>>
               size == WriteLE16(Len(payload))
               Any == Byte \cup {head[1], head[2], head[3], head[4], head[5], size[1], size[2]}
    <3>1. head \in Seq(Any) /\ size \in Seq(Any) /\ payload \in Seq(Any)
      BY DEF Bytes, WriteLE16
    <3> HIDE DEF head, size, Any
    <3>2. head \o size \o payload \in Seq(Any)
      BY <3>1
    <3>3. data = head \o size \o payload
      BY DEF Body, head, size
    <3> QED
      BY <3>2, <3>3
  <2> HIDE DEF data
  <2>2. Register(data)[8 * Len(data)] = rest /\ rest \in SUBSET (0 .. 15)
    BY <2>1, LoopsDivide
  <2>3. CRC16(data) = Word(rest)
    BY <2>2, Zenon DEF CRC16
  <2> QED
    BY <2>2, <2>3 DEF data
<1> QED
  BY <1>1, BytesAlways, PTL

(* DamageIsDetected, for payloads of any length, any damage, anything read  *)
(* behind the frame and the code's own checksum: the comparison of ig4u_protocol.c 195-206 rejects a frame  *)
(* that was damaged in one byte or in two neighbours.                       *)
THEOREM DamageIsFound ==
  ASSUME ChecksumIsCRC16
  PROVE  Spec => []DamageIsDetected
<1>1. ChecksumIs16Bit
  BY CRC16In DEF ChecksumIsCRC16, ChecksumIs16Bit
<1>2. Bytes => DamageIsDetected
  <2> SUFFICES ASSUME Bytes, NEW msg_id \in MsgIds, NEW behind \in Behind,
                      EncodeTC(MAX_TOTAL, msg_id, payload).status = "OK",
                      NEW i \in 1 .. Len(EncodeTC(MAX_TOTAL, msg_id, payload).out_buf) - 1,
                      NEW first \in Masks, NEW second \in Masks,
                      LET frame == EncodeTC(MAX_TOTAL, msg_id, payload).out_buf
                          damaged == Damaged(frame, i, first, second)
                          read == damaged \o behind
                      IN  /\ damaged # frame
                          /\ ~ChecksumMoved(read, behind)
                          /\ i = Len(frame) - 2 => 0 \in {first, second}
                          /\ DecodeTM(read) = "OK"
               PROVE  FALSE
    BY DEF DamageIsDetected
  <2> DEFINE n == Len(payload)
             f == Frame(msg_id, payload)
             g == Damaged(f, i, first, second)
             r == g \o behind
             a == SubSeq(f, 1, 7 + n)
             c == SubSeq(g, 1, 7 + n)
  <2>1. n \in Nat /\ n <= MAX_PAYLOAD /\ EncodeTC(MAX_TOTAL, msg_id, payload).out_buf = f
    <3>1. n \in Nat /\ MAX_PAYLOAD \in Nat
      BY FormatAssumption DEF Bytes
    <3>2. n <= MAX_PAYLOAD
      <4> SUFFICES ASSUME n > MAX_PAYLOAD PROVE FALSE
        BY <3>1
      <4> QED
        BY DEF EncodeTC
    <3>3. EncodeTC(MAX_TOTAL, msg_id, payload) = [status |-> "OK", out_buf |-> f]
      BY <3>1, <3>2 DEF EncodeTC, MAX_TOTAL, OVERHEAD
    <3> QED
      BY <3>1, <3>2, <3>3
  <2>2. /\ f \in Seq(Byte) /\ Len(f) = 9 + n
        /\ LE16(f[7 + n + 1], f[7 + n + 2]) = CalcCRC16(a)
    BY <1>1, <2>1, FrameParts, CodecAssumption DEF Bytes
  <2>3. i \in 1 .. 8 + n /\ first \in Byte /\ second \in Byte /\ behind \in Seq(Byte)
    BY <2>1, <2>2, CodecAssumption
  <2>4. /\ g # f /\ DecodeTM(r) = "OK"
        /\ PayloadLen(r) = n \/ ~(PayloadLen(r) <= n + Len(behind))
        /\ i = 7 + n => 0 \in {first, second}
    <3>1. /\ g # f /\ ~ChecksumMoved(r, behind) /\ DecodeTM(r) = "OK"
          /\ i = 7 + n => 0 \in {first, second}
      BY <2>1, <2>2
    <3> QED
      BY <3>1 DEF ChecksumMoved
  <2> HIDE DEF f, n, r
  <2>5. /\ g \in Seq(Byte) /\ Len(g) = 9 + n
        /\ \A j \in 1 .. 9 + n : j \notin {i, i + 1} => g[j] = f[j]
        /\ g[i] = (f[i] + first) % 256 /\ g[i + 1] = (f[i + 1] + second) % 256
    <3>1. DOMAIN f = 1 .. 9 + n /\ i \in 1 .. 9 + n /\ i + 1 \in 1 .. 9 + n /\ i # i + 1
      BY <2>1, <2>2, <2>3
    <3>2. \A j \in 1 .. 9 + n : f[j] \in 0 .. 255
      BY <2>1, <2>2, ElementOfSeq DEF Byte
    <3>3. /\ DOMAIN g = 1 .. 9 + n
          /\ g[i] = (f[i] + first) % 256 /\ g[i + 1] = (f[i + 1] + second) % 256
          /\ \A j \in 1 .. 9 + n : j \notin {i, i + 1} => g[j] = f[j]
      BY <3>1 DEF Damaged
    <3>4. \A j \in 1 .. 9 + n : g[j] \in Byte
      <4>1. first \in 0 .. 255 /\ second \in 0 .. 255
        BY <2>3 DEF Byte
      <4>2. f[i] \in 0 .. 255 /\ f[i + 1] \in 0 .. 255
        BY <3>1, <3>2, Zenon
      <4>3. (f[i] + first) % 256 \in 0 .. 255
        BY <4>1, <4>2, DamagedByte, Zenon
      <4>4. (f[i + 1] + second) % 256 \in 0 .. 255
        BY <4>1, <4>2, DamagedByte, Zenon
      <4> HIDE DEF g
      <4>5. TAKE j \in 1 .. 9 + n
      <4>6. CASE j = i
        BY <3>3, <4>3, <4>6, Zenon DEF Byte
      <4>7. CASE j = i + 1
        BY <3>3, <4>4, <4>7, Zenon DEF Byte
      <4>8. CASE j \notin {i, i + 1}
        BY <3>2, <3>3, <4>8, Zenon DEF Byte
      <4> QED
        BY <4>6, <4>7, <4>8, Zenon
    <3>5. g = [j \in 1 .. 9 + n |-> g[j]]
      BY <3>3 DEF Damaged
    <3> HIDE DEF g
    <3>6. g \in [1 .. 9 + n -> Byte]
      BY <3>4, <3>5
    <3> QED
      BY <2>1, <3>3, <3>6
  <2> HIDE DEF g
  <2>6. LE16(g[7 + n + 1], g[7 + n + 2]) = CalcCRC16(c)
    <3>1. /\ r \in Seq(Byte) /\ Len(r) = 9 + n + Len(behind) /\ Len(behind) \in Nat
          /\ \A j \in 1 .. 9 + n : r[j] = g[j]
      <4>1. /\ r \in Seq(Byte) /\ Len(r) = Len(g) + Len(behind)
            /\ \A j \in 1 .. Len(g) : r[j] = g[j]
        BY <2>3, <2>5, ConcatOK DEF r
      <4> QED
        BY <2>1, <2>3, <2>5, <4>1
    <3>2. /\ ~(Len(r) < OVERHEAD + PayloadLen(r))
          /\ LET end == OFFSET_PAYLOAD + PayloadLen(r)
             IN  LE16(r[end + 1], r[end + 2]) = CalcCRC16(SubSeq(r, 1, end))
      <4>1. Len(r) \in Nat /\ DecodeTM(r) = "OK"
        BY <2>4, <3>1
      <4> QED
        BY <4>1, AcceptedOK
    <3>3. PayloadLen(r) \in Nat
      <4>1. 6 \in 1 .. Len(r) /\ 7 \in 1 .. Len(r)
        BY <2>1, <3>1
      <4>2. r[6] \in Byte /\ r[7] \in Byte
        BY <3>1, <4>1, ElementOfSeq
      <4>3. r[6] \in 0 .. 255 /\ r[7] \in 0 .. 255
        BY <4>2 DEF Byte
      <4>4. PICK lo \in 0 .. 255, hi \in 0 .. 255 : lo = r[6] /\ hi = r[7]
        BY <4>3
      <4>5. lo + 256 * hi \in Nat
        OBVIOUS
      <4> QED
        BY <4>4, <4>5 DEF PayloadLen, LE16
    <3>4. PayloadLen(r) = n
      <4>1. ~(9 + n + Len(behind) < 9 + PayloadLen(r))
        BY <3>1, <3>2 DEF OVERHEAD
      <4> QED
        BY <2>1, <2>4, <3>1, <3>3, <4>1
    <3>5. LE16(r[7 + n + 1], r[7 + n + 2]) = CalcCRC16(SubSeq(r, 1, 7 + n))
      BY <3>2, <3>4 DEF OFFSET_PAYLOAD
    <3>6. r[7 + n + 1] = g[7 + n + 1] /\ r[7 + n + 2] = g[7 + n + 2]
      BY <2>1, <3>1
    <3>7. SubSeq(r, 1, 7 + n) = c
      <4>1. 7 + n \in 0 .. Len(g)
        BY <2>1, <2>5
      <4> QED
        BY <2>3, <2>5, <4>1, AheadOK DEF r
    <3> QED
      BY <3>5, <3>6, <3>7
  <2>7. /\ a \in Seq(Byte) /\ Len(a) = 7 + n /\ \A j \in 1 .. 7 + n : a[j] = f[j]
        /\ c \in Seq(Byte) /\ Len(c) = 7 + n /\ \A j \in 1 .. 7 + n : c[j] = g[j]
    <3>1. 7 + n \in Nat /\ 7 + n <= 9 + n
      BY <2>1
    <3>2. /\ a \in Seq(Byte) /\ Len(a) = 7 + n
          /\ \A j \in 1 .. 7 + n : a[j] = f[1 + j - 1]
      BY <2>1, <2>2, <3>1, SubSeqProperties
    <3>3. /\ c \in Seq(Byte) /\ Len(c) = 7 + n
          /\ \A j \in 1 .. 7 + n : c[j] = g[1 + j - 1]
      BY <2>1, <2>5, <3>1, SubSeqProperties
    <3>4. \A j \in 1 .. 7 + n : 1 + j - 1 = j
      BY <2>1
    <3> HIDE DEF a, c
    <3> QED
      BY <3>2, <3>3, <3>4
  <2> HIDE DEF a, c
  <2>8. CalcCRC16(a) = CRC16(a) /\ CalcCRC16(c) = CRC16(c)
    BY <2>7 DEF ChecksumIsCRC16
  <2> DEFINE fl == f[7 + n + 1]
             fh == f[7 + n + 2]
             gl == g[7 + n + 1]
             gh == g[7 + n + 2]
  <2>9. /\ fl \in 0 .. 255 /\ fh \in 0 .. 255 /\ gl \in 0 .. 255 /\ gh \in 0 .. 255
        /\ LE16(fl, fh) = CalcCRC16(a) /\ LE16(gl, gh) = CalcCRC16(c)
    <3>1. 7 + n + 1 \in 1 .. 9 + n /\ 7 + n + 2 \in 1 .. 9 + n
      BY <2>1
    <3> QED
      BY <2>2, <2>5, <2>6, <3>1, ElementOfSeq DEF Byte
  <2> HIDE DEF fl, fh, gl, gh
  <2>10. CASE a = c
    <3>1. fl + 256 * fh = gl + 256 * gh
      BY <2>9, <2>10 DEF LE16
    <3>2. f[7 + n + 1] = g[7 + n + 1] /\ f[7 + n + 2] = g[7 + n + 2]
      <4>1. fh \in Int /\ gh \in Int
        BY <2>9
      <4>2. fl \in 0 .. 255 /\ gl \in 0 .. 255
        BY <2>9
      <4>3. fl = gl /\ fh = gh
        BY <3>1, <4>1, <4>2, ByteTells
      <4> QED
        BY <4>3 DEF fl, fh, gl, gh
    <3>3. ASSUME NEW j \in 1 .. 9 + n PROVE f[j] = g[j]
      <4>1. j \in 1 .. 7 + n \/ j = 7 + n + 1 \/ j = 7 + n + 2
        BY <2>1
      <4> QED
        BY <2>7, <2>10, <3>2, <4>1
    <3>4. f = g
      BY <2>2, <2>5, <3>3, SeqEqual
    <3> QED
      BY <2>4, <3>4
  <2>11. CASE a # c
    <3>1. i \in 1 .. 7 + n
      <4> SUFFICES ASSUME i = 8 + n PROVE FALSE
        BY <2>1, <2>3
      <4>1. ASSUME NEW j \in 1 .. 7 + n PROVE a[j] = c[j]
        <5>1. j \in 1 .. 9 + n /\ j \notin {i, i + 1}
          BY <2>1
        <5> QED
          BY <2>5, <2>7, <5>1
      <4> QED
        BY <2>7, <2>11, <4>1, SeqEqual
    <3>2. ASSUME NEW j \in 1 .. 7 + n, j \notin {i, i + 1} PROVE a[j] = c[j]
      <4>1. j \in 1 .. 9 + n
        BY <2>1
      <4> QED
        BY <2>5, <2>7, <3>2, <4>1
    <3>3. CRC16(a) # CRC16(c)
      <4>1. a \in Seq(0 .. 255) /\ c \in Seq(0 .. 255) /\ i \in 1 .. Len(a) /\ Len(a) = Len(c)
        BY <2>7, <3>1 DEF Byte
      <4> QED
        BY <2>7, <2>11, <3>2, <4>1, DamageChangesTheChecksum
    <3>4. f[7 + n + 1] # g[7 + n + 1] \/ f[7 + n + 2] # g[7 + n + 2]
      <4>1. fl # gl \/ fh # gh
        BY <2>8, <2>9, <3>3
      <4> QED
        BY <4>1 DEF fl, fh, gl, gh
    <3>5. i = 7 + n /\ f[8 + n] # g[8 + n]
      BY <2>1, <2>5, <3>1, <3>4
    <3>6. f[i] \in 0 .. 255 /\ f[i + 1] \in 0 .. 255
      <4>1. i \in 1 .. 9 + n /\ i + 1 \in 1 .. 9 + n
        BY <2>1, <3>1
      <4> QED
        BY <2>2, <4>1, ElementOfSeq DEF Byte
    <3>7. CASE first = 0
      <4>1. g[i] = f[i]
        BY <2>3, <2>5, <3>6, <3>7, DamagedByte
      <4>2. \A j \in 1 .. 7 + n : a[j] = c[j]
        BY <2>1, <2>5, <2>7, <3>5, <4>1
      <4> QED
        BY <2>7, <2>11, <4>2, SeqEqual
    <3>8. CASE second = 0
      <4>1. g[i + 1] = f[i + 1]
        BY <2>3, <2>5, <3>6, <3>8, DamagedByte
      <4>2. i + 1 = 8 + n
        BY <2>1, <3>5
      <4> QED
        BY <3>5, <4>1, <4>2
    <3> QED
      BY <2>4, <3>5, <3>7, <3>8
  <2> QED
    BY <2>10, <2>11
<1> QED
  BY <1>2, BytesAlways, PTL
=============================================================================
