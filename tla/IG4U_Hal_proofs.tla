--------------------------- MODULE IG4U_Hal_proofs ---------------------------
(* Proofs about IG4U_Hal, for every buffer size, payload limit and traffic: *)
(* the receiver stays in its buffer, what it hands over can be decoded and  *)
(* begins at the first sync word it read.                                   *)
EXTENDS IG4U_Hal, SequenceTheorems, TLAPS

-----------------------------------------------------------------------------
(* Sequences *)

LEMMA SubSeqOK ==
  ASSUME NEW s \in Seq(Byte), NEW m \in 1 .. Len(s) + 1, NEW n \in m - 1 .. Len(s)
  PROVE  /\ SubSeq(s, m, n) \in Seq(Byte)
         /\ Len(SubSeq(s, m, n)) = n - m + 1
         /\ \A i \in 1 .. n - m + 1 : SubSeq(s, m, n)[i] = s[m + i - 1]
  BY SubSeqProperties

LEMMA ConcatOK ==
  ASSUME NEW s \in Seq(Byte), NEW t \in Seq(Byte)
  PROVE  /\ s \o t \in Seq(Byte)
         /\ Len(s \o t) = Len(s) + Len(t)
         /\ \A i \in 1 .. Len(s) : (s \o t)[i] = s[i]
         /\ \A i \in 1 .. Len(t) : (s \o t)[Len(s) + i] = t[i]
  BY ConcatProperties

(* A read never takes more than was asked for or has arrived.              *)
LEMMA ReadOutcome ==
  ASSUME NEW n \in Nat, rx \in Seq(Byte), NEW r \in ApiRead(n)
  PROVE  /\ r.got \in 0 .. Len(rx) /\ r.got <= n
         /\ Got(r) \in Seq(Byte) /\ Len(Got(r)) = r.got
         /\ Consume(r) => rx' \in Seq(Byte) /\ line' = line
<1>1. r.got \in 0 .. Len(rx) /\ r.got <= n
  BY DEF ApiRead
<1>2. Got(r) \in Seq(Byte) /\ Len(Got(r)) = r.got
  BY <1>1, SubSeqOK DEF Got
<1>3. SubSeq(rx, r.got + 1, Len(rx)) \in Seq(Byte)
  BY <1>1, SubSeqOK
<1> QED
  BY <1>1, <1>2, <1>3 DEF Consume

LEMMA WholeHeader == \A n \in 2 .. OVERHEAD : n >= OVERHEAD => n = OVERHEAD
  BY DEF OVERHEAD

LEMMA TailLength ==
  \A k \in 0 .. OVERHEAD : \A off \in 1 .. k - 2 : k - off \in 2 .. OVERHEAD - 1
  BY DEF OVERHEAD

LEMMA GrownLength ==
  \A k \in 2 .. OVERHEAD - 1 : \A n \in Nat :
    /\ OVERHEAD - k \in Nat
    /\ n <= OVERHEAD - k => k + n \in 2 .. OVERHEAD
    /\ 1 \in 1 .. k /\ 2 \in 1 .. k
  BY DEF OVERHEAD

LEMMA ByteIsNat == \A x \in Byte : x \in Nat
  BY DEF Byte

(* The length field of a header. *)
LEMMA LengthField ==
  ASSUME NEW b \in Seq(Byte), Len(b) >= OVERHEAD
  PROVE  PayloadLen(b) \in Nat /\ Remain(b) \in Nat
<1>1. b[6] \in Byte /\ b[7] \in Byte
  BY ElementOfSeq DEF OVERHEAD
<1>2. b[6] \in Nat /\ b[7] \in Nat
  BY <1>1, ByteIsNat
<1>3. PayloadLen(b) \in Nat
  BY <1>2 DEF PayloadLen, LE16
<1> QED
  BY <1>3 DEF Remain

-----------------------------------------------------------------------------
(* The inductive invariant *)

(* What each read relies on, and what a success means. *)
Framed ==
  /\ pc = "HEADER" => OVERHEAD <= BUF_SIZE
  /\ pc = "REALIGN" => Len(buf) \in 2 .. OVERHEAD - 1 /\ SyncPair(buf, 1)
                         /\ OVERHEAD <= BUF_SIZE
  /\ pc = "PAYLOAD" => Len(buf) = OVERHEAD /\ SyncPair(buf, 1)
                         /\ PayloadLen(buf) <= MAX_PAYLOAD
                         /\ OVERHEAD + Remain(buf) <= BUF_SIZE
  /\ pc # "IDLE" => result = "NONE"
  /\ result = "OK" => Len(buf) >= OVERHEAD /\ Len(buf) = OVERHEAD + Remain(buf)
                        /\ SyncPair(buf, 1) /\ PayloadLen(buf) <= MAX_PAYLOAD

IInv == TypeOK /\ Framed

LEMMA InitIInv == Init => IInv
  BY EmptySeq DEF Init, IInv, TypeOK, Framed, Reads, Results

(* The line moves and the receiver does not. *)
LEMMA LineIInv ==
  ASSUME IInv, Emit \/ Arrive \/ HAL_Init \/ HAL_Deinit
  PROVE  IInv'
<1> USE DEF IInv, TypeOK, Framed
<1>1. CASE Emit
  <2>1. line' \in Seq(Byte)
    BY <1>1, HalAssumption DEF Emit
  <2> QED
    BY <1>1, <2>1 DEF Emit
<1>2. CASE Arrive
  <2>1. PICK k \in 1 .. Len(line) :
           /\ rx' = rx \o SubSeq(line, 1, k)
           /\ line' = SubSeq(line, k + 1, Len(line))
    BY <1>2 DEF Arrive
  <2>2. rx' \in Seq(Byte) /\ line' \in Seq(Byte)
    BY <2>1, SubSeqOK, ConcatOK
  <2> QED
    BY <1>2, <2>2 DEF Arrive
<1>3. CASE HAL_Init
  BY <1>3 DEF HAL_Init, link
<1>4. CASE HAL_Deinit
  BY <1>4 DEF HAL_Deinit, link
<1> QED
  BY <1>1, <1>2, <1>3, <1>4

LEMMA RecvIInv == ASSUME IInv, HAL_Recv PROVE IInv'
  BY EmptySeq DEF IInv, TypeOK, Framed, HAL_Recv, Return, Reads, Results, link

(* Step 3 of HAL_Recv, on nine bytes or fewer that begin with a sync word. *)
LEMMA ExamineIInv ==
  ASSUME TypeOK, NEW b \in Seq(Byte), Len(b) \in 2 .. OVERHEAD, SyncPair(b, 1),
         result = "NONE", OVERHEAD <= BUF_SIZE,
         Examine(b), buf' = b,
         s_initialized' = s_initialized, line' = line,
         rx' \in Seq(Byte), taken' \in Seq(Byte)
  PROVE  IInv'
<1>1. CASE Return("ERR_RECV")
  BY <1>1 DEF IInv, TypeOK, Framed, Return, Results
<1>2. CASE Continue("FLUSH")
  BY <1>2 DEF IInv, TypeOK, Framed, Continue, Reads
<1>3. CASE /\ Len(b) >= OVERHEAD /\ PayloadLen(b) <= MAX_PAYLOAD
           /\ Len(b) + Remain(b) <= BUF_SIZE
           /\ Continue("PAYLOAD")
  <2>1. Len(b) = OVERHEAD
    BY <1>3, WholeHeader
  <2>2. SyncPair(buf, 1)' /\ PayloadLen(buf)' = PayloadLen(b) /\ Remain(buf)' = Remain(b)
    BY DEF SyncPair, PayloadLen, Remain
  <2>3. Framed'
    BY <1>3, <2>1, <2>2 DEF Framed, Continue
  <2>4. TypeOK'
    BY <1>3 DEF TypeOK, Continue, Reads
  <2> QED
    BY <2>3, <2>4 DEF IInv
<1> QED
  BY <1>1, <1>2, <1>3 DEF Examine

LEMMA ReadHeaderIInv == ASSUME IInv, ReadHeader PROVE IInv'
<1>0. TypeOK /\ Framed
  BY DEF IInv
<1>1. PICK r \in ApiRead(OVERHEAD) :
         /\ Consume(r)
         /\ taken' = Got(r)
         /\ \/ /\ ~r.ok \/ r.got = 0
               /\ HeaderTimeout
               /\ buf' = Got(r)
            \/ /\ r.ok /\ r.got > 0
               /\ NoSync(Got(r))
               /\ Continue("FLUSH")
               /\ buf' = Got(r)
            \/ /\ r.ok /\ r.got > 1
               /\ SyncAt(Got(r), 0)
               /\ Examine(Got(r))
               /\ buf' = Got(r)
            \/ /\ r.ok
               /\ \E off \in 1 .. r.got - 2 :
                    /\ SyncAt(Got(r), off)
                    /\ buf' = SubSeq(Got(r), off + 1, r.got)
               /\ Continue("REALIGN")
  BY DEF ReadHeader
<1>2. /\ r.got \in 0 .. OVERHEAD
      /\ Got(r) \in Seq(Byte) /\ Len(Got(r)) = r.got
      /\ rx' \in Seq(Byte) /\ line' = line /\ taken' \in Seq(Byte)
  <2>1. OVERHEAD \in Nat
    BY DEF OVERHEAD
  <2>2. /\ r.got \in 0 .. Len(rx) /\ r.got <= OVERHEAD
        /\ Got(r) \in Seq(Byte) /\ Len(Got(r)) = r.got
        /\ rx' \in Seq(Byte) /\ line' = line
    BY <1>0, <1>1, <2>1, ReadOutcome DEF TypeOK
  <2> QED
    BY <1>1, <2>2, LenProperties
<1>3. /\ s_initialized' = s_initialized /\ result = "NONE" /\ OVERHEAD <= BUF_SIZE
      /\ pc = "HEADER"
  BY <1>0 DEF ReadHeader, Framed
<1>4. CASE HeaderTimeout /\ buf' = Got(r)
  BY <1>0, <1>2, <1>3, <1>4 DEF IInv, TypeOK, Framed, HeaderTimeout, Return, Results
<1>5. CASE Continue("FLUSH") /\ buf' = Got(r)
  BY <1>0, <1>2, <1>3, <1>5 DEF IInv, TypeOK, Framed, Continue, Reads
<1>6. CASE r.got > 1 /\ SyncAt(Got(r), 0) /\ Examine(Got(r)) /\ buf' = Got(r)
  <2>1. Len(Got(r)) \in 2 .. OVERHEAD /\ SyncPair(Got(r), 1)
    BY <1>2, <1>6 DEF SyncAt, OVERHEAD
  <2> QED
    BY <1>0, <1>2, <1>3, <1>6, <2>1, ExamineIInv
<1>7. ASSUME NEW off \in 1 .. r.got - 2, SyncAt(Got(r), off),
             buf' = SubSeq(Got(r), off + 1, r.got), Continue("REALIGN")
      PROVE  IInv'
  <2>1. buf' \in Seq(Byte) /\ Len(buf') = r.got - off
    BY <1>2, <1>7, SubSeqOK
  <2>2. buf'[1] = Got(r)[off + 1] /\ buf'[2] = Got(r)[off + 2]
    BY <1>2, <1>7, SubSeqOK
  <2>3. SyncPair(Got(r), off + 1)
    BY <1>7 DEF SyncAt
  <2>4. SyncPair(buf, 1)'
    BY <2>2, <2>3 DEF SyncPair
  <2>5. Len(buf)' \in 2 .. OVERHEAD - 1
    BY <1>2, <1>7, <2>1, TailLength
  <2>6. TypeOK'
    BY <1>0, <1>2, <1>3, <1>7, <2>1 DEF TypeOK, Continue, Reads
  <2>7. Framed'
    BY <1>3, <1>7, <2>4, <2>5 DEF Framed, Continue
  <2> QED
    BY <2>6, <2>7 DEF IInv
<1> QED
  BY <1>1, <1>4, <1>5, <1>6, <1>7

LEMMA ReadRealignIInv == ASSUME IInv, ReadRealign PROVE IInv'
<1>0. TypeOK /\ Framed
  BY DEF IInv
<1>1. PICK r \in ApiRead(OVERHEAD - Len(buf)) :
         /\ Consume(r)
         /\ taken' = taken \o Got(r)
         /\ \/ ~r.ok /\ Return("ERR_TIMEOUT") /\ UNCHANGED buf
            \/ r.ok /\ Examine(buf \o Got(r)) /\ buf' = buf \o Got(r)
  BY DEF ReadRealign
<1>2. /\ s_initialized' = s_initialized /\ result = "NONE"
      /\ Len(buf) \in 2 .. OVERHEAD - 1 /\ SyncPair(buf, 1) /\ OVERHEAD <= BUF_SIZE
  BY <1>0 DEF ReadRealign, Framed
<1>3. OVERHEAD - Len(buf) \in Nat
  BY <1>2, GrownLength
<1>4. /\ r.got \in Nat /\ r.got <= OVERHEAD - Len(buf)
      /\ Got(r) \in Seq(Byte) /\ Len(Got(r)) = r.got
      /\ rx' \in Seq(Byte) /\ line' = line
  BY <1>0, <1>1, <1>3, ReadOutcome DEF TypeOK
<1>5. taken' \in Seq(Byte)
  BY <1>0, <1>1, <1>4, ConcatOK DEF TypeOK
<1>6. CASE Return("ERR_TIMEOUT") /\ UNCHANGED buf
  BY <1>0, <1>2, <1>4, <1>5, <1>6 DEF IInv, TypeOK, Framed, Return, Results
<1>7. CASE Examine(buf \o Got(r)) /\ buf' = buf \o Got(r)
  <2>1. /\ buf \o Got(r) \in Seq(Byte)
        /\ Len(buf \o Got(r)) = Len(buf) + r.got
        /\ \A i \in 1 .. Len(buf) : (buf \o Got(r))[i] = buf[i]
    <3>1. buf \in Seq(Byte)
      BY <1>0 DEF TypeOK
    <3>2. /\ buf \o Got(r) \in Seq(Byte)
          /\ Len(buf \o Got(r)) = Len(buf) + Len(Got(r))
          /\ \A i \in 1 .. Len(buf) : (buf \o Got(r))[i] = buf[i]
      BY <1>4, <3>1, ConcatOK, Zenon
    <3> QED
      BY <1>4, <3>2, Zenon
  <2>2. Len(buf \o Got(r)) \in 2 .. OVERHEAD
    BY <1>2, <1>4, <2>1, GrownLength
  <2>3. (buf \o Got(r))[1] = buf[1] /\ (buf \o Got(r))[2] = buf[2]
    BY <1>2, <2>1, GrownLength
  <2>4. SyncPair(buf \o Got(r), 1)
    BY <1>2, <2>3 DEF SyncPair
  <2> QED
    BY <1>0, <1>2, <1>4, <1>5, <1>7, <2>1, <2>2, <2>4, ExamineIInv
<1> QED
  BY <1>1, <1>6, <1>7

LEMMA ReadPayloadIInv == ASSUME IInv, ReadPayload PROVE IInv'
<1>0. TypeOK /\ Framed
  BY DEF IInv
<1>1. PICK r \in ApiRead(Remain(buf)) :
         /\ Consume(r)
         /\ taken' = taken \o Got(r)
         /\ \/ Return("ERR_TIMEOUT") /\ UNCHANGED buf
            \/ /\ r.got = Remain(buf)
               /\ Return("OK")
               /\ buf' = buf \o Got(r)
  BY DEF ReadPayload
<1>2. /\ s_initialized' = s_initialized /\ result = "NONE"
      /\ Len(buf) = OVERHEAD /\ SyncPair(buf, 1) /\ PayloadLen(buf) <= MAX_PAYLOAD
  BY <1>0 DEF ReadPayload, Framed
<1>3. Remain(buf) \in Nat
  <2>1. Len(buf) >= OVERHEAD
    BY <1>2 DEF OVERHEAD
  <2> QED
    BY <1>0, <2>1, LengthField DEF TypeOK
<1>4. /\ r.got \in Nat
      /\ Got(r) \in Seq(Byte) /\ Len(Got(r)) = r.got
      /\ rx' \in Seq(Byte) /\ line' = line
  BY <1>0, <1>1, <1>3, ReadOutcome DEF TypeOK
<1>5. taken' \in Seq(Byte)
  BY <1>0, <1>1, <1>4, ConcatOK DEF TypeOK
<1>6. CASE Return("ERR_TIMEOUT") /\ UNCHANGED buf
  BY <1>0, <1>2, <1>4, <1>5, <1>6 DEF IInv, TypeOK, Framed, Return, Results
<1>7. CASE r.got = Remain(buf) /\ Return("OK") /\ buf' = buf \o Got(r)
  <2>1. /\ buf' \in Seq(Byte)
        /\ Len(buf') = OVERHEAD + Remain(buf)
        /\ \A i \in 1 .. OVERHEAD : buf'[i] = buf[i]
    <3>1. buf \in Seq(Byte)
      BY <1>0 DEF TypeOK
    <3>2. /\ buf \o Got(r) \in Seq(Byte)
          /\ Len(buf \o Got(r)) = Len(buf) + Len(Got(r))
          /\ \A i \in 1 .. Len(buf) : (buf \o Got(r))[i] = buf[i]
      BY <1>4, <3>1, ConcatOK, Zenon
    <3> QED
      BY <1>2, <1>4, <1>7, <3>2, Zenon
  <2>2. Len(buf') >= OVERHEAD
    BY <1>3, <2>1 DEF OVERHEAD
  <2>3. PayloadLen(buf)' = PayloadLen(buf) /\ SyncPair(buf, 1)'
    BY <1>2, <2>1 DEF PayloadLen, SyncPair, OVERHEAD
  <2>4. Remain(buf)' = Remain(buf)
    BY <2>3 DEF Remain
  <2> QED
    BY <1>0, <1>2, <1>4, <1>5, <1>7, <2>1, <2>2, <2>3, <2>4
       DEF IInv, TypeOK, Framed, Return, Results
<1> QED
  BY <1>1, <1>6, <1>7

LEMMA FlushIInv == ASSUME IInv, HAL_FlushRx PROVE IInv'
<1> USE DEF IInv, TypeOK, Framed
<1>1. PICK r \in ApiRead(DUMMY_SIZE) :
         /\ Consume(r)
         /\ Continue("FLUSH") \/ Return("ERR_RECV")
  BY DEF HAL_FlushRx
<1>2. rx' \in Seq(Byte) /\ line' = line
  BY <1>1, HalAssumption, ReadOutcome
<1> QED
  BY <1>1, <1>2 DEF HAL_FlushRx, Continue, Return, Reads, Results

LEMMA StepIInv == IInv /\ [Next]_vars => IInv'
<1> SUFFICES ASSUME IInv, [Next]_vars PROVE IInv'
  OBVIOUS
<1>1. CASE Next
  BY <1>1, LineIInv, RecvIInv, ReadHeaderIInv, ReadRealignIInv, ReadPayloadIInv,
     FlushIInv DEF Next, RecvStep
<1>2. CASE UNCHANGED vars
  BY <1>2 DEF IInv, TypeOK, Framed, vars, link, SyncPair, PayloadLen, Remain
<1> QED
  BY <1>1, <1>2

THEOREM ReceiverInvariant == Spec => []IInv
  BY InitIInv, StepIInv, PTL DEF Spec

(* The receiver holds bytes and is in one of its reads, always.            *)
THEOREM ReceiverTypes == Spec => []TypeOK
<1>1. IInv => TypeOK
  BY DEF IInv
<1> QED
  BY <1>1, ReceiverInvariant, PTL

(* No length field, split read or noise makes a read write past the end of *)
(* the caller's buffer.                                                    *)
THEOREM NoOverrun == Spec => []ReadsStayInBuffer
<1>1. IInv => ReadsStayInBuffer
  <2>1. \A n \in 2 .. OVERHEAD - 1 : n < OVERHEAD
    BY DEF OVERHEAD
  <2> QED
    BY <2>1 DEF IInv, Framed, ReadsStayInBuffer
<1> QED
  BY <1>1, ReceiverInvariant, PTL

(* Of what HAL_Recv returns, DecodeTM's header and length checks hold.     *)
THEOREM ReceivedIsDecodable == Spec => []SuccessIsDecodable
<1>1. ASSUME IInv, result = "OK" PROVE DecodeTM(buf) \in {"OK", "ERR_CRC_FAIL"}
  <2>1. /\ Len(buf) >= OVERHEAD /\ Len(buf) = OVERHEAD + Remain(buf)
        /\ SyncPair(buf, 1) /\ PayloadLen(buf) <= MAX_PAYLOAD
    BY <1>1 DEF IInv, Framed
  <2>2. buf \in Seq(Byte) /\ Len(buf) \in Nat
    BY <1>1, LenProperties DEF IInv, TypeOK
  <2>3. PayloadLen(buf) \in Nat
    BY <2>1, <2>2, LengthField
  <2>4. /\ ~(Len(buf) < OVERHEAD)
        /\ ~(PayloadLen(buf) > MAX_PAYLOAD)
        /\ ~(Len(buf) < OVERHEAD + PayloadLen(buf))
    BY <2>1, <2>2, <2>3, FormatAssumption DEF Remain, OVERHEAD
  <2> QED
    BY <2>1, <2>4 DEF DecodeTM
<1> QED
  BY <1>1, ReceiverInvariant, PTL DEF SuccessIsDecodable

-----------------------------------------------------------------------------
(* The buffer begins at the first sync word read *)

(* s is the tail, m elements long, of the n elements of t; x and y are s    *)
(* and t with the l elements of u behind them.                             *)
BothGrow(m, n, l, s, t, u, x, y) ==
  /\ m <= n
  /\ \A i \in 1 .. m : s[i] = t[n - m + i]
  /\ \A i \in 1 .. m : x[i] = s[i]
  /\ \A i \in 1 .. l : x[m + i] = u[i]
  /\ \A i \in 1 .. n : y[i] = t[i]
  /\ \A i \in 1 .. l : y[n + i] = u[i]

LEMMA TailsGrow ==
  ASSUME NEW m \in Nat, NEW n \in Nat, NEW l \in Nat,
         NEW s, NEW t, NEW u, NEW x, NEW y, BothGrow(m, n, l, s, t, u, x, y)
  PROVE  \A i \in 1 .. m + l : x[i] = y[(n - m) + i]
<1> USE DEF BothGrow
<1>1. ASSUME NEW i \in 1 .. m PROVE x[i] = y[(n - m) + i]
  <2>1. (n - m) + i \in 1 .. n
    OBVIOUS
  <2> QED
    BY <2>1
<1>2. ASSUME NEW i \in 1 .. l PROVE x[m + i] = y[(n - m) + (m + i)]
  <2>1. (n - m) + (m + i) = n + i
    OBVIOUS
  <2> QED
    BY <2>1
<1>3. ASSUME NEW i \in 1 .. m + l PROVE i \in 1 .. m \/ \E j \in 1 .. l : i = m + j
  <2>1. CASE i <= m
    BY <2>1
  <2>2. CASE i > m
    <3>1. i - m \in 1 .. l /\ i = m + (i - m)
      BY <2>2
    <3> QED
      BY <3>1
  <2> QED
    BY <2>1, <2>2
<1> QED
  BY <1>1, <1>2, <1>3

LEMMA FirstSyncGrows ==
  ASSUME NEW b \in Seq(Byte), NEW t \in Seq(Byte), NEW u \in Seq(Byte),
         2 <= Len(b), FromFirstSync(b, t)
  PROVE  FromFirstSync(b \o u, t \o u)
<1> DEFINE m == Len(b)
           n == Len(t)
           l == Len(u)
           x == b \o u
           y == t \o u
<1>1. m \in Nat /\ n \in Nat /\ l \in Nat
  BY LenProperties
<1>2. /\ Len(x) = m + l
      /\ \A i \in 1 .. m : x[i] = b[i]
      /\ \A i \in 1 .. l : x[m + i] = u[i]
  BY ConcatOK, Zenon
<1>3. /\ Len(y) = n + l
      /\ \A i \in 1 .. n : y[i] = t[i]
      /\ \A i \in 1 .. l : y[n + i] = u[i]
  BY ConcatOK, Zenon
<1>4. /\ n - m >= 0
      /\ \A i \in 1 .. m : b[i] = t[n - m + i]
      /\ SyncPair(t, n - m + 1)
      /\ \A i \in 1 .. n - m : ~SyncPair(t, i)
  BY Zenon DEF FromFirstSync
<1>5. 2 <= m
  OBVIOUS
<1> HIDE DEF m, n, l, x, y
<1>6. m <= n
  BY <1>1, <1>4
<1>7. \A i \in 1 .. m + l : x[i] = y[(n - m) + i]
  <2>1. BothGrow(m, n, l, b, t, u, x, y)
    BY <1>2, <1>3, <1>4, <1>6, Zenon DEF BothGrow
  <2> QED
    BY <1>1, <2>1, TailsGrow
<1>8. ASSUME NEW i \in 1 .. n - m + 1 PROVE SyncPair(y, i) <=> SyncPair(t, i)
  <2>1. i \in 1 .. n /\ i + 1 \in 1 .. n
    BY <1>1, <1>5, <1>6
  <2> QED
    BY <1>3, <2>1 DEF SyncPair
<1>9. SyncPair(y, n - m + 1)
  <2>1. n - m + 1 \in 1 .. n - m + 1
    BY <1>1, <1>6
  <2> QED
    BY <1>4, <1>8, <2>1
<1>10. \A i \in 1 .. n - m : ~SyncPair(y, i)
  <2>1. \A i \in 1 .. n - m : i \in 1 .. n - m + 1
    BY <1>1, <1>6
  <2> QED
    BY <1>4, <1>8, <2>1
<1>11. Len(y) - Len(x) = n - m
  BY <1>1, <1>2, <1>3
<1>12. FromFirstSync(x, y)
  <2>1. /\ Len(y) - Len(x) >= 0
        /\ \A i \in 1 .. Len(x) : x[i] = y[(Len(y) - Len(x)) + i]
        /\ SyncPair(y, (Len(y) - Len(x)) + 1)
        /\ \A i \in 1 .. Len(y) - Len(x) : ~SyncPair(y, i)
    BY <1>2, <1>4, <1>7, <1>9, <1>10, <1>11
  <2> QED
    BY <2>1 DEF FromFirstSync
<1> QED
  BY <1>12, Zenon DEF x, y

LEMMA HeaderAligned == ASSUME IInv, ReadHeader PROVE AlignedOnFirstSync'
<1>0. rx \in Seq(Byte) /\ result = "NONE"
  BY DEF IInv, TypeOK, Framed, ReadHeader
<1>1. PICK r \in ApiRead(OVERHEAD) :
         /\ taken' = Got(r)
         /\ \/ HeaderTimeout
            \/ Continue("FLUSH")
            \/ SyncAt(Got(r), 0) /\ buf' = Got(r)
            \/ \E off \in 1 .. r.got - 2 :
                 SyncAt(Got(r), off) /\ buf' = SubSeq(Got(r), off + 1, r.got)
  BY DEF ReadHeader
<1>2. Got(r) \in Seq(Byte) /\ Len(Got(r)) = r.got /\ r.got \in Nat
  <2>1. OVERHEAD \in Nat
    BY DEF OVERHEAD
  <2> QED
    BY <1>0, <2>1, ReadOutcome
<1>3. CASE HeaderTimeout
  BY <1>3 DEF AlignedOnFirstSync, HeaderTimeout, Return
<1>4. CASE Continue("FLUSH")
  BY <1>0, <1>4 DEF AlignedOnFirstSync, Continue
<1>5. ASSUME NEW off \in 0 .. r.got - 2, SyncAt(taken', off),
             buf' = SubSeq(taken', off + 1, r.got)
      PROVE  FromFirstSync(buf', taken')
  <2>1. /\ Len(buf') = r.got - off
        /\ \A i \in 1 .. r.got - off : buf'[i] = taken'[off + i]
    <3>1. off + 1 \in 1 .. Len(taken') + 1 /\ r.got \in (off + 1) - 1 .. Len(taken')
      BY <1>1, <1>2
    <3>2. /\ Len(buf') = r.got - (off + 1) + 1
          /\ \A i \in 1 .. r.got - (off + 1) + 1 : buf'[i] = taken'[(off + 1) + i - 1]
      BY <1>1, <1>2, <1>5, <3>1, SubSeqOK, Zenon
    <3>3. /\ r.got - (off + 1) + 1 = r.got - off
          /\ \A i \in 1 .. r.got - off : (off + 1) + i - 1 = off + i
      BY <1>2
    <3> QED
      BY <3>2, <3>3, Zenon
  <2>2. Len(taken') - Len(buf') = off
    BY <1>1, <1>2, <2>1
  <2>3. off >= 0
    OBVIOUS
  <2> QED
    BY <1>5, <2>1, <2>2, <2>3, Zenon DEF FromFirstSync, SyncAt
<1>6. CASE SyncAt(Got(r), 0) /\ buf' = Got(r)
  <2>1. Len(taken') - Len(buf') = 0
    BY <1>1, <1>2, <1>6
  <2>2. \A i \in 1 .. Len(buf') : buf'[i] = taken'[0 + i]
    BY <1>1, <1>2, <1>6
  <2>3. FromFirstSync(buf', taken')
    BY <1>1, <1>6, <2>1, <2>2 DEF FromFirstSync, SyncAt
  <2> QED
    BY <2>3 DEF AlignedOnFirstSync
<1>7. ASSUME NEW off \in 1 .. r.got - 2, SyncAt(Got(r), off),
             buf' = SubSeq(Got(r), off + 1, r.got)
      PROVE  AlignedOnFirstSync'
  <2>1. off \in 0 .. r.got - 2
    BY <1>2
  <2>2. FromFirstSync(buf', taken')
    BY <1>1, <1>5, <1>7, <2>1
  <2> QED
    BY <2>2 DEF AlignedOnFirstSync
<1> QED
  BY <1>1, <1>3, <1>4, <1>6, <1>7

(* Both buffers grow by the same bytes, and they hold a sync word already.  *)
LEMMA GrowAligned ==
  ASSUME IInv, AlignedOnFirstSync, pc \in {"REALIGN", "PAYLOAD"},
         NEW u \in Seq(Byte), buf' = buf \o u, taken' = taken \o u
  PROVE  AlignedOnFirstSync'
<1>1. buf \in Seq(Byte) /\ taken \in Seq(Byte)
  BY DEF IInv, TypeOK
<1>2. 2 <= Len(buf)
  <2>1. \A n \in 2 .. OVERHEAD - 1 : 2 <= n
    OBVIOUS
  <2>2. 2 <= OVERHEAD
    BY DEF OVERHEAD
  <2> QED
    BY <2>1, <2>2 DEF IInv, Framed
<1>3. FromFirstSync(buf, taken)
  BY DEF AlignedOnFirstSync
<1>4. FromFirstSync(buf', taken')
  BY <1>1, <1>2, <1>3, FirstSyncGrows
<1> QED
  BY <1>4 DEF AlignedOnFirstSync

LEMMA RealignAligned ==
  ASSUME IInv, AlignedOnFirstSync, ReadRealign PROVE AlignedOnFirstSync'
<1>1. PICK r \in ApiRead(OVERHEAD - Len(buf)) :
         /\ taken' = taken \o Got(r)
         /\ Return("ERR_TIMEOUT") \/ buf' = buf \o Got(r)
  BY DEF ReadRealign
<1>2. CASE Return("ERR_TIMEOUT")
  BY <1>2 DEF AlignedOnFirstSync, Return
<1>3. CASE buf' = buf \o Got(r)
  <2>1. Len(buf) \in 2 .. OVERHEAD - 1 /\ pc = "REALIGN"
    BY DEF IInv, Framed, ReadRealign
  <2>2. OVERHEAD - Len(buf) \in Nat
    BY <2>1, GrownLength
  <2>3. Got(r) \in Seq(Byte)
    BY <2>2, ReadOutcome DEF IInv, TypeOK
  <2> QED
    BY <1>1, <1>3, <2>1, <2>3, GrowAligned
<1> QED
  BY <1>1, <1>2, <1>3

LEMMA PayloadAligned ==
  ASSUME IInv, AlignedOnFirstSync, ReadPayload PROVE AlignedOnFirstSync'
<1>1. PICK r \in ApiRead(Remain(buf)) :
         /\ taken' = taken \o Got(r)
         /\ Return("ERR_TIMEOUT") \/ buf' = buf \o Got(r)
  BY DEF ReadPayload
<1>2. CASE Return("ERR_TIMEOUT")
  BY <1>2 DEF AlignedOnFirstSync, Return
<1>3. CASE buf' = buf \o Got(r)
  <2>1. Len(buf) = OVERHEAD /\ pc = "PAYLOAD"
    BY DEF IInv, Framed, ReadPayload
  <2>2. Remain(buf) \in Nat
    <3>1. Len(buf) >= OVERHEAD
      BY <2>1 DEF OVERHEAD
    <3> QED
      BY <3>1, LengthField DEF IInv, TypeOK
  <2>3. Got(r) \in Seq(Byte)
    BY <2>2, ReadOutcome DEF IInv, TypeOK
  <2> QED
    BY <1>1, <1>3, <2>1, <2>3, GrowAligned
<1> QED
  BY <1>1, <1>2, <1>3

LEMMA StepAligned ==
  IInv /\ AlignedOnFirstSync /\ [Next]_vars => AlignedOnFirstSync'
<1> SUFFICES ASSUME IInv, AlignedOnFirstSync, [Next]_vars
             PROVE  AlignedOnFirstSync'
  OBVIOUS
<1>1. CASE Emit \/ Arrive \/ HAL_Init \/ HAL_Deinit
  BY <1>1 DEF AlignedOnFirstSync, Emit, Arrive, HAL_Init, HAL_Deinit
<1>2. CASE HAL_Recv
  BY <1>2 DEF AlignedOnFirstSync, HAL_Recv, Return
<1>3. CASE HAL_FlushRx
  <2>1. result = "NONE"
    BY <1>3 DEF IInv, Framed, HAL_FlushRx
  <2> QED
    BY <1>3, <2>1 DEF AlignedOnFirstSync, HAL_FlushRx, Continue, Return
<1>4. CASE UNCHANGED vars
  BY <1>4 DEF AlignedOnFirstSync, vars
<1> QED
  BY <1>1, <1>2, <1>3, <1>4, HeaderAligned, RealignAligned, PayloadAligned
     DEF Next, RecvStep

(* However the bytes are split over the reads, the caller's buffer holds    *)
(* the bytes that follow the first sync word, in order and without a gap.   *)
THEOREM BufferIsAligned == Spec => []AlignedOnFirstSync
<1>1. Init => AlignedOnFirstSync
  BY DEF Init, AlignedOnFirstSync
<1>2. IInv /\ AlignedOnFirstSync /\ [Next]_vars => AlignedOnFirstSync'
  BY StepAligned
<1> QED
  BY <1>1, <1>2, ReceiverInvariant, PTL DEF Spec
=============================================================================
