------------------------------- MODULE IG4U_Hal -------------------------------
(***************************************************************************)
(* The RS-422 receiver of ig4u_hal.c: HAL_Init, HAL_Deinit, HAL_Recv and   *)
(* the HAL_FlushRx it calls, over a serial line that delivers bytes one by *)
(* one.                                                                    *)
(*                                                                         *)
(* HAL_Recv blocks in each CFE_SRL_ApiRead, so it takes one step per read; *)
(* pc names the read it is blocked in, buf holds the bytes_read bytes of   *)
(* the caller's buffer.  The line is external: bytes the unit has sent but *)
(* that have not arrived, and bytes that wait in the driver.  A read       *)
(* returns the bytes it was asked for, or times out with what has arrived, *)
(* with or without an error status: the driver's API does not say which.   *)
(***************************************************************************)
EXTENDS IG4U_Protocol

CONSTANTS
  BUF_SIZE,      \* the size argument, IG4U_PACKET_MAX_TOTAL in every call
  DUMMY_SIZE,    \* the bytes HAL_FlushRx discards per read, 64 in the code
  Emissions,     \* what the unit, or noise, may put on the line in one go
  LINE_LIMIT     \* bound on the bytes under way and unread

ASSUME HalAssumption ==
  /\ BUF_SIZE \in Nat
  /\ DUMMY_SIZE \in Nat \ {0}
  /\ Emissions \subseteq Seq(Byte)
  /\ LINE_LIMIT \in Nat

VARIABLES
  s_initialized,
  line,          \* sent, not arrived
  rx,            \* arrived, not read
  pc,            \* the read HAL_Recv is blocked in, or "IDLE"
  buf,           \* the caller's buffer up to bytes_read
  taken,         \* history: what this call has read into the buffer, in order
  result         \* what the last call returned, "NONE" while one is running

link == <<line, rx>>
vars == <<s_initialized, link, pc, buf, taken, result>>

Reads == {"HEADER", "REALIGN", "PAYLOAD", "FLUSH"}
Results == {"NONE", "OK", "ERR_RECV", "ERR_TIMEOUT", "ERR_NOT_INIT"}

Init ==
  /\ s_initialized = FALSE
  /\ line = <<>> /\ rx = <<>> /\ buf = <<>> /\ taken = <<>>
  /\ pc = "IDLE"
  /\ result = "NONE"

-----------------------------------------------------------------------------
(* The serial line *)

(* The next piece of traffic follows when the last has gone by. *)
Emit ==
  \E e \in Emissions :
    /\ line = <<>>
    /\ Len(rx) + Len(e) <= LINE_LIMIT
    /\ line' = e
    /\ UNCHANGED <<s_initialized, rx, pc, buf, taken, result>>

Arrive ==
  \E k \in 1 .. Len(line) :
    /\ rx' = rx \o SubSeq(line, 1, k)
    /\ line' = SubSeq(line, k + 1, Len(line))
    /\ UNCHANGED <<s_initialized, pc, buf, taken, result>>

(* The outcomes of a read of n bytes: all of them, a driver error, or a    *)
(* time-out with fewer.                                                    *)
ApiRead(n) ==
  {[got |-> 0, ok |-> FALSE]} \cup
  IF Len(rx) >= n THEN {[got |-> n, ok |-> TRUE]}
                  ELSE [got : {Len(rx)}, ok : BOOLEAN]

Got(r) == SubSeq(rx, 1, r.got)
Consume(r) == rx' = SubSeq(rx, r.got + 1, Len(rx)) /\ UNCHANGED line

-----------------------------------------------------------------------------
(* Opening and closing *)

HAL_Init ==
  /\ pc = "IDLE"
  /\ s_initialized' \in {TRUE, s_initialized}
  /\ UNCHANGED <<link, pc, buf, taken, result>>

HAL_Deinit ==
  /\ pc = "IDLE"
  /\ s_initialized' = FALSE
  /\ UNCHANGED <<link, pc, buf, taken, result>>

-----------------------------------------------------------------------------
(* HAL_Recv *)

Return(code) == pc' = "IDLE" /\ result' = code
Continue(read) == pc' = read /\ UNCHANGED result

HAL_Recv ==
  /\ pc = "IDLE"
  /\ \/ ~s_initialized /\ Return("ERR_NOT_INIT")
     \/ s_initialized /\ BUF_SIZE < OVERHEAD /\ Return("ERR_RECV")
     \/ /\ s_initialized /\ BUF_SIZE >= OVERHEAD
        /\ pc' = "HEADER" /\ result' = "NONE"
  /\ buf' = <<>> /\ taken' = <<>>
  /\ UNCHANGED <<s_initialized, link>>

(* Payload and CRC are still to come: two bytes more than the frame has,   *)
(* the nine bytes already read having included two of them.                *)
Remain(b) == PayloadLen(b) + 2

(* Seeded fault: the length field is trusted. *)
ExamineUnchecked(b) ==
  \/ Len(b) < OVERHEAD /\ Return("ERR_RECV")
  \/ Len(b) >= OVERHEAD /\ PayloadLen(b) > MAX_PAYLOAD /\ Continue("FLUSH")
  \/ Len(b) >= OVERHEAD /\ PayloadLen(b) <= MAX_PAYLOAD /\ Continue("PAYLOAD")

(* Step 3: the length field decides how the call goes on.                  *)
Examine(b) ==
  \/ Len(b) < OVERHEAD /\ Return("ERR_RECV")
  \/ Len(b) >= OVERHEAD /\ PayloadLen(b) > MAX_PAYLOAD /\ Continue("FLUSH")
  \/ /\ Len(b) >= OVERHEAD /\ PayloadLen(b) <= MAX_PAYLOAD
     /\ Len(b) + Remain(b) > BUF_SIZE
     /\ Return("ERR_RECV")
  \/ /\ Len(b) >= OVERHEAD /\ PayloadLen(b) <= MAX_PAYLOAD
     /\ Len(b) + Remain(b) <= BUF_SIZE
     /\ Continue("PAYLOAD")

(* Seeded faults: the header read is tried again for ever; the driver's    *)
(* status is handed on.                                                    *)
HeaderRetry == Continue("HEADER")
HeaderStatus == Return("CFE_STATUS")

HeaderTimeout == Return("ERR_TIMEOUT")

(* Steps 1 and 2: nine bytes, then the sync word; what precedes it goes.   *)
ReadHeader ==
  /\ pc = "HEADER"
  /\ UNCHANGED s_initialized
  /\ \E r \in ApiRead(OVERHEAD) :
       LET got == Got(r) IN
       /\ Consume(r)
       /\ taken' = got
       /\ \/ /\ ~r.ok \/ r.got = 0
             /\ HeaderTimeout
             /\ buf' = got
          \/ /\ r.ok /\ r.got > 0
             /\ NoSync(got)
             /\ Continue("FLUSH")
             /\ buf' = got
          \/ /\ r.ok /\ r.got > 1
             /\ SyncAt(got, 0)
             /\ Examine(got)
             /\ buf' = got
          \/ /\ r.ok
             /\ \E off \in 1 .. r.got - 2 :
                  /\ SyncAt(got, off)
                  /\ buf' = SubSeq(got, off + 1, r.got)
             /\ Continue("REALIGN")

(* The bytes the realignment left missing. *)
ReadRealign ==
  /\ pc = "REALIGN"
  /\ UNCHANGED s_initialized
  /\ \E r \in ApiRead(OVERHEAD - Len(buf)) :
       /\ Consume(r)
       /\ taken' = taken \o Got(r)
       /\ \/ ~r.ok /\ Return("ERR_TIMEOUT") /\ UNCHANGED buf
          \/ r.ok /\ Examine(buf \o Got(r)) /\ buf' = buf \o Got(r)

(* Seeded fault: a short read passes for the whole payload. *)
ReadPayloadShort ==
  /\ pc = "PAYLOAD"
  /\ UNCHANGED s_initialized
  /\ \E r \in ApiRead(Remain(buf)) :
       /\ Consume(r)
       /\ taken' = taken \o Got(r)
       /\ \/ ~r.ok /\ Return("ERR_TIMEOUT") /\ UNCHANGED buf
          \/ r.ok /\ Return("OK") /\ buf' = buf \o Got(r)

ReadPayload ==
  /\ pc = "PAYLOAD"
  /\ UNCHANGED s_initialized
  /\ \E r \in ApiRead(Remain(buf)) :
       /\ Consume(r)
       /\ taken' = taken \o Got(r)
       /\ \/ /\ ~r.ok \/ r.got # Remain(buf)
             /\ Return("ERR_TIMEOUT")
             /\ UNCHANGED buf
          \/ /\ r.ok /\ r.got = Remain(buf)
             /\ Return("OK")
             /\ buf' = buf \o Got(r)

(* HAL_FlushRx, called by HAL_Recv: reads until nothing comes any more.    *)
HAL_FlushRx ==
  /\ pc = "FLUSH"
  /\ UNCHANGED <<s_initialized, buf, taken>>
  /\ \E r \in ApiRead(DUMMY_SIZE) :
       /\ Consume(r)
       /\ \/ r.ok /\ r.got > 0 /\ Continue("FLUSH")
          \/ (~r.ok \/ r.got = 0) /\ Return("ERR_RECV")

RecvStep == ReadHeader \/ ReadRealign \/ ReadPayload \/ HAL_FlushRx

Next == Emit \/ Arrive \/ HAL_Init \/ HAL_Deinit \/ HAL_Recv \/ RecvStep

Spec == Init /\ [][Next]_vars

(* A read returns, at the latest on its time-out. *)
FairSpec == Spec /\ WF_vars(RecvStep)

-----------------------------------------------------------------------------
(* Properties *)

(* The buffers hold bytes, and the receiver is in one of its reads.        *)
TypeOK ==
  /\ s_initialized \in BOOLEAN
  /\ line \in Seq(Byte) /\ rx \in Seq(Byte)
  /\ pc \in Reads \cup {"IDLE"}
  /\ buf \in Seq(Byte) /\ taken \in Seq(Byte)
  /\ result \in Results

(* The reads ahead write inside the caller's buffer, whatever the line     *)
(* says about its length: the header read from 0, the other two from       *)
(* bytes_read on (ig4u_hal.c 167-171, 205-209, 250-254).                   *)
ReadsStayInBuffer ==
  /\ pc = "HEADER" => OVERHEAD <= BUF_SIZE
  /\ pc = "REALIGN" => Len(buf) < OVERHEAD /\ OVERHEAD <= BUF_SIZE
  /\ pc = "PAYLOAD" => Len(buf) + Remain(buf) <= BUF_SIZE

(* What HAL_Recv returns as received, DecodeTM can take apart: only the    *)
(* checksum is left to fail (ig4u_protocol.c 162-192).                     *)
SuccessIsDecodable == result = "OK" => DecodeTM(buf) \in {"OK", "ERR_CRC_FAIL"}

(* b is the tail of t that begins at the first sync word of t.             *)
FromFirstSync(b, t) ==
  LET skipped == Len(t) - Len(b) IN
  /\ skipped >= 0
  /\ \A i \in 1 .. Len(b) : b[i] = t[skipped + i]
  /\ SyncPair(t, skipped + 1)
  /\ \A i \in 1 .. skipped : ~SyncPair(t, i)

(* Past the header, the buffer is the tail of the bytes read, none lost or *)
(* moved by the realignment, and what was dropped before it held no sync   *)
(* word (ig4u_hal.c 193-216).                                              *)
AlignedOnFirstSync ==
  pc \in {"REALIGN", "PAYLOAD"} \/ result = "OK" => FromFirstSync(buf, taken)

(* Once the line falls silent, every call of HAL_Recv returns.             *)
RecvReturns == <>[](line = <<>>) => (pc # "IDLE" ~> pc = "IDLE")

-----------------------------------------------------------------------------
(* Statements of the comments that the code does not keep *)

(* b holds a whole frame. *)
HoldsFrame(b) ==
  \E i \in 1 .. Len(b) : DecodeTM(SubSeq(b, i, Len(b))) = "OK"

(* ig4u_hal.c 19-23: variable-length packets are received reliably.  So a  *)
(* call that times out has not read a whole frame.                         *)
TimeoutMeansIncomplete == result = "ERR_TIMEOUT" => ~HoldsFrame(taken)
=============================================================================
