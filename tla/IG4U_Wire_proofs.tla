--------------------------- MODULE IG4U_Wire_proofs ---------------------------
(***************************************************************************)
(* The wire commands: what their variables hold, that no default response  *)
(* passes for data, and that they keep the promise of IG4U_Exchange, for   *)
(* every number of unread frames, every fault log and every behaviour of   *)
(* the line and the unit.                                                  *)
(***************************************************************************)
EXTENDS IG4U_Wire, TLAPS

(* What is left of a frame is a number of bytes, of a frame just sent at   *)
(* least the nine of header and CRC.                                       *)
LEMMA PayloadIsNat ==
  ASSUME NEW f \in Frames
  PROVE  PayloadLen(f) \in Nat
BY WireAssumption DEF Frames, SentKinds, PayloadLen, Smaller

LEMMA LeftIsNat ==
  ASSUME NEW f \in Frames
  PROVE  Left(f) \in Nat
BY PayloadIsNat DEF Frames, Left, Overhead

LEMMA SentIsLong ==
  ASSUME NEW f \in SentFrames
  PROVE  f \in Frames /\ Left(f) \in Nat /\ Left(f) >= 9
<1>1. f \in Frames /\ f.kind \notin {"BAD", "REST"}
  BY DEF SentFrames, SentKinds
<1> QED
  BY <1>1, PayloadIsNat DEF Left, Overhead

LEMMA RestIsFrame ==
  ASSUME NEW n \in Nat
  PROVE  Rest(n) \in Frames /\ Bad(n) \in Frames
BY DEF Rest, Bad, FrameOf, Frames, SentKinds

LEMMA ReplyIsSent ==
  ASSUME NEW op \in Ops, NEW kind \in SentKinds
  PROVE  Reply(op, kind) \in SentFrames
BY DEF Reply, FrameOf, SentFrames, Frames, SentKinds, WireId, Ops, PlainOps,
       MainOps, ColdOps, SendOnly, ReportOps, Firings

LEMMA LogIsSent ==
  ASSUME NEW n \in LogCounts, NEW mark \in Marks
  PROVE  FrameOf(WireId("REQUEST_FAULT_LOG"), "LOG", n, mark) \in SentFrames
BY WireAssumption DEF FrameOf, SentFrames, Frames, SentKinds, WireId, MainOps

LEMMA EventIsSent == Event \in SentFrames
BY DEF Event, FrameOf, SentFrames, Frames, SentKinds

-----------------------------------------------------------------------------
(* HAL_Recv leaves frames in the buffer. *)

LEMMA LoseFrontType ==
  ASSUME NEW q \in Seq(Frames), NEW k \in Nat
  PROVE  LoseFront(q, k) \in Seq(Frames)
<1>1. CASE q = <<>>
  BY <1>1 DEF LoseFront
<1>2. CASE q # <<>>
  <2>1. Head(q) \in Frames /\ Tail(q) \in Seq(Frames)
    BY <1>2
  <2>2. Left(Head(q)) \in Nat
    BY <2>1, LeftIsNat
  <2>3. CASE Left(Head(q)) > k
    <3>1. Rest(Left(Head(q)) - k) \in Frames
      BY <2>2, <2>3, RestIsFrame
    <3> QED
      BY <1>2, <2>1, <2>3, <3>1 DEF LoseFront
  <2>4. CASE ~(Left(Head(q)) > k)
    BY <1>2, <2>1, <2>4 DEF LoseFront
  <2> QED BY <2>3, <2>4
<1> QED BY <1>1, <1>2

LEMMA ReadOffType ==
  ASSUME NEW q \in Seq(Frames), NEW k \in Nat
  PROVE  ReadOff(q, k) \in Seq(Frames)
<1>1. CASE q = <<>> \/ Left(Head(q)) >= k
  BY <1>1, LoseFrontType DEF ReadOff
<1>2. CASE ~(q = <<>> \/ Left(Head(q)) >= k)
  <2>1. Head(q) \in Frames /\ Tail(q) \in Seq(Frames)
    BY <1>2
  <2>2. Left(Head(q)) \in Nat
    BY <2>1, LeftIsNat
  <2>3. k - Left(Head(q)) \in Nat
    BY <1>2, <2>2
  <2> QED
    BY <1>2, <2>1, <2>3, LoseFrontType DEF ReadOff
<1> QED BY <1>1, <1>2

LEMMA RecvType ==
  ASSUME NEW q \in Seq(Frames), NEW r \in HAL_Recv(q)
  PROVE  /\ r.frame \in Frames \cup {NoFrame}
         /\ r.rest \in Seq(Frames)
<1> DEFINE s == Resync(q)
           noneRests == [frame : {NoFrame}, rest : {q, ReadOff(q, Overhead)}]
<1>0. Overhead \in Nat
  BY DEF Overhead
<1>1. s \in Seq(Frames)
  BY DEF Resync
<1>2. ReadOff(q, Overhead) \in Seq(Frames) /\ ReadOff(s, Overhead) \in Seq(Frames)
  BY <1>0, <1>1, ReadOffType
<1>3. CASE r \in noneRests
  BY <1>2, <1>3
<1>4. CASE q # <<>> /\ r.frame = NoFrame /\ r.rest = <<>>
  BY <1>4
<1>5. CASE r.frame = NoFrame /\ r.rest \in {<<>>, ReadOff(s, Overhead)}
  <2>1. <<>> \in Seq(Frames)
    OBVIOUS
  <2> HIDE DEF s
  <2> QED BY <1>2, <1>5, <2>1
<1>6. CASE s # <<>> /\ r.frame = Head(s) /\ r.rest = ReadOff(s, Left(Head(s)) + 2)
  <2>1. Head(s) \in Frames
    BY <1>1, <1>6
  <2>2. Left(Head(s)) + 2 \in Nat
    BY <2>1, LeftIsNat
  <2> QED
    BY <1>1, <1>6, <2>1, <2>2, ReadOffType
<1>7. r \in noneRests \/ (q # <<>> /\ r.frame = NoFrame /\ r.rest = <<>>)
      \/ (r.frame = NoFrame /\ r.rest \in {<<>>, ReadOff(s, Overhead)})
      \/ (s # <<>> /\ r.frame = Head(s) /\ r.rest = ReadOff(s, Left(Head(s)) + 2))
  <2>1. CASE q = <<>>
    BY <2>1 DEF HAL_Recv
  <2>2. CASE q # <<>> /\ ~Synced(s)
    BY <2>2 DEF HAL_Recv
  <2>3. CASE q # <<>> /\ Synced(s) /\ Len(s) = 1
    BY <2>3 DEF HAL_Recv
  <2>4. CASE q # <<>> /\ Synced(s) /\ Len(s) # 1
    <3>1. s # <<>>
      BY <2>4 DEF Synced
    <3>2. r \in noneRests \cup
                {[frame |-> NoFrame, rest |-> ReadOff(s, Overhead)],
                 [frame |-> Head(s), rest |-> ReadOff(s, Left(Head(s)) + 2)]}
      BY <2>4 DEF HAL_Recv
    <3> QED BY <3>1, <3>2
  <2> QED BY <2>1, <2>2, <2>3, <2>4
<1> QED BY <1>3, <1>4, <1>5, <1>6, <1>7
-----------------------------------------------------------------------------
(* Type correctness *)

(* Whatever the unit sends is a sequence of whole frames. *)
LEMMA TransmitType ==
  ASSUME owed \in Seq(SentFrames), NEW frames \in Seq(SentFrames),
         Transmit(frames)
  PROVE  owed' \in Seq(SentFrames)
BY DEF Transmit

LEMMA AnswersType ==
  ASSUME NEW op \in Ops, TypeOK
  PROVE  Answers(op) \subseteq Seq(SentFrames)
<1>1. CASE op = "REQUEST_FAULT_LOG"
  BY <1>1, LogIsSent DEF Answers, ColdOps
<1>2. CASE op \in ColdOps
  <2>1. Answers(op) = {<<>>}
    BY <1>2 DEF Answers, ColdOps
  <2>2. <<>> \in Seq(SentFrames)
    OBVIOUS
  <2> QED BY <2>1, <2>2
<1>3. CASE op = "MAIN_ABORT" /\ burning \in MainOps
  <2>1. Reply(burning, "RESULT") \in SentFrames /\ Reply(op, "ACK") \in SentFrames
    BY <1>3, ReplyIsSent DEF Ops, Firings, SentKinds
  <2> QED
    BY <1>3, <2>1 DEF Answers, ColdOps
<1>4. CASE op \notin ColdOps /\ op # "REQUEST_FAULT_LOG"
           /\ ~(op = "MAIN_ABORT" /\ burning \in MainOps)
  <2>1. PICK kind \in SentKinds : Answers(op) = {<<Reply(op, kind)>>}
    BY <1>4 DEF Answers, SentKinds
  <2>2. Reply(op, kind) \in SentFrames
    BY ReplyIsSent
  <2> QED BY <2>1, <2>2
<1> QED BY <1>1, <1>2, <1>3, <1>4

LEMMA InitType == Init => TypeOK
BY WireAssumption
   DEF Init, TypeOK, EmptyLog, NoFrame, FrameOf, Logs, Codes, SentFrames

(* The telecommand reaches the unit, or not. *)
LEMMA UnitType ==
  ASSUME TypeOK, NEW op \in Ops,
         UNCHANGED <<owed, burning>> \/ Refused(op) \/ Granted(op)
  PROVE  /\ owed' \in Seq(SentFrames)
         /\ burning' \in MainOps \cup ColdOps \cup {Nobody}
<1>1. CASE UNCHANGED <<owed, burning>>
  BY <1>1 DEF TypeOK
<1>2. CASE Refused(op)
  <2>1. Reply(op, "NACK") \in SentFrames
    BY ReplyIsSent DEF SentKinds
  <2>2. <<Reply(op, "NACK")>> \in Seq(SentFrames)
    BY <2>1
  <2> QED
    BY <1>2, <2>2, TransmitType DEF TypeOK, Refused
<1>3. CASE Granted(op)
  <2>1. PICK frames \in Answers(op) : Transmit(frames)
    BY <1>3 DEF Granted
  <2>2. frames \in Seq(SentFrames)
    BY <2>1, AnswersType
  <2> QED
    BY <1>3, <2>1, <2>2, TransmitType DEF TypeOK, Granted, Firings
<1> QED BY <1>1, <1>2, <1>3

LEMMA CommandType ==
  ASSUME TypeOK, NEW op \in Calls, Command(op)
  PROVE  TypeOK'
<1>1. op \in Ops
  BY WireAssumption
<1>2. owed' \in Seq(SentFrames) /\ burning' \in MainOps \cup ColdOps \cup {Nobody}
  BY <1>1, UnitType DEF Command, SendTC
<1>3. op # Nobody
  BY <1>1 DEF Nobody, Ops, PlainOps, MainOps, ColdOps, SendOnly, ReportOps, Firings
<1>4. UNCHANGED <<rx, answer, log>> /\ call' = op
  BY DEF Command
<1>5. \/ stage' = "RETURNED" /\ ret' \in {"ERR_SEND", "OK"}
      \/ stage' = "ANSWER" /\ ret' = "NONE"
  BY DEF Command, SendTC
<1> QED
  BY <1>1, <1>2, <1>3, <1>4, <1>5 DEF TypeOK, Codes

(* A parsed fault log fits the caller's array. *)
LEMMA ParsedType ==
  ASSUME NEW f \in Frames, log \in Logs
  PROVE  Parsed(f) \in Logs
<1>1. FirstByte(f) \in Nat
  BY DEF FirstByte, Frames
<1>2. Clamp(FirstByte(f)) \in 0 .. LOG_MAX
  BY <1>1, WireAssumption DEF Clamp, Smaller
<1>3. f.mark \in Marks \cup {0}
  BY DEF Frames
<1> QED
  BY <1>2, <1>3 DEF Parsed, Logs

LEMMA ReceiveType ==
  ASSUME TypeOK, RecvTMRaw
  PROVE  TypeOK'
<1> USE DEF TypeOK
<1>1. CASE RecvTimeout
  BY <1>1, RecvType DEF RecvTimeout, Finish, Waiting, Codes
<1>2. CASE RecvParseError
  BY <1>2, RecvType DEF RecvParseError, Finish, Waiting, Codes
<1>3. CASE RecvReply
  <2>1. PICK r \in HAL_Recv(rx) :
          /\ r.frame # NoFrame /\ Fits(r.frame)
          /\ rx' = r.rest
          /\ answer' = r.frame
          /\ log' = IF call = "REQUEST_FAULT_LOG" THEN Parsed(r.frame) ELSE log
    BY <1>3 DEF RecvReply
  <2>2. r.frame \in Frames /\ r.rest \in Seq(Frames)
    BY <2>1, RecvType
  <2>3. log' \in Logs
    BY <2>1, <2>2, ParsedType
  <2>4. UNCHANGED <<owed, burning, call>> /\ Waiting
    BY <1>3 DEF RecvReply
  <2>5. \/ call = "MAIN_FIRE" /\ stage' = "RESULT" /\ UNCHANGED ret
        \/ stage' = "RETURNED" /\ ret' = "OK"
    BY <1>3 DEF RecvReply, Finish
  <2> QED
    BY <2>1, <2>2, <2>3, <2>4, <2>5 DEF Waiting, Codes
<1> QED BY <1>1, <1>2, <1>3 DEF RecvTMRaw

LEMMA OutsideType ==
  ASSUME TypeOK, Outside
  PROVE  TypeOK'
<1> USE DEF TypeOK
<1>1. CASE BurnEnds
  <2>1. Reply(burning, "RESULT") \in SentFrames
    BY <1>1, ReplyIsSent DEF BurnEnds, Ops, Firings, SentKinds
  <2>2. <<Reply(burning, "RESULT")>> \in Seq(SentFrames)
    BY <2>1
  <2>3. owed' \in Seq(SentFrames)
    BY <1>1, <2>2, TransmitType DEF BurnEnds
  <2> QED
    BY <1>1, <2>3 DEF BurnEnds, caller
<1>2. CASE UnitEvent
  <2>1. <<Event>> \in Seq(SentFrames)
    BY EventIsSent
  <2>2. owed' \in Seq(SentFrames)
    BY <1>2, <2>1, TransmitType DEF UnitEvent
  <2> QED
    BY <1>2, <2>2 DEF UnitEvent, caller
<1>3. CASE Arrive
  <2> DEFINE f == Head(owed)
  <2>1. f \in SentFrames /\ owed' \in Seq(SentFrames)
    BY <1>3 DEF Arrive
  <2>2. f \in Frames /\ Left(f) \in Nat /\ Left(f) - 2 \in Nat
    BY <2>1, SentIsLong
  <2>3. Rest(Left(f) - 2) \in Frames /\ Bad(Left(f)) \in Frames
    BY <2>2, RestIsFrame
  <2>4. rx' = rx \/ \E g \in Frames : rx' = Append(rx, g)
    BY <1>3, <2>2, <2>3 DEF Arrive
  <2>5. rx' \in Seq(Frames)
    BY <2>4
  <2> QED
    BY <1>3, <2>1, <2>5 DEF Arrive, caller
<1> QED BY <1>1, <1>2, <1>3 DEF Outside

LEMMA StepType ==
  ASSUME TypeOK, [Next]_vars
  PROVE  TypeOK'
<1>1. CASE \E op \in Calls : Command(op)
  BY <1>1, CommandType
<1>2. CASE RecvTMRaw
  BY <1>2, ReceiveType
<1>3. CASE Return
  BY <1>3 DEF TypeOK, Return, line, Codes
<1>4. CASE Restart
  <2>1. log' \in Logs
    BY <1>4, WireAssumption DEF Restart, EmptyLog, Logs
  <2>2. <<>> \in Seq(Frames)
    OBVIOUS
  <2>3. rx' \in Seq(Frames) /\ UNCHANGED <<owed, burning>>
    BY <1>4, <2>2 DEF TypeOK, Restart
  <2>4. call' = Nobody /\ stage' = "IDLE" /\ ret' = "NONE" /\ answer' = NoFrame
    BY <1>4 DEF Restart
  <2> QED BY <2>1, <2>3, <2>4 DEF TypeOK, Codes
<1>5. CASE Outside
  BY <1>5, OutsideType
<1>6. CASE UNCHANGED vars
  BY <1>6 DEF TypeOK, vars, line, caller
<1> QED BY <1>1, <1>2, <1>3, <1>4, <1>5, <1>6 DEF Next

(* The calls are always in a state their return code tells, the buffers    *)
(* hold frames and the fault log stays within its array.                   *)
THEOREM WireTypes == Spec => []TypeOK
<1>1. TypeOK /\ [Next]_vars => TypeOK'
  BY StepType
<1> QED BY InitType, <1>1, PTL DEF Spec

-----------------------------------------------------------------------------
(* Refusals *)

(* A payload that satisfies the length test of a data call is longer than  *)
(* a default response.                                                     *)
LEMMA DefaultIsShort ==
  ASSUME TypeOK, NEW f \in Frames, call \in DataCalls, Fits(f),
         stage = "RESULT" \/ (stage = "ANSWER" /\ call # "MAIN_FIRE")
  PROVE  f.kind \notin {"ACK", "NACK"}
<1>1. SUFFICES ASSUME f.kind \in {"ACK", "NACK"} PROVE FALSE
  OBVIOUS
<1>2. PayloadLen(f) = 4
  BY <1>1 DEF PayloadLen
<1>3. CASE stage = "RESULT"
  BY <1>2, <1>3 DEF Fits, Enough, NeedResult
<1>4. CASE stage = "ANSWER" /\ call # "MAIN_FIRE"
  BY <1>2, <1>4 DEF Fits, Enough, Need, DataCalls, ReportOps, ColdOps
<1> QED BY <1>3, <1>4

LEMMA StepRefusal ==
  ASSUME TypeOK, RefusalIsNotData, [Next]_vars
  PROVE  RefusalIsNotData'
<1> USE DEF RefusalIsNotData
<1>1. CASE \E op \in Calls : Command(op)
  BY <1>1 DEF Command, SendTC, SendOnly, DataCalls, ReportOps, ColdOps
<1>2. CASE RecvTMRaw
  <2>1. CASE RecvTimeout \/ RecvParseError
    BY <2>1 DEF RecvTimeout, RecvParseError, Finish
  <2>2. CASE RecvReply
    <3>1. SUFFICES ASSUME ret' = "OK", call \in DataCalls
                   PROVE  answer'.kind \notin {"ACK", "NACK"}
      BY <2>2 DEF RecvReply
    <3>2. PICK r \in HAL_Recv(rx) :
            r.frame # NoFrame /\ Fits(r.frame) /\ answer' = r.frame
      BY <2>2 DEF RecvReply
    <3>3. r.frame \in Frames
      BY <3>2, RecvType DEF TypeOK
    <3>4. stage = "RESULT" \/ (stage = "ANSWER" /\ call # "MAIN_FIRE")
      <4>1. Waiting /\ ret = "NONE"
        BY <2>2 DEF RecvReply, Waiting, TypeOK
      <4>2. ret' = ret \/ stage = "RESULT" \/ call # "MAIN_FIRE"
        BY <2>2 DEF RecvReply
      <4>3. ret' # ret
        BY <3>1, <4>1
      <4> QED BY <4>1, <4>2, <4>3 DEF Waiting
    <3> QED
      BY <3>1, <3>2, <3>3, <3>4, DefaultIsShort
  <2> QED BY <1>2, <2>1, <2>2 DEF RecvTMRaw
<1>3. CASE Return \/ Restart
  BY <1>3 DEF Return, Restart
<1>4. CASE Outside
  BY <1>4 DEF Outside, BurnEnds, UnitEvent, Arrive, caller
<1>5. CASE UNCHANGED vars
  BY <1>5 DEF vars, caller
<1> QED BY <1>1, <1>2, <1>3, <1>4, <1>5 DEF Next

(* No acknowledgement or refusal, late or of another call, is taken for    *)
(* housekeeping, a status or a firing result.                              *)
THEOREM NoRefusalAsData == Spec => []RefusalIsNotData
<1>1. Init => RefusalIsNotData
  BY DEF Init, RefusalIsNotData
<1>2. TypeOK /\ RefusalIsNotData /\ [Next]_vars => RefusalIsNotData'
  BY StepRefusal
<1> QED BY WireTypes, <1>1, <1>2, PTL DEF Spec

-----------------------------------------------------------------------------
(* The promise *)

(* The promise speaks of the same calls. *)
LEMMA SameCalls ==
  /\ Exchange!Nobody = Nobody
  /\ Exchange!Ops = Ops
  /\ Exchange!Firings = Firings
  /\ Exchange!SendOnly = SendOnly
  /\ \A op : Exchange!Stopped(op) = Stopped(op)
<1>1. /\ Exchange!PlainOps = PlainOps /\ Exchange!MainOps = MainOps
      /\ Exchange!ColdOps = ColdOps /\ Exchange!ReportOps = ReportOps
  BY DEF Exchange!PlainOps, PlainOps, Exchange!MainOps, MainOps, Exchange!ColdOps,
         ColdOps, Exchange!ReportOps, ReportOps
<1>2. Exchange!Nobody = Nobody /\ Exchange!SendOnly = SendOnly
  BY DEF Exchange!Nobody, Nobody, Exchange!SendOnly, SendOnly
<1>3. Exchange!Firings = Firings
  BY <1>1 DEF Exchange!Firings, Firings
<1>4. Exchange!Ops = Ops
  BY <1>1, <1>2, <1>3 DEF Exchange!Ops, Ops
<1>5. \A op : Exchange!Stopped(op) = Stopped(op)
  BY <1>1, <1>3 DEF Exchange!Stopped, Stopped
<1> QED BY <1>2, <1>3, <1>4, <1>5

LEMMA CommandIsSend ==
  ASSUME TypeOK, NEW op \in Calls, Command(op)
  PROVE  Exchange!Send(op)
<1>1. op \in Ops
  BY WireAssumption
<1>2. call = Nobody /\ call' = op
  BY DEF Command
<1>3. ret' \in {"ERR_SEND", IF op \in SendOnly THEN "OK" ELSE "NONE"}
  BY DEF Command, SendTC
<1>4. \/ UNCHANGED burning
      \/ op \in Firings /\ burning = Nobody /\ burning' = op
      \/ burning \in Stopped(op) /\ burning' = Nobody
  BY DEF Command, SendTC, Refused, Granted
<1> QED BY <1>2, <1>3, <1>4, SameCalls DEF Exchange!Send

LEMMA ReceiveIsAnswer ==
  ASSUME TypeOK, RecvTMRaw
  PROVE  Exchange!Answer \/ UNCHANGED Exchange!vars
<1>1. call # Nobody /\ ret = "NONE"
  BY DEF TypeOK, RecvTMRaw, RecvTimeout, RecvParseError, RecvReply, Waiting
<1>2. UNCHANGED <<call, burning>>
  BY DEF RecvTMRaw, RecvTimeout, RecvParseError, RecvReply
<1>3. UNCHANGED ret \/ ret' \in {"OK", "ERR_TIMEOUT", "ERR_PARSE"}
  BY DEF RecvTMRaw, RecvTimeout, RecvParseError, RecvReply, Finish
<1> QED BY <1>1, <1>2, <1>3, SameCalls DEF Exchange!Answer, Exchange!vars

LEMMA StepImplements ==
  ASSUME TypeOK, [Next]_vars
  PROVE  [Exchange!Next]_Exchange!vars
<1>1. CASE \E op \in Calls : Command(op)
  BY <1>1, CommandIsSend, WireAssumption, SameCalls DEF Exchange!Next
<1>2. CASE RecvTMRaw
  BY <1>2, ReceiveIsAnswer DEF Exchange!Next
<1>3. CASE Return
  BY <1>3, SameCalls DEF Return, TypeOK, Exchange!Next, Exchange!Return
<1>4. CASE Restart
  BY <1>4, SameCalls DEF Restart, Exchange!Next, Exchange!Restart
<1>5. CASE BurnEnds
  BY <1>5, SameCalls DEF BurnEnds, caller, Exchange!Next, Exchange!BurnEnds
<1>6. CASE UnitEvent \/ Arrive
  BY <1>6 DEF UnitEvent, Arrive, caller, Exchange!vars
<1>7. CASE UNCHANGED vars
  BY <1>7 DEF vars, caller, Exchange!vars
<1> QED BY <1>1, <1>2, <1>3, <1>4, <1>5, <1>6, <1>7 DEF Next, Outside

(* The exchanges implement their promise: one telecommand for a call, a    *)
(* code at its end, and no firing but the one a telecommand began.         *)
THEOREM WireImplementsExchange == Spec => ImplementsExchange
<1>1. Init => Exchange!Init
  BY SameCalls DEF Init, Exchange!Init
<1>2. TypeOK /\ [Next]_vars => [Exchange!Next]_Exchange!vars
  BY StepImplements
<1> QED BY WireTypes, <1>1, <1>2, PTL DEF Spec, ImplementsExchange, Exchange!Spec
=============================================================================
