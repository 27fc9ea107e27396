------------------------------ MODULE IG4U_Wire ------------------------------
(***************************************************************************)
(* The exchanges of ig4u_commands.c: a telecommand is sent, one or two     *)
(* replies are awaited and taken apart, the caller gets a return code.     *)
(*                                                                         *)
(* A call sends in one step (Command) and takes one step per HAL_Recv,     *)
(* during which the unit and the line go on.  HAL_Recv is seen from here   *)
(* at the level of frames; IG4U_Hal has it byte by byte.  What matters is  *)
(* how many bytes of which frame a read takes: the receiver waits for two  *)
(* bytes more than a frame has, so it takes them from the frame behind,    *)
(* which then begins without its sync word.  No payload is taken to hold a *)
(* sync word by chance, no damage to hit a length field, and a frame to    *)
(* arrive in one piece (IG4U_Hal has the other cases).                     *)
(*                                                                         *)
(* The unit and the line are external.  The unit answers as the message    *)
(* definitions say (ig4u_msgdefs.h), sooner or later, or refuses.          *)
(***************************************************************************)
EXTENDS IG4U_Calls, Naturals, Sequences

CONSTANTS
  LOG_MAX,       \* IG4U_FAULT_LOG_MAX_ENTRIES, 32 in the code
  LOG_FIT,       \* the entries a payload of the largest size holds, 31
  LogCounts,     \* the numbers of faults the unit may announce
  Marks,         \* tell the entries of one fault log from those of another
  UNREAD_LIMIT,  \* bound on the frames sent and not read; others are lost
  Calls          \* bound on the calls: the application makes all of them

ASSUME WireAssumption ==
  /\ LOG_MAX \in Nat /\ LOG_FIT \in Nat /\ LOG_FIT <= LOG_MAX
  /\ LogCounts \subseteq Nat
  /\ Marks \subseteq Nat \ {0}
  /\ UNREAD_LIMIT \in Nat
  /\ Calls \subseteq Ops

WireId(op) ==
  CASE op = "PING" -> 1             [] op = "RESET_MODULE" -> 2
    [] op = "SET_MODE" -> 3         [] op = "ARM" -> 4
    [] op = "DISARM" -> 5           [] op = "REQUEST_HK" -> 10
    [] op = "REQUEST_STATUS" -> 11  [] op \in MainOps -> 20
    [] op = "MAIN_ABORT" -> 21      [] op = "CG_PULSE" -> 30
    [] op = "CG_BURST" -> 31        [] op = "CG_ABORT" -> 32
    [] op = "REQUEST_FAULT_LOG" -> 40
    [] OTHER -> 41

(* The id a call waits for: its own, but CG_RESULT is the pulse's. *)
ExpectedId(op) == IF op = "CG_BURST" THEN WireId("CG_PULSE") ELSE WireId(op)

(* The payload a call needs to parse its first reply.  A default response  *)
(* is not parsed: every caller passes NULL for it.                         *)
Need(op) ==
  CASE op = "REQUEST_HK" -> 16
    [] op = "REQUEST_STATUS" -> 5
    [] op = "REQUEST_FAULT_LOG" -> 1
    [] op \in ColdOps -> 8
    [] OTHER -> 0

(* Seeded fault: the result is parsed whatever its length. *)
NeedAnyResult == 0

NeedResult == 6       \* the second reply of MAIN_FIRE

-----------------------------------------------------------------------------
(* Frames *)

SentKinds == {"ACK", "NACK", "HK", "STATUS", "RESULT", "LOG", "EVENT"}

(* On the line they become others: "BAD" is a frame that DecodeTM rejects, *)
(* "REST" what is left of one that lost its beginning.  n is the           *)
(* EntryCount of a fault log, the bytes of a bad frame or of a rest.       *)
FrameOf(id, kind, n, mark) == [id |-> id, kind |-> kind, n |-> n, mark |-> mark]

NoFrame == FrameOf(0, "NONE", 0, 0)
Reply(op, kind) == FrameOf(WireId(op), kind, 0, 0)
Event == FrameOf(0, "EVENT", 0, 0)
Bad(n) == FrameOf(0, "BAD", n, 0)
Rest(n) == FrameOf(0, "REST", n, 0)

Smaller(a, b) == IF a <= b THEN a ELSE b

Overhead == 9

PayloadLen(f) ==
  CASE f.kind \in {"ACK", "NACK"} -> 4
    [] f.kind = "HK" -> 16
    [] f.kind \in {"STATUS", "RESULT"} -> 8
    [] f.kind = "LOG" -> 4 + 8 * Smaller(f.n, LOG_FIT)
    [] OTHER -> 0

Left(f) == IF f.kind \in {"BAD", "REST"} THEN f.n ELSE Overhead + PayloadLen(f)

VARIABLES
  owed,      \* sent by the unit, not arrived
  rx,        \* arrived, not read
  burning,   \* the firing under way in the unit, or Nobody
  call,      \* the call under way, or Nobody
  stage,     \* "IDLE", "ANSWER", "RESULT" (of MAIN_FIRE) or "RETURNED"
  ret,       \* what it returns, "NONE" before that
  answer,    \* history: the last frame RecvTMRaw took apart for this call
  log        \* the caller's fault log

line   == <<owed, rx>>
caller == <<call, stage, ret, answer>>
vars   == <<line, burning, caller, log>>

EmptyLog == [EntryCount |-> 0, Entries |-> [i \in 1 .. LOG_MAX |-> 0]]

Init ==
  /\ owed = <<>> /\ rx = <<>>
  /\ burning = Nobody
  /\ call = Nobody /\ stage = "IDLE" /\ ret = "NONE" /\ answer = NoFrame
  /\ log = EmptyLog

-----------------------------------------------------------------------------
(* The unit and the line *)

Transmit(frames) ==
  owed' = IF Len(owed) + Len(rx) + Len(frames) <= UNREAD_LIMIT
            THEN owed \o frames ELSE owed

(* The telecommand of a call reaches the unit, which refuses it ... *)
Refused(op) == Transmit(<<Reply(op, "NACK")>>) /\ UNCHANGED burning

(* ... or carries it out and says so.  A cold-gas firing is answered when  *)
(* it ends, an interrupted main one is reported before its abort.          *)
Answers(op) ==
  CASE op = "REQUEST_HK" -> {<<Reply(op, "HK")>>}
    [] op = "REQUEST_STATUS" -> {<<Reply(op, "STATUS")>>}
    [] op = "REQUEST_FAULT_LOG" ->
         {<<FrameOf(WireId(op), "LOG", n, mark)>> : n \in LogCounts, mark \in Marks}
    [] op \in ColdOps -> {<<>>}
    [] op = "CG_ABORT" -> {<<Reply(op, "RESULT")>>}
    [] op = "MAIN_ABORT" /\ burning \in MainOps ->
         {<<Reply(burning, "RESULT"), Reply(op, "ACK")>>}
    [] OTHER -> {<<Reply(op, "ACK")>>}

Granted(op) ==
  /\ op \in Firings => burning = Nobody
  /\ \E frames \in Answers(op) : Transmit(frames)
  /\ burning' = IF op \in Firings THEN op
                ELSE IF burning \in Stopped(op) THEN Nobody ELSE burning

(* A firing ends and its result follows, with the id of its telecommand.   *)
BurnEnds ==
  /\ burning # Nobody
  /\ Transmit(<<Reply(burning, "RESULT")>>)
  /\ burning' = Nobody
  /\ UNCHANGED <<rx, caller, log>>

(* An event message of the unit, without payload. *)
UnitEvent ==
  /\ Len(owed) + Len(rx) < UNREAD_LIMIT
  /\ Transmit(<<Event>>)
  /\ UNCHANGED <<rx, burning, caller, log>>

(* The next frame comes through, is lost, loses its sync word or is        *)
(* damaged elsewhere.                                                      *)
Arrive ==
  /\ owed # <<>>
  /\ owed' = Tail(owed)
  /\ \/ rx' = Append(rx, Head(owed))
     \/ UNCHANGED rx
     \/ rx' = Append(rx, Rest(Left(Head(owed)) - 2))
     \/ rx' = Append(rx, Bad(Left(Head(owed))))
  /\ UNCHANGED <<burning, caller, log>>

-----------------------------------------------------------------------------
(* HAL_Recv *)

(* The first k bytes of the frames q are read, at most two frames of them. *)
LoseFront(q, k) ==
  IF q = <<>> THEN q
  ELSE IF Left(Head(q)) > k
    THEN <<Rest(Left(Head(q)) - k)>> \o Tail(q)
    ELSE Tail(q)

ReadOff(q, k) ==
  IF q = <<>> \/ Left(Head(q)) >= k
    THEN LoseFront(q, k)
    ELSE LoseFront(Tail(q), k - Left(Head(q)))

(* Where the first nine bytes hold a sync word: at their beginning, or     *)
(* behind a headless rest of at most seven.                                *)
Resync(q) ==
  IF q # <<>> /\ Head(q).kind = "REST" /\ Left(Head(q)) <= 7 THEN Tail(q) ELSE q

Synced(q) == q # <<>> /\ Head(q).kind # "REST"

(* What a call of HAL_Recv may return and leave: nothing, if a read runs   *)
(* out of time or fails; nothing and an empty buffer, if it finds no sync  *)
(* word or only one frame; or the first frame, if another one follows.     *)
HAL_Recv(q) ==
  LET s == Resync(q) IN
  [frame : {NoFrame}, rest : {q, ReadOff(q, Overhead)}] \cup
  CASE q = <<>> -> {}
    [] q # <<>> /\ ~Synced(s) -> {[frame |-> NoFrame, rest |-> <<>>]}
    [] q # <<>> /\ Synced(s) /\ Len(s) = 1 ->
         [frame : {NoFrame}, rest : {<<>>, ReadOff(s, Overhead)}]
    [] OTHER ->
         {[frame |-> NoFrame, rest |-> ReadOff(s, Overhead)],
          [frame |-> Head(s), rest |-> ReadOff(s, Left(Head(s)) + 2)]}

-----------------------------------------------------------------------------
(* The calls *)

(* SendTC.  A write that fails may have reached the unit all the same, and *)
(* one that succeeds may be lost on the line.                              *)
SendTC(op) ==
  /\ \/ UNCHANGED <<owed, burning>>
     \/ Refused(op)
     \/ Granted(op)
  /\ \/ stage' = "RETURNED" /\ ret' = "ERR_SEND"
     \/ op \in SendOnly /\ stage' = "RETURNED" /\ ret' = "OK"
     \/ op \notin SendOnly /\ stage' = "ANSWER" /\ ret' = "NONE"

Command(op) ==
  /\ call = Nobody
  /\ call' = op
  /\ SendTC(op)
  /\ UNCHANGED <<rx, answer, log>>

Waiting == stage \in {"ANSWER", "RESULT"}
Finish(code) == stage' = "RETURNED" /\ ret' = code

(* Seeded fault: the telecommand is sent again after a time-out. *)
RecvTimeoutRetries ==
  /\ Waiting
  /\ \E r \in HAL_Recv(rx) : r.frame = NoFrame /\ rx' = r.rest
  /\ UNCHANGED <<call, answer, log>>
  /\ \/ Finish("ERR_TIMEOUT") /\ UNCHANGED <<owed, burning>>
     \/ (Refused(call) \/ Granted(call)) /\ UNCHANGED <<stage, ret>>

(* RecvTMRaw hears nothing it can use ... *)
RecvTimeout ==
  /\ Waiting
  /\ \E r \in HAL_Recv(rx) : r.frame = NoFrame /\ rx' = r.rest
  /\ Finish("ERR_TIMEOUT")
  /\ UNCHANGED <<owed, burning, call, answer, log>>

(* ... or a frame that DecodeTM or its id turns away, or that is too short *)
(* for what the call wants of it ...                                       *)
Enough(f) ==
  \/ stage = "ANSWER" /\ PayloadLen(f) >= Need(call)
  \/ stage = "RESULT" /\ PayloadLen(f) >= NeedResult

Fits(f) == f.kind # "BAD" /\ f.id = ExpectedId(call) /\ Enough(f)

RecvParseError ==
  /\ Waiting
  /\ \E r \in HAL_Recv(rx) :
       /\ r.frame # NoFrame /\ ~Fits(r.frame)
       /\ rx' = r.rest
       /\ answer' = r.frame
  /\ Finish("ERR_PARSE")
  /\ UNCHANGED <<owed, burning, call, log>>

(* The byte a frame has where a fault log has its EntryCount; a default    *)
(* response has its Result there.                                          *)
FirstByte(f) ==
  CASE f.kind = "LOG" -> f.n
    [] f.kind = "NACK" -> 1
    [] OTHER -> 0

(* Seeded fault: the announced count is believed. *)
ClampNot(n) == n

Clamp(n) == Smaller(n, LOG_MAX)

(* RequestFaultLog's parser: entry after entry while they are announced    *)
(* and there; the others keep what they held.                              *)
Parsed(f) ==
  LET count == Clamp(FirstByte(f))
      there == (PayloadLen(f) - 4) \div 8
  IN  [EntryCount |-> count,
       Entries |-> [i \in 1 .. LOG_MAX |->
                      IF i <= count /\ i <= there THEN f.mark
                                                  ELSE log.Entries[i]]]

(* ... or the reply.  MAIN_FIRE goes on to wait for the result.            *)
RecvReply ==
  /\ Waiting
  /\ \E r \in HAL_Recv(rx) :
       /\ r.frame # NoFrame /\ Fits(r.frame)
       /\ rx' = r.rest
       /\ answer' = r.frame
       /\ log' = IF call = "REQUEST_FAULT_LOG" THEN Parsed(r.frame) ELSE log
  /\ \/ stage = "ANSWER" /\ call = "MAIN_FIRE" /\ stage' = "RESULT" /\ UNCHANGED ret
     \/ (stage = "RESULT" \/ call # "MAIN_FIRE") /\ Finish("OK")
  /\ UNCHANGED <<owed, burning, call>>

RecvTMRaw == RecvTimeout \/ RecvParseError \/ RecvReply

(* The caller goes on. *)
Return ==
  /\ stage = "RETURNED"
  /\ call' = Nobody /\ stage' = "IDLE" /\ ret' = "NONE" /\ answer' = NoFrame
  /\ UNCHANGED <<line, burning, log>>

(* The application restarts: its data is cleared, the driver's buffer may  *)
(* be.  The unit goes on.                                                  *)
Restart ==
  /\ call' = Nobody /\ stage' = "IDLE" /\ ret' = "NONE" /\ answer' = NoFrame
  /\ log' = EmptyLog
  /\ rx' \in {rx, <<>>}
  /\ UNCHANGED <<owed, burning>>

Outside == BurnEnds \/ UnitEvent \/ Arrive

Next ==
  \/ \E op \in Calls : Command(op)
  \/ RecvTMRaw
  \/ Return
  \/ Restart
  \/ Outside

Spec == Init /\ [][Next]_vars

-----------------------------------------------------------------------------
(* Properties *)

Frames ==
  [id : 0 .. 41, kind : SentKinds \cup {"BAD", "REST"}, n : Nat,
   mark : Marks \cup {0}]

SentFrames == {f \in Frames : f.kind \in SentKinds}

Logs == [EntryCount : 0 .. LOG_MAX, Entries : [1 .. LOG_MAX -> Marks \cup {0}]]

(* A call is where its return code says it is, and the caller's fault log  *)
(* counts no entry its array does not have.                                *)
TypeOK ==
  /\ owed \in Seq(SentFrames) /\ rx \in Seq(Frames)
  /\ burning \in MainOps \cup ColdOps \cup {Nobody}
  /\ call \in Ops \cup {Nobody}
  /\ stage \in {"IDLE", "ANSWER", "RESULT", "RETURNED"}
  /\ ret \in Codes
  /\ answer \in Frames \cup {NoFrame}
  /\ log \in Logs
  /\ (call = Nobody) = (stage = "IDLE")
  /\ (ret # "NONE") = (stage = "RETURNED")
  /\ stage = "RESULT" => call = "MAIN_FIRE"

(* No acknowledgement or refusal passes for data.  MAIN_FIRE's default     *)
(* response and its result share id 20, a refused CG_PULSE comes back      *)
(* under the id of its result and a refused report under the report's; and *)
(* any of them may be an earlier call's, left in the buffer.  Only the     *)
(* length tests tell them apart (ig4u_commands.c 221, 261, 309, 370, 418). *)
(* A fault log needs a single byte (468), and a refusal passes for one.    *)
DataCalls == (ReportOps \ {"REQUEST_FAULT_LOG"}) \cup ColdOps \cup {"MAIN_FIRE"}

RefusalIsNotData ==
  (ret = "OK" /\ call \in DataCalls) => answer.kind \notin {"ACK", "NACK"}

(* The exchanges keep the promise of IG4U_Exchange: one telecommand for a  *)
(* call, however its replies are lost, late or damaged, and a code at the  *)
(* end (SendTC and RecvTMRaw, ig4u_commands.c 31-90, and their callers).   *)
Exchange == INSTANCE IG4U_Exchange
ImplementsExchange == Exchange!Spec

-----------------------------------------------------------------------------
(* Statements of the comments that the code does not keep *)

(* ig4u_commands.h 42: ARM is answered by a default response that includes *)
(* the interlock check.  So an ARM that returns OK was granted.            *)
ArmIsGranted == (ret = "OK" /\ call = "ARM") => answer.kind = "ACK"

(* ig4u_interface_cfg.h 65: a cold-gas result has the id of the            *)
(* telecommand that triggered it.  So a call does not turn away the intact *)
(* result of its own kind.                                                 *)
ColdResultIsRecognized ==
  (ret = "ERR_PARSE" /\ call \in ColdOps)
    => ~(answer.kind = "RESULT" /\ answer.id = WireId(call))

(* ig4u_msgdefs.h 193: EntryCount is the number of valid entries, so every *)
(* entry it counts came with the reply.                                    *)
CountedEntriesAreValid ==
  (ret = "OK" /\ call = "REQUEST_FAULT_LOG")
    => \A i \in 1 .. log.EntryCount : log.Entries[i] = answer.mark
=============================================================================
