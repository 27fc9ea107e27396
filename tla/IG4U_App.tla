------------------------------- MODULE IG4U_App -------------------------------
(***************************************************************************)
(* The cFS application of the iG4U thruster unit: its start-up and main    *)
(* loop (ig4u_task.c), the message dispatch (ig4u_dispatch.c) and the      *)
(* ground-command and wakeup handlers (ig4u_cmds.c).                       *)
(*                                                                         *)
(* The application is one task.  It takes a message from its pipe, runs    *)
(* the handler to its end and takes the next.  A handler that talks to the *)
(* unit blocks in a wire call (IG4U_Cmd_...), so it is modelled in two     *)
(* steps: the code up to the call, which leaves the handler in Running,    *)
(* and the code after the call, whose outcome is `ok' when the call        *)
(* returned IG4U_CMD_OK.  The handlers look at nothing else of the return  *)
(* code, so any outcome is possible here; a model of the wire layer        *)
(* narrows the choice.                                                     *)
(*                                                                         *)
(* Variables carry the names of the fields of IG4U_Data.  ArmedElapsed     *)
(* stands for CFE_TIME_GetTime() - ArmedEntryTime in whole seconds, which  *)
(* is all the code computes from the two; it saturates at the timeout,     *)
(* past which the code makes no difference.  The spacecraft clock is       *)
(* assumed not to be set back or forward while the application runs.       *)
(***************************************************************************)
EXTENDS Naturals

CONSTANTS
  ARMED_TIMEOUT_SEC,  \* the seconds ARMED may last (30 in the code)
  COUNTER_RANGE,      \* CmdCounter and ErrCounter wrap here (2^8 in the code)
  FIRE_RANGE,         \* the fire counts wrap here (2^16 in the code)
  FAULT_NONE,         \* the FaultFlags word with no flag set
  FaultWords          \* the FaultFlags words the unit may report

ASSUME ConfigAssumption ==
  /\ ARMED_TIMEOUT_SEC \in Nat \ {0}
  /\ COUNTER_RANGE \in Nat \ {0}
  /\ FIRE_RANGE \in Nat \ {0}
  /\ FAULT_NONE \in FaultWords

State == {"BOOT", "STANDBY", "ARMED", "FIRING", "SAFE", "FAULT"}

(* RequestStatus stores the reported mode byte with no range check: the    *)
(* last value stands for every byte from IG4U_STATE_COUNT up.              *)
AnyState == State \cup {"OUT_OF_RANGE"}

(* The handlers blocked in a wire call.  SET_x is SET_MODE with mode x,    *)
(* SET_OTHER with a mode byte the code does not know; TIMEOUT_STANDBY is   *)
(* the SET_MODE(STANDBY) that ends the wakeup handler on a timeout.        *)
SetModeOps == {"SET_STANDBY", "SET_ARMED", "SET_SAFE", "SET_OTHER"}
FireOps    == {"MAIN_FIRE", "CG_PULSE", "CG_BURST"}
UnguardedOps ==
  {"PING", "RESET_MODULE", "DISARM", "REQUEST_HK", "REQUEST_STATUS",
   "MAIN_ABORT", "CG_ABORT", "REQUEST_FAULT_LOG", "CLEAR_FAULT"} \cup SetModeOps
GroundOps  == UnguardedOps \cup FireOps \cup {"ARM"}
WakeupOps  == {"WAKEUP", "TIMEOUT_STANDBY"}
Idle       == "IDLE"

VARIABLES
  RunStatus,         \* "INIT" until IG4U_Init is done, then "RUN" or "ERROR"
  PowerApplied,
  LinkReady,
  CurrentState,
  FaultFlags,
  CmdCounter,
  ErrCounter,
  MainFireCount,
  CGFireCount,
  ArmedTimerActive,
  ArmedElapsed,      \* seconds since ArmedEntryTime, saturated
  ArmRemain,         \* HkTlm.Payload.ArmTimeout_Remain
  Running,           \* the handler blocked in a wire call, or Idle
  Sent               \* the telemetry the last handler step put on the bus

health   == <<RunStatus, PowerApplied>>
machine  == <<CurrentState, FaultFlags>>
counters == <<CmdCounter, ErrCounter>>
fires    == <<MainFireCount, CGFireCount>>
timer    == <<ArmedTimerActive, ArmedElapsed>>
vars     == <<health, LinkReady, machine, counters, fires, timer, ArmRemain,
              Running, Sent>>

-----------------------------------------------------------------------------
(* Telemetry messages *)

NoMsg == [mid |-> "NONE"]

(* The HK packet.  The persistent payload field ArmTimeout_Remain goes out *)
(* as it stands.                                                           *)
HkMsg(cmdCount, mode, faults) ==
  [mid |-> "HK", cmd |-> cmdCount, err |-> ErrCounter, mode |-> mode,
   faults |-> faults, main |-> MainFireCount, cg |-> CGFireCount,
   remain |-> ArmRemain]

StatusMsg(mode, faults) == [mid |-> "STATUS", mode |-> mode, faults |-> faults]
OtherMsgs == [mid : {"NONE", "FIRE_RESULT", "FAULT_LOG"}]

HkMsgs ==
  [mid : {"HK"}, cmd : 0 .. COUNTER_RANGE - 1, err : 0 .. COUNTER_RANGE - 1,
   mode : AnyState, faults : FaultWords, main : 0 .. FIRE_RANGE - 1,
   cg : 0 .. FIRE_RANGE - 1, remain : 0 .. ARMED_TIMEOUT_SEC]
StatusMsgs == [mid : {"STATUS"}, mode : AnyState, faults : FaultWords]

-----------------------------------------------------------------------------
(* Start, main loop *)

(* IG4U_Init clears IG4U_Data before anything else. *)
Init ==
  /\ RunStatus = "INIT"
  /\ CurrentState = "BOOT"
  /\ FaultFlags = FAULT_NONE
  /\ ArmedElapsed = ARMED_TIMEOUT_SEC
  /\ PowerApplied = FALSE /\ LinkReady = FALSE /\ ArmedTimerActive = FALSE
  /\ CmdCounter = 0 /\ ErrCounter = 0
  /\ MainFireCount = 0 /\ CGFireCount = 0 /\ ArmRemain = 0
  /\ Running = Idle
  /\ Sent = NoMsg

(* The registrations, the pipe, both subscriptions and the UART all        *)
(* succeed, or one of them fails and the main loop is never entered.       *)
AppInit(ok) ==
  /\ RunStatus = "INIT"
  /\ RunStatus' = IF ok THEN "RUN" ELSE "ERROR"
  /\ CurrentState' = IF ok THEN "STANDBY" ELSE "BOOT"
  /\ PowerApplied' = ok
  /\ LinkReady' = ok
  /\ UNCHANGED <<FaultFlags, counters, fires, timer, ArmRemain, Running, Sent>>

(* Seeded fault: a second task enters the handlers. *)
ReadyReentrant == RunStatus = "RUN"

(* The main loop waits for a message. *)
Ready == RunStatus = "RUN" /\ Running = Idle

(* CFE_SB_ReceiveBuffer fails: the loop ends. *)
PipeReadError ==
  /\ Ready
  /\ RunStatus' = "ERROR"
  /\ Sent' = NoMsg
  /\ UNCHANGED <<PowerApplied, LinkReady, machine, counters, fires, timer,
                 ArmRemain, Running>>

(* The processor or the application restarts, whatever it was doing. *)
Restart ==
  /\ RunStatus' = "INIT"
  /\ CurrentState' = "BOOT"
  /\ FaultFlags' = FAULT_NONE
  /\ ArmedElapsed' = ARMED_TIMEOUT_SEC
  /\ PowerApplied' = FALSE /\ LinkReady' = FALSE /\ ArmedTimerActive' = FALSE
  /\ CmdCounter' = 0 /\ ErrCounter' = 0
  /\ MainFireCount' = 0 /\ CGFireCount' = 0 /\ ArmRemain' = 0
  /\ Running' = Idle
  /\ Sent' = NoMsg

(* A second passes on the spacecraft clock. *)
Tick ==
  /\ ArmedElapsed < ARMED_TIMEOUT_SEC
  /\ ArmedElapsed' = ArmedElapsed + 1
  /\ UNCHANGED <<health, LinkReady, machine, counters, fires, ArmedTimerActive,
                 ArmRemain, Running, Sent>>

-----------------------------------------------------------------------------
(* Handlers up to the wire call *)

(* Seeded fault: a counter wider than its telemetry field. *)
BumpUnwrapped(count) == count + 1

Bump(count) == (count + 1) % COUNTER_RANGE
BumpFire(count) == (count + 1) % FIRE_RANGE

(* A handler ends as accepted or as failed, and counts it. *)
Tally(ok) ==
  /\ CmdCounter' = IF ok THEN Bump(CmdCounter) ELSE CmdCounter
  /\ ErrCounter' = IF ok THEN ErrCounter ELSE Bump(ErrCounter)

NoopCmd ==
  /\ Ready /\ Tally(TRUE) /\ Sent' = NoMsg
  /\ UNCHANGED <<health, LinkReady, machine, fires, timer, ArmRemain, Running>>

ResetCounterCmd ==
  /\ Ready
  /\ CmdCounter' = 0 /\ ErrCounter' = 0
  /\ Sent' = NoMsg
  /\ UNCHANGED <<health, LinkReady, machine, fires, timer, ArmRemain, Running>>

(* A command of the wrong length, an unknown function code, or a command   *)
(* its handler turns away in the current state.                            *)
Refuse ==
  /\ Ready /\ Tally(FALSE) /\ Sent' = NoMsg
  /\ UNCHANGED <<health, LinkReady, machine, fires, timer, ArmRemain, Running>>

VerifyCmdLengthFails == Refuse
InvalidCC == Refuse

(* A message id the application does not know, or a wakeup it skips. *)
Ignore ==
  /\ Ready
  /\ Sent' = NoMsg
  /\ UNCHANGED <<health, LinkReady, machine, counters, fires, timer, ArmRemain,
                 Running>>

InvalidMID == Ignore

(* Seeded fault: an abort is turned away outside FIRING, the state that    *)
(* the handler before it has already left.                                 *)
AbortInFiring(op) ==
  \/ /\ op \in {"MAIN_ABORT", "CG_ABORT"} /\ CurrentState # "FIRING"
     /\ Refuse
  \/ /\ op \in {"MAIN_ABORT", "CG_ABORT"} => CurrentState = "FIRING"
     /\ Ready
     /\ Running' = op
     /\ Sent' = NoMsg
     /\ UNCHANGED <<health, LinkReady, machine, counters, fires, timer, ArmRemain>>

(* The handlers that go straight to the wire. *)
UnguardedCmd(op) ==
  /\ Ready
  /\ Running' = op
  /\ Sent' = NoMsg
  /\ UNCHANGED <<health, LinkReady, machine, counters, fires, timer, ArmRemain>>

ArmPropulsionCmd ==
  \/ /\ CurrentState # "STANDBY"
     /\ Refuse
  \/ /\ CurrentState = "STANDBY"
     /\ UnguardedCmd("ARM")

(* Seeded fault: the timer flag is taken for the state. *)
IsArmedByTimer == ArmedTimerActive

IsArmed == CurrentState = "ARMED"

(* Only the main thruster's handler stops the ARMED timer. *)
FireCmd(op) ==
  \/ /\ ~IsArmed
     /\ Refuse
  \/ /\ Ready /\ IsArmed
     /\ CurrentState' = "FIRING"
     /\ ArmedTimerActive' = (ArmedTimerActive /\ op # "MAIN_FIRE")
     /\ Running' = op
     /\ Sent' = NoMsg
     /\ UNCHANGED <<health, LinkReady, FaultFlags, counters, fires,
                    ArmedElapsed, ArmRemain>>

IsCommAllowed == CurrentState \in {"STANDBY", "ARMED", "SAFE"}

WakeupPolls ==
  /\ PowerApplied /\ LinkReady
  /\ IsCommAllowed \/ CurrentState = "FIRING"

WakeupHandler ==
  \/ /\ ~WakeupPolls
     /\ Ignore
  \/ /\ WakeupPolls
     /\ UnguardedCmd("WAKEUP")

-----------------------------------------------------------------------------
(* Handlers after the wire call.  Returns(op) is the common part of the    *)
(* handlers that only count and change the machine.                        *)

Returns(op) == Running = op /\ Running' = Idle

PingReturns(ok) ==
  /\ Returns("PING") /\ Tally(ok)
  /\ LinkReady' = ok
  /\ Sent' = NoMsg
  /\ UNCHANGED <<health, machine, fires, timer, ArmRemain>>

ResetModuleReturns(ok) ==
  /\ Returns("RESET_MODULE") /\ Tally(ok)
  /\ CurrentState' = IF ok THEN "STANDBY" ELSE CurrentState
  /\ FaultFlags' = IF ok THEN FAULT_NONE ELSE FaultFlags
  /\ ArmedTimerActive' = (ArmedTimerActive /\ ~ok)
  /\ Sent' = NoMsg
  /\ UNCHANGED <<health, LinkReady, fires, ArmedElapsed, ArmRemain>>

(* Seeded fault: the entry time is not taken. *)
EnterOldTime(state) ==
  /\ CurrentState' = state
  /\ ArmedTimerActive' = (state = "ARMED")
  /\ UNCHANGED ArmedElapsed

(* The state becomes `state', the timer restarts for ARMED and else stops. *)
Enter(state) ==
  /\ CurrentState' = state
  /\ ArmedTimerActive' = (state = "ARMED")
  /\ ArmedElapsed' = IF state = "ARMED" THEN 0 ELSE ArmedElapsed

SetModeReturns(op, ok) ==
  /\ Returns(op) /\ Tally(ok)
  /\ \/ ok /\ op = "SET_STANDBY" /\ Enter("STANDBY")
     \/ ok /\ op = "SET_ARMED" /\ Enter("ARMED")
     \/ ok /\ op = "SET_SAFE" /\ Enter("SAFE")
     \/ (~ok \/ op = "SET_OTHER") /\ UNCHANGED <<CurrentState, timer>>
  /\ Sent' = NoMsg
  /\ UNCHANGED <<health, LinkReady, FaultFlags, fires, ArmRemain>>

ArmReturns(ok) ==
  /\ Returns("ARM") /\ Tally(ok)
  /\ \/ ok /\ Enter("ARMED")
     \/ ~ok /\ UNCHANGED <<CurrentState, timer>>
  /\ Sent' = NoMsg
  /\ UNCHANGED <<health, LinkReady, FaultFlags, fires, ArmRemain>>

DisarmReturns(ok) ==
  /\ Returns("DISARM") /\ Tally(ok)
  /\ \/ ok /\ Enter("STANDBY")
     \/ ~ok /\ UNCHANGED <<CurrentState, timer>>
  /\ Sent' = NoMsg
  /\ UNCHANGED <<health, LinkReady, FaultFlags, fires, ArmRemain>>

(* The HK packet a ground request triggers shows the unit's own words. *)
RequestHKReturns(ok, mode, faults) ==
  /\ Returns("REQUEST_HK") /\ Tally(ok)
  /\ Sent' = IF ok THEN HkMsg(Bump(CmdCounter), mode, faults) ELSE NoMsg
  /\ UNCHANGED <<health, LinkReady, machine, fires, timer, ArmRemain>>

(* The reported mode becomes the state; the ARMED timer is left alone. *)
RequestStatusReturns(ok, mode, faults) ==
  /\ Returns("REQUEST_STATUS") /\ Tally(ok)
  /\ CurrentState' = IF ok THEN mode ELSE CurrentState
  /\ FaultFlags' = IF ok THEN faults ELSE FaultFlags
  /\ Sent' = IF ok THEN StatusMsg(mode, faults) ELSE NoMsg
  /\ UNCHANGED <<health, LinkReady, fires, timer, ArmRemain>>

(* Seeded fault: after a failure the arming is still there for a retry. *)
FireReturnsArmed(op, ok) ==
  /\ Returns(op) /\ Tally(ok)
  /\ CurrentState' = IF ok THEN "STANDBY" ELSE "ARMED"
  /\ MainFireCount' =
       IF ok /\ op = "MAIN_FIRE" THEN BumpFire(MainFireCount) ELSE MainFireCount
  /\ CGFireCount' =
       IF ok /\ op # "MAIN_FIRE" THEN BumpFire(CGFireCount) ELSE CGFireCount
  /\ Sent' = IF ok /\ op = "MAIN_FIRE" THEN [mid |-> "FIRE_RESULT"] ELSE NoMsg
  /\ UNCHANGED <<health, LinkReady, FaultFlags, timer, ArmRemain>>

FireReturns(op, ok) ==
  /\ Returns(op) /\ Tally(ok)
  /\ CurrentState' = IF ok THEN "STANDBY" ELSE "SAFE"
  /\ MainFireCount' =
       IF ok /\ op = "MAIN_FIRE" THEN BumpFire(MainFireCount) ELSE MainFireCount
  /\ CGFireCount' =
       IF ok /\ op # "MAIN_FIRE" THEN BumpFire(CGFireCount) ELSE CGFireCount
  /\ Sent' = IF ok /\ op = "MAIN_FIRE" THEN [mid |-> "FIRE_RESULT"] ELSE NoMsg
  /\ UNCHANGED <<health, LinkReady, FaultFlags, timer, ArmRemain>>

(* An abort goes to STANDBY even if it was never sent; the cold-gas one    *)
(* also counts as accepted then.                                           *)
AbortReturns(op, ok) ==
  /\ Returns(op)
  /\ Tally(ok \/ op = "CG_ABORT")
  /\ CurrentState' = "STANDBY"
  /\ Sent' = NoMsg
  /\ UNCHANGED <<health, LinkReady, FaultFlags, fires, timer, ArmRemain>>

RequestFaultLogReturns(ok) ==
  /\ Returns("REQUEST_FAULT_LOG") /\ Tally(ok)
  /\ Sent' = IF ok THEN [mid |-> "FAULT_LOG"] ELSE NoMsg
  /\ UNCHANGED <<health, LinkReady, machine, fires, timer, ArmRemain>>

ClearFaultReturns(ok) ==
  /\ Returns("CLEAR_FAULT") /\ Tally(ok)
  /\ CurrentState' = IF ok THEN "STANDBY" ELSE CurrentState
  /\ FaultFlags' = IF ok THEN FAULT_NONE ELSE FaultFlags
  /\ Sent' = NoMsg
  /\ UNCHANGED <<health, LinkReady, fires, timer, ArmRemain>>

(* Seeded fault: the timer alone decides, whatever the state. *)
SupervisedByTimer == ArmedTimerActive

(* The poll's outcome is published or counted as an error; then the ARMED  *)
(* timer is looked at, and on a timeout the unit is told to stand by.      *)
Supervised == ArmedTimerActive /\ CurrentState = "ARMED"
Expired == ArmedElapsed >= ARMED_TIMEOUT_SEC

Supervise ==
  \/ /\ ~Supervised
     /\ Running' = Idle
     /\ UNCHANGED <<CurrentState, ArmedTimerActive, ArmRemain>>
  \/ /\ Supervised /\ Expired
     /\ CurrentState' = "STANDBY"
     /\ ArmedTimerActive' = FALSE
     /\ Running' = "TIMEOUT_STANDBY"
     /\ UNCHANGED ArmRemain
  \/ /\ Supervised /\ ~Expired
     /\ ArmRemain' = ARMED_TIMEOUT_SEC - ArmedElapsed
     /\ Running' = Idle
     /\ UNCHANGED <<CurrentState, ArmedTimerActive>>

(* Seeded fault: a failed poll returns before the timer is looked at. *)
WakeupSkipsOnError(ok) ==
  /\ Running = "WAKEUP"
  /\ Sent' = IF ok THEN HkMsg(CmdCounter, CurrentState, FaultFlags) ELSE NoMsg
  /\ ErrCounter' = IF ok THEN ErrCounter ELSE Bump(ErrCounter)
  /\ \/ ok /\ Supervise
     \/ /\ ~ok /\ Running' = Idle
        /\ UNCHANGED <<CurrentState, ArmedTimerActive, ArmRemain>>
  /\ UNCHANGED <<health, LinkReady, FaultFlags, CmdCounter, fires, ArmedElapsed>>

WakeupReturns(ok) ==
  /\ Running = "WAKEUP"
  /\ Sent' = IF ok THEN HkMsg(CmdCounter, CurrentState, FaultFlags) ELSE NoMsg
  /\ ErrCounter' = IF ok THEN ErrCounter ELSE Bump(ErrCounter)
  /\ Supervise
  /\ UNCHANGED <<health, LinkReady, FaultFlags, CmdCounter, fires, ArmedElapsed>>

(* The handler does not look at what the unit answered. *)
TimeoutStandbyReturns ==
  /\ Returns("TIMEOUT_STANDBY")
  /\ Sent' = NoMsg
  /\ UNCHANGED <<health, LinkReady, machine, counters, fires, timer, ArmRemain>>

-----------------------------------------------------------------------------
(* What the main loop does with the message it received. *)
Dispatch ==
  \/ NoopCmd
  \/ ResetCounterCmd
  \/ VerifyCmdLengthFails
  \/ InvalidCC
  \/ InvalidMID
  \/ \E op \in UnguardedOps : UnguardedCmd(op)
  \/ ArmPropulsionCmd
  \/ \E op \in FireOps : FireCmd(op)
  \/ WakeupHandler

(* A wire call returns, to a handler that only needs its return code... *)
PlainReturn(ok) ==
  \/ PingReturns(ok)
  \/ ResetModuleReturns(ok)
  \/ \E op \in SetModeOps : SetModeReturns(op, ok)
  \/ ArmReturns(ok)
  \/ DisarmReturns(ok)
  \/ \E op \in FireOps : FireReturns(op, ok)
  \/ \E op \in {"MAIN_ABORT", "CG_ABORT"} : AbortReturns(op, ok)
  \/ RequestFaultLogReturns(ok)
  \/ ClearFaultReturns(ok)
  \/ WakeupReturns(ok)

(* ... or to one that needs the words the unit reported. *)
ReportReturn(ok) ==
  \E mode \in AnyState, faults \in FaultWords :
    \/ RequestHKReturns(ok, mode, faults)
    \/ RequestStatusReturns(ok, mode, faults)

WireReturn ==
  \/ \E ok \in BOOLEAN : PlainReturn(ok) \/ ReportReturn(ok)
  \/ TimeoutStandbyReturns

Next ==
  \/ \E ok \in BOOLEAN : AppInit(ok)
  \/ PipeReadError
  \/ Restart
  \/ Tick
  \/ Dispatch
  \/ WireReturn

Spec == Init /\ [][Next]_vars

(* Every UART read has a timeout, so a wire call returns; the clock runs;  *)
(* the scheduler keeps sending wakeups and the pipe is first in, first     *)
(* out, so a wakeup is taken again and again while the loop keeps coming   *)
(* back for messages (but not while another handler is blocked: strong     *)
(* fairness).                                                              *)
FairSpec ==
  /\ Spec
  /\ WF_vars(WireReturn)
  /\ WF_vars(Tick)
  /\ SF_vars(WakeupHandler)

-----------------------------------------------------------------------------
(* Properties *)

(* Every variable keeps the range its C type and its assignments give it.  *)
TypeOK ==
  /\ RunStatus \in {"INIT", "RUN", "ERROR"}
  /\ PowerApplied \in BOOLEAN
  /\ LinkReady \in BOOLEAN
  /\ CurrentState \in AnyState
  /\ FaultFlags \in FaultWords
  /\ CmdCounter \in 0 .. COUNTER_RANGE - 1
  /\ ErrCounter \in 0 .. COUNTER_RANGE - 1
  /\ MainFireCount \in 0 .. FIRE_RANGE - 1
  /\ CGFireCount \in 0 .. FIRE_RANGE - 1
  /\ ArmedTimerActive \in BOOLEAN
  /\ ArmedElapsed \in 0 .. ARMED_TIMEOUT_SEC
  /\ ArmRemain \in 0 .. ARMED_TIMEOUT_SEC
  /\ Running \in GroundOps \cup WakeupOps \cup {Idle}
  /\ Sent \in HkMsgs \cup StatusMsgs \cup OtherMsgs

(* What a handler checked before its wire call still holds when the call   *)
(* returns, up to half a second and any number of arrived messages later:  *)
(* the fire handlers' FIRING, and the stopped timer of the main thruster's,*)
(* the ARM handler's STANDBY, the wakeup's link and state.  The handlers   *)
(* (ig4u_cmds.c) act after the call without looking again.                 *)
AdmittedStateHolds ==
  /\ Running # Idle => RunStatus = "RUN"
  /\ Running \in FireOps => CurrentState = "FIRING"
  /\ Running = "MAIN_FIRE" => ~ArmedTimerActive
  /\ Running = "ARM" => CurrentState = "STANDBY"
  /\ Running = "WAKEUP" => WakeupPolls
  /\ Running = "TIMEOUT_STANDBY" =>
       CurrentState = "STANDBY" /\ ~ArmedTimerActive

(* SAFE and FAULT are left by a ground command or a restart, never by the  *)
(* application on its own ("no automatic return", ig4u_internal_cfg.h).    *)
(* The ARMED timer may still be active in SAFE: a cold-gas firing does not *)
(* stop it (ig4u_cmds.c 400, 444).                                         *)
NoAutomaticRecovery ==
  [][(CurrentState \in {"SAFE", "FAULT"} /\ CurrentState' # CurrentState)
       => (Running \in GroundOps \/ RunStatus' = "INIT")]_vars

(* The application's own arming starts a full, supervised window; only a   *)
(* status report can bring ARMED without one (ig4u_cmds.c 135-138,         *)
(* 184-186, 278).                                                          *)
Untimed == CurrentState = "ARMED" /\ ~ArmedTimerActive

OwnArmingIsTimed ==
  [][/\ (Untimed' /\ ~Untimed) => Running = "REQUEST_STATUS"
     /\ (CurrentState' = "ARMED" /\ CurrentState # "ARMED")
          => (Running = "REQUEST_STATUS" \/ ArmedElapsed' = 0)]_vars

(* Every firing consumes an arming of its own: the handlers implement the  *)
(* three-phase interlock of IG4U_Interlock, in which a firing starts from  *)
(* an open interlock and leaves it closed.                                 *)
Phase ==
  IF Running \in FireOps THEN "firing"
  ELSE IF CurrentState = "ARMED" THEN "open" ELSE "closed"

Interlock == INSTANCE IG4U_Interlock WITH phase <- Phase
RefinesInterlock == Interlock!Spec

(* A supervised ARMED window closes, by a fire command or by the timeout   *)
(* of ig4u_cmds.c 605-616, unless the ground keeps re-arming, the link is  *)
(* declared down or the loop ends.                                         *)
ArmedWindowCloses ==
  <>[](Running # "SET_ARMED")
    => ((IsArmed /\ ArmedTimerActive)
          ~> (~IsArmed \/ ~LinkReady \/ RunStatus # "RUN"))

-----------------------------------------------------------------------------
(* Statements of the comments that the code does not keep *)

(* ig4u_internal_cfg.h 38-39 and ig4u_cmds.c 602-604: ARMED returns to     *)
(* STANDBY on its own after a while, so ARMED is always timed.             *)
ArmedIsAlwaysTimed == ~Untimed

(* The same, against the watchdog's other gap: a failed PING marks the     *)
(* link down and the wakeup handler returns before it looks at the timer.  *)
ArmedAlwaysCloses ==
  <>[](Running # "SET_ARMED")
    => ((IsArmed /\ ArmedTimerActive) ~> (~IsArmed \/ RunStatus # "RUN"))
=============================================================================
