--------------------------- MODULE IG4U_App_proofs ---------------------------
(* Proofs about IG4U_App, for every ARMED_TIMEOUT_SEC, counter width and    *)
(* set of fault words.                                                      *)
EXTENDS IG4U_App, TLAPS

Messages == HkMsgs \cup StatusMsgs \cup OtherMsgs

LEMMA NoMsgIsMessage == NoMsg \in Messages
  BY DEF NoMsg, Messages, OtherMsgs

LEMMA OtherIsMessage ==
  ASSUME NEW m \in {"NONE", "FIRE_RESULT", "FAULT_LOG"}
  PROVE  [mid |-> m] \in Messages
  BY DEF Messages, OtherMsgs

LEMMA StatusIsMessage ==
  ASSUME NEW mode \in AnyState, NEW faults \in FaultWords
  PROVE  StatusMsg(mode, faults) \in Messages
  BY DEF StatusMsg, Messages, StatusMsgs

LEMMA HkIsMessage ==
  ASSUME TypeOK, NEW count \in 0 .. COUNTER_RANGE - 1,
         NEW mode \in AnyState, NEW faults \in FaultWords
  PROVE  HkMsg(count, mode, faults) \in Messages
  BY DEF HkMsg, Messages, HkMsgs, TypeOK

LEMMA BumpInRange ==
  /\ \A c \in 0 .. COUNTER_RANGE - 1 : Bump(c) \in 0 .. COUNTER_RANGE - 1
  /\ \A c \in 0 .. FIRE_RANGE - 1 : BumpFire(c) \in 0 .. FIRE_RANGE - 1
  BY ConfigAssumption DEF Bump, BumpFire

(* TypeOK in three parts: the flags, the words and the telemetry.          *)
FlagsOK ==
  /\ PowerApplied \in BOOLEAN
  /\ LinkReady \in BOOLEAN
  /\ ArmedTimerActive \in BOOLEAN

WordsOK ==
  /\ RunStatus \in {"INIT", "RUN", "ERROR"}
  /\ CurrentState \in AnyState
  /\ FaultFlags \in FaultWords
  /\ CmdCounter \in 0 .. COUNTER_RANGE - 1
  /\ ErrCounter \in 0 .. COUNTER_RANGE - 1
  /\ MainFireCount \in 0 .. FIRE_RANGE - 1
  /\ CGFireCount \in 0 .. FIRE_RANGE - 1
  /\ ArmedElapsed \in 0 .. ARMED_TIMEOUT_SEC
  /\ ArmRemain \in 0 .. ARMED_TIMEOUT_SEC
  /\ Running \in GroundOps \cup WakeupOps \cup {Idle}

LEMMA TypeParts == TypeOK <=> FlagsOK /\ WordsOK /\ Sent \in Messages
  BY DEF TypeOK, FlagsOK, WordsOK, Messages

LEMMA InitType == Init => TypeOK
<1> SUFFICES ASSUME Init PROVE TypeOK
  OBVIOUS
<1>1. Sent \in Messages
  BY NoMsgIsMessage DEF Init
<1>2. FlagsOK
  BY Zenon DEF Init, FlagsOK
<1>3. WordsOK
  BY ConfigAssumption, SMT DEF Init, WordsOK, AnyState, State, Idle
<1> QED
  BY <1>1, <1>2, <1>3, TypeParts

(* No step takes a variable out of its range: first the main loop's own    *)
(* steps and the handlers up to their wire calls, then the returns.        *)
TypeNext == FlagsOK' /\ WordsOK' /\ Sent' \in Messages

LEMMA StartType ==
  ASSUME TypeOK,
         \/ \E ok \in BOOLEAN : AppInit(ok)
         \/ PipeReadError \/ Restart \/ Tick \/ Dispatch
  PROVE  TypeNext
<1> USE TypeParts, ConfigAssumption, BumpInRange, NoMsgIsMessage
    DEF TypeNext, FlagsOK, WordsOK, AnyState, State, GroundOps, UnguardedOps,
        SetModeOps, FireOps, Idle, Ready, Tally,
        health, machine, counters, fires, timer
<1>1. ASSUME NEW ok \in BOOLEAN, AppInit(ok) PROVE TypeNext
  BY <1>1 DEF AppInit
<1>2. CASE PipeReadError
  BY <1>2 DEF PipeReadError
<1>3. CASE Restart
  <2>1. FlagsOK'
    BY <1>3, Zenon DEF Restart
  <2>2. WordsOK'
    BY <1>3 DEF Restart
  <2>3. Sent' \in Messages
    BY <1>3 DEF Restart
  <2> QED
    BY <2>1, <2>2, <2>3
<1>4. CASE Tick
  BY <1>4 DEF Tick
<1>5. CASE NoopCmd
  BY <1>5 DEF NoopCmd
<1>6. CASE ResetCounterCmd
  BY <1>6 DEF ResetCounterCmd
<1>7. CASE Refuse
  BY <1>7 DEF Refuse
<1>8. CASE Ignore
  BY <1>8 DEF Ignore
<1>9. ASSUME NEW op \in GroundOps \cup WakeupOps, UnguardedCmd(op) PROVE TypeNext
  BY <1>9 DEF UnguardedCmd
<1>10. ASSUME NEW op \in FireOps, FireCmd(op) PROVE TypeNext
  BY <1>7, <1>10 DEF FireCmd
<1> QED
  BY <1>1, <1>2, <1>3, <1>4, <1>5, <1>6, <1>7, <1>8, <1>9, <1>10
  DEF Dispatch, VerifyCmdLengthFails, InvalidCC, InvalidMID, ArmPropulsionCmd,
      WakeupHandler, WakeupOps

LEMMA ReturnType == ASSUME TypeOK, WireReturn PROVE TypeNext
<1> USE TypeParts, ConfigAssumption, BumpInRange, NoMsgIsMessage
    DEF TypeNext, FlagsOK, WordsOK, AnyState, State, Idle, Returns, Tally,
        health, machine, counters, fires, timer
<1>1. ASSUME NEW ok \in BOOLEAN, PlainReturn(ok) PROVE TypeNext
  <2>1. CASE PingReturns(ok)
    BY <2>1 DEF PingReturns
  <2>2. CASE ResetModuleReturns(ok)
    BY <2>2 DEF ResetModuleReturns
  <2>3. ASSUME NEW op \in SetModeOps, SetModeReturns(op, ok) PROVE TypeNext
    <3>1. FlagsOK'
      BY <2>3 DEF SetModeReturns, Enter
    <3>2. WordsOK'
      BY <2>3 DEF SetModeReturns, Enter
    <3>3. Sent' \in Messages
      BY <2>3 DEF SetModeReturns
    <3> QED
      BY <3>1, <3>2, <3>3
  <2>4. CASE ArmReturns(ok)
    BY <2>4 DEF ArmReturns, Enter
  <2>5. CASE DisarmReturns(ok)
    BY <2>5 DEF DisarmReturns, Enter
  <2>6. ASSUME NEW op \in FireOps, FireReturns(op, ok) PROVE TypeNext
    <3>1. Sent' \in Messages
      BY <2>6, OtherIsMessage DEF FireReturns
    <3> QED
      BY <2>6, <3>1 DEF FireReturns
  <2>7. ASSUME NEW op \in {"MAIN_ABORT", "CG_ABORT"}, AbortReturns(op, ok)
        PROVE  TypeNext
    BY <2>7 DEF AbortReturns
  <2>8. CASE RequestFaultLogReturns(ok)
    <3>1. Sent' \in Messages
      BY <2>8, OtherIsMessage DEF RequestFaultLogReturns
    <3> QED
      BY <2>8, <3>1 DEF RequestFaultLogReturns
  <2>9. CASE ClearFaultReturns(ok)
    BY <2>9 DEF ClearFaultReturns
  <2>10. CASE WakeupReturns(ok)
    <3>1. Sent' \in Messages
      BY <2>10, HkIsMessage DEF WakeupReturns
    <3>2. WordsOK'
      BY <2>10 DEF WakeupReturns, Supervise, Supervised, Expired, WakeupOps
    <3>3. FlagsOK'
      BY <2>10 DEF WakeupReturns, Supervise
    <3> QED
      BY <3>1, <3>2, <3>3
  <2> QED
    BY <1>1, <2>1, <2>2, <2>3, <2>4, <2>5, <2>6, <2>7, <2>8, <2>9, <2>10
    DEF PlainReturn
<1>2. ASSUME NEW ok \in BOOLEAN, ReportReturn(ok) PROVE TypeNext
  <2> PICK mode \in AnyState, faults \in FaultWords :
         \/ RequestHKReturns(ok, mode, faults)
         \/ RequestStatusReturns(ok, mode, faults)
    BY <1>2 DEF ReportReturn
  <2>1. CASE RequestHKReturns(ok, mode, faults)
    <3>1. Sent' \in Messages
      BY <2>1, HkIsMessage DEF RequestHKReturns
    <3> QED
      BY <2>1, <3>1 DEF RequestHKReturns
  <2>2. CASE RequestStatusReturns(ok, mode, faults)
    <3>1. Sent' \in Messages
      BY <2>2, StatusIsMessage DEF RequestStatusReturns
    <3> QED
      BY <2>2, <3>1 DEF RequestStatusReturns
  <2> QED
    BY <2>1, <2>2
<1>3. CASE TimeoutStandbyReturns
  BY <1>3 DEF TimeoutStandbyReturns
<1> QED
  BY <1>1, <1>2, <1>3 DEF WireReturn

LEMMA StepType == TypeOK /\ [Next]_vars => TypeOK'
<1> SUFFICES ASSUME TypeOK, [Next]_vars PROVE TypeOK'
  OBVIOUS
<1>1. CASE Next
  <2>1. TypeNext
    BY <1>1, StartType, ReturnType DEF Next
  <2> QED
    BY <2>1 DEF TypeNext, TypeOK, FlagsOK, WordsOK, Messages
<1>2. CASE UNCHANGED vars
  BY <1>2 DEF TypeOK, vars, health, machine, counters, fires, timer,
              HkMsgs, StatusMsgs, OtherMsgs
<1> QED
  BY <1>1, <1>2

(* Every variable keeps its range: no counter leaves its telemetry field   *)
(* and the machine holds no state but those the handlers store.            *)
THEOREM TypeCorrect == Spec => []TypeOK
  BY InitType, StepType, PTL DEF Spec

-----------------------------------------------------------------------------
(* The invariant behind the rest: what the handlers checked still holds,   *)
(* and nothing happens before the start-up is over.                        *)
NotStarted == RunStatus = "INIT" => CurrentState = "BOOT"
IInv == AdmittedStateHolds /\ NotStarted

LEMMA InitIInv == Init => IInv
  BY DEF Init, IInv, AdmittedStateHolds, NotStarted, FireOps, Idle

LEMMA StartIInv ==
  ASSUME IInv,
         \/ \E ok \in BOOLEAN : AppInit(ok)
         \/ PipeReadError \/ Restart \/ Tick \/ Dispatch
  PROVE  IInv'
<1> USE DEF IInv, AdmittedStateHolds, NotStarted, FireOps, Idle, Ready, WakeupPolls,
            IsCommAllowed, health, machine, counters, fires, timer
<1>1. ASSUME NEW ok \in BOOLEAN, AppInit(ok) PROVE IInv'
  BY <1>1 DEF AppInit
<1>2. CASE PipeReadError
  BY <1>2 DEF PipeReadError
<1>3. CASE Restart
  BY <1>3 DEF Restart
<1>4. CASE Tick
  BY <1>4 DEF Tick
<1>5. CASE NoopCmd
  BY <1>5 DEF NoopCmd
<1>6. CASE ResetCounterCmd
  BY <1>6 DEF ResetCounterCmd
<1>7. CASE Refuse
  BY <1>7 DEF Refuse
<1>8. CASE Ignore
  BY <1>8 DEF Ignore
<1>9. ASSUME NEW op \in UnguardedOps, UnguardedCmd(op) PROVE IInv'
  BY <1>9 DEF UnguardedCmd, UnguardedOps, SetModeOps
<1>10. CASE ArmPropulsionCmd
  BY <1>7, <1>10 DEF ArmPropulsionCmd, UnguardedCmd
<1>11. ASSUME NEW op \in FireOps, FireCmd(op) PROVE IInv'
  BY <1>7, <1>11 DEF FireCmd
<1>12. CASE WakeupHandler
  BY <1>8, <1>12 DEF WakeupHandler, UnguardedCmd
<1> QED
  BY <1>1, <1>2, <1>3, <1>4, <1>5, <1>6, <1>7, <1>8, <1>9, <1>10, <1>11, <1>12
  DEF Dispatch, VerifyCmdLengthFails, InvalidCC, InvalidMID

(* A return leaves the loop idle, but for the timeout that sends STANDBY.  *)
LEMMA ReturnIsIdle ==
  ASSUME WireReturn
  PROVE  /\ RunStatus' = RunStatus
         /\ Running \in GroundOps \cup WakeupOps
         /\ \/ Running' = Idle
            \/ /\ Running' = "TIMEOUT_STANDBY" /\ CurrentState' = "STANDBY"
               /\ ~ArmedTimerActive'
<1> USE DEF Returns, health, GroundOps, UnguardedOps, SetModeOps, FireOps, WakeupOps
<1>1. ASSUME NEW ok \in BOOLEAN, PlainReturn(ok)
      PROVE  /\ RunStatus' = RunStatus
             /\ Running \in GroundOps \cup WakeupOps
             /\ Running' = Idle \/ WakeupReturns(ok)
  BY <1>1 DEF PlainReturn, PingReturns, ResetModuleReturns, SetModeReturns, ArmReturns,
              DisarmReturns, FireReturns, AbortReturns, RequestFaultLogReturns,
              ClearFaultReturns, WakeupReturns
<1>2. ASSUME NEW ok \in BOOLEAN, ReportReturn(ok)
      PROVE  RunStatus' = RunStatus /\ Running \in GroundOps /\ Running' = Idle
  BY <1>2 DEF ReportReturn, RequestHKReturns, RequestStatusReturns
<1>3. CASE TimeoutStandbyReturns
  BY <1>3 DEF TimeoutStandbyReturns
<1> QED
  BY <1>1, <1>2, <1>3 DEF WireReturn, WakeupReturns, Supervise

LEMMA ReturnIInv == ASSUME IInv, WireReturn PROVE IInv'
<1>1. Running # Idle
  BY ReturnIsIdle
  DEF GroundOps, UnguardedOps, SetModeOps, FireOps, WakeupOps, Idle
<1>2. RunStatus = "RUN" /\ RunStatus' = "RUN"
  BY <1>1, ReturnIsIdle DEF IInv, AdmittedStateHolds
<1> QED
  BY <1>2, ReturnIsIdle DEF IInv, AdmittedStateHolds, NotStarted, FireOps, Idle

LEMMA StepIInv == IInv /\ [Next]_vars => IInv'
<1> SUFFICES ASSUME IInv, [Next]_vars PROVE IInv'
  OBVIOUS
<1>1. CASE Next
  BY <1>1, StartIInv, ReturnIInv DEF Next
<1>2. CASE UNCHANGED vars
  BY <1>2 DEF IInv, AdmittedStateHolds, NotStarted, WakeupPolls, IsCommAllowed,
              vars, health, machine, counters, fires, timer
<1> QED
  BY <1>1, <1>2

THEOREM InnerInvariant == Spec => []IInv
  BY InitIInv, StepIInv, PTL DEF Spec

(* What a handler checked before its wire call holds when the call returns,*)
(* for every interleaving of clock, messages and outcomes.                 *)
THEOREM AdmissionIsStable == Spec => []AdmittedStateHolds
<1>1. IInv => AdmittedStateHolds
  BY DEF IInv
<1> QED
  BY <1>1, InnerInvariant, PTL

-----------------------------------------------------------------------------
(* SAFE and FAULT are never left by the application on its own: not by the *)
(* wakeup's supervision, not by a timer that a cold-gas firing left active.*)
THEOREM SafeIsKept == Spec => NoAutomaticRecovery
<1>1. ASSUME IInv, Next, CurrentState \in {"SAFE", "FAULT"},
             CurrentState' # CurrentState
      PROVE  Running \in GroundOps \/ RunStatus' = "INIT"
  <2> USE <1>1 DEF health, machine, counters, fires, timer
  <2>1. ASSUME NEW ok \in BOOLEAN, AppInit(ok) PROVE FALSE
    BY <2>1 DEF AppInit, IInv, NotStarted
  <2>2. ~PipeReadError /\ ~Tick
    BY DEF PipeReadError, Tick
  <2>3. CASE Restart
    BY <2>3 DEF Restart
  <2>4. ~Dispatch
    BY DEF Dispatch, NoopCmd, ResetCounterCmd, VerifyCmdLengthFails, InvalidCC,
           InvalidMID, UnguardedCmd, ArmPropulsionCmd, FireCmd, IsArmed,
           WakeupHandler, Refuse, Ignore
  <2>5. CASE WireReturn
    <3>1. Running \in GroundOps \/ Running \in WakeupOps
      BY <2>5, ReturnIsIdle
    <3>2. CASE Running = "WAKEUP"
      BY <2>5, <3>2 DEF WireReturn, PlainReturn, ReportReturn, PingReturns,
         ResetModuleReturns, SetModeReturns, ArmReturns, DisarmReturns, FireReturns,
         AbortReturns, RequestFaultLogReturns, ClearFaultReturns, WakeupReturns,
         Supervise, Supervised, TimeoutStandbyReturns, RequestHKReturns,
         RequestStatusReturns, Returns, SetModeOps, FireOps
    <3>3. CASE Running = "TIMEOUT_STANDBY"
      BY <3>3 DEF IInv, AdmittedStateHolds
    <3> QED
      BY <3>1, <3>2, <3>3 DEF WakeupOps
  <2> QED
    BY <2>1, <2>2, <2>3, <2>4, <2>5 DEF Next
<1>2. IInv /\ [Next]_vars =>
        [(CurrentState \in {"SAFE", "FAULT"} /\ CurrentState' # CurrentState)
           => (Running \in GroundOps \/ RunStatus' = "INIT")]_vars
  BY <1>1
<1> QED
  BY <1>2, InnerInvariant, PTL DEF Spec, NoAutomaticRecovery

-----------------------------------------------------------------------------
(* The handlers implement the interlock: a firing starts from ARMED and    *)
(* ends the arming, whatever the commands, the outcomes and the clock.     *)
LEMMA StartPhase ==
  ASSUME IInv,
         \/ \E ok \in BOOLEAN : AppInit(ok)
         \/ PipeReadError \/ Restart \/ Tick \/ Dispatch
  PROVE  [Interlock!Next]_Phase
<1> USE DEF Phase, Interlock!Next, Interlock!Grant, Interlock!Revoke,
            Interlock!Fire, Interlock!Settle, FireOps, Idle, Ready,
            health, machine, counters, fires, timer
<1>1. ASSUME NEW ok \in BOOLEAN, AppInit(ok) PROVE Phase' = Phase
  BY <1>1 DEF AppInit, IInv, NotStarted, AdmittedStateHolds
<1>2. CASE PipeReadError \/ Tick
  BY <1>2 DEF PipeReadError, Tick
<1>3. CASE Restart
  BY <1>3 DEF Restart
<1>4. CASE NoopCmd \/ ResetCounterCmd \/ Refuse \/ Ignore
  BY <1>4 DEF NoopCmd, ResetCounterCmd, Refuse, Ignore
<1>5. ASSUME NEW op \in GroundOps \cup WakeupOps, op \notin FireOps, UnguardedCmd(op)
      PROVE  Phase' = Phase
  BY <1>5 DEF UnguardedCmd
<1>6. ASSUME NEW op \in FireOps, FireCmd(op) PROVE [Interlock!Next]_Phase
  BY <1>4, <1>6 DEF FireCmd, IsArmed
<1> QED
  BY <1>1, <1>2, <1>3, <1>4, <1>5, <1>6
  DEF Dispatch, VerifyCmdLengthFails, InvalidCC, InvalidMID, ArmPropulsionCmd,
      WakeupHandler, GroundOps, UnguardedOps, SetModeOps, WakeupOps

LEMMA ReturnPhase == ASSUME IInv, WireReturn PROVE [Interlock!Next]_Phase
<1> USE DEF Phase, Interlock!Next, Interlock!Grant, Interlock!Revoke,
            Interlock!Fire, Interlock!Settle
<1>1. Running' \notin FireOps
  BY ReturnIsIdle DEF FireOps, Idle
<1>2. CASE Running \notin FireOps
  BY <1>1, <1>2
<1>3. CASE Running \in FireOps
  <2>1. PICK op \in FireOps, ok \in BOOLEAN : FireReturns(op, ok)
    BY <1>3 DEF WireReturn, PlainReturn, ReportReturn, PingReturns,
       ResetModuleReturns, SetModeReturns, ArmReturns, DisarmReturns,
       AbortReturns, RequestFaultLogReturns, ClearFaultReturns, WakeupReturns,
       TimeoutStandbyReturns, RequestHKReturns, RequestStatusReturns, Returns,
       SetModeOps, FireOps
  <2>2. CurrentState' # "ARMED"
    BY <2>1 DEF FireReturns
  <2> QED
    BY <1>1, <1>3, <2>2
<1> QED
  BY <1>2, <1>3

THEOREM HandlersImplementInterlock == Spec => RefinesInterlock
<1>1. Init => Interlock!Init
  BY DEF Init, Interlock!Init, Phase, FireOps, Idle
<1>2. IInv /\ [Next]_vars => [Interlock!Next]_Phase
  <2> SUFFICES ASSUME IInv, [Next]_vars PROVE [Interlock!Next]_Phase
    OBVIOUS
  <2>1. CASE Next
    BY <2>1, StartPhase, ReturnPhase DEF Next
  <2>2. CASE UNCHANGED vars
    BY <2>2 DEF Phase, vars, machine
  <2> QED
    BY <2>1, <2>2
<1> QED
  BY <1>1, <1>2, InnerInvariant, PTL DEF Spec, RefinesInterlock, Interlock!Spec

-----------------------------------------------------------------------------
(* Only a status report brings an ARMED that the watchdog does not see.     *)
NewlyUntimed == Untimed' /\ ~Untimed
NewlyArmed == CurrentState' = "ARMED" /\ CurrentState # "ARMED"

LEMMA StartIsTimed ==
  ASSUME \/ \E ok \in BOOLEAN : AppInit(ok)
         \/ PipeReadError \/ Restart \/ Tick \/ Dispatch
  PROVE  ~NewlyUntimed /\ ~NewlyArmed
<1> USE DEF NewlyUntimed, NewlyArmed, Untimed, machine, timer
<1>1. CASE (\E ok \in BOOLEAN : AppInit(ok)) \/ Restart
  BY <1>1 DEF AppInit, Restart
<1>2. CASE PipeReadError \/ Tick
  BY <1>2 DEF PipeReadError, Tick
<1>3. CASE NoopCmd \/ ResetCounterCmd \/ Refuse \/ Ignore
  <2>1. UNCHANGED <<CurrentState, ArmedTimerActive>>
    BY <1>3 DEF NoopCmd, ResetCounterCmd, Refuse, Ignore
  <2> QED
    BY <2>1, Zenon
<1>4. ASSUME NEW op, UnguardedCmd(op) PROVE ~NewlyUntimed /\ ~NewlyArmed
  BY <1>4 DEF UnguardedCmd
<1>5. ASSUME NEW op \in FireOps, FireCmd(op) PROVE ~NewlyUntimed /\ ~NewlyArmed
  <2>1. CASE Refuse
    BY <1>3, <2>1
  <2>2. CASE CurrentState' = "FIRING"
    BY <2>2
  <2> QED
    BY <1>5, <2>1, <2>2 DEF FireCmd
<1> QED
  BY <1>1, <1>2, <1>3, <1>4, <1>5
  DEF Dispatch, VerifyCmdLengthFails, InvalidCC, InvalidMID, ArmPropulsionCmd,
      WakeupHandler

LEMMA ReturnIsTimed ==
  ASSUME WireReturn, Running # "REQUEST_STATUS"
  PROVE  ~NewlyUntimed /\ (NewlyArmed => ArmedElapsed' = 0)
<1> USE DEF NewlyUntimed, NewlyArmed, Untimed, machine, timer
<1>1. ASSUME NEW ok \in BOOLEAN, PlainReturn(ok)
      PROVE  ~NewlyUntimed /\ (NewlyArmed => ArmedElapsed' = 0)
  <2>1. CASE \/ \E op \in SetModeOps : SetModeReturns(op, ok)
             \/ ArmReturns(ok) \/ DisarmReturns(ok)
    BY <2>1 DEF SetModeReturns, ArmReturns, DisarmReturns, Enter
  <2>2. CASE ResetModuleReturns(ok) \/ ClearFaultReturns(ok)
    <3>1. CASE ok
      BY <2>2, <3>1 DEF ResetModuleReturns, ClearFaultReturns
    <3>2. CASE ~ok
      <4>1. CurrentState' = CurrentState
        BY <2>2, <3>2 DEF ResetModuleReturns, ClearFaultReturns
      <4>2. CASE ResetModuleReturns(ok)
        <5>1. ArmedTimerActive => ArmedTimerActive'
          BY <3>2, <4>2 DEF ResetModuleReturns
        <5> QED
          BY <4>1, <5>1, Zenon
      <4>3. CASE ClearFaultReturns(ok)
        <5>1. UNCHANGED ArmedTimerActive
          BY <4>3 DEF ClearFaultReturns
        <5> QED
          BY <4>1, <5>1, Zenon
      <4> QED
        BY <2>2, <4>2, <4>3
    <3> QED
      BY <3>1, <3>2
  <2>3. CASE \/ \E op \in FireOps : FireReturns(op, ok)
             \/ \E op \in {"MAIN_ABORT", "CG_ABORT"} : AbortReturns(op, ok)
    BY <2>3 DEF FireReturns, AbortReturns
  <2>4. CASE PingReturns(ok) \/ RequestFaultLogReturns(ok)
    BY <2>4 DEF PingReturns, RequestFaultLogReturns
  <2>5. CASE WakeupReturns(ok)
    BY <2>5 DEF WakeupReturns, Supervise
  <2> QED
    BY <1>1, <2>1, <2>2, <2>3, <2>4, <2>5 DEF PlainReturn
<1>2. ASSUME NEW ok \in BOOLEAN, ReportReturn(ok)
      PROVE  ~NewlyUntimed /\ ~NewlyArmed
  BY <1>2 DEF ReportReturn, RequestHKReturns, RequestStatusReturns, Returns
<1>3. CASE TimeoutStandbyReturns
  BY <1>3 DEF TimeoutStandbyReturns
<1> QED
  BY <1>1, <1>2, <1>3 DEF WireReturn

(* Every arming of the application's own starts the timer at zero, and no  *)
(* command stops the timer and leaves the state ARMED.                     *)
THEOREM OwnArmingIsSupervised == Spec => OwnArmingIsTimed
<1>1. ASSUME Next
      PROVE  /\ NewlyUntimed => Running = "REQUEST_STATUS"
             /\ NewlyArmed => (Running = "REQUEST_STATUS" \/ ArmedElapsed' = 0)
  BY <1>1, StartIsTimed, ReturnIsTimed DEF Next
<1>2. [Next]_vars =>
        [/\ (Untimed' /\ ~Untimed) => Running = "REQUEST_STATUS"
         /\ (CurrentState' = "ARMED" /\ CurrentState # "ARMED")
              => (Running = "REQUEST_STATUS" \/ ArmedElapsed' = 0)]_vars
  BY <1>1 DEF NewlyUntimed, NewlyArmed
<1> QED
  BY <1>2, PTL DEF Spec, OwnArmingIsTimed
=============================================================================
