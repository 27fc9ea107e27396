-------------------------- MODULE IG4U_System_proofs --------------------------
(***************************************************************************)
(* The composed system: it behaves as the application does by itself, so   *)
(* what is proved of that holds in it; the unit burns once at most for an  *)
(* arming; and a firing the application lost sight of keeps it in SAFE.    *)
(***************************************************************************)
EXTENDS IG4U_System, IG4U_App_proofs

LEMMA SameCalls ==
  /\ Exchange!Nobody = Nobody
  /\ Exchange!Firings = Firings
  /\ Exchange!SendOnly = SendOnly
<1>1. /\ Exchange!PlainOps = PlainOps /\ Exchange!MainOps = MainOps
      /\ Exchange!ColdOps = ColdOps
  BY DEF Exchange!PlainOps, PlainOps, Exchange!MainOps, MainOps, Exchange!ColdOps,
         ColdOps
<1>2. Exchange!Nobody = Nobody /\ Exchange!SendOnly = SendOnly
  BY DEF Exchange!Nobody, Nobody, Exchange!SendOnly, SendOnly
<1>3. Exchange!Firings = Firings
  BY <1>1 DEF Exchange!Firings, Firings
<1> QED BY <1>2, <1>3

-----------------------------------------------------------------------------
(* The application inside *)

LEMMA HandleIsDispatch ==
  ASSUME NEW m, Handle(m)
  PROVE  Dispatch
BY DEF Handle, Dispatch

LEMMA FinishIsReturn ==
  ASSUME FinishCall
  PROVE  WireReturn
<1>1. (ret = "OK") \in BOOLEAN
  OBVIOUS
<1>2. PlainReturn(ret = "OK") \/ ReportReturn(ret = "OK") \/ TimeoutStandbyReturns
  BY DEF FinishCall
<1> QED BY <1>1, <1>2 DEF WireReturn

LEMMA SystemStepIsAppStep == [SystemNext]_sysvars => [Next]_vars
<1> SUFFICES ASSUME [SystemNext]_sysvars PROVE [Next]_vars
  OBVIOUS
<1>1. CASE (\E m \in Traffic : Accept(m)) \/ StartCall \/ Answered \/ BurnOver
  BY <1>1 DEF Accept, StartCall, Answered, BurnOver
<1>2. CASE Take
  BY <1>2, HandleIsDispatch DEF Take, Next
<1>3. CASE FinishCall
  BY <1>3, FinishIsReturn DEF Next
<1>4. CASE StartUp \/ ClockTick \/ LoopEnds \/ SystemRestart
  BY <1>4 DEF StartUp, ClockTick, LoopEnds, SystemRestart, Next
<1>5. CASE UNCHANGED sysvars
  BY <1>5 DEF sysvars
<1> QED BY <1>1, <1>2, <1>3, <1>4, <1>5 DEF SystemNext

(* With its pipe and its wire commands the application does nothing that   *)
(* it would not do when messages and answers come at any time, so every    *)
(* theorem of IG4U_App_proofs holds in the system.                         *)
THEOREM SystemIsApplication == SystemSpec => Spec
<1>1. SystemInit => Init
  BY DEF SystemInit
<1> QED BY <1>1, SystemStepIsAppStep, PTL DEF SystemSpec, Spec

COROLLARY SystemInnerInvariant == SystemSpec => [](TypeOK /\ IInv)
  BY SystemIsApplication, TypeCorrect, InnerInvariant, PTL

(* So in the system, too, two firings have an arming between them, SAFE    *)
(* and FAULT are left by the ground or a restart only, what a handler      *)
(* checked holds when its call is over, and an ARMED of the application's  *)
(* own has a full window.                                                  *)
COROLLARY SystemKeepsInterlock ==
  SystemSpec => /\ RefinesInterlock
                /\ NoAutomaticRecovery
                /\ []AdmittedStateHolds
                /\ OwnArmingIsTimed
  BY SystemIsApplication, HandlersImplementInterlock, SafeIsKept, AdmissionIsStable,
     OwnArmingIsSupervised, PTL

-----------------------------------------------------------------------------
(* Calls and handlers *)

(* A handler that waits for a call makes one the wire commands have; an    *)
(* idle loop makes none.                                                   *)
LEMMA CallsAreOps ==
  ASSUME TypeOK
  PROVE  /\ CallsOf(Running) \subseteq Ops
         /\ Nobody \notin CallsOf(Running)
         /\ Running = Idle => CallsOf(Running) = {}
<1>1. Running \in GroundOps \cup WakeupOps \cup {Idle}
  BY DEF TypeOK
<1>2. CallsOf(Running) \subseteq Ops
  BY <1>1
  DEF CallsOf, GroundOps, UnguardedOps, SetModeOps, FireOps, WakeupOps, Idle, Ops,
      PlainOps, MainOps, ColdOps, SendOnly, ReportOps, Firings
<1>3. Nobody \notin Ops
  BY DEF Nobody, Ops, PlainOps, MainOps, ColdOps, SendOnly, ReportOps, Firings
<1>4. Running = Idle => CallsOf(Running) = {}
  BY DEF CallsOf, SetModeOps, Idle
<1> QED BY <1>2, <1>3, <1>4

LEMMA HandleWhenReady ==
  ASSUME NEW m, Handle(m)
  PROVE  Running = Idle
BY DEF Handle, NoopCmd, ResetCounterCmd, VerifyCmdLengthFails, InvalidCC, InvalidMID,
       Ignore, Refuse, UnguardedCmd, ArmPropulsionCmd, FireCmd, WakeupHandler, Ready

LEMMA EmptyPipe ==
  ASSUME NEW q, q = <<>>
  PROVE  q \in Seq(Inputs) /\ Len(q) <= PIPE_DEPTH
BY SystemAssumption

LEMMA SystemInitType == SystemInit => SystemTypeOK
<1> SUFFICES ASSUME SystemInit PROVE SystemTypeOK
  OBVIOUS
<1>1. pipe \in Seq(Inputs) /\ Len(pipe) <= PIPE_DEPTH
  BY EmptyPipe DEF SystemInit
<1>2. call = Nobody /\ ret = "NONE" /\ burning = Nobody /\ unreported = FALSE
  BY SameCalls DEF SystemInit, Exchange!Init
<1> QED
  BY <1>1, <1>2 DEF SystemTypeOK, Codes

LEMMA SystemStepType ==
  ASSUME TypeOK, SystemTypeOK, [SystemNext]_sysvars
  PROVE  SystemTypeOK'
<1> USE DEF SystemTypeOK
<1>0. PIPE_DEPTH \in Nat
  BY SystemAssumption
<1>1. ASSUME NEW m \in Traffic, Accept(m) PROVE SystemTypeOK'
  <2>1. m \in Inputs
    BY SystemAssumption
  <2>2. pipe' \in Seq(Inputs) /\ Len(pipe') <= PIPE_DEPTH
    BY <1>0, <1>1, <2>1 DEF Accept
  <2>3. UNCHANGED <<Running, call, ret, burning, unreported>>
    BY <1>1 DEF Accept, vars, exchange
  <2> QED BY <2>2, <2>3 DEF CallsOf
<1>2. CASE Take
  <2>1. call = Nobody
    BY <1>2, HandleWhenReady, CallsAreOps DEF Take
  <2>2. pipe' \in Seq(Inputs) /\ Len(pipe') <= PIPE_DEPTH
    BY <1>0, <1>2 DEF Take
  <2>3. UNCHANGED <<call, ret, burning, unreported>>
    BY <1>2 DEF Take, exchange
  <2> QED BY <2>1, <2>2, <2>3
<1>3. CASE StartCall
  <2>1. PICK op \in CallsOf(Running) : Exchange!Send(op)
    BY <1>3 DEF StartCall
  <2>2. op \in Ops /\ op # Nobody /\ call' = op
    BY <2>1, CallsAreOps DEF Exchange!Send
  <2>3. ret' \in Codes
    BY <2>1 DEF Exchange!Send, Codes
  <2>4. burning' \in Firings \cup {Nobody}
    BY <2>1, SameCalls DEF Exchange!Send
  <2>5. UNCHANGED <<Running, pipe, unreported>>
    BY <1>3 DEF StartCall, vars
  <2> QED BY <2>1, <2>2, <2>3, <2>4, <2>5 DEF CallsOf
<1>4. CASE Answered
  <2>1. ret' \in Codes /\ call # Nobody
    BY <1>4, SameCalls DEF Answered, Exchange!Answer, Codes
  <2>2. UNCHANGED <<Running, pipe, call, burning, unreported>>
    BY <1>4 DEF Answered, Exchange!Answer, vars
  <2> QED BY <2>1, <2>2 DEF CallsOf
<1>5. CASE BurnOver
  <2>1. burning' = Nobody /\ unreported' = FALSE
    BY <1>5, SameCalls DEF BurnOver, Exchange!BurnEnds
  <2>2. UNCHANGED <<Running, pipe, call, ret>>
    BY <1>5 DEF BurnOver, Exchange!BurnEnds, vars
  <2> QED BY <2>1, <2>2 DEF CallsOf
<1>6. CASE FinishCall
  <2>1. call' = Nobody /\ ret' = "NONE" /\ UNCHANGED <<burning, pipe>>
    BY <1>6, SameCalls DEF FinishCall, Exchange!Return
  <2>2. unreported' \in BOOLEAN
    BY <1>6 DEF FinishCall
  <2> QED BY <2>1, <2>2 DEF Codes
<1>7. CASE StartUp \/ ClockTick
  <2>1. UNCHANGED <<Running, pipe, call, ret, burning, unreported>>
    BY <1>7 DEF StartUp, ClockTick, AppInit, Tick, exchange
  <2> QED BY <2>1 DEF CallsOf
<1>8. CASE LoopEnds
  <2>1. UNCHANGED <<Running, call, ret, burning, unreported>> /\ pipe' = <<>>
    BY <1>8 DEF LoopEnds, PipeReadError, exchange
  <2>2. pipe' \in Seq(Inputs) /\ Len(pipe') <= PIPE_DEPTH
    BY <2>1, EmptyPipe
  <2> QED BY <2>1, <2>2 DEF CallsOf
<1>9. CASE SystemRestart
  <2>1. /\ call' = Nobody /\ ret' = "NONE" /\ burning' = burning
        /\ pipe' = <<>> /\ unreported' = FALSE
    BY <1>9, SameCalls DEF SystemRestart, Exchange!Restart
  <2>2. pipe' \in Seq(Inputs) /\ Len(pipe') <= PIPE_DEPTH
    BY <2>1, EmptyPipe
  <2> QED BY <2>1, <2>2 DEF Codes
<1>10. CASE UNCHANGED sysvars
  <2>1. UNCHANGED <<Running, pipe, call, ret, burning, unreported>>
    BY <1>10 DEF sysvars, vars, exchange
  <2> QED BY <2>1 DEF CallsOf
<1> QED
  BY <1>1, <1>2, <1>3, <1>4, <1>5, <1>6, <1>7, <1>8, <1>9, <1>10 DEF SystemNext

(* A call belongs to the handler that is blocked in it; the pipe never     *)
(* holds more than it was made for.                                        *)
THEOREM SystemTypes == SystemSpec => []SystemTypeOK
<1>1. (TypeOK /\ IInv) /\ SystemTypeOK /\ [SystemNext]_sysvars => SystemTypeOK'
  BY SystemStepType
<1> QED
  BY SystemInnerInvariant, SystemInitType, <1>1, PTL DEF SystemSpec

-----------------------------------------------------------------------------
(* One burn for an arming *)

LEMMA SameFirings == Licensed!Nobody = Nobody /\ Licensed!Firings = Firings
BY DEF Licensed!Nobody, Nobody, Licensed!Firings, Firings, Licensed!MainOps, MainOps,
       Licensed!ColdOps, ColdOps

(* A message makes a fire handler run only in ARMED, and no other moves    *)
(* the state before its call.                                              *)
LEMMA OnlyArmedFires ==
  ASSUME NEW m, Handle(m)
  PROVE  \/ CurrentState = "ARMED" /\ Running' \in FireOps
         \/ Running' \notin FireOps /\ CurrentState' = CurrentState
<1> USE DEF machine
<1>1. CASE NoopCmd \/ ResetCounterCmd \/ Refuse \/ Ignore
  BY <1>1 DEF NoopCmd, ResetCounterCmd, Refuse, Ignore, Ready, Idle, FireOps
<1>2. ASSUME NEW op, op \notin FireOps, UnguardedCmd(op)
      PROVE  Running' \notin FireOps /\ CurrentState' = CurrentState
  BY <1>2 DEF UnguardedCmd
<1>3. CASE \E op \in UnguardedOps : UnguardedCmd(op)
  <2>1. PICK op \in UnguardedOps : UnguardedCmd(op)
    BY <1>3
  <2>2. op \notin FireOps
    BY DEF UnguardedOps, SetModeOps, FireOps
  <2> QED BY <1>2, <2>1, <2>2
<1>4. CASE ArmPropulsionCmd
  <2>1. "ARM" \notin FireOps
    BY DEF FireOps
  <2> QED BY <1>1, <1>2, <1>4, <2>1 DEF ArmPropulsionCmd
<1>5. CASE \E op \in FireOps : FireCmd(op)
  BY <1>1, <1>5 DEF FireCmd, IsArmed
<1>6. CASE WakeupHandler
  <2>1. "WAKEUP" \notin FireOps
    BY DEF FireOps
  <2> QED BY <1>1, <1>2, <1>6, <2>1 DEF WakeupHandler
<1> QED
  BY <1>1, <1>3, <1>4, <1>5, <1>6
  DEF Handle, VerifyCmdLengthFails, InvalidCC, InvalidMID

(* A fire handler sends a firing, which stops no other; no other handler   *)
(* sends one.                                                              *)
LEMMA OnlyFireHandlersFire ==
  ASSUME TypeOK, NEW op \in CallsOf(Running)
  PROVE  /\ Running \in FireOps => Stopped(op) = {}
         /\ Running \notin FireOps => op \notin Firings
<1>1. Running \in GroundOps \cup WakeupOps \cup {Idle}
  BY DEF TypeOK
<1>2. ASSUME Running \in FireOps PROVE Stopped(op) = {}
  BY <1>2 DEF CallsOf, FireOps, SetModeOps, MainOps, Stopped, Idle
<1>3. ASSUME Running \notin FireOps PROVE op \notin Firings
  BY <1>1, <1>3
  DEF CallsOf, GroundOps, UnguardedOps, SetModeOps, FireOps, WakeupOps, Idle,
      Firings, MainOps, ColdOps
<1> QED BY <1>2, <1>3

(* A call that returned leaves no fire handler behind, and after a firing  *)
(* no ARMED.                                                               *)
LEMMA ReturnsSpend ==
  ASSUME WireReturn
  PROVE  /\ Running' \notin FireOps
         /\ Running \in FireOps => CurrentState' # "ARMED"
<1>1. CASE TimeoutStandbyReturns
  BY <1>1 DEF TimeoutStandbyReturns, Returns, FireOps, Idle
<1>2. ASSUME NEW ok \in BOOLEAN, ReportReturn(ok)
      PROVE  Running' \notin FireOps /\ Running \notin FireOps
  BY <1>2 DEF ReportReturn, RequestHKReturns, RequestStatusReturns, Returns, FireOps, Idle
<1>3. ASSUME NEW ok \in BOOLEAN, PlainReturn(ok), Running \in FireOps
      PROVE  Running' \notin FireOps /\ CurrentState' # "ARMED"
  <2>1. \E op \in FireOps : FireReturns(op, ok)
    BY <1>3 DEF PlainReturn, PingReturns, ResetModuleReturns, SetModeReturns,
                ArmReturns, DisarmReturns, AbortReturns, RequestFaultLogReturns,
                ClearFaultReturns, WakeupReturns, Returns, FireOps, SetModeOps
  <2> QED BY <2>1 DEF FireReturns, Returns, FireOps, Idle
<1>4. ASSUME NEW ok \in BOOLEAN, PlainReturn(ok), Running \notin FireOps
      PROVE  Running' \notin FireOps
  BY <1>4 DEF PlainReturn, PingReturns, ResetModuleReturns, SetModeReturns, ArmReturns,
              DisarmReturns, FireReturns, AbortReturns, RequestFaultLogReturns,
              ClearFaultReturns, WakeupReturns, Supervise, Returns, FireOps, Idle
<1> QED BY <1>1, <1>2, <1>3, <1>4 DEF WireReturn

LEMMA StepLicence ==
  ASSUME TypeOK, IInv, SystemTypeOK, [SystemNext]_sysvars
  PROVE  [Licensed!Next]_Licensed!vars
<1> USE DEF Licensed!vars, Licence
<1>1. CASE \/ \E m \in Traffic : Accept(m)
           \/ Answered \/ ClockTick \/ LoopEnds \/ UNCHANGED sysvars
  BY <1>1 DEF Accept, Answered, Exchange!Answer, ClockTick, Tick, LoopEnds,
              PipeReadError, sysvars, vars, exchange, machine
<1>2. CASE Take
  <2>1. Running = Idle /\ Running \notin FireOps /\ call = Nobody
    BY <1>2, HandleWhenReady, CallsAreOps DEF Take, SystemTypeOK, Idle, FireOps
  <2>2. UNCHANGED <<call, burning>>
    BY <1>2 DEF Take, exchange
  <2>3. CASE CurrentState = "ARMED" /\ Running' \in FireOps
    <3>1. Licensed!Claim
      BY <2>1, <2>2, <2>3 DEF Licensed!Claim
    <3> QED BY <3>1 DEF Licensed!Next
  <2>4. CASE Running' \notin FireOps /\ CurrentState' = CurrentState
    BY <2>1, <2>2, <2>4
  <2> QED BY <1>2, <2>3, <2>4, OnlyArmedFires DEF Take
<1>3. CASE StartCall
  <2>1. PICK op \in CallsOf(Running) : Exchange!Send(op)
    BY <1>3 DEF StartCall
  <2>2. /\ call = Nobody /\ call' = op /\ op # Nobody
        /\ UNCHANGED <<Running, CurrentState>>
    BY <1>3, <2>1, CallsAreOps, SameCalls DEF StartCall, Exchange!Send, vars, machine
  <2>3. \/ UNCHANGED burning
        \/ op \in Firings /\ burning = Nobody /\ burning' = op
        \/ burning \in Exchange!Stopped(op) /\ burning' = Nobody
    BY <2>1, SameCalls DEF Exchange!Send
  <2>4. Exchange!Stopped(op) = Stopped(op)
    BY SameCalls DEF Exchange!Stopped, Stopped, Exchange!MainOps, MainOps,
                     Exchange!ColdOps, ColdOps
  <2>5. CASE Running \in FireOps
    <3>1. Licensed!Use
      BY <2>2, <2>3, <2>4, <2>5, OnlyFireHandlersFire, SameFirings DEF Licensed!Use
    <3> QED BY <3>1 DEF Licensed!Next
  <2>6. CASE Running \notin FireOps
    <3>1. Licence' = Licence
      BY <2>2, <2>6
    <3>2. CASE UNCHANGED burning
      BY <3>1, <3>2
    <3>3. CASE burning \in Stopped(op) /\ burning' = Nobody
      <4>1. burning # Nobody
        BY <3>3 DEF Stopped, Firings, MainOps, ColdOps, Nobody
      <4> QED BY <3>1, <3>3, <4>1, SameFirings DEF Licensed!Stop, Licensed!Next
    <3> QED BY <2>3, <2>4, <2>6, <3>2, <3>3, OnlyFireHandlersFire
  <2> QED BY <2>5, <2>6
<1>4. CASE BurnOver
  <2>1. UNCHANGED <<Running, CurrentState, call>>
    BY <1>4 DEF BurnOver, Exchange!BurnEnds, vars, machine
  <2>2. Licensed!Stop
    BY <1>4, <2>1, SameCalls, SameFirings DEF BurnOver, Exchange!BurnEnds, Licensed!Stop
  <2> QED BY <2>2 DEF Licensed!Next
<1>5. CASE FinishCall
  <2>1. call # Nobody /\ burning' = burning
    BY <1>5 DEF FinishCall, Exchange!Return, SystemTypeOK
  <2>2. Running' \notin FireOps /\ (Running \in FireOps => CurrentState' # "ARMED")
    BY <1>5, FinishIsReturn, ReturnsSpend
  <2>3. CASE Running \in FireOps
    <3>1. Licensed!Spend
      BY <2>1, <2>2, <2>3 DEF Licensed!Spend
    <3> QED BY <3>1 DEF Licensed!Next
  <2>4. CASE Running \notin FireOps
    BY <2>1, <2>2, <2>4 DEF Licensed!Arm, Licensed!Lapse, Licensed!Next
  <2> QED BY <2>3, <2>4
<1>6. CASE StartUp
  BY <1>6 DEF StartUp, AppInit, exchange, IInv, NotStarted
<1>7. CASE SystemRestart
  <2>1. Licence' = "none" /\ burning' = burning
    BY <1>7 DEF SystemRestart, Restart, Exchange!Restart, Idle, FireOps
  <2> QED
    BY <2>1 DEF Licensed!Lapse, Licensed!Spend, Licensed!Next
<1> QED BY <1>1, <1>2, <1>3, <1>4, <1>5, <1>6, <1>7 DEF SystemNext

(* The unit burns at most once for an arming, whatever queues in the pipe, *)
(* is lost on the line or restarts between a fire command and its end.     *)
THEOREM SystemImplementsLicence == SystemSpec => BurnsAreLicensed
<1>1. SystemInit => Licensed!Init
  BY SameCalls, SameFirings
  DEF SystemInit, Init, Exchange!Init, Licensed!Init, Licence, Idle, FireOps
<1>2. (TypeOK /\ IInv) /\ SystemTypeOK /\ [SystemNext]_sysvars
        => [Licensed!Next]_Licensed!vars
  BY StepLicence
<1> QED
  BY <1>1, <1>2, SystemInnerInvariant, SystemTypes, PTL
  DEF SystemSpec, BurnsAreLicensed, Licensed!Spec

-----------------------------------------------------------------------------
(* A firing nobody reports *)

(* In SAFE no message moves the state before its call. *)
LEMMA HandleKeepsSafe ==
  ASSUME NEW m, Handle(m), CurrentState = "SAFE"
  PROVE  CurrentState' = "SAFE"
<1> USE DEF machine
<1>1. CASE NoopCmd \/ ResetCounterCmd \/ Refuse \/ Ignore
  BY <1>1 DEF NoopCmd, ResetCounterCmd, Refuse, Ignore
<1>2. ASSUME NEW op, UnguardedCmd(op) PROVE CurrentState' = "SAFE"
  BY <1>2 DEF UnguardedCmd
<1>3. CASE ArmPropulsionCmd
  BY <1>1, <1>2, <1>3 DEF ArmPropulsionCmd
<1>4. ASSUME NEW op, FireCmd(op) PROVE CurrentState' = "SAFE"
  BY <1>1, <1>4 DEF FireCmd, IsArmed
<1>5. CASE WakeupHandler
  BY <1>1, <1>2, <1>5 DEF WakeupHandler
<1> QED
  BY <1>1, <1>2, <1>3, <1>4, <1>5
  DEF Handle, VerifyCmdLengthFails, InvalidCC, InvalidMID

(* A firing that failed ends in SAFE. *)
LEMMA FailedFireIsSafe ==
  ASSUME FinishCall, Running \in FireOps, ret # "OK"
  PROVE  CurrentState' = "SAFE"
<1>1. PlainReturn(FALSE) \/ ReportReturn(FALSE) \/ TimeoutStandbyReturns
  <2>1. (ret = "OK") = FALSE
    OBVIOUS
  <2> QED BY <2>1 DEF FinishCall
<1>2. \E op \in FireOps : FireReturns(op, FALSE)
  BY <1>1 DEF PlainReturn, ReportReturn, TimeoutStandbyReturns, PingReturns,
              ResetModuleReturns, SetModeReturns, ArmReturns, DisarmReturns,
              AbortReturns, RequestFaultLogReturns, ClearFaultReturns, WakeupReturns,
              RequestHKReturns, RequestStatusReturns, Returns, FireOps, SetModeOps
<1> QED BY <1>2 DEF FireReturns

(* A poll, or the end of a timeout, leaves SAFE alone. *)
LEMMA WakeupKeepsSafe ==
  ASSUME WireReturn, Running \notin GroundOps, CurrentState = "SAFE"
  PROVE  CurrentState' = "SAFE"
<1>1. \/ \E ok \in BOOLEAN : WakeupReturns(ok)
      \/ TimeoutStandbyReturns
  BY DEF WireReturn, PlainReturn, ReportReturn, PingReturns, ResetModuleReturns,
         SetModeReturns, ArmReturns, DisarmReturns, FireReturns, AbortReturns,
         RequestFaultLogReturns, ClearFaultReturns, RequestHKReturns,
         RequestStatusReturns, Returns, GroundOps, UnguardedOps, FireOps, SetModeOps
<1> QED
  BY <1>1 DEF WakeupReturns, Supervise, Supervised, TimeoutStandbyReturns, machine

LEMMA StepUnreported ==
  ASSUME IInv, UnreportedBurnStaysSafe, [SystemNext]_sysvars
  PROVE  UnreportedBurnStaysSafe'
<1> USE DEF UnreportedBurnStaysSafe
<1>1. CASE (\E m \in Traffic : Accept(m)) \/ StartCall \/ Answered \/ UNCHANGED sysvars
  BY <1>1 DEF Accept, StartCall, Answered, sysvars, vars, machine
<1>2. CASE Take
  BY <1>2, HandleKeepsSafe DEF Take
<1>3. CASE FinishCall
  <2>1. CASE Running \in FireOps
    BY <1>3, <2>1, FailedFireIsSafe DEF FinishCall
  <2>2. CASE Running \notin FireOps
    BY <1>3, <2>2, FinishIsReturn, WakeupKeepsSafe DEF FinishCall
  <2> QED BY <2>1, <2>2
<1>4. CASE BurnOver \/ SystemRestart
  BY <1>4 DEF BurnOver, SystemRestart
<1>5. CASE StartUp
  BY <1>5 DEF StartUp, AppInit, IInv, NotStarted
<1>6. CASE ClockTick \/ LoopEnds
  BY <1>6 DEF ClockTick, Tick, LoopEnds, PipeReadError, machine
<1> QED BY <1>1, <1>2, <1>3, <1>4, <1>5, <1>6 DEF SystemNext

(* A firing whose call failed keeps the application in SAFE until the      *)
(* ground acts, whatever wakeups, timers and late answers do.              *)
THEOREM LostBurnIsSafe == SystemSpec => []UnreportedBurnStaysSafe
<1>1. SystemInit => UnreportedBurnStaysSafe
  BY DEF SystemInit, UnreportedBurnStaysSafe
<1>2. (TypeOK /\ IInv) /\ UnreportedBurnStaysSafe /\ [SystemNext]_sysvars
        => UnreportedBurnStaysSafe'
  BY StepUnreported
<1> QED
  BY SystemInnerInvariant, <1>1, <1>2, PTL DEF SystemSpec
=============================================================================
