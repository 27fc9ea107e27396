------------------------------ MODULE IG4U_System -----------------------------
(***************************************************************************)
(* The application with its message pipe in front and the wire commands    *)
(* behind: IG4U_App takes its messages from a pipe of PIPE_DEPTH, its      *)
(* handlers wait for the calls of IG4U_Exchange, and the unit's firing     *)
(* goes on whatever the application believes.                              *)
(*                                                                         *)
(* A message is named after the action that handles it.  "BAD_COMMAND" is  *)
(* a command of wrong length or unknown code, "BAD_MID" another message.   *)
(***************************************************************************)
EXTENDS IG4U_App, IG4U_Calls, Sequences

CONSTANTS
  PIPE_DEPTH,  \* IG4U_PIPE_DEPTH, 8 in the code
  Traffic      \* bound on the messages: the ground may send all of them

Inputs ==
  GroundOps \cup {"WAKEUP", "NOOP", "RESET_COUNTERS", "BAD_COMMAND", "BAD_MID"}

ASSUME SystemAssumption ==
  /\ PIPE_DEPTH \in Nat \ {0}
  /\ Traffic \subseteq Inputs

VARIABLES
  pipe,        \* CmdPipe, the oldest message first
  call, ret, burning,
  unreported   \* history: a firing goes on after its call failed, and the
               \* ground has done nothing about it

exchange == <<call, ret, burning>>
sysvars  == <<vars, pipe, exchange, unreported>>

Exchange == INSTANCE IG4U_Exchange

SystemInit == Init /\ pipe = <<>> /\ Exchange!Init /\ unreported = FALSE

-----------------------------------------------------------------------------
(* The pipe *)

(* A message finds room in the pipe; otherwise it is lost. *)
Accept(m) ==
  /\ RunStatus = "RUN"
  /\ Len(pipe) < PIPE_DEPTH
  /\ pipe' = Append(pipe, m)
  /\ UNCHANGED <<vars, exchange, unreported>>

Handle(m) ==
  \/ m = "WAKEUP" /\ WakeupHandler
  \/ m = "NOOP" /\ NoopCmd
  \/ m = "RESET_COUNTERS" /\ ResetCounterCmd
  \/ m = "BAD_COMMAND" /\ (VerifyCmdLengthFails \/ InvalidCC)
  \/ m = "BAD_MID" /\ InvalidMID
  \/ m = "ARM" /\ ArmPropulsionCmd
  \/ m \in FireOps /\ FireCmd(m)
  \/ m \in UnguardedOps /\ UnguardedCmd(m)

(* The main loop takes the oldest message and runs its handler up to the   *)
(* wire call, or to its end.                                               *)
Take ==
  /\ pipe # <<>>
  /\ Handle(Head(pipe))
  /\ pipe' = Tail(pipe)
  /\ UNCHANGED <<exchange, unreported>>

-----------------------------------------------------------------------------
(* The calls *)

(* The call a handler is blocked in. *)
CallsOf(op) ==
  CASE op \in SetModeOps \cup {"TIMEOUT_STANDBY"} -> {"SET_MODE"}
    [] op = "WAKEUP" -> {"REQUEST_HK"}
    [] op = "MAIN_FIRE" -> MainOps
    [] op = Idle -> {}
    [] OTHER -> {op}

StartCall ==
  /\ \E op \in CallsOf(Running) : Exchange!Send(op)
  /\ UNCHANGED <<vars, pipe, unreported>>

Answered == Exchange!Answer /\ UNCHANGED <<vars, pipe, unreported>>

BurnOver ==
  /\ Exchange!BurnEnds
  /\ unreported' = FALSE
  /\ UNCHANGED <<vars, pipe>>

(* The call returns to its handler.  Every ground command that ends is the *)
(* ground's doing, except a firing that failed and goes on.                *)
FinishCall ==
  /\ Exchange!Return
  /\ \/ PlainReturn(ret = "OK")
     \/ ReportReturn(ret = "OK")
     \/ TimeoutStandbyReturns
  /\ unreported' = IF Running \in FireOps
                     THEN ret # "OK" /\ burning # Nobody
                     ELSE unreported /\ Running \notin GroundOps
  /\ UNCHANGED pipe

-----------------------------------------------------------------------------
(* Start, clock, failure *)

StartUp ==
  /\ \E ok \in BOOLEAN : AppInit(ok)
  /\ UNCHANGED <<pipe, exchange, unreported>>

ClockTick == Tick /\ UNCHANGED <<pipe, exchange, unreported>>

(* The loop ends, the pipe with it. *)
LoopEnds ==
  /\ PipeReadError
  /\ pipe' = <<>>
  /\ UNCHANGED <<exchange, unreported>>

SystemRestart ==
  /\ Restart
  /\ Exchange!Restart
  /\ pipe' = <<>>
  /\ unreported' = FALSE

SystemNext ==
  \/ \E m \in Traffic : Accept(m)
  \/ Take
  \/ StartCall
  \/ Answered
  \/ FinishCall
  \/ BurnOver
  \/ StartUp
  \/ ClockTick
  \/ LoopEnds
  \/ SystemRestart

SystemSpec == SystemInit /\ [][SystemNext]_sysvars

(* The task runs, every receive returns, the clock runs, and the scheduler *)
(* goes on sending wakeups of which not every one meets a full pipe.       *)
SystemFairSpec ==
  /\ SystemSpec
  /\ WF_sysvars(Take)
  /\ WF_sysvars(StartCall)
  /\ WF_sysvars(Answered)
  /\ WF_sysvars(FinishCall)
  /\ WF_sysvars(ClockTick)
  /\ SF_sysvars(Accept("WAKEUP"))

-----------------------------------------------------------------------------
(* Properties *)

(* A call belongs to the handler that is blocked in it, and to nobody when *)
(* none is, whatever restarts in between (IG4U_Main, ig4u_task.c 36-55).   *)
SystemTypeOK ==
  /\ pipe \in Seq(Inputs)
  /\ Len(pipe) <= PIPE_DEPTH
  /\ ret \in Codes
  /\ burning \in Firings \cup {Nobody}
  /\ unreported \in BOOLEAN
  /\ call # Nobody => call \in CallsOf(Running)
  /\ call = Nobody => ret = "NONE"

(* A firing whose call failed while it goes on leaves the application in   *)
(* SAFE until the ground acts, the firing ends or the processor restarts:  *)
(* no poll, late answer or ARMED timer left running returns it to STANDBY  *)
(* under the flame (ig4u_cmds.c 348-355, 424-431, 466-473, 605).           *)
UnreportedBurnStaysSafe == unreported => CurrentState = "SAFE"

(* The unit burns once at most for an arming, and never without one: the   *)
(* system implements IG4U_Licence.  A fire handler that has passed its     *)
(* interlock (ig4u_cmds.c 314, 391, 435) claims the licence, its           *)
(* telecommand uses it, and however its call ends (333-355, 409-426,       *)
(* 456-473) it does not come back.                                         *)
Licence ==
  IF Running \in FireOps THEN (IF call = Nobody THEN "claimed" ELSE "used")
  ELSE IF CurrentState = "ARMED" THEN "armed" ELSE "none"

Licensed == INSTANCE IG4U_Licence WITH licence <- Licence
BurnsAreLicensed == Licensed!Spec

(* An abort that found room in the pipe is carried out, behind however     *)
(* many blocking handlers, unless the loop ends before (ig4u_task.c 36-47, *)
(* ig4u_dispatch.c 111-114).                                               *)
AbortWaits == \E i \in DOMAIN pipe : pipe[i] = "MAIN_ABORT"

AbortIsServed ==
  AbortWaits ~> (Running = "MAIN_ABORT" \/ RunStatus # "RUN")

-----------------------------------------------------------------------------
(* Statements of the comments that the code does not keep *)

(* ig4u_internal_cfg.h 37: in STANDBY no thruster is driven, so no firing  *)
(* "until abort" (duration 0) goes on there.                               *)
StandbyDoesNotFire == CurrentState = "STANDBY" => burning # "MAIN_FIRE_0"
=============================================================================
