----------------------------- MODULE IG4U_Exchange ----------------------------
(***************************************************************************)
(* What the wire commands promise their caller, whatever the line does:    *)
(* one call at a time, which sends its telecommand once and then returns   *)
(* a code; a firing begins only with the telecommand that asks for it, and *)
(* an abort does not wait.  The return code promises nothing about the     *)
(* unit: every code may come with and without the telecommand having been  *)
(* carried out.                                                            *)
(***************************************************************************)
EXTENDS IG4U_Calls

VARIABLES
  call,      \* the call under way, or Nobody
  ret,       \* what it returns, "NONE" before that
  burning    \* the firing under way in the unit, or Nobody

vars == <<call, ret, burning>>

Init == call = Nobody /\ ret = "NONE" /\ burning = Nobody

(* The telecommand is sent, and carried out or not. *)
Send(op) ==
  /\ call = Nobody
  /\ call' = op
  /\ ret' \in {"ERR_SEND", IF op \in SendOnly THEN "OK" ELSE "NONE"}
  /\ \/ UNCHANGED burning
     \/ op \in Firings /\ burning = Nobody /\ burning' = op
     \/ burning \in Stopped(op) /\ burning' = Nobody

(* The reply is there, or will not come. *)
Answer ==
  /\ call # Nobody /\ ret = "NONE"
  /\ ret' \in {"OK", "ERR_TIMEOUT", "ERR_PARSE"}
  /\ UNCHANGED <<call, burning>>

Return ==
  /\ ret # "NONE"
  /\ call' = Nobody /\ ret' = "NONE"
  /\ UNCHANGED burning

BurnEnds == burning # Nobody /\ burning' = Nobody /\ UNCHANGED <<call, ret>>

Restart == call' = Nobody /\ ret' = "NONE" /\ UNCHANGED burning

Next ==
  \/ \E op \in Ops : Send(op)
  \/ Answer
  \/ Return
  \/ BurnEnds
  \/ Restart

Spec == Init /\ [][Next]_vars
=============================================================================
