---------------------------- MODULE IG4U_Interlock ----------------------------
(***************************************************************************)
(* What the application promises about firing (ICD section 5.1 as the      *)
(* state list of ig4u_internal_cfg.h gives it): a thruster fires only out  *)
(* of an armed state, and what ends a firing also ends the arming, so two  *)
(* firings always have an arming between them.                             *)
(***************************************************************************)

VARIABLE phase   \* "closed", "open" (armed) or "firing"

Init == phase = "closed"

(* Armed, by a command or by the unit's own report. *)
Grant == phase = "closed" /\ phase' = "open"

(* Disarmed, timed out, made safe, aborted, restarted. *)
Revoke == phase = "open" /\ phase' = "closed"

(* A fire command is on its way to the unit. *)
Fire == phase = "open" /\ phase' = "firing"

(* The firing ended, well or badly. *)
Settle == phase = "firing" /\ phase' = "closed"

Next == Grant \/ Revoke \/ Fire \/ Settle

Spec == Init /\ [][Next]_phase
=============================================================================
