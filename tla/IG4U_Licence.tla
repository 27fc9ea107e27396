----------------------------- MODULE IG4U_Licence -----------------------------
(***************************************************************************)
(* What the application and its wire commands promise together about the   *)
(* unit: arming gives a licence for one burn.  It lapses with the armed    *)
(* state, is claimed by a fire command and used up when that command's     *)
(* telecommand goes out, and whatever is lost, late, refused or restarted  *)
(* on the way, another burn needs another arming.                          *)
(***************************************************************************)
EXTENDS IG4U_Calls

VARIABLES
  licence,   \* "none", "armed", "claimed" or "used"
  burning    \* the firing under way in the unit, or Nobody

vars == <<licence, burning>>

Init == licence = "none" /\ burning = Nobody

Arm   == licence = "none" /\ licence' = "armed" /\ UNCHANGED burning
Lapse == licence = "armed" /\ licence' = "none" /\ UNCHANGED burning
Claim == licence = "armed" /\ licence' = "claimed" /\ UNCHANGED burning

(* The telecommand goes out; the unit begins to burn or does not. *)
Use ==
  /\ licence = "claimed" /\ licence' = "used"
  /\ \/ UNCHANGED burning
     \/ burning = Nobody /\ burning' \in Firings

(* The fire command ends, or a restart ends it: the licence is gone. *)
Spend == licence \in {"claimed", "used"} /\ licence' = "none" /\ UNCHANGED burning

(* The burn ends or is stopped. *)
Stop == burning # Nobody /\ burning' = Nobody /\ UNCHANGED licence

Next == Arm \/ Lapse \/ Claim \/ Use \/ Spend \/ Stop

Spec == Init /\ [][Next]_vars
=============================================================================
