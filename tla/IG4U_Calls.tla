------------------------------ MODULE IG4U_Calls ------------------------------
(***************************************************************************)
(* The calls of ig4u_commands.h, their return codes and what they do with  *)
(* a firing.                                                               *)
(***************************************************************************)

(* MAIN_FIRE_0 is MAIN_FIRE with duration 0, "until abort".                *)
PlainOps  == {"PING", "RESET_MODULE", "SET_MODE", "ARM", "DISARM", "CLEAR_FAULT"}
MainOps   == {"MAIN_FIRE", "MAIN_FIRE_0"}
ColdOps   == {"CG_PULSE", "CG_BURST"}
SendOnly  == {"MAIN_ABORT", "CG_ABORT"}
ReportOps == {"REQUEST_HK", "REQUEST_STATUS", "REQUEST_FAULT_LOG"}
Firings   == MainOps \cup ColdOps
Ops       == PlainOps \cup Firings \cup SendOnly \cup ReportOps

Nobody == "NOBODY"

(* "NONE" while there is none yet.  IG4U_CMD_ERR_NACK cannot happen, since *)
(* nobody asks for the default response, nor IG4U_CMD_ERR_ENCODE, since    *)
(* the buffer holds the largest telecommand.                               *)
Codes == {"NONE", "OK", "ERR_SEND", "ERR_TIMEOUT", "ERR_PARSE"}

(* The firings a telecommand stops. *)
Stopped(op) ==
  CASE op = "MAIN_ABORT" -> MainOps
    [] op = "CG_ABORT" -> ColdOps
    [] op = "RESET_MODULE" -> Firings
    [] OTHER -> {}

=============================================================================
