-------------------------------- MODULE MC_App --------------------------------
(* The application on a small instance, with the constants the .cfg files  *)
(* give: a two-second ARMED window and counters that wrap early.           *)
EXTENDS IG4U_App
=============================================================================
