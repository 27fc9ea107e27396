-------------------------------- MODULE MC_Wire -------------------------------
(* The exchanges on a small instance, with the constants the .cfg files    *)
(* give: a fault log of one or two entries of which a payload holds one, a *)
(* unit that announces one more than there is room for, and two or three   *)
(* unread frames.                                                          *)
EXTENDS IG4U_Wire
=============================================================================
