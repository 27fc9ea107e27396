------------------------------- MODULE MC_System ------------------------------
(* The composed system on a small instance: a pipe of two messages, and of *)
(* the ground's commands those of a firing, what can go wrong with it, and *)
(* the PING that takes the link down.                                      *)
EXTENDS IG4U_System
=============================================================================
