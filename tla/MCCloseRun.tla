----------------------------- MODULE MCCloseRun -----------------------------
(* The instances of CloseRun that TLC checks. *)
EXTENDS CloseRun

CONSTANTS p1, p2
=============================================================================
