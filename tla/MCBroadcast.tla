----------------------------- MODULE MCBroadcast -----------------------------
(* An instance of Broadcast for TLC: up to three devices.                   *)
EXTENDS Broadcast, TLC

CONSTANTS p1, p2, p3
=============================================================================
