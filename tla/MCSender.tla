------------------------------ MODULE MCSender ------------------------------
(* Instances of Sender for TLC: two devices; two queued messages and one of  *)
(* the synchronous Send with the same id for one of them, one for the other. *)
EXTENDS Sender, TLC

CONSTANTS p1, p2, r1, r2, r3, d1, s1, s2, s3

MCPhoneOf == [r \in Reqs |-> IF r = r3 THEN p2 ELSE p1]
MCMsgIdOf == [r \in Reqs |-> "0x8103"]
=============================================================================
