----------------------------- MODULE MCRegistry -----------------------------
(* Instances of Registry for TLC: a fleet in which two terminals claim the   *)
(* same plate and one of them shares its phone number with a third.        *)
EXTENDS Registry, TLC

CONSTANTS c1, c2, c3, p1, p2, q1, q2

MCTerminals ==
    {[phone |-> p1, plate |-> q1], [phone |-> p2, plate |-> q1], [phone |-> p2, plate |-> q2]}

Symmetry == Permutations({c1, c2, c3})
=============================================================================
