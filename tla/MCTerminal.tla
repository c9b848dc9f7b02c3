------------------------------ MODULE MCTerminal ------------------------------
EXTENDS Terminal

CONSTANTS q1, q2, q3, i1, i2

\* Two plates that are free, and one that is taken
Generated == {[id |-> i1, plate |-> q1], [id |-> i2, plate |-> q2], [id |-> i1, plate |-> q3]}
TakenPlates == {q3}
=============================================================================
