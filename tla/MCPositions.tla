----------------------------- MODULE MCPositions -----------------------------
EXTENDS Positions, TLC

\* A southern position, with bits from both ends of the status word
SomeMetas == {{"LatitudeType", "ACCStatus", "Loaded", "DrivingStatus"}}

Symmetric == Permutations(Handlers) \cup Permutations(Rings)
=============================================================================
