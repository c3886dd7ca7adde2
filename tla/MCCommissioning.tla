--------------------------- MODULE MCCommissioning ---------------------------
(* Small installations for TLC: two or three nodes with UIDs 1, 2 and 3.     *)
EXTENDS Commissioning

TwoNodes   == {1, 2}
AllNodes   == {1, 2, 3}
LowPrimary == {1}
Peers      == {2, 3}

\* What the flashes hold when the installation starts.
EmptyFlash == {[n \in AllNodes |-> 0]}
TwoAny     == [TwoNodes -> 0..2]
Clashing   == [AllNodes -> 1..2]
=============================================================================
