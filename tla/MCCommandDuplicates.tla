------------------------- MODULE MCCommandDuplicates -------------------------
(* Three keys, one of an endpoint without a handler, and a cache of three.    *)
EXTENDS CommandDuplicates, TLC

CONSTANTS c1, c2, c3

ThreeKeys  == {c1, c2, c3}
TwoHandled == {c1, c2}
TwoAnswers == {"accepted", "invalid_value"}
Symmetry   == Permutations(TwoHandled)   \* the two handled keys are alike
=============================================================================
