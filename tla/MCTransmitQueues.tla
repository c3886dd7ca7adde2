-------------------------- MODULE MCTransmitQueues --------------------------
(* A node with two endpoints that may move between two addresses.             *)
EXTENDS TransmitQueues, TLC

CONSTANTS home, away

TwoAddresses == {home, away}
TwoEndpoints == {1, 2}
OneEndpoint  == {1}

Symmetry == Permutations(TwoAddresses)
=============================================================================
