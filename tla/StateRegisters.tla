--------------------------- MODULE StateRegisters ---------------------------
(***************************************************************************)
(* What the transmit queues of a node promise about STATE messages: for every *)
(* address the node used and every endpoint (a key) they behave like a         *)
(* register.  A publication overwrites the value that waits; a transmission    *)
(* takes the newest value and never an older one; a value may be lost.         *)
(***************************************************************************)
EXTENDS Naturals

CONSTANT Keys

VARIABLES
  newest,       \* number of the newest publication that was accepted
  waiting,      \* keys whose newest publication waits
  received      \* number of the last publication transmitted

vars == <<newest, waiting, received>>

Init ==
  /\ newest = [k \in Keys |-> 0]
  /\ waiting = {}
  /\ received = [k \in Keys |-> 0]

Publish(k) ==
  /\ newest[k] < newest'[k]
  /\ newest' = [newest EXCEPT ![k] = newest'[k]]
  /\ waiting' = waiting \cup {k}
  /\ UNCHANGED received

Send(k) ==
  /\ k \in waiting
  /\ waiting' = waiting \ {k}
  /\ received' = [received EXCEPT ![k] = newest[k]]
  /\ UNCHANGED newest

Lose(k) ==
  /\ k \in waiting
  /\ waiting' = waiting \ {k}
  /\ UNCHANGED <<newest, received>>

Next == \E k \in Keys : Publish(k) \/ Send(k) \/ Lose(k)

Spec == Init /\ [][Next]_vars
=============================================================================
