----------------------------- MODULE FrameQueues -----------------------------
(***************************************************************************)
(* The bounded transmit queues of a NodeRuntime                            *)
(* (components/hacan/protocol_node_runtime.cpp, enqueue and drain_one).     *)
(*                                                                         *)
(* A runtime keeps one array of QueueSize raw frames per traffic class, in  *)
(* arrival order, and a counter per array.  Here the queues of one node are *)
(* one function from the traffic classes to sequences of frames.  A class   *)
(* is its Priority value: the smaller number is the more urgent one.        *)
(***************************************************************************)
EXTENDS Integers, Sequences

CONSTANT QueueSize            \* 8 in the code

ASSUME QueueSizeAssumption == QueueSize \in Nat \ {0}

Control    == 1
Event      == 2
StateQuery == 3
Management == 4
Diagnostic == 5
Classes    == Control .. Diagnostic

\* "No class": the drain in which no transmission succeeded.
NoClass == Diagnostic + 1

EmptyQueues == [c \in Classes |-> << >>]

AddOneMore(q, c, f) ==             \* mutant: count <= queue.size()
  IF Len(q[c]) > QueueSize THEN q ELSE [q EXCEPT ![c] = Append(@, f)]

AddDropsOldest(q, c, f) ==         \* mutant: a full queue evicts its head
  IF Len(q[c]) = QueueSize THEN [q EXCEPT ![c] = Append(Tail(@), f)]
  ELSE [q EXCEPT ![c] = Append(@, f)]

\* The lambda `add` of enqueue: a full queue drops the new frame.
Add(q, c, f) ==
  IF Len(q[c]) = QueueSize THEN q ELSE [q EXCEPT ![c] = Append(@, f)]

Waiting(q) == {c \in Classes : q[c] # << >>}

(***************************************************************************)
(* drain_one tries the non-empty queues in priority order.  The lambda      *)
(* removes the head BEFORE it calls transmit, and a refused transmit goes   *)
(* on with the next queue: every class tried before the first success loses *)
(* its head.  Outcomes(q) are the classes that can be the first to succeed, *)
(* or NoClass when every attempt is refused (or nothing waits).             *)
(***************************************************************************)
Outcomes(q) == Waiting(q) \cup {NoClass}

Refused(q, w) == {c \in Waiting(q) : c < w}

Drained(q, w) ==
  [c \in Classes |-> IF c \in Waiting(q) /\ c <= w THEN Tail(q[c]) ELSE q[c]]
=============================================================================
