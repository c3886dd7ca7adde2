--------------------------- MODULE TransmitQueues ---------------------------
(***************************************************************************)
(* How the application's states and events leave a node                      *)
(* (components/hacan/protocol_node_runtime.cpp: publish_state, publish_event, *)
(* enqueue, drain_one, and the steps that fill and drain the queues around     *)
(* them), while the node is given addresses and loses them.                   *)
(*                                                                         *)
(* A publication is a number, in the order of the calls for its endpoint.  All  *)
(* STATEs are broadcast, so their destination is left out.  What the control    *)
(* and management queues hold matters only by its amount: one frame stands      *)
(* for all of it.  Nothing in the repository enqueues a diagnostic frame, a     *)
(* query or a response.  A heartbeat goes to the transmitter directly and       *)
(* touches no queue: the tick that sends one is a stutter here.                 *)
(***************************************************************************)
EXTENDS FrameQueues, FiniteSetsExt

CONSTANTS
  Endpoints,    \* the endpoints the node owns
  Addresses,    \* the addresses it may be given
  NoAddress,    \* address_ without a value
  MayRefuse,    \* whether the CAN driver may refuse a frame
  MaxStates,    \* bound: publications of a state per endpoint
  MaxEvents     \* bound: events

ASSUME TransmitAssumption ==
  /\ NoAddress \notin Addresses
  /\ MayRefuse \in BOOLEAN
  /\ MaxStates \in Nat /\ MaxEvents \in Nat

Keys == Addresses \X Endpoints

VARIABLES
  address,      \* address_
  queues,       \* the transmit queues
  published,    \* calls of publish_state per endpoint
  events,       \* calls of publish_event that returned true
  newest,       \* history: per key, the last publication that was accepted
  received      \* history: per key, the last publication that was transmitted

vars == <<address, queues, published, events, newest, received>>

-----------------------------------------------------------------------------
(* Frames                                                                    *)

State(a, p, v) == [kind |-> "state", source |-> a, endpoint |-> p, number |-> v]
Gesture(v)     == [kind |-> "event", number |-> v]
Other          == [kind |-> "other"]

States == [kind : {"state"}, source : Addresses, endpoint : Endpoints, number : Nat]
Events == [kind : {"event"}, number : Nat]
Frame  == States \cup Events \cup {Other}

Key(f) == <<f.source, f.endpoint>>

-----------------------------------------------------------------------------
(* enqueue                                                                   *)

SupersedesNone(f, g) == FALSE      \* mutant: a STATE is queued like any other frame

\* The frame f supersedes the pending frame g.
Supersedes(f, g) == f.kind = "state" /\ g.kind = "state" /\ Key(f) = Key(g)

\* Positions of the pending frames that f supersedes.
Older(q, c, f) == {i \in 1 .. Len(q[c]) : Supersedes(f, q[c][i])}

Accepts(q, c, f) == Older(q, c, f) # {} \/ Len(q[c]) < QueueSize

EnqueueKeepsOlder(q, c, f) ==      \* mutant: the pending STATE stays as it is
  IF Older(q, c, f) # {} THEN q ELSE Add(q, c, f)

\* The first pending STATE of the same source and endpoint is overwritten where it
\* stands; every other frame is appended.
Enqueue(q, c, f) ==
  IF Older(q, c, f) # {} THEN [q EXCEPT ![c][Min(Older(q, c, f))] = f]
  ELSE Add(q, c, f)

-----------------------------------------------------------------------------
Init ==
  /\ address \in Addresses \cup {NoAddress}
  /\ queues = EmptyQueues
  /\ published = [p \in Endpoints |-> 0]
  /\ events = 0
  /\ newest = [k \in Keys |-> 0]
  /\ received = [k \in Keys |-> 0]

\* publish_state; without an address the value is not sent, now or later.
PublishState(p) ==
  /\ published[p] < MaxStates
  /\ published' = [published EXCEPT ![p] = @ + 1]
  /\ \/ /\ address = NoAddress
        /\ UNCHANGED <<queues, newest>>
     \/ /\ address # NoAddress
        /\ LET f == State(address, p, published'[p]) IN
             /\ queues' = Enqueue(queues, StateQuery, f)
             /\ newest' = IF Accepts(queues, StateQuery, f)
                          THEN [newest EXCEPT ![Key(f)] = f.number] ELSE newest
  /\ UNCHANGED <<address, events, received>>

\* publish_event; without an address it returns at once.
PublishEvent ==
  /\ address # NoAddress
  /\ events < MaxEvents
  /\ LET f == Gesture(events + 1) IN
       /\ queues' = Enqueue(queues, Event, f)
       /\ events' = IF Accepts(queues, Event, f) THEN events + 1 ELSE events
  /\ UNCHANGED <<address, published, newest, received>>

\* handle, where it enqueues an ACK or an ADDRESS_CONFLICT.
HandleControl ==
  /\ address # NoAddress
  /\ queues' = Enqueue(queues, Control, Other)
  /\ UNCHANGED <<address, published, events, newest, received>>

\* handle, where it answers an ENTITY_RESOLVE.
HandleResolve ==
  /\ address # NoAddress
  /\ queues' = Enqueue(queues, Management, Other)
  /\ UNCHANGED <<address, published, events, newest, received>>

\* The classes that can be the first to succeed in drain_one.
Winners(q) ==
  IF MayRefuse \/ Waiting(q) = {} THEN Outcomes(q) ELSE {Min(Waiting(q))}

DrainUrgentLast(q) ==              \* mutant: the queues are tried from the last on
  /\ Waiting(q) # {}
  /\ LET w == Max(Waiting(q)) IN
       /\ queues' = [q EXCEPT ![w] = Tail(@)]
       /\ received' = IF w = StateQuery
                      THEN [received EXCEPT ![Key(Head(q[w]))] = Head(q[w]).number]
                      ELSE received
  /\ UNCHANGED <<address, published, events, newest>>

DrainOne(q) ==
  \E w \in Winners(q) :
    /\ queues' = Drained(q, w)
    /\ received' = IF w = StateQuery
                   THEN [received EXCEPT ![Key(Head(q[w]))] = Head(q[w]).number]
                   ELSE received
    /\ UNCHANGED <<address, published, events, newest>>

\* The ticks that enqueue one management frame and drain: a discovery request or
\* response, an address claim, an entity claim, an entity resolve.
TickManagement == DrainOne(Enqueue(queues, Management, Other))

\* The tick that only drains.
TickDrain == Waiting(queues) # {} /\ DrainOne(queues)

Tick == TickManagement \/ TickDrain

\* handle, ADDRESS_ASSIGN for this node.
Assign(a) ==
  /\ address # a
  /\ address' = a
  /\ UNCHANGED <<queues, published, events, newest, received>>

\* withdraw_address leaves the queues as they are.
Withdraw ==
  /\ address # NoAddress
  /\ address' = NoAddress
  /\ UNCHANGED <<queues, published, events, newest, received>>

Next ==
  \/ \E p \in Endpoints : PublishState(p)
  \/ PublishEvent \/ HandleControl \/ HandleResolve
  \/ Tick
  \/ \E a \in Addresses : Assign(a)
  \/ Withdraw

Spec == Init /\ [][Next]_vars

(* The main loop ticks for ever; every tick but the heartbeat's, one in 30 s,   *)
(* drains.                                                                     *)
FairSpec == Spec /\ WF_vars(Tick)

-----------------------------------------------------------------------------
TypeOK ==
  /\ address \in Addresses \cup {NoAddress}
  /\ queues \in [Classes -> Seq(Frame)]
  /\ \A c \in Classes : Len(queues[c]) <= QueueSize
  /\ published \in [Endpoints -> Nat]
  /\ events \in Nat
  /\ newest \in [Keys -> Nat]
  /\ received \in [Keys -> Nat]

Pending == {queues[StateQuery][i] : i \in 1 .. Len(queues[StateQuery])}

(* Two pending STATEs never concern the same endpoint of the same source, so    *)
(* the one that enqueue overwrites is the only one.                            *)
OneStatePerEndpoint ==
  \A i, j \in 1 .. Len(queues[StateQuery]) :
    i # j => Key(queues[StateQuery][i]) # Key(queues[StateQuery][j])

(* The events that wait are the last ones accepted, in the order of the calls:   *)
(* whatever happens in the other queues, none is skipped, merged or overtaken.  *)
EventsIntact ==
  LET waiting == queues[Event] IN
    \A i \in 1 .. Len(waiting) : waiting[i] = Gesture(events - Len(waiting) + i)

(* For each address and endpoint the queues are a register: a transmitted STATE  *)
(* is the newest one accepted, so a listener never sees values go back.          *)
R == INSTANCE StateRegisters WITH waiting <- {Key(f) : f \in Pending}
Registers == R!Spec

\* The next tick sends a frame of a class that goes before the states.
Urgent == queues[Control] # << >> \/ queues[Event] # << >>

\* Ticks that send urgent frames do not, from some moment on, come without a break.
UrgencyPauses == []<><<Tick /\ Urgent>>_vars => []<><<Tick /\ ~Urgent>>_vars

(* A state that waits, or a newer one of its endpoint, is transmitted in the end,  *)
(* unless the node loses the address, the driver refuses frames, or each and every *)
(* tick from some moment on has an urgent frame to send (drain_one).  Management  *)
(* frames without end, urgent frames with gaps however rare, and publications      *)
(* that keep replacing it in the queue (enqueue) do not hold it up.                *)
StatesArrive ==
  UrgencyPauses =>
    \A k \in Keys : \A v \in 1 .. MaxStates :
      (\E f \in Pending : Key(f) = k /\ f.number = v)
        ~> (received[k] >= v \/ address # k[1])
=============================================================================
