------------------------- MODULE CommissioningProofs -------------------------
(***************************************************************************)
(* The addresses of the nodes, for every number of nodes, addresses, losses   *)
(* and restarts: type correctness, addresses that are in the flash before      *)
(* they are used, unique addresses of a fresh installation with one primary    *)
(* that is never power cycled, whom a node gives its address up for, and       *)
(* why a conflict is settled once all claims are handled.                      *)
(***************************************************************************)
EXTENDS Commissioning, DataLemmas

(* The lambda `add` of enqueue returns queues of frames, and no queue exceeds *)
(* its array.                                                                 *)
LEMMA AddPreserves ==
  ASSUME NEW F, NEW q \in [Classes -> Seq(F)], NEW c \in Classes, NEW f \in F
  PROVE  /\ Add(q, c, f) \in [Classes -> Seq(F)]
         /\ (\A d \in Classes : Len(q[d]) <= QueueSize)
              => \A d \in Classes : Len(Add(q, c, f)[d]) <= QueueSize
<1>1. Append(q[c], f) \in Seq(F) /\ Len(Append(q[c], f)) = Len(q[c]) + 1
  BY AppendProperties
<1>2. Len(q[c]) \in Nat
  BY LenProperties
<1> QED BY <1>1, <1>2, QueueSizeAssumption DEF Add

(* drain_one leaves queues of frames behind, none longer than before.         *)
LEMMA DrainPreserves ==
  ASSUME NEW F, NEW q \in [Classes -> Seq(F)], NEW w \in Outcomes(q)
  PROVE  /\ Drained(q, w) \in [Classes -> Seq(F)]
         /\ \A d \in Classes : Len(Drained(q, w)[d]) <= Len(q[d])
         /\ w # NoClass => Head(q[w]) \in F
<1>1. ASSUME NEW d \in Waiting(q)
      PROVE  /\ Head(q[d]) \in F
             /\ Tail(q[d]) \in Seq(F)
             /\ Len(Tail(q[d])) = Len(q[d]) - 1
  <2>1. q[d] \in Seq(F) /\ q[d] # << >>
    BY DEF Waiting
  <2> QED BY <2>1, HeadTailProperties
<1>2. \A d \in Classes : Len(q[d]) \in Nat
  BY LenProperties
<1>3. Waiting(q) \subseteq Classes
  BY DEF Waiting
<1> QED BY <1>1, <1>2, <1>3 DEF Drained, Outcomes

(* next_free_address returns a free address.                                  *)
LEMMA LowestFreeIsFree ==
  ASSUME NEW n, Free(n) # {}
  PROVE  LowestFree(n) \in Free(n)
<1>1. Free(n) \subseteq Nat
  BY CommissioningAssumption DEF Free, Addresses
<1> QED BY <1>1, MinIsLeast DEF LowestFree

Inboxes == [Nodes -> Seq(Frame)]
Queues  == [Classes -> Seq(QueuedFrame)]

(* Putting a frame on the bus keeps the receive buffers well typed.           *)
LEMMA OnBusType ==
  ASSUME NEW box \in Inboxes, NEW n, NEW f \in Frame
  PROVE  OnBus(box, n, f) \in Inboxes
<1>1. \A m \in Nodes : Append(box[m], f) \in Seq(Frame)
  BY AppendProperties DEF Inboxes
<1> QED BY <1>1 DEF OnBus, Inboxes

(* Handling the oldest frame takes a frame and keeps the buffers well typed.  *)
LEMMA ConsumedType ==
  ASSUME TypeOK, NEW n \in Nodes, inbox[n] # << >>
  PROVE  /\ Consumed(n) \in Inboxes
         /\ Head(inbox[n]) \in Frame
<1>1. inbox \in Inboxes /\ inbox[n] \in Seq(Frame)
  BY DEF TypeOK, Inboxes
<1>2. Head(inbox[n]) \in Frame /\ Tail(inbox[n]) \in Seq(Frame)
  BY <1>1, HeadTailProperties
<1> QED BY <1>1, <1>2 DEF Consumed, Inboxes

(* The frames the runtime builds are frames of the wire.                      *)
LEMMA FrameTypes ==
  ASSUME NEW n \in Nodes, NEW a \in Addresses, NEW b \in Addresses,
         NEW s \in {Unassigned} \cup Addresses, NEW r \in {Unassigned} \cup Addresses
  PROVE  /\ DiscoveryRequest(n) \in QueuedFrame
         /\ DiscoveryResponse(n, s, r) \in QueuedFrame
         /\ AddressClaim(n, a) \in QueuedFrame
         /\ AddressConflict(a, n) \in QueuedFrame
         /\ AddressAssign(a, n, b) \in Frame
<1>1. Unassigned \notin Addresses
  BY CommissioningAssumption DEF Unassigned, Addresses
<1> QED BY <1>1 DEF QueuedFrame, Frame, DiscoveryRequest, DiscoveryResponse,
          AddressClaim, AddressConflict, AddressAssign

(* Enqueueing keeps the queues well typed.                                    *)
LEMMA EnqueueType ==
  ASSUME NEW q \in Queues, NEW f \in QueuedFrame
  PROVE  Enqueue(q, f) \in Queues
<1>1. ClassOf(f) \in Classes
  BY DEF ClassOf, Classes, Control, Management, Diagnostic
<1> QED BY <1>1, AddPreserves DEF Enqueue, Queues

(* What a drain changes.                                                      *)
LEMMA DrainOneType ==
  ASSUME TypeOK, NEW n \in Nodes, NEW q \in Queues, DrainOne(n, q)
  PROVE  /\ queues' \in [Nodes -> Queues]
         /\ inbox' \in Inboxes
         /\ losses' \in Nat
         /\ inbox' = inbox \/ \E f \in QueuedFrame : inbox' = OnBus(inbox, n, f)
<1>1. PICK w \in Outcomes(q) :
        /\ queues' = [queues EXCEPT ![n] = Drained(q, w)]
        /\ inbox' = IF w = NoClass THEN inbox ELSE OnBus(inbox, n, Head(q[w]))
        /\ losses' = losses \/ losses' = losses + 1
  BY DEF DrainOne
<1>2. Drained(q, w) \in Queues /\ (w # NoClass => Head(q[w]) \in QueuedFrame)
  BY DrainPreserves DEF Queues
<1>3. QueuedFrame \subseteq Frame
  BY DEF QueuedFrame
<1>4. inbox \in Inboxes /\ queues \in [Nodes -> Queues] /\ losses \in Nat
  BY DEF TypeOK, Inboxes, Queues
<1> QED BY <1>1, <1>2, <1>3, <1>4, OnBusType

-----------------------------------------------------------------------------
(* Every runtime starts well typed.                                           *)
LEMMA InitType == Init => TypeOK
<1> SUFFICES ASSUME Init PROVE TypeOK
  OBVIOUS
<1>1. PICK flash \in InitialStores, saved \in BOOLEAN :
        stored = [n \in Nodes |-> BootAddress(n, flash[n], saved)]
  BY DEF Init
<1>2. stored \in Stores
  BY <1>1, CommissioningAssumption
  DEF BootAddress, Bootstrap, Addresses, Stores
<1>3. allocated \in [Primaries -> SUBSET Addresses]
  BY <1>2, CommissioningAssumption DEF Init, Known, Stores
<1>4. \A n \in Nodes : EmptyQueues \in Queues /\ << >> \in Seq(Frame)
  BY DEF EmptyQueues, Queues
<1> QED BY <1>2, <1>3, <1>4 DEF Init, TypeOK, Queues

(* Every step keeps the variables well typed.                                 *)
LEMMA NextType == TypeOK /\ [Next]_vars => TypeOK'
<1> SUFFICES ASSUME TypeOK, [Next]_vars PROVE TypeOK'
  OBVIOUS
<1> USE CommissioningAssumption
<1>0. Unassigned \notin Addresses /\ Unassigned \in Nat
  BY DEF Unassigned, Addresses
<1>i. inbox \in Inboxes /\ queues \in [Nodes -> Queues]
  BY DEF TypeOK, Inboxes, Queues
<1>1. ASSUME NEW n \in Nodes, TickResponse(n) PROVE TypeOK'
  <2>1. DiscoveryResponse(n, address[n], pending[n]) \in QueuedFrame
    BY <1>1, FrameTypes DEF TickResponse, TypeOK, Stores, Addresses
  <2>2. Enqueue(queues[n], DiscoveryResponse(n, address[n], pending[n])) \in Queues
    BY <2>1, <1>i, EnqueueType
  <2>3. queues' \in [Nodes -> Queues] /\ inbox' \in Inboxes /\ losses' \in Nat
    BY <1>1, <2>2, DrainOneType DEF TickResponse
  <2> QED BY <1>1, <2>3
      DEF TickResponse, TypeOK, Queues, Inboxes, memory, claims
<1>2. ASSUME NEW n \in Nodes, TickDiscovery(n) PROVE TypeOK'
  <2>1. DiscoveryRequest(n) \in QueuedFrame
    BY FrameTypes DEF Addresses
  <2>2. Enqueue(queues[n], DiscoveryRequest(n)) \in Queues
    BY <2>1, <1>i, EnqueueType
  <2>3. queues' \in [Nodes -> Queues] /\ inbox' \in Inboxes /\ losses' \in Nat
    BY <1>2, <2>2, DrainOneType DEF TickDiscovery
  <2> QED BY <1>2, <2>3
      DEF TickDiscovery, TypeOK, Queues, Inboxes, memory, claims
<1>3. ASSUME NEW n \in Nodes, TickClaim(n) PROVE TypeOK'
  <2>1. AddressClaim(n, address[n]) \in QueuedFrame
    BY <1>3, FrameTypes DEF TickClaim, TypeOK, Stores
  <2>2. Enqueue(queues[n], AddressClaim(n, address[n])) \in Queues
    BY <2>1, <1>i, EnqueueType
  <2>3. queues' \in [Nodes -> Queues] /\ inbox' \in Inboxes /\ losses' \in Nat
    BY <1>3, <2>2, DrainOneType DEF TickClaim
  <2>4. claims_sent' \in [Nodes -> 0..2]
    BY <1>3 DEF TickClaim, TypeOK
  <2> QED BY <1>3, <2>3, <2>4
      DEF TickClaim, TypeOK, Queues, Inboxes, memory
<1>4. ASSUME NEW n \in Nodes, TickDrain(n) PROVE TypeOK'
  <2>1. queues' \in [Nodes -> Queues] /\ inbox' \in Inboxes /\ losses' \in Nat
    BY <1>4, <1>i, DrainOneType DEF TickDrain
  <2> QED BY <1>4, <2>1
      DEF TickDrain, TypeOK, Queues, Inboxes, memory, claims
<1>5. ASSUME NEW n \in Nodes, BackoffElapses(n) PROVE TypeOK'
  BY <1>5 DEF BackoffElapses, TypeOK, memory, claims, bounds
<1>6. ASSUME NEW n \in Nodes, ClaimDelayElapses(n) PROVE TypeOK'
  BY <1>6 DEF ClaimDelayElapses, TypeOK, memory, bounds
<1>7. ASSUME NEW n \in Nodes, HandleClaim(n) PROVE TypeOK'
  <2> DEFINE f == Head(inbox[n])
  <2>1. Consumed(n) \in Inboxes /\ f \in Frame
    BY <1>7, ConsumedType DEF HandleClaim, Receives
  <2>2. f.src \in Addresses
    BY <1>7, <2>1 DEF HandleClaim, Receives, Frame
  <2>3. allocated' \in [Primaries -> SUBSET Addresses]
    BY <1>7, <2>2 DEF HandleClaim, TypeOK
  <2>4. CASE f.src = address[n] /\ f.uid # n /\ OwnUidWins(n, f.uid)
    <3>1. Enqueue(queues[n], AddressConflict(address[n], n)) \in Queues
      BY <2>2, <2>4, <1>i, FrameTypes, EnqueueType
    <3>2. /\ queues' = [queues EXCEPT ![n] = Enqueue(@, AddressConflict(address[n], n))]
          /\ UNCHANGED <<address, claims>>
      BY <1>7, <2>4 DEF HandleClaim
    <3> QED BY <1>7, <2>1, <2>3, <3>1, <3>2
        DEF HandleClaim, TypeOK, Queues, Inboxes, claims, bounds
  <2>5. CASE f.src = address[n] /\ f.uid # n /\ ~OwnUidWins(n, f.uid)
    <3>1. Withdraw(n) /\ UNCHANGED queues
      BY <1>7, <2>5 DEF HandleClaim
    <3>2. address' \in Stores /\ claims_sent' \in [Nodes -> 0..2] /\ claimDelay' \in [Nodes -> BOOLEAN]
      BY <3>1 DEF Withdraw, TypeOK, Stores
    <3>3. inbox' = Consumed(n) /\ UNCHANGED <<stored, pending, backoff, losses, restarts, saveFailures>>
      BY <1>7 DEF HandleClaim, bounds
    <3> QED BY <2>1, <2>3, <3>1, <3>2, <3>3 DEF TypeOK, Inboxes
  <2>6. CASE f.src # address[n] \/ f.uid = n
    BY <1>7, <2>1, <2>3, <2>6 DEF HandleClaim, TypeOK, Inboxes, claims, bounds
  <2> QED BY <2>4, <2>5, <2>6
<1>8. ASSUME NEW n \in Nodes, HandleRequest(n) PROVE TypeOK'
  <2>1. Consumed(n) \in Inboxes /\ Head(inbox[n]) \in Frame
    BY <1>8, ConsumedType DEF HandleRequest, Receives
  <2>2. Head(inbox[n]).src \in {Unassigned} \cup Addresses
    BY <2>1 DEF Frame
  <2> QED BY <1>8, <2>1, <2>2
      DEF HandleRequest, TypeOK, Inboxes, memory, claims, bounds
<1>9. ASSUME NEW n \in Nodes, HandleConflict(n) PROVE TypeOK'
  <2>1. Consumed(n) \in Inboxes
    BY <1>9, ConsumedType DEF HandleConflict, Receives
  <2>2. Withdraw(n) \/ UNCHANGED <<address, claims>>
    BY <1>9 DEF HandleConflict
  <2>3. CASE Withdraw(n)
    BY <1>9, <2>1, <2>3
    DEF HandleConflict, Withdraw, TypeOK, Stores, Inboxes, memory, bounds
  <2>4. CASE UNCHANGED <<address, claims>>
    BY <1>9, <2>1, <2>4 DEF HandleConflict, TypeOK, Inboxes, memory, claims, bounds
  <2> QED BY <2>2, <2>3, <2>4
<1>10. ASSUME NEW n \in Nodes, HandleAssign(n) PROVE TypeOK'
  <2> DEFINE a == Head(inbox[n]).addr
  <2>1. Consumed(n) \in Inboxes /\ Head(inbox[n]) \in Frame
    BY <1>10, ConsumedType DEF HandleAssign, Receives
  <2>2. a \in Addresses
    BY <1>10, <2>1 DEF HandleAssign, Receives, Frame
  <2>3. PICK saved \in BOOLEAN :
          /\ saveFailures' = IF saved THEN saveFailures ELSE saveFailures + 1
          /\ stored' = IF saved THEN [stored EXCEPT ![n] = a] ELSE stored
          /\ AdoptIfSaved(n, a, saved)
    BY <1>10 DEF HandleAssign
  <2> HIDE DEF a
  <2>4. stored' \in Stores /\ saveFailures' \in Nat
    BY <2>2, <2>3 DEF TypeOK, Stores
  <2>5. Adopt(n, a) \/ UNCHANGED <<address, allocated, claims>>
    BY <2>3 DEF AdoptIfSaved
  <2>6. /\ address' \in Stores
        /\ allocated' \in [Primaries -> SUBSET Addresses]
        /\ claims_sent' \in [Nodes -> 0..2]
        /\ claimDelay' \in [Nodes -> BOOLEAN]
    <3>1. CASE Adopt(n, a)
      BY <2>2, <3>1 DEF Adopt, TypeOK, Stores
    <3>2. CASE UNCHANGED <<address, allocated, claims>>
      BY <3>2 DEF claims, TypeOK
    <3> QED BY <2>5, <3>1, <3>2
  <2> QED BY <1>10, <2>1, <2>4, <2>6 DEF HandleAssign, TypeOK, Inboxes
<1>11. ASSUME NEW n \in Nodes, HandleResponse(n) PROVE TypeOK'
  <2> DEFINE f == Head(inbox[n])
             g == AddressAssign(address[n], f.uid, LowestFree(n))
  <2>1. Consumed(n) \in Inboxes /\ f \in Frame
    BY <1>11, ConsumedType DEF HandleResponse, Receives
  <2>2. CASE /\ Answers(n, f)
             /\ inbox' = OnBus(Consumed(n), n, g)
             /\ allocated' = [allocated EXCEPT ![n] = @ \cup {LowestFree(n)}]
             /\ UNCHANGED losses
    <3>1. LowestFree(n) \in Addresses
      BY <2>2, LowestFreeIsFree DEF Answers, Free
    <3>2. g \in Frame
      <4>1. address[n] \in Addresses
        BY <2>2 DEF Answers, TypeOK, Stores
      <4>2. f.uid \in Nodes
        BY <2>1 DEF Frame
      <4> HIDE DEF f
      <4> QED BY <3>1, <4>1, <4>2, FrameTypes
    <3>3. inbox' \in Inboxes
      BY <2>1, <2>2, <3>2, OnBusType
    <3> QED BY <1>11, <2>2, <3>1, <3>3
        DEF HandleResponse, TypeOK, Inboxes, node
  <2>3. CASE inbox' = Consumed(n) /\ UNCHANGED allocated /\ losses' \in Nat
    BY <1>11, <2>1, <2>3 DEF HandleResponse, TypeOK, Inboxes, node
  <2> QED BY <1>11, <2>2, <2>3 DEF HandleResponse, TypeOK
<1>12. ASSUME NEW n \in Nodes, Restart(n) PROVE TypeOK'
  <2>1. PICK saved \in BOOLEAN :
          /\ stored' = [stored EXCEPT ![n] = BootAddress(n, @, saved)]
          /\ saveFailures' = IF saved THEN saveFailures ELSE saveFailures + 1
    BY <1>12 DEF Restart
  <2>2. BootAddress(n, stored[n], saved) \in {Unassigned} \cup Addresses
    BY DEF BootAddress, Bootstrap, Addresses, TypeOK, Stores
  <2>3. stored' \in Stores /\ stored'[n] \in {Unassigned} \cup Addresses
    BY <2>1, <2>2 DEF TypeOK, Stores
  <2>4. EmptyQueues \in Queues /\ << >> \in Seq(Frame)
    BY DEF EmptyQueues, Queues
  <2>5. saveFailures' \in Nat
    BY <2>1 DEF TypeOK
  <2>6. queues' \in [Nodes -> Queues] /\ inbox' \in Inboxes
    BY <1>12, <1>i, <2>4 DEF Restart, Inboxes
  <2>7. allocated' \in [Primaries -> SUBSET Addresses]
    BY <1>12, <2>3 DEF Restart, Known, TypeOK
  <2> QED BY <1>12, <2>3, <2>5, <2>6, <2>7
      DEF Restart, TypeOK, Stores, Inboxes, Queues
<1>13. ASSUME NEW n \in Nodes, Miss(n) PROVE TypeOK'
  <2>1. Consumed(n) \in Inboxes
    BY <1>13, ConsumedType DEF Miss
  <2> QED BY <1>13, <2>1 DEF Miss, TypeOK, Inboxes, memory, node
<1>14. CASE UNCHANGED vars
  BY <1>14 DEF vars, TypeOK
<1> QED BY <1>1, <1>2, <1>3, <1>4, <1>5, <1>6, <1>7, <1>8, <1>9, <1>10, <1>11,
           <1>12, <1>13, <1>14 DEF Next, Tick, Receive

(* Every variable holds what its C++ counterpart can hold, for every set of   *)
(* nodes, every address space and every bound.                                *)
THEOREM TypeCorrect == Spec => []TypeOK
<1> QED BY InitType, NextType, PTL DEF Spec

-----------------------------------------------------------------------------
(* A node uses an address only after its flash took it, whatever restarts and *)
(* whatever save fails.                                                       *)
THEOREM AddressPersisted == Spec => []PersistedBeforeUse
<1>1. Init => PersistedBeforeUse
  BY DEF Init, PersistedBeforeUse
<1>2. TypeOK /\ PersistedBeforeUse /\ [Next]_vars => PersistedBeforeUse'
  <2> SUFFICES ASSUME TypeOK, PersistedBeforeUse, [Next]_vars PROVE PersistedBeforeUse'
    OBVIOUS
  <2> USE DEF PersistedBeforeUse
  <2>1. CASE UNCHANGED <<address, stored>>
    BY <2>1
  <2>2. ASSUME NEW n \in Nodes, Withdraw(n), UNCHANGED stored PROVE PersistedBeforeUse'
    BY <2>2 DEF Withdraw, TypeOK, Stores
  <2>3. ASSUME NEW n \in Nodes, Tick(n) \/ BackoffElapses(n) \/ ClaimDelayElapses(n)
        PROVE  UNCHANGED <<address, stored>>
    BY <2>3 DEF Tick, TickResponse, TickDiscovery, TickClaim, TickDrain,
                BackoffElapses, ClaimDelayElapses, memory
  <2>4. ASSUME NEW n \in Nodes, HandleClaim(n) \/ HandleConflict(n)
        PROVE  PersistedBeforeUse'
    <3>1. UNCHANGED stored /\ (Withdraw(n) \/ UNCHANGED address)
      BY <2>4 DEF HandleClaim, HandleConflict, memory
    <3> QED BY <2>1, <2>2, <3>1
  <2>5. ASSUME NEW n \in Nodes, HandleRequest(n) \/ HandleResponse(n) \/ Miss(n)
        PROVE  UNCHANGED <<address, stored>>
    BY <2>5 DEF HandleRequest, HandleResponse, Miss, memory, node
  <2>6. ASSUME NEW n \in Nodes, HandleAssign(n) PROVE PersistedBeforeUse'
    <3> DEFINE a == Head(inbox[n]).addr
    <3>1. PICK saved \in BOOLEAN :
            /\ stored' = IF saved THEN [stored EXCEPT ![n] = a] ELSE stored
            /\ AdoptIfSaved(n, a, saved)
      BY <2>6 DEF HandleAssign
    <3> HIDE DEF a
    <3> QED BY <3>1 DEF AdoptIfSaved, Adopt, TypeOK, Stores
  <2>7. ASSUME NEW n \in Nodes, Restart(n) PROVE PersistedBeforeUse'
    <3>1. PICK b : stored' = [stored EXCEPT ![n] = b]
      BY <2>7 DEF Restart
    <3> QED BY <2>7, <3>1 DEF Restart, TypeOK, Stores
  <2>8. CASE UNCHANGED vars
    BY <2>1, <2>8 DEF vars
  <2> QED BY <2>1, <2>3, <2>4, <2>5, <2>6, <2>7, <2>8 DEF Next, Receive
<1> QED BY <1>1, <1>2, TypeCorrect, PTL DEF Spec

-----------------------------------------------------------------------------
(* The messages that contest an address, and the address they are about.        *)
ContestKinds == {"address_claim", "address_conflict"}

Contested(f) == IF f.kind = "address_claim" THEN f.src ELSE f.dst

(* A frame that a runtime puts into a queue is none that contests an address,   *)
(* or contests the address it uses.                                            *)
Own(n, g) ==
  \/ g.kind \notin ContestKinds
  \/ address[n] \in Addresses /\ g.uid = n /\ Contested(g) = address[n]

(* Every tick of an address branch ends in drain_one, after it enqueued one frame  *)
(* at most; the tick that counts a claim enqueued it.                            *)
LEMMA TickDrains ==
  ASSUME TypeOK, NEW n \in Nodes, Tick(n)
  PROVE  \E q \in Queues :
           /\ DrainOne(n, q)
           /\ q = queues[n] \/ \E g \in QueuedFrame : q = Enqueue(queues[n], g) /\ Own(n, g)
           /\ claims_sent'[n] # claims_sent[n] =>
                address[n] # Unassigned /\ q = Enqueue(queues[n], AddressClaim(n, address[n]))
<1>0. queues[n] \in Queues
  BY DEF TypeOK, Queues
<1>1. CASE TickResponse(n)
  <2> DEFINE g == DiscoveryResponse(n, address[n], pending[n])
  <2>1. g \in QueuedFrame
    <3>1. pending[n] \in {Unassigned} \cup Addresses /\ 1 \in Addresses
      BY <1>1, CommissioningAssumption DEF TickResponse, TypeOK, Addresses
    <3>2. address[n] \in {Unassigned} \cup Addresses
      BY DEF TypeOK, Stores
    <3> QED BY <3>1, <3>2, FrameTypes
  <2>2. Own(n, g)
    BY DEF Own, DiscoveryResponse, ContestKinds
  <2> QED BY <1>0, <1>1, <2>1, <2>2, EnqueueType DEF TickResponse, claims
<1>2. CASE TickDiscovery(n)
  <2>1. DiscoveryRequest(n) \in QueuedFrame
    BY CommissioningAssumption, FrameTypes DEF Addresses
  <2>2. Own(n, DiscoveryRequest(n))
    BY DEF Own, DiscoveryRequest, ContestKinds
  <2> QED BY <1>0, <1>2, <2>1, <2>2, EnqueueType DEF TickDiscovery, claims
<1>3. CASE TickClaim(n)
  <2>0. address[n] \in Addresses
    BY <1>3 DEF TickClaim, TypeOK, Stores
  <2>1. AddressClaim(n, address[n]) \in QueuedFrame
    BY <2>0, FrameTypes
  <2>2. Own(n, AddressClaim(n, address[n]))
    BY <2>0 DEF Own, AddressClaim, Contested
  <2> QED BY <1>0, <1>3, <2>1, <2>2, EnqueueType DEF TickClaim
<1>4. CASE TickDrain(n)
  BY <1>0, <1>4 DEF TickDrain, claims
<1> QED BY <1>1, <1>2, <1>3, <1>4 DEF Tick

-----------------------------------------------------------------------------
(* The assignments under way to node n.                                       *)
Offers(n) == {f \in Range(inbox[n]) : f.kind = "address_assign"}

(***************************************************************************)
(* The inductive invariant behind unique addresses.  Unique addresses alone  *)
(* are not inductive: an address that is still in flight, or in a flash, will *)
(* be used later.  What makes them unique is that every address the manager P *)
(* gave away, in flight or saved, is in its table, and is there only once.     *)
(***************************************************************************)
GrantInv(P) ==
  /\ PersistedBeforeUse
  /\ OffersUnused
  /\ \A n \in Nodes : stored[n] # Unassigned => stored[n] \in allocated[P]
  /\ \A n \in Nodes : \A f \in Offers(n) : f.addr \in allocated[P]
  /\ \A m, n \in Nodes : m # n /\ stored[m] # Unassigned => stored[m] # stored[n]
  /\ \A m, n \in Nodes : \A f \in Offers(m), g \in Offers(n) : m # n => f.addr # g.addr

(* A frame on the bus adds no offer unless it is an assignment, and then only   *)
(* to the node it names.                                                        *)
LEMMA OnBusOffers ==
  ASSUME NEW box \in Inboxes, NEW n, NEW f \in Frame, NEW m \in Nodes
  PROVE  \A g \in Range(OnBus(box, n, f)[m]) :
           g \in Range(box[m]) \/ (g = f /\ (f.kind = "address_assign" => f.uid = m))
<1>1. box[m] \in Seq(Frame)
  BY DEF Inboxes
<1>2. CASE m = n \/ Ignores(m, f)
  BY <1>2 DEF OnBus
<1>3. CASE ~(m = n \/ Ignores(m, f))
  <2>1. OnBus(box, n, f)[m] = Append(box[m], f)
    BY <1>3 DEF OnBus
  <2> QED BY <1>1, <1>3, <2>1, RangeSteps DEF Ignores
<1> QED BY <1>2, <1>3

(* Handling the oldest frame adds no offer.                                     *)
LEMMA ConsumedOffers ==
  ASSUME TypeOK, NEW n \in Nodes, inbox[n] # << >>
  PROVE  /\ \A m \in Nodes : Range(Consumed(n)[m]) \subseteq Range(inbox[m])
         /\ Head(inbox[n]) \in Range(inbox[n])
<1>1. inbox \in Inboxes /\ inbox[n] \in Seq(Frame)
  BY DEF TypeOK, Inboxes
<1>2. Range(Tail(inbox[n])) \subseteq Range(inbox[n]) /\ Head(inbox[n]) \in Range(inbox[n])
  BY <1>1, RangeSteps
<1>3. \A m \in Nodes : Consumed(n)[m] = IF m = n THEN Tail(inbox[n]) ELSE inbox[m]
  BY <1>1 DEF Consumed, Inboxes
<1> QED BY <1>2, <1>3

(* A step that makes no offer and no save, forgets nothing the manager gave      *)
(* away, and changes an address only to "none" or to the saved one, keeps the   *)
(* invariant.                                                                   *)
LEMMA NoNewGrant ==
  ASSUME NEW P, GrantInv(P), UNCHANGED stored, allocated[P] \subseteq allocated'[P],
         \A n \in Nodes : Offers(n)' \subseteq Offers(n),
         \A n \in Nodes : address'[n] \in {address[n], Unassigned, stored'[n]}
  PROVE  GrantInv(P)'
<1>1. PersistedBeforeUse'
  BY DEF GrantInv, PersistedBeforeUse
<1>2. OffersUnused'
  BY DEF GrantInv, OffersUnused, Offers
<1> QED BY <1>1, <1>2 DEF GrantInv

(* A drain makes no offer: an assignment never waits in a queue.                *)
LEMMA DrainOffers ==
  ASSUME TypeOK, NEW n \in Nodes, NEW q \in Queues, DrainOne(n, q), NEW m \in Nodes
  PROVE  Offers(m)' \subseteq Offers(m)
<1>1. inbox \in Inboxes
  BY DEF TypeOK, Inboxes
<1>2. CASE inbox' = inbox
  BY <1>2 DEF Offers
<1>3. CASE \E f \in QueuedFrame : inbox' = OnBus(inbox, n, f)
  <2>1. PICK f \in QueuedFrame : inbox' = OnBus(inbox, n, f)
    BY <1>3
  <2>2. f \in Frame /\ f.kind # "address_assign"
    BY DEF QueuedFrame
  <2> QED BY <1>1, <2>1, <2>2, OnBusOffers DEF Offers
<1> QED BY <1>2, <1>3, DrainOneType

(* handle, ADDRESS_ASSIGN, keeps the invariant: the address it saves was offered *)
(* to nobody else and is in no other flash.                                     *)
LEMMA AssignKeepsGrants ==
  ASSUME NEW P \in Primaries, TypeOK, GrantInv(P), NEW n \in Nodes, HandleAssign(n)
  PROVE  GrantInv(P)'
<1> DEFINE f == Head(inbox[n])
<1>1. \A m \in Nodes : Offers(m)' \subseteq Offers(m)
  BY ConsumedOffers DEF HandleAssign, Receives, Offers
<1>2. f \in Offers(n)
  BY ConsumedOffers DEF HandleAssign, Receives, Offers
<1> HIDE DEF f
<1>3. PICK saved \in BOOLEAN :
        /\ stored' = IF saved THEN [stored EXCEPT ![n] = f.addr] ELSE stored
        /\ AdoptIfSaved(n, f.addr, saved)
  BY DEF HandleAssign, f
<1>4. allocated[P] \subseteq allocated'[P]
  <2>1. CASE ~saved
    BY <1>3, <2>1 DEF AdoptIfSaved
  <2>2. CASE saved
    <3>1. allocated' = [p \in Primaries |->
                          IF p = n THEN allocated[p] \cup {f.addr} ELSE allocated[p]]
      BY <1>3, <2>2 DEF AdoptIfSaved, Adopt
    <3> QED BY <3>1
  <2> QED BY <2>1, <2>2
<1>5. CASE ~saved
  <2>1. UNCHANGED <<stored, address>>
    BY <1>3, <1>5 DEF AdoptIfSaved
  <2> QED BY <1>1, <1>4, <2>1, NoNewGrant
<1>6. CASE saved
  <2>1. /\ \A m \in Nodes : stored'[m] = IF m = n THEN f.addr ELSE stored[m]
        /\ \A m \in Nodes : address'[m] = IF m = n THEN f.addr ELSE address[m]
    BY <1>3, <1>6 DEF AdoptIfSaved, Adopt, TypeOK, Stores
  <2>2. PersistedBeforeUse'
    BY <2>1 DEF PersistedBeforeUse, GrantInv
  <2>3. OffersUnused'
    <3> SUFFICES ASSUME NEW k \in Nodes, NEW m \in Nodes, NEW g \in Offers(k)', m # k
                 PROVE  stored'[m] # g.addr
      BY DEF OffersUnused, Offers
    <3>1. g \in Offers(k)
      BY <1>1
    <3>2. CASE m = n
      BY <1>2, <2>1, <3>1, <3>2 DEF GrantInv
    <3>3. CASE m # n
      BY <2>1, <3>1, <3>3 DEF GrantInv, OffersUnused, Offers
    <3> QED BY <3>2, <3>3
  <2>4. \A m \in Nodes : m # n => stored[m] # f.addr
    BY <1>2 DEF GrantInv, OffersUnused, Offers
  <2>5. f.addr \in allocated[P]
    BY <1>2 DEF GrantInv
  <2> QED BY <1>1, <1>4, <2>1, <2>2, <2>3, <2>4, <2>5 DEF GrantInv
<1> QED BY <1>5, <1>6

(* assign keeps the invariant: the address it offers is in no flash and in no    *)
(* other offer, because it was not in the table.                                *)
LEMMA OfferKeepsGrants ==
  ASSUME NEW P \in Nodes, Primaries = {P}, TypeOK, GrantInv(P),
         NEW n \in Nodes, HandleResponse(n)
  PROVE  GrantInv(P)'
<1> DEFINE f == Head(inbox[n])
           a == LowestFree(n)
           g == AddressAssign(address[n], f.uid, a)
<1>0. UNCHANGED <<stored, address>>
  BY DEF HandleResponse, node
<1>1. \A m \in Nodes : Range(Consumed(n)[m]) \subseteq Range(inbox[m])
  BY ConsumedOffers DEF HandleResponse, Receives
<1>2. CASE inbox' = Consumed(n) /\ UNCHANGED allocated
  BY <1>0, <1>1, <1>2, NoNewGrant DEF Offers
<1>3. CASE /\ Answers(n, f)
           /\ inbox' = OnBus(Consumed(n), n, g)
           /\ allocated' = [allocated EXCEPT ![n] = @ \cup {a}]
  <2>1. n = P
    BY <1>3 DEF Answers
  <2>2. a \in Addresses /\ a \notin allocated[P]
    BY <1>3, <2>1, LowestFreeIsFree DEF Answers, Free
  <2>3. Consumed(n) \in Inboxes /\ f \in Frame
    BY ConsumedType DEF HandleResponse, Receives
  <2>4. g \in Frame /\ g.addr = a /\ g.kind = "address_assign" /\ g.uid = f.uid
    <3>1. address[n] \in Addresses /\ f.uid \in Nodes
      BY <1>3, <2>3 DEF Answers, TypeOK, Stores, Frame
    <3> HIDE DEF f, a
    <3>2. g \in Frame
      BY <2>2, <3>1, FrameTypes
    <3> QED BY <3>2 DEF AddressAssign
  <2>5. allocated'[P] = allocated[P] \cup {a}
    BY <1>3, <2>1 DEF TypeOK
  <2> HIDE DEF f, a, g
  <2>6. \A m \in Nodes : \A h \in Offers(m)' : h \in Offers(m) \/ (h = g /\ m = f.uid)
    BY <1>1, <1>3, <2>3, <2>4, OnBusOffers DEF Offers
  <2>7. \A m \in Nodes : stored[m] # a /\ \A h \in Offers(m) : h.addr # a
    <3>1. Unassigned \notin Addresses
      BY CommissioningAssumption DEF Unassigned, Addresses
    <3> QED BY <2>2, <3>1 DEF GrantInv
  <2>8. PersistedBeforeUse'
    BY <1>0 DEF PersistedBeforeUse, GrantInv
  <2>9. OffersUnused'
    <3> SUFFICES ASSUME NEW k \in Nodes, NEW m \in Nodes, NEW h \in Offers(k)', m # k
                 PROVE  stored[m] # h.addr
      BY <1>0 DEF OffersUnused, Offers
    <3> QED BY <2>4, <2>6, <2>7 DEF GrantInv, OffersUnused, Offers
  <2>10. \A m \in Nodes : \A h \in Offers(m)' : h.addr \in allocated'[P]
    BY <2>4, <2>5, <2>6 DEF GrantInv
  <2>11. \A k, m \in Nodes : \A h \in Offers(k)', i \in Offers(m)' : k # m => h.addr # i.addr
    BY <2>4, <2>6, <2>7 DEF GrantInv
  <2> QED BY <1>0, <2>5, <2>8, <2>9, <2>10, <2>11 DEF GrantInv
<1> QED BY <1>2, <1>3 DEF HandleResponse

(* Every step keeps the invariant when the sole primary is never power cycled.   *)
LEMMA GrantsNext ==
  ASSUME NEW P \in Nodes, Primaries = {P}, P \notin Restartable,
         TypeOK, GrantInv(P), [Next]_vars
  PROVE  GrantInv(P)'
<1>1. ASSUME NEW n \in Nodes, Tick(n) PROVE GrantInv(P)'
  <2>1. UNCHANGED <<stored, allocated, address>>
    BY <1>1 DEF Tick, TickResponse, TickDiscovery, TickClaim, TickDrain, memory
  <2>2. \E q \in Queues : DrainOne(n, q)
    BY <1>1, TickDrains
  <2>3. \A m \in Nodes : Offers(m)' \subseteq Offers(m)
    BY <2>2, DrainOffers
  <2> QED BY <2>1, <2>3, NoNewGrant
<1>2. ASSUME NEW n \in Nodes, BackoffElapses(n) \/ ClaimDelayElapses(n) PROVE GrantInv(P)'
  BY <1>2, NoNewGrant DEF BackoffElapses, ClaimDelayElapses, memory, Offers
<1>3. ASSUME NEW n \in Nodes, inbox[n] # << >>, inbox' = Consumed(n),
             UNCHANGED stored, allocated[P] \subseteq allocated'[P],
             Withdraw(n) \/ UNCHANGED address
      PROVE  GrantInv(P)'
  <2>1. \A m \in Nodes : Offers(m)' \subseteq Offers(m)
    BY <1>3, ConsumedOffers DEF Offers
  <2>2. \A m \in Nodes : address'[m] \in {address[m], Unassigned}
    BY <1>3 DEF Withdraw, TypeOK, Stores
  <2> QED BY <1>3, <2>1, <2>2, NoNewGrant
<1>4. ASSUME NEW n \in Nodes, HandleClaim(n) PROVE GrantInv(P)'
  <2>1. allocated[P] \subseteq allocated'[P] /\ inbox[n] # << >>
    BY <1>4 DEF HandleClaim, Receives, TypeOK
  <2>2. Withdraw(n) \/ UNCHANGED address
    BY <1>4 DEF HandleClaim
  <2> QED BY <1>3, <1>4, <2>1, <2>2 DEF HandleClaim
<1>5. ASSUME NEW n \in Nodes, HandleRequest(n) \/ HandleConflict(n) \/ Miss(n)
      PROVE  GrantInv(P)'
  <2>1. /\ inbox[n] # << >> /\ inbox' = Consumed(n)
        /\ UNCHANGED memory
        /\ Withdraw(n) \/ UNCHANGED address
    BY <1>5 DEF HandleRequest, HandleConflict, Miss, Receives, node
  <2> QED BY <1>3, <2>1 DEF memory
<1>6. ASSUME NEW n \in Nodes, HandleAssign(n) PROVE GrantInv(P)'
  BY <1>6, AssignKeepsGrants
<1>7. ASSUME NEW n \in Nodes, HandleResponse(n) PROVE GrantInv(P)'
  BY <1>7, OfferKeepsGrants
<1>8. ASSUME NEW n \in Nodes, Restart(n) PROVE GrantInv(P)'
  <2>1. n # P /\ n \notin Primaries
    BY <1>8 DEF Restart
  <2>2. stored' = stored
    BY <1>8, <2>1 DEF Restart, BootAddress, TypeOK, Stores, Unassigned
  <2>3. allocated'[P] = allocated[P]
    BY <1>8, <2>1 DEF Restart
  <2>4. \A m \in Nodes : address'[m] \in {address[m], stored'[m]}
    BY <1>8 DEF Restart, TypeOK, Stores
  <2>5. \A m \in Nodes : Offers(m)' \subseteq Offers(m)
    <3>1. \A m \in Nodes : inbox'[m] = IF m = n THEN << >> ELSE inbox[m]
      BY <1>8 DEF Restart, TypeOK
    <3>2. Range(<< >>) = {}
      BY DEF Range
    <3> QED BY <3>1, <3>2 DEF Offers
  <2> QED BY <2>2, <2>3, <2>4, <2>5, NoNewGrant
<1>9. CASE UNCHANGED vars
  BY <1>9, NoNewGrant DEF vars, Offers
<1> QED BY <1>1, <1>2, <1>4, <1>5, <1>6, <1>7, <1>8, <1>9 DEF Next, Receive

(* In an installation whose flashes are empty and whose only primary is never    *)
(* power cycled, no two nodes ever use one address and no offer under way is of  *)
(* an address in use: for any number of nodes and addresses, and whatever frames *)
(* are lost, saves fail and other nodes restart.                                *)
THEOREM FreshInstallation ==
  ASSUME NEW P \in Nodes, Primaries = {P}, P \notin Restartable,
         InitialStores \subseteq {[n \in Nodes |-> Unassigned]}
  PROVE  Spec => [](UniqueAddresses /\ OffersUnused)
<1>1. Init => GrantInv(P)
  <2> SUFFICES ASSUME Init PROVE GrantInv(P)
    OBVIOUS
  <2>1. \A n \in Nodes : Offers(n) = {}
    BY DEF Init, Offers, Range
  <2>2. PICK saved \in BOOLEAN :
          stored = [n \in Nodes |-> BootAddress(n, Unassigned, saved)]
    BY DEF Init
  <2>3. \A n \in Nodes : n # P => stored[n] = Unassigned
    BY <2>2 DEF BootAddress
  <2>4. stored[P] # Unassigned => stored[P] \in allocated[P]
    BY DEF Init, Known
  <2>5. PersistedBeforeUse /\ OffersUnused
    BY <2>1 DEF Init, PersistedBeforeUse, OffersUnused, Offers
  <2> QED BY <2>1, <2>3, <2>4, <2>5 DEF GrantInv
<1>2. TypeOK /\ GrantInv(P) /\ [Next]_vars => GrantInv(P)'
  BY GrantsNext
<1>3. GrantInv(P) => UniqueAddresses /\ OffersUnused
  BY DEF GrantInv, UniqueAddresses, PersistedBeforeUse
<1> QED BY <1>1, <1>2, <1>3, TypeCorrect, PTL DEF Spec

(* No address is offered to a node that another one holds.                      *)
THEOREM OffersAreUnused ==
  ASSUME NEW P \in Nodes, Primaries = {P}, P \notin Restartable,
         InitialStores \subseteq {[n \in Nodes |-> Unassigned]}
  PROVE  Spec => []OffersUnused
<1> QED BY FreshInstallation, PTL

(***************************************************************************)
(* Why the bootstrap address is reserved: a manager with an address took the   *)
(* bootstrap address at its start, as nobody is there to offer it another.     *)
(***************************************************************************)
BootstrapInv(P) ==
  /\ BootstrapReserved
  /\ Offers(P) = {}
  /\ address[P] # Unassigned => Bootstrap \in allocated[P]

LEMMA BootstrapNext ==
  ASSUME NEW P \in Nodes, Primaries = {P}, P \notin Restartable,
         TypeOK, BootstrapInv(P), [Next]_vars
  PROVE  BootstrapInv(P)'
<1>1. ASSUME \A n \in Nodes : Offers(n)' \subseteq Offers(n),
             allocated[P] \subseteq allocated'[P],
             address'[P] \in {address[P], Unassigned}
      PROVE  BootstrapInv(P)'
  BY <1>1 DEF BootstrapInv, BootstrapReserved, Offers
<1>2. ASSUME NEW n \in Nodes, Tick(n) PROVE BootstrapInv(P)'
  <2>1. PICK q \in Queues : DrainOne(n, q)
    BY <1>2, TickDrains
  <2>2. \A m \in Nodes : Offers(m)' \subseteq Offers(m)
    BY <2>1, DrainOffers
  <2>3. UNCHANGED <<allocated, address>>
    BY <1>2 DEF Tick, TickResponse, TickDiscovery, TickClaim, TickDrain, memory
  <2> QED BY <1>1, <2>2, <2>3
<1>3. ASSUME NEW n \in Nodes, inbox[n] # << >>, inbox' = Consumed(n),
             allocated[P] \subseteq allocated'[P], address'[P] \in {address[P], Unassigned}
      PROVE  BootstrapInv(P)'
  BY <1>1, <1>3, ConsumedOffers DEF Offers
<1>4. ASSUME NEW n \in Nodes, HandleClaim(n) \/ HandleRequest(n) \/ HandleConflict(n) \/ Miss(n)
      PROVE  BootstrapInv(P)'
  <2>1. inbox[n] # << >> /\ inbox' = Consumed(n) /\ (Withdraw(n) \/ UNCHANGED address)
    BY <1>4 DEF HandleClaim, HandleRequest, HandleConflict, Miss, Receives, node
  <2>2. allocated[P] \subseteq allocated'[P]
    BY <1>4 DEF HandleClaim, HandleRequest, HandleConflict, Miss, memory, TypeOK
  <2>3. address'[P] \in {address[P], Unassigned}
    BY <2>1 DEF Withdraw, TypeOK, Stores
  <2> QED BY <1>3, <2>1, <2>2, <2>3
<1>5. ASSUME NEW n \in Nodes, HandleAssign(n) PROVE BootstrapInv(P)'
  <2>1. inbox[n] # << >> /\ inbox' = Consumed(n) /\ Head(inbox[n]).kind = "address_assign"
    BY <1>5 DEF HandleAssign, Receives
  <2>2. n # P
    BY <2>1, ConsumedOffers DEF BootstrapInv, Offers
  <2> DEFINE a == Head(inbox[n]).addr
  <2>3. PICK saved \in BOOLEAN : AdoptIfSaved(n, a, saved)
    BY <1>5 DEF HandleAssign
  <2> HIDE DEF a
  <2>4. address'[P] = address[P] /\ allocated'[P] = allocated[P]
    BY <2>2, <2>3 DEF AdoptIfSaved, Adopt, TypeOK, Stores
  <2> QED BY <1>3, <2>1, <2>4
<1>6. ASSUME NEW n \in Nodes, HandleResponse(n) PROVE BootstrapInv(P)'
  <2>0. inbox[n] # << >> /\ UNCHANGED address
    BY <1>6 DEF HandleResponse, Receives, node
  <2>1. CASE inbox' = Consumed(n) /\ UNCHANGED allocated
    BY <1>3, <2>0, <2>1
  <2> DEFINE f == Head(inbox[n])
             g == AddressAssign(address[n], f.uid, LowestFree(n))
  <2>2. CASE Answers(n, f) /\ inbox' = OnBus(Consumed(n), n, g)
             /\ allocated' = [allocated EXCEPT ![n] = @ \cup {LowestFree(n)}]
    <3>1. n = P /\ address[n] # Unassigned /\ Free(n) # {}
      BY <2>2 DEF Answers
    <3>2. LowestFree(n) \in Addresses \ allocated[P]
      BY <3>1, LowestFreeIsFree DEF Free
    <3>3. g \in Frame /\ g.addr # Bootstrap
      <4>1. f \in Frame /\ address[n] \in Addresses
        BY <2>0, <3>1, ConsumedType DEF TypeOK, Stores
      <4>2. f.uid \in Nodes
        BY <4>1 DEF Frame
      <4>3. LowestFree(n) # Bootstrap
        BY <2>0, <3>1, <3>2 DEF BootstrapInv
      <4>4. g.addr = LowestFree(n)
        BY DEF AddressAssign
      <4> HIDE DEF f
      <4> QED BY <3>2, <4>1, <4>2, <4>3, <4>4, FrameTypes
    <3> HIDE DEF f, g
    <3>4. \A m \in Nodes : \A h \in Offers(m)' : h \in Offers(m) \/ (h = g /\ m # P)
      <4> SUFFICES ASSUME NEW m \in Nodes, NEW h \in Offers(m)', h \notin Offers(m)
                   PROVE  h = g /\ m # P
        OBVIOUS
      <4>1. Consumed(n) \in Inboxes /\ Range(Consumed(n)[m]) \subseteq Range(inbox[m])
        BY <2>0, ConsumedType, ConsumedOffers
      <4>2. h \in Range(OnBus(Consumed(n), n, g)[m]) /\ h \notin Range(Consumed(n)[m])
        BY <2>2, <4>1 DEF Offers
      <4>3. h = g
        BY <3>3, <4>1, <4>2, OnBusOffers
      <4>4. m # n
        BY <4>2 DEF OnBus
      <4> QED BY <3>1, <4>3, <4>4
    <3>5. allocated[P] \subseteq allocated'[P]
      BY <2>2, <3>1 DEF TypeOK
    <3> QED BY <2>0, <3>3, <3>4, <3>5 DEF BootstrapInv, BootstrapReserved, Offers
  <2> QED BY <1>6, <2>1, <2>2 DEF HandleResponse
<1>7. ASSUME NEW n \in Nodes, Restart(n) PROVE BootstrapInv(P)'
  <2>1. n # P
    BY <1>7 DEF Restart
  <2>2. address'[P] = address[P] /\ allocated'[P] = allocated[P]
    BY <1>7, <2>1 DEF Restart, TypeOK, Stores
  <2>3. \A m \in Nodes : Offers(m)' \subseteq Offers(m)
    <3>1. \A m \in Nodes : inbox'[m] = IF m = n THEN << >> ELSE inbox[m]
      BY <1>7 DEF Restart, TypeOK
    <3>2. Range(<< >>) = {}
      BY DEF Range
    <3> QED BY <3>1, <3>2 DEF Offers
  <2> QED BY <1>1, <2>2, <2>3
<1>8. CASE \E n \in Nodes : BackoffElapses(n) \/ ClaimDelayElapses(n)
  BY <1>1, <1>8 DEF BackoffElapses, ClaimDelayElapses, memory, Offers
<1>9. CASE UNCHANGED vars
  BY <1>1, <1>9 DEF vars, Offers
<1> QED BY <1>2, <1>4, <1>5, <1>6, <1>7, <1>8, <1>9 DEF Next, Receive

(* In a fresh installation with one primary that is never power cycled, no node   *)
(* is offered the bootstrap address, whatever frames are lost and saves fail.      *)
THEOREM BootstrapIsReserved ==
  ASSUME NEW P \in Nodes, Primaries = {P}, P \notin Restartable,
         InitialStores \subseteq {[n \in Nodes |-> Unassigned]}
  PROVE  Spec => []BootstrapReserved
<1>1. Init => BootstrapInv(P)
  <2> SUFFICES ASSUME Init PROVE BootstrapInv(P)
    OBVIOUS
  <2>1. \A n \in Nodes : Range(inbox[n]) = {}
    BY DEF Init, Range
  <2>2. PICK saved \in BOOLEAN :
          stored = [n \in Nodes |-> BootAddress(n, Unassigned, saved)]
    BY DEF Init
  <2>3. address[P] # Unassigned => address[P] = Bootstrap /\ Bootstrap \in allocated[P]
    BY <2>2 DEF Init, BootAddress, Known
  <2> QED BY <2>1, <2>3 DEF BootstrapInv, BootstrapReserved, Offers
<1>2. BootstrapInv(P) => BootstrapReserved
  BY DEF BootstrapInv
<1> QED BY <1>1, <1>2, BootstrapNext, TypeCorrect, PTL DEF Spec

-----------------------------------------------------------------------------
(* The lowest UID of an installation never loses an address: no claim and no     *)
(* conflict message, and no power cycle, takes it away.                         *)
THEOREM LowestUidKeepsAddress == Spec => LowestKeepsAddress
<1> DEFINE Keeps(n) == (\A m \in Nodes : n <= m) /\ address[n] # Unassigned
                         => address'[n] # Unassigned
<1>1. TypeOK /\ PersistedBeforeUse /\ [Next]_vars => \A n \in Nodes : Keeps(n)
  <2> SUFFICES ASSUME TypeOK, PersistedBeforeUse, [Next]_vars,
                      NEW n \in Nodes, \A m \in Nodes : n <= m, address[n] # Unassigned
               PROVE  address'[n] # Unassigned
    OBVIOUS
  <2>0. \A u \in Nodes : ~(u < n) /\ (u # n => n < u)
    BY CommissioningAssumption
  <2>1. ASSUME NEW k \in Nodes, Withdraw(k), k # n PROVE address'[n] = address[n]
    BY <2>1 DEF Withdraw, TypeOK, Stores
  <2>2. ASSUME NEW k \in Nodes, HandleClaim(k) PROVE address'[n] = address[n]
    <3>1. Head(inbox[k]).uid \in Nodes
      BY <2>2, ConsumedType DEF HandleClaim, Receives, Frame
    <3>2. CASE Withdraw(k) /\ Head(inbox[k]).uid # k /\ ~OwnUidWins(k, Head(inbox[k]).uid)
      BY <2>0, <2>1, <3>1, <3>2 DEF OwnUidWins
    <3> QED BY <2>2, <3>2 DEF HandleClaim
  <2>3. ASSUME NEW k \in Nodes, HandleConflict(k) PROVE address'[n] = address[n]
    <3>1. Head(inbox[k]).uid \in Nodes
      BY <2>3, ConsumedType DEF HandleConflict, Receives, Frame
    <3>2. CASE Withdraw(k) /\ WinnerIsLower(k, Head(inbox[k]).uid)
      BY <2>0, <2>1, <3>1, <3>2 DEF WinnerIsLower
    <3> QED BY <2>3, <3>2 DEF HandleConflict
  <2>4. ASSUME NEW k \in Nodes, HandleAssign(k) PROVE address'[n] # Unassigned
    <3> DEFINE a == Head(inbox[k]).addr
    <3>1. a # Unassigned
      BY <2>4, ConsumedType DEF HandleAssign, Receives, Frame
    <3>2. Adopt(k, a) \/ UNCHANGED address
      BY <2>4 DEF HandleAssign, AdoptIfSaved
    <3> QED BY <3>1, <3>2 DEF Adopt, TypeOK, Stores
  <2>5. ASSUME NEW k \in Nodes, Restart(k) PROVE address'[n] # Unassigned
    <3>1. stored[n] # Unassigned
      BY DEF PersistedBeforeUse
    <3>2. stored'[n] # Unassigned
      BY <2>5, <3>1 DEF Restart, BootAddress, TypeOK, Stores
    <3> QED BY <2>5, <3>2 DEF Restart, TypeOK, Stores
  <2>6. ASSUME NEW k \in Nodes,
               \/ Tick(k) \/ BackoffElapses(k) \/ ClaimDelayElapses(k)
               \/ HandleRequest(k) \/ HandleResponse(k) \/ Miss(k)
        PROVE  address' = address
    BY <2>6 DEF Tick, TickResponse, TickDiscovery, TickClaim, TickDrain, BackoffElapses,
                ClaimDelayElapses, HandleRequest, HandleResponse, Miss, node
  <2>7. CASE UNCHANGED vars
    BY <2>7 DEF vars
  <2> QED BY <2>2, <2>3, <2>4, <2>5, <2>6, <2>7 DEF Next, Receive
<1>2. TypeOK /\ PersistedBeforeUse /\ [Next]_vars => [\A n \in Nodes : Keeps(n)]_vars
  BY <1>1
<1> QED BY <1>2, TypeCorrect, AddressPersisted, PTL DEF Spec, LowestKeepsAddress

-----------------------------------------------------------------------------
(***************************************************************************)
(* Why nobody withdraws for the benefit of nobody: behind every claim or      *)
(* conflict message under way there is a node, not higher than the UID it     *)
(* names, that uses the address, or has moved since.  A node that withdraws   *)
(* leaves this to the still lower one it withdrew for, and the delay of the   *)
(* first claim keeps "has moved" true until the last such message is handled.  *)
(***************************************************************************)
FramesIn(q) == UNION {Range(q[c]) : c \in Classes}

UnderWay(n) == Range(inbox[n]) \cup FramesIn(queues[n])

Backs(l, u, a) == l <= u /\ (address[l] = a \/ HasMoved(l, a))

Backed ==
  \A n \in Nodes : \A f \in UnderWay(n) :
    f.kind \in ContestKinds /\ Contested(f) \in Addresses
      => \E l \in Nodes : Backs(l, f.uid, Contested(f))

(* What is under way are frames, and they name nodes.                             *)
LEMMA UnderWayType ==
  ASSUME TypeOK, NEW n \in Nodes, NEW f \in UnderWay(n)
  PROVE  f.uid \in Nodes
<1>1. inbox[n] \in Seq(Frame) /\ \A c \in Classes : queues[n][c] \in Seq(QueuedFrame)
  BY DEF TypeOK
<1>2. Range(inbox[n]) \subseteq Frame
  BY <1>1, RangeSteps DEF Range
<1>3. \A c \in Classes : Range(queues[n][c]) \subseteq QueuedFrame
  BY <1>1 DEF Range
<1> QED BY <1>2, <1>3 DEF UnderWay, FramesIn, QueuedFrame, Frame

(* enqueue adds one frame to those queued at most.                              *)
LEMMA EnqueueFrames ==
  ASSUME NEW q \in Queues, NEW g \in QueuedFrame
  PROVE  FramesIn(Enqueue(q, g)) \subseteq FramesIn(q) \cup {g}
<1>1. \A c \in Classes : q[c] \in Seq(QueuedFrame)
  BY DEF Queues
<1>2. \A c \in Classes : Enqueue(q, g)[c] = q[c] \/ Enqueue(q, g)[c] = Append(q[c], g)
  BY DEF Enqueue, Add, Queues
<1>3. \A c \in Classes : Range(Append(q[c], g)) \subseteq Range(q[c]) \cup {g}
  BY <1>1, RangeSteps
<1> QED BY <1>2, <1>3 DEF FramesIn

(* drain_one moves frames from a queue to receive buffers.                       *)
LEMMA DrainFrames ==
  ASSUME TypeOK, NEW k \in Nodes, NEW q \in Queues, DrainOne(k, q), NEW m \in Nodes
  PROVE  UnderWay(m)' \subseteq UnderWay(m) \cup FramesIn(q)
<1>0. PICK w \in Outcomes(q) :
        /\ queues' = [queues EXCEPT ![k] = Drained(q, w)]
        /\ inbox' = IF w = NoClass THEN inbox ELSE OnBus(inbox, k, Head(q[w]))
  BY DEF DrainOne
<1>1. inbox \in Inboxes /\ queues \in [Nodes -> Queues]
  BY DEF TypeOK, Inboxes, Queues
<1>2. \A c \in Classes : q[c] \in Seq(QueuedFrame)
  BY DEF Queues
<1>3. \A c \in Classes : Range(Drained(q, w)[c]) \subseteq Range(q[c])
  <2>1. \A c \in Classes : c \in Waiting(q) => Range(Tail(q[c])) \subseteq Range(q[c])
    BY <1>2, RangeSteps DEF Waiting
  <2> QED BY <2>1 DEF Drained
<1>4. w # NoClass => Head(q[w]) \in FramesIn(q) /\ Head(q[w]) \in Frame
  <2> SUFFICES ASSUME w # NoClass PROVE Head(q[w]) \in FramesIn(q) /\ Head(q[w]) \in Frame
    OBVIOUS
  <2>1. w \in Classes /\ q[w] # << >>
    BY DEF Outcomes, Waiting
  <2>2. Head(q[w]) \in Range(q[w])
    BY <1>2, <2>1, RangeSteps
  <2>3. Head(q[w]) \in QueuedFrame
    BY DrainPreserves DEF Queues
  <2> QED BY <2>1, <2>2, <2>3 DEF FramesIn, QueuedFrame
<1>5. Range(inbox'[m]) \subseteq Range(inbox[m]) \cup FramesIn(q)
  BY <1>0, <1>1, <1>4, OnBusOffers
<1>6. queues'[m] = IF m = k THEN Drained(q, w) ELSE queues[m]
  BY <1>0, <1>1
<1>7. FramesIn(queues'[m]) \subseteq FramesIn(queues[m]) \cup FramesIn(q)
  BY <1>3, <1>6 DEF FramesIn
<1> QED BY <1>5, <1>7 DEF UnderWay

(* A message under way that contests an address was under way before the step,   *)
(* or contests the address its sender uses before and after the step.            *)
LEMMA ContestsUnderWay ==
  ASSUME TypeOK, [Next]_vars, NEW m \in Nodes, NEW f \in UnderWay(m)', f.kind \in ContestKinds
  PROVE  \/ \E k \in Nodes : f \in UnderWay(k)
         \/ \E k \in Nodes : address' = address /\ address[k] \in Addresses
                             /\ f.uid = k /\ Contested(f) = address[k]
<1>1. ASSUME NEW k \in Nodes, Tick(k)
      PROVE  \/ \E j \in Nodes : f \in UnderWay(j)
             \/ address' = address /\ Own(k, f)
  <2>1. PICK q \in Queues :
          /\ DrainOne(k, q)
          /\ q = queues[k] \/ \E g \in QueuedFrame : q = Enqueue(queues[k], g) /\ Own(k, g)
    BY <1>1, TickDrains
  <2>2. f \in UnderWay(m) \/ f \in FramesIn(q)
    BY <2>1, DrainFrames
  <2>3. f \in FramesIn(q) => f \in FramesIn(queues[k]) \/ Own(k, f)
    <3>1. queues[k] \in Queues
      BY DEF TypeOK, Queues
    <3> QED BY <2>1, <3>1, EnqueueFrames
  <2>4. address' = address
    BY <1>1 DEF Tick, TickResponse, TickDiscovery, TickClaim, TickDrain
  <2> QED BY <2>2, <2>3, <2>4 DEF UnderWay
<1>2. CASE UNCHANGED <<queues, inbox>>
  BY <1>2 DEF UnderWay
<1>3. ASSUME NEW k \in Nodes, inbox[k] # << >>,
             \A j \in Nodes : Range(inbox'[j]) \subseteq Range(Consumed(k)[j]) \cup {g \in Frame : g.kind \notin ContestKinds},
             queues' = queues
      PROVE  f \in UnderWay(m)
  BY <1>3, ConsumedOffers DEF UnderWay
<1>4. ASSUME NEW k \in Nodes, inbox[k] # << >>, inbox' = Consumed(k), queues' = queues
      PROVE  f \in UnderWay(m)
  BY <1>3, <1>4
<1>5. ASSUME NEW k \in Nodes, HandleClaim(k)
      PROVE  f \in UnderWay(m) \/ (address' = address /\ Own(k, f))
  <2> DEFINE g == AddressConflict(address[k], k)
  <2>1. inbox[k] # << >> /\ inbox' = Consumed(k) /\ Head(inbox[k]).kind = "address_claim"
    BY <1>5 DEF HandleClaim, Receives
  <2>2. CASE queues' = queues
    BY <1>4, <2>1, <2>2
  <2>3. CASE queues' # queues
    <3>1. /\ queues' = [queues EXCEPT ![k] = Enqueue(@, g)] /\ address' = address
          /\ Head(inbox[k]).src = address[k]
      BY <1>5, <2>3 DEF HandleClaim, claims
    <3>2. address[k] \in Addresses
      BY <2>1, <3>1, ConsumedType DEF Frame
    <3>3. g \in QueuedFrame /\ Own(k, g)
      BY <3>2, FrameTypes DEF Own, AddressConflict, Contested
    <3> HIDE DEF g
    <3>4. queues \in [Nodes -> Queues]
      BY DEF TypeOK, Queues
    <3>5. FramesIn(queues'[m]) \subseteq FramesIn(queues[m]) \cup {g}
                /\ (m # k => queues'[m] = queues[m])
      BY <3>1, <3>3, <3>4, EnqueueFrames
    <3>6. Range(inbox'[m]) \subseteq Range(inbox[m])
      BY <2>1, ConsumedOffers
    <3> QED BY <3>1, <3>3, <3>5, <3>6 DEF UnderWay
  <2> QED BY <2>2, <2>3
<1>6. ASSUME NEW k \in Nodes, HandleRequest(k) \/ HandleConflict(k) \/ HandleAssign(k) \/ Miss(k)
      PROVE  f \in UnderWay(m)
  BY <1>4, <1>6 DEF HandleRequest, HandleConflict, HandleAssign, Miss, Receives, node
<1>7. ASSUME NEW k \in Nodes, HandleResponse(k) PROVE f \in UnderWay(m)
  <2> DEFINE g == AddressAssign(address[k], Head(inbox[k]).uid, LowestFree(k))
  <2>1. inbox[k] # << >> /\ queues' = queues
    BY <1>7 DEF HandleResponse, Receives, node
  <2>2. CASE inbox' = Consumed(k)
    BY <1>4, <2>1, <2>2
  <2>3. CASE inbox' # Consumed(k)
    <3>1. Answers(k, Head(inbox[k])) /\ inbox' = OnBus(Consumed(k), k, g)
      BY <1>7, <2>3 DEF HandleResponse
    <3>2. LowestFree(k) \in Addresses /\ address[k] \in Addresses
      BY <3>1, LowestFreeIsFree DEF Answers, Free, TypeOK, Stores
    <3>3. Head(inbox[k]).uid \in Nodes
      BY <2>1, ConsumedType DEF Frame
    <3>4. g \in Frame /\ g.kind \notin ContestKinds
      BY <3>2, <3>3, FrameTypes DEF AddressAssign, ContestKinds
    <3> HIDE DEF g
    <3>5. Consumed(k) \in Inboxes
      BY <2>1, ConsumedType
    <3>6. \A j \in Nodes : Range(inbox'[j]) \subseteq Range(Consumed(k)[j]) \cup {g}
      BY <3>1, <3>4, <3>5, OnBusOffers
    <3> QED BY <1>3, <2>1, <3>4, <3>6
  <2> QED BY <2>2, <2>3
<1>8. ASSUME NEW k \in Nodes, Restart(k) PROVE f \in UnderWay(m)
  <2>1. /\ inbox'[m] = IF m = k THEN << >> ELSE inbox[m]
        /\ queues'[m] = IF m = k THEN EmptyQueues ELSE queues[m]
    BY <1>8 DEF Restart, TypeOK
  <2>2. Range(<< >>) = {} /\ FramesIn(EmptyQueues) = {}
    BY DEF Range, FramesIn, EmptyQueues
  <2> QED BY <2>1, <2>2 DEF UnderWay
<1>9. ASSUME NEW k \in Nodes, BackoffElapses(k) \/ ClaimDelayElapses(k)
      PROVE  f \in UnderWay(m)
  BY <1>2, <1>9 DEF BackoffElapses, ClaimDelayElapses, UnderWay
<1>10. CASE UNCHANGED vars
  BY <1>10 DEF vars, UnderWay
<1>11. \A k \in Nodes : Own(k, f) => address[k] \in Addresses /\ f.uid = k /\ Contested(f) = address[k]
  BY DEF Own
<1> QED BY <1>1, <1>5, <1>6, <1>7, <1>8, <1>9, <1>10, <1>11 DEF Next, Receive

(* What a step does to the address of node l: nothing; it withdraws, for a lower    *)
(* UID that contests its address; it adopts another address; it starts with the     *)
(* one in its flash; or the silence ends during which it may not claim.             *)
LEMMA NodeSteps ==
  ASSUME TypeOK, [Next]_vars, NEW l \in Nodes
  PROVE  \/ address'[l] = address[l] /\ stored'[l] = stored[l] /\ claimDelay'[l] = claimDelay[l]
         \/ /\ address'[l] = Unassigned /\ stored'[l] = stored[l] /\ claimDelay'[l]
            /\ \A m \in Nodes \ {l} : address'[m] = address[m] /\ stored'[m] = stored[m]
                                        /\ claimDelay'[m] = claimDelay[m]
            /\ \E h \in UnderWay(l) : h.kind \in ContestKinds /\ Contested(h) = address[l]
                                        /\ h.uid \in Nodes /\ h.uid < l
         \/ address'[l] = stored'[l] /\ stored'[l] # Unassigned /\ claimDelay'[l]
         \/ /\ address'[l] = stored'[l] /\ claimDelay'[l]
            /\ stored[l] # Unassigned => stored'[l] = stored[l]
         \/ address'[l] = address[l] /\ Quiet /\ Quiet'
<1> DEFINE Same == address'[l] = address[l] /\ stored'[l] = stored[l] /\ claimDelay'[l] = claimDelay[l]
           Leaves == /\ address'[l] = Unassigned /\ stored'[l] = stored[l] /\ claimDelay'[l]
                     /\ \A m \in Nodes \ {l} : address'[m] = address[m] /\ stored'[m] = stored[m]
                                        /\ claimDelay'[m] = claimDelay[m]
                     /\ \E h \in UnderWay(l) : h.kind \in ContestKinds /\ Contested(h) = address[l]
                                        /\ h.uid \in Nodes /\ h.uid < l
<1>1. ASSUME NEW k \in Nodes, Tick(k) \/ BackoffElapses(k) \/ HandleRequest(k)
                                \/ HandleResponse(k) \/ Miss(k)
      PROVE  Same
  BY <1>1 DEF Tick, TickResponse, TickDiscovery, TickClaim, TickDrain, BackoffElapses,
              HandleRequest, HandleResponse, Miss, memory, claims, node
<1>2. ASSUME NEW k \in Nodes, Withdraw(k), UNCHANGED stored, inbox[k] # << >>,
             Head(inbox[k]).kind \in ContestKinds, Contested(Head(inbox[k])) = address[k],
             Head(inbox[k]).uid < k
      PROVE  Same \/ Leaves
  <2>1. CASE k = l
    <3>1. Head(inbox[k]) \in UnderWay(k) /\ Head(inbox[k]).uid \in Nodes
      BY <1>2, ConsumedType, ConsumedOffers DEF UnderWay, Frame
    <3>2. /\ address'[l] = Unassigned /\ stored'[l] = stored[l] /\ claimDelay'[l]
          /\ \A m \in Nodes \ {l} : address'[m] = address[m] /\ stored'[m] = stored[m]
                                     /\ claimDelay'[m] = claimDelay[m]
      BY <1>2, <2>1 DEF Withdraw, TypeOK, Stores
    <3> QED BY <1>2, <2>1, <3>1, <3>2
  <2>2. CASE k # l
    BY <1>2, <2>2 DEF Withdraw, TypeOK, Stores
  <2> QED BY <2>1, <2>2
<1>3. ASSUME NEW k \in Nodes, HandleClaim(k) PROVE Same \/ Leaves
  <2> DEFINE h == Head(inbox[k])
  <2>1. inbox[k] # << >> /\ h.kind = "address_claim" /\ UNCHANGED stored
    BY <1>3 DEF HandleClaim, Receives
  <2>2. CASE UNCHANGED <<address, claims>>
    BY <2>1, <2>2 DEF claims
  <2>3. CASE Withdraw(k) /\ h.src = address[k] /\ h.uid # k /\ ~OwnUidWins(k, h.uid)
    <3>1. h.uid \in Nodes
      BY <2>1, ConsumedType DEF Frame
    <3>2. h.uid < k
      <4>1. h.uid \in Nat /\ k \in Nat /\ h.uid # k /\ ~(k < h.uid)
        BY <2>3, <3>1, CommissioningAssumption DEF OwnUidWins
      <4> HIDE DEF h
      <4> QED BY <4>1
    <3> QED BY <1>2, <2>1, <2>3, <3>2 DEF Contested, ContestKinds
  <2> QED BY <1>3, <2>2, <2>3 DEF HandleClaim
<1>4. ASSUME NEW k \in Nodes, HandleConflict(k) PROVE Same \/ Leaves
  <2> DEFINE h == Head(inbox[k])
  <2>1. inbox[k] # << >> /\ h.kind = "address_conflict" /\ UNCHANGED stored
    BY <1>4 DEF HandleConflict, Receives, memory
  <2>2. CASE UNCHANGED <<address, claims>>
    BY <2>1, <2>2 DEF claims
  <2>3. CASE Withdraw(k) /\ h.dst = address[k] /\ WinnerIsLower(k, h.uid)
    BY <1>2, <2>1, <2>3 DEF Contested, ContestKinds, WinnerIsLower
  <2> QED BY <1>4, <2>2, <2>3 DEF HandleConflict
<1>5. ASSUME NEW k \in Nodes, HandleAssign(k)
      PROVE  Same \/ (address'[l] = stored'[l] /\ stored'[l] # Unassigned /\ claimDelay'[l])
  <2> DEFINE b == Head(inbox[k]).addr
  <2>1. b # Unassigned
    BY <1>5, ConsumedType DEF HandleAssign, Receives, Frame
  <2>2. PICK saved \in BOOLEAN :
          /\ stored' = IF saved THEN [stored EXCEPT ![k] = b] ELSE stored
          /\ AdoptIfSaved(k, b, saved)
    BY <1>5 DEF HandleAssign
  <2> HIDE DEF b
  <2>3. CASE ~saved
    BY <2>2, <2>3 DEF AdoptIfSaved, claims
  <2>4. CASE saved
    BY <2>1, <2>2, <2>4 DEF AdoptIfSaved, Adopt, TypeOK, Stores
  <2> QED BY <2>3, <2>4
<1>6. ASSUME NEW k \in Nodes, Restart(k)
      PROVE  Same \/ /\ address'[l] = stored'[l] /\ claimDelay'[l]
                     /\ stored[l] # Unassigned => stored'[l] = stored[l]
  <2>1. PICK saved \in BOOLEAN : stored' = [stored EXCEPT ![k] = BootAddress(k, @, saved)]
    BY <1>6 DEF Restart
  <2>2. CASE k = l
    BY <1>6, <2>1, <2>2 DEF Restart, BootAddress, TypeOK, Stores
  <2>3. CASE k # l
    BY <1>6, <2>1, <2>3 DEF Restart, TypeOK, Stores
  <2> QED BY <2>2, <2>3
<1>7. ASSUME NEW k \in Nodes, ClaimDelayElapses(k) PROVE address'[l] = address[l] /\ Quiet /\ Quiet'
  BY <1>7 DEF ClaimDelayElapses, Quiet
<1>8. ASSUME UNCHANGED vars PROVE Same
  BY <1>8 DEF vars
<1> HIDE DEF Same, Leaves
<1>9. \/ Same \/ Leaves
      \/ address'[l] = stored'[l] /\ stored'[l] # Unassigned /\ claimDelay'[l]
      \/ /\ address'[l] = stored'[l] /\ claimDelay'[l]
         /\ stored[l] # Unassigned => stored'[l] = stored[l]
      \/ address'[l] = address[l] /\ Quiet /\ Quiet'
  BY <1>1, <1>3, <1>4, <1>5, <1>6, <1>7, <1>8 DEF Next, Receive
<1> QED BY <1>9 DEF Same, Leaves

(* A step keeps a node behind every message that contests an address.             *)
LEMMA BackedNext ==
  ASSUME TypeOK, PersistedBeforeUse, Backed, [Next]_vars
  PROVE  Backed'
<1> SUFFICES ASSUME NEW m \in Nodes, NEW f \in UnderWay(m)', f.kind \in ContestKinds,
                    Contested(f) \in Addresses
             PROVE  \E l \in Nodes : Backs(l, f.uid, Contested(f))'
  BY DEF Backed, Contested
<1> DEFINE u == f.uid
           a == Contested(f)
<1>0. a # Unassigned
  BY CommissioningAssumption DEF Unassigned, Addresses
<1>1. ASSUME NEW k \in Nodes, address' = address, address[k] \in Addresses,
             f.uid = k, Contested(f) = address[k]
      PROVE  Backs(k, u, a)'
  BY <1>1, CommissioningAssumption DEF Backs, Contested
<1>2. ASSUME NEW k \in Nodes, f \in UnderWay(k)
      PROVE  \E l \in Nodes : Backs(l, u, a)'
  <2>1. PICK l \in Nodes : Backs(l, u, a)
    BY <1>2 DEF Backed
  <2>0. u \in Nodes
    BY <1>2, UnderWayType
  <2> HIDE DEF u, a
  <2>2. ~Quiet'
    <3>1. f \in Range(inbox'[m]) \/ \E c \in Classes : f \in Range(queues'[m][c])
      BY DEF UnderWay, FramesIn
    <3>2. Range(<< >>) = {}
      BY DEF Range
    <3> QED BY <3>1, <3>2 DEF Quiet, Waiting
  <2>3. address[l] = a => stored[l] = a
    BY <1>0 DEF PersistedBeforeUse
  <2>4. CASE address'[l] = address[l] /\ stored'[l] = stored[l] /\ claimDelay'[l] = claimDelay[l]
    BY <2>1, <2>4 DEF Backs, HasMoved
  <2>5. CASE /\ address'[l] = Unassigned /\ stored'[l] = stored[l] /\ claimDelay'[l]
             /\ \A j \in Nodes \ {l} : address'[j] = address[j] /\ stored'[j] = stored[j]
                                         /\ claimDelay'[j] = claimDelay[j]
             /\ \E h \in UnderWay(l) : h.kind \in ContestKinds /\ Contested(h) = address[l]
                                         /\ h.uid \in Nodes /\ h.uid < l
    <3>1. CASE address[l] # a
      BY <2>1, <2>5, <3>1 DEF Backs, HasMoved
    <3>2. CASE address[l] = a
      <4>1. PICK h \in UnderWay(l) : /\ h.kind \in ContestKinds /\ Contested(h) = a
                                     /\ h.uid \in Nodes /\ h.uid < l
        BY <2>5, <3>2
      <4>2. PICK j \in Nodes : Backs(j, h.uid, a)
        BY <4>1 DEF Backed, a
      <4>3. j # l /\ j <= u
        <5>1. j \in Nat /\ l \in Nat /\ h.uid \in Nat /\ u \in Nat
          BY <2>0, <4>1, CommissioningAssumption
        <5>2. j <= h.uid /\ l <= u
          BY <2>1, <4>2 DEF Backs
        <5> QED BY <4>1, <5>1, <5>2
      <4> QED BY <2>5, <4>2, <4>3 DEF Backs, HasMoved
    <3> QED BY <3>1, <3>2
  <2>6. CASE address'[l] = stored'[l] /\ stored'[l] # Unassigned /\ claimDelay'[l]
    BY <2>1, <2>6 DEF Backs, HasMoved
  <2>7. CASE /\ address'[l] = stored'[l] /\ claimDelay'[l]
             /\ stored[l] # Unassigned => stored'[l] = stored[l]
    BY <1>0, <2>1, <2>3, <2>7 DEF Backs, HasMoved
  <2> QED BY <2>2, <2>4, <2>5, <2>6, <2>7, NodeSteps
<1> QED BY <1>1, <1>2, ContestsUnderWay DEF Backs, Contested

(* A node withdraws only when a lower UID uses the address, or has just gone over     *)
(* to another one and the bus has not been silent since; for any nodes, flashes,      *)
(* losses, restarts and refused saves.                                               *)
THEOREM WithdrawalsServeLower == Spec => WithdrawsForLower
<1> DEFINE Serves == \A n \in Nodes :
             address[n] # Unassigned /\ address'[n] = Unassigned
               => \E m \in Nodes : m < n /\ (address[m] = address[n] \/ HasMoved(m, address[n]))
<1>1. Init => Backed
  <2> SUFFICES ASSUME Init PROVE Backed
    OBVIOUS
  <2>1. \A n \in Nodes : UnderWay(n) = {}
    BY DEF Init, UnderWay, FramesIn, EmptyQueues, Range
  <2> QED BY <2>1 DEF Backed
<1>2. TypeOK /\ PersistedBeforeUse /\ Backed /\ [Next]_vars => Backed'
  BY BackedNext
<1>3. TypeOK /\ PersistedBeforeUse /\ Backed /\ [Next]_vars => [Serves]_vars
  <2> SUFFICES ASSUME TypeOK, PersistedBeforeUse, Backed, [Next]_vars, NEW n \in Nodes,
                      address[n] # Unassigned, address'[n] = Unassigned
               PROVE  \E m \in Nodes : m < n /\ (address[m] = address[n] \/ HasMoved(m, address[n]))
    OBVIOUS
  <2>1. PICK h \in UnderWay(n) : /\ h.kind \in ContestKinds /\ Contested(h) = address[n]
                                 /\ h.uid \in Nodes /\ h.uid < n
    BY NodeSteps DEF PersistedBeforeUse
  <2>2. address[n] \in Addresses
    BY DEF TypeOK, Stores
  <2>3. PICK l \in Nodes : Backs(l, h.uid, address[n])
    BY <2>1, <2>2 DEF Backed
  <2>4. l \in Nat /\ h.uid \in Nat /\ n \in Nat /\ l <= h.uid /\ h.uid < n
    BY <2>1, <2>3, CommissioningAssumption DEF Backs
  <2>5. l < n
    BY <2>4
  <2> QED BY <2>3, <2>5 DEF Backs
<1> HIDE DEF Serves
<1>4. Spec => [][Serves]_vars
  BY <1>1, <1>2, <1>3, TypeCorrect, AddressPersisted, PTL DEF Spec
<1> QED BY <1>4 DEF Serves, WithdrawsForLower

-----------------------------------------------------------------------------
(* The copies of frame f that node u has not sent yet or node v has not handled. *)
Way(f, u, v) == Copies(f, queues[u][ClassOf(f)]) + Copies(f, inbox[v])

(* The messages by which a node holds or defends an address; every node handles   *)
(* them.                                                                        *)
Contest == {f \in QueuedFrame : f.kind \in {"address_claim", "address_conflict"}}

(* What the copies under way are, and that they are numbers.                     *)
LEMMA WayType ==
  ASSUME TypeOK, NEW f \in Contest, NEW u \in Nodes, NEW v \in Nodes
  PROVE  /\ f \in Frame /\ ClassOf(f) \in Classes /\ (\A m : ~Ignores(m, f))
         /\ queues[u][ClassOf(f)] \in Seq(QueuedFrame) /\ inbox[v] \in Seq(Frame)
         /\ Copies(f, queues[u][ClassOf(f)]) \in Nat /\ Copies(f, inbox[v]) \in Nat
         /\ Way(f, u, v) \in Nat
<1>1. f \in Frame /\ ClassOf(f) \in Classes /\ \A m : ~Ignores(m, f)
  BY DEF Contest, QueuedFrame, ClassOf, Classes, Control, Management, Diagnostic, Ignores
<1>2. queues[u][ClassOf(f)] \in Seq(QueuedFrame) /\ inbox[v] \in Seq(Frame)
  BY <1>1 DEF TypeOK
<1>3. Copies(f, queues[u][ClassOf(f)]) \in Nat /\ Copies(f, inbox[v]) \in Nat
  BY <1>2, CopiesType
<1> QED BY <1>1, <1>2, <1>3 DEF Way

(* The same of the state after a step.                                          *)
LEMMA WayTypeNext ==
  ASSUME TypeOK', NEW f \in Contest, NEW u \in Nodes, NEW v \in Nodes
  PROVE  /\ Copies(f, queues'[u][ClassOf(f)]) \in Nat /\ Copies(f, inbox'[v]) \in Nat
         /\ Way(f, u, v)' = Copies(f, queues'[u][ClassOf(f)]) + Copies(f, inbox'[v])
         /\ Way(f, u, v)' \in Nat
<1>1. ClassOf(f) \in Classes
  BY DEF Contest, QueuedFrame, ClassOf, Classes, Control, Management, Diagnostic
<1>2. queues'[u][ClassOf(f)] \in Seq(QueuedFrame) /\ inbox'[v] \in Seq(Frame)
  BY <1>1 DEF TypeOK
<1>3. Copies(f, queues'[u][ClassOf(f)]) \in Nat /\ Copies(f, inbox'[v]) \in Nat
  BY <1>2, CopiesType
<1>4. Way(f, u, v)' = Copies(f, queues'[u][ClassOf(f)]) + Copies(f, inbox'[v])
  BY DEF Way
<1> QED BY <1>3, <1>4

(* A frame on the bus arrives at every other node that does not ignore it, and    *)
(* takes nothing out of a receive buffer.                                       *)
LEMMA OnBusCopies ==
  ASSUME NEW box \in Inboxes, NEW k, NEW g \in Frame, NEW f, NEW v \in Nodes
  PROVE  /\ Copies(f, OnBus(box, k, g)[v]) >= Copies(f, box[v])
         /\ g = f /\ v # k /\ ~Ignores(v, f)
              => Copies(f, OnBus(box, k, g)[v]) = Copies(f, box[v]) + 1
<1>1. box[v] \in Seq(Frame)
  BY DEF Inboxes
<1>2. Copies(f, box[v]) \in Nat
  BY <1>1, CopiesType
<1>3. Copies(f, Append(box[v], g)) = IF g = f THEN Copies(f, box[v]) + 1 ELSE Copies(f, box[v])
  BY <1>1, CopiesAppend
<1>4. OnBus(box, k, g)[v] = IF v = k \/ Ignores(v, g) THEN box[v] ELSE Append(box[v], g)
  BY DEF OnBus
<1> QED BY <1>2, <1>3, <1>4

(* drain_one of node k, with q queued: a claim or conflict message of k is still  *)
(* queued, or at v, or the drain counts a loss; those of the others stay.        *)
LEMMA DrainWay ==
  ASSUME TypeOK, NEW k \in Nodes, NEW q \in Queues, DrainOne(k, q),
         NEW f \in Contest, NEW v \in Nodes
  PROVE  /\ losses' \in Nat /\ losses' >= losses
         /\ Copies(f, inbox'[v]) >= Copies(f, inbox[v])
         /\ \A u \in Nodes \ {k} : queues'[u] = queues[u]
         /\ v # k => Copies(f, queues'[k][ClassOf(f)]) + Copies(f, inbox'[v]) + losses'
                        >= Copies(f, q[ClassOf(f)]) + Copies(f, inbox[v]) + losses
<1> DEFINE c == ClassOf(f)
<1>0. PICK w \in Outcomes(q) :
        /\ queues' = [queues EXCEPT ![k] = Drained(q, w)]
        /\ inbox' = IF w = NoClass THEN inbox ELSE OnBus(inbox, k, Head(q[w]))
        /\ IF Refused(q, w) = {} THEN losses' = losses ELSE losses' = losses + 1
  BY DEF DrainOne
<1>1. /\ losses \in Nat /\ c \in Classes /\ q[c] \in Seq(QueuedFrame) /\ f \in Frame
      /\ inbox \in Inboxes /\ queues \in [Nodes -> Queues] /\ ~Ignores(v, f)
      /\ Copies(f, inbox[v]) \in Nat
  BY WayType DEF TypeOK, Inboxes, Queues
<1>2. losses' \in Nat /\ losses' >= losses
  BY <1>0, <1>1
<1>3. w # NoClass => Head(q[w]) \in Frame
  BY DrainPreserves DEF Queues, QueuedFrame
<1>4. Copies(f, inbox'[v]) >= Copies(f, inbox[v])
  BY <1>0, <1>1, <1>3, OnBusCopies
<1>5. queues'[k] = Drained(q, w) /\ \A u \in Nodes \ {k} : queues'[u] = queues[u]
  BY <1>0, <1>1
<1>6. Copies(f, q[c]) \in Nat
  BY <1>1, CopiesType
<1>7. Copies(f, inbox'[v]) \in Nat
  <2>1. inbox'[v] \in Seq(Frame)
    BY DrainOneType DEF Inboxes
  <2> QED BY <2>1, CopiesType
<1>8. ASSUME v # k
      PROVE  Copies(f, queues'[k][c]) + Copies(f, inbox'[v]) + losses'
               >= Copies(f, q[c]) + Copies(f, inbox[v]) + losses
  <2>1. CASE ~(c \in Waiting(q) /\ c <= w)
    <3>1. queues'[k][c] = q[c]
      BY <1>1, <1>5, <2>1 DEF Drained
    <3> QED BY <1>1, <1>2, <1>4, <1>6, <1>7, <3>1
  <2>2. CASE c \in Waiting(q) /\ c <= w
    <3>1. queues'[k][c] = Tail(q[c]) /\ q[c] # << >>
      BY <1>1, <1>5, <2>2 DEF Drained, Waiting
    <3>2. Copies(f, q[c]) = IF Head(q[c]) = f THEN Copies(f, Tail(q[c])) + 1
                            ELSE Copies(f, Tail(q[c]))
      BY <1>1, <3>1, CopiesTail
    <3>3. Copies(f, Tail(q[c])) \in Nat
      BY <1>1, <3>1, HeadTailProperties, CopiesType
    <3>4. CASE c # w
      <4>1. c \in Refused(q, w)
        BY <1>1, <2>2, <3>4 DEF Refused, Waiting, Classes, Outcomes, NoClass, Diagnostic, Control
      <4>2. losses' = losses + 1
        BY <1>0, <4>1
      <4> QED BY <1>1, <1>4, <1>6, <1>7, <3>1, <3>2, <3>3, <4>2
    <3>5. CASE c = w
      <4>1. inbox' = OnBus(inbox, k, Head(q[c])) /\ Head(q[c]) \in Frame
        BY <1>0, <1>1, <1>3, <3>5 DEF NoClass, Diagnostic, Classes, Control
      <4>2. CASE Head(q[c]) = f
        <5>1. Copies(f, inbox'[v]) = Copies(f, inbox[v]) + 1
          BY <1>1, <1>8, <4>1, <4>2, OnBusCopies
        <5> QED BY <1>1, <1>2, <3>1, <3>2, <3>3, <4>2, <5>1
      <4>3. CASE Head(q[c]) # f
        BY <1>1, <1>2, <1>4, <1>7, <3>1, <3>2, <3>3, <4>3
      <4> QED BY <4>2, <4>3
    <3> QED BY <3>4, <3>5
  <2> QED BY <2>1, <2>2
<1> QED BY <1>2, <1>4, <1>5, <1>8

(* enqueue takes no copy away, and adds the frame when the queue is not full.     *)
LEMMA EnqueueCopies ==
  ASSUME NEW q \in Queues, NEW g \in QueuedFrame, NEW c \in Classes, NEW f
  PROVE  /\ Copies(f, Enqueue(q, g)[c]) >= Copies(f, q[c])
         /\ g = f /\ c = ClassOf(f) /\ Len(q[c]) < QueueSize
              => Copies(f, Enqueue(q, g)[c]) = Copies(f, q[c]) + 1
<1>1. q[c] \in Seq(QueuedFrame) /\ Len(q[c]) \in Nat
  BY LenProperties DEF Queues
<1>2. Copies(f, q[c]) \in Nat
  BY <1>1, CopiesType
<1>3. Copies(f, Append(q[c], g)) = IF g = f THEN Copies(f, q[c]) + 1 ELSE Copies(f, q[c])
  BY <1>1, CopiesAppend
<1>4. Enqueue(q, g)[c] = IF c # ClassOf(g) \/ Len(q[c]) = QueueSize THEN q[c] ELSE Append(q[c], g)
  BY DEF Enqueue, Add, Queues
<1> QED BY <1>1, <1>2, <1>3, <1>4, QueueSizeAssumption

(* No transmit queue is full: no message is dropped before it was ever tried.      *)
NoneFull == \A n \in Nodes, c \in Classes : Len(queues[n][c]) < QueueSize

(* A tick counts what it loses of the messages of its own node, takes nothing of    *)
(* the others, and adds the claim it counts as sent.                              *)
LEMMA TickWay ==
  ASSUME TypeOK, NoneFull, NEW k \in Nodes, Tick(k),
         NEW f \in Contest, NEW u \in Nodes, NEW v \in Nodes, u # v
  PROVE  /\ losses' \in Nat /\ losses' >= losses
         /\ u # k => Way(f, u, v)' >= Way(f, u, v)
         /\ u = k => Way(f, u, v)' + losses' >= Way(f, u, v) + losses
         /\ u = k /\ claims_sent'[k] # claims_sent[k] /\ f = AddressClaim(k, address[k])
              => Way(f, u, v)' + losses' >= Way(f, u, v) + 1 + losses
<1> DEFINE c == ClassOf(f)
<1>0. /\ queues[k] \in Queues /\ c \in Classes /\ queues[u] \in Queues
      /\ Copies(f, queues[u][c]) \in Nat /\ Copies(f, inbox[v]) \in Nat
      /\ losses \in Nat /\ Len(queues[k][c]) < QueueSize
  BY WayType DEF TypeOK, Queues, NoneFull
<1>1. ASSUME NEW q \in Queues, DrainOne(k, q), Copies(f, q[c]) >= Copies(f, queues[k][c])
      PROVE  /\ losses' \in Nat /\ losses' >= losses
             /\ u # k => Way(f, u, v)' >= Way(f, u, v)
             /\ u = k => Way(f, u, v)' + losses' >= Copies(f, q[c]) + Copies(f, inbox[v]) + losses
             /\ u = k => Way(f, u, v)' + losses' >= Way(f, u, v) + losses
  <2>1. q[c] \in Seq(QueuedFrame)
    BY <1>0 DEF Queues
  <2>2. Copies(f, q[c]) \in Nat
    BY <2>1, CopiesType
  <2>3. /\ inbox'[v] \in Seq(Frame) /\ queues'[u][c] \in Seq(QueuedFrame)
    BY <1>0, <1>1, DrainOneType DEF Inboxes, Queues
  <2>4. Copies(f, inbox'[v]) \in Nat /\ Copies(f, queues'[u][c]) \in Nat
    BY <2>3, CopiesType
  <2>5. /\ losses' \in Nat /\ losses' >= losses
        /\ Copies(f, inbox'[v]) >= Copies(f, inbox[v])
        /\ u # k => queues'[u] = queues[u]
        /\ v # k => Copies(f, queues'[k][c]) + Copies(f, inbox'[v]) + losses'
                        >= Copies(f, q[c]) + Copies(f, inbox[v]) + losses
    BY <1>1, DrainWay
  <2>6. Way(f, u, v)' = Copies(f, queues'[u][c]) + Copies(f, inbox'[v])
    BY DEF Way
  <2> HIDE DEF c
  <2> QED BY <1>0, <1>1, <2>2, <2>4, <2>5, <2>6 DEF Way, c
<1>2. PICK q \in Queues :
        /\ DrainOne(k, q)
        /\ q = queues[k] \/ \E g \in QueuedFrame : q = Enqueue(queues[k], g)
        /\ claims_sent'[k] # claims_sent[k] =>
             address[k] # Unassigned /\ q = Enqueue(queues[k], AddressClaim(k, address[k]))
  BY TickDrains
<1>3. Copies(f, q[c]) >= Copies(f, queues[k][c])
  <2>1. Copies(f, queues[k][c]) \in Nat
    BY WayType
  <2>2. \A g \in QueuedFrame : Copies(f, Enqueue(queues[k], g)[c]) >= Copies(f, queues[k][c])
    BY <1>0, EnqueueCopies
  <2> QED BY <1>2, <2>1, <2>2
<1>4. ASSUME u = k, claims_sent'[k] # claims_sent[k], f = AddressClaim(k, address[k])
      PROVE  Copies(f, q[c]) = Copies(f, queues[u][c]) + 1
  <2>1. q = Enqueue(queues[k], f)
    BY <1>2, <1>4
  <2>2. f \in QueuedFrame
    BY DEF Contest
  <2>3. c = ClassOf(f)
    OBVIOUS
  <2> HIDE DEF c
  <2>4. Copies(f, Enqueue(queues[k], f)[c]) = Copies(f, queues[k][c]) + 1
    BY <1>0, <2>2, <2>3, EnqueueCopies
  <2> QED BY <1>4, <2>1, <2>4
<1> HIDE DEF c
<1>5. Way(f, u, v) = Copies(f, queues[u][c]) + Copies(f, inbox[v])
  BY DEF Way, c
<1>7. /\ losses' \in Nat /\ losses' >= losses
      /\ u # k => Way(f, u, v)' >= Way(f, u, v)
      /\ u = k => Way(f, u, v)' + losses' >= Copies(f, q[c]) + Copies(f, inbox[v]) + losses
      /\ u = k => Way(f, u, v)' + losses' >= Way(f, u, v) + losses
  BY <1>1, <1>2, <1>3
<1> QED BY <1>0, <1>4, <1>5, <1>7

(* Handling a frame takes one copy of it out of the way, and none of any other.      *)
LEMMA HandledWay ==
  ASSUME TypeOK, TypeOK', NEW k \in Nodes, inbox[k] # << >>,
         inbox' = Consumed(k) \/ \E g \in Frame : inbox' = OnBus(Consumed(k), k, g),
         NEW f \in Contest, NEW u \in Nodes, NEW v \in Nodes,
         Copies(f, queues'[u][ClassOf(f)]) >= Copies(f, queues[u][ClassOf(f)])
  PROVE  Way(f, u, v)' + (IF v = k /\ Head(inbox[k]) = f THEN 1 ELSE 0) >= Way(f, u, v)
<1>1. /\ Copies(f, queues[u][ClassOf(f)]) \in Nat
      /\ inbox[v] \in Seq(Frame) /\ Copies(f, inbox[v]) \in Nat
  BY WayType
<1>2. Consumed(k) \in Inboxes
  BY ConsumedType
<1>3. Copies(f, Consumed(k)[v]) \in Nat
  BY <1>2, CopiesType DEF Inboxes
<1>4. Copies(f, Consumed(k)[v]) + (IF v = k /\ Head(inbox[k]) = f THEN 1 ELSE 0)
        = Copies(f, inbox[v])
  <2>1. Consumed(k)[v] = IF v = k THEN Tail(inbox[k]) ELSE inbox[v]
    BY DEF Consumed, TypeOK
  <2>2. v = k => Copies(f, inbox[v]) = IF Head(inbox[k]) = f THEN Copies(f, Tail(inbox[k])) + 1
                                       ELSE Copies(f, Tail(inbox[k]))
    BY <1>1, CopiesTail
  <2> QED BY <1>1, <1>3, <2>1, <2>2
<1>5. Copies(f, inbox'[v]) >= Copies(f, Consumed(k)[v])
  BY <1>2, <1>3, OnBusCopies
<1>6. /\ Copies(f, inbox'[v]) \in Nat /\ Copies(f, queues'[u][ClassOf(f)]) \in Nat
      /\ Way(f, u, v)' = Copies(f, queues'[u][ClassOf(f)]) + Copies(f, inbox'[v])
  BY WayTypeNext
<1>7. Way(f, u, v) = Copies(f, queues[u][ClassOf(f)]) + Copies(f, inbox[v])
  BY DEF Way
<1> QED BY <1>1, <1>3, <1>4, <1>5, <1>6, <1>7

(***************************************************************************)
(* Why two claims and the answer to a claim settle a conflict.  While m and  *)
(* the higher n share address a, m gets rid of n with every claim of its own *)
(* that n handles, and answers every claim of n it handles.  So a claim that *)
(* m has sent is on its way to n or was lost; and of each claim that n has    *)
(* sent, the claim or the answer to it is on its way, or one of them was lost. *)
(* Either account would do; a tick or a loss cannot upset both for one of the *)
(* two nodes unless its claims are counted afresh.                            *)
(***************************************************************************)
Claims(m, n, a)  == Way(AddressClaim(m, a), m, n)
Answered(m, n, a) == Way(AddressClaim(n, a), n, m) + Way(AddressConflict(a, m), m, n)

Accounted(m, n, a) ==
  \/ claims_sent[m] <= Claims(m, n, a) + losses
  \/ claims_sent[n] <= Answered(m, n, a) + losses

SharedInv ==
  \A m, n \in Nodes : \A a \in Addresses :
    m < n /\ address[m] = a /\ address[n] = a => Accounted(m, n, a)

(* The frames the two nodes contest an address with.                             *)
LEMMA ContestFrames ==
  ASSUME NEW m \in Nodes, NEW n \in Nodes, m # n, NEW a \in Addresses
  PROVE  /\ AddressClaim(m, a) \in Contest
         /\ AddressConflict(a, m) \in Contest
         /\ AddressClaim(m, a) # AddressClaim(n, a)
         /\ AddressClaim(m, a).kind = "address_claim"
         /\ AddressClaim(m, a).src = a /\ AddressClaim(m, a).uid = m
         /\ AddressConflict(a, m).kind = "address_conflict"
         /\ AddressConflict(a, m).dst = a /\ AddressConflict(a, m).uid = m
<1>1. AddressClaim(m, a) \in QueuedFrame /\ AddressConflict(a, m) \in QueuedFrame
  BY FrameTypes
<1> QED BY <1>1 DEF Contest, AddressClaim, AddressConflict

(* Every step keeps the accounts as long as no message is dropped for want of      *)
(* room in a queue.                                                             *)
LEMMA SharedNext ==
  ASSUME TypeOK, NoneFull, SharedInv, [Next]_vars
  PROVE  SharedInv'
<1>t. TypeOK'
  BY NextType
<1> SUFFICES ASSUME NEW m \in Nodes, NEW n \in Nodes, NEW a \in Addresses,
                    m < n, address'[m] = a, address'[n] = a
             PROVE  Accounted(m, n, a)'
  BY DEF SharedInv
<1> DEFINE f0 == AddressClaim(m, a)
           f1 == AddressClaim(n, a)
           f2 == AddressConflict(a, m)
<1>n. m \in Nat /\ n \in Nat /\ m # n /\ a # Unassigned
  BY CommissioningAssumption DEF Unassigned, Addresses
<1>f. /\ f0 \in Contest /\ f1 \in Contest /\ f2 \in Contest /\ f0 # f1
      /\ f0.kind = "address_claim" /\ f0.src = a /\ f0.uid = m
      /\ f1.kind = "address_claim" /\ f1.src = a /\ f1.uid = n
      /\ f2.kind = "address_conflict" /\ f2.dst = a /\ f2.uid = m
  BY <1>n, ContestFrames
<1>c. /\ Claims(m, n, a) = Way(f0, m, n)
      /\ Answered(m, n, a) = Way(f1, n, m) + Way(f2, m, n)
      /\ Claims(m, n, a)' = Way(f0, m, n)'
      /\ Answered(m, n, a)' = Way(f1, n, m)' + Way(f2, m, n)'
  BY DEF Claims, Answered
<1> HIDE DEF f0, f1, f2
<1>w. /\ Way(f0, m, n) \in Nat /\ Way(f1, n, m) \in Nat /\ Way(f2, m, n) \in Nat
      /\ Way(f0, m, n)' \in Nat /\ Way(f1, n, m)' \in Nat /\ Way(f2, m, n)' \in Nat
  <2>1. Way(f0, m, n) \in Nat /\ Way(f1, n, m) \in Nat /\ Way(f2, m, n) \in Nat
    BY <1>f, WayType
  <2>2. Way(f0, m, n)' \in Nat /\ Way(f1, n, m)' \in Nat /\ Way(f2, m, n)' \in Nat
    BY <1>t, <1>f, WayTypeNext
  <2> QED BY <2>1, <2>2
<1>l. losses \in Nat /\ losses' \in Nat /\ \A k \in Nodes : claims_sent[k] \in Nat /\ claims_sent'[k] \in Nat
  <2>1. losses \in Nat /\ losses' \in Nat
    BY <1>t DEF TypeOK
  <2>2. claims_sent \in [Nodes -> 0..2] /\ claims_sent' \in [Nodes -> 0..2]
    BY <1>t DEF TypeOK
  <2> QED BY <2>1, <2>2
<1>Z. ASSUME claims_sent'[m] = 0 \/ claims_sent'[n] = 0 PROVE Accounted(m, n, a)'
  BY <1>Z, <1>c, <1>w, <1>l DEF Accounted
<1>S. ASSUME address[m] = a, address[n] = a,
             Way(f0, m, n)' + losses' + claims_sent[m] >= Way(f0, m, n) + losses + claims_sent'[m],
             Way(f1, n, m)' + Way(f2, m, n)' + losses' + claims_sent[n]
               >= Way(f1, n, m) + Way(f2, m, n) + losses + claims_sent'[n]
      PROVE  Accounted(m, n, a)'
  <2>1. Accounted(m, n, a)
    BY <1>S DEF SharedInv
  <2> QED BY <1>S, <1>c, <1>w, <1>l, <2>1 DEF Accounted
\* No copy of the three frames is handled, and none is lost.
<1>U. ASSUME address[m] = a, address[n] = a, claims_sent'[m] = claims_sent[m],
             claims_sent'[n] = claims_sent[n], losses' >= losses,
             Way(f0, m, n)' >= Way(f0, m, n), Way(f1, n, m)' >= Way(f1, n, m),
             Way(f2, m, n)' >= Way(f2, m, n)
      PROVE  Accounted(m, n, a)'
  <2>1. Accounted(m, n, a)
    BY <1>U DEF SharedInv
  <2>2. claims_sent[m] \in Nat /\ claims_sent[n] \in Nat
    BY <1>l
  <2>3. \/ claims_sent[m] <= Way(f0, m, n) + losses
        \/ claims_sent[n] <= Way(f1, n, m) + Way(f2, m, n) + losses
    BY <1>c, <2>1 DEF Accounted
  <2>4. \/ claims_sent[m] <= Way(f0, m, n)' + losses'
        \/ claims_sent[n] <= Way(f1, n, m)' + Way(f2, m, n)' + losses'
    BY <1>U, <1>w, <1>l, <2>2, <2>3
  <2> QED BY <1>U, <1>c, <2>4 DEF Accounted
<1>1. ASSUME NEW k \in Nodes, Tick(k) PROVE Accounted(m, n, a)'
  <2>0. /\ address' = address
        /\ \A j \in Nodes : j # k => claims_sent'[j] = claims_sent[j]
        /\ claims_sent'[k] = claims_sent[k] \/ claims_sent'[k] = claims_sent[k] + 1
    BY <1>1 DEF Tick, TickResponse, TickDiscovery, TickClaim, TickDrain, memory, claims, TypeOK
  <2>1. losses' >= losses
    BY <1>1, <1>f, <1>n, TickWay
  <2>2. /\ k # m => Way(f0, m, n)' >= Way(f0, m, n) /\ Way(f2, m, n)' >= Way(f2, m, n)
        /\ k # n => Way(f1, n, m)' >= Way(f1, n, m)
    BY <1>1, <1>f, <1>n, TickWay
  <2>3. /\ k = m => Way(f0, m, n)' + losses' >= Way(f0, m, n) + losses
        /\ k = m => Way(f2, m, n)' + losses' >= Way(f2, m, n) + losses
        /\ k = n => Way(f1, n, m)' + losses' >= Way(f1, n, m) + losses
    BY <1>1, <1>f, <1>n, TickWay
  <2>4. /\ k = m /\ claims_sent'[k] # claims_sent[k]
             => Way(f0, m, n)' + losses' >= Way(f0, m, n) + 1 + losses
        /\ k = n /\ claims_sent'[k] # claims_sent[k]
             => Way(f1, n, m)' + losses' >= Way(f1, n, m) + 1 + losses
    BY <1>1, <1>f, <1>n, <2>0, TickWay DEF f0, f1
  <2>5. CASE k = m
    BY <1>S, <1>n, <1>w, <1>l, <2>0, <2>1, <2>2, <2>3, <2>4, <2>5
  <2>6. CASE k = n
    BY <1>S, <1>n, <1>w, <1>l, <2>0, <2>1, <2>2, <2>3, <2>4, <2>6
  <2>7. CASE k # m /\ k # n
    BY <1>S, <1>w, <1>l, <2>0, <2>1, <2>2, <2>7
  <2> QED BY <2>5, <2>6, <2>7
<1>2. ASSUME UNCHANGED <<queues, inbox, address, claims_sent, losses>> PROVE Accounted(m, n, a)'
  <2>1. /\ Way(f0, m, n)' = Way(f0, m, n) /\ Way(f1, n, m)' = Way(f1, n, m)
        /\ Way(f2, m, n)' = Way(f2, m, n)
    BY <1>2 DEF Way
  <2> QED BY <1>2, <1>U, <1>w, <1>l, <2>1
\* What a handled or missed frame leaves on the way.
<1>h. ASSUME NEW k \in Nodes, inbox[k] # << >>,
             inbox' = Consumed(k) \/ \E g \in Frame : inbox' = OnBus(Consumed(k), k, g),
             queues' = queues
      PROVE  /\ (k = n /\ Head(inbox[k]) = f0) \/ Way(f0, m, n)' >= Way(f0, m, n)
             /\ (k = m /\ Head(inbox[k]) = f1) \/ Way(f1, n, m)' >= Way(f1, n, m)
             /\ (k = n /\ Head(inbox[k]) = f2) \/ Way(f2, m, n)' >= Way(f2, m, n)
             /\ Way(f0, m, n)' + 1 >= Way(f0, m, n)
             /\ Way(f1, n, m)' + 1 >= Way(f1, n, m)
             /\ Way(f2, m, n)' + 1 >= Way(f2, m, n)
  <2>1. ASSUME NEW f \in Contest, NEW u \in Nodes, NEW v \in Nodes
        PROVE  Way(f, u, v)' + (IF v = k /\ Head(inbox[k]) = f THEN 1 ELSE 0) >= Way(f, u, v)
    <3>1. Copies(f, queues'[u][ClassOf(f)]) >= Copies(f, queues[u][ClassOf(f)])
      BY <1>h, WayType
    <3> QED BY <1>h, <1>t, <3>1, HandledWay
  <2>2. /\ Way(f0, m, n)' + (IF n = k /\ Head(inbox[k]) = f0 THEN 1 ELSE 0) >= Way(f0, m, n)
        /\ Way(f1, n, m)' + (IF m = k /\ Head(inbox[k]) = f1 THEN 1 ELSE 0) >= Way(f1, n, m)
        /\ Way(f2, m, n)' + (IF n = k /\ Head(inbox[k]) = f2 THEN 1 ELSE 0) >= Way(f2, m, n)
    BY <1>f, <2>1
  <2> QED BY <1>w, <2>2
<1>3. ASSUME NEW k \in Nodes, HandleRequest(k) \/ HandleResponse(k) PROVE Accounted(m, n, a)'
  <2>1. /\ inbox[k] # << >>
        /\ Head(inbox[k]).kind \in {"discovery_request", "discovery_response"}
        /\ UNCHANGED <<queues, address, claims_sent>>
    BY <1>3 DEF HandleRequest, HandleResponse, Receives, claims, node
  <2>2. losses' >= losses
    BY <1>3, <1>l DEF HandleRequest, HandleResponse, bounds
  <2>3. inbox' = Consumed(k) \/ \E g \in Frame : inbox' = OnBus(Consumed(k), k, g)
    <3>1. CASE HandleRequest(k)
      BY <3>1 DEF HandleRequest
    <3>2. CASE HandleResponse(k) /\ inbox' # Consumed(k)
      <4> DEFINE g == AddressAssign(address[k], Head(inbox[k]).uid, LowestFree(k))
      <4>1. Answers(k, Head(inbox[k])) /\ inbox' = OnBus(Consumed(k), k, g)
        BY <3>2 DEF HandleResponse
      <4>2. LowestFree(k) \in Addresses /\ address[k] \in Addresses
        BY <4>1, LowestFreeIsFree DEF Answers, Free, TypeOK, Stores
      <4>3. Head(inbox[k]).uid \in Nodes
        BY <2>1, ConsumedType DEF Frame
      <4>4. g \in Frame
        BY <4>2, <4>3, FrameTypes
      <4> QED BY <4>1, <4>4
    <3> QED BY <1>3, <3>1, <3>2
  <2>4. Head(inbox[k]) # f0 /\ Head(inbox[k]) # f1 /\ Head(inbox[k]) # f2
    BY <1>f, <2>1
  <2>5. /\ Way(f0, m, n)' >= Way(f0, m, n) /\ Way(f1, n, m)' >= Way(f1, n, m)
        /\ Way(f2, m, n)' >= Way(f2, m, n)
    BY <1>h, <2>1, <2>3, <2>4
  <2> QED BY <1>U, <1>w, <2>1, <2>2, <2>5
<1>4. ASSUME NEW k \in Nodes, HandleAssign(k) PROVE Accounted(m, n, a)'
  <2>1. /\ inbox[k] # << >> /\ Head(inbox[k]).kind = "address_assign"
        /\ inbox' = Consumed(k) /\ UNCHANGED <<queues, losses>>
    BY <1>4 DEF HandleAssign, Receives
  <2>2. Head(inbox[k]) # f0 /\ Head(inbox[k]) # f1 /\ Head(inbox[k]) # f2
    BY <1>f, <2>1
  <2>w. /\ Way(f0, m, n)' >= Way(f0, m, n) /\ Way(f1, n, m)' >= Way(f1, n, m)
        /\ Way(f2, m, n)' >= Way(f2, m, n)
    BY <1>h, <2>1, <2>2
  <2>3. Adopt(k, Head(inbox[k]).addr) \/ UNCHANGED <<address, claims_sent>>
    BY <1>4 DEF HandleAssign, AdoptIfSaved, claims
  <2>4. CASE Adopt(k, Head(inbox[k]).addr) /\ k \in {m, n}
    BY <1>Z, <2>4 DEF Adopt, TypeOK
  <2>5. CASE Adopt(k, Head(inbox[k]).addr) /\ k \notin {m, n}
    <3>1. /\ address[m] = a /\ address[n] = a
          /\ claims_sent'[m] = claims_sent[m] /\ claims_sent'[n] = claims_sent[n]
      BY <2>5 DEF Adopt, TypeOK, Stores
    <3> QED BY <1>U, <1>l, <2>1, <2>w, <3>1
  <2>6. CASE UNCHANGED <<address, claims_sent>>
    BY <1>U, <1>w, <1>l, <2>1, <2>w, <2>6
  <2> QED BY <2>3, <2>4, <2>5, <2>6
<1>5. ASSUME NEW k \in Nodes, Miss(k) PROVE Accounted(m, n, a)'
  <2>1. /\ inbox[k] # << >> /\ inbox' = Consumed(k) /\ losses' = losses + 1
        /\ UNCHANGED <<address, claims_sent, queues>>
    BY <1>5 DEF Miss, node
  <2>2. Way(f0, m, n)' + 1 >= Way(f0, m, n)
    BY <1>h, <2>1
  <2>3. Way(f1, n, m)' + Way(f2, m, n)' + 1 >= Way(f1, n, m) + Way(f2, m, n)
    <3>1. /\ k = n \/ Way(f2, m, n)' >= Way(f2, m, n)
          /\ k = m \/ Way(f1, n, m)' >= Way(f1, n, m)
          /\ Way(f1, n, m)' + 1 >= Way(f1, n, m)
          /\ Way(f2, m, n)' + 1 >= Way(f2, m, n)
      BY <1>h, <2>1
    <3> QED BY <1>n, <1>w, <3>1
  <2>4. /\ address[m] = a /\ address[n] = a /\ losses' = losses + 1
        /\ claims_sent'[m] = claims_sent[m] /\ claims_sent'[n] = claims_sent[n]
    BY <2>1
  <2>5. Way(f0, m, n)' + losses' + claims_sent[m] >= Way(f0, m, n) + losses + claims_sent'[m]
    BY <1>w, <1>l, <2>2, <2>4
  <2>6. Way(f1, n, m)' + Way(f2, m, n)' + losses' + claims_sent[n]
          >= Way(f1, n, m) + Way(f2, m, n) + losses + claims_sent'[n]
    BY <1>w, <1>l, <2>3, <2>4
  <2> QED BY <1>S, <2>4, <2>5, <2>6
\* A node that withdraws is none of the two, which keep the address.
<1>6. ASSUME NEW k \in Nodes, Withdraw(k)
      PROVE  k # m /\ k # n /\ address[m] = a /\ address[n] = a
             /\ claims_sent'[m] = claims_sent[m] /\ claims_sent'[n] = claims_sent[n]
  BY <1>6, <1>n DEF Withdraw, TypeOK, Stores
<1>7. ASSUME NEW k \in Nodes, HandleConflict(k) PROVE Accounted(m, n, a)'
  <2>1. /\ inbox[k] # << >> /\ Head(inbox[k]).kind = "address_conflict"
        /\ inbox' = Consumed(k) /\ UNCHANGED <<queues, losses>>
    BY <1>7 DEF HandleConflict, Receives, bounds
  <2>2. Head(inbox[k]) # f0 /\ Head(inbox[k]) # f1
    BY <1>f, <2>1
  <2>3. CASE Withdraw(k)
    <3>1. k # n /\ address[m] = a /\ address[n] = a
          /\ claims_sent'[m] = claims_sent[m] /\ claims_sent'[n] = claims_sent[n]
      BY <1>6, <2>3
    <3>2. /\ Way(f0, m, n)' >= Way(f0, m, n) /\ Way(f1, n, m)' >= Way(f1, n, m)
          /\ Way(f2, m, n)' >= Way(f2, m, n)
      BY <1>h, <2>1, <2>2, <3>1
    <3> QED BY <1>U, <1>l, <2>1, <3>1, <3>2
  <2>4. CASE ~Withdraw(k)
    <3>1. /\ UNCHANGED <<address, claims_sent>>
          /\ ~(Head(inbox[k]).dst = address[k] /\ WinnerIsLower(k, Head(inbox[k]).uid))
      BY <1>7, <2>4 DEF HandleConflict, claims
    <3>2. ~(k = n /\ Head(inbox[k]) = f2)
      BY <1>f, <3>1 DEF WinnerIsLower
    <3>3. /\ Way(f0, m, n)' >= Way(f0, m, n) /\ Way(f1, n, m)' >= Way(f1, n, m)
          /\ Way(f2, m, n)' >= Way(f2, m, n)
      BY <1>h, <2>1, <2>2, <3>2
    <3> QED BY <1>U, <1>w, <1>l, <2>1, <3>1, <3>3
  <2> QED BY <2>3, <2>4
<1>8. ASSUME NEW k \in Nodes, HandleClaim(k) PROVE Accounted(m, n, a)'
  <2> DEFINE f == Head(inbox[k])
  <2>1. /\ inbox[k] # << >> /\ f.kind = "address_claim"
        /\ inbox' = Consumed(k) /\ losses' = losses
    BY <1>8 DEF HandleClaim, Receives, bounds
  <2>2. f # f2
    BY <1>f, <2>1
  <2> HIDE DEF f
  <2>3. CASE f.src # address[k] \/ f.uid = k
    <3>1. UNCHANGED <<address, claims_sent, queues>>
      BY <1>8, <2>3 DEF HandleClaim, claims, f
    <3>2. ~(k = n /\ f = f0) /\ ~(k = m /\ f = f1)
      BY <1>f, <1>n, <2>3, <3>1
    <3>3. /\ Way(f0, m, n)' >= Way(f0, m, n) /\ Way(f1, n, m)' >= Way(f1, n, m)
          /\ Way(f2, m, n)' >= Way(f2, m, n)
      BY <1>h, <2>1, <2>2, <3>1, <3>2 DEF f
    <3> QED BY <1>U, <1>l, <2>1, <3>1, <3>3
  <2>4. CASE f.src = address[k] /\ f.uid # k /\ ~OwnUidWins(k, f.uid)
    <3>1. Withdraw(k) /\ queues' = queues
      BY <1>8, <2>4 DEF HandleClaim, f
    <3>2. k # m /\ k # n /\ address[m] = a /\ address[n] = a
          /\ claims_sent'[m] = claims_sent[m] /\ claims_sent'[n] = claims_sent[n]
      BY <1>6, <3>1
    <3>3. /\ Way(f0, m, n)' >= Way(f0, m, n) /\ Way(f1, n, m)' >= Way(f1, n, m)
          /\ Way(f2, m, n)' >= Way(f2, m, n)
      BY <1>h, <2>1, <3>1, <3>2 DEF f
    <3> QED BY <1>U, <1>l, <2>1, <3>2, <3>3
  <2>5. CASE f.src = address[k] /\ f.uid # k /\ OwnUidWins(k, f.uid)
    <3> DEFINE g == AddressConflict(address[k], k)
    <3>1. /\ queues' = [queues EXCEPT ![k] = Enqueue(@, g)]
          /\ UNCHANGED <<address, claims_sent>>
      BY <1>8, <2>5 DEF HandleClaim, claims, f
    <3>2. address[k] \in Addresses
      BY <2>1, <2>5, ConsumedType DEF Frame, f
    <3>3. g \in QueuedFrame
      BY <3>2, FrameTypes
    <3> HIDE DEF g
    <3>4. ASSUME NEW h \in Contest, NEW u \in Nodes, NEW v \in Nodes
          PROVE  /\ Way(h, u, v)' + (IF v = k /\ f = h THEN 1 ELSE 0) >= Way(h, u, v)
                 /\ u = k /\ v # k /\ h = g => Way(h, u, v)' >= Way(h, u, v) + 1
      <4>1. queues \in [Nodes -> Queues] /\ ClassOf(h) \in Classes
        BY WayType DEF TypeOK, Queues
      <4>2. Copies(h, queues[u][ClassOf(h)]) \in Nat
        BY WayType
      <4>3. Len(queues[u][ClassOf(h)]) < QueueSize
        BY <4>1 DEF NoneFull
      <4>4. queues'[u] = IF u = k THEN Enqueue(queues[u], g) ELSE queues[u]
        BY <3>1, <4>1
      <4>5. /\ Copies(h, queues'[u][ClassOf(h)]) >= Copies(h, queues[u][ClassOf(h)])
            /\ u = k /\ h = g => Copies(h, queues'[u][ClassOf(h)])
                                   = Copies(h, queues[u][ClassOf(h)]) + 1
        BY <3>3, <4>1, <4>2, <4>3, <4>4, EnqueueCopies
      <4>6. Way(h, u, v)' + (IF v = k /\ f = h THEN 1 ELSE 0) >= Way(h, u, v)
        BY <1>t, <2>1, <4>5, HandledWay DEF f
      <4>7. ASSUME u = k, v # k, h = g PROVE Way(h, u, v)' >= Way(h, u, v) + 1
        <5>1. inbox'[v] = inbox[v]
          BY <2>1, <4>7 DEF Consumed, TypeOK
        <5>2. Copies(h, inbox[v]) \in Nat
          BY WayType
        <5>3. /\ Way(h, u, v)' = Copies(h, queues'[u][ClassOf(h)]) + Copies(h, inbox'[v])
              /\ Way(h, u, v) = Copies(h, queues[u][ClassOf(h)]) + Copies(h, inbox[v])
          BY DEF Way
        <5>4. Copies(h, queues'[u][ClassOf(h)]) = Copies(h, queues[u][ClassOf(h)]) + 1
          BY <4>5, <4>7
        <5>5. Copies(h, inbox'[v]) = Copies(h, inbox[v])
          BY <5>1
        <5> QED BY <4>2, <5>2, <5>3, <5>4, <5>5
      <4> QED BY <4>6, <4>7
    <3>5. ~(k = n /\ f = f0)
      BY <1>f, <1>n, <2>5 DEF OwnUidWins
    <3>6. /\ Way(f0, m, n)' + (IF n = k /\ f = f0 THEN 1 ELSE 0) >= Way(f0, m, n)
          /\ Way(f1, n, m)' + (IF m = k /\ f = f1 THEN 1 ELSE 0) >= Way(f1, n, m)
          /\ Way(f2, m, n)' + (IF n = k /\ f = f2 THEN 1 ELSE 0) >= Way(f2, m, n)
          /\ m = k /\ n # k /\ f2 = g => Way(f2, m, n)' >= Way(f2, m, n) + 1
      BY <1>f, <3>4
    <3>7. CASE k = m
      <4>1. f2 = g
        BY <3>1, <3>7 DEF f2, g
      <4>2. /\ Way(f0, m, n)' >= Way(f0, m, n)
            /\ Way(f1, n, m)' + Way(f2, m, n)' >= Way(f1, n, m) + Way(f2, m, n)
        BY <1>n, <1>w, <3>5, <3>6, <3>7, <4>1
      <4>3. /\ address[m] = a /\ address[n] = a /\ claims_sent'[m] = claims_sent[m]
            /\ claims_sent'[n] = claims_sent[n]
        BY <3>1
      <4>4. losses' = losses
        BY <2>1
      <4>5. Way(f0, m, n)' + losses' + claims_sent[m] >= Way(f0, m, n) + losses + claims_sent'[m]
        BY <1>w, <1>l, <4>2, <4>3, <4>4
      <4>6. Way(f1, n, m)' + Way(f2, m, n)' + losses' + claims_sent[n]
              >= Way(f1, n, m) + Way(f2, m, n) + losses + claims_sent'[n]
        BY <1>w, <1>l, <4>2, <4>3, <4>4
      <4> QED BY <1>S, <4>3, <4>5, <4>6
    <3>8. CASE k # m
      <4>1. /\ Way(f0, m, n)' >= Way(f0, m, n) /\ Way(f1, n, m)' >= Way(f1, n, m)
            /\ Way(f2, m, n)' >= Way(f2, m, n)
        BY <1>w, <2>2, <3>5, <3>6, <3>8
      <4> QED BY <1>U, <1>l, <2>1, <3>1, <4>1
    <3> QED BY <3>7, <3>8
  <2> QED BY <2>3, <2>4, <2>5
<1>9. ASSUME NEW k \in Nodes, Restart(k) PROVE Accounted(m, n, a)'
  <2>1. CASE k \in {m, n}
    BY <1>Z, <1>9, <2>1 DEF Restart, TypeOK
  <2>2. CASE k \notin {m, n}
    <3>1. /\ address[m] = a /\ address[n] = a /\ losses' = losses
          /\ claims_sent'[m] = claims_sent[m] /\ claims_sent'[n] = claims_sent[n]
          /\ queues'[m] = queues[m] /\ queues'[n] = queues[n]
          /\ inbox'[m] = inbox[m] /\ inbox'[n] = inbox[n]
      BY <1>9, <2>2 DEF Restart, TypeOK, Stores
    <3>2. /\ Way(f0, m, n)' = Way(f0, m, n) /\ Way(f1, n, m)' = Way(f1, n, m)
          /\ Way(f2, m, n)' = Way(f2, m, n)
      BY <3>1 DEF Way
    <3> QED BY <1>U, <1>w, <1>l, <3>1, <3>2
  <2> QED BY <2>1, <2>2
<1>10. ASSUME NEW k \in Nodes, BackoffElapses(k) \/ ClaimDelayElapses(k)
       PROVE  UNCHANGED <<queues, inbox, address, claims_sent, losses>>
  BY <1>10 DEF BackoffElapses, ClaimDelayElapses, claims, bounds
<1>11. CASE UNCHANGED vars
  BY <1>2, <1>11 DEF vars
<1> QED BY <1>1, <1>2, <1>3, <1>4, <1>5, <1>7, <1>8, <1>9, <1>10, <1>11 DEF Next, Receive

(* The counted losses stay within their bound.                                   *)
LEMMA LossesBounded ==
  ASSUME TypeOK, losses <= MaxLosses, [Next]_vars
  PROVE  (losses <= MaxLosses)'
<1> USE CommissioningAssumption DEF TypeOK
<1>1. ASSUME NEW n \in Nodes, Tick(n) PROVE (losses <= MaxLosses)'
  <2>1. PICK q \in Queues : DrainOne(n, q)
    BY <1>1, TickDrains
  <2> QED BY <2>1 DEF DrainOne
<1>2. ASSUME NEW n \in Nodes, Receive(n) \/ Miss(n) PROVE (losses <= MaxLosses)'
  BY <1>2 DEF Receive, HandleClaim, HandleRequest, HandleConflict, HandleAssign,
              HandleResponse, Miss, bounds
<1>3. ASSUME NEW n \in Nodes, BackoffElapses(n) \/ ClaimDelayElapses(n) \/ Restart(n)
      PROVE  (losses <= MaxLosses)'
  BY <1>3 DEF BackoffElapses, ClaimDelayElapses, Restart, bounds
<1>4. CASE UNCHANGED vars
  BY <1>4 DEF vars
<1> QED BY <1>1, <1>2, <1>3, <1>4 DEF Next

(* Two claims and the conflict answer survive one lost frame: when every frame is   *)
(* handled and all claims are sent, no two nodes share an address.  For any nodes,  *)
(* flashes, restarts and refused saves, as long as no transmit queue is full; a     *)
(* message dropped there is a loss that MaxLosses does not count.                  *)
THEOREM ConflictsSettle ==
  ASSUME MaxLosses <= 1
  PROVE  Spec /\ []NoneFull => []SettledConflict
<1>1. Init => SharedInv /\ losses <= MaxLosses
  <2> SUFFICES ASSUME Init PROVE SharedInv /\ losses <= MaxLosses
    OBVIOUS
  <2>1. losses = 0 /\ \A n \in Nodes : claims_sent[n] = 0
    BY DEF Init
  <2>2. ASSUME NEW m \in Nodes, NEW n \in Nodes, NEW a \in Addresses, m # n
        PROVE  Accounted(m, n, a)
    <3>1. Way(AddressClaim(m, a), m, n) \in Nat
      BY <2>2, InitType, ContestFrames, WayType
    <3> QED BY <2>1, <3>1 DEF Accounted, Claims
  <2>3. \A m, n \in Nodes : m < n => m # n
    BY CommissioningAssumption
  <2> QED BY <2>1, <2>2, <2>3, CommissioningAssumption DEF SharedInv
<1>2. TypeOK /\ NoneFull /\ SharedInv /\ losses <= MaxLosses /\ [Next]_vars
        => SharedInv' /\ (losses <= MaxLosses)'
  BY SharedNext, LossesBounded
<1>3. TypeOK /\ SharedInv /\ losses <= MaxLosses => SettledConflict
  <2> SUFFICES ASSUME TypeOK, SharedInv, losses <= MaxLosses, Quiet,
                      \A n \in Nodes : address[n] # Unassigned => claims_sent[n] = 2,
                      NEW m \in Nodes, NEW n \in Nodes, m < n,
                      address[m] # Unassigned, address[m] = address[n]
               PROVE  FALSE
    <3>1. \A m, n \in Nodes : m # n => m < n \/ n < m
      BY CommissioningAssumption
    <3> QED BY <3>1 DEF SettledConflict, UniqueAddresses
  <2>1. PICK a \in Addresses : a = address[m]
    BY DEF TypeOK, Stores
  <2>2. ASSUME NEW f \in Contest, NEW u \in Nodes, NEW v \in Nodes PROVE Way(f, u, v) = 0
    <3>1. queues[u][ClassOf(f)] = << >> /\ inbox[v] = << >>
      BY WayType DEF Quiet, Waiting
    <3>2. Copies(f, << >>) = 0
      BY WayType, CopiesType
    <3> QED BY <3>1, <3>2 DEF Way
  <2>3. Accounted(m, n, a) /\ m # n
    BY <2>1, CommissioningAssumption DEF SharedInv
  <2>4. AddressClaim(m, a) \in Contest /\ AddressClaim(n, a) \in Contest
        /\ AddressConflict(a, m) \in Contest
    BY <2>3, ContestFrames
  <2>5. Claims(m, n, a) = 0 /\ Answered(m, n, a) = 0
    BY <2>2, <2>4 DEF Claims, Answered
  <2>6. losses \in Nat /\ losses <= 1 /\ claims_sent[m] = 2 /\ claims_sent[n] = 2
    BY CommissioningAssumption DEF TypeOK
  <2> QED BY <2>3, <2>5, <2>6 DEF Accounted
<1> QED BY <1>1, <1>2, <1>3, TypeCorrect, PTL DEF Spec
=============================================================================
