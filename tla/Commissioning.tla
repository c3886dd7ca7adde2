---------------------------- MODULE Commissioning ----------------------------
(***************************************************************************)
(* How the nodes of an installation get, claim, defend and lose their       *)
(* NodeAddress (components/hacan/protocol_node_runtime.cpp): the address    *)
(* part of several NodeRuntimes on one CAN bus.                             *)
(*                                                                         *)
(* A node is its 48-bit UID, a natural number here: the code compares UIDs  *)
(* as little-endian integers and uses nothing else of them.  Each runtime   *)
(* is single threaded; its tick and its receive interleave with those of    *)
(* the other nodes.  A frame on the bus is appended to the receive buffer   *)
(* of every OTHER node (a CAN controller does not receive its own frames);  *)
(* buffers are read in order.                                               *)
(*                                                                         *)
(* Time: a millisecond timer of the code is "due at any moment", which       *)
(* allows every interleaving the real delays allow and more, with two        *)
(* exceptions: the discovery retry delay (2 s and longer, backoff) and the   *)
(* delay of the first claim (1 to 2.5 s, claimDelay) do not end before there  *)
(* was a moment with no frame under way (a frame takes milliseconds).        *)
(* Entities, heartbeats and application frames are left out: they touch no   *)
(* variable of this module.                                                 *)
(***************************************************************************)
EXTENDS FrameQueues, FiniteSetsExt

CONSTANTS
  Nodes,            \* the UIDs
  Primaries,        \* nodes configured with commissioning_role: primary
  Restartable,      \* nodes that may be power cycled
  MaxAddress,       \* 0x1FE in the code
  InitialStores,    \* what the nodes' flash may hold when the installation starts
  MaxBuffer,        \* bound: frames a node may lag behind the bus
  MaxLosses,        \* bound: drains that drop frames plus frames a receiver misses
  MaxRestarts,      \* bound: power cycles
  MaxSaveFailures   \* bound: saves refused by the flash

Unassigned  == 0                 \* the source 0x000; also "no value" of address_
Addresses   == 1 .. MaxAddress
Bootstrap   == 1                 \* bootstrap_address 0x001
BroadcastTo == MaxAddress + 1    \* 0x1FF
NoRequester == MaxAddress + 2    \* pending_discovery_response_ without a value

Stores == [Nodes -> {Unassigned} \cup Addresses]

ASSUME CommissioningAssumption ==
  /\ Nodes \subseteq Nat
  /\ Primaries \subseteq Nodes
  /\ Restartable \subseteq Nodes
  /\ MaxAddress \in Nat \ {0}
  /\ InitialStores \subseteq Stores
  /\ MaxBuffer \in Nat \ {0}
  /\ MaxLosses \in Nat /\ MaxRestarts \in Nat /\ MaxSaveFailures \in Nat

VARIABLES
  address,      \* address_; Unassigned is the empty optional
  stored,       \* the flash behind IAddressStorage; Unassigned when empty
  allocated,    \* allocated_, of the primaries: assign() alone reads it
  claims_sent,  \* claims_sent_
  claimDelay,   \* ~claim_schedule_initialized_, or now < next_claim_ms_ for claim 1
  pending,      \* requester of pending_discovery_response_, or NoRequester
  backoff,      \* now < next_discovery_ms_
  queues,       \* the transmit queues
  inbox,        \* frames that arrived at a node and are not yet handled
  losses, restarts, saveFailures   \* counters of the bounds

memory == <<stored, allocated>>
claims == <<claims_sent, claimDelay>>
node   == <<address, claims_sent, claimDelay, pending, backoff, queues>>
bounds == <<losses, restarts, saveFailures>>
vars   == <<address, stored, allocated, claims_sent, claimDelay, pending, backoff, queues,
            inbox, losses, restarts, saveFailures>>

-----------------------------------------------------------------------------
(* Frames.  uid is the Node UID in the payload, addr the assigned address.    *)
(* The conjuncts are what valid_identifier and valid_bytes demand of a kind.   *)

Frame ==
  {f \in [kind : {"discovery_request", "discovery_response", "address_claim",
                  "address_assign", "address_conflict"},
          src  : {Unassigned} \cup Addresses,
          dst  : {Unassigned} \cup Addresses \cup {BroadcastTo},
          uid  : Nodes,
          addr : {Unassigned} \cup Addresses] :
     /\ f.kind = "address_claim" => f.src # Unassigned
     /\ f.kind = "address_assign" => f.src # Unassigned /\ f.addr # Unassigned}

\* ADDRESS_ASSIGN goes to the transmitter directly, never through a queue.
QueuedFrame == {f \in Frame : f.kind # "address_assign"}

DiscoveryRequest(n) ==
  [kind |-> "discovery_request", src |-> Unassigned, dst |-> BroadcastTo,
   uid |-> n, addr |-> Unassigned]

DiscoveryResponse(n, source, requester) ==
  [kind |-> "discovery_response", src |-> source, dst |-> requester,
   uid |-> n, addr |-> Unassigned]

AddressClaim(n, a) ==
  [kind |-> "address_claim", src |-> a, dst |-> BroadcastTo,
   uid |-> n, addr |-> Unassigned]

AddressAssign(source, target, a) ==
  [kind |-> "address_assign", src |-> source, dst |-> BroadcastTo,
   uid |-> target, addr |-> a]

AddressConflict(a, winner) ==
  [kind |-> "address_conflict", src |-> a, dst |-> a,
   uid |-> winner, addr |-> Unassigned]

ClassOf(f) == IF f.kind = "address_conflict" THEN Control ELSE Management

Enqueue(q, f) == Add(q, ClassOf(f), f)

\* A frame that node m drops in handle whatever its state: a discovery response
\* at a node that is no primary, an assignment for another UID.
Ignores(m, f) ==
  \/ f.kind = "discovery_response" /\ m \notin Primaries
  \/ f.kind = "address_assign" /\ f.uid # m

\* A transmitted frame reaches every other node; those that ignore it in any
\* case need not keep it.
OnBus(box, n, f) ==
  [m \in Nodes |-> IF m = n \/ Ignores(m, f) THEN box[m] ELSE Append(box[m], f)]

\* Receivers keep up with the bus to within MaxBuffer frames.
Room(box, n) == \A m \in Nodes \ {n} : Len(box[m]) < MaxBuffer

-----------------------------------------------------------------------------
(* The constructor: load, or bootstrap a primary whose flash is empty.       *)

BootAddress(n, flash, saved) ==
  IF flash # Unassigned THEN flash
  ELSE IF n \in Primaries /\ saved THEN Bootstrap
  ELSE Unassigned

KnowsNothing(a) == {}              \* mutant: the own address is not marked allocated

\* What a starting runtime knows to be allocated: its own address.
Known(a) == {a} \ {Unassigned}

Init ==
  \E flash \in InitialStores, saved \in BOOLEAN :
    /\ ~saved => MaxSaveFailures > 0
    /\ stored = [n \in Nodes |-> BootAddress(n, flash[n], saved)]
    /\ address = stored
    /\ allocated = [p \in Primaries |-> Known(stored[p])]
    /\ claims_sent = [n \in Nodes |-> 0]
    /\ claimDelay = [n \in Nodes |-> TRUE]
    /\ pending = [n \in Nodes |-> NoRequester]
    /\ backoff = [n \in Nodes |-> FALSE]
    /\ queues = [n \in Nodes |-> EmptyQueues]
    /\ inbox = [n \in Nodes |-> << >>]
    /\ losses = 0
    /\ restarts = 0
    /\ saveFailures = IF saved THEN 0 ELSE 1

(* A power cycle keeps the flash and nothing else.                           *)
Restart(n) ==
  /\ n \in Restartable
  /\ restarts < MaxRestarts
  /\ \E saved \in BOOLEAN :
       /\ ~saved => saveFailures < MaxSaveFailures
       /\ stored' = [stored EXCEPT ![n] = BootAddress(n, @, saved)]
       /\ saveFailures' = IF saved THEN saveFailures ELSE saveFailures + 1
  /\ address' = [address EXCEPT ![n] = stored'[n]]
  /\ allocated' = [p \in Primaries |->
                     IF p = n THEN Known(stored'[n]) ELSE allocated[p]]
  /\ claims_sent' = [claims_sent EXCEPT ![n] = 0]
  /\ claimDelay' = [claimDelay EXCEPT ![n] = TRUE]
  /\ pending' = [pending EXCEPT ![n] = NoRequester]
  /\ backoff' = [backoff EXCEPT ![n] = FALSE]
  /\ queues' = [queues EXCEPT ![n] = EmptyQueues]
  /\ inbox' = [inbox EXCEPT ![n] = << >>]
  /\ restarts' = restarts + 1
  /\ UNCHANGED losses

-----------------------------------------------------------------------------
(* tick                                                                      *)

\* drain_one on the queues q that node n has after enqueueing.
DrainOne(n, q) ==
  \E w \in Outcomes(q) :
    /\ queues' = [queues EXCEPT ![n] = Drained(q, w)]
    /\ w # NoClass => Room(inbox, n)
    /\ inbox' = IF w = NoClass THEN inbox ELSE OnBus(inbox, n, Head(q[w]))
    /\ IF Refused(q, w) = {}
       THEN losses' = losses
       ELSE losses < MaxLosses /\ losses' = losses + 1

\* The pending discovery response is due.
TickResponse(n) ==
  /\ pending[n] # NoRequester
  /\ DrainOne(n, Enqueue(queues[n], DiscoveryResponse(n, address[n], pending[n])))
  /\ pending' = [pending EXCEPT ![n] = NoRequester]
  /\ UNCHANGED <<memory, address, claims, backoff, restarts, saveFailures>>

\* send_discovery_request: the node also schedules a response to itself.
TickDiscovery(n) ==
  /\ address[n] = Unassigned
  /\ ~backoff[n]
  /\ DrainOne(n, Enqueue(queues[n], DiscoveryRequest(n)))
  /\ pending' = [pending EXCEPT ![n] = Unassigned]
  /\ backoff' = [backoff EXCEPT ![n] = TRUE]
  /\ UNCHANGED <<memory, address, claims, restarts, saveFailures>>

TickClaimOnceMore(n) ==            \* mutant: claims_sent_ <= 2
  /\ address[n] # Unassigned
  /\ claims_sent[n] <= 2
  /\ ~claimDelay[n]
  /\ DrainOne(n, Enqueue(queues[n], AddressClaim(n, address[n])))
  /\ claims_sent' = [claims_sent EXCEPT ![n] = @ + 1]
  /\ UNCHANGED <<memory, address, claimDelay, pending, backoff, restarts, saveFailures>>

TickClaimOnlyOnce(n) ==            \* mutant: the second claim is taken for sent with the first
  /\ address[n] # Unassigned
  /\ claims_sent[n] < 2
  /\ ~claimDelay[n]
  /\ DrainOne(n, Enqueue(queues[n], AddressClaim(n, address[n])))
  /\ claims_sent' = [claims_sent EXCEPT ![n] = 2]
  /\ UNCHANGED <<memory, address, claimDelay, pending, backoff, restarts, saveFailures>>

\* send_claim: a claim that finds the queue full still counts as sent.
TickClaim(n) ==
  /\ address[n] # Unassigned
  /\ claims_sent[n] < 2
  /\ ~claimDelay[n]
  /\ DrainOne(n, Enqueue(queues[n], AddressClaim(n, address[n])))
  /\ claims_sent' = [claims_sent EXCEPT ![n] = @ + 1]
  /\ UNCHANGED <<memory, address, claimDelay, pending, backoff, restarts, saveFailures>>

\* Nothing is due: the tick only drains.
TickDrain(n) ==
  /\ Waiting(queues[n]) # {}
  /\ DrainOne(n, queues[n])
  /\ UNCHANGED <<memory, address, claims, pending, backoff, restarts, saveFailures>>

Quiet == \A n \in Nodes : inbox[n] = << >> /\ Waiting(queues[n]) = {}

\* next_discovery_ms_ is reached.  By then the response to the node's own request
\* has been sent, unless the request of another node replaced it.
BackoffElapses(n) ==
  /\ backoff[n]
  /\ Quiet
  /\ pending[n] # NoRequester => \E m \in Nodes \ {n} : backoff[m]
  /\ backoff' = [backoff EXCEPT ![n] = FALSE]
  /\ UNCHANGED <<memory, address, claims, pending, queues, inbox, bounds>>

\* next_claim_ms_ is reached for the first claim after a start or an assignment.
ClaimDelayElapses(n) ==
  /\ address[n] # Unassigned
  /\ claimDelay[n]
  /\ Quiet
  /\ claimDelay' = [claimDelay EXCEPT ![n] = FALSE]
  /\ UNCHANGED <<memory, address, claims_sent, pending, backoff, queues, inbox, bounds>>

-----------------------------------------------------------------------------
(* receive                                                                   *)

Receives(n, kind) == inbox[n] # << >> /\ Head(inbox[n]).kind = kind

Consumed(n) == [inbox EXCEPT ![n] = Tail(@)]

WithdrawKeepsAddress(n) ==         \* mutant: address_ is not reset
  /\ UNCHANGED address
  /\ claims_sent' = [claims_sent EXCEPT ![n] = 0]
  /\ claimDelay' = [claimDelay EXCEPT ![n] = TRUE]

\* withdraw_address; pending, backoff, queues and the flash are left alone.
Withdraw(n) ==
  /\ address' = [address EXCEPT ![n] = Unassigned]
  /\ claims_sent' = [claims_sent EXCEPT ![n] = 0]
  /\ claimDelay' = [claimDelay EXCEPT ![n] = TRUE]

\* own_uid_wins of handle, ADDRESS_CLAIM: against the UID u of the claim.
OwnUidWins(n, u) == n < u

WinnerIsHigher(n, u) == n < u      \* mutant: the comparison is the wrong way round

\* winner_is_lower of handle, ADDRESS_CONFLICT: u is the winner it names.
WinnerIsLower(n, u) == u < n

\* handle, ADDRESS_CLAIM.
HandleClaim(n) ==
  /\ Receives(n, "address_claim")
  /\ LET f == Head(inbox[n]) IN
       /\ allocated' = [p \in Primaries |->
                          IF p = n THEN allocated[p] \cup {f.src} ELSE allocated[p]]
       /\ \/ /\ f.src # address[n] \/ f.uid = n
             /\ UNCHANGED <<address, claims, queues>>
          \/ /\ f.src = address[n] /\ f.uid # n /\ OwnUidWins(n, f.uid)
             /\ queues' = [queues EXCEPT ![n] = Enqueue(@, AddressConflict(address[n], n))]
             /\ UNCHANGED <<address, claims>>
          \/ /\ f.src = address[n] /\ f.uid # n /\ ~OwnUidWins(n, f.uid)
             /\ Withdraw(n)
             /\ UNCHANGED queues
  /\ inbox' = Consumed(n)
  /\ UNCHANGED <<stored, pending, backoff, bounds>>

\* handle, DISCOVERY_REQUEST: a later request replaces the pending response.
HandleRequest(n) ==
  /\ Receives(n, "discovery_request")
  /\ pending' = [pending EXCEPT ![n] = Head(inbox[n]).src]
  /\ inbox' = Consumed(n)
  /\ UNCHANGED <<memory, address, claims, backoff, queues, bounds>>

\* handle, ADDRESS_CONFLICT.
HandleConflict(n) ==
  /\ Receives(n, "address_conflict")
  /\ LET f == Head(inbox[n]) IN
       IF f.dst = address[n] /\ WinnerIsLower(n, f.uid)
       THEN Withdraw(n)
       ELSE UNCHANGED <<address, claims>>
  /\ inbox' = Consumed(n)
  /\ UNCHANGED <<memory, pending, backoff, queues, bounds>>

\* The part of handle, ADDRESS_ASSIGN, that a successful save guards.
Adopt(n, a) ==
  /\ address' = [address EXCEPT ![n] = a]
  /\ allocated' = [p \in Primaries |->
                     IF p = n THEN allocated[p] \cup {a} ELSE allocated[p]]
  /\ claims_sent' = [claims_sent EXCEPT ![n] = 0]
  /\ claimDelay' = [claimDelay EXCEPT ![n] = TRUE]

AdoptAnyway(n, a, saved) == Adopt(n, a)   \* mutant: the result of save is ignored

AdoptIfSaved(n, a, saved) ==
  IF saved THEN Adopt(n, a) ELSE UNCHANGED <<address, allocated, claims>>

\* handle, ADDRESS_ASSIGN for this UID.
HandleAssign(n) ==
  /\ Receives(n, "address_assign")
  /\ LET a == Head(inbox[n]).addr IN
       \E saved \in BOOLEAN :
         /\ ~saved => saveFailures < MaxSaveFailures
         /\ saveFailures' = IF saved THEN saveFailures ELSE saveFailures + 1
         /\ stored' = IF saved THEN [stored EXCEPT ![n] = a] ELSE stored
         /\ AdoptIfSaved(n, a, saved)
  /\ inbox' = Consumed(n)
  /\ UNCHANGED <<pending, backoff, queues, losses, restarts>>

Free(n) == Addresses \ allocated[n]

LowestNotOwn(n) ==                 \* mutant: allocated_ is not consulted
  Min(Addresses \ {address[n]})

\* next_free_address
LowestFree(n) == Min(Free(n))

AnswersAddressedOnly(n, f) ==      \* mutant: no exception for unassigned requesters
  /\ n \in Primaries
  /\ address[n] # Unassigned
  /\ f.dst = address[n]
  /\ Free(n) # {}

\* The guards of handle and assign before a manager answers a response.
Answers(n, f) ==
  /\ n \in Primaries
  /\ address[n] # Unassigned
  /\ f.dst = address[n] \/ (f.src = Unassigned /\ f.dst = Unassigned)
  /\ Free(n) # {}

\* handle, DISCOVERY_RESPONSE, and assign: ADDRESS_ASSIGN bypasses the queues.
HandleResponse(n) ==
  /\ Receives(n, "discovery_response")
  /\ LET f == Head(inbox[n]) IN
       \/ /\ Answers(n, f)
          /\ Room(inbox, n)
          /\ inbox' = OnBus(Consumed(n), n, AddressAssign(address[n], f.uid, LowestFree(n)))
          /\ allocated' = [allocated EXCEPT ![n] = @ \cup {LowestFree(n)}]
          /\ UNCHANGED losses
       \/ /\ Answers(n, f)
          /\ losses < MaxLosses
          /\ losses' = losses + 1
          /\ inbox' = Consumed(n)
          /\ UNCHANGED allocated
       \/ /\ ~Answers(n, f)
          /\ inbox' = Consumed(n)
          /\ UNCHANGED <<allocated, losses>>
  /\ UNCHANGED <<stored, node, restarts, saveFailures>>

\* The receiver's controller misses the oldest frame (an overrun; outside src/).
Miss(n) ==
  /\ inbox[n] # << >>
  /\ losses < MaxLosses
  /\ losses' = losses + 1
  /\ inbox' = Consumed(n)
  /\ UNCHANGED <<memory, node, restarts, saveFailures>>

-----------------------------------------------------------------------------
Tick(n) == TickResponse(n) \/ TickDiscovery(n) \/ TickClaim(n) \/ TickDrain(n)

Receive(n) == \/ HandleClaim(n) \/ HandleRequest(n) \/ HandleConflict(n)
              \/ HandleAssign(n) \/ HandleResponse(n)

Next == \E n \in Nodes :
          \/ Tick(n) \/ BackoffElapses(n) \/ ClaimDelayElapses(n)
          \/ Receive(n) \/ Restart(n) \/ Miss(n)

Spec == Init /\ [][Next]_vars

(***************************************************************************)
(* ESPHome calls loop() for ever, so every timer that is due is served and   *)
(* every received frame is handled.  Fairness is strong because a step that  *)
(* transmits waits for Room: the receivers make room again and again, and    *)
(* CAN arbitration shuts nobody out for ever.  For TickResponse it also says *)
(* that a response window (1 s) is shorter than a retry delay (2 s or more), *)
(* so that retries do not replace a pending response for ever.  Nothing is   *)
(* assumed of Restart and Miss.                                              *)
(***************************************************************************)
Fairness == \A n \in Nodes :
              /\ SF_vars(TickResponse(n))
              /\ SF_vars(TickDiscovery(n))
              /\ SF_vars(TickClaim(n))
              /\ SF_vars(TickDrain(n))
              /\ SF_vars(Receive(n))
              /\ SF_vars(BackoffElapses(n))
              /\ SF_vars(ClaimDelayElapses(n))

FairSpec == Spec /\ Fairness

-----------------------------------------------------------------------------
(* Type invariant: every variable holds what its C++ counterpart can hold.   *)
TypeOK ==
  /\ address \in Stores
  /\ stored \in Stores
  /\ allocated \in [Primaries -> SUBSET Addresses]
  /\ claims_sent \in [Nodes -> 0..2]
  /\ claimDelay \in [Nodes -> BOOLEAN]
  /\ pending \in [Nodes -> {Unassigned, NoRequester} \cup Addresses]
  /\ backoff \in [Nodes -> BOOLEAN]
  /\ queues \in [Nodes -> [Classes -> Seq(QueuedFrame)]]
  /\ inbox \in [Nodes -> Seq(Frame)]
  /\ losses \in Nat /\ restarts \in Nat /\ saveFailures \in Nat

(* No two nodes use one address at the same time.  In an installation that    *)
(* starts with empty flashes and whose primary never restarts, the manager's   *)
(* allocated_ table is enough for this (handle of ADDRESS_ASSIGN, assign).     *)
UniqueAddresses ==
  \A m, n \in Nodes :
    m # n /\ address[m] # Unassigned => address[m] # address[n]

(* An assignment under way never offers an address that a node other than its  *)
(* target uses or has in its flash: "the unused address space" of assign.        *)
OffersUnused ==
  \A n, m \in Nodes : \A f \in Range(inbox[n]) :
    f.kind = "address_assign" /\ m # n => stored[m] # f.addr

(* No regular node is offered the bootstrap address of the primary.             *)
BootstrapReserved ==
  \A n \in Nodes \ Primaries : \A f \in Range(inbox[n]) :
    f.kind = "address_assign" => f.addr # Bootstrap

(* A node uses an address only after its flash took it (handle of             *)
(* ADDRESS_ASSIGN saves before it assigns address_), so that a power cycle     *)
(* comes back with the address the other nodes know.                          *)
PersistedBeforeUse ==
  \A n \in Nodes : address[n] # Unassigned => stored[n] = address[n]

(* Once every frame is handled and every node with an address has sent both    *)
(* claims, no two nodes share an address, whatever the flashes held: the two    *)
(* claims and the conflict answer survive the loss of one frame.                *)
SettledConflict ==
  (Quiet /\ \A n \in Nodes : address[n] # Unassigned => claims_sent[n] = 2)
    => UniqueAddresses

\* The node went over to another address than a (or just started with one) and the
\* bus has not been silent since, which claiming an address waits for.
HasMoved(m, a) == claimDelay[m] /\ stored[m] \notin {Unassigned, a}

(* A node gives an address up only for a lower UID that uses it, or that has just   *)
(* gone over to another address, as one may have done whose claim or conflict      *)
(* message was still under way (the two comparisons of handle).                   *)
WithdrawsForLower ==
  [][\A n \in Nodes :
       address[n] # Unassigned /\ address'[n] = Unassigned
         => \E m \in Nodes :
              m < n /\ (address[m] = address[n] \/ HasMoved(m, address[n]))]_vars

(* The numerically lowest UID never loses an address it has.                     *)
LowestKeepsAddress ==
  [][\A n \in Nodes :
       (\A m \in Nodes : n <= m) /\ address[n] # Unassigned
         => address'[n] # Unassigned]_vars

(* Two nodes that share an address do not share it for ever.                     *)
ConflictsEnd ==
  \A m, n \in Nodes :
    m < n => (address[m] # Unassigned /\ address[m] = address[n])
               ~> (address[m] # address[n])

(* Every node gets an address in the end (tick, assign) and keeps one for good.  *)
AllCommissioned == <>[](\A n \in Nodes : address[n] # Unassigned)
=============================================================================
