--------------------------- MODULE EntityDirectory ---------------------------
(***************************************************************************)
(* The directory in which a node learns where the entities of other nodes    *)
(* live (components/hacan/protocol_node_runtime.cpp: learn_entity,           *)
(* expire_offline, the ENTITY_CLAIM and ENTITY_RESOLVE branches of handle and *)
(* the end of tick).                                                         *)
(*                                                                         *)
(* One observer keeps entities_, seen_ and last_seen_.  Its peers run the     *)
(* same runtime: a peer owes the claims of its endpoints after it has claimed  *)
(* its address, and again when it receives an ENTITY_RESOLVE.  Addresses are  *)
(* settled here (module Commissioning), so a peer is its address.             *)
(*                                                                         *)
(* Time advances in units of which Timeout make the 105 s of expire_offline;   *)
(* a connected peer is heard in every one of them, because its heartbeat      *)
(* comes every 30 s.                                                        *)
(***************************************************************************)
EXTENDS FiniteSetsExt

CONSTANTS
  Sources,      \* addresses of the peers
  Endpoints,    \* endpoints of a peer
  Entities,
  NoEntity,     \* an endpoint that owns nothing, an empty directory slot
  Observed,     \* observed_entities_, the entities of the observer's listeners
  Ownerships,   \* what the peers may be configured to own
  Capacity,     \* 32 slots of entities_
  Timeout,      \* 105 s
  MaxBoots,     \* bound: power ups of peers
  MaxCuts,      \* bound: interruptions of the bus to a peer
  MaxLosses     \* bound: claims lost

Ownership == [Sources -> [Endpoints -> Entities \cup {NoEntity}]]

ASSUME DirectoryAssumption ==
  /\ NoEntity \notin Entities
  /\ Observed \subseteq Entities
  /\ Ownerships \subseteq Ownership
  /\ Capacity \in Nat \ {0}
  /\ Timeout \in Nat \ {0}
  /\ MaxBoots \in Nat /\ MaxCuts \in Nat /\ MaxLosses \in Nat

Slots == 1 .. Capacity

Location(e, n, p) == [entity |-> e, node |-> n, endpoint |-> p]
Locations == [entity : Entities, node : Sources, endpoint : Endpoints]
NoLocation == [entity |-> NoEntity]

VARIABLES
  entities,     \* entities_ of the observer
  seen,         \* seen_
  silence,      \* now_ms - last_seen_ms of a source, at most Timeout
  unresolved,   \* observed_entities_ from observed_resolve_index_ on
  available,    \* history: entities last announced by INodeEvents as available
  lastClaim,    \* history: the location in the last claim of an entity
  power,        \* of a peer: "off", "on", or "cut" off the bus
  owns,         \* the entity each endpoint of a peer owns
  owes,         \* endpoints whose claim a peer has still to transmit
  boots, cuts, losses     \* counters of the bounds

directory == <<entities, seen, silence, available, lastClaim>>
peers     == <<power, owns, owes>>
bounds    == <<boots, cuts, losses>>
vars      == <<entities, seen, silence, unresolved, available, lastClaim,
               power, owns, owes, boots, cuts, losses>>

Occupied == {s \in Slots : entities[s] # NoLocation}
Mapped(e) == \E s \in Slots : entities[s].entity = e

\* The observer starts; peers that run already have made their claims.
Init ==
  /\ entities = [s \in Slots |-> NoLocation]
  /\ seen = {}
  /\ silence = [n \in Sources |-> 0]
  /\ unresolved = Observed
  /\ available = {}
  /\ lastClaim = [e \in Entities |-> NoLocation]
  /\ power \in [Sources -> {"off", "on"}]
  /\ owns \in Ownerships
  /\ owes = [n \in Sources |-> {}]
  /\ boots = 0 /\ cuts = 0 /\ losses = 0

-----------------------------------------------------------------------------
(* receive                                                                   *)

\* The beginning of handle: a frame from n arrived.
Hear(n) ==
  /\ seen' = seen \cup {n}
  /\ silence' = [silence EXCEPT ![n] = 0]

LearnOverflow(l) ==                \* mutant: off by one at a full directory
  LET known == {s \in Slots : entities[s].entity = l.entity}
      free  == Slots \ Occupied
  IN  IF known # {} THEN UNCHANGED <<entities, available>>
      ELSE /\ entities' = IF free # {} THEN [entities EXCEPT ![Min(free)] = l]
                          ELSE [s \in 1 .. Capacity + 1 |->
                                  IF s > Capacity THEN l ELSE entities[s]]
           /\ available' = available \cup {l.entity}

LearnBoth(l) ==                    \* mutant: a competing claim gets an entry of its own
  LET free == Slots \ Occupied
  IN  IF l \in {entities[s] : s \in Slots} \/ free = {} THEN UNCHANGED <<entities, available>>
      ELSE /\ entities' = [entities EXCEPT ![Min(free)] = l]
           /\ available' = available \cup {l.entity}

LearnFirstOnly(l) ==               \* mutant: a competing claim is ignored
  LET free == Slots \ Occupied
  IN  IF Mapped(l.entity) \/ free = {} THEN UNCHANGED <<entities, available>>
      ELSE /\ entities' = [entities EXCEPT ![Min(free)] = l]
           /\ available' = available \cup {l.entity}

\* learn_entity: a repeated claim changes nothing, a competing one removes the
\* entry, a new entity takes the first free slot, if there is one.
LearnEntity(l) ==
  LET known == {s \in Slots : entities[s].entity = l.entity}
      free  == Slots \ Occupied
  IN  \/ /\ known # {}
         /\ entities[Min(known)] = l
         /\ UNCHANGED <<entities, available>>
      \/ /\ known # {}
         /\ entities[Min(known)] # l
         /\ entities' = [entities EXCEPT ![Min(known)] = NoLocation]
         /\ available' = available \ {l.entity}
      \/ /\ known = {} /\ free # {}
         /\ entities' = [entities EXCEPT ![Min(free)] = l]
         /\ available' = available \cup {l.entity}
      \/ /\ known = {} /\ free = {}
         /\ UNCHANGED <<entities, available>>

\* handle, ENTITY_CLAIM of endpoint p of peer n.
HandleClaim(n, p) ==
  LET l == Location(owns[n][p], n, p) IN
    /\ Hear(n)
    /\ LearnEntity(l)
    /\ lastClaim' = [lastClaim EXCEPT ![l.entity] = l]
    /\ UNCHANGED <<unresolved>>

\* handle of any other frame of peer n.
HandleOther(n) ==
  /\ power[n] = "on"
  /\ Hear(n)
  /\ UNCHANGED <<entities, unresolved, available, lastClaim, peers, bounds>>

-----------------------------------------------------------------------------
(* tick                                                                      *)

Offline == {n \in seen : silence[n] >= Timeout}

ForgetNothing(gone) ==             \* mutant: the entries of an offline source stay
  UNCHANGED <<entities, available>>

ForgetSilently(gone) ==            \* mutant: entity_unavailable is not called
  /\ entities' = [s \in Slots |->
       IF s \in Occupied /\ entities[s].node \in gone THEN NoLocation ELSE entities[s]]
  /\ UNCHANGED available

\* The inner loop of expire_offline for the sources in gone.
Forget(gone) ==
  LET stale == {s \in Occupied : entities[s].node \in gone} IN
    /\ entities' = [s \in Slots |-> IF s \in stale THEN NoLocation ELSE entities[s]]
    /\ available' = available \ {entities[s].entity : s \in stale}

\* expire_offline, the first thing every tick does.
ExpireOffline ==
  /\ Forget(Offline)
  /\ seen' = seen \ Offline
  /\ UNCHANGED <<silence, lastClaim>>

\* A tick that has nothing to resolve.
TickExpire ==
  /\ Offline # {}
  /\ ExpireOffline
  /\ UNCHANGED <<unresolved, peers, bounds>>

Asked(n, e) == {p \in Endpoints : power[n] = "on" /\ owns[n][p] = e}

ResolveNobody(n, e) == {}          \* mutant: the resolve is not sent

\* handle, ENTITY_RESOLVE, at peer n: the endpoints it answers for.
Resolve(n, e) == Asked(n, e)

\* The tick that sends the resolve of one observed entity; once, and never again.
TickResolve ==
  \E e \in unresolved :
    /\ ExpireOffline
    /\ unresolved' = unresolved \ {e}
    /\ owes' = [n \in Sources |-> owes[n] \cup Resolve(n, e)]
    /\ UNCHANGED <<power, owns, bounds>>

-----------------------------------------------------------------------------
(* The peers, the bus and time.                                              *)

Owning(n) == {p \in Endpoints : owns[n][p] # NoEntity}

\* A peer starts, perhaps with a new configuration, and owes all its claims.
Boot(n) ==
  /\ power[n] = "off"
  /\ boots < MaxBoots
  /\ boots' = boots + 1
  /\ power' = [power EXCEPT ![n] = "on"]
  /\ \E config \in Ownerships : owns' = [owns EXCEPT ![n] = config[n]]
  /\ owes' = [owes EXCEPT ![n] = Owning(n)']
  /\ UNCHANGED <<directory, unresolved, cuts, losses>>

Shutdown(n) ==
  /\ power[n] = "on"
  /\ boots < MaxBoots
  /\ power' = [power EXCEPT ![n] = "off"]
  /\ owes' = [owes EXCEPT ![n] = {}]
  /\ UNCHANGED <<directory, unresolved, owns, bounds>>

Cut(n) ==
  /\ power[n] = "on"
  /\ cuts < MaxCuts
  /\ cuts' = cuts + 1
  /\ power' = [power EXCEPT ![n] = "cut"]
  /\ UNCHANGED <<directory, unresolved, owns, owes, boots, losses>>

Reconnect(n) ==
  /\ power[n] = "cut"
  /\ power' = [power EXCEPT ![n] = "on"]
  /\ UNCHANGED <<directory, unresolved, owns, owes, bounds>>

\* A peer transmits a claim it owes, and the observer receives it.
ClaimArrives(n) ==
  /\ power[n] = "on"
  /\ \E p \in owes[n] :
       /\ HandleClaim(n, p)
       /\ owes' = [owes EXCEPT ![n] = @ \ {p}]
  /\ UNCHANGED <<power, owns, bounds>>

\* A claim that is lost, or that drain_one gave up because transmit refused it.
ClaimLost(n) ==
  /\ \/ power[n] = "on" /\ losses < MaxLosses /\ losses' = losses + 1
     \/ power[n] = "cut" /\ UNCHANGED losses
  /\ \E p \in owes[n] : owes' = [owes EXCEPT ![n] = @ \ {p}]
  /\ UNCHANGED <<directory, unresolved, power, owns, boots, cuts>>

\* A unit of time passes; nobody on the bus stays silent until the timeout.
Elapse ==
  /\ \A n \in Sources : power[n] = "on" => silence[n] + 1 < Timeout
  /\ \E n \in Sources : silence[n] < Timeout
  /\ silence' = [n \in Sources |-> IF silence[n] < Timeout THEN silence[n] + 1 ELSE Timeout]
  /\ UNCHANGED <<entities, seen, unresolved, available, lastClaim, peers, bounds>>

-----------------------------------------------------------------------------
Next ==
  \/ TickExpire \/ TickResolve \/ Elapse
  \/ \E n \in Sources :
       \/ HandleOther(n) \/ ClaimArrives(n) \/ ClaimLost(n)
       \/ Boot(n) \/ Shutdown(n) \/ Cut(n) \/ Reconnect(n)

Spec == Init /\ [][Next]_vars

(* The observer ticks for ever, a peer transmits what it owes, and a bus that  *)
(* was cut is repaired; nothing forces a peer to start or to stop.             *)
FairSpec ==
  /\ Spec
  /\ WF_vars(TickExpire) /\ WF_vars(TickResolve)
  /\ \A n \in Sources : WF_vars(ClaimArrives(n)) /\ WF_vars(Reconnect(n))

-----------------------------------------------------------------------------
TypeOK ==
  /\ entities \in [Slots -> Locations \cup {NoLocation}]
  /\ seen \subseteq Sources
  /\ silence \in [Sources -> 0 .. Timeout]
  /\ unresolved \subseteq Observed
  /\ available \subseteq Entities
  /\ lastClaim \in [Entities -> Locations \cup {NoLocation}]
  /\ power \in [Sources -> {"off", "on", "cut"}]
  /\ owns \in Ownership
  /\ owes \in [Sources -> SUBSET Endpoints]
  /\ boots \in Nat /\ cuts \in Nat /\ losses \in Nat

(* No entity has two entries, however its owners compete (learn_entity).       *)
OneEntryPerEntity ==
  \A s, t \in Occupied : s # t => entities[s].entity # entities[t].entity

(* Every entry belongs to a source that is not marked offline (expire_offline   *)
(* and the beginning of handle), so no entry can escape the next expiry.        *)
OnlineEntries == \A s \in Occupied : entities[s].node \in seen

(* What the consumers were told by entity_available and entity_unavailable is    *)
(* what the directory holds, through conflicts, expiries and a full directory.  *)
AnnouncedExactly == available = {entities[s].entity : s \in Occupied}

(* An entry never contradicts the last claim of its entity that arrived: a       *)
(* competing claim removes the entry (learn_entity).                            *)
LatestClaim == \A s \in Occupied : lastClaim[entities[s].entity] = entities[s]

(* An observed entity that an owner on the bus keeps for good is found in the    *)
(* end and stays in the directory.                                              *)
Resolved ==
  \A e \in Observed :
    <>[](\E n \in Sources, p \in Endpoints : power[n] = "on" /\ owns[n][p] = e)
      => <>[]Mapped(e)
=============================================================================
