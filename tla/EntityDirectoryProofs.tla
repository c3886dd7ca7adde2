------------------------ MODULE EntityDirectoryProofs ------------------------
(***************************************************************************)
(* What the directory guarantees for every number of peers, entities and      *)
(* slots, every configuration and every order of claims, expiries and resets.  *)
(***************************************************************************)
EXTENDS EntityDirectory, DataLemmas

(* The outcomes of learn_entity that change something: the entry of the entity  *)
(* is removed, or an empty slot is filled when the entity has none.             *)
LEMMA LearnEntityChanges ==
  ASSUME NEW l \in Locations, LearnEntity(l)
  PROVE  \/ UNCHANGED <<entities, available>> /\ ~Mapped(l.entity)
         \/ /\ UNCHANGED <<entities, available>>
            /\ \E s \in Slots : entities[s].entity = l.entity /\ entities[s] = l
         \/ \E s \in Slots :
              /\ entities[s].entity = l.entity
              /\ entities' = [entities EXCEPT ![s] = NoLocation]
              /\ available' = available \ {l.entity}
         \/ \E s \in Slots :
              /\ ~Mapped(l.entity)
              /\ entities[s] = NoLocation
              /\ entities' = [entities EXCEPT ![s] = l]
              /\ available' = available \cup {l.entity}
<1> DEFINE known == {s \in Slots : entities[s].entity = l.entity}
           free  == Slots \ Occupied
<1>1. known \subseteq Nat /\ free \subseteq Nat
  BY DEF Slots
<1>2. known # {} => Min(known) \in known
  BY <1>1, MinIsLeast
<1>3. free # {} => Min(free) \in free
  BY <1>1, MinIsLeast
<1>4. \A s \in free : s \in Slots /\ entities[s] = NoLocation
  BY DEF Occupied
<1>5. known = {} <=> ~Mapped(l.entity)
  BY DEF Mapped
<1>6. \/ known # {} /\ entities[Min(known)] = l /\ UNCHANGED <<entities, available>>
      \/ /\ known # {}
         /\ entities' = [entities EXCEPT ![Min(known)] = NoLocation]
         /\ available' = available \ {l.entity}
      \/ /\ known = {} /\ free # {}
         /\ entities' = [entities EXCEPT ![Min(free)] = l]
         /\ available' = available \cup {l.entity}
      \/ known = {} /\ UNCHANGED <<entities, available>>
  BY DEF LearnEntity
<1> HIDE DEF free
<1> QED BY <1>2, <1>3, <1>4, <1>5, <1>6

(* A claim is of a location: a peer owes only claims of endpoints that own an     *)
(* entity.                                                                      *)
OwesOwned == \A n \in Sources : \A p \in owes[n] : owns[n][p] # NoEntity

(* The variables hold what their C++ counterparts can hold.                      *)
THEOREM DirectoryTypes == Spec => [](TypeOK /\ OwesOwned)
<1> USE DirectoryAssumption
<1>1. Init => TypeOK /\ OwesOwned
  BY DEF Init, TypeOK, OwesOwned, Slots
<1>2. TypeOK /\ OwesOwned /\ [Next]_vars => TypeOK' /\ OwesOwned'
  <2> SUFFICES ASSUME TypeOK, OwesOwned, [Next]_vars PROVE TypeOK' /\ OwesOwned'
    OBVIOUS
  <2>0. NoLocation \in Locations \cup {NoLocation}
    OBVIOUS
  <2>1. ASSUME NEW gone, Forget(gone)
        PROVE  /\ entities' \in [Slots -> Locations \cup {NoLocation}]
               /\ available' \subseteq Entities
    BY <2>1 DEF Forget, TypeOK
  <2>2. ASSUME TickExpire PROVE TypeOK' /\ OwesOwned'
    BY <2>1, <2>2 DEF TickExpire, ExpireOffline, TypeOK, OwesOwned, peers, bounds
  <2>3. ASSUME TickResolve PROVE TypeOK' /\ OwesOwned'
    <3>1. PICK e \in unresolved :
            /\ ExpireOffline
            /\ unresolved' = unresolved \ {e}
            /\ owes' = [n \in Sources |-> owes[n] \cup Resolve(n, e)]
            /\ UNCHANGED <<power, owns, bounds>>
      BY <2>3 DEF TickResolve
    <3>2. e \in Entities
      BY DEF TypeOK
    <3>3. \A n \in Sources : /\ Resolve(n, e) \subseteq Endpoints
                             /\ \A p \in Resolve(n, e) : owns[n][p] # NoEntity
      BY <3>2 DEF Resolve, Asked
    <3>4. OwesOwned'
      BY <3>1, <3>3 DEF OwesOwned
    <3>5. owes' \in [Sources -> SUBSET Endpoints]
      BY <3>1, <3>3 DEF TypeOK
    <3> QED BY <2>1, <3>1, <3>4, <3>5 DEF ExpireOffline, TypeOK, bounds
  <2>4. ASSUME Elapse PROVE TypeOK' /\ OwesOwned'
    <3>1. silence' \in [Sources -> 0 .. Timeout]
      BY <2>4 DEF Elapse, TypeOK
    <3> QED BY <2>4, <3>1 DEF Elapse, TypeOK, OwesOwned, peers, bounds
  <2>5. ASSUME NEW n \in Sources, HandleOther(n) PROVE TypeOK' /\ OwesOwned'
    BY <2>5 DEF HandleOther, Hear, TypeOK, OwesOwned, peers, bounds
  <2>6. ASSUME NEW n \in Sources, ClaimArrives(n) PROVE TypeOK' /\ OwesOwned'
    <3>1. PICK p \in owes[n] : /\ HandleClaim(n, p)
                               /\ owes' = [owes EXCEPT ![n] = @ \ {p}]
      BY <2>6 DEF ClaimArrives
    <3> DEFINE l == Location(owns[n][p], n, p)
    <3>2. p \in Endpoints /\ owns[n][p] \in Entities
      BY DEF TypeOK, Ownership, OwesOwned
    <3>3. l \in Locations /\ l.entity \in Entities
      BY <3>2 DEF Location, Locations
    <3> HIDE DEF l
    <3>4. /\ LearnEntity(l)
          /\ lastClaim' = [lastClaim EXCEPT ![l.entity] = l]
          /\ unresolved' = unresolved
          /\ Hear(n)
      BY <3>1 DEF HandleClaim, l
    <3>5. entities' \in [Slots -> Locations \cup {NoLocation}] /\ available' \subseteq Entities
      BY <3>3, <3>4, LearnEntityChanges DEF TypeOK
    <3>6. lastClaim' \in [Entities -> Locations \cup {NoLocation}]
      BY <3>3, <3>4 DEF TypeOK
    <3>7. seen' \subseteq Sources /\ silence' \in [Sources -> 0 .. Timeout]
      BY <3>4 DEF Hear, TypeOK
    <3>8. OwesOwned' /\ owes' \in [Sources -> SUBSET Endpoints]
      BY <2>6, <3>1 DEF ClaimArrives, OwesOwned, TypeOK
    <3> QED BY <2>6, <3>4, <3>5, <3>6, <3>7, <3>8 DEF ClaimArrives, TypeOK, bounds
  <2>7. ASSUME NEW n \in Sources, ClaimLost(n) PROVE TypeOK' /\ OwesOwned'
    <3>1. PICK p \in owes[n] : owes' = [owes EXCEPT ![n] = @ \ {p}]
      BY <2>7 DEF ClaimLost
    <3>2. OwesOwned' /\ owes' \in [Sources -> SUBSET Endpoints]
      BY <2>7, <3>1 DEF ClaimLost, OwesOwned, TypeOK
    <3>3. losses' \in Nat
      BY <2>7 DEF ClaimLost, TypeOK
    <3> QED BY <2>7, <3>2, <3>3 DEF ClaimLost, TypeOK, directory
  <2>8. ASSUME NEW n \in Sources, Boot(n) PROVE TypeOK' /\ OwesOwned'
    <3>1. PICK config \in Ownerships : owns' = [owns EXCEPT ![n] = config[n]]
      BY <2>8 DEF Boot
    <3>2. owns' \in Ownership
      BY <3>1 DEF TypeOK, Ownership
    <3>3. owes' = [owes EXCEPT ![n] = {p \in Endpoints : owns'[n][p] # NoEntity}]
      BY <2>8 DEF Boot, Owning
    <3>4. owes' \in [Sources -> SUBSET Endpoints]
      BY <3>3 DEF TypeOK
    <3>5. OwesOwned'
      BY <3>1, <3>3 DEF OwesOwned, TypeOK, Ownership
    <3> QED BY <2>8, <3>2, <3>4, <3>5 DEF Boot, TypeOK, directory
  <2>9. ASSUME NEW n \in Sources, Shutdown(n) \/ Cut(n) \/ Reconnect(n)
        PROVE  TypeOK' /\ OwesOwned'
    BY <2>9 DEF Shutdown, Cut, Reconnect, TypeOK, OwesOwned, directory, bounds
  <2>10. CASE UNCHANGED vars
    BY <2>10 DEF vars, TypeOK, OwesOwned
  <2> QED BY <2>2, <2>3, <2>4, <2>5, <2>6, <2>7, <2>8, <2>9, <2>10 DEF Next
<1> QED BY <1>1, <1>2, PTL DEF Spec

-----------------------------------------------------------------------------
(***************************************************************************)
(* The four safety properties are inductive only together: that removing one   *)
(* entry leaves the entity unmapped, and so correctly announced, needs that     *)
(* there is no second entry; that the last claim agrees needs it as well.       *)
(***************************************************************************)
DirectoryInv ==
  OneEntryPerEntity /\ OnlineEntries /\ AnnouncedExactly /\ LatestClaim

(* The entries and the announcements after expire_offline.                       *)
LEMMA ForgetKeeps ==
  ASSUME TypeOK, DirectoryInv, ExpireOffline
  PROVE  DirectoryInv'
<1> DEFINE stale == {s \in Occupied : entities[s].node \in Offline}
<1>1. /\ \A s \in Slots : entities'[s] = IF s \in stale THEN NoLocation ELSE entities[s]
      /\ available' = available \ {entities[s].entity : s \in stale}
      /\ seen' = seen \ Offline /\ lastClaim' = lastClaim
  BY DEF ExpireOffline, Forget
<1>2. Occupied' = Occupied \ stale /\ Occupied \subseteq Slots
  BY <1>1 DEF Occupied
<1>3. \A s \in Occupied' : entities'[s] = entities[s] /\ s \in Occupied /\ s \notin stale
  BY <1>1, <1>2
<1>4. OneEntryPerEntity' /\ LatestClaim'
  BY <1>1, <1>3 DEF DirectoryInv, OneEntryPerEntity, LatestClaim
<1>5. OnlineEntries'
  BY <1>1, <1>3 DEF DirectoryInv, OnlineEntries
<1>6. {entities'[s].entity : s \in Occupied'} = {entities[s].entity : s \in Occupied \ stale}
  BY <1>2, <1>3
<1>7. AnnouncedExactly'
  <2>1. \A s \in Occupied \ stale, t \in stale : entities[s].entity # entities[t].entity
    BY DEF DirectoryInv, OneEntryPerEntity
  <2>2. stale \subseteq Occupied
    OBVIOUS
  <2>3. available = {entities[s].entity : s \in Occupied}
    BY DEF DirectoryInv, AnnouncedExactly
  <2>4. available' = available \ {entities[s].entity : s \in stale}
    BY <1>1
  <2> HIDE DEF stale
  <2>5. available' = {entities[s].entity : s \in Occupied \ stale}
    BY <2>1, <2>2, <2>3, <2>4
  <2> QED BY <1>6, <2>5 DEF AnnouncedExactly
<1> QED BY <1>4, <1>5, <1>7 DEF DirectoryInv

(* The entries and the announcements after a claim.                              *)
LEMMA LearnKeeps ==
  ASSUME TypeOK, DirectoryInv, NEW l \in Locations, LearnEntity(l),
         seen' = seen \cup {l.node},
         lastClaim' = [lastClaim EXCEPT ![l.entity] = l]
  PROVE  DirectoryInv'
<1> USE DirectoryAssumption
<1>1. l.entity \in Entities /\ l # NoLocation /\ NoLocation.entity \notin Entities
  BY DEF Locations, NoLocation
<1>2. /\ \A s \in Occupied : s \in Slots /\ entities[s] \in Locations
      /\ \A s \in Slots \ Occupied : entities[s] = NoLocation
  BY DEF Occupied, TypeOK
<1>3. \A e \in Entities : lastClaim'[e] = IF e = l.entity THEN l ELSE lastClaim[e]
  BY DEF TypeOK
<1>4. \A s \in Occupied : entities[s].entity \in Entities
  BY <1>2 DEF Locations
<1>5. CASE UNCHANGED <<entities, available>> /\ ~Mapped(l.entity)
  <2>1. Occupied' = Occupied
    BY <1>5 DEF Occupied
  <2>2. \A s \in Occupied : entities[s].entity # l.entity
    BY <1>2, <1>5 DEF Mapped
  <2> QED BY <1>3, <1>4, <1>5, <2>1, <2>2
      DEF DirectoryInv, OneEntryPerEntity, OnlineEntries, AnnouncedExactly, LatestClaim
<1>6. CASE /\ UNCHANGED <<entities, available>>
           /\ \E s \in Slots : entities[s].entity = l.entity /\ entities[s] = l
  <2>1. Occupied' = Occupied
    BY <1>6 DEF Occupied
  <2>2. PICK s \in Slots : entities[s] = l
    BY <1>6
  <2>3. s \in Occupied
    BY <1>1, <2>2 DEF Occupied
  <2>4. \A t \in Occupied : entities[t].entity = l.entity => entities[t] = l
    BY <2>2, <2>3 DEF DirectoryInv, OneEntryPerEntity
  <2> QED BY <1>3, <1>4, <1>6, <2>1, <2>4
      DEF DirectoryInv, OneEntryPerEntity, OnlineEntries, AnnouncedExactly, LatestClaim
<1>7. CASE \E s \in Slots : /\ entities[s].entity = l.entity
                            /\ entities' = [entities EXCEPT ![s] = NoLocation]
                            /\ available' = available \ {l.entity}
  <2>1. PICK s \in Slots : /\ entities[s].entity = l.entity
                           /\ entities' = [entities EXCEPT ![s] = NoLocation]
                           /\ available' = available \ {l.entity}
    BY <1>7
  <2>2. \A t \in Slots : entities'[t] = IF t = s THEN NoLocation ELSE entities[t]
    BY <2>1 DEF TypeOK
  <2>3. s \in Occupied
    BY <1>1, <1>2, <2>1
  <2>4. Occupied' = Occupied \ {s} /\ \A t \in Occupied' : entities'[t] = entities[t]
    BY <1>2, <2>2 DEF Occupied
  <2>5. \A t \in Occupied \ {s} : entities[t].entity # l.entity
    BY <2>1, <2>3 DEF DirectoryInv, OneEntryPerEntity
  <2>6. AnnouncedExactly'
    <3>1. {entities'[t].entity : t \in Occupied'} = {entities[t].entity : t \in Occupied \ {s}}
      BY <2>4
    <3> QED BY <2>1, <2>3, <2>5, <3>1 DEF DirectoryInv, AnnouncedExactly
  <2> QED BY <1>3, <1>4, <2>4, <2>5, <2>6
      DEF DirectoryInv, OneEntryPerEntity, OnlineEntries, LatestClaim
<1>8. CASE \E s \in Slots : /\ ~Mapped(l.entity)
                            /\ entities[s] = NoLocation
                            /\ entities' = [entities EXCEPT ![s] = l]
                            /\ available' = available \cup {l.entity}
  <2>1. PICK s \in Slots : /\ entities[s] = NoLocation
                           /\ entities' = [entities EXCEPT ![s] = l]
                           /\ available' = available \cup {l.entity}
    BY <1>8
  <2>2. \A t \in Slots : entities'[t] = IF t = s THEN l ELSE entities[t]
    BY <2>1 DEF TypeOK
  <2>3. s \notin Occupied
    BY <2>1 DEF Occupied
  <2>4. /\ Occupied' = Occupied \cup {s} /\ entities'[s] = l
        /\ \A t \in Occupied : entities'[t] = entities[t]
    BY <1>1, <1>2, <2>2, <2>3 DEF Occupied
  <2>5. \A t \in Occupied : entities[t].entity # l.entity
    BY <1>2, <1>8 DEF Mapped
  <2>6. AnnouncedExactly'
    <3>1. {entities'[t].entity : t \in Occupied'}
            = {entities[t].entity : t \in Occupied} \cup {l.entity}
      BY <2>4
    <3> QED BY <2>1, <3>1 DEF DirectoryInv, AnnouncedExactly
  <2> QED BY <1>1, <1>3, <1>4, <2>4, <2>5, <2>6
      DEF DirectoryInv, OneEntryPerEntity, OnlineEntries, LatestClaim
<1> QED BY <1>5, <1>6, <1>7, <1>8, LearnEntityChanges

(* The directory holds one entry per entity, only of online sources, equal to    *)
(* its last claim, and its consumers were told exactly that.                     *)
THEOREM DirectoryConsistent ==
  Spec => [](OneEntryPerEntity /\ OnlineEntries /\ AnnouncedExactly /\ LatestClaim)
<1> USE DirectoryAssumption
<1>1. Init => DirectoryInv
  BY DEF Init, DirectoryInv, OneEntryPerEntity, OnlineEntries, AnnouncedExactly,
         LatestClaim, Occupied
<1>2. TypeOK /\ OwesOwned /\ DirectoryInv /\ [Next]_vars => DirectoryInv'
  <2> SUFFICES ASSUME TypeOK, OwesOwned, DirectoryInv, [Next]_vars PROVE DirectoryInv'
    OBVIOUS
  <2>1. ASSUME UNCHANGED <<entities, available, lastClaim>>, seen \subseteq seen'
        PROVE  DirectoryInv'
    BY <2>1 DEF DirectoryInv, OneEntryPerEntity, OnlineEntries, AnnouncedExactly,
                LatestClaim, Occupied
  <2>2. CASE TickExpire \/ TickResolve
    BY <2>2, ForgetKeeps DEF TickExpire, TickResolve
  <2>3. CASE Elapse
    BY <2>1, <2>3 DEF Elapse
  <2>4. ASSUME NEW n \in Sources, HandleOther(n) PROVE DirectoryInv'
    BY <2>1, <2>4 DEF HandleOther, Hear
  <2>5. ASSUME NEW n \in Sources, ClaimArrives(n) PROVE DirectoryInv'
    <3>1. PICK p \in owes[n] : HandleClaim(n, p)
      BY <2>5 DEF ClaimArrives
    <3> DEFINE l == Location(owns[n][p], n, p)
    <3>2. l \in Locations /\ l.node = n
      BY DEF TypeOK, Ownership, OwesOwned, Location, Locations
    <3>3. /\ LearnEntity(l) /\ seen' = seen \cup {n}
          /\ lastClaim' = [lastClaim EXCEPT ![l.entity] = l]
      BY <3>1 DEF HandleClaim, Hear
    <3> HIDE DEF l
    <3> QED BY <3>2, <3>3, LearnKeeps
  <2>6. ASSUME NEW n \in Sources,
               \/ ClaimLost(n) \/ Boot(n) \/ Shutdown(n) \/ Cut(n) \/ Reconnect(n)
        PROVE  DirectoryInv'
    BY <2>1, <2>6 DEF ClaimLost, Boot, Shutdown, Cut, Reconnect, directory
  <2>7. CASE UNCHANGED vars
    BY <2>1, <2>7 DEF vars
  <2> QED BY <2>2, <2>3, <2>4, <2>5, <2>6, <2>7 DEF Next
<1>3. DirectoryInv =>
        OneEntryPerEntity /\ OnlineEntries /\ AnnouncedExactly /\ LatestClaim
  BY DEF DirectoryInv
<1> QED BY <1>1, <1>2, <1>3, DirectoryTypes, PTL DEF Spec

(* The parts of it, by name: an entity has one location.                        *)
THEOREM OneLocation == Spec => []OneEntryPerEntity
<1> QED BY DirectoryConsistent, PTL

(* A source that was silent for 105 s has no entries.                          *)
THEOREM EntriesAreOnline == Spec => []OnlineEntries
<1> QED BY DirectoryConsistent, PTL

(* An entry never contradicts the latest claim of its entity.                  *)
THEOREM LatestClaimWins == Spec => []LatestClaim
<1> QED BY DirectoryConsistent, PTL
=============================================================================
