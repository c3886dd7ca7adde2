# HACAN protocol runtime: TLA+ models and proofs

HACAN lets small home-automation nodes (ESPHome firmware) talk over one CAN bus
without a controller. This directory holds TLA+ models of the runtime in
`src/components/hacan`, TLC configurations that check them on small instances,
and TLAPS proofs of the properties that matter most for instances of any size.
The reference is the C++ code; where the code and `src/docs` disagree, the model
does what the code does and the disagreement is listed under *Findings*.

In what follows `cpp` is `src/components/hacan/protocol_node_runtime.cpp`.

## 1. The system

One node runs one `NodeRuntime`. It is single threaded: ESPHome's main loop calls
`tick(now_ms)` for ever, and the CAN callback calls `receive(frame, now_ms)`
between ticks. A `tick` does at most one scheduled thing (the first branch that is
due) and most branches end in `drain_one`, which hands queued frames to the CAN
driver. All concurrency is between nodes: their ticks and receives interleave, and
frames are in queues, controllers and on the bus in between.

| Component | State | Operations | What must hold |
|---|---|---|---|
| Commissioning (`NodeRuntime`, `cpp:34-194, 255-391, 485-554, 648-671`) | `address_`, flash, `allocated_`, `claims_sent_`, timers, pending discovery response | constructor, discovery, response, assign, claim, conflict, withdraw | no two nodes use one address; conflicts end; the lower UID keeps the address; an address survives a power cycle; every node is commissioned in the end |
| Transmit queues (`cpp:393-440`) | five bounded queues, one per traffic class | `enqueue`, `drain_one`, `publish_state`, `publish_event` | a listener sees states in order and never an old one after a new one; events are neither merged nor reordered; an accepted state is sent |
| Command duplicates (`cpp:241-254, 556-611`) | `duplicates_`, 16 records | COMMAND, `is_duplicate`, `set_duplicate_status`, `acknowledge` | a retry within two seconds does not act again, and is answered with the first result |
| Entity directory (`cpp:75-97, 442-489`) | `entities_`, `seen_`, `last_seen_`, resolve cursor | ENTITY_CLAIM, ENTITY_RESOLVE, `expire_offline` | one location per entity, of an online node, announced exactly; an observed entity is found |
| Wire format (`protocol_can_identifier.cpp`, `protocol_frame_codec.cpp`, `protocol_wire_payload.h`, `protocol_typed_value.cpp`) | none | `to_raw`, `from_raw`, `encode`, `decode`, `validate` | what one node means the other reads; foreign frames are rejected or canonical; priorities and uniqueness of identifiers on the bus |
| Tick scheduling (`cpp:52-120, 442-452, 491-510`) | `next_*_ms_`, pending response, cursors, a wrapping 32-bit clock | branches of `tick` | a node gives signs of life in time; its queues do not stand still; all its entities are claimed under each address |
| STATE, EVENT and COMMAND dispatch (`cpp:212-261, 607-635`) | listener and handler tables | `entity_for`, `endpoint_handler`, listener loops | a publication reaches the listeners of its entity and nobody else |
| Registration tables (`cpp:271-368`, `hacan.cpp:16-103`) | bounded tables | filled once before the first tick | the tables agree with each other, and nothing is missing without a reason |
| ESPHome adapter (`hacan.cpp`) | flash preference, counters | `load`, `save`, `transmit`, callback, `loop` | only complete frames reach the runtime; a refused frame is reported |
| Switch, light, binary sensor, event bindings | `applied_state_`, the light's state | `command`, `state`, `event`, `apply_state`, `write_state` | mirrors follow their sources and settle; devices that toggle on one gesture agree |
| Payload classes, YAML code generation, unit tests | none | - | - |

Components interact through direct calls inside a node (`handle` calls
`learn_entity`, a handler's `command`, `enqueue`), through two interfaces the
adapter implements (`IFrameTransmitter`, `IAddressStorage`), and through frames
between nodes: DISCOVERY_REQUEST and DISCOVERY_RESPONSE, ADDRESS_ASSIGN, ADDRESS_CLAIM and
ADDRESS_CONFLICT for addresses, ENTITY_CLAIM and ENTITY_RESOLVE for entities,
STATE, EVENT, COMMAND and ACK for the application, HEARTBEAT for presence.

What is hard here: two owners of an address decide separately who keeps it; the
manager forgets its table at a power cycle; frames are lost in the driver after they
left their queue; a claim counts as sent when its queue was full; the cache of
executed commands overflows and its clock wraps; directory entries compete,
expire and return in any order; one byte carries part of an address and a flag; timers are compared with
a clock that wraps, and one branch of `tick` keeps the others waiting; states run along chains of switches while newer
ones follow. The list `hazards` of
`PROJECT.json` names each of these at its line, with the properties that cover it
or the reason why none does.

## 2. The modules

| Module | Models |
|---|---|
| `FrameQueues` | the five queues as a function from traffic class to sequence: `Add`, `Drained`, the classes that may lose their head in one `drain_one`. Extended by the next two modules |
| `Commissioning` | the address part of several runtimes on one bus, with flash, power cycles, lost frames and refused saves |
| `TransmitQueues` | one node's publications, queues and address changes |
| `StateRegisters` | the abstract specification of the state queue: a register per address and endpoint |
| `CommandDuplicates` | one node's duplicate cache with its wrapping ages |
| `EntityDirectory` | one observer's directory and the peers that claim entities |
| `WireFormat` | identifier, codec, payload rules, senders and readers as operators; a bus that arbitrates between contenders |
| `TickSchedule` | one node's `tick`: the order of its branches, its timers and its wrapping clock |
| `Registration` | the tables of a node as functions of its configuration: what the adapter keeps of the declarations, what `setup` registers |
| `Endpoints` | switches, lights, sensors and buttons of several nodes, their tables (`Registration`), publications, mirrors and bindings |
| `DataLemmas` | lemmas about minima, sequences, counting in queues and loops over a sequence (`FoldLeft`), which the proofs share |
| `CommissioningProofs`, `TransmitQueuesProofs`, `CommandDuplicatesProofs`, `EntityDirectoryProofs`, `WireFormatProofs`, `TickScheduleProofs`, `EndpointsProofs` | the theorems and their lemmas; `EndpointsProofs` covers `Registration` too |
| `MC*` | constants of the TLC instances |

A definition carries the name of the function, member or branch it models, and
the `map` of `PROJECT.json` gives its lines. Definitions commented `mutant:` are
plausible faulty versions of the definition below them; no specification uses
them, and each property is known to fail when its mutant takes the place of the original.

### Correspondence and abstractions

*Commissioning.* A node is its UID, a natural number, because `handle` compares UIDs
as little-endian integers and uses nothing else of them. `address`, `allocated`,
`claims_sent`, `queues` are the members of these names; `stored` is the flash;
`pending` is the requester in `pending_discovery_response_`; `allocated` exists for
primaries, as only `assign` reads it. Actions `Tick*` are the branches of `tick` including their
`drain_one`; `Handle*` are the branches of `handle`; `Restart` is a power cycle,
which runs the constructor. A transmitted frame is appended to the buffers of all
other nodes (a controller does not receive its own frames); frames that a node
ignores in every state (`Ignores`) are not kept. `DrainOne` lets the driver refuse
any frames it tries; the frames are lost, as in the code. A timer is due at any
moment, with two exceptions that keep what the real delays guarantee: the
discovery retry (2 s and longer) and the first claim (1 to 2.5 s) wait for a moment
in which no frame is under way (a frame takes milliseconds).

*TransmitQueues.* A publication is the number of the call. The contents of control
and management frames do not matter, one value stands for all. `newest` and `received` are history:
the last accepted and the last transmitted publication per source address and
endpoint. A heartbeat is not an action: `send_heartbeat` (`cpp:75-78`) calls the
transmitter directly and touches no queue.

*CommandDuplicates.* A command is its source, endpoint and transaction, the three
fields `is_duplicate` compares. A record keeps the difference
`now_ms - seen_ms` instead of `seen_ms`; it wraps as the 32-bit subtraction does. `since`, `result`
and `last` are history.

*EntityDirectory.* One observer with `entities_` as an array of slots; `silence` is
`now_ms - last_seen_`; `unresolved` is what the resolve cursor has still to visit.
The cursor's order is left open. A peer is its address, and owes the claims of its endpoints after it starts and when it
is asked; it may stop, be cut off the bus, return with another configuration, or
lose a claim. Time advances in units, two of which make 105 s, and a peer on the bus
is heard before that time is over (heartbeats come every 30 s).

*WireFormat.* Bytes and bits are arithmetic on numbers. `Build` makes the frame of a
message, `Encode` and `Decode` are the codec with `ValidIdentifier`, `ValidBytes` and
`ValidValue` for all 22 kinds, `Read` is what `handle` takes from a frame. Which error
a frame is rejected with is left out.

*TickSchedule.* `now` is `now_ms` of the last tick, modulo `Width`; a tick comes 1 to `MaxStep` units later. `next` holds the three
`next_*_ms_`, `pending` the `due_ms` of the pending response; the comparisons are those of the code, without regard to the wrap.
The branches of `tick` are actions, each with the negation of the earlier branches in its guard. Response delays are any of
a set, `claim_start_delay` and `claim_interval` are constants of a node, as in the code. Of the address only its
presence matters. `putOff` is history: the timers that lay more than their limit ahead of the clock when it wrapped, so that they
are not due again before the clock has come round to them. `silence`, `delays`, `idle` and `claimed` are history too.

*Registration.* A configuration is a sequence of declarations in the order of the generated calls; a device is the position of its
declaration. Tables are sequences with at most `TableSize` entries, as every table of the code fills up from its first slot and is
never emptied. `Adapter` folds the generated calls of the declarations (`Declare`), `Setup` the three loops of `HacanComponent::setup` (`Own`, `ForStates`, `ForEvents`).

*Endpoints.* A node is its address, which it has (`assigned`) or has not yet. `tables` is what `Registration` makes of its
configuration, `local` its devices and its state and event queue, `inbox` the received frames; frames that no listener could take are not kept.
A configuration is any that the YAML schemas accept (`Declaration`): only switches have a state source, only switches and lights event sources.
The two loops over the listeners (`Mirrored`, `Acted`) visit the whole table and let each listener of the frame's entity act (`HearState`, `HearEvent`).
`known` is the part of the directory that matters: the endpoints whose entity the node has found. Entries come with claims (`Learn`) and go with restarts
of either side; `EntityDirectory` has the rest. The state queue keeps one value per endpoint, which `TransmitQueues` shows of the code's queue.
`deaf` is history: the devices that missed their input (a state of an unknown source, a power cycle, a refused frame) or were switched by somebody else.
A light of ESPHome changes at once and has its output written later; a call for the state it has writes it again.

## 3. What the runs show

TLC, two workers, seconds to two minutes each.

| Run | Instance | Shows |
|---|---|---|
| `Commissioning_fresh` | 3 nodes with empty flashes, one primary; one lost frame, one refused save, one power cycle of a regular node; 4 addresses | no address is used twice (`UniqueAddresses`) or offered while another node has it (`OffersUnused`), the bootstrap address is never given away (`BootstrapReserved`), no address is used before the flash holds it (`PersistedBeforeUse`) |
| `Commissioning_conflict` | 3 nodes whose flashes hold address 1 or 2 each, in every combination; one lost frame | when the claims are out and the bus is quiet no conflict is left (`SettledConflict`); a node withdraws only for a lower UID that uses the address or has just gone over to another one (`WithdrawsForLower`), the lowest never (`LowestKeepsAddress`) |
| `Commissioning_live` | 2 nodes with any flashes, one lost frame, fairness | every node has an address in the end (`AllCommissioned`), conflicts end (`ConflictsEnd`) |
| `CommandDuplicates` | 3 commands, one of an endpoint without handler; 3 records; window 2, clock modulo 6 | what the cache remembers while it has room (`RemembersUntilFull`) and always (`RemembersLast`), and that retries get the first result (`CachesResult`) |
| `EntityDirectory` | 2 peers, 3 entities of which 2 are observed, 2 slots; 2 power changes, 1 cut, 1 lost claim, any configuration at each start | `OneEntryPerEntity`, `OnlineEntries`, `AnnouncedExactly`, `LatestClaim` |
| `EntityDirectory_live` | 2 peers, 2 entities, fixed owners, 4 power changes, fairness | an entity whose owner stays is found and stays found (`Resolved`) |
| `TransmitQueues` | 2 endpoints, 2 addresses, queues of 2, 2 states per endpoint, 3 events; the driver may refuse anything | the state queue implements `StateRegisters` (`Registers`), `OneStatePerEndpoint`, `EventsIntact` |
| `TransmitQueues_live` | 1 endpoint, 2 addresses, 3 states, driver refuses nothing, fairness | a waiting state or a newer one is sent as long as the node keeps the address (`StatesArrive`), while management and control frames keep coming without end, if not every tick has an urgent frame to send |
| `WireFormat` | messages of every sender and some 19,000 foreign frames at the edges of their fields, 2 contenders | `Understood`, `Canonical`, `NoCollision`, `MostUrgentWins` |
| `TickSchedule` | clock modulo 10, heartbeat 3, retries after 1, 2, then 3, ticks 1 or 2 apart, response delays 0 and 2, 2 entities to claim, 1 to resolve; 1 request, 2 assignments or withdrawals; fairness | a node gives signs of life in time (`InTime`), its queues do not stand still (`QueuesDrained`), and it claims all its entities under an address it keeps, unless a wrap has put off one of the two claims of the address that come first (`EntitiesAnnounced`) |
| `Endpoints` | 3 nodes in 5 configurations, tables of 2, queues of 1, 2 inputs, 1 power cycle or refused frame; fairness | the tables agree (`TablesAgree`) and lack nothing without a reason (`TablesComplete`); mirrors show their source's state or it is on its way (`MirrorsFollow`), and settle (`MirrorsSettle`); devices that toggle on one gesture agree (`TogglesAgree`) |
| `Commissioning_primary_restart` | as `fresh`, no losses, the primary may restart | violated: see findings |

`TypeOK` is checked in six of these runs, one per module with a state machine of several variables; it bounds the queues, the tables, the directory and the ages, and pins the wraps of the clocks.

### Bounds, and why they are enough

The bounds are CONSTANTS: `MaxBuffer`, `MaxLosses`, `MaxRestarts`,
`MaxSaveFailures`, `MaxBoots`, `MaxCuts`, `MaxStates`, `MaxEvents`,
`MaxContenders`, `MaxRequests`, `MaxMoves`, `MaxInputs`, `MaxFaults`; besides them the code's own sizes (8 frames in a queue, 16 records, 32
entries, 16 slots of a table, 510 addresses, 2 s, 30 s, 105 s, 2^32 ms) are small constants.

- Three nodes allow a conflict that a third node watches, and a manager with two
  clients of which one's request replaces the other's. Conflicts are decided between
  the claimant and an owner, so further nodes add repetitions. With `MaxAddress` 4 a fresh installation can lose one
  assignment and still has an address for everybody.
- `QueueSize` 8 in the commissioning runs is the code's value. `MaxBuffer` 1 makes a
  frame wait until the slowest receiver took the previous one; frames that wait longer wait in
  the senders' queues, from which each node drains at its own pace.
- One loss is what the protocol is built to survive: two claims are sent because one
  may be lost. With two losses both claims may go, and `SettledConflict` fails, as it should.
- Queues of 2 are full, superseded and overtaken with three events and two states per endpoint. Control and management frames are not counted and have no bound;
  events and states have one because they carry numbers, and a state is replaced in the queue as often as the bound allows.
- In `CommandDuplicates` 3 keys and 3 records let the cache fill with different keys and with expired
  records of one key; a clock modulo 6 with a window of 2 wraps past the window.
- In `EntityDirectory` 3 entities and 2 slots give a full directory, and 2 peers with one
  endpoint each every competition of two locations.
- In `TickSchedule` a clock modulo 10 wraps several times within every history of interest and is longer than each delay; ticks two units apart
  can pass over any time, the last before the wrap included. Two moves allow withdrawal and return, and a second assignment during the claims.
- In `Endpoints` the five configurations are a chain of three mirrors with two on one source, a button with two automations that toggles a light and a
  switch, two switches that mirror each other, more listeners than table slots, and clashing declarations with a binding to a button of the own node and sources without an entity. With queues and buffers of 1
  a second change waits or is refused; two inputs make a newer state follow an older one down the chain, and one fault is enough for a
  mirror to fall behind.
- The theorems of section 4 have none of these bounds.

### Deadlock

Deadlock is checked in the runs of `CommandDuplicates`, `TransmitQueues`, `WireFormat` and `TickSchedule`. It is not
in those of `Commissioning`, `EntityDirectory` and `Endpoints`: nodes that have all claimed their addresses, with empty queues and
the bounded failures used up, have nothing left to do in the part that is modelled (the heartbeats
that go on for ever change no variable of `Commissioning`), an observer that has resolved its entities waits for peers, and devices wait for somebody to press a button.

### Fairness

- `Commissioning`: strong fairness of each branch of `tick`, of `receive` and of the two
  delays of every node, as the main loop never ends (`HacanComponent::loop`). Strong,
  because a transmission waits for the receivers' buffers: it is enabled again and again rather than
  continuously, and CAN arbitration shuts nobody out for ever. For `TickResponse` it also expresses that a response
  is sent within 1 s and retries come after 2 s or more. Restarts and losses are not fair.
- `EntityDirectory`: weak fairness of the observer's ticks, of a peer's pending claims, and of the repair of
  a cut bus. Peers need never start or stop.
- `TransmitQueues`: weak fairness of "a tick that drains". Only the tick of a heartbeat does not
  drain, and the queues never stand still for longer than a heartbeat and a tick (`QueuesDrained`, a theorem). The other nodes may cause control frames without end; `StatesArrive`
  has the condition `UrgencyPauses`, that ticks which send control frames or events do not come without a break for ever. It is part of the property and no fairness of the code:
  without it TLC finds a node whose every tick sends an ACK while a state waits.
- `TickSchedule`: weak fairness of `Tick`, as the main loop never ends.
- `Endpoints`: weak fairness of handling received frames and of the light's loop, strong fairness of transmission, which
  waits for the receivers' buffers. Inputs, claims, addresses and faults are not fair.

## 4. What is proved

The proofs assume the named assumptions of the modules (`CommissioningAssumption`,
`QueueSizeAssumption`, `TransmitAssumption`, `CommandAssumption`, `DirectoryAssumption`,
`WireAssumption`, `ScheduleAssumption`, `TableAssumption`, `EndpointsAssumption`): sizes are positive, sets are subsets of the right sets, delays are shorter
than the clock, configurations are such as the YAML schemas accept. Numbers of nodes, devices, addresses, table and queue sizes, losses and restarts are arbitrary.

| Theorem | Says | By |
|---|---|---|
| `TypeCorrect`, `CommandTypes`, `DirectoryTypes`, `TransmitTypes`, `ScheduleTypes` | `[]TypeOK` | inductive as they stand, except that `DirectoryTypes` needs `OwesOwned` (a peer owes claims only of endpoints that own something) and `TransmitTypes` needs `QueuesOK` (only states in the state queue, only events in the event queue) |
| `AddressPersisted` | `[]PersistedBeforeUse`, with restarts and refused saves | inductive with `TypeOK` |
| `FreshInstallation` | `[](UniqueAddresses /\ OffersUnused)` if there is one primary, it never restarts, and all flashes start empty | `GrantInv`, below |
| `OffersAreUnused` | `[]OffersUnused` under the same assumptions | `GrantInv` |
| `BootstrapIsReserved` | `[]BootstrapReserved` under the same assumptions | `BootstrapInv`: no offer of the bootstrap address is under way, and a manager with an address has marked it in its table |
| `LowestUidKeepsAddress` | the action property `LowestKeepsAddress` | case split on the two actions that withdraw |
| `WithdrawalsServeLower` | the action property `WithdrawsForLower` for any losses, restarts and refused saves | `Backed`, below |
| `ConflictsSettle` | `Spec /\ []NoneFull => []SettledConflict` if `MaxLosses <= 1`, with any flashes and restarts | the copies of the two claims, below |
| `CacheRemembers` | `[](RemembersUntilFull /\ RemembersLast)`, with the wrap of the clock | `CacheInv`: a recent command has a record at most as old as the time since its execution |
| `LastIsRemembered` | `[]RemembersLast` | part of `CacheInv` |
| `RetriesGetTheResult` | `[]CachesResult` | `ResultInv`: while a slot is empty, the only record of a key holds the result of its last execution |
| `DirectoryConsistent` | the four invariants of the directory | they are inductive together |
| `OneLocation`, `EntriesAreOnline`, `LatestClaimWins` | `[]OneEntryPerEntity`, `[]OnlineEntries`, `[]LatestClaim` | from `DirectoryConsistent` |
| `RegistersInvariant` | `[]OneStatePerEndpoint` | `RegisterInv` |
| `QueuesAreRegisters` | `Spec => R!Spec`, the refinement | `RegisterInv`; each step of the queues is a publication, a transmission, a loss or a stutter of the registers |
| `EventsStayInOrder` | `[]EventsIntact` | the waiting events are numbered without gaps up to the last accepted one |
| `IdentifierRoundTrip`, `NumberRoundTrip` | `to_raw` and `from_raw` are inverse for all identifiers and all 29-bit numbers | division with remainder, field by field |
| `AcceptedAreCanonical` | `[]Canonical` | `NumberRoundTrip` and what `decode` demands |
| `SendersAreUnderstood` | `[]Understood` for all addresses, entities, UIDs and values | one lemma per kind, below |
| `NodesDoNotCollide`, `UrgentTrafficFirst` | `[]NoCollision`, `MostUrgentWins` | the identifier determines its source, and is ordered by priority first |
| `SignsOfLifeInTime` | `[]InTime` for any clock width, delays and distances of ticks | `Ahead` and `Quiet`, below |
| `QueuesDrainedInTime` | `[]QueuesDrained` | `Drained`: while the queues stand still the next heartbeat lies ahead, or beyond the wrap |
| `DevicesTyped` | `[]TypeOK` of `Endpoints` | `TypesOK`: besides `TypeOK`, what waits in a node's queues and at the others are frames of its own endpoints |
| `TablesBelongTogether`, `DeclarationsRegistered` | `[]TablesAgree`, `[]TablesComplete` for every configuration and table size | one invariant per loop, below |
| `TogglersAgree` | `[]TogglesAgree` | `Alike`, below |
| `MirrorsShowTheirSource` | `[]MirrorsFollow` | `Shown`, below |

*`GrantInv`.* Uniqueness of the addresses in use is not inductive: nothing in it says where an
address under way comes from. `GrantInv` says that every address in a flash, or offered in a
frame not yet handled, is marked in the primary's table; that no two flashes hold one address; that no two nodes
are offered one; and that nobody is offered what another one holds. Every new offer is
outside the table, and enters it in the same step. The assumption on restarts is needed: the run
`Commissioning_primary_restart` shows an address offered twice after a power cycle of the primary.

*`Backed`.* A node withdraws because of a frame, and the frame says nothing about the present. `Backed` says that for every claim and every conflict message
under way there is a node, not higher than the UID in it, that uses the address or has gone over to another one just before. The second half is needed, as the code accepts
a second assignment while it has an address (`cpp:175-194`). With flashes 1, 0, 0 and 2 of four nodes in the order of their UIDs, the second node is assigned 2, claims it, is
assigned another address, and the fourth node gives 2 up to the old claim although nobody uses it any more. `HasMoved` in `WithdrawsForLower` is that case.

*Copies.* While m and the higher n share an address, m gets rid of n with every claim of its own that n handles, and answers every claim of n that it handles. The
invariant counts for every such pair: m has claimed no more often than its claims are on their way to n, plus the losses; or n has claimed no more often than its claims and the
answers to them are on their way, plus the losses. With two claims each and one loss, one of the accounts is open until a frame reaches n. `NoneFull`, that no queue is full, is an assumption because an `enqueue`
that finds its queue full drops the frame (`cpp:398`): the code counts the claim as sent, and `MaxLosses` does not count the drop. No state of the run `Commissioning_conflict` has a full queue.

*The loops of `Registration`.* Tables are filled by `FoldLeft`, which the library defines by a recursion over index sets. `FoldExists` and `FoldSteps` of
`DataLemmas` show that the recursion has a solution and that it is the sequence of results after 0, 1, 2, ... elements (`FoldRuns`); `CountUp` then carries a fact along the loop. The facts are: the
owned table of the adapter holds each of the declarations so far or one that clashes (`OwnedOK`); a table keeps all listeners so far or is full (`Keeps`); the runtime's
tables are those of the adapter without the entity 0 (`Registers`), and the listener tables hold exactly what is observed (`Merges`).

*`Alike`.* Devices that toggle on one gesture see the same events in the same order but handle them at different times. For each device the proof adds up
its state (1 if it is on) and the waiting events that it reacts to. `Alike` says that every step changes the sum by one for all of the devices that it leaves in touch (outside
`deaf`), or by an even number for all of them: a gesture on the bus adds one everywhere, and a handled one moves from the waiting events to the state. `ActedSteps` shows the
latter for the loop over the listeners: a toggler has one binding, so that the loop reaches it once.

*`Shown`.* A mirror learns its source's state through two queues and a loop. `Shown` relates a node before and after any of its steps, for every device that alone publishes under its
endpoint: either what is queued last is what the device shows, unless it could not publish (`Tells`), or nothing has changed for those who watch it (`Stays`). It composes along the loop over the
listeners (`ShownTransitive`), so that a mirror of a mirror is no special case. That a mirror arrives at its source's state when all that waits is handled is then carried through the transmission of a frame
(`AfterAppend`, `AfterHead`), the replacement of a waiting state (`AfterReplaced`) and the receiver's loop.

*`RegisterInv`.* `enqueue` overwrites the first pending state of the same source and endpoint. That
this is the newest value needs three facts together: a pending state is the only one of its key, it carries the newest accepted
number, and the numbers grow with the calls.

*`Ahead` and `Quiet`.* `InTime` bounds a history variable and says nothing of the timers. `Ahead` says that a timer that no wrap has put off lies at most
its limit ahead of the clock. `Quiet` relates the silence so far, the time that is left to the active
timer and the responses that went first: together they never exceed the limit, so that the silence ends when the timer is due.

*The kinds of `SendersAreUnderstood`.* For each of the eleven kinds that a runtime sends, a lemma shows that its frame passes
`validate` and that `Read` gives back the message. They rest on lemmas about the layouts (where the parts of a
concatenation lie), about the four bytes of an entity (`EntityRoundTrip`) and the nine bits of an address (`NineBits`). `DecodeEncoded`
and the invariant `SentInv`, that the frame on the bus is the encoded one of its message, do the rest.

### Model-checked only

- The liveness properties `AllCommissioned`, `ConflictsEnd`, `Resolved`, `StatesArrive`, `EntitiesAnnounced`, `MirrorsSettle` (liveness is outside what the
  proof system supports). Every invariant, action property and refinement that a passing run checks has a theorem; those of
  `Commissioning` that need an assumption on flashes, restarts, losses or full queues say so in their statement.

## 5. Findings

One run shows the code doing what the documentation excludes:

`Commissioning_primary_restart`. After a power cycle the primary knows only its own address
(`cpp:44`); nodes that were commissioned earlier claim only after their own start, so the next unassigned node is
offered an address in use, against `docs/protocol/discovery.adoc:8` and `addressing.adoc:29-30`.

Met while reading and modelling, without a run of their own:

- No slot of `duplicates_` is ever emptied, so from the 17th command on every new one overwrites slot 0 (`cpp:576-577`), and of the commands stored there only the latest
  can be recognised; `message-types.adoc:221-222` asks for at least the 16 most recent ones. Hence the condition of `RemembersUntilFull`.
- The entry of a contested entity is removed and the conflict forgotten (`cpp:464`); the third claim wins, against `entities.adoc:118-119`.
- The directory maps the entities of an address's former owner to that address as long as its new owner is heard (`cpp:128-154, 478-489`).
- A timer that is set up to its limit before the clock wraps and missed by the last tick before it is put off for 49 days (`cpp:65-75`); in the last 30 s before a
  wrap every tick sends a heartbeat, where `message-types.adoc:92` asks for one in 30 s, and drains nothing.
- `withdraw_address` does not reset `next_discovery_ms_`: a node that lost its address may wait for a time that was computed before its commissioning, which after a wrap
  can be days (`discovery.adoc:39-41` wants seconds).
- A switch whose state source is on its own node never follows it: a controller does not receive its own frames, although `entity_for` has a case for them (`cpp:623`) and
  `docs/esphome/configuration.adoc` and `examples/endpoints.yaml` configure exactly that. For the same reason a switch or light never hears a button of its own node, and two devices that toggle
  on it from different nodes drift apart; `TogglesAgree` is about buttons of other nodes.
- A switch remembers a state that it could not publish (`switch/hacan_switch.cpp:56-62`), and publishes it at the next change only. It publishes nothing before its first change.
- Nothing asks for the present state of an entity that was just found or after a restart (`entities.adoc`, "Stateful consumers SHOULD request current state"), so that
  a mirror stays wrong until its source changes.
- Switches that mirror each other in a circle may swap their states for ever; `MirrorsSettle` excludes circles.
- `drain_one` (`cpp:435-439`) sends one frame per tick, the most urgent one. A node that enqueues an ACK or an event between any two ticks never sends a state again, and one that
  always has a state waiting no management frame; nothing limits either. `UrgencyPauses` in `StatesArrive` excludes the former.
- EVENT frames are not checked for duplicates (`message-types.adoc:185-187`).
- The configuration accepts the entity 0, which `register_owned_entity` refuses without a word (`hacan.cpp:95`, `cpp:272`): the device takes commands, and its states never leave.
- An event source may name the entity 0, too (`__init__.py:33`): it takes a slot of the adapter's listener table (`hacan.cpp:60-65`), which the runtime never fills (`cpp:354`), so that a later
  source finds no room although the runtime has some. `TablesComplete` therefore asks whether the adapter's table is full.
- The results of the `register_*` calls are ignored (`hacan.cpp:95-102`): a listener for which the observed table is full hears nothing, and nothing says so.
- `withdraw_address` (`cpp:491-496`) keeps the queues, so that a node without address sends frames with
  the lost one as their source; `discovery.adoc:122-124` and `diagnostics.adoc:68-69` say it stops.
- A primary whose flash holds another address than 1 gives 1 to a regular node, although
  `docs/esphome/decisions/0007-primary-bootstrap.adoc:26-27` reserves it.
- A primary that loses its address to a lower UID asks for a new one that only it could assign
  (`cpp:262-263`), and nobody is commissioned any more.
- The status of a repeated execution is stored in the first record of its key, which may be an expired one
  (`cpp:581-589`), so the cached ACK of `message-types.adoc:218` may be stale; hence the condition of `CachesResult`.
- A record whose age wraps after 49 days is taken for a fresh one, and one new command with its key is swallowed.
- A second entity of one endpoint does not replace the first (`cpp:461-474`; `entities.adoc:114-115`).
- An entity is resolved once after a start, not again when its owner went offline (`cpp:89-96`; `entities.adoc:126-128`).
- ANNOUNCE, the initial states and the boot token of `diagnostics.adoc:58-66` and `message-types.adoc:217-223` are not implemented.
- The first discovery request goes out at once instead of after a UID-derived delay (`discovery.adoc:39-40`).
- The response of an unassigned node to its own request has destination 0x000, which `addressing.adoc:18-21` excludes.

## 6. Not modelled

- Times in the modules other than `TickSchedule`, `EntityDirectory` and `CommandDuplicates`: there a timer is due at any moment, or never while a frame is on the bus.
- Attributes of states and events that no device reads (quality, flags), data types other than the Boolean and the gesture in `Endpoints` (`WireFormat` has them all;
  the devices ignore or refuse the others).
- The composition of all modules over one bus. The modules meet in named facts: `Endpoints` takes the register from `TransmitQueues` and its entries from `EntityDirectory`,
  these take their ticks from `TickSchedule`, and an address from `Commissioning`. The one thing that a composition would add, that commands are executed and entries kept
  across a change of the address's owner, the code does not try to prevent (section 5).
- Payload classes without a caller in the firmware, the validation of a YAML configuration (at build time, no state), unit tests, logging and counters.
- Boot tokens and sessions: not in the code.

## 7. Plan

Done, in this order: `FrameQueues`, `Commissioning`, `CommandDuplicates`, `TransmitQueues` with
`StateRegisters`, `EntityDirectory`, `WireFormat`, the proofs of each; `TickSchedule` and its proofs, `Registration`, `Endpoints`,
the invariants of the earlier modules that had only been checked, and the proofs of `Endpoints`.

Open: `ConflictsSettle` for queues that may fill up, if the losses at a full queue are counted with the others; an abstract specification of a
mirror as a register that `Endpoints` implements; the composition of `TransmitQueues` with `Commissioning` for states sent under a lost address.
