------------------------------ MODULE Endpoints ------------------------------
(***************************************************************************)
(* What the devices of several nodes do with each other's states and events     *)
(* (components/hacan/switch, light, binary_sensor, event_source_binding.cpp;      *)
(* protocol_node_runtime.cpp: STATE, EVENT and COMMAND in handle, entity_for,     *)
(* endpoint_handler, publish_state, publish_event).                            *)
(*                                                                         *)
(* A node stands for its address, which it has or does not have yet; how it gets   *)
(* one is in Commissioning.  What a node knows of another's endpoints is a set;     *)
(* EntityDirectory shows how it comes about.  The state queue keeps one value per   *)
(* endpoint, as TransmitQueues shows.  Entities have one owner in the whole        *)
(* installation.  A controller does not receive its own frames.                  *)
(***************************************************************************)
EXTENDS Registration, FiniteSets

CONSTANTS
  Nodes,
  Layouts,        \* configurations: a sequence of declarations per node
  QueueSize,      \* frames in the state and the event queue, 8
  MaxBuffer,      \* bound: frames received and not yet handled
  MaxInputs,      \* bound: local changes, commands and gestures
  MaxFaults       \* bound: power cycles and frames refused by the driver

Gestures == {"click", "long_press"}

(* What the YAML schemas accept: only switches have a state source, only switches   *)
(* and lights have event sources.                                             *)
Binding == [entity : Nat, gesture : Gestures, action : {"toggle", "turn_on", "turn_off"}]

Declaration ==
  {decl \in [kind : {"switch", "light", "sensor", "button"}, entity : Nat, endpoint : Nat,
             source : Nat, bindings : Seq(Binding)] :
     /\ decl.source # NoEntity => decl.kind = "switch"
     /\ decl.bindings # <<>> => TakesCommands(decl)}

ASSUME EndpointsAssumption ==
  /\ Layouts \subseteq [Nodes -> Seq(Declaration)]
  /\ QueueSize \in Nat \ {0} /\ MaxBuffer \in Nat \ {0}
  /\ MaxInputs \in Nat /\ MaxFaults \in Nat

Off   == 0
On    == 1
Unset == 2            \* applied_state_ without a value; a sensor that has not reported

VARIABLES
  layout,         \* the configuration
  tables,         \* the tables each node has made of it
  assigned,       \* nodes that have an address
  known,          \* per node, the endpoints <<node, endpoint>> in its directory
  local,          \* per node, its devices and transmit queues
  inbox,          \* per node, frames received and not yet handled
  deaf,           \* history: devices that missed or overrode their input, see below
  inputs, faults  \* counters of the bounds

config == <<layout, tables>>
bounds == <<inputs, faults>>
vars   == <<config, assigned, known, local, inbox, deaf, bounds>>

Devices(n) == DOMAIN layout[n]
Kind(n, i) == layout[n][i].kind

AllDevices  == UNION {{n} \X Devices(n) : n \in Nodes}
Declared(x) == layout[x[1]][x[2]]

State(m, p, v)   == [kind |-> "state", source |-> m, endpoint |-> p, value |-> v]
Gesture(m, p, g) == [kind |-> "event", source |-> m, endpoint |-> p, gesture |-> g]

-----------------------------------------------------------------------------
(* A node after its start.  ESPHome brings a light up in the off state and writes  *)
(* its output in the next loop.                                               *)

Lights(d) == {i \in DOMAIN d : d[i].kind = "light"}

Boot(d) ==
  [value  |-> [i \in DOMAIN d |-> IF i \in Lights(d) THEN Off ELSE Unset],
   dirty  |-> Lights(d),       \* lights whose output is still to be written
   mute   |-> {},              \* history: devices whose last publication was refused
   states |-> <<>>, events |-> <<>>]   \* the transmit queues

-----------------------------------------------------------------------------
(* publish_state and publish_event                                            *)

Owns(n, p) == \E k \in DOMAIN tables[n].owned : tables[n].owned[k].endpoint = p

Waiting(l, p) == {k \in DOMAIN l.states : l.states[k].endpoint = p}

\* Device i of node n publishes v; l is the node's state.
Publish(n, l, i, v) ==
  LET p == layout[n][i].endpoint
      f == State(n, p, v)
  IN  IF ~(n \in assigned /\ Owns(n, p)) \/ (Waiting(l, p) = {} /\ Len(l.states) = QueueSize)
      THEN [l EXCEPT !.mute = @ \cup {i}]
      ELSE [l EXCEPT !.mute = @ \ {i},
                     !.states = IF Waiting(l, p) = {} THEN Append(@, f)
                                ELSE [k \in DOMAIN @ |-> IF k \in Waiting(l, p) THEN f ELSE @[k]]]

-----------------------------------------------------------------------------
(* The devices                                                               *)

ApplySilently(n, l, i, v) ==       \* mutant: the new state is not published
  IF l.value[i] = v THEN l
  ELSE [l EXCEPT !.value[i] = v]

\* HacanSwitch::apply_state
ApplyState(n, l, i, v) ==
  IF l.value[i] = v THEN l
  ELSE Publish(n, [l EXCEPT !.value[i] = v], i, v)

\* A light call takes effect at once; the output follows in the light's loop.
PerformCall(l, i, v) == [l EXCEPT !.value[i] = v, !.dirty = @ \cup {i}]

Set(n, l, i, v) == IF Kind(n, i) = "switch" THEN ApplyState(n, l, i, v) ELSE PerformCall(l, i, v)

ToggledFromOn(v) == IF v = Off THEN On ELSE Off      \* mutant: a switch counts as on at first

Toggled(v) == IF v = On THEN Off ELSE On

\* apply_event_action
ApplyEventAction(n, l, i, action) ==
  CASE action = "toggle"   -> Set(n, l, i, Toggled(l.value[i]))
    [] action = "turn_on"  -> Set(n, l, i, On)
    [] action = "turn_off" -> Set(n, l, i, Off)

-----------------------------------------------------------------------------
(* Mirrors and togglers, for the properties: a mirror is a switch with the state    *)
(* of a device of another node as its only source that nothing else publishes       *)
(* under; a toggler has the toggling on one gesture of another node's button as its    *)
(* only source.                                                              *)

Publishers(m, p) == {j \in Devices(m) : layout[m][j].endpoint = p /\ Kind(m, j) # "button"}

\* The devices that publish the entity e.
Sources(e) ==
  {x \in AllDevices : \E o \in Range(tables[x[1]].owned) :
                        o.entity = e /\ x[2] \in Publishers(x[1], o.endpoint)}

Mirrors ==
  {x \in AllDevices :
    /\ Contains(tables[x[1]].states, StateListener(layout[x[1]], x[2]))
    /\ \E s \in Sources(Declared(x).source) :
         s[1] # x[1] /\ Sources(Declared(x).source) = {s}}

SourceOf(mirror) == CHOOSE s \in Sources(Declared(mirror).source) : TRUE

MirrorsOf(m, set) == {x \in Mirrors : SourceOf(x)[1] = m /\ SourceOf(x)[2] \in set}

OwnEntities(n) == {o.entity : o \in Range(tables[n].owned)}

Togglers(e, g) ==
  {x \in AllDevices :
    /\ e \notin OwnEntities(x[1])
    /\ Declared(x).source = NoEntity
    /\ Declared(x).bindings = <<[entity |-> e, gesture |-> g, action |-> "toggle"]>>
    /\ Contains(tables[x[1]].events, EventListeners(layout[x[1]], x[2])[1])}

-----------------------------------------------------------------------------
(* Every step of a node n takes its state from local[n] to l.  The mirrors of the    *)
(* devices whose publications it queues are no longer deaf; those in lost are.       *)

Queued(l, f) == f \in Range(l.states)

Becomes(n, l, lost) ==
  LET news == {j \in Devices(n) : \E f \in Range(l.states) :
                 f.endpoint = layout[n][j].endpoint /\ ~Queued(local[n], f)}
  IN  /\ local' = [local EXCEPT ![n] = l]
      /\ deaf' = (deaf \ MirrorsOf(n, news)) \cup lost

-----------------------------------------------------------------------------
Init ==
  /\ layout \in Layouts
  /\ tables = [n \in Nodes |-> Tables(layout[n])]
  /\ assigned \in SUBSET Nodes
  /\ known = [n \in Nodes |-> {}]
  /\ local = [n \in Nodes |-> Boot(layout[n])]
  /\ inbox = [n \in Nodes |-> <<>>]
  /\ deaf = {}
  /\ inputs = 0 /\ faults = 0

Input == inputs < MaxInputs /\ inputs' = inputs + 1

Fault == faults < MaxFaults /\ faults' = faults + 1

\* write_state of a switch and a call of a light, from Home Assistant or a rule.
LocalChange(n, i) ==
  /\ Input
  /\ Kind(n, i) \in {"switch", "light"}
  /\ \E v \in {Off, On} : Becomes(n, Set(n, local[n], i, v), {<<n, i>>})
  /\ UNCHANGED <<config, assigned, known, inbox, faults>>

\* handle, COMMAND with a boolean value.  Other values, and endpoints without a
\* handler, are answered and change nothing.
HandleCommand(n, p) ==
  /\ Input
  /\ n \in assigned
  /\ \E h \in Range(tables[n].handlers), v \in {Off, On} :
       /\ h.endpoint = p
       /\ Becomes(n, Set(n, local[n], h.device, v), {<<n, h.device>>})
  /\ UNCHANGED <<config, assigned, known, inbox, faults>>

\* The callback that HacanBinarySensor::setup installs.
SensorChange(n, i) ==
  /\ Input
  /\ Kind(n, i) = "sensor"
  /\ \E v \in {Off, On} \ {local[n].value[i]} :
       Becomes(n, Publish(n, [local[n] EXCEPT !.value[i] = v], i, v), {})
  /\ UNCHANGED <<config, assigned, known, inbox, faults>>

\* PublishEventAction::play
PublishEvent(n, i, g) ==
  /\ Input
  /\ Kind(n, i) = "button"
  /\ LET p == layout[n][i].endpoint IN
       /\ n \in assigned /\ Owns(n, p) /\ Len(local[n].events) < QueueSize
       /\ local' = [local EXCEPT ![n].events = Append(@, Gesture(n, p, g))]
  /\ UNCHANGED <<config, assigned, known, inbox, deaf, faults>>

\* The light's loop: HacanLightOutput::write_state
WriteLight(n, i) ==
  /\ i \in local[n].dirty
  /\ Becomes(n, Publish(n, [local[n] EXCEPT !.dirty = @ \ {i}], i, local[n].value[i]), {})
  /\ UNCHANGED <<config, assigned, known, inbox, bounds>>

-----------------------------------------------------------------------------
(* drain_one: events go before states.                                        *)

HasListeners(n) == tables[n].states # <<>> \/ tables[n].events # <<>>

FirstOut(l) == IF l.events # <<>> THEN Head(l.events) ELSE Head(l.states)

Drained(l) ==
  IF l.events # <<>> THEN [l EXCEPT !.events = Tail(@)] ELSE [l EXCEPT !.states = Tail(@)]

\* Frames that meet no listener are not kept.
Transmit(n) ==
  LET receivers == {m \in Nodes \ {n} : HasListeners(m)} IN
    /\ local[n].events # <<>> \/ local[n].states # <<>>
    /\ \A m \in receivers : Len(inbox[m]) < MaxBuffer
    /\ local' = [local EXCEPT ![n] = Drained(@)]
    /\ inbox' = [m \in Nodes |->
                  IF m \in receivers THEN Append(inbox[m], FirstOut(local[n])) ELSE inbox[m]]
    /\ UNCHANGED <<config, assigned, known, deaf, bounds>>

\* The driver refuses the frame, which has left its queue.
Refuse(n) ==
  /\ Fault
  /\ local[n].events # <<>> \/ local[n].states # <<>>
  /\ local' = [local EXCEPT ![n] = Drained(@)]
  /\ deaf' = deaf \cup IF local[n].events # <<>> THEN {}
                       ELSE MirrorsOf(n, Publishers(n, Head(local[n].states).endpoint))
  /\ UNCHANGED <<config, assigned, known, inbox, inputs>>

-----------------------------------------------------------------------------
(* receive                                                                   *)

EntityOfEndpoint(n, m, p) ==       \* mutant: entities are told apart by their endpoints only
  IF \E q \in Nodes : <<q, p>> \in known[n]
  THEN (CHOOSE o \in UNION {Range(tables[q].owned) : q \in Nodes} : o.endpoint = p).entity
  ELSE NoEntity

\* entity_for
EntityFor(n, m, p) ==
  IF <<m, p>> \in known[n]
  THEN (CHOOSE o \in Range(tables[m].owned) : o.endpoint = p).entity
  ELSE NoEntity

\* The listener x listens to the entity of the frame f.
Listens(n, f, x) ==
  LET e == EntityFor(n, f.source, f.endpoint) IN e # NoEntity /\ x.entity = e

\* What a frame of kind "state" does to a listener: HacanSwitch::state.
HearState(n, f, l, x) ==
  IF Listens(n, f, x) THEN ApplyState(n, l, x.device, f.value) ELSE l

Mirrored(n, f) ==
  FoldLeft(LAMBDA l, x : HearState(n, f, l, x), local[n], tables[n].states)

\* What an event does to a listener: EventSourceBinding::event.
HearEvent(n, f, l, x) ==
  LET b == layout[n][x.device].bindings[x.binding] IN
    IF Listens(n, f, x) /\ b.gesture = f.gesture
    THEN ApplyEventAction(n, l, x.device, b.action) ELSE l

Acted(n, f) ==
  FoldLeft(LAMBDA l, x : HearEvent(n, f, l, x), local[n], tables[n].events)

\* The devices with a binding for this gesture of an endpoint.
Bound(n, f) == {x.device : x \in {y \in Range(tables[n].events) :
  /\ layout[n][y.device].bindings[y.binding].gesture = f.gesture
  /\ \E o \in Range(tables[f.source].owned) : o.endpoint = f.endpoint /\ o.entity = y.entity}}

Receive(n) ==
  /\ inbox[n] # <<>>
  /\ inbox' = [inbox EXCEPT ![n] = Tail(@)]
  /\ LET f == Head(inbox[n])
         unknown == <<f.source, f.endpoint>> \notin known[n]
     IN  \/ /\ f.kind = "state"
            /\ Becomes(n, Mirrored(n, f),
                 IF unknown THEN {x \in MirrorsOf(f.source, Publishers(f.source, f.endpoint)) : x[1] = n}
                 ELSE {})
         \/ /\ f.kind = "event"
            /\ Becomes(n, Acted(n, f),
                 {n} \X {i \in Bound(n, f) : unknown \/ layout[n][i].source # NoEntity})
  /\ UNCHANGED <<config, assigned, known, bounds>>

\* A claim of m for the endpoint p reaches n.  Only claims of entities that n
\* listens to make a difference here.
Learn(n, m, p) ==
  /\ m # n /\ m \in assigned
  /\ \E o \in Range(tables[m].owned) : o.endpoint = p /\ Observes(tables[n], o.entity)
  /\ known' = [known EXCEPT ![n] = @ \cup {<<m, p>>}]
  /\ UNCHANGED <<config, assigned, local, inbox, deaf, bounds>>

\* The node is given its address.
Adopt(n) ==
  /\ n \notin assigned
  /\ assigned' = assigned \cup {n}
  /\ UNCHANGED <<config, known, local, inbox, deaf, bounds>>

\* A power cycle, after which the others may have removed the node's entries.
Restart(n) ==
  /\ Fault
  /\ local' = [local EXCEPT ![n] = Boot(layout[n])]
  /\ inbox' = [inbox EXCEPT ![n] = <<>>]
  /\ \E forget \in BOOLEAN :
       known' = [m \in Nodes |-> IF m = n THEN {}
                                 ELSE {x \in known[m] : ~(forget /\ x[1] = n)}]
  /\ deaf' = deaf \cup ({n} \X Devices(n))
  /\ UNCHANGED <<config, assigned, inputs>>

Next ==
  \E n \in Nodes :
    \/ \E i \in Devices(n) : LocalChange(n, i) \/ SensorChange(n, i) \/ WriteLight(n, i)
    \/ \E i \in Devices(n), g \in Gestures : PublishEvent(n, i, g)
    \/ \E i \in Devices(n) : HandleCommand(n, layout[n][i].endpoint)
    \/ Transmit(n) \/ Refuse(n) \/ Receive(n)
    \/ \E m \in Nodes : \E i \in Devices(m) : Learn(n, m, layout[m][i].endpoint)
    \/ Adopt(n) \/ Restart(n)

Spec == Init /\ [][Next]_vars

\* Main loops run for ever, and the bus shuts nobody out for ever.
FairSpec ==
  Spec /\ \A n \in Nodes :
    /\ SF_vars(Transmit(n)) /\ WF_vars(Receive(n))
    /\ WF_vars(\E i \in Devices(n) : WriteLight(n, i))

-----------------------------------------------------------------------------
Frame ==
  [kind : {"state"}, source : Nodes, endpoint : Nat, value : {Off, On}]
    \cup [kind : {"event"}, source : Nodes, endpoint : Nat, gesture : Gestures]

TypeOK ==
  /\ assigned \subseteq Nodes
  /\ known \in [Nodes -> SUBSET (Nodes \X Nat)]
  /\ \A n \in Nodes :
       /\ \A t \in DOMAIN tables[n] : Len(tables[n][t]) <= TableSize
       /\ local[n].value \in [Devices(n) -> {Off, On, Unset}]
       /\ local[n].dirty \subseteq Lights(layout[n]) /\ local[n].mute \subseteq Devices(n)
       /\ local[n].states \in Seq(Frame) /\ Len(local[n].states) <= QueueSize
       /\ local[n].events \in Seq(Frame) /\ Len(local[n].events) <= QueueSize
       /\ inbox[n] \in Seq(Frame) /\ Len(inbox[n]) <= MaxBuffer
  /\ deaf \subseteq AllDevices

(* The tables of every node belong together.                                  *)
TablesAgree == \A n \in Nodes : Consistent(layout[n], tables[n])

(* Everything that is declared is registered, or a table or another declaration      *)
(* is in its way.                                                            *)
TablesComplete == \A n \in Nodes : Complete(layout[n], tables[n])

\* The device i of node n has a state, and was not refused when it published it.
Said(n, i) == local[n].value[i] # Unset /\ i \notin local[n].dirty \cup local[n].mute

\* The state frames of the device s.
From(s) == {f \in Frame : f.kind = "state" /\ f.source = s[1]
                          /\ f.endpoint = Declared(s).endpoint}

\* What a device that shows v shows after those frames of the queue q.
After(q, frames, v) ==
  LET hits == {k \in DOMAIN q : q[k] \in frames} IN
    IF hits = {} THEN v ELSE q[Max(hits)].value

\* A mirror shows the state of its source once it has handled what waits for it.
InStep(mirror) ==
  LET s == SourceOf(mirror)
      n == mirror[1]
      next == After(inbox[n], From(s), local[n].value[mirror[2]])
  IN  Said(s[1], s[2]) => After(local[s[1]].states, From(s), next) = local[s[1]].value[s[2]]

(* A mirror shows the state of its source, or the state is on its way to it, also    *)
(* along chains of mirrors; except one that dropped the last state because it did     *)
(* not know the source yet, restarted, was switched by someone else or lost the      *)
(* frame, and one whose source could not publish its state.                       *)
MirrorsFollow == \A mirror \in Mirrors \ deaf : InStep(mirror)

\* The events under way to the device z that it reacts to, and its state.
Parity(z) ==
  LET waiting == {k \in DOMAIN inbox[z[1]] :
                    inbox[z[1]][k].kind = "event" /\ z[2] \in Bound(z[1], inbox[z[1]][k])}
  IN  ((IF local[z[1]].value[z[2]] = On THEN 1 ELSE 0) + Cardinality(waiting)) % 2

(* Switches and lights that toggle on one gesture of one button agree, counting the    *)
(* gestures they have received and not handled, unless one of them missed a gesture,   *)
(* restarted or was switched by someone else.                                  *)
TogglesAgree ==
  \A e \in UNION {OwnEntities(n) : n \in Nodes}, g \in Gestures :
    \A x, y \in Togglers(e, g) \ deaf : Parity(x) = Parity(y)

\* No mirror mirrors itself, directly or through others.
Layered ==
  \E rank \in [Mirrors -> 1 .. Cardinality(Mirrors)] :
    \A x \in Mirrors : SourceOf(x) \in Mirrors => rank[SourceOf(x)] < rank[x]

Follows(mirror) ==
  LET s == SourceOf(mirror) IN
    Said(s[1], s[2]) => local[mirror[1]].value[mirror[2]] = local[s[1]].value[s[2]]

(* When mirrors do not form a circle, they all settle on the states of their         *)
(* sources once nothing changes any more (a circle may swap its states for ever,      *)
(* and is left out): nothing stays under way, and no mirror is missed.               *)
MirrorsSettle == <>[](Layered => \A x \in Mirrors \ deaf : Follows(x))
=============================================================================
