---------------------------- MODULE Registration ----------------------------
(***************************************************************************)
(* The tables of a node: what its YAML configuration declares, what the         *)
(* adapter keeps of it (components/hacan/hacan.cpp: add_owned_endpoint,          *)
(* add_state_listener, add_event_listener) and what setup hands on to the        *)
(* runtime (protocol_node_runtime.cpp: register_...). Every table has TableSize     *)
(* slots and fills up from the first.                                         *)
(*                                                                         *)
(* A configuration is a sequence of declarations in the order of the generated    *)
(* calls; a device is the position of its declaration.                         *)
(***************************************************************************)
EXTENDS Integers, SequencesExt

CONSTANT TableSize    \* kMaxConfiguredEntities and the tables of the runtime, 16

ASSUME TableAssumption == TableSize \in Nat \ {0}

NoEntity  == 0        \* the one EntityId that a configuration may contain and no node may use
NoHandler == 0        \* a device that takes no commands

TakesCommands(decl) == decl.kind \in {"switch", "light"}

IntoTable(t, x) == Append(t, x)    \* mutant: a table without an end

IntoAllButLast(t, x) ==            \* mutant: the last slot stays empty
  IF Len(t) < TableSize - 1 THEN Append(t, x) ELSE t

\* The first free slot, if there is one.
IntoFreeSlot(t, x) == IF Len(t) < TableSize THEN Append(t, x) ELSE t

-----------------------------------------------------------------------------
(* The adapter                                                               *)

Owned(d, i) ==
  [entity |-> d[i].entity, endpoint |-> d[i].endpoint,
   handler |-> IF TakesCommands(d[i]) THEN i ELSE NoHandler]

StateListener(d, i) == [device |-> i, entity |-> d[i].source]

\* One listener per entry of event_sources.
EventListeners(d, i) ==
  [b \in DOMAIN d[i].bindings |->
    [device |-> i, binding |-> b, entity |-> d[i].bindings[b].entity]]

Same(o, p)   == o.entity = p.entity /\ o.endpoint = p.endpoint
Clash(o, p)  == o.entity = p.entity \/ o.endpoint = p.endpoint

AddHandlerFirst(t, o) ==           \* mutant: the handler is taken before the conflict is seen
  IF \E k \in DOMAIN t : Clash(t[k], o)
  THEN [k \in DOMAIN t |->
         IF Clash(t[k], o) /\ o.handler # NoHandler THEN [t[k] EXCEPT !.handler = o.handler]
         ELSE t[k]]
  ELSE IntoFreeSlot(t, o)

\* A second declaration of entity and endpoint brings its handler; one that has
\* only one of them in common with an earlier one is dropped.
AddOwnedEndpoint(t, o) ==
  IF \E k \in DOMAIN t : Clash(t[k], o)
  THEN [k \in DOMAIN t |->
         IF Same(t[k], o) /\ o.handler # NoHandler THEN [t[k] EXCEPT !.handler = o.handler]
         ELSE t[k]]
  ELSE IntoFreeSlot(t, o)

\* The generated calls of declaration i.  A switch without a state source is no state
\* listener.
Declare(d, a, i) ==
  [owned  |-> AddOwnedEndpoint(a.owned, Owned(d, i)),
   states |-> IF d[i].source = NoEntity THEN a.states
              ELSE IntoFreeSlot(a.states, StateListener(d, i)),
   events |-> FoldLeft(IntoFreeSlot, a.events, EventListeners(d, i))]

Undeclared == [owned |-> <<>>, states |-> <<>>, events |-> <<>>]

Adapter(d) == FoldLeft(LAMBDA a, i : Declare(d, a, i), Undeclared, [i \in DOMAIN d |-> i])

-----------------------------------------------------------------------------
(* The runtime                                                               *)

RegisterOwnedEntity(t, o) ==
  IF o.entity = NoEntity \/ \E k \in DOMAIN t : Clash(t[k], o) THEN t
  ELSE IntoFreeSlot(t, [entity |-> o.entity, endpoint |-> o.endpoint])

RegisterEndpoint(t, o) ==
  IF o.handler = NoHandler \/ \E k \in DOMAIN t : t[k].endpoint = o.endpoint THEN t
  ELSE IntoFreeSlot(t, [endpoint |-> o.endpoint, device |-> o.handler])

Observes(r, e) == Contains(r.observed, e)

RegisterObservedEntity(r, e) ==
  IF e = NoEntity \/ Observes(r, e) THEN r
  ELSE [r EXCEPT !.observed = IntoFreeSlot(@, e)]

\* register_state_listener and register_event_listener, kind being the table.  The
\* entity is observed only if the listener finds a slot, and the listener takes
\* the slot only if the entity is observed.
RegisterListener(r, kind, l) ==
  IF l.entity = NoEntity \/ Len(r[kind]) = TableSize THEN r
  ELSE LET o == RegisterObservedEntity(r, l.entity) IN
         IF Observes(o, l.entity) THEN [o EXCEPT ![kind] = Append(@, l)] ELSE r

Own(r, o) == [r EXCEPT !.owned    = RegisterOwnedEntity(@, o),
                       !.handlers = RegisterEndpoint(@, o)]

ForStates(r, l) == RegisterListener(r, "states", l)
ForEvents(r, l) == RegisterListener(r, "events", l)

Unregistered == [owned |-> <<>>, handlers |-> <<>>, observed |-> <<>>, states |-> <<>>, events |-> <<>>]

\* setup of the adapter a: three loops.
Setup(a) ==
  LET owned  == FoldLeft(Own, Unregistered, a.owned)
      states == FoldLeft(ForStates, owned, a.states)
  IN  FoldLeft(ForEvents, states, a.events)

Tables(d) == Setup(Adapter(d))

-----------------------------------------------------------------------------
Full(t) == Len(t) = TableSize

(* The tables r of a configuration d belong together: entities and endpoints are   *)
(* unique, a command reaches a device that was declared under the endpoint, and     *)
(* exactly the entities somebody listens to are observed.                        *)
Consistent(d, r) ==
  /\ \A k, l \in DOMAIN r.owned : k # l => ~Clash(r.owned[k], r.owned[l])
  /\ \A k \in DOMAIN r.handlers :
       LET h == r.handlers[k] IN
         /\ TakesCommands(d[h.device]) /\ d[h.device].endpoint = h.endpoint
         /\ \A m \in DOMAIN r.owned :
              r.owned[m].endpoint = h.endpoint => r.owned[m].entity = d[h.device].entity
  /\ Range(r.observed) = {l.entity : l \in Range(r.states) \cup Range(r.events)}

(* Nothing that is declared is missing, unless a table was full, two declarations    *)
(* claim one entity or endpoint, or the entity is 0.                             *)
Complete(d, r) ==
  LET a == Adapter(d) IN
    \A i \in DOMAIN d :
      /\ \/ \E k \in DOMAIN r.owned : Same(r.owned[k], d[i])
         \/ d[i].entity = NoEntity \/ Full(a.owned)
         \/ \E j \in 1 .. i - 1 : Clash(d[j], d[i]) /\ ~Same(d[j], d[i])
      /\ d[i].source # NoEntity =>
           Contains(r.states, StateListener(d, i)) \/ Full(a.states) \/ Full(r.observed)
      /\ \A b \in DOMAIN d[i].bindings :
           \/ d[i].bindings[b].entity = NoEntity
           \/ Contains(r.events, EventListeners(d, i)[b]) \/ Full(a.events) \/ Full(r.observed)
=============================================================================
