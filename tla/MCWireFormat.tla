----------------------------- MODULE MCWireFormat -----------------------------
(* Messages and foreign frames at the edges of their fields.                  *)
EXTENDS WireFormat

TwoUids      == {<<0, 0, 0, 0, 0, 0>>, <<1, 2, 3, 4, 5, 255>>}
Edges        == {1, 257, 510}
TwoEndpoints == {1, 254}
EdgeEntities == {1, 256, 16777215, 2130706433}

\* A value of every width, and a quiet NaN.
Typed == {<<0, <<0, 0, 0, 0>> >>, <<Bool, <<1, 0, 0, 0>> >>, <<5, <<255, 127, 0, 0>> >>,
          <<Float32, <<0, 0, 192, 127>> >>, <<11, <<255, 255, 255, 255>> >>}

SomeMessages ==
       [kind : {"discovery_request"}, source : {Unassigned}, transaction : {0, 255},
        window : {1000}, challenge : {<<0, 0, 0, 0>>, <<255, 1, 2, 3>>}]
  \cup [kind : {"discovery_response"}, source : {0, 257}, destination : {0, 510},
        transaction : {255}, uid : TwoUids]
  \cup [kind : {"address_claim", "address_conflict"}, source : Edges, uid : TwoUids, nonce : {255}]
  \cup [kind : {"address_assign"}, source : {1}, uid : TwoUids, address : {1, 2, 255, 256, 510}]
  \cup [kind : {"entity_claim"}, source : {1, 257}, endpoint : TwoEndpoints, entity : EdgeEntities]
  \cup [kind : {"entity_resolve"}, source : {510}, entity : EdgeEntities]
  \cup {[kind |-> "state", source |-> a, endpoint |-> p, type |-> v[1], value |-> v[2],
         quality |-> q] : a \in Edges, p \in {254}, v \in Typed, q \in {1, 16}}
  \cup {[kind |-> "event", source |-> a, endpoint |-> 1, type |-> Enum8,
         value |-> <<e, 0, 0, 0>>] : a \in Edges, e \in {0, 5}}
  \cup [kind : {"ack"}, source : {1, 257}, destination : {1, 510}, transaction : {255},
        endpoint : {254}, original : {KEvent, KCommand}, status : {0, 7}]
  \cup [kind : {"heartbeat"}, source : Edges]

\* Payloads: some that a kind accepts and some that are off by a little.
Payloads == {Octets(s) : s \in {
  <<0, 0, 0, 0, 0, 0, 0, 0>>,     <<7, 2, 232, 3, 1, 1, 1, 1>>,  <<7, 2, 231, 3, 1, 1, 1, 1>>,
  <<1, 2, 3, 4, 5, 6, 1, 9>>,     <<1, 2, 3, 4, 5, 6, 255, 3>>,  <<1, 2, 3, 4, 5, 6, 255, 7>>,
  <<1, 1, 8, 1, 0, 0, 160, 127>>, <<1, 1, 8, 1, 0, 0, 192, 127>>, <<1, 1, 1, 3, 2, 0, 0, 0>>,
  <<1, 255, 1, 3, 1, 0, 0, 0>>,   <<1, 9, 42, 0, 0, 0, 0, 0>>,   <<1, 0, 42, 0, 0, 0, 16, 39>>}}

Ids == {id \in [priority : 0 .. 7, kind : 0 .. 31, destination : {0, 1, 511},
                source : {0, 1, 511}, hop : {0, 7}] :
          id.priority \in {0, IF id.kind \in Kinds THEN PriorityOf(id.kind) ELSE 4}}

SomeForeign ==
       [can_id : {ToRaw(id) : id \in Ids}, extended : {TRUE}, remote : {FALSE}, dlc : {8},
        data : Payloads]
  \cup {[can_id |-> ToRaw([priority |-> 4, kind |-> KAddressClaim, destination |-> Broadcast,
                           source |-> 1, hop |-> 0]) + wide,
         extended |-> x, remote |-> r, dlc |-> l, data |-> Octets(<<1, 2, 3, 4, 5, 6, 1, 9>>)] :
          wide \in {0, IdentifierLimit}, x \in BOOLEAN, r \in BOOLEAN, l \in {7, 8}}
=============================================================================
