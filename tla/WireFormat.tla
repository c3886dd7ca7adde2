------------------------------ MODULE WireFormat ------------------------------
(***************************************************************************)
(* How the messages of a runtime travel on the CAN bus (components/hacan:    *)
(* protocol_can_identifier.cpp, protocol_frame_codec.cpp,                    *)
(* protocol_wire_payload.h, protocol_typed_value.cpp, the senders and the     *)
(* readers of protocol_node_runtime.cpp, the callback in hacan.cpp).          *)
(*                                                                         *)
(* A message is what a sender means.  Build makes a frame of it, Encode a raw  *)
(* frame, Decode checks a raw frame, Read is what handle takes from it.  The   *)
(* bus lets the contender with the lowest identifier transmit.  The state      *)
(* machine only feeds these operators: nodes submit frames, one wins, it is    *)
(* received; or a frame of other software is received.                        *)
(*                                                                         *)
(* Bytes are numbered from 0 as in the code.  Fields of the identifier are     *)
(* put together by multiplication: they are within their widths, so that is    *)
(* what << and | do.  The error a rejected frame is rejected with only         *)
(* decides a log line and is left out.                                        *)
(***************************************************************************)
EXTENDS Integers, Sequences, FiniteSets

CONSTANTS
  Messages,       \* what the nodes send, see MessageSpace
  ForeignFrames,  \* what other software may put on the bus
  MaxContenders   \* bound: frames submitted at the same time

Byte == 0 .. 255

Unassigned == 0
Broadcast  == 511                  \* 0x1FF
Addresses  == 1 .. 510

\* Priority
Control    == 1
Event      == 2
StateQuery == 3
Management == 4
Diagnostic == 5

\* MessageKind
KProtocolError      == 0
KAnnounce           == 1
KHeartbeat          == 2
KDiscoveryRequest   == 3
KDiscoveryResponse  == 4
KAddressClaim       == 5
KAddressAssign      == 6
KAddressConflict    == 7
KState              == 8
KEvent              == 9
KCommand            == 10
KRequest            == 11
KResponse           == 12
KAck                == 13
KConfigGet          == 14
KConfigSet          == 15
KConfigValue        == 16
KDiagnosticRequest  == 17
KDiagnosticResponse == 18
KTimeSync           == 19
KEntityClaim        == 20
KEntityResolve      == 21
Kinds == KProtocolError .. KEntityResolve

-----------------------------------------------------------------------------
(* Identifiers: 3 bits of priority, 5 of kind, 9 of destination, 9 of source  *)
(* and 3 of hop.                                                             *)

Bits3 == 0 .. 7
Bits5 == 0 .. 31
Bits9 == 0 .. 511

Identifier == [priority : Bits3, kind : Bits5, destination : Bits9, source : Bits9, hop : Bits3]

IdentifierLimit == 8 * 32 * 512 * 512 * 8      \* kIdentifierMask + 1

ToRawKindFirst(id) ==              \* mutant: priority and kind are swapped
  (((id.kind * 8 + id.priority) * 512 + id.destination) * 512 + id.source) * 8 + id.hop

ToRawNarrow(id) ==                 \* mutant: the source is cut to eight bits
  (((id.priority * 32 + id.kind) * 512 + id.destination) * 512 + (id.source % 256)) * 8 + id.hop

\* CanIdentifier::to_raw
ToRaw(id) ==
  (((id.priority * 32 + id.kind) * 512 + id.destination) * 512 + id.source) * 8 + id.hop

\* CanIdentifier::from_raw
FromRaw(raw) ==
  LET fromSource == raw \div 8
      fromDestination == fromSource \div 512
      fromKind == fromDestination \div 512
      fromPriority == fromKind \div 32
  IN  [priority |-> fromPriority % 8, kind |-> fromKind % 32,
       destination |-> fromDestination % 512, source |-> fromSource % 512, hop |-> raw % 8]

-----------------------------------------------------------------------------
(* What validate demands                                                     *)

PriorityOf(kind) ==
  CASE kind \in {KProtocolError, KAddressConflict, KCommand, KAck} -> Control
    [] kind = KEvent -> Event
    [] kind \in {KState, KRequest, KResponse} -> StateQuery
    [] kind \in {KDiagnosticRequest, KDiagnosticResponse} -> Diagnostic
    [] OTHER -> Management

Unicast == {KProtocolError, KAddressConflict, KCommand, KRequest, KResponse, KAck, KConfigGet,
            KConfigSet, KConfigValue, KDiagnosticRequest, KDiagnosticResponse}

\* valid_identifier
ValidIdentifier(id) ==
  /\ id.priority = PriorityOf(id.kind)
  /\ id.source # Broadcast
  /\ \/ id.kind = KDiscoveryResponse /\ id.destination # Broadcast
     \/ id.kind = KDiscoveryRequest /\ id.destination = Broadcast
     \/ /\ id.kind \notin {KDiscoveryRequest, KDiscoveryResponse}
        /\ id.source # Unassigned /\ id.destination # Unassigned
        /\ id.kind \in Unicast => id.destination # Broadcast
        /\ id.kind \notin Unicast \cup {KState, KEvent} => id.destination = Broadcast

\* DataType, by the number of bytes a value uses.
NoBytes   == {0, 255}              \* null, invalid
OneByte   == {1, 2, 3, 10}         \* bool, uint8, int8, enum8
TwoBytes  == {4, 5}                \* uint16, int16
FourBytes == {6, 7, 8, 9, 11}      \* uint32, int32, float32, fixed16_16, bitset32
Bool      == 1
Enum8     == 10
Float32   == 8

SignalingNan(v) ==
  /\ v[4] % 128 = 127 /\ v[3] >= 128          \* exponent_is_all_ones
  /\ v[3] % 128 < 64                          \* quiet_bit_is_clear
  /\ v[1] # 0 \/ v[2] # 0 \/ v[3] % 128 # 0   \* has_payload

\* TypedValue::validate; v is the sequence of the four bytes.
ValidValue(type, v) ==
  /\ type \in NoBytes \cup OneByte \cup TwoBytes \cup FourBytes
  /\ type = Bool => v[1] <= 1
  /\ type \in NoBytes => v[1] = 0
  /\ type \in NoBytes \cup OneByte => v[2] = 0
  /\ type \in NoBytes \cup OneByte \cup TwoBytes => v[3] = 0 /\ v[4] = 0
  /\ type = Float32 => ~SignalingNan(v)

IsEndpoint(e) == e > 0 /\ e < 255
IsStatus(s)   == s <= 7
U16(b, i)     == b[i] + 256 * b[i + 1]
NonzeroU32(b, i) == \E j \in i .. i + 3 : b[j] # 0
ZeroFrom(b, i)   == \A j \in i .. 7 : b[j] = 0
WindowAt(b, i)   == U16(b, i) >= 1000 /\ U16(b, i) <= 10000
ValueAt(b, type, i) == ValidValue(b[type], <<b[i], b[i + 1], b[i + 2], b[i + 3]>>)

\* valid_bytes; a mask test is a comparison, e.g. (x & 0xE0) == 0 is x < 32.
ValidBytes(kind, b) ==
  /\ kind = KProtocolError => b[2] \in Kinds /\ IsStatus(b[3])
  /\ kind = KAnnounce => b[1] = 1 /\ b[3] < 32 /\ NonzeroU32(b, 4)
  /\ kind = KHeartbeat => /\ b[1] < 32 /\ NonzeroU32(b, 2)
                          /\ b[6] <= 100 \/ b[6] = 255
                          /\ b[7] = 0
  /\ kind = KDiscoveryRequest => b[1] < 8 /\ WindowAt(b, 2)
  /\ kind \in {KAddressClaim, KAddressConflict} => b[6] = 1
  /\ kind = KAddressAssign => /\ b[6] + 256 * (b[7] % 2) \in Addresses
                              /\ b[7] \in {2, 3}
  /\ kind = KState => IsEndpoint(b[1]) /\ b[3] < 32 /\ ValueAt(b, 2, 4)
  /\ kind \in {KEvent, KCommand} => IsEndpoint(b[1]) /\ b[3] < 4 /\ ValueAt(b, 2, 4)
  /\ kind = KRequest => /\ ZeroFrom(b, 4)
                        /\ \/ b[2] = 1 /\ b[1] # 0
                           \/ b[2] = 2 /\ b[1] = 0
                           \/ b[2] = 3 /\ IsEndpoint(b[1])
  /\ kind = KResponse => IsStatus(b[3])
  /\ kind = KAck => b[2] \in Kinds /\ IsStatus(b[3])
  /\ kind = KConfigGet => b[1] # 255 /\ ZeroFrom(b, 3)
  /\ kind \in {KConfigSet, KConfigValue} => b[1] # 255 /\ ValueAt(b, 3, 4)
  /\ kind = KDiagnosticRequest => b[1] # 255 /\ ZeroFrom(b, 4)
  /\ kind = KDiagnosticResponse => b[1] # 255 /\ IsStatus(b[4])
  /\ kind = KTimeSync => b[1] <= 3 /\ U16(b, 6) < 1000
  /\ kind = KEntityClaim => IsEndpoint(b[1]) /\ NonzeroU32(b, 2) /\ ZeroFrom(b, 6)
  /\ kind = KEntityResolve => b[1] = 0 /\ NonzeroU32(b, 2) /\ WindowAt(b, 6)

\* WirePayload::validate and known_kind
ValidFrame(f) ==
  f.id.kind \in Kinds /\ ValidIdentifier(f.id) /\ ValidBytes(f.id.kind, f.bytes)

-----------------------------------------------------------------------------
(* The codec.  An optional result is a set of at most one element.            *)

\* FrameCodec::encode
Encode(f) ==
  IF ValidFrame(f)
  THEN {[can_id |-> ToRaw(f.id), extended |-> TRUE, remote |-> FALSE, dlc |-> 8, data |-> f.bytes]}
  ELSE {}

AcceptsAnyWidth(raw) ==            \* mutant: the 29-bit limit is not checked
  raw.extended /\ ~raw.remote /\ raw.dlc = 8

\* The tests on the raw frame: the CAN callback of setup and FrameCodec::decode.
Accepts(raw) ==
  raw.extended /\ ~raw.remote /\ raw.dlc = 8 /\ raw.can_id < IdentifierLimit

\* FrameCodec::decode
Decode(raw) ==
  {f \in {[id |-> FromRaw(raw.can_id), bytes |-> raw.data]} : Accepts(raw) /\ ValidFrame(f)}

-----------------------------------------------------------------------------
(* Senders.  challenge and nonce are bytes that no receiver looks into beyond   *)
(* hashing them; a sequence number no receiver reads is 0.                     *)

Octets(s) == [i \in 0 .. 7 |-> s[i + 1]]

From(source, priority, kind, destination) ==
  [priority |-> priority, kind |-> kind, destination |-> destination,
   source |-> source, hop |-> 0]

Header(m) ==
  LET id(priority, kind, destination) == From(m.source, priority, kind, destination) IN
  CASE m.kind = "discovery_request"  -> id(Management, KDiscoveryRequest, Broadcast)
    [] m.kind = "discovery_response" -> id(Management, KDiscoveryResponse, m.destination)
    [] m.kind = "address_claim"      -> id(Management, KAddressClaim, Broadcast)
    [] m.kind = "address_assign"     -> id(Management, KAddressAssign, Broadcast)
    [] m.kind = "address_conflict"   -> id(Control, KAddressConflict, m.source)
    [] m.kind = "entity_claim"       -> id(Management, KEntityClaim, Broadcast)
    [] m.kind = "entity_resolve"     -> id(Management, KEntityResolve, Broadcast)
    [] m.kind = "state"              -> id(StateQuery, KState, Broadcast)
    [] m.kind = "event"              -> id(Event, KEvent, Broadcast)
    [] m.kind = "ack"                -> id(Control, KAck, m.destination)
    [] m.kind = "heartbeat"          -> id(Management, KHeartbeat, Broadcast)

AssignHighByteDropped(a) == 2      \* mutant: only the flag PERSIST

\* assign: the ninth bit of the address shares a byte with the flag PERSIST.
AssignHighByte(a) == (a \div 256) + 2

Place == <<1, 256, 65536, 16777216>>

\* An EntityId is 32 bits, least significant byte first.
EntityBytes(e) == [i \in 1 .. 4 |-> (e \div Place[i]) % 256]

Payload(m) ==
  CASE m.kind = "discovery_request"  -> <<m.transaction, 2, 232, 3>> \o m.challenge
    [] m.kind = "discovery_response" -> <<m.transaction>> \o m.uid \o <<0>>
    [] m.kind = "address_claim"      -> m.uid \o <<1, m.nonce>>
    [] m.kind = "address_assign"     -> m.uid \o <<m.address % 256, AssignHighByte(m.address)>>
    [] m.kind = "address_conflict"   -> m.uid \o <<1, m.nonce>>
    [] m.kind = "entity_claim"       -> <<0, m.endpoint>> \o EntityBytes(m.entity) \o <<0, 0>>
    [] m.kind = "entity_resolve"     -> <<0, 0>> \o EntityBytes(m.entity) \o <<232, 3>>
    [] m.kind = "state"              -> <<0, m.endpoint, m.type, m.quality>> \o m.value
    [] m.kind = "event"              -> <<0, m.endpoint, m.type, 0>> \o m.value
    [] m.kind = "ack"                -> <<m.transaction, m.endpoint, m.original, m.status,
                                          0, 0, 0, 0>>
    [] m.kind = "heartbeat"          -> <<0, 0, 1, 0, 0, 0, 0, 0>>

\* send_discovery_request and the other senders
Build(m) == [id |-> Header(m), bytes |-> Octets(Payload(m))]

-----------------------------------------------------------------------------
(* Readers: what handle and the functions it calls take from a frame.          *)

Bytes(b, first, last) == [i \in 1 .. last - first + 1 |-> b[first + i - 1]]

EntityIn(b, i) == b[i] + 256 * (b[i + 1] + 256 * (b[i + 2] + 256 * b[i + 3]))

Read(f) ==
  LET b == f.bytes
      source == f.id.source
  IN
  CASE f.id.kind = KDiscoveryRequest ->      \* schedule_discovery_response and its delay
         [kind |-> "discovery_request", source |-> source, transaction |-> b[0],
          window |-> U16(b, 2), challenge |-> Bytes(b, 4, 7)]
    [] f.id.kind = KDiscoveryResponse ->     \* handle, assign
         [kind |-> "discovery_response", source |-> source,
          destination |-> f.id.destination, transaction |-> b[0], uid |-> Bytes(b, 1, 6)]
    [] f.id.kind = KAddressClaim ->
         [kind |-> "address_claim", source |-> source, uid |-> Bytes(b, 0, 5), nonce |-> b[7]]
    [] f.id.kind = KAddressAssign ->
         [kind |-> "address_assign", source |-> source, uid |-> Bytes(b, 0, 5),
          address |-> b[6] + 256 * (b[7] % 2)]
    [] f.id.kind = KAddressConflict ->
         [kind |-> "address_conflict", source |-> f.id.destination, uid |-> Bytes(b, 0, 5),
          nonce |-> b[7]]
    [] f.id.kind = KEntityClaim ->           \* learn_entity
         [kind |-> "entity_claim", source |-> source, endpoint |-> b[1],
          entity |-> EntityIn(b, 2)]
    [] f.id.kind = KEntityResolve ->
         [kind |-> "entity_resolve", source |-> source, entity |-> EntityIn(b, 2)]
    [] f.id.kind = KState ->
         [kind |-> "state", source |-> source, endpoint |-> b[1], type |-> b[2],
          value |-> Bytes(b, 4, 7), quality |-> b[3]]
    [] f.id.kind = KEvent ->
         [kind |-> "event", source |-> source, endpoint |-> b[1], type |-> b[2],
          value |-> Bytes(b, 4, 7)]
    [] f.id.kind = KAck ->                   \* no reader in the repository
         [kind |-> "ack", source |-> source, destination |-> f.id.destination,
          transaction |-> b[0], endpoint |-> b[1], original |-> b[2], status |-> b[3]]
    [] OTHER ->                              \* the beginning of handle
         [kind |-> "heartbeat", source |-> source]

-----------------------------------------------------------------------------
(* What the senders accept: StatePayload::create, EventPayload::create,         *)
(* register_owned_entity and register_observed_entity check their arguments.    *)

Uids      == [1 .. 6 -> Byte]
Endpoints == 1 .. 254
Words     == [1 .. 4 -> Byte]

\* 32 bits; 2^32 does not fit the integers of TLC.
EntityId(e) == e \in Nat \ {0} /\ e \div 16777216 \in Byte

MessageSpace ==
       [kind : {"discovery_request"}, source : {Unassigned}, transaction : Byte,
        window : {1000}, challenge : Words]
  \cup [kind : {"discovery_response"}, source : {Unassigned} \cup Addresses,
        destination : {Unassigned} \cup Addresses, transaction : Byte, uid : Uids]
  \cup [kind : {"address_claim", "address_conflict"}, source : Addresses, uid : Uids,
        nonce : Byte]
  \cup [kind : {"address_assign"}, source : Addresses, uid : Uids, address : Addresses]
  \cup [kind : {"entity_claim"}, source : Addresses, endpoint : Endpoints, entity : Nat]
  \cup [kind : {"entity_resolve"}, source : Addresses, entity : Nat]
  \cup [kind : {"state"}, source : Addresses, endpoint : Endpoints, type : Byte,
        value : Words, quality : 0 .. 31]
  \cup [kind : {"event"}, source : Addresses, endpoint : Endpoints, type : Byte, value : Words]
  \cup [kind : {"ack"}, source : Addresses, destination : Addresses, transaction : Byte,
        endpoint : Endpoints, original : {KEvent, KCommand}, status : 0 .. 7]
  \cup [kind : {"heartbeat"}, source : Addresses]

Sendable(m) ==
  /\ m \in MessageSpace
  /\ m.kind \in {"entity_claim", "entity_resolve"} => EntityId(m.entity)
  /\ m.kind \in {"state", "event"} => ValidValue(m.type, m.value)

RawFrames == [can_id : Nat, extended : BOOLEAN, remote : BOOLEAN, dlc : 0 .. 8,
              data : [0 .. 7 -> Byte]]

ASSUME WireAssumption ==
  /\ \A m \in Messages : Sendable(m)
  /\ ForeignFrames \subseteq RawFrames
  /\ MaxContenders \in Nat

-----------------------------------------------------------------------------
VARIABLES
  contenders,   \* messages whose frames wait for the bus
  message,      \* what the sender of the frame on the bus meant, if a runtime sent it
  wire          \* the frame on the bus

vars == <<contenders, message, wire>>

Init == contenders = {} /\ message = {} /\ wire = {}

Idle == message = {} /\ wire = {}

CanId(m) == ToRaw(Build(m).id)

\* A runtime hands a frame to its CAN controller (outside src/).
Submit ==
  /\ Idle
  /\ Cardinality(contenders) < MaxContenders
  /\ \E m \in Messages : contenders' = contenders \cup {m}
  /\ UNCHANGED <<message, wire>>

\* Arbitration: a frame with the lowest identifier is transmitted.
Transmit ==
  /\ Idle
  /\ \E m \in contenders :
       /\ \A n \in contenders : CanId(m) <= CanId(n)
       /\ contenders' = contenders \ {m}
       /\ message' = {m}
       /\ wire' = Encode(Build(m))

\* Other software transmits.
Interfere ==
  /\ Idle
  /\ contenders = {}
  /\ \E raw \in ForeignFrames : wire' = {raw}
  /\ UNCHANGED <<contenders, message>>

\* The frame has been received.
Received ==
  /\ ~Idle
  /\ message' = {} /\ wire' = {}
  /\ UNCHANGED contenders

Next == Submit \/ Transmit \/ Interfere \/ Received

Spec == Init /\ [][Next]_vars

-----------------------------------------------------------------------------
(* Every message a sender builds is accepted by the encoder and by the decoder   *)
(* of its peers, and they read from it what the sender meant: addresses of nine  *)
(* bits, entities of 32 bits, UIDs and values.                                  *)
Understood ==
  \A m \in message :
    \E raw \in wire : \E f \in Decode(raw) : Decode(raw) = {f} /\ Read(f) = m

(* A frame that the decoder accepts, whoever sent it, is the frame the encoder    *)
(* makes of what was decoded: decoding drops no bit of it and makes up none.      *)
Canonical ==
  \A raw \in wire : \A f \in Decode(raw) : Encode(f) = {raw}

(* Frames of different nodes that have addresses never carry the same identifier, *)
(* so that arbitration always has one winner.                                   *)
NoCollision ==
  \A m, n \in contenders :
    m.source # Unassigned /\ n.source # Unassigned /\ m.source # n.source
      => CanId(m) # CanId(n)

(* The frame that wins the bus belongs to the most urgent traffic class that       *)
(* waits, whatever the addresses and kinds: the identifier starts with it.        *)
MostUrgentWins ==
  [][\A m \in message' \ message, n \in contenders :
       Build(m).id.priority <= Build(n).id.priority]_vars
=============================================================================
