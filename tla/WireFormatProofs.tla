--------------------------- MODULE WireFormatProofs ---------------------------
(***************************************************************************)
(* What holds of the wire format for every message and every foreign frame:   *)
(* the packing of the identifier is one to one, accepted frames are canonical,  *)
(* every message is read as it was meant, and the identifier orders frames by   *)
(* traffic class.                                                            *)
(***************************************************************************)
EXTENDS WireFormat, SequenceTheorems, TLAPS

(* A number is put together again from its low bits and the rest.              *)
LEMMA Split ==
  ASSUME NEW r \in Nat
  PROVE  /\ r \div 8 \in Nat /\ r % 8 \in 0 .. 7 /\ r = ((r \div 8) * 8) + (r % 8)
         /\ r \div 32 \in Nat /\ r % 32 \in 0 .. 31 /\ r = ((r \div 32) * 32) + (r % 32)
         /\ r \div 512 \in Nat /\ r % 512 \in 0 .. 511 /\ r = ((r \div 512) * 512) + (r % 512)
  <1>1. r \div 8 \in Nat /\ r % 8 \in 0 .. 7 /\ r = ((r \div 8) * 8) + (r % 8)
    BY SMT
  <1>2. r \div 32 \in Nat /\ r % 32 \in 0 .. 31 /\ r = ((r \div 32) * 32) + (r % 32)
    BY SMT
  <1>3. r \div 512 \in Nat /\ r % 512 \in 0 .. 511 /\ r = ((r \div 512) * 512) + (r % 512)
    BY SMT
  <1> QED BY <1>1, <1>2, <1>3, Zenon

(* from_raw undoes to_raw, for every identifier.                               *)
THEOREM IdentifierRoundTrip ==
  ASSUME NEW id \in Identifier
  PROVE  ToRaw(id) \in Nat /\ FromRaw(ToRaw(id)) = id
  <1>1. PICK p \in 0 .. 7, k \in 0 .. 31, d \in 0 .. 511, s \in 0 .. 511, h \in 0 .. 7 :
          id = [priority |-> p, kind |-> k, destination |-> d, source |-> s, hop |-> h]
    BY DEF Identifier, Bits3, Bits5, Bits9
  <1>2. PICK pk \in Nat : pk = p * 32 + k
    OBVIOUS
  <1>3. PICK pkd \in Nat : pkd = pk * 512 + d
    OBVIOUS
  <1>4. PICK pkds \in Nat : pkds = pkd * 512 + s
    OBVIOUS
  <1>5. PICK raw \in Nat : raw = pkds * 8 + h
    OBVIOUS
  <1>6. ToRaw(id) = raw
    BY <1>1, <1>2, <1>3, <1>4, <1>5, SMT DEF ToRaw
  <1>7. pk \div 32 = p /\ pk % 32 = k
    BY <1>2, SMT
  <1>8. pkd \div 512 = pk /\ pkd % 512 = d
    BY <1>3, SMT
  <1>9. pkds \div 512 = pkd /\ pkds % 512 = s
    BY <1>4, SMT
  <1>10. raw \div 8 = pkds /\ raw % 8 = h
    BY <1>5, SMT
  <1>11. p % 8 = p
    OBVIOUS
  <1>12. FromRaw(raw) = [priority |-> p % 8, kind |-> k, destination |-> d, source |-> s, hop |-> h]
    BY <1>7, <1>8, <1>9, <1>10, SMT DEF FromRaw
  <1> QED BY <1>1, <1>6, <1>10, <1>11, <1>12, Zenon

(* to_raw undoes from_raw, for every number of 29 bits: no bit is lost.         *)
THEOREM NumberRoundTrip ==
  ASSUME NEW raw \in Nat, raw < IdentifierLimit
  PROVE  FromRaw(raw) \in Identifier /\ ToRaw(FromRaw(raw)) = raw
  <1>1. PICK pkds \in Nat, h \in 0 .. 7 :
          pkds = raw \div 8 /\ h = raw % 8 /\ raw = pkds * 8 + h
    BY Split, SMT
  <1>2. PICK pkd \in Nat, s \in 0 .. 511 :
          pkd = pkds \div 512 /\ s = pkds % 512 /\ pkds = pkd * 512 + s
    BY Split, SMT
  <1>3. PICK pk \in Nat, d \in 0 .. 511 :
          pk = pkd \div 512 /\ d = pkd % 512 /\ pkd = pk * 512 + d
    BY Split, SMT
  <1>4. PICK p \in Nat, k \in 0 .. 31 : p = pk \div 32 /\ k = pk % 32 /\ pk = p * 32 + k
    BY Split, SMT
  <1>5. p < 8
    <2>1. p * 32 <= pk /\ pk * 512 <= pkd /\ pkd * 512 <= pkds /\ pkds * 8 <= raw
      BY <1>1, <1>2, <1>3, <1>4, SMT
    <2> QED BY <2>1, SMT DEF IdentifierLimit
  <1>6. p \in 0 .. 7 /\ p % 8 = p
    BY <1>5, SMT
  <1>7. FromRaw(raw) = [priority |-> p, kind |-> k, destination |-> d, source |-> s, hop |-> h]
    BY <1>1, <1>2, <1>3, <1>4, <1>6, SMT DEF FromRaw
  <1>8. FromRaw(raw) \in Identifier
    BY <1>6, <1>7 DEF Identifier, Bits3, Bits5, Bits9
  <1>9. ToRaw(FromRaw(raw)) = raw
    BY <1>1, <1>2, <1>3, <1>4, <1>7, SMT DEF ToRaw
  <1> QED BY <1>8, <1>9

(* The addresses of a message are numbers of nine bits.                        *)
LEMMA MessageAddresses ==
  ASSUME NEW m \in MessageSpace
  PROVE  /\ m.source \in 0 .. 510
         /\ m.kind \in {"discovery_response", "ack"} => m.destination \in 0 .. 510
         /\ m.kind \in {"discovery_request", "discovery_response", "address_claim",
                        "address_assign", "address_conflict", "entity_claim", "entity_resolve",
                        "state", "event", "ack", "heartbeat"}
  BY SMT DEF MessageSpace, Addresses, Unassigned

(* Every sender builds a well-formed identifier with its own address.           *)
LEMMA BuiltIdentifier ==
  ASSUME NEW m \in MessageSpace
  PROVE  Build(m).id \in Identifier /\ Build(m).id.source = m.source
  <1>1. m.source \in Bits9 /\ Broadcast \in Bits9
    BY MessageAddresses, SMT DEF Broadcast, Bits9
  <1>2. \A p \in Bits3, k \in Bits5, d \in Bits9 :
          From(m.source, p, k, d) \in Identifier /\ From(m.source, p, k, d).source = m.source
    BY <1>1, SMT DEF From, Identifier, Bits3
  <1>3. Build(m).id = Header(m)
    BY DEF Build
  <1>4. CASE m.kind = "discovery_request"
    <2>1. Header(m) = From(m.source, Management, KDiscoveryRequest, Broadcast)
      BY <1>4, Zenon DEF Header
    <2>2. Management \in Bits3 /\ KDiscoveryRequest \in Bits5 /\ Broadcast \in Bits9
      BY <1>1, <1>4, SMT DEF Management, KDiscoveryRequest, Bits3, Bits5, Bits9
    <2> QED BY <1>2, <1>3, <2>1, <2>2, Zenon
  <1>5. CASE m.kind = "discovery_response"
    <2>1. Header(m) = From(m.source, Management, KDiscoveryResponse, m.destination)
      BY <1>5, Zenon DEF Header
    <2>2. Management \in Bits3 /\ KDiscoveryResponse \in Bits5 /\ m.destination \in Bits9
      BY <1>1, <1>5, MessageAddresses, SMT DEF Management, KDiscoveryResponse, Bits3, Bits5, Bits9
    <2> QED BY <1>2, <1>3, <2>1, <2>2, Zenon
  <1>6. CASE m.kind = "address_claim"
    <2>1. Header(m) = From(m.source, Management, KAddressClaim, Broadcast)
      BY <1>6, Zenon DEF Header
    <2>2. Management \in Bits3 /\ KAddressClaim \in Bits5 /\ Broadcast \in Bits9
      BY <1>1, <1>6, SMT DEF Management, KAddressClaim, Bits3, Bits5, Bits9
    <2> QED BY <1>2, <1>3, <2>1, <2>2, Zenon
  <1>7. CASE m.kind = "address_assign"
    <2>1. Header(m) = From(m.source, Management, KAddressAssign, Broadcast)
      BY <1>7, Zenon DEF Header
    <2>2. Management \in Bits3 /\ KAddressAssign \in Bits5 /\ Broadcast \in Bits9
      BY <1>1, <1>7, SMT DEF Management, KAddressAssign, Bits3, Bits5, Bits9
    <2> QED BY <1>2, <1>3, <2>1, <2>2, Zenon
  <1>8. CASE m.kind = "address_conflict"
    <2>1. Header(m) = From(m.source, Control, KAddressConflict, m.source)
      BY <1>8, Zenon DEF Header
    <2>2. Control \in Bits3 /\ KAddressConflict \in Bits5 /\ m.source \in Bits9
      BY <1>1, <1>8, SMT DEF Control, KAddressConflict, Bits3, Bits5, Bits9
    <2> QED BY <1>2, <1>3, <2>1, <2>2, Zenon
  <1>9. CASE m.kind = "entity_claim"
    <2>1. Header(m) = From(m.source, Management, KEntityClaim, Broadcast)
      BY <1>9, Zenon DEF Header
    <2>2. Management \in Bits3 /\ KEntityClaim \in Bits5 /\ Broadcast \in Bits9
      BY <1>1, <1>9, SMT DEF Management, KEntityClaim, Bits3, Bits5, Bits9
    <2> QED BY <1>2, <1>3, <2>1, <2>2, Zenon
  <1>10. CASE m.kind = "entity_resolve"
    <2>1. Header(m) = From(m.source, Management, KEntityResolve, Broadcast)
      BY <1>10, Zenon DEF Header
    <2>2. Management \in Bits3 /\ KEntityResolve \in Bits5 /\ Broadcast \in Bits9
      BY <1>1, <1>10, SMT DEF Management, KEntityResolve, Bits3, Bits5, Bits9
    <2> QED BY <1>2, <1>3, <2>1, <2>2, Zenon
  <1>11. CASE m.kind = "state"
    <2>1. Header(m) = From(m.source, StateQuery, KState, Broadcast)
      BY <1>11, Zenon DEF Header
    <2>2. StateQuery \in Bits3 /\ KState \in Bits5 /\ Broadcast \in Bits9
      BY <1>1, <1>11, SMT DEF StateQuery, KState, Bits3, Bits5, Bits9
    <2> QED BY <1>2, <1>3, <2>1, <2>2, Zenon
  <1>12. CASE m.kind = "event"
    <2>1. Header(m) = From(m.source, Event, KEvent, Broadcast)
      BY <1>12, Zenon DEF Header
    <2>2. Event \in Bits3 /\ KEvent \in Bits5 /\ Broadcast \in Bits9
      BY <1>1, <1>12, SMT DEF Event, KEvent, Bits3, Bits5, Bits9
    <2> QED BY <1>2, <1>3, <2>1, <2>2, Zenon
  <1>13. CASE m.kind = "ack"
    <2>1. Header(m) = From(m.source, Control, KAck, m.destination)
      BY <1>13, Zenon DEF Header
    <2>2. Control \in Bits3 /\ KAck \in Bits5 /\ m.destination \in Bits9
      BY <1>1, <1>13, MessageAddresses, SMT DEF Control, KAck, Bits3, Bits5, Bits9
    <2> QED BY <1>2, <1>3, <2>1, <2>2, Zenon
  <1>14. CASE m.kind = "heartbeat"
    <2>1. Header(m) = From(m.source, Management, KHeartbeat, Broadcast)
      BY <1>14, Zenon DEF Header
    <2>2. Management \in Bits3 /\ KHeartbeat \in Bits5 /\ Broadcast \in Bits9
      BY <1>1, <1>14, SMT DEF Management, KHeartbeat, Bits3, Bits5, Bits9
    <2> QED BY <1>2, <1>3, <2>1, <2>2, Zenon
  <1> QED BY MessageAddresses, <1>4, <1>5, <1>6, <1>7, <1>8, <1>9, <1>10, <1>11, <1>12,
       <1>13, <1>14, Zenon

(* Identifiers that are equal as numbers are equal.                           *)
LEMMA CanIdIdentifies ==
  ASSUME NEW m \in MessageSpace, NEW n \in MessageSpace, CanId(m) = CanId(n)
  PROVE  m.source = n.source
  <1>1. Build(m).id \in Identifier /\ Build(n).id \in Identifier
    BY BuiltIdentifier
  <1>2. FromRaw(CanId(m)) = Build(m).id /\ FromRaw(CanId(n)) = Build(n).id
    BY <1>1, IdentifierRoundTrip DEF CanId
  <1> QED BY <1>2, BuiltIdentifier

(* The priority is the most significant field of an identifier.                *)
LEMMA PriorityFirst ==
  ASSUME NEW a \in Identifier, NEW b \in Identifier, ToRaw(a) <= ToRaw(b)
  PROVE  a.priority <= b.priority
  <1>1. PICK p \in 0 .. 7, k \in 0 .. 31, d \in 0 .. 511, s \in 0 .. 511, h \in 0 .. 7 :
          a = [priority |-> p, kind |-> k, destination |-> d, source |-> s, hop |-> h]
    BY DEF Identifier, Bits3, Bits5, Bits9
  <1>2. PICK q \in 0 .. 7, l \in 0 .. 31, e \in 0 .. 511, t \in 0 .. 511, i \in 0 .. 7 :
          b = [priority |-> q, kind |-> l, destination |-> e, source |-> t, hop |-> i]
    BY DEF Identifier, Bits3, Bits5, Bits9
  <1>3. PICK pk \in Nat, pkd \in Nat, pkds \in Nat :
          pk = p * 32 + k /\ pkd = pk * 512 + d /\ pkds = pkd * 512 + s
    OBVIOUS
  <1>4. PICK ql \in Nat, qle \in Nat, qlet \in Nat :
          ql = q * 32 + l /\ qle = ql * 512 + e /\ qlet = qle * 512 + t
    OBVIOUS
  <1>5. pkds * 8 + h <= qlet * 8 + i
    <2>1. ToRaw(a) = pkds * 8 + h
      BY <1>1, <1>3, SMT DEF ToRaw
    <2>2. ToRaw(b) = qlet * 8 + i
      BY <1>2, <1>4, SMT DEF ToRaw
    <2> QED BY <2>1, <2>2
  <1>6. pkds <= qlet
    BY <1>5, SMT
  <1>7. pkd <= qle
    <2>1. pkd * 512 + s <= qle * 512 + t
      BY <1>3, <1>4, <1>6
    <2> QED BY <2>1, SMT
  <1>8. pk <= ql
    <2>1. pk * 512 + d <= ql * 512 + e
      BY <1>3, <1>4, <1>7
    <2> QED BY <2>1, SMT
  <1>9. p <= q
    <2>1. p * 32 + k <= q * 32 + l
      BY <1>3, <1>4, <1>8
    <2> QED BY <2>1, SMT
  <1> QED BY <1>1, <1>2, <1>9

-----------------------------------------------------------------------------
(* A frame that a controller can receive; what its payload holds is left open. *)
IsRaw(raw) ==
  /\ raw.can_id \in Nat /\ raw.extended \in BOOLEAN /\ raw.remote \in BOOLEAN
  /\ raw = [can_id |-> raw.can_id, extended |-> raw.extended, remote |-> raw.remote,
            dlc |-> raw.dlc, data |-> raw.data]

WireInv ==
  /\ contenders \subseteq MessageSpace
  /\ \A raw \in wire : IsRaw(raw)

(* What an encoder makes of a message is a frame of this kind.                 *)
LEMMA EncodedIsRaw ==
  ASSUME NEW m \in MessageSpace, NEW raw \in Encode(Build(m))
  PROVE  IsRaw(raw)
  <1>1. ToRaw(Build(m).id) \in Nat
    BY BuiltIdentifier, IdentifierRoundTrip
  <1>2. raw = [can_id |-> ToRaw(Build(m).id), extended |-> TRUE, remote |-> FALSE,
               dlc |-> 8, data |-> Build(m).bytes]
    BY Zenon DEF Encode
  <1> QED BY <1>1, <1>2 DEF IsRaw

(* Only messages of the nodes wait for the bus and only frames are on it.       *)
LEMMA WireInvariant == Spec => []WireInv
  <1>1. Init => WireInv
    BY DEF Init, WireInv
  <1>2. WireInv /\ [Next]_vars => WireInv'
    <2> SUFFICES ASSUME WireInv, [Next]_vars PROVE WireInv'
      OBVIOUS
    <2>1. Messages \subseteq MessageSpace
      BY WireAssumption DEF Sendable
    <2>2. CASE Submit
      BY <2>1, <2>2 DEF Submit, WireInv
    <2>3. CASE Transmit
      <3>1. PICK m \in contenders : contenders' = contenders \ {m} /\ wire' = Encode(Build(m))
        BY <2>3 DEF Transmit
      <3> QED BY <3>1, EncodedIsRaw DEF WireInv
    <2>4. CASE Interfere
      <3>1. PICK raw \in RawFrames : wire' = {raw} /\ contenders' = contenders
        BY <2>4, WireAssumption DEF Interfere
      <3>2. IsRaw(raw)
        BY DEF RawFrames, IsRaw
      <3> QED BY <3>1, <3>2 DEF WireInv
    <2>5. CASE Received
      BY <2>5 DEF Received, WireInv
    <2>6. CASE UNCHANGED vars
      BY <2>6 DEF vars, WireInv
    <2> QED BY <2>2, <2>3, <2>4, <2>5, <2>6 DEF Next
  <1> QED BY <1>1, <1>2, PTL DEF Spec

(* Whatever other software transmits, an accepted frame is the one the encoder    *)
(* makes of what was decoded.                                                  *)
THEOREM AcceptedAreCanonical == Spec => []Canonical
  <1>1. WireInv => Canonical
    <2> SUFFICES ASSUME WireInv, NEW raw \in wire, NEW f \in Decode(raw)
                 PROVE  Encode(f) = {raw}
      BY DEF Canonical
    <2>1. IsRaw(raw)
      BY DEF WireInv
    <2>2. f = [id |-> FromRaw(raw.can_id), bytes |-> raw.data] /\ Accepts(raw) /\ ValidFrame(f)
      BY Zenon DEF Decode
    <2>3. ToRaw(FromRaw(raw.can_id)) = raw.can_id
      BY <2>1, <2>2, NumberRoundTrip, Zenon DEF IsRaw, Accepts
    <2>4. raw.extended = TRUE /\ raw.remote = FALSE /\ raw.dlc = 8
      BY <2>1, <2>2, Zenon DEF IsRaw, Accepts
    <2>5. Encode(f) = {[can_id |-> ToRaw(f.id), extended |-> TRUE, remote |-> FALSE, dlc |-> 8,
                        data |-> f.bytes]}
      BY <2>2, Zenon DEF Encode
    <2>6. f.id = FromRaw(raw.can_id) /\ f.bytes = raw.data
      BY <2>2
    <2> QED BY <2>1, <2>3, <2>4, <2>5, <2>6, Zenon DEF IsRaw
  <1> QED BY <1>1, WireInvariant, PTL

(* For every set of messages, nodes with different addresses never send the same   *)
(* identifier.                                                                 *)
THEOREM NodesDoNotCollide == Spec => []NoCollision
  <1>1. WireInv => NoCollision
    BY CanIdIdentifies DEF WireInv, NoCollision
  <1> QED BY <1>1, WireInvariant, PTL

(* For every set of messages, the winner of the bus is of the most urgent class.   *)
THEOREM UrgentTrafficFirst == Spec => MostUrgentWins
  <1>1. WireInv /\ [Next]_vars =>
          \A m \in message' \ message, n \in contenders :
            Build(m).id.priority <= Build(n).id.priority
    <2> SUFFICES ASSUME WireInv, [Next]_vars, NEW m \in message' \ message, NEW n \in contenders
                 PROVE  Build(m).id.priority <= Build(n).id.priority
      OBVIOUS
    <2>1. Transmit
      BY DEF Next, vars, Submit, Interfere, Received
    <2>2. m \in contenders /\ CanId(m) <= CanId(n)
      BY <2>1 DEF Transmit
    <2>3. Build(m).id \in Identifier /\ Build(n).id \in Identifier
      BY <2>2, BuiltIdentifier DEF WireInv
    <2> QED BY <2>2, <2>3, PriorityFirst DEF CanId
  <1> QED BY <1>1, WireInvariant, PTL DEF Spec, MostUrgentWins

-----------------------------------------------------------------------------
(* The entries of a concatenation, given the lengths of its parts.             *)
LEMMA Joined ==
  ASSUME NEW k \in Nat, NEW l \in Nat, NEW s \in [1 .. k -> Byte], NEW t \in [1 .. l -> Byte]
  PROVE  /\ \A i \in 1 .. k : (s \o t)[i] = s[i]
         /\ \A i \in 1 .. l : (s \o t)[k + i] = t[i]
         /\ s \o t \in [1 .. k + l -> Byte]
  <1>1. s \in Seq(Byte) /\ Len(s) = k
    OBVIOUS
  <1>2. t \in Seq(Byte) /\ Len(t) = l
    OBVIOUS
  <1>3. s \o t \in Seq(Byte) /\ Len(s \o t) = k + l
    BY <1>1, <1>2
  <1>4. \A i \in 1 .. k : (s \o t)[i] = s[i]
    BY <1>1, <1>2
  <1>5. \A i \in 1 .. l : (s \o t)[k + i] = t[i]
    BY <1>1, <1>2
  <1>6. s \o t \in [1 .. k + l -> Byte]
    <2>1. s \o t \in [1 .. Len(s \o t) -> Byte]
      BY <1>3, LenProperties
    <2> QED BY <1>3, <2>1
  <1> QED BY <1>4, <1>5, <1>6

(* The payloads of STATE, EVENT and the discovery request: four bytes and a word.*)
LEMMA FourAndFour ==
  ASSUME NEW a \in Byte, NEW b \in Byte, NEW c \in Byte, NEW d \in Byte, NEW v \in Words
  PROVE  LET o == Octets(<<a, b, c, d>> \o v) IN
           /\ o[0] = a /\ o[1] = b /\ o[2] = c /\ o[3] = d
           /\ o[4] = v[1] /\ o[5] = v[2] /\ o[6] = v[3] /\ o[7] = v[4]
           /\ Bytes(o, 4, 7) = v
  <1> DEFINE s == <<a, b, c, d>>
             p == s \o v
             o == Octets(p)
  <1>1. s \in [1 .. 4 -> Byte] /\ s[1] = a /\ s[2] = b /\ s[3] = c /\ s[4] = d
    OBVIOUS
  <1>2. v \in [1 .. 4 -> Byte]
    BY DEF Words
  <1> HIDE DEF s
  <1>3. /\ \A i \in 1 .. 4 : p[i] = s[i]
        /\ \A i \in 1 .. 4 : p[4 + i] = v[i]
    <2>1. 4 \in Nat
      OBVIOUS
    <2> HIDE DEF p
    <2>2. p = s \o v
      BY DEF p
    <2>3. /\ \A i \in 1 .. 4 : (s \o v)[i] = s[i]
          /\ \A i \in 1 .. 4 : (s \o v)[4 + i] = v[i]
      BY <1>1, <1>2, <2>1, Joined, Zenon
    <2> QED BY <2>2, <2>3, Zenon
  <1> HIDE DEF p
  <1>4. \A i \in 0 .. 7 : o[i] = p[i + 1]
    BY DEF Octets
  <1>5. o[0] = a /\ o[1] = b /\ o[2] = c /\ o[3] = d
    BY <1>1, <1>3, <1>4
  <1>6. \A i \in 1 .. 4 : o[4 + i - 1] = v[i]
    BY <1>3, <1>4
  <1>7. o[4] = v[1] /\ o[5] = v[2] /\ o[6] = v[3] /\ o[7] = v[4]
    BY <1>6
  <1> HIDE DEF o
  <1>8. Bytes(o, 4, 7) = v
    BY <1>2, <1>6 DEF Bytes
  <1> QED BY <1>5, <1>7, <1>8 DEF o, p, s

(* The frame of a message is valid, and its receiver reads what was meant.         *)
RoundTrip(m) == ValidFrame(Build(m)) /\ Read(Build(m)) = m

(* The numbers of the kinds.                                                   *)
LEMMA KindNumbers ==
  /\ KProtocolError = 0 /\ KAnnounce = 1 /\ KHeartbeat = 2 /\ KDiscoveryRequest = 3
  /\ KDiscoveryResponse = 4 /\ KAddressClaim = 5 /\ KAddressAssign = 6 /\ KAddressConflict = 7
  /\ KState = 8 /\ KEvent = 9 /\ KCommand = 10 /\ KRequest = 11 /\ KResponse = 12 /\ KAck = 13
  /\ KConfigGet = 14 /\ KConfigSet = 15 /\ KConfigValue = 16 /\ KDiagnosticRequest = 17
  /\ KDiagnosticResponse = 18 /\ KTimeSync = 19 /\ KEntityClaim = 20 /\ KEntityResolve = 21
  /\ Kinds = 0 .. 21
  BY DEF KProtocolError, KAnnounce, KHeartbeat, KDiscoveryRequest, KDiscoveryResponse,
     KAddressClaim, KAddressAssign, KAddressConflict, KState, KEvent, KCommand, KRequest,
     KResponse, KAck, KConfigGet, KConfigSet, KConfigValue, KDiagnosticRequest,
     KDiagnosticResponse, KTimeSync, KEntityClaim, KEntityResolve, Kinds

(* What a node with an address puts in its identifiers is what validate asks for.*)
LEMMA Headers ==
  ASSUME NEW s \in Addresses, NEW d \in Addresses
  PROVE  /\ ValidIdentifier(From(s, StateQuery, KState, Broadcast))
         /\ ValidIdentifier(From(s, Event, KEvent, Broadcast))
         /\ ValidIdentifier(From(s, Management, KEntityClaim, Broadcast))
         /\ ValidIdentifier(From(s, Management, KEntityResolve, Broadcast))
         /\ ValidIdentifier(From(s, Management, KAddressClaim, Broadcast))
         /\ ValidIdentifier(From(s, Management, KAddressAssign, Broadcast))
         /\ ValidIdentifier(From(s, Management, KHeartbeat, Broadcast))
         /\ ValidIdentifier(From(s, Control, KAddressConflict, d))
         /\ ValidIdentifier(From(s, Control, KAck, d))
  BY KindNumbers DEF ValidIdentifier, From, PriorityOf, Unicast, Addresses, Unassigned,
     Broadcast, Control, StateQuery, Event, Management

(* A discovery response may come from, and go to, a node without an address.   *)
LEMMA ResponseHeader ==
  ASSUME NEW s \in {Unassigned} \cup Addresses, NEW d \in {Unassigned} \cup Addresses
  PROVE  ValidIdentifier(From(s, Management, KDiscoveryResponse, d))
  BY KindNumbers DEF ValidIdentifier, From, PriorityOf, Addresses, Unassigned, Broadcast,
     Management

(* A node without an address asks everyone for one.                            *)
LEMMA RequestHeader ==
  ValidIdentifier(From(Unassigned, Management, KDiscoveryRequest, Broadcast))
  BY KindNumbers DEF ValidIdentifier, From, PriorityOf, Unassigned, Broadcast, Management

(* One lemma per kind: the frame is valid and is read as it was meant.         *)
LEMMA StateRead ==
  ASSUME NEW m \in MessageSpace, m.kind = "state", ValidValue(m.type, m.value)
  PROVE  RoundTrip(m)
  <1> DEFINE o == Octets(<<0, m.endpoint, m.type, m.quality>> \o m.value)
             id == From(m.source, StateQuery, KState, Broadcast)
  <1>1. /\ m.source \in Addresses /\ m.endpoint \in Endpoints /\ m.type \in Byte
        /\ m.value \in Words /\ m.quality \in 0 .. 31
        /\ m = [kind |-> "state", source |-> m.source, endpoint |-> m.endpoint, type |-> m.type,
                value |-> m.value, quality |-> m.quality]
    BY DEF MessageSpace
  <1>2. Build(m) = [id |-> id, bytes |-> o]
    BY Zenon DEF Build, Header, Payload
  <1>3. m.endpoint \in Byte /\ m.quality \in Byte /\ 0 \in Byte
    BY <1>1 DEF Endpoints, Byte
  <1>4. /\ o[0] = 0 /\ o[1] = m.endpoint /\ o[2] = m.type /\ o[3] = m.quality
        /\ o[4] = m.value[1] /\ o[5] = m.value[2] /\ o[6] = m.value[3] /\ o[7] = m.value[4]
        /\ Bytes(o, 4, 7) = m.value
    BY <1>1, <1>3, FourAndFour
  <1> HIDE DEF o
  <1>5. ValidIdentifier(id) /\ id.kind = KState /\ id.source = m.source
    BY <1>1, Headers DEF From
  <1> HIDE DEF id
  <1>6. ValueAt(o, 2, 4)
    <2>1. <<o[4], o[5], o[6], o[7]>> = m.value
      BY <1>1, <1>4 DEF Words
    <2> QED BY <1>4, <2>1 DEF ValueAt
  <1>7. ValidBytes(KState, o)
    BY <1>1, <1>4, <1>6, KindNumbers DEF ValidBytes, IsEndpoint, Endpoints
  <1>8. ValidFrame(Build(m))
    BY <1>2, <1>5, <1>7, KindNumbers DEF ValidFrame
  <1>9. Read(Build(m)) = m
    <2>1. Read([id |-> id, bytes |-> o]) =
            [kind |-> "state", source |-> m.source, endpoint |-> o[1], type |-> o[2],
             value |-> Bytes(o, 4, 7), quality |-> o[3]]
      BY <1>5, KindNumbers DEF Read
    <2> QED BY <1>1, <1>2, <1>4, <2>1, Zenon
  <1> QED BY <1>8, <1>9 DEF RoundTrip

(* The payloads that begin with a UID.                                         *)
LEMMA SixAndTwo ==
  ASSUME NEW u \in Uids, NEW a \in Byte, NEW b \in Byte
  PROVE  LET o == Octets(u \o <<a, b>>) IN
           o[6] = a /\ o[7] = b /\ Bytes(o, 0, 5) = u
  <1> DEFINE t == <<a, b>>
             p == u \o t
             o == Octets(p)
  <1>1. t \in [1 .. 2 -> Byte] /\ t[1] = a /\ t[2] = b
    OBVIOUS
  <1>2. u \in [1 .. 6 -> Byte]
    BY DEF Uids
  <1> HIDE DEF t, p
  <1>3. /\ \A i \in 1 .. 6 : p[i] = u[i]
        /\ \A i \in 1 .. 2 : p[6 + i] = t[i]
    <2>1. 6 \in Nat /\ 2 \in Nat
      OBVIOUS
    <2>2. p = u \o t
      BY DEF p
    <2>3. /\ \A i \in 1 .. 6 : (u \o t)[i] = u[i]
          /\ \A i \in 1 .. 2 : (u \o t)[6 + i] = t[i]
      BY <1>1, <1>2, <2>1, Joined, Zenon
    <2> QED BY <2>2, <2>3, Zenon
  <1>4. \A i \in 0 .. 7 : o[i] = p[i + 1]
    BY DEF Octets
  <1>5. o[6] = a /\ o[7] = b
    BY <1>1, <1>3, <1>4
  <1>6. \A i \in 1 .. 6 : o[0 + i - 1] = u[i]
    BY <1>3, <1>4
  <1> HIDE DEF o
  <1>7. Bytes(o, 0, 5) = u
    BY <1>2, <1>6 DEF Bytes
  <1> QED BY <1>5, <1>7 DEF o, p, t

(* The payload of the discovery response.                                      *)
LEMMA OneSixOne ==
  ASSUME NEW a \in Byte, NEW u \in Uids, NEW b \in Byte
  PROVE  LET o == Octets(<<a>> \o u \o <<b>>) IN
           o[0] = a /\ Bytes(o, 1, 6) = u
  <1> DEFINE s == <<a>>
             t == <<b>>
             q == s \o u
             p == q \o t
             o == Octets(p)
  <1>1. s \in [1 .. 1 -> Byte] /\ s[1] = a
    OBVIOUS
  <1>2. t \in [1 .. 1 -> Byte]
    OBVIOUS
  <1>3. u \in [1 .. 6 -> Byte]
    BY DEF Uids
  <1>4. 1 \in Nat /\ 6 \in Nat /\ 7 \in Nat /\ 1 + 6 = 7
    OBVIOUS
  <1> HIDE DEF s, t, q, p
  <1>5. /\ \A i \in 1 .. 1 : q[i] = s[i]
        /\ \A i \in 1 .. 6 : q[1 + i] = u[i]
        /\ q \in [1 .. 7 -> Byte]
    <2>1. /\ \A i \in 1 .. 1 : (s \o u)[i] = s[i]
          /\ \A i \in 1 .. 6 : (s \o u)[1 + i] = u[i]
          /\ s \o u \in [1 .. 1 + 6 -> Byte]
      BY <1>1, <1>3, <1>4, Joined, Zenon
    <2> QED BY <1>4, <2>1, Zenon DEF q
  <1>6. \A i \in 1 .. 7 : p[i] = q[i]
    <2>1. \A i \in 1 .. 7 : (q \o t)[i] = q[i]
      BY <1>2, <1>4, <1>5, Joined, Zenon
    <2> QED BY <2>1, Zenon DEF p
  <1>7. \A i \in 0 .. 7 : o[i] = p[i + 1]
    BY DEF Octets
  <1>8. o[0] = a
    BY <1>1, <1>5, <1>6, <1>7
  <1>9. \A i \in 1 .. 6 : o[1 + i - 1] = u[i]
    BY <1>5, <1>6, <1>7
  <1> HIDE DEF o
  <1>10. Bytes(o, 1, 6) = u
    BY <1>3, <1>9 DEF Bytes
  <1> QED BY <1>8, <1>10 DEF o, p, q, s, t

(* The payloads that hold an entity.                                           *)
LEMMA TwoFourTwo ==
  ASSUME NEW a \in Byte, NEW b \in Byte, NEW v \in Words, NEW c \in Byte, NEW d \in Byte
  PROVE  LET o == Octets(<<a, b>> \o v \o <<c, d>>) IN
           /\ o[0] = a /\ o[1] = b /\ o[6] = c /\ o[7] = d
           /\ o[2] = v[1] /\ o[3] = v[2] /\ o[4] = v[3] /\ o[5] = v[4]
  <1> DEFINE s == <<a, b>>
             t == <<c, d>>
             q == s \o v
             p == q \o t
             o == Octets(p)
  <1>1. s \in [1 .. 2 -> Byte] /\ s[1] = a /\ s[2] = b
    OBVIOUS
  <1>2. t \in [1 .. 2 -> Byte] /\ t[1] = c /\ t[2] = d
    OBVIOUS
  <1>3. v \in [1 .. 4 -> Byte]
    BY DEF Words
  <1>4. 2 \in Nat /\ 4 \in Nat /\ 6 \in Nat /\ 2 + 4 = 6
    OBVIOUS
  <1> HIDE DEF s, t, q, p
  <1>5. /\ \A i \in 1 .. 2 : q[i] = s[i]
        /\ \A i \in 1 .. 4 : q[2 + i] = v[i]
        /\ q \in [1 .. 6 -> Byte]
    <2>1. /\ \A i \in 1 .. 2 : (s \o v)[i] = s[i]
          /\ \A i \in 1 .. 4 : (s \o v)[2 + i] = v[i]
          /\ s \o v \in [1 .. 2 + 4 -> Byte]
      BY <1>1, <1>3, <1>4, Joined, Zenon
    <2> QED BY <1>4, <2>1, Zenon DEF q
  <1>6. /\ \A i \in 1 .. 6 : p[i] = q[i]
        /\ \A i \in 1 .. 2 : p[6 + i] = t[i]
    <2>1. /\ \A i \in 1 .. 6 : (q \o t)[i] = q[i]
          /\ \A i \in 1 .. 2 : (q \o t)[6 + i] = t[i]
      BY <1>2, <1>4, <1>5, Joined, Zenon
    <2> QED BY <2>1, Zenon DEF p
  <1>7. \A i \in 0 .. 7 : o[i] = p[i + 1]
    BY DEF Octets
  <1>8. o[0] = a /\ o[1] = b /\ o[6] = c /\ o[7] = d
    BY <1>1, <1>2, <1>5, <1>6, <1>7
  <1>9. o[2] = v[1] /\ o[3] = v[2] /\ o[4] = v[3] /\ o[5] = v[4]
    BY <1>5, <1>6, <1>7
  <1> HIDE DEF o
  <1> QED BY <1>8, <1>9 DEF o, p, q, s, t

(* Four bytes hold an entity: they are bytes, one of them is not zero, and the *)
(* reader puts them together to the same number.                               *)
LEMMA EntityRoundTrip ==
  ASSUME NEW e, EntityId(e)
  PROVE  /\ EntityBytes(e) \in Words
         /\ \E i \in 1 .. 4 : EntityBytes(e)[i] # 0
         /\ EntityBytes(e)[1] + 256 * (EntityBytes(e)[2]
              + 256 * (EntityBytes(e)[3] + 256 * EntityBytes(e)[4])) = e
  <1>1. e \in Nat /\ e # 0 /\ e \div 16777216 \in 0 .. 255
    BY DEF EntityId, Byte
  <1>2. PICK b1 \in 0 .. 255, q1 \in Nat : b1 = e % 256 /\ q1 = e \div 256 /\ e = 256 * q1 + b1
    BY <1>1
  <1>3. PICK b2 \in 0 .. 255, q2 \in Nat : b2 = q1 % 256 /\ q2 = q1 \div 256 /\ q1 = 256 * q2 + b2
    OBVIOUS
  <1>4. PICK b3 \in 0 .. 255, q3 \in Nat : b3 = q2 % 256 /\ q3 = q2 \div 256 /\ q2 = 256 * q3 + b3
    OBVIOUS
  <1>5. e \div 65536 = q2
    BY <1>1, <1>2, <1>3
  <1>6. e \div 16777216 = q3
    BY <1>1, <1>2, <1>3, <1>4
  <1>7. q3 \in 0 .. 255 /\ q3 % 256 = q3
    BY <1>1, <1>6
  <1>8. e = b1 + 256 * (b2 + 256 * (b3 + 256 * q3))
    BY <1>2, <1>3, <1>4
  <1>9. Place[1] = 1 /\ Place[2] = 256 /\ Place[3] = 65536 /\ Place[4] = 16777216
    BY SMT DEF Place
  <1>10. /\ EntityBytes(e)[1] = b1 /\ EntityBytes(e)[2] = b2 /\ EntityBytes(e)[3] = b3
         /\ EntityBytes(e)[4] = q3
    <2>1. e \div 1 = e
      BY <1>1, SMT
    <2>2. \A i \in 1 .. 4 : EntityBytes(e)[i] = (e \div Place[i]) % 256
      BY Zenon DEF EntityBytes
    <2>3. EntityBytes(e)[1] = b1
      BY <1>2, <1>9, <2>1, <2>2, SMT
    <2>4. EntityBytes(e)[2] = b2
      BY <1>2, <1>3, <1>9, <2>2, SMT
    <2>5. EntityBytes(e)[3] = b3
      BY <1>4, <1>5, <1>9, <2>2, SMT
    <2>6. EntityBytes(e)[4] = q3
      BY <1>6, <1>7, <1>9, <2>2, SMT
    <2> QED BY <2>3, <2>4, <2>5, <2>6, Zenon
  <1>11. EntityBytes(e) \in Words
    <2>1. \A i \in 1 .. 4 : EntityBytes(e)[i] \in Byte
      BY <1>7, <1>10 DEF Byte
    <2>2. EntityBytes(e) = [i \in 1 .. 4 |-> EntityBytes(e)[i]]
      BY DEF EntityBytes
    <2> QED BY <2>1, <2>2 DEF Words
  <1>12. b1 # 0 \/ b2 # 0 \/ b3 # 0 \/ q3 # 0
    BY <1>1, <1>8
  <1>13. EntityBytes(e)[1] + 256 * (EntityBytes(e)[2]
           + 256 * (EntityBytes(e)[3] + 256 * EntityBytes(e)[4])) = e
    <2> DEFINE Sum(w, x, y, z) == w + 256 * (x + 256 * (y + 256 * z))
    <2>1. e = Sum(b1, b2, b3, q3)
      BY <1>8
    <2> HIDE DEF Sum
    <2>2. Sum(EntityBytes(e)[1], EntityBytes(e)[2], EntityBytes(e)[3], EntityBytes(e)[4]) = e
      BY <1>10, <2>1, Zenon
    <2> QED BY <2>2 DEF Sum
  <1>14. \E i \in 1 .. 4 : EntityBytes(e)[i] # 0
    <2>1. 1 \in 1 .. 4 /\ 2 \in 1 .. 4 /\ 3 \in 1 .. 4 /\ 4 \in 1 .. 4
      OBVIOUS
    <2> QED BY <1>10, <1>12, <2>1, Zenon
  <1> QED BY <1>11, <1>13, <1>14, Zenon

(* Where the four bytes of an entity lie in a payload, it passes the test of   *)
(* validate and EntityIn reads it.                                             *)
LEMMA EntityAt ==
  ASSUME NEW v, NEW o, NEW e,
         \E i \in 1 .. 4 : v[i] # 0,
         v[1] + 256 * (v[2] + 256 * (v[3] + 256 * v[4])) = e,
         o[2] = v[1] /\ o[3] = v[2] /\ o[4] = v[3] /\ o[5] = v[4]
  PROVE  NonzeroU32(o, 2) /\ EntityIn(o, 2) = e
  <1> DEFINE Sum(w, x, y, z) == w + 256 * (x + 256 * (y + 256 * z))
  <1>1. Sum(v[1], v[2], v[3], v[4]) = e
    OBVIOUS
  <1>2. EntityIn(o, 2) = Sum(o[2], o[3], o[4], o[5])
    BY DEF EntityIn
  <1> HIDE DEF Sum
  <1>3. EntityIn(o, 2) = e
    BY <1>1, <1>2, Zenon
  <1>4. NonzeroU32(o, 2)
    BY DEF NonzeroU32
  <1> QED BY <1>3, <1>4, Zenon

(* Event: valid, and read as it was meant.                                     *)
LEMMA EventRead ==
  ASSUME NEW m \in MessageSpace, m.kind = "event", ValidValue(m.type, m.value)
  PROVE  RoundTrip(m)
  <1> DEFINE o == Octets(<<0, m.endpoint, m.type, 0>> \o m.value)
             id == From(m.source, Event, KEvent, Broadcast)
  <1>1. /\ m.source \in Addresses /\ m.endpoint \in Endpoints /\ m.type \in Byte
        /\ m.value \in Words
        /\ m = [kind |-> "event", source |-> m.source, endpoint |-> m.endpoint, type |-> m.type,
                value |-> m.value]
    BY DEF MessageSpace
  <1>2. Build(m) = [id |-> id, bytes |-> o]
    BY Zenon DEF Build, Header, Payload
  <1>3. m.endpoint \in Byte /\ 0 \in Byte
    BY <1>1 DEF Endpoints, Byte
  <1>4. /\ o[1] = m.endpoint /\ o[2] = m.type /\ o[3] = 0
        /\ o[4] = m.value[1] /\ o[5] = m.value[2] /\ o[6] = m.value[3] /\ o[7] = m.value[4]
        /\ Bytes(o, 4, 7) = m.value
    BY <1>1, <1>3, FourAndFour
  <1> HIDE DEF o
  <1>5. ValidIdentifier(id) /\ id.kind = KEvent /\ id.source = m.source
    BY <1>1, Headers DEF From
  <1> HIDE DEF id
  <1>6. ValueAt(o, 2, 4)
    <2>1. <<o[4], o[5], o[6], o[7]>> = m.value
      BY <1>1, <1>4 DEF Words
    <2> QED BY <1>4, <2>1 DEF ValueAt
  <1>7. ValidBytes(KEvent, o)
    BY <1>1, <1>4, <1>6, KindNumbers DEF ValidBytes, IsEndpoint, Endpoints
  <1>8. ValidFrame(Build(m))
    BY <1>2, <1>5, <1>7, KindNumbers DEF ValidFrame
  <1>9. Read(Build(m)) = m
    <2>1. Read([id |-> id, bytes |-> o]) =
            [kind |-> "event", source |-> m.source, endpoint |-> o[1], type |-> o[2],
             value |-> Bytes(o, 4, 7)]
      BY <1>5, KindNumbers DEF Read
    <2> QED BY <1>1, <1>2, <1>4, <2>1, Zenon
  <1> QED BY <1>8, <1>9 DEF RoundTrip

(* Discovery request: valid, and read as it was meant.                         *)
LEMMA DiscoveryRequestRead ==
  ASSUME NEW m \in MessageSpace, m.kind = "discovery_request"
  PROVE  RoundTrip(m)
  <1> DEFINE o == Octets(<<m.transaction, 2, 232, 3>> \o m.challenge)
             id == From(m.source, Management, KDiscoveryRequest, Broadcast)
  <1>1. /\ m.source = Unassigned /\ m.transaction \in Byte /\ m.window = 1000
        /\ m.challenge \in Words
        /\ m = [kind |-> "discovery_request", source |-> m.source,
                transaction |-> m.transaction, window |-> m.window, challenge |-> m.challenge]
    BY DEF MessageSpace
  <1>2. Build(m) = [id |-> id, bytes |-> o]
    BY Zenon DEF Build, Header, Payload
  <1>3. 2 \in Byte /\ 232 \in Byte /\ 3 \in Byte
    BY DEF Byte
  <1>4. /\ o[0] = m.transaction /\ o[1] = 2 /\ o[2] = 232 /\ o[3] = 3
        /\ Bytes(o, 4, 7) = m.challenge
    BY <1>1, <1>3, FourAndFour
  <1> HIDE DEF o
  <1>5. ValidIdentifier(id) /\ id.kind = KDiscoveryRequest /\ id.source = m.source
    BY <1>1, RequestHeader DEF From
  <1> HIDE DEF id
  <1>6. U16(o, 2) = 1000
    BY <1>4 DEF U16
  <1>7. ValidBytes(KDiscoveryRequest, o)
    BY <1>4, <1>6, KindNumbers DEF ValidBytes, WindowAt
  <1>8. ValidFrame(Build(m))
    BY <1>2, <1>5, <1>7, KindNumbers DEF ValidFrame
  <1>9. Read(Build(m)) = m
    <2>1. Read([id |-> id, bytes |-> o]) =
            [kind |-> "discovery_request", source |-> m.source, transaction |-> o[0],
             window |-> U16(o, 2), challenge |-> Bytes(o, 4, 7)]
      BY <1>5, KindNumbers DEF Read
    <2>2. U16(o, 2) = m.window
      BY <1>1, <1>6
    <2> QED BY <1>1, <1>2, <1>4, <2>1, <2>2, Zenon
  <1> QED BY <1>8, <1>9 DEF RoundTrip

(* Discovery response: valid, and read as it was meant.                        *)
LEMMA DiscoveryResponseRead ==
  ASSUME NEW m \in MessageSpace, m.kind = "discovery_response"
  PROVE  RoundTrip(m)
  <1> DEFINE o == Octets(<<m.transaction>> \o m.uid \o <<0>>)
             id == From(m.source, Management, KDiscoveryResponse, m.destination)
  <1>1. /\ m.source \in {Unassigned} \cup Addresses
        /\ m.destination \in {Unassigned} \cup Addresses
        /\ m.transaction \in Byte /\ m.uid \in Uids
        /\ m = [kind |-> "discovery_response", source |-> m.source,
                destination |-> m.destination, transaction |-> m.transaction, uid |-> m.uid]
    BY DEF MessageSpace
  <1>2. Build(m) = [id |-> id, bytes |-> o]
    BY Zenon DEF Build, Header, Payload
  <1>3. 0 \in Byte
    BY DEF Byte
  <1>4. o[0] = m.transaction /\ Bytes(o, 1, 6) = m.uid
    BY <1>1, <1>3, OneSixOne
  <1> HIDE DEF o
  <1>5. /\ ValidIdentifier(id) /\ id.kind = KDiscoveryResponse /\ id.source = m.source
        /\ id.destination = m.destination
    BY <1>1, ResponseHeader DEF From
  <1> HIDE DEF id
  <1>6. ValidBytes(KDiscoveryResponse, o)
    BY KindNumbers DEF ValidBytes
  <1>7. ValidFrame(Build(m))
    BY <1>2, <1>5, <1>6, KindNumbers DEF ValidFrame
  <1>8. Read(Build(m)) = m
    <2>1. Read([id |-> id, bytes |-> o]) =
            [kind |-> "discovery_response", source |-> m.source, destination |-> m.destination,
             transaction |-> o[0], uid |-> Bytes(o, 1, 6)]
      BY <1>5, KindNumbers DEF Read
    <2> QED BY <1>1, <1>2, <1>4, <2>1, Zenon
  <1> QED BY <1>7, <1>8 DEF RoundTrip

(* Address claim: valid, and read as it was meant.                             *)
LEMMA AddressClaimRead ==
  ASSUME NEW m \in MessageSpace, m.kind = "address_claim"
  PROVE  RoundTrip(m)
  <1> DEFINE o == Octets(m.uid \o <<1, m.nonce>>)
             id == From(m.source, Management, KAddressClaim, Broadcast)
  <1>1. /\ m.source \in Addresses /\ m.uid \in Uids /\ m.nonce \in Byte
        /\ m = [kind |-> "address_claim", source |-> m.source, uid |-> m.uid, nonce |-> m.nonce]
    BY DEF MessageSpace
  <1>2. Build(m) = [id |-> id, bytes |-> o]
    BY Zenon DEF Build, Header, Payload
  <1>3. 1 \in Byte
    BY DEF Byte
  <1>4. o[6] = 1 /\ o[7] = m.nonce /\ Bytes(o, 0, 5) = m.uid
    BY <1>1, <1>3, SixAndTwo
  <1> HIDE DEF o
  <1>5. ValidIdentifier(id) /\ id.kind = KAddressClaim /\ id.source = m.source
    BY <1>1, Headers DEF From
  <1> HIDE DEF id
  <1>6. ValidBytes(KAddressClaim, o)
    BY <1>4, KindNumbers DEF ValidBytes
  <1>7. ValidFrame(Build(m))
    BY <1>2, <1>5, <1>6, KindNumbers DEF ValidFrame
  <1>8. Read(Build(m)) = m
    <2>1. Read([id |-> id, bytes |-> o]) =
            [kind |-> "address_claim", source |-> m.source, uid |-> Bytes(o, 0, 5),
             nonce |-> o[7]]
      BY <1>5, KindNumbers DEF Read
    <2> QED BY <1>1, <1>2, <1>4, <2>1, Zenon
  <1> QED BY <1>7, <1>8 DEF RoundTrip

(* Address conflict: valid, and read as it was meant.                          *)
LEMMA AddressConflictRead ==
  ASSUME NEW m \in MessageSpace, m.kind = "address_conflict"
  PROVE  RoundTrip(m)
  <1> DEFINE o == Octets(m.uid \o <<1, m.nonce>>)
             id == From(m.source, Control, KAddressConflict, m.source)
  <1>1. /\ m.source \in Addresses /\ m.uid \in Uids /\ m.nonce \in Byte
        /\ m = [kind |-> "address_conflict", source |-> m.source, uid |-> m.uid,
                nonce |-> m.nonce]
    BY DEF MessageSpace
  <1>2. Build(m) = [id |-> id, bytes |-> o]
    BY Zenon DEF Build, Header, Payload
  <1>3. 1 \in Byte
    BY DEF Byte
  <1>4. o[6] = 1 /\ o[7] = m.nonce /\ Bytes(o, 0, 5) = m.uid
    BY <1>1, <1>3, SixAndTwo
  <1> HIDE DEF o
  <1>5. ValidIdentifier(id) /\ id.kind = KAddressConflict /\ id.destination = m.source
    BY <1>1, Headers DEF From
  <1> HIDE DEF id
  <1>6. ValidBytes(KAddressConflict, o)
    BY <1>4, KindNumbers DEF ValidBytes
  <1>7. ValidFrame(Build(m))
    BY <1>2, <1>5, <1>6, KindNumbers DEF ValidFrame
  <1>8. Read(Build(m)) = m
    <2>1. Read([id |-> id, bytes |-> o]) =
            [kind |-> "address_conflict", source |-> m.source, uid |-> Bytes(o, 0, 5),
             nonce |-> o[7]]
      BY <1>5, KindNumbers DEF Read
    <2> QED BY <1>1, <1>2, <1>4, <2>1, Zenon
  <1> QED BY <1>7, <1>8 DEF RoundTrip

(* The two bytes of an assigned address: the flag PERSIST does not disturb the *)
(* ninth bit.                                                                  *)
LEMMA NineBits ==
  ASSUME NEW a \in Addresses
  PROVE  /\ a % 256 \in Byte /\ AssignHighByte(a) \in {2, 3}
         /\ (a % 256) + 256 * (AssignHighByte(a) % 2) = a
  BY SMT DEF Addresses, AssignHighByte, Byte

(* Address assign: valid, and read as it was meant.                            *)
LEMMA AddressAssignRead ==
  ASSUME NEW m \in MessageSpace, m.kind = "address_assign"
  PROVE  RoundTrip(m)
  <1> DEFINE low == m.address % 256
             high == AssignHighByte(m.address)
             o == Octets(m.uid \o <<low, high>>)
             id == From(m.source, Management, KAddressAssign, Broadcast)
  <1>1. /\ m.source \in Addresses /\ m.uid \in Uids /\ m.address \in Addresses
        /\ m = [kind |-> "address_assign", source |-> m.source, uid |-> m.uid,
                address |-> m.address]
    BY DEF MessageSpace
  <1>2. Build(m) = [id |-> id, bytes |-> o]
    BY Zenon DEF Build, Header, Payload
  <1>3. low \in Byte /\ high \in {2, 3} /\ high \in Byte /\ low + 256 * (high % 2) = m.address
    BY <1>1, NineBits DEF Byte
  <1> HIDE DEF low, high
  <1>4. o[6] = low /\ o[7] = high /\ Bytes(o, 0, 5) = m.uid
    BY <1>1, <1>3, SixAndTwo
  <1> HIDE DEF o
  <1>5. ValidIdentifier(id) /\ id.kind = KAddressAssign /\ id.source = m.source
    BY <1>1, Headers DEF From
  <1> HIDE DEF id
  <1>6. o[6] + 256 * (o[7] % 2) = m.address
    BY <1>3, <1>4
  <1>7. ValidBytes(KAddressAssign, o)
    BY <1>1, <1>3, <1>4, <1>6, KindNumbers DEF ValidBytes
  <1>8. ValidFrame(Build(m))
    BY <1>2, <1>5, <1>7, KindNumbers DEF ValidFrame
  <1>9. Read(Build(m)) = m
    <2>1. Read([id |-> id, bytes |-> o]) =
            [kind |-> "address_assign", source |-> m.source, uid |-> Bytes(o, 0, 5),
             address |-> o[6] + 256 * (o[7] % 2)]
      BY <1>5, KindNumbers DEF Read
    <2> QED BY <1>1, <1>2, <1>4, <1>6, <2>1, Zenon
  <1> QED BY <1>8, <1>9 DEF RoundTrip

(* Entity claim: valid, and read as it was meant.                              *)
LEMMA EntityClaimRead ==
  ASSUME NEW m \in MessageSpace, m.kind = "entity_claim", EntityId(m.entity)
  PROVE  RoundTrip(m)
  <1> DEFINE v == EntityBytes(m.entity)
             o == Octets(<<0, m.endpoint>> \o v \o <<0, 0>>)
             id == From(m.source, Management, KEntityClaim, Broadcast)
  <1>1. /\ m.source \in Addresses /\ m.endpoint \in Endpoints
        /\ m = [kind |-> "entity_claim", source |-> m.source, endpoint |-> m.endpoint,
                entity |-> m.entity]
    BY DEF MessageSpace
  <1>2. Build(m) = [id |-> id, bytes |-> o]
    BY Zenon DEF Build, Header, Payload
  <1>3. /\ v \in Words /\ \E i \in 1 .. 4 : v[i] # 0
        /\ v[1] + 256 * (v[2] + 256 * (v[3] + 256 * v[4])) = m.entity
    BY EntityRoundTrip, SMT
  <1>4. m.endpoint \in Byte /\ 0 \in Byte
    BY <1>1 DEF Endpoints, Byte
  <1> HIDE DEF v
  <1>5. /\ o[1] = m.endpoint /\ o[6] = 0 /\ o[7] = 0
        /\ o[2] = v[1] /\ o[3] = v[2] /\ o[4] = v[3] /\ o[5] = v[4]
    BY <1>3, <1>4, TwoFourTwo
  <1> HIDE DEF o
  <1>6. NonzeroU32(o, 2) /\ EntityIn(o, 2) = m.entity
    BY <1>3, <1>5, EntityAt
  <1>7. ValidIdentifier(id) /\ id.kind = KEntityClaim /\ id.source = m.source
    BY <1>1, Headers DEF From
  <1> HIDE DEF id
  <1>8. ValidBytes(KEntityClaim, o)
    BY <1>1, <1>5, <1>6, KindNumbers DEF ValidBytes, IsEndpoint, Endpoints, ZeroFrom
  <1>9. ValidFrame(Build(m))
    BY <1>2, <1>7, <1>8, KindNumbers DEF ValidFrame
  <1>10. Read(Build(m)) = m
    <2>1. Read([id |-> id, bytes |-> o]) =
            [kind |-> "entity_claim", source |-> m.source, endpoint |-> o[1],
             entity |-> EntityIn(o, 2)]
      BY <1>7, KindNumbers DEF Read
    <2> QED BY <1>1, <1>2, <1>5, <1>6, <2>1, Zenon
  <1> QED BY <1>9, <1>10 DEF RoundTrip

(* Entity resolve: valid, and read as it was meant.                            *)
LEMMA EntityResolveRead ==
  ASSUME NEW m \in MessageSpace, m.kind = "entity_resolve", EntityId(m.entity)
  PROVE  RoundTrip(m)
  <1> DEFINE v == EntityBytes(m.entity)
             o == Octets(<<0, 0>> \o v \o <<232, 3>>)
             id == From(m.source, Management, KEntityResolve, Broadcast)
  <1>1. /\ m.source \in Addresses
        /\ m = [kind |-> "entity_resolve", source |-> m.source, entity |-> m.entity]
    BY DEF MessageSpace
  <1>2. Build(m) = [id |-> id, bytes |-> o]
    BY Zenon DEF Build, Header, Payload
  <1>3. /\ v \in Words /\ \E i \in 1 .. 4 : v[i] # 0
        /\ v[1] + 256 * (v[2] + 256 * (v[3] + 256 * v[4])) = m.entity
    BY EntityRoundTrip, SMT
  <1>4. 0 \in Byte /\ 232 \in Byte /\ 3 \in Byte
    BY DEF Byte
  <1> HIDE DEF v
  <1>5. /\ o[1] = 0 /\ o[6] = 232 /\ o[7] = 3
        /\ o[2] = v[1] /\ o[3] = v[2] /\ o[4] = v[3] /\ o[5] = v[4]
    BY <1>3, <1>4, TwoFourTwo
  <1> HIDE DEF o
  <1>6. NonzeroU32(o, 2) /\ EntityIn(o, 2) = m.entity
    BY <1>3, <1>5, EntityAt
  <1>7. ValidIdentifier(id) /\ id.kind = KEntityResolve /\ id.source = m.source
    BY <1>1, Headers DEF From
  <1> HIDE DEF id
  <1>8. ValidBytes(KEntityResolve, o)
    BY <1>5, <1>6, KindNumbers DEF ValidBytes, WindowAt, U16
  <1>9. ValidFrame(Build(m))
    BY <1>2, <1>7, <1>8, KindNumbers DEF ValidFrame
  <1>10. Read(Build(m)) = m
    <2>1. Read([id |-> id, bytes |-> o]) =
            [kind |-> "entity_resolve", source |-> m.source, entity |-> EntityIn(o, 2)]
      BY <1>7, KindNumbers DEF Read
    <2> QED BY <1>1, <1>2, <1>6, <2>1, Zenon
  <1> QED BY <1>9, <1>10 DEF RoundTrip

(* Ack: valid, and read as it was meant.                                       *)
LEMMA AckRead ==
  ASSUME NEW m \in MessageSpace, m.kind = "ack"
  PROVE  RoundTrip(m)
  <1> DEFINE o == Octets(<<m.transaction, m.endpoint, m.original, m.status, 0, 0, 0, 0>>)
             id == From(m.source, Control, KAck, m.destination)
  <1>1. /\ m.source \in Addresses /\ m.destination \in Addresses
        /\ m.original \in {KEvent, KCommand} /\ m.status \in 0 .. 7
        /\ m = [kind |-> "ack", source |-> m.source, destination |-> m.destination,
                transaction |-> m.transaction, endpoint |-> m.endpoint,
                original |-> m.original, status |-> m.status]
    BY DEF MessageSpace
  <1>2. Build(m) = [id |-> id, bytes |-> o]
    BY Zenon DEF Build, Header, Payload
  <1>3. o[0] = m.transaction /\ o[1] = m.endpoint /\ o[2] = m.original /\ o[3] = m.status
    BY DEF Octets
  <1> HIDE DEF o
  <1>4. /\ ValidIdentifier(id) /\ id.kind = KAck /\ id.source = m.source
        /\ id.destination = m.destination
    BY <1>1, Headers DEF From
  <1> HIDE DEF id
  <1>5. ValidBytes(KAck, o)
    BY <1>1, <1>3, KindNumbers DEF ValidBytes, IsStatus
  <1>6. ValidFrame(Build(m))
    BY <1>2, <1>4, <1>5, KindNumbers DEF ValidFrame
  <1>7. Read(Build(m)) = m
    <2>1. Read([id |-> id, bytes |-> o]) =
            [kind |-> "ack", source |-> m.source, destination |-> m.destination,
             transaction |-> o[0], endpoint |-> o[1], original |-> o[2], status |-> o[3]]
      BY <1>4, KindNumbers DEF Read
    <2> QED BY <1>1, <1>2, <1>3, <2>1, Zenon
  <1> QED BY <1>6, <1>7 DEF RoundTrip

(* Heartbeat: valid, and read as it was meant.                                 *)
LEMMA HeartbeatRead ==
  ASSUME NEW m \in MessageSpace, m.kind = "heartbeat"
  PROVE  RoundTrip(m)
  <1> DEFINE o == Octets(<<0, 0, 1, 0, 0, 0, 0, 0>>)
             id == From(m.source, Management, KHeartbeat, Broadcast)
  <1>1. m.source \in Addresses /\ m = [kind |-> "heartbeat", source |-> m.source]
    BY DEF MessageSpace
  <1>2. Build(m) = [id |-> id, bytes |-> o]
    BY Zenon DEF Build, Header, Payload
  <1>3. o[1] = 0 /\ o[2] = 1 /\ o[6] = 0 /\ o[7] = 0
    BY DEF Octets
  <1> HIDE DEF o
  <1>4. ValidIdentifier(id) /\ id.kind = KHeartbeat /\ id.source = m.source
    BY <1>1, Headers DEF From
  <1> HIDE DEF id
  <1>5. ValidBytes(KHeartbeat, o)
    BY <1>3, KindNumbers DEF ValidBytes, NonzeroU32
  <1>6. ValidFrame(Build(m))
    BY <1>2, <1>4, <1>5, KindNumbers DEF ValidFrame
  <1>7. Read(Build(m)) = m
    <2>1. Read([id |-> id, bytes |-> o]) = [kind |-> "heartbeat", source |-> m.source]
      BY <1>4, KindNumbers DEF Read
    <2> QED BY <1>1, <1>2, <2>1, Zenon
  <1> QED BY <1>6, <1>7 DEF RoundTrip

(* Whatever the senders accept is sent in a valid frame and read as it was meant.    *)
LEMMA SendersAreRead ==
  ASSUME NEW m, Sendable(m)
  PROVE  RoundTrip(m)
  <1>1. m \in MessageSpace
    BY DEF Sendable
  <1>2. m.kind \in {"entity_claim", "entity_resolve"} => EntityId(m.entity)
    BY DEF Sendable
  <1>3. m.kind \in {"state", "event"} => ValidValue(m.type, m.value)
    BY DEF Sendable
  <1>4. CASE m.kind = "entity_claim"
    BY <1>1, <1>2, <1>4, EntityClaimRead, Zenon
  <1>5. CASE m.kind = "entity_resolve"
    BY <1>1, <1>2, <1>5, EntityResolveRead, Zenon
  <1>6. CASE m.kind = "state"
    BY <1>1, <1>3, <1>6, StateRead, Zenon
  <1>7. CASE m.kind = "event"
    BY <1>1, <1>3, <1>7, EventRead, Zenon
  <1>8. CASE m.kind \in {"discovery_request", "discovery_response"}
    BY <1>1, <1>8, DiscoveryRequestRead, DiscoveryResponseRead, Zenon
  <1>9. CASE m.kind \in {"address_claim", "address_assign", "address_conflict"}
    BY <1>1, <1>9, AddressClaimRead, AddressAssignRead, AddressConflictRead, Zenon
  <1>10. CASE m.kind \in {"ack", "heartbeat"}
    BY <1>1, <1>10, AckRead, HeartbeatRead, Zenon
  <1> QED BY <1>1, <1>4, <1>5, <1>6, <1>7, <1>8, <1>9, <1>10, MessageAddresses, Zenon

(* Identifiers have 29 bits.                                                  *)
LEMMA IdentifierBits ==
  ASSUME NEW id \in Identifier
  PROVE  ToRaw(id) < IdentifierLimit
  <1>1. PICK p \in 0 .. 7, k \in 0 .. 31, d \in 0 .. 511, s \in 0 .. 511, h \in 0 .. 7 :
          id = [priority |-> p, kind |-> k, destination |-> d, source |-> s, hop |-> h]
    BY DEF Identifier, Bits3, Bits5, Bits9
  <1>2. PICK pk \in Nat : pk = p * 32 + k /\ pk < 8 * 32
    BY SMT
  <1>3. PICK pkd \in Nat : pkd = pk * 512 + d /\ pkd < 8 * 32 * 512
    BY <1>2, SMT
  <1>4. PICK pkds \in Nat : pkds = pkd * 512 + s /\ pkds < 8 * 32 * 512 * 512
    BY <1>3, SMT
  <1>5. ToRaw(id) = pkds * 8 + h
    BY <1>1, <1>2, <1>3, <1>4, SMT DEF ToRaw
  <1> QED BY <1>4, <1>5, SMT DEF IdentifierLimit

(* A frame that was encoded is decoded to itself and to nothing else.          *)
LEMMA DecodeEncoded ==
  ASSUME NEW m \in MessageSpace, ValidFrame(Build(m))
  PROVE  \E raw \in Encode(Build(m)) : Decode(raw) = {Build(m)}
  <1> DEFINE f == Build(m)
             raw == [can_id |-> ToRaw(f.id), extended |-> TRUE, remote |-> FALSE,
                     dlc |-> 8, data |-> f.bytes]
  <1>1. f = [id |-> f.id, bytes |-> f.bytes]
    BY DEF Build
  <1>2. f.id \in Identifier
    BY BuiltIdentifier
  <1> HIDE DEF f
  <1>3. raw \in Encode(f)
    BY DEF Encode, f
  <1>4. FromRaw(raw.can_id) = f.id /\ raw.data = f.bytes
    BY <1>2, IdentifierRoundTrip
  <1>5. Accepts(raw)
    BY <1>2, IdentifierBits DEF Accepts
  <1> HIDE DEF raw
  <1>6. [id |-> FromRaw(raw.can_id), bytes |-> raw.data] = f
    BY <1>1, <1>4, Zenon
  <1>7. ValidFrame(f)
    BY DEF f
  <1>8. Decode(raw) = {f}
    BY <1>5, <1>6, <1>7, Zenon DEF Decode
  <1> QED BY <1>3, <1>8 DEF f

(* The frame on the bus is the encoded frame of the message it stands for.      *)
SentInv ==
  /\ contenders \subseteq Messages
  /\ \A m \in message : m \in Messages /\ wire = Encode(Build(m))

(* For every set of messages that the constructors of their payloads let through,   *)
(* what the peers of a sender read from its frames is what it meant.              *)
THEOREM SendersAreUnderstood == Spec => []Understood
  <1>1. Init => SentInv
    BY DEF Init, SentInv
  <1>2. SentInv /\ [Next]_vars => SentInv'
    <2> SUFFICES ASSUME SentInv, [Next]_vars PROVE SentInv'
      OBVIOUS
    <2>1. CASE Submit
      BY <2>1 DEF Submit, Idle, SentInv
    <2>2. CASE Transmit
      <3>1. PICK m \in contenders : /\ contenders' = contenders \ {m} /\ message' = {m}
                                    /\ wire' = Encode(Build(m))
        BY <2>2 DEF Transmit
      <3> QED BY <3>1, Zenon DEF SentInv
    <2>3. CASE Interfere
      BY <2>3 DEF Interfere, Idle, SentInv
    <2>4. CASE Received
      BY <2>4 DEF Received, SentInv
    <2>5. CASE UNCHANGED vars
      BY <2>5, Zenon DEF vars, SentInv
    <2> QED BY <2>1, <2>2, <2>3, <2>4, <2>5 DEF Next
  <1>3. SentInv => Understood
    <2> SUFFICES ASSUME SentInv, NEW m \in message
                 PROVE  \E raw \in wire : \E f \in Decode(raw) :
                          Decode(raw) = {f} /\ Read(f) = m
      BY DEF Understood
    <2>1. Sendable(m) /\ wire = Encode(Build(m))
      BY WireAssumption DEF SentInv
    <2>2. ValidFrame(Build(m)) /\ Read(Build(m)) = m
      BY <2>1, SendersAreRead DEF RoundTrip
    <2>3. PICK raw \in wire : Decode(raw) = {Build(m)}
      BY <2>1, <2>2, DecodeEncoded DEF Sendable
    <2> QED BY <2>2, <2>3, Zenon
  <1> QED BY <1>1, <1>2, <1>3, PTL DEF Spec
=============================================================================
