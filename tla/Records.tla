--------------------------------- MODULE Records ---------------------------------
(***************************************************************************)
(* Signed peer records and the rules that admit them: the libp2p envelope  *)
(* (resurrect-libp2p/src/signed_peer_record.rs), the ENR codec             *)
(* (enr_codec.rs), the endpoint policy (endpoint_policy.rs) and the        *)
(* announcement checks of resurrect-core/src/validation.rs, as operators.  *)
(*                                                                         *)
(* A signature is the signed input together with its key: verification is  *)
(* equality, which is what an unforgeable signature over an injective      *)
(* encoding amounts to.  A multiaddr is a sequence of protocol parts.      *)
(***************************************************************************)
EXTENDS Integers, Sequences, FiniteSets, SequencesExt

CONSTANTS
  MaxEndpoints,  \* DEFAULT_MAX_ENDPOINTS_PER_RECORD
  MaxParts       \* MAX_ENVELOPE_BYTES, counted in address parts

ASSUME RecordsAssumption == MaxEndpoints \in Nat /\ MaxParts \in Nat

ENR == 1
LIBP2P == 2

DialContext == {"NativeServer", "Mobile", "Browser", "RestrictedEgress"}

-------------------------------------------------------------------------------
(***************************************************************************)
(* endpoint_policy.rs.  IPv4 addresses are four octets, IPv6 ones eight    *)
(* segments.                                                               *)
(***************************************************************************)
IsMapped(s) == \A i \in 1..6 : s[i] = IF i = 6 THEN 65535 ELSE 0
Unmap(s) == <<s[7] \div 256, s[7] % 256, s[8] \div 256, s[8] % 256>>

Unspecified4(o) == o = <<0, 0, 0, 0>>
Loopback4(o) == o[1] = 127
Private4(o) ==
  \/ o[1] = 10
  \/ o[1] = 172 /\ o[2] \in 16..31
  \/ o[1] = 192 /\ o[2] = 168
Multicast4(o) == o[1] \in 224..239
Documentation4(o) ==
  <<o[1], o[2], o[3]>> \in {<<192, 0, 2>>, <<198, 51, 100>>, <<203, 0, 113>>}

IsGlobalV4(o) ==
  ~ \/ Unspecified4(o) \/ Loopback4(o) \/ Private4(o)
    \/ o[1] = 169 /\ o[2] = 254
    \/ Multicast4(o) \/ o = <<255, 255, 255, 255>> \/ Documentation4(o)
    \/ o[1] = 0 \/ o[1] >= 240
    \/ o[1] = 100 /\ o[2] \in 64..127
    \/ o[1] = 198 /\ o[2] \in {18, 19}

Unspecified6(s) == \A i \in 1..8 : s[i] = 0
Loopback6(s) == \A i \in 1..8 : s[i] = IF i = 8 THEN 1 ELSE 0
Multicast6(s) == s[1] >= 65280

IsGlobalV6(s) ==
  IF IsMapped(s) THEN IsGlobalV4(Unmap(s))
  ELSE ~ \/ Unspecified6(s) \/ Loopback6(s) \/ Multicast6(s)
         \/ s[1] \in 64512..65023
         \/ s[1] \in 65152..65215
         \/ s[1] = 8193 /\ s[2] = 3512

AcceptIp(allowNonGlobal, part) ==
  IF part.proto = "ip4"
    THEN IF allowNonGlobal THEN ~Unspecified4(part.octets) /\ ~Multicast4(part.octets)
                           ELSE IsGlobalV4(part.octets)
    ELSE IF allowNonGlobal THEN ~Unspecified6(part.segments) /\ ~Multicast6(part.segments)
                           ELSE IsGlobalV6(part.segments)

Parses(address) == \A i \in DOMAIN address : address[i].proto # "malformed"

Names(address, protos) == \E i \in DOMAIN address : address[i].proto \in protos

Transports == {"tcp", "udp", "quic-v1", "webtransport", "wss", "https"}
SecureForBrowsers == {"wss", "https", "tls", "certhash", "webtransport"}

\* EndpointPolicy::accepts; expected is the set of admissible peers, all of
\* them where the code passes None.
Accepts(allowNonGlobal, address, expected, context) ==
  /\ address # <<>>
  /\ \A i \in DOMAIN address :
       /\ address[i].proto \in {"ip4", "ip6"} => AcceptIp(allowNonGlobal, address[i])
       /\ address[i].proto = "p2p" => address[i].peer \in expected
  /\ Names(address, Transports)
  /\ context \in {"Browser", "RestrictedEgress"} => Names(address, SecureForBrowsers)

\* The addresses at the positions in keep, in their order.
Kept(addresses, keep) ==
  LET Rank(i) == Cardinality({j \in keep : j <= i})
  IN  [n \in 1..Cardinality(keep) |-> addresses[CHOOSE i \in keep : Rank(i) = n]]

-------------------------------------------------------------------------------
(***************************************************************************)
(* signed_peer_record.rs                                                   *)
(***************************************************************************)
SigningInput(type, payload) == <<"libp2p-peer-record", type, payload>>

PeerRecordType == "0x0103"

\* Size of an envelope: the parts of its addresses, and a fixed remainder.
Size(addresses) ==
  Cardinality(UNION {{i} \X DOMAIN addresses[i] : i \in DOMAIN addresses})

\* An envelope over any payload, signed by any key.
Envelope(key, type, payload, signer) ==
  [key |-> key, type |-> type, payload |-> payload, size |-> Size(payload.addresses),
   signature |-> [by |-> signer, input |-> SigningInput(type, payload)]]

\* sign_peer_record and seal_payload succeed.
CanSign(addresses) ==
  /\ addresses # <<>>
  /\ Len(addresses) <= MaxEndpoints
  /\ Size(addresses) <= MaxParts

SignPeerRecord(key, addresses) ==
  Envelope(key, PeerRecordType, [peer |-> key, addresses |-> addresses], key)

\* The addresses a reader keeps, in the order they were signed.
Usable(allowNonGlobal, envelope, context) ==
  LET addresses == envelope.payload.addresses
  IN  Kept(addresses, {i \in DOMAIN addresses :
             /\ Parses(addresses[i])
             /\ Accepts(allowNonGlobal, addresses[i], {envelope.key}, context)})

\* Faulty: the peer id is taken from the payload, unchecked.
DecodeTrusting(allowNonGlobal, envelope, context) ==
  LET endpoints == Usable(allowNonGlobal, envelope, context)
  IN  IF /\ envelope.size <= MaxParts
         /\ envelope.type = PeerRecordType
         /\ envelope.signature =
              [by |-> envelope.key, input |-> SigningInput(envelope.type, envelope.payload)]
         /\ Len(envelope.payload.addresses) <= MaxEndpoints
         /\ endpoints # <<>>
        THEN {[type |-> LIBP2P, peer |-> envelope.payload.peer, endpoints |-> endpoints]}
        ELSE {}

\* Libp2pPeerRecordCodec::decode_and_verify: the candidate, if there is one.
DecodeEnvelope(allowNonGlobal, envelope, context) ==
  LET endpoints == Usable(allowNonGlobal, envelope, context)
  IN  IF /\ envelope.size <= MaxParts
         /\ envelope.type = PeerRecordType
         /\ envelope.signature =
              [by |-> envelope.key, input |-> SigningInput(envelope.type, envelope.payload)]
         /\ envelope.payload.peer = envelope.key
         /\ Len(envelope.payload.addresses) <= MaxEndpoints
         /\ endpoints # <<>>
        THEN {[type |-> LIBP2P, peer |-> envelope.key, endpoints |-> endpoints]}
        ELSE {}

-------------------------------------------------------------------------------
(***************************************************************************)
(* enr_codec.rs.  An ENR is a node with optional fields, whether its       *)
(* signature verifies and whether bytes follow it.                         *)
(***************************************************************************)
EnrEndpoints(enr) ==
  LET ip(v) == IF v = 4 THEN [proto |-> "ip4", octets |-> enr.ip4]
                        ELSE [proto |-> "ip6", segments |-> enr.ip6]
      has(v) == (IF v = 4 THEN "ip4" ELSE "ip6") \in DOMAIN enr
      endpoint(transport, v) ==
        IF has(v) /\ <<transport, v>> \in enr.ports
          THEN <<<<ip(v), [proto |-> transport]>>>> ELSE <<>>
  IN  endpoint("tcp", 4) \o endpoint("tcp", 6) \o endpoint("udp", 4) \o endpoint("udp", 6)

\* EnrCodec::decode_and_verify; the endpoints of an ENR name no peer.
DecodeEnr(allowNonGlobal, enr, context) ==
  LET addresses == EnrEndpoints(enr)
      endpoints == Kept(addresses, {i \in DOMAIN addresses :
                          Accepts(allowNonGlobal, addresses[i], {}, context)})
  IN  IF context # "Browser" /\ enr.fits /\ enr.verifies /\ ~enr.trailing /\ endpoints # <<>>
        THEN {[type |-> ENR, peer |-> enr.node, endpoints |-> endpoints]}
        ELSE {}

-------------------------------------------------------------------------------
(***************************************************************************)
(* CodecRegistry::validate_announcement, but for the expiry, which is the  *)
(* reader's clock.  The bytes of one record type do not decode as another. *)
(***************************************************************************)
IsEnr(record) == "node" \in DOMAIN record

Validate(announcement, descriptor, allowNonGlobal, context) ==
  LET decoded ==
        IF announcement.type = ENR
          THEN DecodeEnr(allowNonGlobal, announcement.record, context)
          ELSE DecodeEnvelope(allowNonGlobal, announcement.record, context)
  IN  IF /\ announcement.namespace = descriptor.namespace
         /\ announcement.type \in ToSet(descriptor.types)
         /\ IsEnr(announcement.record) = (announcement.type = ENR)
        THEN {c \in decoded : Len(c.endpoints) <= MaxEndpoints}
        ELSE {}
===============================================================================
