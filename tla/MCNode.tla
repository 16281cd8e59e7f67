---------------------------------- MODULE MCNode ----------------------------------
(***************************************************************************)
(* Two processes, one with the command lines of seeds, sound and not, the  *)
(* other a reader; they may name the same identity file.                   *)
(***************************************************************************)
EXTENDS Node

CONSTANTS p, q, f, g

Ip4(o) == [proto |-> "ip4", octets |-> o]
Ip6(s) == [proto |-> "ip6", segments |-> s]
Tcp == [proto |-> "tcp"]
Public == <<Ip4(<<8, 8, 4, 4>>), Tcp>>
Lan == <<Ip4(<<192, 168, 1, 9>>), Tcp>>
Mapped == <<Ip6(<<0, 0, 0, 0, 0, 65535, 49320, 265>>), Tcp>>
Secure == <<[proto |-> "dns4"], Tcp, [proto |-> "wss"]>>
Suffixed(k) == Append(Public, [proto |-> "p2p", peer |-> k])
Broken == <<[proto |-> "malformed"]>>

Seed ==
  [source |-> "namespace", namespace |-> {"ns"}, document |-> {},
   positive |-> [o \in {"minimum-peers", "parallel-dials", "dial-timeout", "observation",
                        "backoff", "renewal"} |-> 1],
   ttl |-> [o \in {"reboot", "maintenance"} |-> MaxTtl],
   identity |-> f, seed |-> TRUE, signer |-> "valid",
   advertise |-> <<Public>>, allowPrivate |-> FALSE]

Document(d) == [Seed EXCEPT !.source = "file", !.document = d]

\* Refused before the identity is touched.
Unsound ==
  {Document({}), [Seed EXCEPT !.namespace = {}],
   Document({[Mainnet("ns") EXCEPT !.version = 2]}),
   Document({[Mainnet("ns") EXCEPT !.types = <<LIBP2P, LIBP2P>>]}),
   Document({[Mainnet("ns") EXCEPT !.types = <<LIBP2P, 9>>]}),
   [Seed EXCEPT !.positive["renewal"] = 0],
   [Seed EXCEPT !.ttl["maintenance"] = MaxTtl + 1]}

\* Refused after the identity was loaded or created.
Late ==
  {[Seed EXCEPT !.signer = "none"], [Seed EXCEPT !.advertise = <<>>],
   [Seed EXCEPT !.advertise = <<Public, Lan>>],
   [Seed EXCEPT !.advertise = <<Suffixed(4)>>]}

Sound ==
  {[Seed EXCEPT !.advertise = <<Public, Suffixed(1)>>],
   [Seed EXCEPT !.advertise = <<Secure, Suffixed(1)>>],
   [Seed EXCEPT !.advertise = <<Lan>>, !.allowPrivate = TRUE],
   Document({[Mainnet("ns") EXCEPT !.types = <<ENR>>]})}

Reader == [Seed EXCEPT !.seed = FALSE, !.signer = "none", !.advertise = <<>>]
Both == [Mainnet("ns") EXCEPT !.types = <<ENR, LIBP2P>>]

Readers ==
  {Reader,
   [Reader EXCEPT !.identity = g, !.allowPrivate = TRUE,
                  !.source = "file", !.document = {Both}]}

MCOptions(x) == IF x = p THEN Unsound \cup Late \cup Sound ELSE Readers

\* Keys are interchangeable: the least one is generated.
MCFresh(x, used) ==
  LET unused == (IF x = f THEN {1, 3} ELSE {2}) \ used
  IN  {k \in unused : \A j \in unused : k <= j}

Posted(key, type, payload, signer) ==
  [namespace |-> "ns", type |-> LIBP2P, record |-> Envelope(key, type, payload, signer)]

\* Records of others: sound, with mixed endpoints, signed by somebody else,
\* for somebody else, of another type, and an ENR.
MCForeign ==
  {Posted(5, PeerRecordType, [peer |-> 5, addresses |-> <<Mapped, Secure>>], 5),
   Posted(5, PeerRecordType, [peer |-> 5, addresses |-> <<Mapped>>], 5),
   Posted(5, PeerRecordType, [peer |-> 5, addresses |-> <<Broken, Public>>], 5),
   Posted(5, PeerRecordType, [peer |-> 5, addresses |-> <<Public>>], 4),
   Posted(5, PeerRecordType, [peer |-> 4, addresses |-> <<Public>>], 5),
   Posted(5, "other", [peer |-> 5, addresses |-> <<Public>>], 5),
   [namespace |-> "ns", type |-> ENR,
    record |-> [node |-> 5, ip4 |-> <<8, 8, 4, 4>>, ports |-> {<<"tcp", 4>>, <<"udp", 6>>},
                fits |-> TRUE, verifies |-> TRUE, trailing |-> FALSE]]}
===============================================================================
