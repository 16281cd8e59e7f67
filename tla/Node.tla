---------------------------------- MODULE Node ----------------------------------
(***************************************************************************)
(* Node processes from their start to their end (crates/resurrect-node/    *)
(* src/main.rs), over identity files, and the registry through which they  *)
(* find each other: a start that passes every check, an isolated node that *)
(* scans, dials and, as a seed, announces itself with a signed record, and *)
(* the readers of that record.  Time is left to Announcer: an announcement *)
(* expires when its seed had its renewal due.                              *)
(***************************************************************************)
EXTENDS Identity, Records

CONSTANTS
  Options(_),  \* the command lines a process may be started with
  Fresh(_, _), \* the keys that may be generated for a path, given those in use
  MaxTtl,      \* MAX_TTL_SECONDS
  Outages,     \* bound of the model: the files whose machine may lose power
  MaxLive,     \* bound of the model: announcements of these processes alive at once
  Foreign      \* announcements of others that are always on the chain

IsSeq(s) == s \in Seq(ToSet(s))

\* What clap parses.
ASSUME OptionsAssumption ==
  \A p \in Process : \A c \in Options(p) :
    /\ c.identity \in Path
    /\ c.seed \in BOOLEAN /\ c.allowPrivate \in BOOLEAN
    /\ IsSeq(c.advertise) /\ \A i \in DOMAIN c.advertise : IsSeq(c.advertise[i])
    /\ "none" \notin DOMAIN c

\* A generated key is a new one, and nobody else signs with it.
ASSUME KeysAssumption ==
  \A f \in Path, used \in SUBSET Key :
    /\ Fresh(f, used) \subseteq Key \ used
    /\ \A a \in Foreign : ~IsEnr(a.record) => a.record.signature.by \notin Fresh(f, used)

\* The bytes of an envelope are a list of addresses, if they are anything.
ASSUME ForeignAssumption ==
  \A a \in Foreign : ~IsEnr(a.record) => IsSeq(a.record.payload.addresses)

ASSUME OutagesAssumption == Outages \subseteq Path

VARIABLES
  stage,       \* where each process is in run
  cli,         \* its command line
  candidates,  \* peers the current cycle has found
  due,         \* seeds whose renewal is due
  chain,       \* live announcements in the registry
  links        \* pairs of connected processes

nodeVars == <<stage, cli, candidates, due, chain, links>>
vars == <<idVars, nodeVars>>

NoCli == [none |-> TRUE]
At(p, s) == stage[p] = s
Goto(p, s) == stage' = [stage EXCEPT ![p] = s]

\* Announcer, registry and host exist: the supervisor's loop runs.
Running(p) == stage[p] \in {"isolated", "dialing", "promoting"}
Connected(p) == \E l \in links : p \in l
KeyOf(p) == load[p].key

-------------------------------------------------------------------------------
(***************************************************************************)
(* Configuration: main.rs and resurrect-core/src/descriptor.rs             *)
(***************************************************************************)

\* NetworkDescriptor::validate
ValidDescriptor(d) ==
  /\ d.version = 1
  /\ d.maxTtl = MaxTtl
  /\ d.types # <<>>
  /\ IsInjective(d.types)

Mainnet(namespace) ==
  [version |-> 1, maxTtl |-> MaxTtl, namespace |-> namespace, types |-> <<LIBP2P>>]

\* load_descriptor: the descriptor, if there is one.  A document that is no
\* JSON of the right shape is no descriptor; an empty application name is
\* refused.
LoadDescriptor(c) ==
  IF c.source = "file"
    THEN {d \in c.document : ValidDescriptor(d)}
    ELSE {Mainnet(ns) : ns \in c.namespace}

DescriptorOf(p) == CHOOSE d \in LoadDescriptor(cli[p]) : TRUE

\* validate_cli_policy
ValidPolicy(c, maxTtl) ==
  /\ \A option \in DOMAIN c.positive : c.positive[option] > 0
  /\ \A option \in DOMAIN c.ttl : c.ttl[option] \in 1..maxTtl

\* build_codecs
HasCodecs(d) == ToSet(d.types) \subseteq {ENR, LIBP2P}

Configures(c) ==
  \E d \in LoadDescriptor(c) : ValidPolicy(c, d.maxTtl) /\ HasCodecs(d)

\* Faulty: a /p2p part is not compared with the node's own identity.
AdvertisesAny(c, key) ==
  /\ c.seed => c.advertise # <<>>
  /\ Len(c.advertise) <= MaxEndpoints
  /\ \A i \in DOMAIN c.advertise :
       /\ Parses(c.advertise[i])
       /\ Accepts(c.allowPrivate, c.advertise[i], Key, "NativeServer")

Advertises(c, key) ==
  /\ c.seed => c.advertise # <<>>
  /\ Len(c.advertise) <= MaxEndpoints
  /\ \A i \in DOMAIN c.advertise :
       /\ Parses(c.advertise[i])
       /\ Accepts(c.allowPrivate, c.advertise[i], {key}, "NativeServer")

\* The checks of run between the identity and the host.
Checks(c, key) ==
  /\ c.signer # "invalid"
  /\ c.seed => c.signer = "valid"
  /\ Advertises(c, key)

-------------------------------------------------------------------------------
(***************************************************************************)
(* run: every await and every effect on the file system is a step.         *)
(***************************************************************************)

\* The process ends, with everything it held.
Ends(p) ==
  /\ Goto(p, "down")
  /\ cli' = [cli EXCEPT ![p] = NoCli]
  /\ candidates' = [candidates EXCEPT ![p] = {}]
  /\ due' = due \ {p}
  /\ links' = {l \in links : p \notin l}
  /\ EndProcess(p)
  /\ UNCHANGED chain

\* A start whose load_descriptor, validate_cli_policy and build_codecs succeed;
\* one that is misconfigured returns before it has touched anything.
Launch(p) ==
  /\ At(p, "down")
  /\ \E c \in Options(p) :
       /\ Configures(c)
       /\ cli' = [cli EXCEPT ![p] = c]
       /\ BeginLoad(p, c.identity)
  /\ Goto(p, "identity")
  /\ UNCHANGED <<candidates, due, chain, links>>

KeysInUse ==
  {k \in Key :
    \/ \E f \in Path : k = file[f] \/ k \in created[f]
    \/ \E p \in Process : load[p] # NotLoading /\ k = KeyOf(p)
    \/ \E a \in chain : ~IsEnr(a.record) /\ k = a.record.key}

LoadsIdentity(p) ==
  /\ At(p, "identity")
  /\ \/ LoadStep(p)
     \/ \E k \in Fresh(PathOf(p), KeysInUse) : CreateNew(p, k)
  /\ UNCHANGED nodeVars

Checked(p) ==
  /\ At(p, "identity") /\ Loading(p, "loaded")
  /\ Checks(cli[p], KeyOf(p))
  /\ Goto(p, "starting")
  /\ UNCHANGED <<idVars, cli, candidates, due, chain, links>>

\* load_or_create_identity, the provider, a seed check or an address fails.
StartRefused(p) ==
  /\ At(p, "identity")
  /\ \/ Loading(p, "failed")
     \/ Loading(p, "loaded") /\ ~Checks(cli[p], KeyOf(p))
  /\ Ends(p)

\* The host has a listener, the cache is open and pruned, and the supervisor
\* runs; next_renewal is 0.
Serves(p) ==
  /\ At(p, "starting")
  /\ Goto(p, "isolated")
  /\ due' = IF cli[p].seed THEN due \cup {p} ELSE due
  /\ UNCHANGED <<idVars, cli, candidates, chain, links>>

\* No listener is accepted, none comes up in time, or the cache does not open.
ResourceFails(p) ==
  /\ At(p, "starting")
  /\ Ends(p)

-------------------------------------------------------------------------------
(***************************************************************************)
(* The supervisor's turns, in outline; Supervisor and Bootstrap have them  *)
(* in detail.                                                              *)
(***************************************************************************)
Verdict(p, a) == Validate(a, DescriptorOf(p), cli[p].allowPrivate, "NativeServer")
Reads(p, a) == Verdict(p, a) # {}
Accepted(p) == UNION {Verdict(p, a) : a \in chain}

\* A scan; nothing is found if the provider fails.
Scan(p, found) ==
  /\ At(p, "isolated") /\ ~Connected(p)
  /\ candidates' = [candidates EXCEPT ![p] = found]
  /\ Goto(p, "dialing")
  /\ UNCHANGED <<idVars, cli, due, chain, links>>

ScanFinds(p) == Scan(p, {c.peer : c \in {x \in Accepted(p) : x.type = LIBP2P}})
ScanFails(p) == Scan(p, {})

\* A dial reaches the process that has the key; the host refuses its own.
DialSucceeds(p, q) ==
  /\ At(p, "dialing")
  /\ Running(q)
  /\ KeyOf(q) \in candidates[p] /\ KeyOf(q) # KeyOf(p)
  /\ links' = links \cup {{p, q}}
  /\ candidates' = [candidates EXCEPT ![p] = {}]
  /\ Goto(p, "isolated")
  /\ UNCHANGED <<idVars, cli, due, chain>>

\* Faulty: a seed that has found a candidate does not announce itself.
NobodyAnswersQuietly(p) ==
  /\ At(p, "dialing")
  /\ candidates' = [candidates EXCEPT ![p] = {}]
  /\ Goto(p, IF p \in due /\ candidates[p] = {} THEN "promoting" ELSE "isolated")
  /\ UNCHANGED <<idVars, cli, due, chain, links>>

\* Nobody answered: promotion, if the seed is eligible.
NobodyAnswers(p) ==
  /\ At(p, "dialing")
  /\ candidates' = [candidates EXCEPT ![p] = {}]
  /\ Goto(p, IF p \in due THEN "promoting" ELSE "isolated")
  /\ UNCHANGED <<idVars, cli, due, chain, links>>

\* announce finds nothing to refuse.
CanAnnounce(p) ==
  /\ LIBP2P \in ToSet(DescriptorOf(p).types)
  /\ \A option \in DOMAIN cli[p].ttl : cli[p].ttl[option] \in 1..DescriptorOf(p).maxTtl
  /\ CanSign(cli[p].advertise)

Announcement(p) ==
  [namespace |-> DescriptorOf(p).namespace, type |-> LIBP2P,
   record |-> SignPeerRecord(KeyOf(p), cli[p].advertise)]

\* announce, of an isolated seed or as a renewal.
Announce(p) ==
  /\ At(p, "promoting") \/ (At(p, "isolated") /\ Connected(p) /\ p \in due)
  /\ CanAnnounce(p)
  /\ chain' = chain \cup {Announcement(p)}
  /\ Cardinality(chain' \ Foreign) <= MaxLive
  /\ due' = due \ {p}
  /\ Goto(p, "isolated")
  /\ UNCHANGED <<idVars, cli, candidates, links>>

\* announce refuses or the provider fails; it stays due.
AnnounceFails(p) ==
  /\ At(p, "promoting")
  /\ Goto(p, "isolated")
  /\ UNCHANGED <<idVars, cli, candidates, due, chain, links>>

\* Shutdown is noticed in the sleeps; the status file may fail to be written.
Stops(p) ==
  /\ At(p, "isolated")
  /\ Ends(p)

-------------------------------------------------------------------------------
(***************************************************************************)
(* The surroundings                                                        *)
(***************************************************************************)
Crash(p) ==
  /\ ~At(p, "down")
  /\ Ends(p)

LosesPower(f) ==
  LET lost == {p \in Process : load[p] # NotLoading /\ PathOf(p) = f}
  IN  /\ PowerLoss(f)
      /\ stage' = [p \in Process |-> IF p \in lost THEN "down" ELSE stage[p]]
      /\ cli' = [p \in Process |-> IF p \in lost THEN NoCli ELSE cli[p]]
      /\ candidates' = [p \in Process |-> IF p \in lost THEN {} ELSE candidates[p]]
      /\ due' = due \ lost
      /\ links' = {l \in links : l \cap lost = {}}
      /\ UNCHANGED chain

\* Time reaches next_renewal.
BecomesDue(p) ==
  /\ Running(p) /\ cli[p].seed
  /\ p \notin due
  /\ due' = due \cup {p}
  /\ UNCHANGED <<idVars, stage, cli, candidates, chain, links>>

\* An announcement expires, after its seed, if it runs, was due to renew it,
\* and, as it outlives a cycle, between the cycles of those who can read it.
Expires(a) ==
  /\ a \in chain \ Foreign
  /\ \A p \in Process : Running(p) /\ cli[p].seed /\ KeyOf(p) = a.record.key => p \in due
  /\ \A p \in Process : At(p, "dialing") /\ KeyOf(p) # a.record.key => ~Reads(p, a)
  /\ chain' = chain \ {a}
  /\ UNCHANGED <<idVars, stage, cli, candidates, due, links>>

Disconnects(l) ==
  /\ links' = links \ {l}
  /\ UNCHANGED <<idVars, stage, cli, candidates, due, chain>>

Init ==
  /\ IdInit
  /\ stage = [p \in Process |-> "down"]
  /\ cli = [p \in Process |-> NoCli]
  /\ candidates = [p \in Process |-> {}]
  /\ due = {}
  /\ chain = Foreign
  /\ links = {}

StartStep(p) ==
  \/ LoadsIdentity(p) \/ Checked(p) \/ StartRefused(p)
  \/ Serves(p) \/ ResourceFails(p)

TurnStep(p) ==
  ScanFinds(p) \/ ScanFails(p) \/ NobodyAnswers(p) \/ Announce(p) \/ AnnounceFails(p)

Next ==
  \/ \E p \in Process : Launch(p) \/ StartStep(p) \/ TurnStep(p) \/ Stops(p)
  \/ \E p, q \in Process : DialSucceeds(p, q)
  \/ \E p \in Process : Crash(p) \/ BecomesDue(p)
  \/ \E f \in Outages : LosesPower(f)
  \/ \E a \in chain : Expires(a)
  \/ \E l \in links : Disconnects(l)

Spec == Init /\ [][Next]_vars

\* A running node takes its turns and time passes.  A provider that is asked
\* again and again answers, an announcement lives longer than a scan takes, so
\* that some scan reads it, and a running peer that is dialed again and again
\* answers.
Scanned(p) == ScanFinds(p) /\ \E q \in Process \ {p} : Running(q) /\ KeyOf(q) \in candidates'[p]

FairSpec ==
  /\ Spec
  /\ \A p \in Process :
       /\ WF_vars(TurnStep(p))
       /\ WF_vars(BecomesDue(p))
       /\ SF_vars(Announce(p))
       /\ SF_vars(Scanned(p))
       /\ \A q \in Process \ {p} : SF_vars(DialSucceeds(p, q))
  /\ WF_vars(\E a \in chain : Expires(a))

-------------------------------------------------------------------------------
(***************************************************************************)
(* Properties                                                              *)
(***************************************************************************)
TypeOK ==
  /\ IdTypeOK
  /\ stage \in [Process -> {"down", "identity", "starting", "isolated", "dialing", "promoting"}]
  /\ DOMAIN cli = Process /\ DOMAIN candidates = Process
  /\ \A p \in Process :
       /\ cli[p] \in Options(p) \cup {NoCli}
       /\ At(p, "down") <=> cli[p] = NoCli
       /\ At(p, "down") <=> load[p] = NotLoading
  /\ due \subseteq {p \in Process : Running(p) /\ cli[p].seed}
  /\ links \subseteq {{p, q} : p, q \in Process}

\* What a seed has announced, every reader of its namespace accepts, with all
\* of its endpoints: a default reader if the seed applied the default policy,
\* and a reader of private overlays in any case (main.rs:188-195 against
\* endpoint_policy.rs:25-81 and signed_peer_record.rs:78-141).
AnnouncedAccepted ==
  \A p, q \in Process :
    Running(p) /\ cli[p].seed /\ Running(q) /\ Announcement(p) \in chain =>
      LET d == DescriptorOf(q)
      IN  \/ d.namespace # DescriptorOf(p).namespace
          \/ LIBP2P \notin ToSet(d.types)
          \/ cli[p].allowPrivate /\ ~cli[q].allowPrivate
          \/ Verdict(q, Announcement(p)) =
               {[type |-> LIBP2P, peer |-> KeyOf(p), endpoints |-> cli[p].advertise]}

\* The IPv4 address of a part, if it names one, plainly or mapped into IPv6.
Ip4Of(part) ==
  IF part.proto = "ip4" THEN {part.octets}
  ELSE IF part.proto = "ip6" THEN {Unmap(s) : s \in {x \in {part.segments} : IsMapped(x)}}
  ELSE {}

\* Whatever anybody publishes, a reader in any context accepts an envelope
\* only for the key that signed it, with endpoints that key signed, and under
\* the default policy none that names an unspecified, loopback or private IPv4
\* address, plainly or as an IPv4-mapped IPv6 one.  The policy looks into no
\* other IPv6 form that embeds an IPv4 address, such as NAT64 or 6to4
\* (docs/spec.md, sections 9.2 and 17; signed_peer_record.rs:78,
\* endpoint_policy.rs:83-113).
AcceptedSound ==
  \A p \in Process, a \in chain, context \in DialContext :
    Running(p) =>
      \A c \in Validate(a, DescriptorOf(p), cli[p].allowPrivate, context) :
        /\ c.endpoints # <<>>
        /\ c.type = LIBP2P =>
             /\ c.peer = a.record.signature.by
             /\ ToSet(c.endpoints) \subseteq ToSet(a.record.signature.input[3].addresses)
        /\ ~cli[p].allowPrivate =>
             \A e \in ToSet(c.endpoints) : \A part \in ToSet(e) : \A o \in Ip4Of(part) :
               ~Unspecified4(o) /\ ~Loopback4(o) /\ ~Private4(o)

\* A seed that can announce and a node that can read it.
Matching(p, q) ==
  /\ Running(p) /\ cli[p].seed /\ CanAnnounce(p)
  /\ Running(q) /\ KeyOf(q) # KeyOf(p)
  /\ DescriptorOf(q).namespace = DescriptorOf(p).namespace
  /\ LIBP2P \in ToSet(DescriptorOf(q).types)
  /\ cli[p].allowPrivate => cli[q].allowPrivate

\* The network comes back from nothing: a seed and a reader that stay up are
\* connected again and again, whatever was lost before (docs/spec.md, section
\* 15.1, through main.rs, registry.rs and the codecs).
Resurrects ==
  \A p, q \in Process : <>[]Matching(p, q) => []<>({p, q} \in links)
===============================================================================
