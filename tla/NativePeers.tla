------------------------------- MODULE NativePeers -------------------------------
(***************************************************************************)
(* The native side of the libp2p host (crates/resurrect-node/src/p2p.rs):  *)
(* its start, the map of natively discovered peers that configured peers,  *)
(* mDNS and identify feed, the published status, and the task that waits   *)
(* for a listener, asks for candidates, reports verified peers and shuts   *)
(* the host down.  Dials are the subject of Host; here they only take up   *)
(* room in the command channel.                                            *)
(*                                                                         *)
(* The event loop runs one handler at a time.  The task runs on another    *)
(* thread: it and the loop interleave at every read, send and await.       *)
(***************************************************************************)
EXTENDS Integers, Sequences, FiniteSets

CONSTANTS
  Peer, Address,
  Listener,   \* addresses to listen on
  Configured, \* the values --native-peer may have: sets of [peer, address]
  Capacity    \* of the command channel (64)

ASSUME CapacityAssumption == Capacity \in Nat \ {0}

VARIABLES
  loop,       \* the event loop: "none", "running" or "stopped"
  accepted,   \* swarm: listeners that listen_on accepted
  listening,  \* listen_addresses
  native,     \* native, a partial function from peers to sets of addresses
  verified,   \* peers of the verified map
  published,  \* the watch channel's value
  unseen,     \* the receiver has not seen that value
  commands,   \* the command channel
  main,       \* where the task is
  reply,      \* the oneshot channel it awaits: "none", or what has been sent
  bare        \* history: peers that identify reported without an address

loopVars == <<accepted, listening, native, verified, published, bare>>
vars == <<loop, loopVars, unseen, commands, main, reply>>

NoPeers == [p \in {} |-> {}]
NoReply == [sent |-> FALSE]
Room == Len(commands) < Capacity
Known == DOMAIN native

\* The task takes a step that the host does not notice.
MainStep(from, to) ==
  /\ main = from
  /\ main' = to
  /\ UNCHANGED <<loop, loopVars, commands>>

Status(listeners, peers) == [listening |-> listeners, native |-> Cardinality(DOMAIN peers)]

\* publish_status: send_replace marks the value unseen.
Publish ==
  /\ published' = Status(listening', native')
  /\ unseen' = TRUE

\* The loop's end drops the receiver, with every command and sender in it, and
\* the sender of the status.
Stop == loop' = "stopped" /\ commands' = <<>>

\* run returns the error, and the process ends.
Fails ==
  /\ main' = "failed"
  /\ Stop
  /\ UNCHANGED <<loopVars, unseen, reply>>

-------------------------------------------------------------------------------
(***************************************************************************)
(* Libp2pHost::start                                                       *)
(***************************************************************************)

\* split_configured_peer: a peer id at the end, and an address before it.
Splits(configured) == \A c \in configured : c.peer \in Peer /\ c.address \in Address

Of(p, pairs) == {c.address : c \in {x \in pairs : x.peer = p}}
PeersOf(pairs) == {c.peer : c \in pairs}

\* The map with an entry for every one of peers and the addresses of pairs.
Reported(map, pairs, peers) ==
  [p \in DOMAIN map \cup peers |-> (IF p \in DOMAIN map THEN map[p] ELSE {}) \cup Of(p, pairs)]

Start(configured, ok) ==
  /\ main = "start" /\ main' = "checking"
  /\ Splits(configured)
  /\ ok # {}
  /\ accepted' = ok
  /\ native' = Reported(NoPeers, configured, PeersOf(configured))
  /\ loop' = "running"
  /\ UNCHANGED <<listening, verified, published, unseen, commands, reply, bare>>

\* A configured peer is malformed, the swarm cannot be built, or no listener
\* is accepted.
StartFails == main = "start" /\ Fails

-------------------------------------------------------------------------------
(***************************************************************************)
(* Libp2pHostHandle::wait_for_listener                                     *)
(***************************************************************************)
ListenerSeen ==
  published.listening # {} /\ MainStep("checking", "serving") /\ UNCHANGED <<unseen, reply>>

NoListenerYet ==
  published.listening = {} /\ MainStep("checking", "changed") /\ UNCHANGED <<unseen, reply>>

\* Faulty: a value published between the read and the wait counts as seen.
StatusChangedInVain ==
  /\ unseen /\ unseen' = FALSE
  /\ \E to \in {"checking", "changed"} : MainStep("changed", to)
  /\ UNCHANGED reply

\* changed() returns once there is a value that was not seen.
StatusChanged ==
  /\ unseen /\ unseen' = FALSE
  /\ MainStep("changed", "checking")
  /\ UNCHANGED reply

\* The sender is gone, and every value has been seen.
StatusClosed == main = "changed" /\ ~unseen /\ loop = "stopped" /\ Fails

ListenTimeout == main = "changed" /\ Fails

-------------------------------------------------------------------------------
(***************************************************************************)
(* NativePeerSource and shutdown, called by the supervisor's task          *)
(***************************************************************************)

\* discover, once its observation interval is over, add_verified or shutdown.
Calls(kind) == MainStep("serving", kind) /\ UNCHANGED <<unseen, reply>>

\* commands.send(..).await completes.
Sends(kind, command, then) ==
  /\ main = kind /\ main' = then
  /\ loop = "running" /\ Room
  /\ commands' = Append(commands, command)
  /\ UNCHANGED <<loop, loopVars, unseen, reply>>

SendsAsk == Sends("asking", [kind |-> "candidates"], "asked")
SendsVerified == \E p \in Peer : Sends("adding", [kind |-> "verified", peer |-> p], "serving")
SendsShutdown == Sends("stopping", [kind |-> "shutdown"], "stopped")

\* The channel is closed: discover and add_verified return Stopped, shutdown
\* goes on.
SendFails ==
  /\ loop = "stopped"
  /\ \/ \E kind \in {"asking", "adding"} : MainStep(kind, "serving")
     \/ MainStep("stopping", "joining")
  /\ UNCHANGED <<unseen, reply>>

Queued(kind) == \E i \in DOMAIN commands : commands[i].kind = kind

\* The answer is there, or its sender was dropped with the command.
Returns ==
  /\ \/ (reply.sent \/ ~Queued("candidates")) /\ MainStep("asked", "serving")
     \/ (reply.sent \/ ~Queued("shutdown")) /\ MainStep("stopped", "joining")
  /\ reply' = NoReply
  /\ UNCHANGED unseen

\* Libp2pHost::shutdown awaits the loop's task.
Joins == loop = "stopped" /\ MainStep("joining", "ended") /\ UNCHANGED <<unseen, reply>>

-------------------------------------------------------------------------------
(***************************************************************************)
(* EventLoop                                                               *)
(***************************************************************************)
Takes(kind) ==
  /\ loop = "running" /\ UNCHANGED <<loop, main>>
  /\ commands # <<>> /\ Head(commands).kind = kind
  /\ commands' = Tail(commands)

\* Faulty: the answer waits for a first peer.
HandleCandidatesLater ==
  /\ Takes("candidates")
  /\ Known # {}
  /\ reply' = [sent |-> TRUE, value |-> native]
  /\ UNCHANGED <<loopVars, unseen>>

\* native_candidates, sent through the oneshot.
HandleCandidates ==
  /\ Takes("candidates")
  /\ reply' = [sent |-> TRUE, value |-> native]
  /\ UNCHANGED <<loopVars, unseen>>

HandleVerified ==
  /\ Takes("verified")
  /\ verified' = verified \cup {Head(commands).peer}
  /\ UNCHANGED <<accepted, listening, native, bare, reply>>
  /\ Publish

\* A dial or a prune.
HandleOther == Takes("other") /\ UNCHANGED <<loopVars, unseen, reply>>

HandleShutdown ==
  /\ loop = "running"
  /\ commands # <<>> /\ Head(commands).kind = "shutdown"
  /\ reply' = [sent |-> TRUE]
  /\ Stop
  /\ UNCHANGED <<loopVars, unseen, main>>

\* The task of the loop panics.
Panics ==
  /\ loop = "running"
  /\ Stop
  /\ UNCHANGED <<loopVars, unseen, main, reply>>

\* An event of the swarm that ends in publish_status.
Event ==
  /\ loop = "running"
  /\ Publish
  /\ UNCHANGED <<loop, accepted, verified, commands, main, reply>>

NewListenAddr(l) ==
  /\ l \in accepted
  /\ listening' = listening \cup {l}
  /\ UNCHANGED <<native, bare>>
  /\ Event

ExpiredListenAddr(l) ==
  /\ l \in listening
  /\ listening' = listening \ {l}
  /\ UNCHANGED <<native, bare>>
  /\ Event

\* mDNS
Discovered(pairs) ==
  /\ native' = Reported(native, pairs, PeersOf(pairs))
  /\ UNCHANGED <<listening, bare>>
  /\ Event

\* Faulty: a peer without addresses stays in the map.
ExpiredKeepsPeer(pairs) ==
  /\ native' = [p \in Known |-> native[p] \ Of(p, pairs)]
  /\ UNCHANGED <<listening, bare>>
  /\ Event

\* Addresses of known peers are removed, whoever reported them, and a peer
\* that was named and has none left with them.
Expired(pairs) ==
  /\ native' =
       [p \in {x \in Known : x \notin PeersOf(pairs) \/ native[x] \ Of(x, pairs) # {}} |->
          native[p] \ Of(p, pairs)]
  /\ bare' = bare \cap DOMAIN native'
  /\ UNCHANGED listening
  /\ Event

\* Faulty: the status is not published.
ReceivedQuietly(p, addresses) ==
  /\ loop = "running"
  /\ native' = Reported(native, [peer : {p}, address : addresses], {p})
  /\ bare' = IF p \in Known \/ addresses # {} THEN bare ELSE bare \cup {p}
  /\ UNCHANGED <<loop, accepted, listening, verified, published, unseen, commands, main, reply>>

\* identify: a peer's own listen addresses, possibly none.
Received(p, addresses) ==
  /\ native' = Reported(native, [peer : {p}, address : addresses], {p})
  /\ bare' = IF p \in Known \/ addresses # {} THEN bare ELSE bare \cup {p}
  /\ UNCHANGED listening
  /\ Event

\* A connect of the controller puts a dial or a prune into the channel.
OtherSends ==
  /\ loop = "running" /\ Room
  /\ main \notin {"checking", "changed"}
  /\ commands' = Append(commands, [kind |-> "other"])
  /\ UNCHANGED <<loop, loopVars, unseen, main, reply>>

\* The process has ended.
Ended == main \in {"ended", "failed"} /\ UNCHANGED vars

-------------------------------------------------------------------------------
Init ==
  /\ loop = "none" /\ main = "start"
  /\ accepted = {} /\ listening = {} /\ verified = {} /\ bare = {}
  /\ native = NoPeers
  /\ published = Status({}, NoPeers) /\ unseen = FALSE
  /\ commands = <<>> /\ reply = NoReply

\* The task goes on, but for its timeout and its choice of the next call.
Goes ==
  \/ ListenerSeen \/ NoListenerYet \/ StatusChanged \/ StatusClosed
  \/ SendsAsk \/ SendsShutdown \/ SendsVerified
  \/ SendFails \/ Returns \/ Joins

CommandStep == HandleCandidates \/ HandleVerified \/ HandleOther \/ HandleShutdown

SwarmStep ==
  \/ \E l \in Listener : NewListenAddr(l) \/ ExpiredListenAddr(l)
  \/ \E pairs \in SUBSET [peer : Peer, address : Address] : Discovered(pairs) \/ Expired(pairs)
  \/ \E p \in Peer, addresses \in SUBSET Address : Received(p, addresses)

Next ==
  \/ \E configured \in Configured, ok \in SUBSET Listener : Start(configured, ok)
  \/ StartFails
  \/ Goes \/ ListenTimeout
  \/ \E kind \in {"asking", "adding", "stopping"} : Calls(kind)
  \/ CommandStep \/ SwarmStep \/ Panics \/ OtherSends
  \/ Ended

Spec == Init /\ [][Next]_vars

\* The task's thread runs.  select! chooses among the branches that are ready
\* at random, so that a command is handled whatever the swarm reports; a full
\* channel has room again and again, and its senders are served in turn.
FairSpec ==
  /\ Spec
  /\ WF_vars(Goes) /\ WF_vars(CommandStep)
  /\ SF_vars(SendsAsk) /\ SF_vars(SendsShutdown) /\ SF_vars(SendsVerified)

-------------------------------------------------------------------------------
(***************************************************************************)
(* Properties                                                              *)
(***************************************************************************)
TypeOK ==
  /\ loop \in {"none", "running", "stopped"}
  /\ listening \subseteq accepted /\ accepted \subseteq Listener
  /\ Known \subseteq Peer /\ \A p \in Known : native[p] \subseteq Address
  /\ verified \subseteq Peer
  /\ Len(commands) <= Capacity
  /\ main \in {"start", "checking", "changed", "serving", "asking", "adding", "stopping",
               "asked", "stopped", "joining", "ended", "failed"}
  /\ reply.sent => main \in {"asked", "stopped"}

\* From the first listener on, whoever reads the status sees the listeners and
\* the number of native peers as they are: the value that the channel starts
\* with, which leaves the configured peers out, is never read past
\* wait_for_listener (p2p.rs:135-144, 173-188, 507-523).
StatusCurrent ==
  loop = "running" /\ main \notin {"start", "checking", "changed"} =>
    published = Status(listening, native)

\* A native candidate has an endpoint to dial, unless identify alone reported
\* its peer, and with no address (p2p.rs:453-480 against dial, 393-401).
CandidatesDialable ==
  \A p \in Known : native[p] = {} => p \in bare

\* A listener that comes up is noticed, without the help of the timeout, if it
\* stays: no status is published in vain between the read of the status and
\* the wait for a change (wait_for_listener, p2p.rs:173-188).
ListenerNoticed ==
  main \in {"checking", "changed"} /\ listening # {} ~>
    main \notin {"checking", "changed"} \/ listening = {}

\* Every call into the host returns, also if the channel is full or the loop
\* ends with the call's command still queued (p2p.rs:195-221, 271-288).
CallsReturn ==
  main \in {"asking", "adding", "stopping"} ~> main \in {"serving", "ended"}
===============================================================================
