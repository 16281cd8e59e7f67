------------------------------- MODULE Behaviour -------------------------------
(***************************************************************************)
(* The connector for applications that own a libp2p Swarm                  *)
(* (crates/resurrect-libp2p/src/behaviour.rs): callers on other threads    *)
(* send dial requests over a bounded channel, and a NetworkBehaviour that  *)
(* the application's Swarm polls turns them into dials and resolves them.  *)
(*                                                                         *)
(* The Swarm dials and accepts connections of its own, which the behaviour *)
(* sees as well.  Everything the Swarm does is one thread; the callers run *)
(* beside it, so answering a waiter is a step.                             *)
(***************************************************************************)
EXTENDS Integers, Sequences, FiniteSets

CONSTANTS
  Peer, Caller,
  QueueDepth,   \* of the request channel; a zero is promoted to one
  MaxLinks,     \* bound of the model: connections to one peer
  Dropped       \* a waiter whose receiver has been dropped

ASSUME BehaviourAssumption ==
  QueueDepth \in Nat /\ MaxLinks \in Nat /\ Dropped \notin Caller

VARIABLES
  running,     \* the Swarm, and the behaviour with it, has not been dropped
  requests,    \* the channel of DialRequests
  waiters,     \* Behaviour.waiters: per peer, callers or dropped ones
  connected,   \* Behaviour.connected
  counted,     \* the set whose size connectivity.connected holds
  queue,       \* events the Swarm has not polled yet
  resolving,   \* waiters the current event has still to answer
  answer,      \* the answer it gives them
  attempts,    \* Swarm: peers being dialed
  links,       \* Swarm: number of established connections per peer
  call         \* where each caller's connect is

swarmVars == <<attempts, links>>
connectivityVars == <<connected, counted>>
behaviourVars == <<waiters, connectivityVars, queue, resolving, answer>>
vars == <<running, requests, behaviourVars, swarmVars, call>>

Idle == [state |-> "idle"]
At(c, state) == call[c].state = state
Goto(c, state) == call' = [call EXCEPT ![c].state = state]
Event(kind, p) == [kind |-> kind, peer |-> p]

Depth == IF QueueDepth = 0 THEN 1 ELSE QueueDepth

-------------------------------------------------------------------------------
(***************************************************************************)
(* Connector::connect                                                      *)
(***************************************************************************)
Connect(c, p) ==
  /\ call[c] = Idle
  /\ call' = [call EXCEPT ![c] = [state |-> "sending", peer |-> p]]
  /\ UNCHANGED <<running, requests, behaviourVars, swarmVars>>

\* dials.send(request).await completes; it waits while the channel is full.
Request(c) ==
  /\ At(c, "sending")
  /\ running /\ Len(requests) < Depth
  /\ requests' = Append(requests, [waiter |-> c, peer |-> call[c].peer])
  /\ Goto(c, "waiting")
  /\ UNCHANGED <<running, behaviourVars, swarmVars>>

\* connect returns: with the answer, or false because the Swarm is gone.
Returns(c) ==
  /\ At(c, "granted") \/ At(c, "refused") \/ (At(c, "sending") /\ ~running)
  /\ call' = [call EXCEPT ![c] = Idle]
  /\ UNCHANGED <<running, requests, behaviourVars, swarmVars>>

\* The timeout fires, or the controller drops the future: the receiver is gone,
\* wherever its sender is.
GivesUp(c) ==
  LET drop(w) == IF w = c THEN Dropped ELSE w
  IN  /\ At(c, "sending") \/ At(c, "waiting")
      /\ call' = [call EXCEPT ![c] = Idle]
      /\ requests' = [k \in DOMAIN requests |-> [requests[k] EXCEPT !.waiter = drop(@)]]
      /\ waiters' = [p \in Peer |-> [k \in DOMAIN waiters[p] |-> drop(waiters[p][k])]]
      /\ resolving' = [k \in DOMAIN resolving |-> drop(resolving[k])]
      /\ UNCHANGED <<running, connectivityVars, queue, answer, swarmVars>>

-------------------------------------------------------------------------------
(***************************************************************************)
(* resolve, reject and accept                                              *)
(***************************************************************************)
Free == running /\ resolving = <<>>

\* sender.send; the receiver may be gone.
Send(waiter, reply) ==
  IF waiter = Dropped THEN UNCHANGED call ELSE Goto(waiter, reply)

\* for waiter in waiters: waiter.send(dialed)
ResolveWaiter ==
  /\ running
  /\ resolving # <<>>
  /\ Send(Head(resolving), answer)
  /\ resolving' = Tail(resolving)
  /\ UNCHANGED <<running, requests, waiters, connectivityVars, queue, answer, swarmVars>>

\* Waiters of p, if there are any, begin to be answered and the event is queued.
Resolve(p, held, pushed, reply, kind) ==
  /\ waiters' = [waiters EXCEPT ![p] = <<>>]
  /\ IF held = <<>>
       THEN UNCHANGED <<resolving, answer>> /\ queue' = queue \o pushed
       ELSE /\ resolving' = held
            /\ answer' = reply
            /\ queue' = Append(queue \o pushed, Event(kind, p))

\* The default condition: neither connected nor being dialed.
SwarmAccepts(p) == links[p] = 0 /\ p \notin attempts

\* poll with nothing queued takes the next request.
Takes == Free /\ queue = <<>> /\ requests # <<>> /\ requests' = Tail(requests)

\* Another record type, an invalid peer id, or, for a peer that is not
\* connected, no address that parses.  The Rejected event leaves at once.
Reject ==
  /\ Takes
  /\ Send(Head(requests).waiter, "refused")
  /\ UNCHANGED <<running, behaviourVars, swarmVars>>

\* Faulty: a peer somebody is dialing passes for a connected one.
AlreadyConnectedOrDialing ==
  /\ Takes
  /\ Head(requests).peer \in connected \cup attempts
  /\ Send(Head(requests).waiter, "granted")
  /\ UNCHANGED <<running, behaviourVars, swarmVars>>

\* The peer is connected already: success without disturbing the Swarm.
AlreadyConnected ==
  /\ Takes
  /\ Head(requests).peer \in connected
  /\ Send(Head(requests).waiter, "granted")
  /\ UNCHANGED <<running, behaviourVars, swarmVars>>

\* The waiter is registered and the Dial leaves in the same poll; the Swarm
\* accepts it, and the Dialing event waits for the next poll.
Dial ==
  LET w == Head(requests).waiter
      p == Head(requests).peer
  IN  /\ Takes
      /\ p \notin connected
      /\ SwarmAccepts(p)
      /\ waiters' = [waiters EXCEPT ![p] = Append(@, w)]
      /\ attempts' = attempts \cup {p}
      /\ queue' = <<Event("Dialing", p)>>
      /\ UNCHANGED <<running, connectivityVars, resolving, answer, links, call>>

\* Faulty: a dial the Swarm refuses leaves its waiter behind.
DialRefusedSilently ==
  LET w == Head(requests).waiter
      p == Head(requests).peer
  IN  /\ Takes
      /\ p \notin connected
      /\ ~SwarmAccepts(p)
      /\ waiters' = [waiters EXCEPT ![p] = Append(@, w)]
      /\ queue' = <<Event("Dialing", p)>>
      /\ UNCHANGED <<running, connectivityVars, resolving, answer, swarmVars, call>>

\* The peer is being dialed: the Swarm reports a DialFailure at once, and
\* every waiter of the peer is answered with it, the earlier ones too.
DialRefused ==
  LET w == Head(requests).waiter
      p == Head(requests).peer
  IN  /\ Takes
      /\ p \notin connected
      /\ ~SwarmAccepts(p)
      /\ Resolve(p, Append(waiters[p], w), <<Event("Dialing", p)>>, "refused", "DialFailed")
      /\ UNCHANGED <<running, connectivityVars, swarmVars, call>>

\* poll hands a queued event to the application.
Emit ==
  /\ Free
  /\ queue # <<>>
  /\ queue' = Tail(queue)
  /\ UNCHANGED <<running, requests, waiters, connectivityVars, resolving, answer, swarmVars, call>>

-------------------------------------------------------------------------------
(***************************************************************************)
(* on_swarm_event                                                          *)
(***************************************************************************)

\* ConnectionEstablished: the count is stored, then the waiters are woken.
Established(p) ==
  /\ links[p] < MaxLinks
  /\ links' = [links EXCEPT ![p] = @ + 1]
  /\ connected' = connected \cup {p}
  /\ counted' = IF p \in connected THEN counted ELSE connected'
  /\ Resolve(p, waiters[p], <<>>, "granted", "Connected")

DialSucceeds(p) ==
  /\ Free
  /\ p \in attempts
  /\ attempts' = attempts \ {p}
  /\ Established(p)
  /\ UNCHANGED <<running, requests, call>>

\* Somebody connects to us.
Inbound(p) ==
  /\ Free
  /\ Established(p)
  /\ UNCHANGED <<running, requests, attempts, call>>

DialFails(p) ==
  /\ Free
  /\ p \in attempts
  /\ attempts' = attempts \ {p}
  /\ Resolve(p, waiters[p], <<>>, "refused", "DialFailed")
  /\ UNCHANGED <<running, requests, connectivityVars, links, call>>

\* Faulty: the count drops with any connection of the peer.
ClosedAny(p) ==
  /\ Free
  /\ links[p] > 0
  /\ links' = [links EXCEPT ![p] = @ - 1]
  /\ connected' = connected \ {p}
  /\ counted' = connected'
  /\ UNCHANGED <<running, requests, waiters, queue, resolving, answer, attempts, call>>

\* ConnectionClosed; only the last connection of a peer counts.
Closed(p) ==
  /\ Free
  /\ links[p] > 0
  /\ links' = [links EXCEPT ![p] = @ - 1]
  /\ connected' = IF links[p] = 1 THEN connected \ {p} ELSE connected
  /\ counted' = IF links[p] = 1 THEN connected' ELSE counted
  /\ UNCHANGED <<running, requests, waiters, queue, resolving, answer, attempts, call>>

\* The application dials a peer itself, under the default condition: neither
\* connected nor being dialed.
ApplicationDials(p) ==
  /\ Free
  /\ SwarmAccepts(p)
  /\ attempts' = attempts \cup {p}
  /\ UNCHANGED <<running, requests, behaviourVars, links, call>>

\* The Swarm is dropped between two polls, and with it every sender.
DropSwarm ==
  /\ Free
  /\ running' = FALSE
  /\ requests' = <<>>
  /\ waiters' = [p \in Peer |-> <<>>]
  /\ queue' = <<>>
  /\ attempts' = {}
  /\ links' = [p \in Peer |-> 0]
  /\ call' = [c \in Caller |->
       IF At(c, "waiting") THEN [state |-> "refused", peer |-> call[c].peer] ELSE call[c]]
  /\ UNCHANGED <<connectivityVars, resolving, answer>>

-------------------------------------------------------------------------------
Init ==
  /\ running = TRUE
  /\ requests = <<>>
  /\ waiters = [p \in Peer |-> <<>>]
  /\ connected = {}
  /\ counted = {}
  /\ queue = <<>>
  /\ resolving = <<>>
  /\ answer = "refused"
  /\ attempts = {}
  /\ links = [p \in Peer |-> 0]
  /\ call = [c \in Caller |-> Idle]

CallerStep(c) == Request(c) \/ Returns(c) \/ GivesUp(c)

Poll == Reject \/ AlreadyConnected \/ Dial \/ DialRefused \/ Emit \/ ResolveWaiter

SwarmEvent(p) ==
  DialSucceeds(p) \/ Inbound(p) \/ DialFails(p) \/ Closed(p) \/ ApplicationDials(p)

Next ==
  \/ \E c \in Caller, p \in Peer : Connect(c, p)
  \/ \E c \in Caller : CallerStep(c)
  \/ Poll
  \/ \E p \in Peer : SwarmEvent(p)
  \/ DropSwarm

Spec == Init /\ [][Next]_vars

-------------------------------------------------------------------------------
(***************************************************************************)
(* Properties                                                              *)
(***************************************************************************)
Waiter == Caller \cup {Dropped}

TypeOK ==
  /\ running \in BOOLEAN
  /\ requests \in Seq([waiter : Waiter, peer : Peer])
  /\ waiters \in [Peer -> Seq(Waiter)]
  /\ connected \subseteq Peer /\ counted \subseteq Peer
  /\ queue \in Seq([kind : {"Dialing", "Connected", "DialFailed"}, peer : Peer])
  /\ resolving \in Seq(Waiter)
  /\ answer \in {"granted", "refused"}
  /\ attempts \subseteq Peer
  /\ links \in [Peer -> Nat]
  /\ call \in [Caller -> {Idle} \cup
       [state : {"sending", "waiting", "granted", "refused"}, peer : Peer]]

\* No waiter is forgotten: each waits for an attempt that will answer it, at
\* most one per peer, although nothing removes a waiter that timed out and the
\* application dials the same peers (accept and on_swarm_event).
WaitersServed ==
  \A p \in Peer :
    /\ Len(waiters[p]) <= 1
    /\ waiters[p] # <<>> => p \in attempts /\ p \notin connected

\* The count the controller compares with its target is the number of peers
\* the Swarm is connected to, with parallel connections counted once
\* (behaviour.rs:254-276).
CountAccurate == running => counted = {p \in Peer : links[p] > 0}

(***************************************************************************)
(* The behaviour implements the connector the controller relies on:        *)
(* connect returns true only for a peer that was counted during the call   *)
(* ("Publish connectivity before waking the waiter", behaviour.rs:263).    *)
(***************************************************************************)
AbstractCall(c) ==
  IF call[c] = Idle THEN Idle
  ELSE [state |-> IF At(c, "granted") \/ At(c, "refused") THEN call[c].state ELSE "open",
        peer |-> call[c].peer]

Promise == INSTANCE Connector WITH up <- counted, call <- [c \in Caller |-> AbstractCall(c)]

ImplementsConnector == Promise!Spec
===============================================================================
