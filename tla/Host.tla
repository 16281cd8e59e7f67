---------------------------------- MODULE Host ----------------------------------
(***************************************************************************)
(* The native libp2p host (crates/resurrect-node/src/p2p.rs): one event    *)
(* loop that owns the swarm, and callers on other threads that reach it    *)
(* through a bounded command channel, wait on oneshot channels and read a  *)
(* published snapshot of the connected peers.                              *)
(*                                                                         *)
(* The event loop handles one command or swarm event at a time, but the    *)
(* callers run during a handler, so completing a waiter is a step.         *)
(***************************************************************************)
EXTENDS Integers, Sequences, FiniteSets

CONSTANTS
  Peer, Caller,
  Unsupported,  \* peers of another record type, or with an id that is no PeerId
  Capacity,     \* of the command channel (64)
  MaxLinks,     \* bound of the model: connections to one peer
  Dropped       \* a waiter whose receiver has been dropped

ASSUME HostAssumption ==
  Unsupported \subseteq Peer /\ Capacity \in Nat \ {0} /\ MaxLinks \in Nat /\ Dropped \notin Caller

VARIABLES
  running,     \* the event loop has not stopped
  commands,    \* the channel: dials, prunes and a shutdown
  attempts,    \* swarm: outbound attempts
  links,       \* swarm: number of established connections per peer
  connected,   \* the event loop's HashSet
  published,   \* connected_peers of the watch channel
  pending,     \* dial waiters of each peer: open callers or dropped ones
  completing,  \* waiters the current handler has still to answer
  answer,      \* the answer the current handler gives them
  call         \* where each caller's connect is

swarmVars == <<attempts, links>>
loopVars == <<connected, published, pending, completing, answer>>
vars == <<running, commands, swarmVars, loopVars, call>>

Idle == [state |-> "idle"]
Prune == [kind |-> "prune"]
Shutdown == [kind |-> "shutdown"]
Dial(c, p) == [kind |-> "dial", waiter |-> c, peer |-> p]

At(c, state) == call[c].state = state
Goto(c, state) == call' = [call EXCEPT ![c].state = state]
Return(c) == call' = [call EXCEPT ![c] = Idle]
Room == Len(commands) < Capacity

\* The caller's receiver is gone, wherever its sender is.
DropReceiver(c) ==
  LET drop(w) == IF w = c THEN Dropped ELSE w
  IN  /\ commands' = [k \in DOMAIN commands |->
           IF commands[k].kind = "dial"
             THEN [commands[k] EXCEPT !.waiter = drop(@)] ELSE commands[k]]
      /\ pending' = [p \in Peer |-> [k \in DOMAIN pending[p] |-> drop(pending[p][k])]]
      /\ completing' = [k \in DOMAIN completing |-> drop(completing[k])]

-------------------------------------------------------------------------------
(***************************************************************************)
(* Libp2pHostHandle::connect                                               *)
(***************************************************************************)
Connect(c, p) ==
  /\ call[c] = Idle
  /\ call' = [call EXCEPT ![c] = [state |-> "sending", peer |-> p]]
  /\ UNCHANGED <<running, commands, swarmVars, loopVars>>

\* commands.send(Dial).await completes; it waits while the channel is full.
SendDial(c) ==
  /\ At(c, "sending")
  /\ running /\ Room
  /\ commands' = Append(commands, Dial(c, call[c].peer))
  /\ Goto(c, "waiting")
  /\ UNCHANGED <<running, swarmVars, loopVars>>

\* The channel is closed: connect returns false.
SendFails(c) ==
  /\ At(c, "sending")
  /\ ~running
  /\ Return(c)
  /\ UNCHANGED <<running, commands, swarmVars, loopVars>>

\* The answer arrived before the timeout: connect returns it.
Answered(c) ==
  /\ At(c, "granted") \/ At(c, "refused")
  /\ Return(c)
  /\ UNCHANGED <<running, commands, swarmVars, loopVars>>

\* The timeout fires first, and drops the receiver.
TimesOut(c) ==
  /\ At(c, "waiting")
  /\ Goto(c, "pruning")
  /\ DropReceiver(c)
  /\ UNCHANGED <<running, swarmVars, connected, published, answer>>

\* Faulty: a closed channel is waited for.
SendPruneAlways(c) ==
  /\ At(c, "pruning")
  /\ running /\ Room
  /\ commands' = Append(commands, Prune)
  /\ Return(c)
  /\ UNCHANGED <<running, swarmVars, loopVars>>

\* commands.send(PruneDialWaiters).await completes or fails; connect returns
\* false.
SendPrune(c) ==
  /\ At(c, "pruning")
  /\ \/ running /\ Room /\ commands' = Append(commands, Prune)
     \/ ~running /\ UNCHANGED commands
  /\ Return(c)
  /\ UNCHANGED <<running, swarmVars, loopVars>>

\* The controller reached its target and drops the future, at any await.
Abandon(c) ==
  /\ call[c] # Idle
  /\ Return(c)
  /\ DropReceiver(c)
  /\ UNCHANGED <<running, swarmVars, connected, published, answer>>

-------------------------------------------------------------------------------
(***************************************************************************)
(* EventLoop::handle_command                                               *)
(***************************************************************************)
Free == running /\ completing = <<>>

Takes(kind) ==
  /\ Free
  /\ commands # <<>>
  /\ Head(commands).kind = kind
  /\ commands' = Tail(commands)

\* sender.send; the receiver may be gone.
Send(waiter, reply) ==
  IF waiter = Dropped THEN UNCHANGED call ELSE Goto(waiter, reply)

\* swarm.dial with the default condition: neither connected nor dialing.
SwarmAccepts(p) == links[p] = 0 /\ p \notin attempts

\* Faulty: the waiter is registered before the dial and left there if the
\* swarm refuses it.
HandleDialRegistersFirst ==
  /\ Takes("dial")
  /\ LET w == Head(commands).waiter
         p == Head(commands).peer
     IN  \/ /\ p \in connected
            /\ Send(w, "granted")
            /\ UNCHANGED <<attempts, pending>>
         \/ /\ p \notin connected
            /\ attempts' = attempts \cup {p}
            /\ pending' = [pending EXCEPT ![p] = Append(@, w)]
            /\ UNCHANGED call
  /\ UNCHANGED <<running, links, connected, published, completing, answer>>

\* dial.  The first refusal is for an unsupported record type or a peer id that
\* does not parse, connected or not; the second for a candidate without an
\* address that parses, or because the swarm refuses.
HandleDial ==
  /\ Takes("dial")
  /\ LET w == Head(commands).waiter
         p == Head(commands).peer
     IN  \/ /\ p \in Unsupported
            /\ Send(w, "refused")
            /\ UNCHANGED <<attempts, pending>>
         \/ /\ p \notin Unsupported /\ p \in connected
            /\ Send(w, "granted")
            /\ UNCHANGED <<attempts, pending>>
         \/ /\ p \notin Unsupported /\ p \notin connected /\ SwarmAccepts(p)
            /\ attempts' = attempts \cup {p}
            /\ pending' = [pending EXCEPT ![p] = Append(@, w)]
            /\ UNCHANGED call
         \/ /\ p \notin Unsupported /\ p \notin connected
            /\ Send(w, "refused")
            /\ UNCHANGED <<attempts, pending>>
  /\ UNCHANGED <<running, links, connected, published, completing, answer>>

\* The waiters in s with a live receiver, in their order.
Retain(s) ==
  LET live == {k \in DOMAIN s : s[k] # Dropped}
  IN  [n \in 1..Cardinality(live) |->
         s[CHOOSE k \in live : Cardinality({j \in live : j <= k}) = n]]

HandlePrune ==
  /\ Takes("prune")
  /\ pending' = [p \in Peer |-> Retain(pending[p])]
  /\ UNCHANGED <<running, swarmVars, connected, published, completing, answer, call>>

\* The loop ends.  Every sender it holds, those in the channel included, is
\* dropped, so receivers see an error.
HandleShutdown ==
  /\ Free
  /\ commands # <<>> /\ Head(commands) = Shutdown
  /\ commands' = <<>>
  /\ running' = FALSE
  /\ pending' = [p \in Peer |-> <<>>]
  /\ attempts' = {}
  /\ links' = [p \in Peer |-> 0]
  /\ call' = [c \in Caller |-> IF At(c, "waiting") THEN [call[c] EXCEPT !.state = "refused"]
                                                  ELSE call[c]]
  /\ UNCHANGED <<connected, published, completing, answer>>

\* Libp2pHost::shutdown, by whoever owns the host.
RequestShutdown ==
  /\ running /\ Room
  /\ Shutdown \notin {commands[k] : k \in DOMAIN commands}
  /\ commands' = Append(commands, Shutdown)
  /\ UNCHANGED <<running, swarmVars, loopVars, call>>

-------------------------------------------------------------------------------
(***************************************************************************)
(* EventLoop::handle_swarm                                                 *)
(***************************************************************************)

\* Hand the waiters of p over to the completion steps.
Complete(p, reply) ==
  /\ completing' = pending[p]
  /\ answer' = reply
  /\ pending' = [pending EXCEPT ![p] = <<>>]

\* Faulty: the waiters are answered before the snapshot goes out.
EstablishedUnpublished(p) ==
  /\ connected' = connected \cup {p}
  /\ UNCHANGED published
  /\ Complete(p, "granted")

\* ConnectionEstablished: the snapshot goes out before any waiter is answered.
Established(p) ==
  /\ connected' = connected \cup {p}
  /\ published' = connected'
  /\ Complete(p, "granted")

DialSucceeds(p) ==
  /\ Free
  /\ p \in attempts /\ links[p] < MaxLinks
  /\ attempts' = attempts \ {p}
  /\ links' = [links EXCEPT ![p] = @ + 1]
  /\ Established(p)
  /\ UNCHANGED <<running, commands, call>>

Accept(p) ==
  /\ Free
  /\ links[p] < MaxLinks
  /\ links' = [links EXCEPT ![p] = @ + 1]
  /\ Established(p)
  /\ UNCHANGED <<running, commands, attempts, call>>

\* OutgoingConnectionError.
DialFails(p) ==
  /\ Free
  /\ p \in attempts
  /\ attempts' = attempts \ {p}
  /\ Complete(p, "refused")
  /\ UNCHANGED <<running, commands, links, connected, published, call>>

\* Faulty: any connection that closes takes the peer with it.
CloseAny(p) ==
  /\ Free
  /\ links[p] > 0
  /\ links' = [links EXCEPT ![p] = @ - 1]
  /\ connected' = connected \ {p}
  /\ published' = connected'
  /\ UNCHANGED <<running, commands, attempts, pending, completing, answer, call>>

\* ConnectionClosed; only the last connection of a peer counts.
Close(p) ==
  /\ Free
  /\ links[p] > 0
  /\ links' = [links EXCEPT ![p] = @ - 1]
  /\ connected' = IF links[p] = 1 THEN connected \ {p} ELSE connected
  /\ published' = IF links[p] = 1 THEN connected' ELSE published
  /\ UNCHANGED <<running, commands, attempts, pending, completing, answer, call>>

\* for waiter in waiters: waiter.send(answer)
CompleteWaiter ==
  /\ running
  /\ completing # <<>>
  /\ Send(Head(completing), answer)
  /\ completing' = Tail(completing)
  /\ UNCHANGED <<running, commands, swarmVars, connected, published, pending, answer>>

Init ==
  /\ running = TRUE
  /\ commands = <<>>
  /\ attempts = {}
  /\ links = [p \in Peer |-> 0]
  /\ connected = {}
  /\ published = {}
  /\ pending = [p \in Peer |-> <<>>]
  /\ completing = <<>>
  /\ answer = "refused"
  /\ call = [c \in Caller |-> Idle]

CallerStep(c) ==
  SendDial(c) \/ SendFails(c) \/ Answered(c) \/ TimesOut(c) \/ SendPrune(c)

LoopStep == HandleDial \/ HandlePrune \/ HandleShutdown \/ CompleteWaiter

SwarmEvent(p) == DialSucceeds(p) \/ Accept(p) \/ DialFails(p) \/ Close(p)

Next ==
  \/ \E c \in Caller, p \in Peer : Connect(c, p)
  \/ \E c \in Caller : CallerStep(c)
  \/ \E c \in Caller : Abandon(c)
  \/ RequestShutdown
  \/ LoopStep
  \/ \E p \in Peer : SwarmEvent(p)

Spec == Init /\ [][Next]_vars

\* The runtime schedules the loop and every caller; senders that wait for room
\* in the channel are served in turn.
FairSpec ==
  /\ Spec
  /\ WF_vars(LoopStep)
  /\ \A c \in Caller :
       /\ WF_vars(TimesOut(c))
       /\ WF_vars(Answered(c))
       /\ WF_vars(SendFails(c))
       /\ SF_vars(SendDial(c))
       /\ SF_vars(SendPrune(c))

-------------------------------------------------------------------------------
(***************************************************************************)
(* Properties                                                              *)
(***************************************************************************)
Command == [kind : {"dial"}, waiter : Caller \cup {Dropped}, peer : Peer] \cup {Prune, Shutdown}

TypeOK ==
  /\ running \in BOOLEAN
  /\ commands \in Seq(Command)
  /\ attempts \subseteq Peer
  /\ links \in [Peer -> Nat]
  /\ connected \subseteq Peer /\ published \subseteq Peer
  /\ pending \in [Peer -> Seq(Caller \cup {Dropped})]
  /\ completing \in Seq(Caller \cup {Dropped})
  /\ answer \in {"granted", "refused"}
  /\ call \in [Caller -> {Idle} \cup
       [state : {"sending", "waiting", "pruning", "granted", "refused"}, peer : Peer]]

\* A stalled transport cannot accumulate waiters, pruned or not: at most one
\* per peer, and only while an attempt to it is open that will answer it
\* (dial and handle_swarm, p2p.rs:380-453; the comment at p2p.rs:243).
WaitersBounded ==
  \A p \in Peer :
    /\ Len(pending[p]) <= 1
    /\ pending[p] # <<>> => p \in attempts

\* The snapshot the controller counts is the swarm's set of connected peers,
\* with simultaneous connections to one peer counted once (p2p.rs:420-440).
SnapshotAccurate == running => published = {p \in Peer : links[p] > 0}

\* Every connect returns, also when the host stops under it or the channel is
\* full of other callers' commands (p2p.rs:230-248).
ConnectReturns == \A c \in Caller : call[c] # Idle ~> call[c] = Idle

(***************************************************************************)
(* The host implements the connector the controller relies on: connect     *)
(* returns true only for a peer the snapshot showed during the call        *)
(* (the order publish_status, waiter.send at p2p.rs:423-431).              *)
(***************************************************************************)
AbstractCall(c) ==
  IF call[c] = Idle THEN Idle
  ELSE [state |-> IF At(c, "granted") THEN "granted"
                  ELSE IF At(c, "refused") THEN "refused" ELSE "open",
        peer |-> call[c].peer]

Promise == INSTANCE Connector WITH up <- published, call <- [c \in Caller |-> AbstractCall(c)]

ImplementsConnector == Promise!Spec
===============================================================================
