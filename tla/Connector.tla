------------------------------- MODULE Connector -------------------------------
(***************************************************************************)
(* What the bootstrap controller is promised by a PeerConnector            *)
(* (crates/resurrect-bootstrap/src/lib.rs, trait PeerConnector): calls to  *)
(* connect run concurrently, each returns true or false, and one returns   *)
(* true only if the peer was up, visibly to connected_peers, during it.    *)
(***************************************************************************)
CONSTANTS Peer, Caller

VARIABLES
  up,    \* the peers connected_peers counts
  call   \* call[c]: what caller c waits for

connectorVars == <<up, call>>

Idle == [state |-> "idle"]
Calls == {Idle} \cup [state : {"open", "granted", "refused"}, peer : Peer]

Connects(p) == up' = up \cup {p} /\ UNCHANGED call
Disconnects(p) == up' = up \ {p} /\ UNCHANGED call

Connect(c, p) ==
  /\ call[c] = Idle
  /\ call' = [call EXCEPT ![c] = [state |-> "open", peer |-> p]]
  /\ UNCHANGED up

\* The call will return true.
Grant(c) ==
  /\ call[c].state = "open"
  /\ call[c].peer \in up
  /\ call' = [call EXCEPT ![c] = [state |-> "granted", peer |-> call[c].peer]]
  /\ UNCHANGED up

\* The calls in cs will return false.
Refuse(cs) ==
  /\ cs # {}
  /\ \A c \in cs : call[c].state = "open"
  /\ call' = [c \in Caller |->
       IF c \in cs THEN [state |-> "refused", peer |-> call[c].peer] ELSE call[c]]
  /\ UNCHANGED up

\* The call returns, or the caller drops it.
Finish(c) ==
  /\ call[c] # Idle
  /\ call' = [call EXCEPT ![c] = Idle]
  /\ UNCHANGED up

Init == up = {} /\ call = [c \in Caller |-> Idle]

Next ==
  \/ \E p \in Peer : Connects(p) \/ Disconnects(p)
  \/ \E c \in Caller, p \in Peer : Connect(c, p)
  \/ \E c \in Caller : Grant(c) \/ Finish(c)
  \/ \E cs \in SUBSET Caller : Refuse(cs)

Spec == Init /\ [][Next]_connectorVars
===============================================================================
