------------------------------- MODULE Bootstrap -------------------------------
(***************************************************************************)
(* BootstrapController::run_cycle (crates/resurrect-bootstrap/src/lib.rs): *)
(* cache, then native discovery, then the registry, then promotion of an   *)
(* isolated seed.                                                          *)
(*                                                                         *)
(* The controller runs beside the transport: while it awaits a discovery   *)
(* source or a dial, other peers connect to us, connections close, and     *)
(* dials it gave up on still succeed.  It learns of them only when it      *)
(* reads connected_peers.  An await is a step boundary here.               *)
(***************************************************************************)
EXTENDS Integers, FiniteSets, Sequences

CONSTANTS
  Peers,             \* peers a discovery source can return
  Strangers,         \* peers we never learn of that may connect to us
  MinimumPeers,      \* policy.minimum_successful_peers
  MaximumDials,      \* policy.maximum_parallel_dials
  IsSeed,            \* the node is configured to announce itself
  None               \* the absent connected_via

ASSUME PolicyAssumption ==
  MinimumPeers \in Nat /\ MaximumDials \in Nat /\ IsSeed \in BOOLEAN
ASSUME PeersAssumption ==
  IsFiniteSet(Peers) /\ IsFiniteSet(Strangers) /\ Peers \cap Strangers = {}

VARIABLES
  connected,    \* connector: authenticated peers, read by connected_peers
  dialing,      \* connector: outbound attempts the transport has open
  verified,     \* native peer store: peers fed by add_verified_peer
  due,          \* publisher.eligible(): a seed whose renewal is due
  pc,           \* where run_cycle is
  source,       \* the discovery state dial_candidates works for
  queue,        \* candidates not yet handed to connect
  dials,        \* connect futures inside buffer_unordered
  transitions,  \* the observable transitions of this cycle
  outcome,      \* what the last completed cycle returned
  satisfied,    \* history: the last read of connected_peers met the target
  offered,      \* history: candidates the sources returned in this cycle
  tried         \* history: candidates handed to connect in this cycle

connectorVars == <<connected, dialing>>
cycleVars == <<pc, source, queue, dials, transitions, outcome>>
history == <<satisfied, offered, tried>>
bootstrapVars == <<connectorVars, verified, due, cycleVars, history>>

-------------------------------------------------------------------------------
(***************************************************************************)
(* The connector and the publisher, as the controller meets them.          *)
(***************************************************************************)

\* An open attempt succeeds; its caller may have given up long ago.
Established(p) ==
  /\ p \in dialing
  /\ dialing' = dialing \ {p}
  /\ connected' = connected \cup {p}
  /\ UNCHANGED <<verified, due, cycleVars, history>>

\* The transport gives an attempt up.
AttemptFailed(p) ==
  /\ p \in dialing
  /\ dialing' = dialing \ {p}
  /\ UNCHANGED <<connected, verified, due, cycleVars, history>>

\* Somebody connects to us.
Accepted(p) ==
  /\ p \notin connected
  /\ connected' = connected \cup {p}
  /\ UNCHANGED <<dialing, verified, due, cycleVars, history>>

\* The last connection to a peer closes.
Closed(p) ==
  /\ p \in connected
  /\ connected' = connected \ {p}
  /\ UNCHANGED <<dialing, verified, due, cycleVars, history>>

\* The announcer's renewal time passes.
BecomesDue ==
  /\ IsSeed /\ ~due
  /\ due' = TRUE
  /\ UNCHANGED <<connectorVars, verified, cycleVars, history>>

Network ==
  \/ \E p \in Peers : Established(p)
  \/ \E p \in Peers : AttemptFailed(p)
  \/ \E p \in Peers \cup Strangers : Accepted(p)
  \/ \E p \in Peers \cup Strangers : Closed(p)

-------------------------------------------------------------------------------
(***************************************************************************)
(* run_cycle                                                               *)
(***************************************************************************)
Sources == {"CacheDiscovery", "NativeDiscovery", "ResurrectScan"}

\* A zero target or a zero dial limit is promoted to one.
ConnectionTarget == IF MinimumPeers = 0 THEN 1 ELSE MinimumPeers
Parallel == IF MaximumDials = 0 THEN 1 ELSE MaximumDials

TargetReached == Cardinality(connected) >= ConnectionTarget

\* A read of connected_peers().await.
ReadsConnected == satisfied' = TargetReached

\* Faulty: a scan without success ends the cycle as if it were over.
AfterScanNothing ==
  [CacheDiscovery |-> "NativeDiscovery", NativeDiscovery |-> "ResurrectScan",
   ResurrectScan |-> "Backoff"]

\* Faulty: the registry is never asked.
AfterWithoutRegistry ==
  [CacheDiscovery |-> "NativeDiscovery", NativeDiscovery |-> "Isolated",
   ResurrectScan |-> "Isolated"]

\* Where a source that did not reach the target hands over to.
After == [CacheDiscovery |-> "NativeDiscovery", NativeDiscovery |-> "ResurrectScan",
          ResurrectScan |-> "Isolated"]

Enter(state) == pc' = state /\ transitions' = Append(transitions, state)

\* The sets of dials buffer_unordered has in flight once it has filled up.
Fillings(running, waiting) ==
  {running \cup more : more \in
    {m \in SUBSET waiting :
       \/ Cardinality(running \cup m) = Parallel
       \/ m = waiting /\ Cardinality(running \cup m) < Parallel}}

\* connect() opens an attempt unless the peer is already connected.
Open(peers) == dialing' = dialing \cup (peers \ connected)

\* The caller invokes run_cycle.
BeginCycle ==
  /\ pc = "Returned"
  /\ pc' = "Start"
  /\ transitions' = <<"Start">>
  /\ offered' = {}
  /\ tried' = {}
  /\ UNCHANGED <<connectorVars, verified, due, source, queue, dials, outcome>>

\* The caller has taken the outcome; the locals of the cycle are gone.
NoOutcome == [state |-> "Backoff", via |-> None, announced |-> FALSE, error |-> FALSE]
EndCycle ==
  /\ pc = "Returned"
  /\ outcome' = NoOutcome
  /\ source' = "CacheDiscovery"
  /\ transitions' = <<>>
  /\ offered' = {}
  /\ tried' = {}
  /\ UNCHANGED <<connectorVars, verified, due, pc, queue, dials>>

\* The first read of connected_peers.
CheckConnected ==
  /\ pc = "Start"
  /\ ReadsConnected
  /\ \/ /\ TargetReached
        /\ pc' = "Returned"
        /\ transitions' = Append(transitions, "Connected")
        /\ outcome' = [state |-> "Connected", via |-> "Start", announced |-> FALSE,
                       error |-> FALSE]
     \/ /\ ~TargetReached
        /\ Enter("CacheDiscovery")
        /\ UNCHANGED outcome
  /\ UNCHANGED <<connectorVars, verified, due, source, queue, dials, offered, tried>>

\* A source fails or returns nothing: either way the next one runs.
DiscoverNothing ==
  /\ pc \in Sources
  /\ Enter(After[pc])
  /\ UNCHANGED <<connectorVars, verified, due, source, queue, dials, outcome, history>>

\* A source returns candidates, in some order; the first dials start at once.
\* Registry candidates are fed to the native store first, whose errors are
\* ignored one by one.
Discover(peers) ==
  /\ pc \in Sources
  /\ peers # {}
  /\ IF pc = "ResurrectScan"
       THEN \E fed \in SUBSET peers : verified' = verified \cup fed
       ELSE UNCHANGED verified
  /\ source' = pc
  /\ Enter("Dialing")
  /\ dials' \in Fillings({}, peers)
  /\ queue' = peers \ dials'
  /\ Open(dials')
  /\ offered' = offered \cup peers
  /\ tried' = tried \cup dials'
  /\ UNCHANGED <<connected, due, outcome, satisfied>>

\* A dial completes: it connected, it failed or it timed out, and the timeout
\* leaves the transport's attempt open.  The controller looks only at
\* connected_peers.  At the target it drops every other dial.
DialEnough(p) ==
  /\ pc = "Dialing"
  /\ p \in dials
  /\ ReadsConnected
  /\ TargetReached
  /\ pc' = "Returned"
  /\ transitions' = transitions \o <<source, "Connected">>
  /\ outcome' = [state |-> "Connected", via |-> source, announced |-> FALSE, error |-> FALSE]
  /\ queue' = {}
  /\ dials' = {}
  /\ UNCHANGED <<connectorVars, verified, due, source, offered, tried>>

\* Faulty: the count is read and not compared with the target.
DialRegardless(p) ==
  /\ pc = "Dialing"
  /\ p \in dials
  /\ ReadsConnected
  /\ dials' \in Fillings(dials \ {p}, queue)
  /\ queue' = queue \ dials'
  /\ Open(dials' \ dials)
  /\ IF dials' = {} THEN Enter(After[source]) ELSE UNCHANGED <<pc, transitions>>
  /\ tried' = tried \cup dials'
  /\ UNCHANGED <<connected, verified, due, source, outcome, offered>>

\* Faulty: a candidate whose dial failed goes back to the end of the stream.
DialAgain(p) ==
  /\ pc = "Dialing"
  /\ p \in dials
  /\ ReadsConnected
  /\ ~TargetReached
  /\ dials' \in Fillings(dials \ {p}, queue \cup {p})
  /\ queue' = (queue \cup {p}) \ dials'
  /\ Open(dials')
  /\ tried' = tried \cup dials'
  /\ UNCHANGED <<connected, verified, due, pc, transitions, source, outcome, offered>>

\* Below the target it starts the next dial, or leaves the source when the
\* last dial is in.
DialNotEnough(p) ==
  /\ pc = "Dialing"
  /\ p \in dials
  /\ ReadsConnected
  /\ ~TargetReached
  /\ dials' \in Fillings(dials \ {p}, queue)
  /\ queue' = queue \ dials'
  /\ Open(dials' \ dials)
  /\ IF dials' = {} THEN Enter(After[source]) ELSE UNCHANGED <<pc, transitions>>
  /\ tried' = tried \cup dials'
  /\ UNCHANGED <<connected, verified, due, source, outcome, offered>>

\* The isolated step asks the publisher, and nobody else.
Promote ==
  /\ pc = "Isolated"
  /\ due
  /\ Enter("AnnounceSelf")
  /\ UNCHANGED <<connectorVars, verified, due, source, queue, dials, outcome, history>>

NotPromoted ==
  /\ pc = "Isolated"
  /\ ~due
  /\ pc' = "Returned"
  /\ transitions' = Append(transitions, "Backoff")
  /\ outcome' = [state |-> "Backoff", via |-> None, announced |-> FALSE, error |-> FALSE]
  /\ UNCHANGED <<connectorVars, verified, due, source, queue, dials, history>>

\* announce(reboot_ttl) returns Ok and the next renewal is scheduled.
Announced ==
  /\ pc = "AnnounceSelf"
  /\ due' = FALSE
  /\ pc' = "Returned"
  /\ transitions' = Append(transitions, "Backoff")
  /\ outcome' = [state |-> "Backoff", via |-> None, announced |-> TRUE, error |-> FALSE]
  /\ UNCHANGED <<connectorVars, verified, source, queue, dials, history>>

\* announce fails and run_cycle returns its error.
AnnounceFailed ==
  /\ pc = "AnnounceSelf"
  /\ pc' = "Returned"
  /\ outcome' = [state |-> "Backoff", via |-> None, announced |-> FALSE, error |-> TRUE]
  /\ UNCHANGED <<connectorVars, verified, due, source, queue, dials, transitions, history>>

Cycle ==
  \/ CheckConnected
  \/ DiscoverNothing
  \/ \E peers \in SUBSET Peers : Discover(peers)
  \/ \E p \in Peers : DialEnough(p)
  \/ \E p \in Peers : DialNotEnough(p)
  \/ Promote
  \/ NotPromoted
  \/ Announced
  \/ AnnounceFailed

BootstrapInit ==
  /\ connected = {}
  /\ dialing = {}
  /\ verified = {}
  /\ due = IsSeed
  /\ pc = "Returned"
  /\ source = "CacheDiscovery"
  /\ queue = {}
  /\ dials = {}
  /\ transitions = <<>>
  /\ outcome = NoOutcome
  /\ satisfied = FALSE
  /\ offered = {}
  /\ tried = {}

\* The controller under a caller that runs one cycle after the other, with
\* anything happening between the two.
BeginAnyCycle == BeginCycle /\ UNCHANGED satisfied

BootstrapNext == BeginAnyCycle \/ Cycle \/ Network \/ BecomesDue

BootstrapSpec == BootstrapInit /\ [][BootstrapNext]_bootstrapVars

\* Every await of a cycle ends: a dial by its timeout, a source and an
\* announcement because their provider answers or fails, which is assumed.
BootstrapFairSpec == BootstrapSpec /\ WF_bootstrapVars(Cycle)

-------------------------------------------------------------------------------
(***************************************************************************)
(* Properties                                                              *)
(***************************************************************************)
Searching == Sources \cup {"Dialing", "Isolated", "AnnounceSelf"}
BootstrapState == Searching \cup {"Start", "Backoff", "Connected"}

BootstrapTypeOK ==
  /\ connected \subseteq Peers \cup Strangers
  /\ dialing \subseteq Peers
  /\ verified \subseteq Peers
  /\ due \in BOOLEAN
  /\ pc \in Searching \cup {"Start", "Returned"}
  /\ source \in Sources
  /\ queue \subseteq Peers /\ dials \subseteq Peers
  /\ transitions \in Seq(BootstrapState)
  /\ outcome \in [state : {"Connected", "Backoff"}, via : Sources \cup {"Start", None},
                  announced : BOOLEAN, error : BOOLEAN]
  /\ satisfied \in BOOLEAN
  /\ offered \subseteq Peers /\ tried \subseteq Peers

\* The controller does no discovery, dialing or announcing once
\* connected_peers has reported the policy target to it (lib.rs:12-15).
IdleOnceSatisfied == pc \in Searching => ~satisfied

Visited == {transitions[n] : n \in DOMAIN transitions}

\* A cycle calls itself isolated, and a seed spends gas, only after every
\* candidate of every source was handed to connect and every one of those
\* dials came back (lib.rs:189-234).
IsolatedAfterTryingAll ==
  pc \in {"Isolated", "AnnounceSelf"} =>
    /\ tried = offered
    /\ dials = {} /\ queue = {}
    /\ Sources \subseteq Visited

\* A cycle is finite: whatever the sources return, however many candidates
\* there are and whoever connects or leaves meanwhile, run_cycle returns
\* (lib.rs:179-273).
CycleEnds == pc = "Start" ~> pc = "Returned"

(***************************************************************************)
(* The inductive invariant behind the two: where the candidates of a     *)
(* cycle are at each point of it, and which sources led there.             *)
(***************************************************************************)
Bookkeeping ==
  IF pc = "Dialing"
    THEN dials # {} /\ dials \subseteq tried /\ offered = tried \cup queue
    ELSE dials = {} /\ queue = {} /\ (pc # "Returned" => tried = offered)

\* The source being tried, while a source is being tried.
Current == IF pc = "Dialing" THEN source ELSE pc

SourcesInOrder ==
  /\ Current = "CacheDiscovery" => {"CacheDiscovery"} \subseteq Visited
  /\ Current = "NativeDiscovery" => {"CacheDiscovery", "NativeDiscovery"} \subseteq Visited
  /\ Current \in {"ResurrectScan", "Isolated", "AnnounceSelf"} => Sources \subseteq Visited

BootstrapInv == BootstrapTypeOK /\ IdleOnceSatisfied /\ Bookkeeping /\ SourcesInOrder
===============================================================================
