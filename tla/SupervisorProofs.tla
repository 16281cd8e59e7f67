---------------------------- MODULE SupervisorProofs ----------------------------
(***************************************************************************)
(* Proofs about run_cycle and about the loop that calls it, for every set  *)
(* of peers and every policy: any number of candidates, any target, any    *)
(* dial limit, any backoff.                                                *)
(***************************************************************************)
EXTENDS Supervisor, FiniteSetTheorems, TLAPS

-------------------------------------------------------------------------------
(***************************************************************************)
(* run_cycle under any caller                                              *)
(***************************************************************************)

\* A zero dial limit is promoted, so the dialer always makes progress.
LEMMA ParallelPositive == Parallel \in Nat \ {0}
  BY PolicyAssumption DEF Parallel

\* What buffer_unordered has in flight after filling up: everything that was
\* running, some of what was waiting, and nothing at all only when nothing was
\* left.
LEMMA FillingFacts ==
  ASSUME NEW running, NEW waiting, NEW f \in Fillings(running, waiting),
         IsFiniteSet(running), IsFiniteSet(waiting)
  PROVE  /\ running \subseteq f /\ f \subseteq running \cup waiting
         /\ f = {} => waiting = {}
  <1>1. PICK m \in SUBSET waiting :
          /\ f = running \cup m
          /\ \/ Cardinality(running \cup m) = Parallel
             \/ m = waiting /\ Cardinality(running \cup m) < Parallel
    BY DEF Fillings
  <1>2. Cardinality(f) \in Nat /\ Parallel \in Nat \ {0}
    <2>1. IsFiniteSet(m)
      BY FS_Subset
    <2>2. IsFiniteSet(f)
      BY <1>1, <2>1, FS_Union
    <2>3. QED
      BY <2>2, FS_CardinalityType, ParallelPositive
  <1>3. f = {} => waiting = {}
    BY <1>1, <1>2, FS_EmptySet
  <1>4. QED
    BY <1>1, <1>2, <1>3

\* Appending a transition adds it to the visited states.
LEMMA VisitedAppend ==
  ASSUME transitions \in Seq(BootstrapState), NEW st \in BootstrapState,
         transitions' = Append(transitions, st)
  PROVE  transitions' \in Seq(BootstrapState) /\ Visited' = Visited \cup {st}
  <1>1. transitions' \in Seq(BootstrapState)
    OBVIOUS
  <1>2. \A x : x \in Visited' <=> x \in Visited \cup {st}
    BY DEF Visited
  <1>3. QED
    BY <1>1, <1>2

LEMMA InitBootstrapInv == BootstrapInit => BootstrapInv
  <1> SUFFICES ASSUME BootstrapInit PROVE BootstrapInv
    OBVIOUS
  <1>1. BootstrapTypeOK
    <2>1. due \in BOOLEAN
      BY PolicyAssumption DEF BootstrapInit
    <2>2. outcome \in [state : {"Connected", "Backoff"}, via : Sources \cup {"Start", None},
                       announced : BOOLEAN, error : BOOLEAN]
      BY DEF BootstrapInit, NoOutcome
    <2>3. transitions \in Seq(BootstrapState)
      BY DEF BootstrapInit
    <2>4. satisfied \in BOOLEAN
      BY DEF BootstrapInit
    <2>5. QED
      BY <2>1, <2>2, <2>3, <2>4 DEF BootstrapInit, BootstrapTypeOK, Sources
  <1>2. IdleOnceSatisfied /\ Bookkeeping /\ SourcesInOrder
    BY DEF BootstrapInit, IdleOnceSatisfied, Bookkeeping, SourcesInOrder, Current,
           Searching, Sources
  <1>3. QED
    BY <1>1, <1>2 DEF BootstrapInv

\* Steps of the transport and of the clock touch neither the cycle nor its
\* history.
LEMMA EnvironmentStep ==
  ASSUME BootstrapInv, Network \/ BecomesDue \/ UNCHANGED bootstrapVars
  PROVE  BootstrapInv'
  <1>1. /\ UNCHANGED <<verified, cycleVars, history>>
        /\ connected' \subseteq Peers \cup Strangers /\ dialing' \subseteq Peers
        /\ due' \in BOOLEAN
    BY DEF BootstrapInv, BootstrapTypeOK, Network, BecomesDue, Established, AttemptFailed,
           Accepted, Closed, bootstrapVars, connectorVars
  <1>2. QED
    BY <1>1 DEF BootstrapInv, BootstrapTypeOK, IdleOnceSatisfied, Bookkeeping,
                SourcesInOrder, Current, Visited, cycleVars, history

LEMMA CycleStep ==
  ASSUME BootstrapInv, Cycle \/ BeginAnyCycle
  PROVE  BootstrapInv'
  <1> USE DEF BootstrapInv
  <1>0. IsFiniteSet(queue) /\ IsFiniteSet(dials) /\ Parallel \in Nat \ {0}
    BY PeersAssumption, FS_Subset, ParallelPositive DEF BootstrapTypeOK
  <1>1. CASE BeginAnyCycle
    BY <1>1 DEF BeginAnyCycle, BeginCycle, BootstrapTypeOK, IdleOnceSatisfied,
                Bookkeeping, SourcesInOrder, Current, Searching, Sources, BootstrapState,
                connectorVars
  <1>2. CASE CheckConnected
    <2>1. CASE TargetReached
      <3>1. /\ pc = "Start" /\ pc' = "Returned" /\ satisfied' = TRUE
            /\ transitions' = Append(transitions, "Connected")
            /\ outcome' = [state |-> "Connected", via |-> "Start", announced |-> FALSE,
                           error |-> FALSE]
            /\ UNCHANGED <<connected, dialing, verified, due, source, queue, dials, offered, tried>>
        BY <1>2, <2>1 DEF CheckConnected, ReadsConnected, connectorVars
      <3>2. BootstrapTypeOK'
        BY <3>1 DEF BootstrapTypeOK, BootstrapState
      <3>3. QED
        BY <3>1, <3>2 DEF IdleOnceSatisfied, Bookkeeping, SourcesInOrder, Current,
                          Searching, Sources
    <2>2. CASE ~TargetReached
      <3>1. /\ pc = "Start" /\ pc' = "CacheDiscovery" /\ satisfied' = FALSE
            /\ transitions' = Append(transitions, "CacheDiscovery")
            /\ UNCHANGED <<connected, dialing, verified, due, source, queue, dials, offered, tried, outcome>>
        BY <1>2, <2>2 DEF CheckConnected, ReadsConnected, Enter, connectorVars
      <3>2. transitions' \in Seq(BootstrapState) /\ Visited' = Visited \cup {"CacheDiscovery"}
        BY <3>1, VisitedAppend DEF BootstrapTypeOK, BootstrapState, Searching, Sources
      <3>3. BootstrapTypeOK'
        BY <3>1, <3>2 DEF BootstrapTypeOK, Searching, Sources
      <3>4. QED
        BY <3>1, <3>2, <3>3 DEF IdleOnceSatisfied, Bookkeeping,
                          SourcesInOrder, Current, Searching, Sources
    <2>3. QED
      BY <2>1, <2>2
  <1>3. CASE DiscoverNothing
    <2>1. /\ pc \in Sources /\ pc' = After[pc] /\ transitions' = Append(transitions, pc')
          /\ UNCHANGED <<connected, dialing, verified, due, source, queue, dials, outcome,
                        satisfied, offered, tried>>
      BY <1>3 DEF DiscoverNothing, Enter, connectorVars, history
    <2>2. \/ pc = "CacheDiscovery" /\ pc' = "NativeDiscovery"
          \/ pc = "NativeDiscovery" /\ pc' = "ResurrectScan"
          \/ pc = "ResurrectScan" /\ pc' = "Isolated"
      BY <2>1 DEF Sources, After
    <2>3. transitions' \in Seq(BootstrapState) /\ Visited' = Visited \cup {pc'}
      BY <2>1, <2>2, VisitedAppend DEF BootstrapTypeOK, BootstrapState, Searching, Sources
    <2>4. QED
      BY <2>1, <2>2, <2>3 DEF BootstrapTypeOK, IdleOnceSatisfied, Bookkeeping,
                              SourcesInOrder, Current, Searching, Sources
  <1>4. ASSUME NEW peers \in SUBSET Peers, Discover(peers) PROVE BootstrapInv'
    <2>1. /\ pc \in Sources /\ peers # {} /\ source' = pc /\ pc' = "Dialing"
          /\ transitions' = Append(transitions, "Dialing")
          /\ dials' \in Fillings({}, peers) /\ queue' = peers \ dials'
          /\ dialing' = dialing \cup (dials' \ connected)
          /\ offered' = offered \cup peers /\ tried' = tried \cup dials'
          /\ UNCHANGED <<connected, due, outcome, satisfied>>
      BY <1>4 DEF Discover, Enter, Open
    <2>2. verified' \subseteq Peers
      BY <1>4 DEF Discover, BootstrapTypeOK
    <2>3. /\ dials' \subseteq peers /\ dials' # {}
      <3>1. IsFiniteSet({}) /\ IsFiniteSet(peers)
        BY PeersAssumption, FS_Subset, FS_EmptySet
      <3>2. QED
        BY <3>1, <2>1, FillingFacts
    <2>4. transitions' \in Seq(BootstrapState) /\ Visited' = Visited \cup {"Dialing"}
      BY <2>1, VisitedAppend DEF BootstrapTypeOK, BootstrapState, Searching, Sources
    <2>5. BootstrapTypeOK'
      BY <2>1, <2>2, <2>3, <2>4 DEF BootstrapTypeOK, Searching
    <2>6. IdleOnceSatisfied'
      BY <2>1 DEF IdleOnceSatisfied, Searching
    <2>7. Bookkeeping'
      BY <2>1, <2>3 DEF Bookkeeping, Searching, Sources
    <2>8. SourcesInOrder'
      BY <2>1, <2>4 DEF SourcesInOrder, Current, Sources
    <2>9. QED
      BY <2>5, <2>6, <2>7, <2>8
  <1>5. ASSUME NEW p \in Peers, DialEnough(p) PROVE BootstrapInv'
    <2>1. /\ pc' = "Returned" /\ queue' = {} /\ dials' = {}
          /\ transitions' = transitions \o <<source, "Connected">>
          /\ outcome' = [state |-> "Connected", via |-> source, announced |-> FALSE,
                         error |-> FALSE]
          /\ satisfied' \in BOOLEAN
          /\ UNCHANGED <<connected, dialing, verified, due, source, offered, tried>>
      BY <1>5 DEF DialEnough, ReadsConnected, TargetReached, connectorVars
    <2>2. BootstrapTypeOK'
      BY <2>1 DEF BootstrapTypeOK, BootstrapState, Searching, Sources
    <2>3. IdleOnceSatisfied' /\ Bookkeeping' /\ SourcesInOrder'
      BY <2>1 DEF IdleOnceSatisfied, Bookkeeping, SourcesInOrder, Current, Searching, Sources
    <2>4. QED
      BY <2>2, <2>3
  <1>6. ASSUME NEW p \in Peers, DialNotEnough(p) PROVE BootstrapInv'
    <2>1. /\ pc = "Dialing" /\ p \in dials /\ satisfied' = FALSE
          /\ dials' \in Fillings(dials \ {p}, queue) /\ queue' = queue \ dials'
          /\ dialing' = dialing \cup ((dials' \ dials) \ connected)
          /\ tried' = tried \cup dials'
          /\ UNCHANGED <<connected, verified, due, source, outcome, offered>>
      BY <1>6 DEF DialNotEnough, ReadsConnected, Open
    <2>2. /\ dials' \subseteq dials \cup queue
          /\ dials' = {} => queue = {}
      <3>1. IsFiniteSet(dials \ {p})
        BY <1>0, FS_Subset
      <3>2. QED
        BY <3>1, <1>0, <2>1, FillingFacts
    <2>3. /\ dialing' \subseteq Peers /\ dials' \subseteq Peers
          /\ queue' \subseteq Peers /\ tried' \subseteq Peers
      BY <2>1, <2>2 DEF BootstrapTypeOK
    <2>4. tried' \cup queue' = offered' /\ (dials' = {} => queue' = {} /\ tried' = offered')
      BY <2>1, <2>2 DEF Bookkeeping
    <2>5. CASE dials' = {}
      <3>1. pc' = After[source] /\ transitions' = Append(transitions, pc')
        BY <2>5, <1>6 DEF DialNotEnough, Enter
      <3>2. \/ source = "CacheDiscovery" /\ pc' = "NativeDiscovery"
            \/ source = "NativeDiscovery" /\ pc' = "ResurrectScan"
            \/ source = "ResurrectScan" /\ pc' = "Isolated"
        BY <3>1 DEF BootstrapTypeOK, Sources, After
      <3>3. transitions' \in Seq(BootstrapState) /\ Visited' = Visited \cup {pc'}
        BY <3>1, <3>2, VisitedAppend DEF BootstrapTypeOK, BootstrapState, Searching, Sources
      <3>4. BootstrapTypeOK'
        BY <2>1, <2>3, <3>2, <3>3 DEF BootstrapTypeOK, Searching, Sources
      <3>5. IdleOnceSatisfied' /\ Bookkeeping'
        BY <2>1, <2>4, <2>5, <3>2 DEF IdleOnceSatisfied, Bookkeeping
      <3>6. SourcesInOrder'
        BY <2>1, <3>2, <3>3 DEF SourcesInOrder, Current, Sources
      <3>7. QED
        BY <3>4, <3>5, <3>6
    <2>6. CASE dials' # {}
      <3>1. UNCHANGED <<pc, transitions>>
        BY <2>6, <1>6 DEF DialNotEnough
      <3>2. BootstrapTypeOK'
        BY <2>1, <2>3, <3>1 DEF BootstrapTypeOK
      <3>3. IdleOnceSatisfied' /\ Bookkeeping'
        BY <2>1, <2>2, <2>4, <2>6, <3>1 DEF IdleOnceSatisfied, Bookkeeping
      <3>4. SourcesInOrder'
        BY <2>1, <3>1 DEF SourcesInOrder, Current, Visited
      <3>5. QED
        BY <3>2, <3>3, <3>4
    <2>7. QED
      BY <2>5, <2>6
  <1>7. CASE Promote
    <2>1. /\ pc = "Isolated" /\ pc' = "AnnounceSelf"
          /\ transitions' = Append(transitions, "AnnounceSelf")
          /\ UNCHANGED <<connected, dialing, verified, due, source, queue, dials, outcome,
                        satisfied, offered, tried>>
      BY <1>7 DEF Promote, Enter, connectorVars, history
    <2>2. transitions' \in Seq(BootstrapState) /\ Visited' = Visited \cup {"AnnounceSelf"}
      BY <2>1, VisitedAppend DEF BootstrapTypeOK, BootstrapState, Searching, Sources
    <2>3. QED
      BY <2>1, <2>2 DEF BootstrapTypeOK, IdleOnceSatisfied, Bookkeeping,
                        SourcesInOrder, Current, Searching, Sources
  <1>8. CASE NotPromoted \/ Announced \/ AnnounceFailed
    <2>1. /\ pc \in {"Isolated", "AnnounceSelf"} /\ pc' = "Returned" /\ due' \in BOOLEAN
          /\ \/ transitions' = Append(transitions, "Backoff")
             \/ transitions' = transitions
          /\ outcome' \in [state : {"Backoff"}, via : {None}, announced : BOOLEAN,
                           error : BOOLEAN]
          /\ UNCHANGED <<connected, dialing, verified, source, queue, dials,
                        satisfied, offered, tried>>
      <3>1. CASE NotPromoted
        BY <3>1 DEF NotPromoted, BootstrapTypeOK, connectorVars, history
      <3>2. CASE Announced
        BY <3>2 DEF Announced, BootstrapTypeOK, connectorVars, history
      <3>3. CASE AnnounceFailed
        BY <3>3 DEF AnnounceFailed, BootstrapTypeOK, connectorVars, history
      <3>4. QED
        BY <1>8, <3>1, <3>2, <3>3
    <2>2. BootstrapTypeOK'
      BY <2>1 DEF BootstrapTypeOK, Searching, BootstrapState
    <2>3. QED
      BY <2>1, <2>2 DEF IdleOnceSatisfied, Bookkeeping, SourcesInOrder, Current,
                        Searching, Sources
  <1>9. QED
    BY <1>1, <1>2, <1>3, <1>4, <1>5, <1>6, <1>7, <1>8 DEF Cycle

\* The inductive invariant of a bootstrap cycle under every interleaving with
\* the transport: types, no work once satisfied, where every
\* candidate is, and which sources were tried.
THEOREM BootstrapInvariant == BootstrapSpec => []BootstrapInv
  <1>1. BootstrapInv /\ [BootstrapNext]_bootstrapVars => BootstrapInv'
    BY EnvironmentStep, CycleStep DEF BootstrapNext
  <1>2. QED
    BY <1>1, InitBootstrapInv, PTL DEF BootstrapSpec

\* Type correctness of the controller.
THEOREM BootstrapTypeCorrect == BootstrapSpec => []BootstrapTypeOK
  BY BootstrapInvariant, PTL DEF BootstrapInv

\* A cycle that read the target as reached starts nothing more.
THEOREM BootstrapIdleOnceSatisfied == BootstrapSpec => []IdleOnceSatisfied
  BY BootstrapInvariant, PTL DEF BootstrapInv

\* Isolation is concluded, and gas spent, only after every candidate of all
\* three sources has been dialed to completion.
THEOREM BootstrapTriesAll == BootstrapSpec => []IsolatedAfterTryingAll
  <1>1. BootstrapInv => IsolatedAfterTryingAll
    BY DEF BootstrapInv, IsolatedAfterTryingAll, Bookkeeping, SourcesInOrder, Current, Searching
  <1>2. QED
    BY <1>1, BootstrapInvariant, PTL
-------------------------------------------------------------------------------
(***************************************************************************)
(* run: the loop around the cycles                                         *)
(***************************************************************************)

\* The registry has not been scanned yet in this cycle.
BeforeScan ==
  \/ pc \in {"Start", "CacheDiscovery", "NativeDiscovery"}
  \/ pc = "Dialing" /\ source \in {"CacheDiscovery", "NativeDiscovery"}

\* A cycle runs only while run awaits it, and neither a turn nor a cycle that
\* is yet to scan follows a scan that led nowhere.
ScanRested ==
  /\ loop # "cycle" => pc = "Returned"
  /\ loop = "top" \/ (loop = "cycle" /\ BeforeScan) => sinceScan # "nothing"

SupervisorInv == BootstrapInv /\ TypeOK /\ DelayGrows /\ ScanRested

\* The jittered delay is at least half of the exponential one and at most all
\* of it, which is at most the maximum.
LEMMA JitterBounds ==
  ASSUME NEW attempt \in Nat, NEW d \in BackoffWithJitter(attempt)
  PROVE  /\ d \in Int
         /\ 2 * d + 1 >= ExponentialBackoff(attempt)
         /\ d <= MaximumBackoff
<1> DEFINE exponent == IF attempt < ShiftCap THEN attempt ELSE ShiftCap
           product == InitialBackoff * 2 ^ exponent
           base == IF product < MaximumBackoff THEN product ELSE MaximumBackoff
<1>1. 2 ^ exponent \in Int
  BY BackoffAssumption
<1>2. product \in Int
  BY <1>1, BackoffAssumption
<1>3. ExponentialBackoff(attempt) = base
  BY DEF ExponentialBackoff
<1> HIDE DEF product
<1>4. base \in Int /\ base <= MaximumBackoff
  BY <1>2, BackoffAssumption
<1>5. d \in (base \div 2) .. base
  BY <1>3 DEF BackoffWithJitter
<1> HIDE DEF base
<1> QED
  BY <1>3, <1>4, <1>5, BackoffAssumption

\* The exponential delay stops growing at ShiftCap.
LEMMA BackoffCaps == ExponentialBackoff(ShiftCap + 1) = ExponentialBackoff(ShiftCap)
<1>1. ~(ShiftCap + 1 < ShiftCap) /\ ~(ShiftCap < ShiftCap)
  BY BackoffAssumption
<1> QED
  BY <1>1, Zenon DEF ExponentialBackoff

LEMMA SupervisorInvInit == Init => SupervisorInv
<1> SUFFICES ASSUME Init PROVE SupervisorInv
  OBVIOUS
<1>1. BootstrapInv
  BY InitBootstrapInv DEF Init
<1>2. TypeOK
  <2>1. attempts \in 0..ShiftCap + 1 /\ observed \in Nat /\ delay \in Int
    BY BackoffAssumption DEF Init
  <2>2. lastVia \in Sources \cup {"Start", None} /\ status = None
    BY DEF Init
  <2>3. /\ loop \in {"top", "renewing", "cycle", "poll", "backoff", "stopped", "failed"}
        /\ shutdown \in BOOLEAN /\ sinceScan \in {"rested", "connected", "nothing"}
    BY DEF Init
  <2> QED
    BY <1>1, <2>1, <2>2, <2>3, Zenon DEF TypeOK, BootstrapInv
<1>3. DelayGrows /\ ScanRested
  BY DEF Init, BootstrapInit, DelayGrows, ScanRested
<1> QED
  BY <1>1, <1>2, <1>3 DEF SupervisorInv

\* Between cycles run only takes and reads what the last cycle left.
LEMMA BetweenCycles ==
  ASSUME BootstrapInv, pc = "Returned", pc' = "Returned",
         outcome' \in [state : {"Connected", "Backoff"}, via : Sources \cup {"Start", None},
                       announced : BOOLEAN, error : BOOLEAN],
         source' \in Sources, transitions' \in Seq(BootstrapState),
         satisfied' \in BOOLEAN, due' \in BOOLEAN,
         offered' \subseteq Peers, tried' \subseteq Peers,
         UNCHANGED <<connectorVars, verified, queue, dials>>
  PROVE  BootstrapInv'
<1>1. BootstrapTypeOK'
  BY DEF BootstrapInv, BootstrapTypeOK, connectorVars
<1>2. Bookkeeping'
  BY DEF BootstrapInv, Bookkeeping
<1>3. IdleOnceSatisfied' /\ SourcesInOrder'
  BY DEF IdleOnceSatisfied, SourcesInOrder, Current, Searching, Sources
<1> QED
  BY <1>1, <1>2, <1>3 DEF BootstrapInv


Statuses == [state : {"Connected", "Backoff"}, peers : Nat,
             via : Sources \cup {"Start", None}, error : BOOLEAN]

\* What is published is a status.
LEMMA PublishTyped ==
  ASSUME TypeOK, NEW new \in Statuses, NEW next, PublishStatus(new, next)
  PROVE  status' = None \/ status' \in Statuses
BY DEF PublishStatus, TypeOK, Statuses

\* The number of connections.
LEMMA CountTyped ==
  ASSUME BootstrapTypeOK
  PROVE  Cardinality(connected) \in Nat
<1>1. IsFiniteSet(Peers \cup Strangers)
  BY PeersAssumption, FS_Union
<1>2. IsFiniteSet(connected)
  BY <1>1, FS_Subset DEF BootstrapTypeOK
<1> QED
  BY <1>2, FS_CardinalityType

LEMMA TurnHealthyKeeps ==
  ASSUME SupervisorInv, TurnHealthy
  PROVE  SupervisorInv'
<1>1. BootstrapInv /\ BootstrapTypeOK /\ TypeOK /\ loop = "top" /\ pc = "Returned"
  BY DEF SupervisorInv, BootstrapInv, TurnHealthy, ScanRested
<1>2. /\ pc' = pc /\ outcome' = outcome /\ source' = source /\ transitions' = transitions
      /\ satisfied' \in BOOLEAN /\ due' = due /\ offered' = offered /\ tried' = tried
      /\ UNCHANGED <<connectorVars, verified, queue, dials>>
  BY DEF TurnHealthy, cycleVars, ReadsConnected, TargetReached
<1>3. BootstrapInv'
  BY <1>1, <1>2, BetweenCycles DEF BootstrapTypeOK
<1>4. /\ loop' \in {"renewing", "poll", "failed"} /\ attempts' = 0
      /\ lastVia' = lastVia /\ delay' = delay /\ shutdown' = shutdown /\ sinceScan' = sinceScan
  BY DEF TurnHealthy, PublishStatus
<1>5. observed' \in Nat
  BY <1>1, CountTyped DEF TurnHealthy, TypeOK
<1>6. status' = None \/ status' \in Statuses
  <2>1. CASE UNCHANGED status
    BY <1>1, <2>1 DEF TypeOK, Statuses
  <2>2. CASE PublishStatus(Status("Connected", Cardinality(connected), lastVia, FALSE), "poll")
    <3>1. Status("Connected", Cardinality(connected), lastVia, FALSE) \in Statuses
      BY <1>1, CountTyped DEF Status, Statuses, TypeOK
    <3> QED
      BY <1>1, <2>2, <3>1, PublishTyped
  <2> QED
    BY <2>1, <2>2 DEF TurnHealthy
<1>7. TypeOK'
  BY <1>1, <1>3, <1>4, <1>5, <1>6, BackoffAssumption DEF TypeOK, BootstrapInv, Statuses
<1>8. DelayGrows' /\ ScanRested'
  BY <1>1, <1>2, <1>4 DEF DelayGrows, ScanRested
<1> QED
  BY <1>3, <1>7, <1>8 DEF SupervisorInv

LEMMA RenewedKeeps ==
  ASSUME SupervisorInv, Renewed
  PROVE  SupervisorInv'
<1>1. BootstrapInv /\ BootstrapTypeOK /\ TypeOK /\ loop = "renewing" /\ pc = "Returned"
  BY DEF SupervisorInv, BootstrapInv, Renewed, ScanRested
<1>2. /\ pc' = pc /\ outcome' = outcome /\ source' = source /\ transitions' = transitions
      /\ satisfied' = satisfied /\ due' \in BOOLEAN /\ offered' = offered /\ tried' = tried
      /\ UNCHANGED <<connectorVars, verified, queue, dials>>
  BY DEF Renewed, cycleVars, history
<1>3. BootstrapInv'
  BY <1>1, <1>2, BetweenCycles DEF BootstrapTypeOK
<1>4. /\ loop' \in {"poll", "failed"} /\ attempts' = attempts /\ observed' = 0
      /\ lastVia' = lastVia /\ delay' = delay /\ shutdown' = shutdown /\ sinceScan' = sinceScan
  BY DEF Renewed, PublishStatus
<1>5. status' = None \/ status' \in Statuses
  <2>1. PICK ok \in BOOLEAN : PublishStatus(Status("Connected", observed, lastVia, ~ok), "poll")
    BY DEF Renewed
  <2>2. Status("Connected", observed, lastVia, ~ok) \in Statuses
    BY <1>1 DEF Status, Statuses, TypeOK
  <2> QED
    BY <1>1, <2>1, <2>2, PublishTyped
<1>6. TypeOK'
  BY <1>1, <1>3, <1>4, <1>5 DEF TypeOK, BootstrapInv, Statuses
<1>7. DelayGrows' /\ ScanRested'
  BY <1>1, <1>2, <1>4 DEF DelayGrows, ScanRested
<1> QED
  BY <1>3, <1>6, <1>7 DEF SupervisorInv

LEMMA TurnIsolatedKeeps ==
  ASSUME SupervisorInv, TurnIsolated
  PROVE  SupervisorInv'
<1>1. BootstrapInv /\ BootstrapTypeOK /\ TypeOK /\ loop = "top" /\ sinceScan # "nothing"
  BY DEF SupervisorInv, BootstrapInv, TurnIsolated, ScanRested
<1>2. /\ pc = "Returned" /\ pc' = "Start" /\ transitions' = <<"Start">> /\ satisfied' = FALSE
      /\ offered' = {} /\ tried' = {}
      /\ UNCHANGED <<connected, dialing, verified, due, source, queue, dials, outcome>>
  BY DEF TurnIsolated, BeginCycle, ReadsConnected, connectorVars
<1>3. BootstrapInv'
  <2>1. transitions' \in Seq(BootstrapState)
    BY <1>2 DEF BootstrapState
  <2>2. BootstrapTypeOK'
    BY <1>1, <1>2, <2>1 DEF BootstrapTypeOK
  <2>3. Bookkeeping' /\ IdleOnceSatisfied' /\ SourcesInOrder'
    BY <1>1, <1>2 DEF BootstrapInv, Bookkeeping, IdleOnceSatisfied, SourcesInOrder,
                      Current, Searching, Sources, Parallel
  <2> QED
    BY <2>2, <2>3 DEF BootstrapInv
<1>4. /\ loop' = "cycle"
      /\ UNCHANGED <<attempts, lastVia, observed, delay, status, shutdown, sinceScan>>
  BY DEF TurnIsolated
<1>5. TypeOK'
  BY <1>1, <1>3, <1>4 DEF TypeOK, BootstrapInv
<1>6. DelayGrows' /\ ScanRested'
  BY <1>1, <1>4 DEF DelayGrows, ScanRested
<1> QED
  BY <1>3, <1>5, <1>6 DEF SupervisorInv


\* run has taken the outcome; the attempts count this failure, whose delay it
\* has drawn.
LEMMA CycleReturnedKeeps ==
  ASSUME SupervisorInv, CycleReturned
  PROVE  SupervisorInv'
<1>1. BootstrapInv /\ BootstrapTypeOK /\ TypeOK /\ loop = "cycle" /\ pc = "Returned"
  BY DEF SupervisorInv, BootstrapInv, CycleReturned, EndCycle
<1>2. /\ pc' = pc /\ outcome' = NoOutcome /\ source' = "CacheDiscovery" /\ transitions' = <<>>
      /\ satisfied' \in BOOLEAN /\ due' = due /\ offered' = {} /\ tried' = {}
      /\ UNCHANGED <<connectorVars, verified, queue, dials>>
  BY DEF CycleReturned, EndCycle, ReadsConnected, TargetReached
<1>3. NoOutcome \in [state : {"Connected", "Backoff"}, via : Sources \cup {"Start", None},
                     announced : BOOLEAN, error : BOOLEAN]
  BY DEF NoOutcome
<1>4. BootstrapInv'
  BY <1>1, <1>2, <1>3, BetweenCycles DEF BootstrapTypeOK, Sources
<1>5. outcome.state \in {"Connected", "Backoff"} /\ outcome.via \in Sources \cup {"Start", None}
      /\ outcome.error \in BOOLEAN
  BY <1>1 DEF BootstrapTypeOK
<1>6. lastVia' \in Sources \cup {"Start", None}
  BY <1>1, <1>5 DEF CycleReturned, TypeOK
<1>7. status' = None \/ status' \in Statuses
  <2>1. Status(outcome.state, Cardinality(connected), outcome.via, outcome.error) \in Statuses
    BY <1>1, <1>5, CountTyped DEF Status, Statuses
  <2> QED
    BY <1>1, <2>1, PublishTyped DEF CycleReturned
<1>8. loop' \in {NextTurn(outcome.state), "failed"}
  BY DEF CycleReturned, PublishStatus
<1>9. /\ loop' \in {"top", "backoff", "failed"}
      /\ loop' = "top" => outcome.state = "Connected"
  BY <1>8 DEF NextTurn
<1>10. /\ attempts' \in 0..ShiftCap + 1 /\ delay' \in Int
       /\ DelayGrows'
  <2>1. CASE loop' = "top"
    <3>1. attempts' = 0 /\ delay' = delay
      BY <2>1 DEF CycleReturned
    <3> QED
      BY <1>1, <2>1, <3>1, BackoffAssumption DEF TypeOK, DelayGrows
  <2>2. CASE loop' = "failed"
    <3>1. attempts' = attempts /\ delay' = delay
      BY <2>2 DEF CycleReturned
    <3> QED
      BY <1>1, <2>2, <3>1 DEF TypeOK, DelayGrows
  <2>3. CASE loop' = "backoff"
    <3>1. /\ delay' \in BackoffWithJitter(attempts)
          /\ attempts' = IF attempts <= ShiftCap THEN attempts + 1 ELSE attempts
      BY <2>3 DEF CycleReturned
    <3>2. attempts \in Nat /\ attempts <= ShiftCap + 1 /\ ShiftCap \in Nat
      BY <1>1, BackoffAssumption DEF TypeOK
    <3>3. /\ delay' \in Int /\ 2 * delay' + 1 >= ExponentialBackoff(attempts)
          /\ delay' <= MaximumBackoff
      BY <3>1, <3>2, JitterBounds
    <3>4. ExponentialBackoff(attempts) = ExponentialBackoff(attempts' - 1)
      <4>1. CASE attempts <= ShiftCap
        <5>1. attempts' - 1 = attempts
          BY <3>1, <3>2, <4>1
        <5> QED
          BY <5>1
      <4>2. CASE ~(attempts <= ShiftCap)
        <5>1. attempts = ShiftCap + 1 /\ attempts' - 1 = ShiftCap
          BY <3>1, <3>2, <4>2
        <5> QED
          BY <5>1, BackoffCaps
      <4> QED
        BY <4>1, <4>2
    <3>5. attempts' \in 0..ShiftCap + 1 /\ attempts' > 0
      BY <3>1, <3>2
    <3> QED
      BY <3>3, <3>4, <3>5 DEF DelayGrows
  <2> QED
    BY <1>9, <2>1, <2>2, <2>3
<1>11. /\ sinceScan' = IF outcome.state = "Connected" /\ sinceScan = "nothing"
                         THEN "connected" ELSE sinceScan
       /\ observed' = observed /\ shutdown' = shutdown
  BY DEF CycleReturned
<1>12. TypeOK'
  <2>1. /\ sinceScan' \in {"rested", "connected", "nothing"} /\ shutdown' \in BOOLEAN
        /\ observed' \in Nat
    BY <1>1, <1>11 DEF TypeOK
  <2> QED
    BY <1>4, <1>6, <1>7, <1>9, <1>10, <2>1 DEF TypeOK, BootstrapInv, Statuses
<1>13. ScanRested'
  BY <1>1, <1>2, <1>9, <1>11 DEF ScanRested
<1> QED
  BY <1>4, <1>10, <1>12, <1>13 DEF SupervisorInv

\* The sleeps and the signal.
LEMMA SleepKeeps ==
  ASSUME SupervisorInv, Wake \/ Stop \/ RequestShutdown
  PROVE  SupervisorInv'
<1>1. BootstrapInv' /\ pc' = pc /\ source' = source
  BY EnvironmentStep
     DEF SupervisorInv, Wake, Stop, RequestShutdown, bootstrapVars, cycleVars
<1>2. CASE Wake
  <2>1. /\ loop' = "top" /\ delay' = 0 /\ sinceScan' = "rested" /\ pc = "Returned"
        /\ UNCHANGED <<attempts, lastVia, observed, status, shutdown>>
    BY <1>2 DEF Wake, SupervisorInv, ScanRested
  <2> QED
    BY <1>1, <2>1 DEF SupervisorInv, TypeOK, BootstrapInv, DelayGrows, ScanRested
<1>3. CASE Stop
  <2>1. /\ loop' = "stopped" /\ pc = "Returned"
        /\ UNCHANGED <<attempts, lastVia, observed, delay, status, shutdown, sinceScan>>
    BY <1>3 DEF Stop, SupervisorInv, ScanRested
  <2> QED
    BY <1>1, <2>1 DEF SupervisorInv, TypeOK, BootstrapInv, DelayGrows, ScanRested
<1>4. CASE RequestShutdown
  <2>1. shutdown' = TRUE /\ UNCHANGED <<loop, attempts, lastVia, observed, delay, status, sinceScan>>
    BY <1>4 DEF RequestShutdown
  <2>2. DelayGrows'
    BY <2>1 DEF SupervisorInv, DelayGrows
  <2>3. ScanRested'
    BY <1>1, <2>1 DEF SupervisorInv, ScanRested, BeforeScan
  <2> QED
    BY <1>1, <2>1, <2>2, <2>3 DEF SupervisorInv, TypeOK, BootstrapInv
<1> QED
  BY <1>2, <1>3, <1>4

\* The transport moves nothing of the loop or of the cycle.
LEMMA EnvironmentKeeps ==
  ASSUME SupervisorInv, Environment \/ UNCHANGED vars
  PROVE  SupervisorInv'
<1>1. BootstrapInv'
  BY EnvironmentStep DEF SupervisorInv, Environment, vars
<1>2. pc' = pc /\ source' = source
  BY DEF Environment, Network, BecomesDue, Established, AttemptFailed, Accepted, Closed, vars,
         bootstrapVars, cycleVars
<1>3. UNCHANGED <<loop, attempts, lastVia, observed, delay, status, shutdown, sinceScan>>
  BY DEF Environment, vars, loopVars
<1>4. TypeOK' /\ DelayGrows'
  BY <1>1, <1>3 DEF SupervisorInv, TypeOK, BootstrapInv, DelayGrows
<1>5. ScanRested'
  BY <1>2, <1>3 DEF SupervisorInv, ScanRested, BeforeScan
<1> QED
  BY <1>1, <1>4, <1>5 DEF SupervisorInv

\* A cycle scans once: a scan begins only before the scan, and nothing leads
\* back there.
LEMMA ScanOnce ==
  ASSUME BootstrapInv, Cycle
  PROVE  /\ ScanBegins => BeforeScan
         /\ BeforeScan' => BeforeScan
<1>1. source \in Sources
  BY DEF BootstrapInv, BootstrapTypeOK
<1>2. CASE CheckConnected
  BY <1>2 DEF CheckConnected, Enter, ScanBegins, BeforeScan
<1>3. CASE DiscoverNothing
  BY <1>3 DEF DiscoverNothing, Enter, After, Sources, ScanBegins, BeforeScan
<1>4. CASE \E peers \in SUBSET Peers : Discover(peers)
  BY <1>4 DEF Discover, Enter, Sources, ScanBegins, BeforeScan
<1>5. CASE \E p \in Peers : DialEnough(p)
  BY <1>5 DEF DialEnough, ScanBegins, BeforeScan
<1>6. ASSUME NEW p \in Peers, DialNotEnough(p)
      PROVE  (ScanBegins => BeforeScan) /\ (BeforeScan' => BeforeScan)
  <2>1. pc = "Dialing" /\ source' = source /\ (pc' = pc \/ pc' = After[source])
    BY <1>6 DEF DialNotEnough, Enter
  <2> QED
    BY <1>1, <2>1 DEF After, Sources, ScanBegins, BeforeScan
<1>7. CASE Promote \/ NotPromoted \/ Announced \/ AnnounceFailed
  BY <1>7 DEF Promote, NotPromoted, Announced, AnnounceFailed, Enter, ScanBegins, BeforeScan
<1> QED
  BY <1>2, <1>3, <1>4, <1>5, <1>6, <1>7 DEF Cycle

LEMMA RunCycleKeeps ==
  ASSUME SupervisorInv, RunCycle
  PROVE  SupervisorInv'
<1>1. BootstrapInv'
  BY CycleStep DEF SupervisorInv, RunCycle
<1>2. /\ loop = "cycle" /\ UNCHANGED <<loop, attempts, lastVia, observed, delay, status, shutdown>>
      /\ sinceScan' = IF ScanBegins THEN "nothing" ELSE sinceScan
  BY DEF RunCycle
<1>3. TypeOK' /\ DelayGrows'
  BY <1>1, <1>2 DEF SupervisorInv, TypeOK, BootstrapInv, DelayGrows
<1>4. ScanRested'
  <2>1. BeforeScan' => BeforeScan /\ ~ScanBegins
    BY ScanOnce DEF SupervisorInv, RunCycle, BeforeScan, ScanBegins
  <2> QED
    BY <1>2, <2>1 DEF SupervisorInv, ScanRested
<1> QED
  BY <1>1, <1>3, <1>4 DEF SupervisorInv

LEMMA SupervisorInvInductive ==
  ASSUME SupervisorInv, [Next]_vars
  PROVE  SupervisorInv'
BY TurnHealthyKeeps, RenewedKeeps, TurnIsolatedKeeps, RunCycleKeeps, CycleReturnedKeeps,
   SleepKeeps, EnvironmentKeeps
   DEF Next, SupervisorStep

\* The loop's invariant for every policy: the types, the bookkeeping of its
\* cycles, the delay that was drawn and the rest before a scan (supervisor.rs:
\* 129-252).
THEOREM SupervisorInvariant == Spec => []SupervisorInv
BY SupervisorInvInit, SupervisorInvInductive, PTL DEF Spec

\* Type correctness of the loop and of the cycle it runs (supervisor.rs:129-225).
THEOREM SupervisorTypeOK == Spec => []TypeOK
<1>1. SupervisorInv => TypeOK
  BY DEF SupervisorInv
<1> QED
  BY <1>1, SupervisorInvariant, PTL

\* The supervisor is one of the callers the bootstrap theorems speak of: its
\* cycles do nothing once satisfied and try everything before they give up
\* (lib.rs:179-273, supervisor.rs:129-225).
THEOREM SupervisorCyclesSound ==
  Spec => [](IdleOnceSatisfied /\ IsolatedAfterTryingAll)
<1>1. SupervisorInv => IdleOnceSatisfied /\ IsolatedAfterTryingAll
  BY DEF SupervisorInv, BootstrapInv, IsolatedAfterTryingAll, Bookkeeping, SourcesInOrder,
         Current, Searching
<1> QED
  BY <1>1, SupervisorInvariant, PTL

\* For every initial and maximum backoff and however many cycles fail in a
\* row, the sleep is at least half of the doubled delay and at most the
\* maximum (supervisor.rs:215-223, 239-252).
THEOREM SupervisorDelayGrows == Spec => []DelayGrows
<1>1. SupervisorInv => DelayGrows
  BY DEF SupervisorInv
<1> QED
  BY <1>1, SupervisorInvariant, PTL

\* The registry is never scanned twice without a sleep or a bootstrap that
\* reached its target in between (supervisor.rs:211-223).
THEOREM SupervisorNoRepeatedFailedScan == Spec => NoRepeatedFailedScan
<1>1. SupervisorInv /\ [Next]_vars => [ScanBegins => sinceScan # "nothing"]_vars
  <2> SUFFICES ASSUME SupervisorInv, Next, ScanBegins PROVE sinceScan # "nothing"
    OBVIOUS
  <2>1. CASE RunCycle
    <3>1. loop = "cycle" /\ BeforeScan
      BY <2>1, ScanOnce DEF RunCycle, SupervisorInv
    <3> QED
      BY <3>1 DEF SupervisorInv, ScanRested
  <2>2. CASE ~RunCycle
    <3>1. pc' = pc \/ pc' = "Start" \/ pc' = "Returned"
      BY <2>2 DEF Next, SupervisorStep, TurnHealthy, Renewed, TurnIsolated, BeginCycle,
         CycleReturned, EndCycle, Wake, Stop, RequestShutdown, Environment, Network, BecomesDue,
         Established, AttemptFailed, Accepted, Closed, bootstrapVars, cycleVars
    <3> QED
      BY <3>1 DEF ScanBegins
  <2> QED
    BY <2>1, <2>2
<1> QED
  BY <1>1, SupervisorInvariant, PTL DEF Spec, NoRepeatedFailedScan

===============================================================================
