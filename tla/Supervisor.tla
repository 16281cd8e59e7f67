------------------------------ MODULE Supervisor ------------------------------
(***************************************************************************)
(* Supervisor::run (crates/resurrect-node/src/supervisor.rs): the loop     *)
(* that keeps a node connected.  It polls while healthy, runs a bootstrap  *)
(* cycle when not, renews a seed's announcement, publishes a status file   *)
(* after every turn, and backs off between failed cycles.  The shutdown    *)
(* signal is looked at only while it sleeps.                               *)
(***************************************************************************)
EXTENDS Bootstrap

CONSTANTS
  Reachable,       \* a peer that accepts us when it is dialed often enough
  ShiftCap,        \* exponential_backoff stops doubling here (20)
  InitialBackoff,  \* policy.initial_backoff
  MaximumBackoff   \* policy.maximum_backoff

ASSUME ReachableAssumption == Reachable \in Peers
ASSUME BackoffAssumption ==
  ShiftCap \in Nat /\ InitialBackoff \in Nat \ {0} /\ MaximumBackoff \in Nat \ {0}

VARIABLES
  loop,       \* where run is: "top", "renewing", "cycle", "poll", "backoff", "stopped", "failed"
  attempts,   \* consecutive failed cycles; values from ShiftCap on behave alike
  lastVia,    \* last_connected_via
  observed,   \* the connection count a healthy turn read, while it renews
  delay,      \* the delay of the current backoff
  status,     \* the published status file
  shutdown,   \* the shutdown future has resolved
  sinceScan   \* history: what came after the last registry scan began

loopVars == <<loop, attempts, lastVia, observed, delay, status, shutdown, sinceScan>>
vars == <<bootstrapVars, loopVars>>

-------------------------------------------------------------------------------
\* exponential_backoff: initial * 2^min(attempt, 20), at most the maximum.
ExponentialBackoff(attempt) ==
  LET exponent == IF attempt < ShiftCap THEN attempt ELSE ShiftCap
      product == InitialBackoff * 2 ^ exponent
  IN  IF product < MaximumBackoff THEN product ELSE MaximumBackoff

\* Faulty: the number of failures is not passed on, so the delay never grows.
BackoffOfFirst(attempt) == (ExponentialBackoff(0) \div 2) .. ExponentialBackoff(0)

\* backoff_with_jitter: anywhere in the upper half of the exponential delay.
BackoffWithJitter(attempt) ==
  LET base == ExponentialBackoff(attempt) IN (base \div 2) .. base

\* publish_status writes a temporary file and renames it, so a reader sees the
\* old status or the new one; when the write fails, run returns the error.
PublishStatus(new, next) ==
  \/ status' = new /\ loop' = next
  \/ UNCHANGED status /\ loop' = "failed"

Status(state, peers, via, error) ==
  [state |-> state, peers |-> peers, via |-> via, error |-> error]

\* Enough peers: no scan.  A due renewal is awaited before the status goes out.
TurnHealthy ==
  /\ loop = "top"
  /\ TargetReached
  /\ ReadsConnected
  /\ attempts' = 0
  /\ \/ /\ due
        /\ loop' = "renewing"
        /\ observed' = Cardinality(connected)
        /\ UNCHANGED status
     \/ /\ ~due
        /\ PublishStatus(Status("Connected", Cardinality(connected), lastVia, FALSE), "poll")
        /\ UNCHANGED observed
  /\ UNCHANGED <<connectorVars, verified, due, cycleVars, offered, tried, lastVia, delay, shutdown, sinceScan>>

\* announce(maintenance_ttl) returns; a failure only reaches the status.
Renewed ==
  /\ loop = "renewing"
  /\ \E ok \in BOOLEAN :
       /\ due' = ~ok
       /\ PublishStatus(Status("Connected", observed, lastVia, ~ok), "poll")
  /\ observed' = 0
  /\ UNCHANGED <<connectorVars, verified, cycleVars, history, attempts, lastVia, delay, shutdown, sinceScan>>

\* Too few peers: one bootstrap cycle.
TurnIsolated ==
  /\ loop = "top"
  /\ ~TargetReached
  /\ ReadsConnected
  /\ loop' = "cycle"
  /\ BeginCycle
  /\ UNCHANGED <<attempts, lastVia, observed, delay, status, shutdown, sinceScan>>

\* Faulty: every cycle is followed by the next one.
NextTurnEager(state) == "top"

\* A cycle that connected is followed by a turn at once, any other by a sleep.
NextTurn(state) == IF state = "Connected" THEN "top" ELSE "backoff"

\* run_cycle returned: the count is read again for the status, then a
\* connected node turns at once and any other one backs off.
CycleReturned ==
  /\ loop = "cycle"
  /\ EndCycle
  /\ ReadsConnected
  /\ lastVia' = IF outcome.via = None THEN lastVia ELSE outcome.via
  /\ PublishStatus(Status(outcome.state, Cardinality(connected), outcome.via, outcome.error),
                   NextTurn(outcome.state))
  /\ CASE loop' = "top" -> attempts' = 0 /\ UNCHANGED delay
       [] loop' = "backoff" ->
            /\ delay' \in BackoffWithJitter(attempts)
            /\ attempts' = IF attempts <= ShiftCap THEN attempts + 1 ELSE attempts
       [] loop' = "failed" -> UNCHANGED <<attempts, delay>>
  /\ sinceScan' = IF outcome.state = "Connected" /\ sinceScan = "nothing"
                     THEN "connected" ELSE sinceScan
  /\ UNCHANGED <<observed, shutdown>>

\* wait_or_shutdown: the sleep elapses.  A sleep that ends together with the
\* signal is a sleep that ended just before it.
Wake ==
  /\ loop \in {"poll", "backoff"}
  /\ ~shutdown
  /\ loop' = "top"
  /\ delay' = 0
  /\ sinceScan' = "rested"
  /\ UNCHANGED <<bootstrapVars, attempts, lastVia, observed, status, shutdown>>

\* Faulty: only the healthy poll listens to the signal.
StopWhenHealthy ==
  /\ loop = "poll"
  /\ shutdown
  /\ loop' = "stopped"
  /\ UNCHANGED <<bootstrapVars, attempts, lastVia, observed, delay, status, shutdown, sinceScan>>

\* wait_or_shutdown: the signal arrived, before or during the sleep.
Stop ==
  /\ loop \in {"poll", "backoff"}
  /\ shutdown
  /\ loop' = "stopped"
  /\ UNCHANGED <<bootstrapVars, attempts, lastVia, observed, delay, status, shutdown, sinceScan>>

RequestShutdown ==
  /\ ~shutdown
  /\ shutdown' = TRUE
  /\ UNCHANGED <<bootstrapVars, loop, attempts, lastVia, observed, delay, status, sinceScan>>

Environment == (Network \/ BecomesDue) /\ UNCHANGED loopVars

ScanBegins == pc # "ResurrectScan" /\ pc' = "ResurrectScan"

\* The controller's steps, while run awaits run_cycle.
RunCycle ==
  /\ loop = "cycle"
  /\ Cycle
  /\ sinceScan' = IF ScanBegins THEN "nothing" ELSE sinceScan
  /\ UNCHANGED <<loop, attempts, lastVia, observed, delay, status, shutdown>>

Init ==
  /\ BootstrapInit
  /\ loop = "top"
  /\ attempts = 0
  /\ lastVia = None
  /\ observed = 0
  /\ delay = 0
  /\ status = None
  /\ shutdown = FALSE
  /\ sinceScan = "rested"

SupervisorStep ==
  \/ TurnHealthy
  \/ Renewed
  \/ TurnIsolated
  \/ RunCycle
  \/ CycleReturned
  \/ Wake
  \/ Stop

Next == SupervisorStep \/ Environment \/ RequestShutdown

Spec == Init /\ [][Next]_vars

-------------------------------------------------------------------------------
(***************************************************************************)
(* Properties                                                              *)
(***************************************************************************)
TypeOK ==
  /\ BootstrapTypeOK
  /\ loop \in {"top", "renewing", "cycle", "poll", "backoff", "stopped", "failed"}
  /\ attempts \in 0..ShiftCap + 1
  /\ lastVia \in Sources \cup {"Start", None}
  /\ observed \in Nat
  /\ delay \in Int
  /\ status = None \/ status \in [state : {"Connected", "Backoff"}, peers : Nat,
                                 via : Sources \cup {"Start", None}, error : BOOLEAN]
  /\ shutdown \in BOOLEAN
  /\ sinceScan \in {"rested", "connected", "nothing"}

\* A node that keeps failing waits longer and longer: before the next cycle
\* it sleeps at least half of initial * 2^(failures - 1), and never beyond
\* the maximum (supervisor.rs:215-223, 239-252).
DelayGrows ==
  loop = "backoff" =>
    /\ attempts > 0
    /\ 2 * delay + 1 >= ExponentialBackoff(attempts - 1)
    /\ delay <= MaximumBackoff

\* The registry is never scanned twice without a sleep or a bootstrap that
\* reached its target in between (supervisor.rs:211-223).
NoRepeatedFailedScan == [][ScanBegins => sinceScan # "nothing"]_vars

-------------------------------------------------------------------------------
(***************************************************************************)
(* Liveness.  The loop is one task of the runtime, so its own steps and    *)
(* its timers, the dial timeout among them, are weakly fair.  Calls to the *)
(* Ethereum provider carry no timeout: that they return is an assumption   *)
(* on the provider, kept apart.                                            *)
(***************************************************************************)
AwaitsProvider == pc \in {"ResurrectScan", "AnnounceSelf"}

LocalStep ==
  \/ TurnHealthy
  \/ TurnIsolated
  \/ RunCycle /\ ~AwaitsProvider
  \/ CycleReturned
  \/ Wake
  \/ Stop

ProviderStep == Renewed \/ (RunCycle /\ AwaitsProvider)

\* The registry returns the reachable peer.
Finds == RunCycle /\ pc = "ResurrectScan" /\ pc' = "Dialing" /\ Reachable \in offered'

\* The reachable peer accepts one of the attempts opened to it.
Accepts == Established(Reachable) /\ UNCHANGED loopVars

LocalFairness == WF_vars(LocalStep) /\ SF_vars(Accepts)

RegistrySpec ==
  Spec /\ LocalFairness /\ WF_vars(ProviderStep) /\ SF_vars(Finds)

Ended == loop \in {"stopped", "failed"}

\* A node below its target gets back to it as long as the registry keeps
\* naming one reachable peer, whatever else fails (run and run_cycle).
Recovers == ~TargetReached ~> (TargetReached \/ shutdown \/ Ended)

\* Once connections stop flapping, a shutdown request ends the loop.
Settles == <>[][\A p \in Peers \cup Strangers : ~Closed(p)]_vars
ShutdownStops == Settles => (shutdown ~> Ended)
===============================================================================
