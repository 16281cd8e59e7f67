----------------------------- MODULE PeerDiscovery -----------------------------
(***************************************************************************)
(* The browser client: ResurrectPeerDiscovery (packages/ts/src/libp2p.ts), *)
(* which a js-libp2p host starts and stops, over scanRegistry              *)
(* (packages/ts/src/scanner.ts).                                           *)
(*                                                                         *)
(* scanRegistry walks the logs as the native scanner does, so the search,  *)
(* the ranges and the store are those of module Scanner; how it picks its  *)
(* head and its first block differs, and it keeps no checkpoint.           *)
(* JavaScript runs one callback at a time: a step ends at an await, or     *)
(* where a listener of a dispatched event may call back.                   *)
(***************************************************************************)
EXTENDS Scanner

CONSTANTS
  Lookbacks,  \* maxBlockLookback, of which one is chosen; 0 when it is absent
  Unparsed    \* identities toPeerInfo makes nothing of

ASSUME DiscoveryAssumption == Lookbacks \subseteq Nat /\ Unparsed \subseteq Identity

VARIABLES
  lookback,   \* the option of this adapter
  running,    \* #running
  timers,     \* intervals that have not been cleared
  scanning,   \* #scanning
  report,     \* candidates of the report the loop has not come to
  fed         \* history: what this scan has handed to the host

adapterVars == <<lookback, running, timers, scanning, report, fed>>
discoveryVars == <<scannerVars, adapterVars>>

-------------------------------------------------------------------------------
(***************************************************************************)
(* start, stop and scanOnce                                                *)
(***************************************************************************)

Start ==
  /\ ~running
  /\ running' = TRUE
  /\ timers' = timers + 1
  /\ UNCHANGED <<scannerVars, lookback, scanning, report, fed>>

\* Clears the interval #timer names, if it names one.
Stop ==
  /\ running
  /\ running' = FALSE
  /\ timers' = timers - 1
  /\ UNCHANGED <<scannerVars, lookback, scanning, report, fed>>

\* A call that is not collapsed into a scan in flight.
ScanOnce ==
  /\ ~scanning
  /\ scans < MaxScans
  /\ scans' = scans + 1
  /\ scanning' = TRUE
  /\ pc' = "gate"
  /\ UNCHANGED <<vars, chainVars, searchVars, logVars, reorged, checkpoint, accepted,
                 lookback, running, timers, report, fed>>

TimerFires == timers > 0 /\ ScanOnce

GateOpens ==
  /\ pc = "gate"
  /\ pc' = "latest"
  /\ UNCHANGED <<vars, chainVars, scanVars, adapterVars>>

\* Faulty: the early return leaves the flag set.
GateClosesScanning ==
  /\ pc = "gate"
  /\ pc' = "idle"
  /\ UNCHANGED <<vars, chainVars, scanVars, adapterVars>>

\* shouldScan answers false or throws.
GateCloses ==
  /\ pc = "gate"
  /\ pc' = "idle"
  /\ scanning' = FALSE
  /\ UNCHANGED <<vars, chainVars, scanVars, lookback, running, timers, report, fed>>

\* finally: scanOnce is over, with a report or with an error.
Finally ==
  /\ ScanReturns
  /\ scanning' = FALSE
  /\ report' = {}
  /\ fed' = {}
  /\ UNCHANGED <<chainVars, reorged, checkpoint, accepted, scans, lookback, running, timers>>

-------------------------------------------------------------------------------
(***************************************************************************)
(* scanRegistry                                                            *)
(***************************************************************************)
HeadAt(n, b) == [number |-> n, time |-> BlockAt(b).time, fork |-> BlockAt(b).fork]

\* Faulty: one block short.
LookbackStartShort(n) ==
  LET first == IF n + 1 > lookback THEN n - lookback + 2 ELSE 0
  IN  IF first > DeploymentBlock THEN first ELSE DeploymentBlock

\* The first of the last lookback blocks up to n, not before the deployment.
LookbackStart(n) ==
  LET first == IF n + 1 > lookback THEN n - lookback + 1 ELSE 0
  IN  IF first > DeploymentBlock THEN first ELSE DeploymentBlock

\* The head is known: search for the first block, or go back a fixed number.
BeginAt(n) ==
  /\ pc' = "search"
  /\ low' = IF lookback = 0 THEN DeploymentBlock ELSE LookbackStart(n)
  /\ high' = IF lookback = 0 THEN n ELSE low'

\* verifyProvider, then the latest block.  With a lookback, or without
\* confirmations, its timestamp and its hash serve for the head as well.
BrowserLatest ==
  LET n == ConfirmedNumber(Height)
  IN  /\ pc = "latest"
      /\ DeploymentBlock <= n
      /\ \/ /\ lookback = 0 /\ n # Height
            /\ pc' = "confirmed"
            /\ high' = n
            /\ UNCHANGED <<head, low>>
         \/ /\ lookback # 0 \/ n = Height
            /\ head' = HeadAt(n, Height)
            /\ BeginAt(n)
      /\ UNCHANGED <<vars, chainVars, logVars, reorged, checkpoint, accepted, scans, adapterVars>>

BrowserHead ==
  /\ pc = "confirmed"
  /\ IsBlock(high)
  /\ head' = HeadAt(high, high)
  /\ BeginAt(high)
  /\ UNCHANGED <<vars, chainVars, logVars, reorged, checkpoint, accepted, scans, adapterVars>>

\* findStartBlock.
FindStartBlock == (Search \/ SearchDone) /\ UNCHANGED adapterVars

\* The loop over ranges of blocks.
WalkRanges == (Query \/ RangeLimited \/ NextRange \/ LogsDone) /\ UNCHANGED adapterVars

\* A log is decoded, and insertBounded takes its candidate.
InsertBounded == Validate /\ UNCHANGED adapterVars

\* A request fails or its answer is malformed, the chain or the contract is
\* not the descriptor's, or the deployment is newer than the head: onError.
BrowserFails ==
  /\ \/ pc \in {"latest", "confirmed"}
     \/ pc = "search" /\ low < high
     \/ pc = "query" /\ MoreLogs
  /\ Finally

-------------------------------------------------------------------------------
(***************************************************************************)
(* The loop over the report.  The store stays until the loop is over, for  *)
(* the properties to compare with.                                         *)
(***************************************************************************)
Deliver ==
  /\ pc = "report"
  /\ pc' = "emit"
  /\ report' = {candidates[i] : i \in Retained}
  /\ UNCHANGED <<vars, chainVars, scanVars, lookback, running, timers, scanning, fed>>

\* The report is sorted by compareCandidates.
IsNext(c) == c \in report /\ \A d \in report : ~Fresher(d, c)

\* The PeerInfo, unless the identity or every endpoint fails to parse.
ToPeerInfo(c) == IF c.identity \in Unparsed THEN {} ELSE {c}

\* Faulty: a candidate that makes no PeerInfo ends the loop.
EmitOrBreak(c) ==
  /\ pc = "emit"
  /\ running
  /\ report' = IF ToPeerInfo(c) = {} THEN {} ELSE report \ {c}
  /\ fed' = fed \cup ToPeerInfo(c)
  /\ UNCHANGED <<vars, chainVars, pc, scanVars, lookback, running, timers, scanning>>

\* safeDispatchEvent, or continue without a PeerInfo.
Emit(c) ==
  /\ pc = "emit"
  /\ running
  /\ report' = report \ {c}
  /\ fed' = fed \cup ToPeerInfo(c)
  /\ UNCHANGED <<vars, chainVars, pc, scanVars, lookback, running, timers, scanning>>

\* The loop ends, or breaks because the adapter is not running.
EmitDone ==
  /\ pc = "emit"
  /\ report = {} \/ ~running
  /\ Finally

-------------------------------------------------------------------------------
DiscoveryInit ==
  /\ ScannerInit
  /\ lookback \in Lookbacks
  /\ running = FALSE
  /\ timers = 0
  /\ scanning = FALSE
  /\ report = {}
  /\ fed = {}

ScanOnceStep ==
  \/ GateOpens \/ GateCloses
  \/ BrowserLatest \/ BrowserHead \/ BrowserFails
  \/ FindStartBlock \/ WalkRanges \/ InsertBounded
  \/ Deliver
  \/ \E c \in report : IsNext(c) /\ Emit(c)
  \/ EmitDone

Chain ==
  /\ Mine \/ \E n \in 0..MaxHeight : Reorganize(n)
  /\ UNCHANGED adapterVars

DiscoveryNext == Start \/ Stop \/ ScanOnce \/ TimerFires \/ ScanOnceStep \/ Chain

DiscoverySpec == DiscoveryInit /\ [][DiscoveryNext]_discoveryVars

\* The event loop runs callbacks and intervals, and the provider answers.
DiscoveryFairSpec ==
  /\ DiscoverySpec
  /\ WF_discoveryVars(TimerFires)
  /\ WF_discoveryVars(ScanOnceStep)

-------------------------------------------------------------------------------
(***************************************************************************)
(* Properties                                                              *)
(***************************************************************************)
DiscoveryTypeOK ==
  /\ DataTypeOK
  /\ pc \in {"idle", "gate", "latest", "confirmed", "search", "query", "validate", "report",
            "emit"}
  /\ lookback \in Nat
  /\ running \in BOOLEAN /\ scanning \in BOOLEAN
  /\ timers \in Nat
  /\ report \subseteq Candidate /\ fed \subseteq Candidate

\* Blocks are at least a second apart, so this many cover the longest lifetime;
\* the clock of a scan with a lookback is ahead of its head by the confirmations.
LookbackCovers == lookback = 0 \/ lookback + Confirmations >= MaxTtl

\* A scan below the log cap has seen every announcement alive at its clock up
\* to its head and nothing else, with the timestamp search and also with a
\* lookback that covers the lifetime (scanner.ts:46-126).
BrowserScanComplete ==
  pc = "report" /\ processed < MaxLogs /\ LookbackCovers => seen = Live

\* The host is fed the sample of what the scan saw: whatever start, stop and
\* the chain do meanwhile, each candidate with an address has been handed over
\* or is still to come until the loop ends, and no other ever is
\* (libp2p.ts:118-125).
FeedsSample ==
  LET sampled == {Sample[i] : i \in DOMAIN Sample}
  IN  pc = "emit" =>
        /\ fed \subseteq {c \in sampled : c.identity \notin Unparsed}
        /\ \A c \in sampled : c \in fed \cup report \/ c.identity \in Unparsed

\* An adapter that stays started keeps scanning: no closed gate, failed scan or
\* earlier stop leaves it believing that a scan is in flight
\* (libp2p.ts:111-134).
KeepsScanning == <>[]running => <>(scans = MaxScans)
===============================================================================
