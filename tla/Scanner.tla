-------------------------------- MODULE Scanner --------------------------------
(***************************************************************************)
(* RegistryScanner::scan (crates/resurrect-ethereum/src/scanner.rs), run   *)
(* by RegistryDiscovery::discover (crates/resurrect-node/src/registry.rs), *)
(* over a chain that grows and reorganizes between the scanner's calls.    *)
(*                                                                         *)
(* A scan picks a confirmed head, binary-searches block timestamps for the *)
(* first block whose announcements can still be alive, and reads the logs  *)
(* from there to the head in chunks, feeding them to a CandidateStore.     *)
(* Every provider call is a step of its own.                               *)
(***************************************************************************)
EXTENDS CandidateStore, Sequences

CONSTANTS
  Ttls, MaxTtl,        \* announced lifetimes; MAX_TTL of the registry
  Unusable,            \* an event validate_announcement refuses, expiry apart
  Delays,              \* seconds between two blocks
  DeploymentBlock,     \* descriptor.registry.deployment_block
  InitialChunk, MinimumChunk, MaxLogs, Confirmations, UseFinalityTags,  \* ScannerConfig
  LogsPerBlock, MaxHeight, MaxReorgs, MaxScans  \* bounds of the model

ASSUME ScannerAssumption ==
  /\ MaxTtl \in Nat /\ Ttls \subseteq 1..MaxTtl
  /\ Delays \subseteq Nat \ {0}
  /\ {DeploymentBlock, InitialChunk, MinimumChunk, MaxLogs, Confirmations} \subseteq Nat
  /\ UseFinalityTags \in BOOLEAN
  /\ {LogsPerBlock, MaxHeight, MaxReorgs, MaxScans} \subseteq Nat
  /\ 0..MaxHeight \subseteq Block /\ 0..(LogsPerBlock - 1) \subseteq LogIndex

VARIABLES
  chain,       \* chain[n + 1] is block n of the canonical chain
  settled,     \* the highest block that ever had Confirmations blocks on top
  reorgs,      \* number of reorganizations, which also tells forks apart
  pc,          \* where scan is
  head,        \* the selected head: its number, timestamp and fork
  low, high,   \* the binary search of find_start_block
  from, to,    \* the range of the log query
  chunk,       \* chunk_size
  page,        \* announcements of the range that are not validated yet
  processed,   \* logs_processed
  reorged,     \* reorg_detected of this scan
  checkpoint,  \* RegistryDiscovery.checkpoint
  accepted,    \* history: the highest sequence reported for each identity, or 0
  scans        \* number of scans started

chainVars == <<chain, settled, reorgs>>
searchVars == <<head, low, high>>
logVars == <<from, to, chunk, page, processed>>
scanVars == <<searchVars, logVars, reorged, checkpoint, accepted, scans>>
scannerVars == <<vars, chainVars, pc, scanVars>>

-------------------------------------------------------------------------------
(***************************************************************************)
(* The chain.  Timestamps increase, and a block that has had Confirmations *)
(* blocks on top of it stays.  The contract sets validUntil to time + ttl. *)
(***************************************************************************)
Log == [identity : Identity, sequence : Sequence, ttl : Ttls] \cup {Unusable}

LogLists == UNION {[1..n -> Log] : n \in 0..LogsPerBlock}

Height == Len(chain) - 1
BlockAt(n) == chain[n + 1]
IsBlock(n) == n \in 0..Height

Hash(n) == <<n, BlockAt(n).fork>>

\* The blocks that may come on top of one with the given timestamp.
Successors(time) ==
  [time : {time + d : d \in Delays}, fork : {reorgs}, logs : LogLists]

Mine ==
  /\ Height < MaxHeight
  /\ \E b \in Successors(BlockAt(Height).time) : chain' = Append(chain, b)
  /\ settled' = IF Height + 1 - Confirmations > settled
                  THEN Height + 1 - Confirmations ELSE settled
  /\ UNCHANGED <<reorgs, vars, pc, scanVars>>

\* The blocks above n, none of them settled, give way to a block of another
\* fork; more can follow it.
Reorganize(n) ==
  /\ reorgs < MaxReorgs
  /\ n >= settled /\ n < Height
  /\ reorgs' = reorgs + 1
  /\ \E b \in Successors(BlockAt(n).time) :
       chain' = Append(SubSeq(chain, 1, n + 1), [b EXCEPT !.fork = reorgs'])
  /\ UNCHANGED <<settled, vars, pc, scanVars>>

-------------------------------------------------------------------------------
(***************************************************************************)
(* scan                                                                    *)
(***************************************************************************)
NoBlock == [number |-> 0, time |-> 0, fork |-> 0]

\* CandidateStore::new.
EmptyStore == candidates' = [i \in {} |-> i] /\ seen' = {}

\* scan returns; its locals and its store are gone.
ScanReturns ==
  /\ pc' = "idle"
  /\ EmptyStore
  /\ head' = NoBlock /\ low' = 0 /\ high' = 0
  /\ from' = 0 /\ to' = 0 /\ chunk' = 0 /\ page' = <<>> /\ processed' = 0

\* discover reads its checkpoint, scan compares the chain id and the registry
\* constants with the descriptor.
BeginScan ==
  /\ pc = "idle"
  /\ scans < MaxScans
  /\ scans' = scans + 1
  /\ pc' = IF UseFinalityTags THEN "tagged head" ELSE "latest"
  /\ reorged' = FALSE
  /\ UNCHANGED <<vars, chainVars, searchVars, logVars, checkpoint, accepted>>

\* The loop condition of scan_logs.
MoreLogs == from <= head.number /\ processed < MaxLogs

\* A provider call fails, the chain or the contract is not the descriptor's, or
\* a block is missing: the scan returns an error and the checkpoint stays.
ScanFails ==
  /\ \/ pc \in {"tagged head", "latest", "confirmed", "checkpoint"}
     \/ pc = "search" /\ low < high
     \/ pc = "query" /\ MoreLogs
  /\ ScanReturns
  /\ UNCHANGED <<chainVars, reorged, checkpoint, accepted, scans>>

\* The head is chosen; a registry deployed after it is an error (ScanFails).
Choose(n) ==
  /\ IsBlock(n)
  /\ DeploymentBlock <= n
  /\ head' = [number |-> n, time |-> BlockAt(n).time, fork |-> BlockAt(n).fork]
  /\ pc' = "checkpoint"

\* The finalized or the safe tag answers, with a block no newer than settled.
TaggedHead ==
  /\ pc = "tagged head"
  /\ \E n \in 0..settled : Choose(n)
  /\ UNCHANGED <<vars, chainVars, low, high, logVars, reorged, checkpoint, accepted, scans>>

\* Neither tag is supported or has a block.
NoTaggedHead ==
  /\ pc = "tagged head"
  /\ pc' = "latest"
  /\ UNCHANGED <<vars, chainVars, scanVars>>

\* Faulty: the newest block counts as confirmed.
ConfirmedAtOnce(latest) == latest

\* latest minus the confirmations, saturating at the genesis block.
ConfirmedNumber(latest) == IF latest < Confirmations THEN 0 ELSE latest - Confirmations

ReadLatest ==
  /\ pc = "latest"
  /\ pc' = "confirmed"
  /\ high' = ConfirmedNumber(Height)
  /\ UNCHANGED <<vars, chainVars, head, low, logVars, reorged, checkpoint, accepted, scans>>

ReadConfirmed ==
  /\ pc = "confirmed"
  /\ Choose(high)
  /\ UNCHANGED <<vars, chainVars, low, high, logVars, reorged, checkpoint, accepted, scans>>

\* detect_reorg, and the start of the search between deployment and head.
DetectReorg ==
  /\ pc = "checkpoint"
  /\ reorged' = (checkpoint # <<>> /\ ~(IsBlock(checkpoint[1]) /\ Hash(checkpoint[1]) = checkpoint))
  /\ low' = DeploymentBlock
  /\ high' = head.number
  /\ pc' = "search"
  /\ UNCHANGED <<vars, chainVars, head, logVars, checkpoint, accepted, scans>>

\* The head's timestamp minus the longest lifetime, saturating.
Cutoff == IF head.time < MaxTtl THEN 0 ELSE head.time - MaxTtl

Search ==
  /\ pc = "search"
  /\ low < high
  /\ LET middle == low + (high - low) \div 2
     IN  /\ IsBlock(middle)
         /\ IF BlockAt(middle).time < Cutoff
              THEN low' = middle + 1 /\ UNCHANGED high
              ELSE high' = middle /\ UNCHANGED low
  /\ UNCHANGED <<vars, chainVars, pc, head, logVars, reorged, checkpoint, accepted, scans>>

AtLeastOne(n) == IF n = 0 THEN 1 ELSE n

\* The store and the counters of scan_logs start empty.
SearchDone ==
  /\ pc = "search"
  /\ low >= high
  /\ pc' = "query"
  /\ EmptyStore
  /\ from' = low
  /\ chunk' = AtLeastOne(InitialChunk)
  /\ processed' = 0
  /\ UNCHANGED <<chainVars, searchVars, to, page, reorged, checkpoint, accepted, scans>>

-------------------------------------------------------------------------------
(***************************************************************************)
(* scan_logs                                                               *)
(***************************************************************************)
RangeEnd == IF from + chunk - 1 < head.number THEN from + chunk - 1 ELSE head.number

\* Where the logs of the blocks first..last are: a block and a place in it.
Positions(first, last) ==
  {p \in (first..last) \X (1..LogsPerBlock) : p[2] \in DOMAIN BlockAt(p[1]).logs}

\* The log at p with its position, as the provider returns it.
Event(p) ==
  LET block == BlockAt(p[1])
      log == block.logs[p[2]]
  IN  [block |-> p[1], logIndex |-> p[2] - 1, log |-> log,
       validUntil |-> IF log = Unusable THEN 0 ELSE block.time + log.ttl]

\* The number of positions in at up to p, in chain order.
Place(at, p) == Cardinality({q \in at : q[1] < p[1] \/ (q[1] = p[1] /\ q[2] <= p[2])})

\* The events at these positions, in chain order.
Events(at) == [m \in 1..Cardinality(at) |-> Event(CHOOSE p \in at : Place(at, p) = m)]

Lesser(a, b) == IF a < b THEN a ELSE b

\* What is beyond the log cap is dropped.
Page(events) == SubSeq(events, 1, Lesser(Len(events), MaxLogs - processed))

\* eth_getLogs answers.
Query ==
  /\ pc = "query"
  /\ MoreLogs
  /\ IsBlock(RangeEnd)
  /\ to' = RangeEnd
  /\ page' = Page(Events(Positions(from, RangeEnd)))
  /\ pc' = "validate"
  /\ UNCHANGED <<vars, chainVars, searchVars, from, chunk, processed, reorged, checkpoint,
                 accepted, scans>>

\* The provider refuses the range: halve the chunk.  At the minimum the scan
\* fails (ScanFails).
RangeLimited ==
  /\ pc = "query"
  /\ MoreLogs
  /\ chunk > AtLeastOne(MinimumChunk)
  /\ chunk' = IF chunk \div 2 > AtLeastOne(MinimumChunk)
                THEN chunk \div 2 ELSE AtLeastOne(MinimumChunk)
  /\ UNCHANGED <<vars, chainVars, pc, searchVars, from, to, page, processed, reorged,
                 checkpoint, accepted, scans>>

\* validate_announcement: an expired or unusable event is refused.
Usable(event) == event.log # Unusable /\ event.validUntil > head.time

CandidateOf(event) ==
  [identity |-> event.log.identity, sequence |-> event.log.sequence,
   block |-> event.block, logIndex |-> event.logIndex]

Validate ==
  /\ pc = "validate"
  /\ page # <<>>
  /\ page' = Tail(page)
  /\ processed' = processed + 1
  /\ IF Usable(Head(page)) THEN Insert(CandidateOf(Head(page))) ELSE UNCHANGED vars
  /\ UNCHANGED <<chainVars, pc, searchVars, from, to, chunk, reorged, checkpoint, accepted, scans>>

\* Faulty: the range moves on by the initial chunk, not by what was read.
NextRangeByChunk ==
  /\ pc = "validate"
  /\ page = <<>>
  /\ IF to = head.number THEN pc' = "report" /\ UNCHANGED from
                         ELSE pc' = "query" /\ from' = from + InitialChunk
  /\ UNCHANGED <<vars, chainVars, searchVars, to, chunk, page, processed, reorged, checkpoint,
                 accepted, scans>>

\* Faulty: the next range starts at the last block of this one.
NextRangeOverlapping ==
  /\ pc = "validate"
  /\ page = <<>>
  /\ IF to = head.number THEN pc' = "report" /\ UNCHANGED from
                         ELSE pc' = "query" /\ from' = to
  /\ UNCHANGED <<vars, chainVars, searchVars, to, chunk, page, processed, reorged, checkpoint,
                 accepted, scans>>

\* The page is done: the next range, unless this one ended at the head.
NextRange ==
  /\ pc = "validate"
  /\ page = <<>>
  /\ IF to = head.number THEN pc' = "report" /\ UNCHANGED from
                         ELSE pc' = "query" /\ from' = to + 1
  /\ UNCHANGED <<vars, chainVars, searchVars, to, chunk, page, processed, reorged, checkpoint,
                 accepted, scans>>

\* The loop condition fails: past the head, or at the log cap.
LogsDone ==
  /\ pc = "query"
  /\ ~MoreLogs
  /\ pc' = "report"
  /\ UNCHANGED <<vars, chainVars, scanVars>>

\* scan returns and discover saves the checkpoint; the candidates are cached
\* and handed to the bootstrap controller.
Report ==
  /\ pc = "report"
  /\ ScanReturns
  /\ checkpoint' = <<head.number, head.fork>>
  /\ accepted' = [i \in Identity |->
       IF i \in Retained /\ candidates[i].sequence > accepted[i]
         THEN candidates[i].sequence ELSE accepted[i]]
  /\ UNCHANGED <<chainVars, reorged, scans>>

ScannerInit ==
  /\ Init
  /\ chain = <<[time |-> 1, fork |-> 0, logs |-> <<>>]>>
  /\ settled = 0
  /\ reorgs = 0
  /\ pc = "idle"
  /\ head = NoBlock /\ low = 0 /\ high = 0
  /\ from = 0 /\ to = 0 /\ chunk = 0 /\ page = <<>> /\ processed = 0
  /\ reorged = FALSE
  /\ checkpoint = <<>>
  /\ accepted = [i \in Identity |-> 0]
  /\ scans = 0

\* The scanner's own steps; every provider call returns, perhaps with an error.
ScanStep ==
  \/ ScanFails
  \/ TaggedHead
  \/ NoTaggedHead
  \/ ReadLatest
  \/ ReadConfirmed
  \/ DetectReorg
  \/ Search
  \/ SearchDone
  \/ Query
  \/ RangeLimited
  \/ Validate
  \/ NextRange
  \/ LogsDone
  \/ Report

ScannerNext ==
  \/ Mine
  \/ \E n \in 0..MaxHeight : Reorganize(n)
  \/ BeginScan
  \/ ScanStep

ScannerSpec == ScannerInit /\ [][ScannerNext]_scannerVars

FairSpec == ScannerSpec /\ WF_scannerVars(ScanStep)

-------------------------------------------------------------------------------
(***************************************************************************)
(* Properties                                                              *)
(***************************************************************************)
PositionedEvent == [block : Nat, logIndex : Nat, log : Log, validUntil : Nat]

BlockRecord(forks) == [time : Nat, fork : 0..forks, logs : LogLists]

ChainTypeOK ==
  /\ chain \in Seq(BlockRecord(reorgs)) /\ chain # <<>>
  /\ settled \in 0..Height /\ Height <= MaxHeight
  /\ reorgs \in Nat

\* Everything but the program counter.
DataTypeOK ==
  /\ TypeOK
  /\ ChainTypeOK
  /\ scans \in Nat
  /\ head \in [number : 0..Height, time : Nat, fork : 0..reorgs]
  /\ low \in Nat /\ high \in Nat /\ from \in Nat /\ to \in Nat
  /\ chunk \in Nat /\ processed \in Nat
  /\ page \in Seq(PositionedEvent)
  /\ reorged \in BOOLEAN
  /\ checkpoint = <<>> \/ checkpoint \in (0..Height) \X (0..reorgs)
  /\ accepted \in [Identity -> Sequence \cup {0}]

ScannerTypeOK ==
  /\ DataTypeOK
  /\ pc \in {"idle", "tagged head", "latest", "confirmed", "checkpoint", "search",
            "query", "validate", "report"}

\* The usable announcements of the blocks first..last.
Announced(first, last) ==
  {CandidateOf(Event(p)) : p \in {q \in Positions(first, last) : Usable(Event(q))}}

\* Every usable announcement in the registry's history up to the head.
Live == Announced(DeploymentBlock, head.number)

\* A scan that stays below the log cap has fed its store every announcement
\* alive at the head and nothing else, each log once: the timestamp search
\* skips no live block, and chunk reductions leave no gap and no overlap.  At
\* the cap, in the middle of a page too, it stops and reports only live ones
\* (find_start_block and scan_logs, scanner.rs:161-302).
ScanComplete ==
  /\ processed <= MaxLogs
  /\ pc = "report" =>
       /\ seen \subseteq Live
       /\ processed < MaxLogs => seen = Live /\ processed = Cardinality(Positions(low, head.number))

\* While settled blocks stay, no scan mistakes ordinary forks below the
\* confirmation depth for a reorganization of its checkpoint.
NoFalseReorg == ~reorged

\* As long as the provider answers, also with errors, a scan returns: each
\* range starts past the last one even at the smallest chunk, and a range is
\* repeated only while its chunk shrinks (scanner.rs:182-229).
ScanEnds == pc # "idle" ~> pc = "idle"

(***************************************************************************)
(* What the documentation says and the code does not do; see README.md.    *)
(***************************************************************************)

\* docs/spec.md:433: a client must check that the "record sequence is not older
\* than the latest accepted record for that peer".  Each scan starts from an
\* empty store, and the newer record may have the shorter lifetime.
SequenceNotOlder ==
  pc = "report" => \A i \in Retained : candidates[i].sequence >= accepted[i]
===============================================================================
