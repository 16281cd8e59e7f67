# Resurrect: a verification project in TLA+

Resurrect lets a node of a peer-to-peer network find the network again after it
has lost every peer. Known sources come first: cached peers, then the network's
own discovery. Only when those fail does the node read an Ethereum contract in
which seeds announce signed peer records; a seed that finds nobody announces
itself. This directory models that recovery path, checks it with TLC on small
instances and proves the safety of its components with TLAPS.

## The system

| Component | State | Operations | Modelled in |
|---|---|---|---|
| Candidate store (`resurrect-core/validation.rs`) | one record per peer identity, at most `maximum_candidates` | `insert` (replace, stale, insert, evict, sample out) | `CandidateStore` |
| Bootstrap controller (`resurrect-bootstrap/lib.rs`) | none between cycles; the position inside a cycle and its futures | `run_cycle`, `dial_candidates` | `Bootstrap` |
| Supervisor (`resurrect-node/supervisor.rs`) | failure count, last source, status file | `run`, backoff, shutdown | `Supervisor` |
| Announcer (`resurrect-node/registry.rs`, `alloy_provider.rs`) | sequence number, next renewal | `announce`, `renewal_due` | `Announcer` |
| Scanner (`resurrect-ethereum/scanner.rs`, `registry.rs`) | the checkpoint; everything else lives for one scan | `scan`, `discover` | `Scanner` |
| Native host (`resurrect-node/p2p.rs`) | swarm, connected set, dial waiters, command channel, native and verified peers, published status | `start`, `wait_for_listener`, `connect`, `candidates`, the event loop, `shutdown` | `Host`, `Connector`, `NativePeers` |
| Identity file (`resurrect-node/identity.rs`) | one file per node | `load_or_create_identity` | `Identity` |
| Signed records and endpoint policy (`resurrect-libp2p`: `signed_peer_record.rs`, `enr_codec.rs`, `endpoint_policy.rs`; `validation.rs`) | none | sign, decode, accept, validate | `Records` |
| Node command line and descriptor (`resurrect-node/main.rs`, `resurrect-core/descriptor.rs`) | the process from start to end | `run`, `validate_cli_policy`, the advertisement checks | `Node` |
| Peer cache (`resurrect-node/cache.rs`) | rows of a SQLite table | `store`, `load`, pruning | `PeerCache` |
| Registry contract (`contracts/src/ResurrectBeaconV1.sol`) | none, it emits events | `announce` | the chains in `Announcer` and `Scanner` |
| libp2p behaviour (`resurrect-libp2p/behaviour.rs`) | request channel, waiters, connected set, events for the application | `connect`, `poll`, `on_swarm_event` | `Behaviour`, `Connector` |
| TypeScript client (`packages/ts`: `libp2p.ts`, `scanner.ts`, `client.ts`) | whether it runs, its interval, whether it scans | `start`, `stop`, `scanOnce`, `scanRegistry` | `PeerDiscovery` |
| TypeScript providers and codecs, explorer, on-chain site | | | not modelled, see below |

**Interactions.** `main.rs` starts the host's event loop as one task and runs
the supervisor in another. The supervisor awaits the controller; the controller
awaits the cache, native discovery, the registry scanner, the announcer and
`connect` calls to the host. The host talks to its callers through a bounded
channel, oneshot channels and a `watch` snapshot. Scanner and announcer share
nothing but the chain. The scanner feeds a candidate store that lives for one
scan. An application with its own libp2p `Swarm` uses the behaviour in place of
the host. The TypeScript client is a second, independent implementation of the
scanner, driven by a js-libp2p host.

**What is hard.** Peers connect and leave while the controller awaits something
else, so every decision rests on an earlier read; a dial the controller gave up
on may still succeed; provider calls fail after they took effect, or never
return; the chain grows and forks between two calls of one scan; range errors
repeat queries; a restart forgets the sequence number; two starts may race for
one identity file, and power may fail before it is synced; anybody may publish
records; what a start accepts must still be acceptable to every reader; the
event loop may end under its callers; the arithmetic of
backoff, confirmation depth, renewal and time windows saturates. `PROJECT.json`
lists each hazard at its line with the properties that would catch it.

## The modules

**`CandidateStore`** is `CandidateStore::insert` with one action per outcome.
`candidates` is the `HashMap`; the keccak sampling score is a constant
injective function; `seen` records what was inserted, and `Sample` is the
reference result, a function of that set alone. `MCCandidateStore` is its
instance, `CandidateStoreProofs` its theorems.

**`Bootstrap`** has a step wherever `run_cycle` awaits. `pc` is the state whose
future is awaited, `queue` and `dials` are the stream inside
`buffer_unordered`, `transitions` and `outcome` the `BootstrapOutcome`. The
actions `Established`, `AttemptFailed`, `Accepted`, `Closed` and `BecomesDue`
are the surroundings: the transport changes `connected` at any time, and an
attempt outlives the future that asked for it. What the controller knows is
what `ReadsConnected` last returned. The variables called history (`satisfied`,
`offered`, `tried`) are read by properties only.

**`Supervisor`** extends `Bootstrap` with the loop of `Supervisor::run`: the
healthy turn with renewal, the isolated turn that runs a cycle, the sleeps and
shutdown. Delays are integers and the exponent saturates at `ShiftCap`, as
`exponential_backoff` saturates at its shift; the failure count itself is kept
up to `ShiftCap + 1`, since every later one gives the same delay. `sinceScan` is
history: what happened since the last registry scan. `SupervisorProofs` has the
theorems of the loop and of the cycle it runs.

**`Announcer`** is `RegistryAnnouncer::announce` split at its provider calls,
over a transaction pool and a chain that stamps `validUntil`. A clock ticks; a
receipt is read at most `ReceiptLag` after inclusion; `SendFailed` and
`ReceiptFailed` may follow an accepted transaction; `Restart` forgets all but
the chain. A transaction may be included and revert, which the announcer does
not notice.

**`Scanner`** extends `CandidateStore` with one scan after another over a chain
of blocks. Each provider call is a step, with `Mine` and `Reorganize` free in
between. A reorganization replaces blocks above the highest block that ever had
`Confirmations` blocks on top; deeper ones are outside what confirmation
promises. `MCScanner` is its instance, `ScannerProofs` its theorems.

**`Connector`** states what the controller is promised by a `PeerConnector`:
concurrent calls that return true only for a peer `connected_peers` showed
during the call. **`Host`** is the event loop of `p2p.rs` with its callers on
other threads: the handler of one event may be interrupted by callers between
two `waiter.send`, which is why `CompleteWaiter` is a step. `Host` is shown to
implement `Connector` by mapping the published snapshot to `up` and the stages
of `connect` to the abstract call. **`Behaviour`** is the same promise for an
application that owns the `Swarm`: requests are taken in `poll`, answered in
`on_swarm_event`, and the application dials, accepts and closes connections
of its own, with the default condition for a dial (an application that dials
with `PeerCondition::Always` is left out), or drops the `Swarm`. It implements `Connector` as well.
`HostProofs` and `BehaviourProofs` have their theorems.

**`PeerDiscovery`** extends `Scanner` with the TypeScript client: `start`,
`stop` and `scanOnce` of the adapter, and the parts of `scanRegistry` that
differ from the native scanner (no finality tags, no checkpoint, and optionally
a fixed number of blocks instead of the timestamp search). The log loop and the
store are the same algorithm, so those actions are `Scanner`'s. `report` is what
the loop has still to hand over, `fed` is history. `MCPeerDiscovery` is its
instance; its theorems are in `ScannerProofs`, with those of the walk it shares.

**`NativePeers`** is the rest of the host: its start, the map that configured
peers, mDNS and identify feed, the status in a `watch` channel, and the task of
`main.rs` that waits for a listener, asks for candidates, reports verified
peers and shuts down. The loop and the task interleave at every read, send and
await; a dial is only a command that takes up room, since `Host` has the dials.
`bare` is history. `MCNativePeers` is its instance, `NativePeersProofs` its
theorems.

**`Identity`** is `load_or_create_identity` with a step per call to the file
system, for any number of starts that may name the same path. A crash keeps
what was written. A loss of power keeps what `sync_all` covered and of the rest
anything from nothing to all; a synced file is assumed to keep its directory
entry too, as the usual file systems see to. `created` is history. Its theorems
are in `NodeProofs`.

**`Records`** has the record codecs, the endpoint policy and the checks of
`validate_announcement` as operators. A signature is the signed input with the
key that signed it; a multiaddress is a sequence of parts, with IPv4 and IPv6
addresses as their octets and segments, so that the address ranges are the
code's own.

**`Node`** composes both: processes are launched with a command line, load or
create their identity, pass or fail the checks of `run` in its order, and then
scan, dial and, as seeds, announce over one registry that also holds records
of others. Processes stop, crash and lose power; announcements expire;
connections close. `MCNode` is its instance, with two processes that may share
a file, command lines that are refused before and after the identity is
created, and seven foreign records. `NodeProofs` has the theorems of `Identity`,
of `Node`, of the operators of `Records` they rest on and of the composition.

**`PeerCache`** is the SQLite store: a batch of rows is written in one
transaction, rows outlive crashes and may be damaged on disk, and `load`
decodes, revalidates and orders them. Its theorems are in
`CandidateStoreProofs`, since a load goes through a store.

Definitions marked as faulty are the code with a plausible mistake (a dropped
guard, a missing floor, a swapped order). They are used by no specification; each
shows that some property notices that mistake.

## What the runs show

| Run | Instance | Result |
|---|---|---|
| `candidate_store` | four identities for two places, two sequences, two blocks | the store equals the reference sample in every delivery order; nothing that left comes back |
| `bootstrap` | two discoverable peers, one stranger, target 2, one dial at a time | every cycle returns, no work follows a read that met the target, isolation is declared only after every candidate of every source was tried |
| `supervisor` | one peer, one stranger, three steps of the backoff | delays grow with failures and stay below the maximum; a failed scan is not repeated without a sleep; recovery; shutdown |
| `announcer` | lifetimes 3, 5 and 8, interval 3, jitter of up to 2, transactions that revert, three records, two restarts | sequence numbers on the chain increase; renewals fall before expiry |
| `scanner` | up to five blocks after genesis with at most one log each, lifetime 3, one confirmation, one fork, two scans, a cap of two logs | a scan sees exactly the live logs, once each; forks are not mistaken for reorganizations of the checkpoint; every scan returns |
| `host` | two peers (one that cannot be dialed), two callers, a channel of two, two links per peer | the host implements `Connector`; waiters are bounded; the snapshot is the swarm's; every `connect` returns |
| `peer_cache` | two peers for one place, sequences of which one does not fit the column, three time steps | a peer keeps the newest record committed for it until its row is pruned; a load that succeeds is the sample of the rows that validate |
| `behaviour` | two peers, two callers, a channel of one, two links per peer | the behaviour implements `Connector`; no waiter is left without an attempt that will answer it; the count is the Swarm's |
| `node` | two processes, two identity files, five keys, fifteen seed command lines and two of readers, seven foreign records | a created identity stays; every reader of its namespace accepts what a seed announced, with all its endpoints; foreign records are accepted only as their key signed them; a seed and a reader that stay up connect again and again |
| `native_peers` | two peers, two addresses, one listener, a channel of two | a status read after the first listener is current; candidates have an address; a listener is noticed without the timeout; every call into the host returns |
| `peer_discovery` | two peers of which one has no usable address, up to four blocks after genesis, one fork, two scans, with the timestamp search and with lookbacks of one and two blocks | a scan sees exactly the live announcements; the host is fed the sample; the adapter keeps scanning |

The run `scanner_sequence` documents a place where the code and its
documentation disagree. It checks the documented statement, and TLC shows a
behaviour of the code that contradicts it: when a newer record with a shorter
lifetime has expired, the next scan, at a later head, reports an older record of
the peer that is still alive, be it one announced before or one that somebody
published again after (`docs/spec.md:433`).

More behaviours are visible in the models that a maintainer should know:

- A dial that timed out stays open in the transport while the next ones start,
  so `dialing` can exceed `maximum_parallel_dials`, which bounds only the
  controller's futures (`lib.rs:259-263`; compare `lib.rs:106` and
  `docs/spec.md:772`).
- `connected_via` names the source whose dial was awaited when the target was
  met, even if only inbound peers met it.
- The count is not read again before promotion, so a seed may announce itself
  just after inbound peers have brought it to its target.
- Provider calls have no timeout and run in the node's only loop: one that never
  returns also holds native discovery back.
- After a bootstrap whose peers leave at once the registry is scanned again
  without a sleep, any number of times (`supervisor.rs:211`; compare
  `docs/spec.md:832`).
- One row whose numbers do not convert fails the whole load of the cache, the
  sound rows with it (`cache.rs:229`; compare `docs/node-operations.md:114`).
- `identity.rs:5` speaks of creating the file atomically. Nobody ever replaces a
  key, but a crash between `create_new` and `write_all` leaves a file that no
  later start decodes, a second start that reads meanwhile fails, and one that
  reads a key before it was synced may lose it with the power.
- `AlloyRegistryProvider::announce` does not look at the status of the receipt:
  a transaction that reverted counts as an announcement and its renewal is
  scheduled (`alloy_provider.rs:184`), so until then the seed has none on the
  chain. `RenewsBeforeExpiry` speaks only of receipts of announcements.
- A seed whose descriptor admits only ENR records, or whose endpoints do not
  fit the envelope, starts, and then every `announce` is refused.
- The endpoint policy looks for an IPv4 address only in IPv4-mapped IPv6
  addresses. Other forms that embed one, such as NAT64, 6to4 or IPv4-compatible
  addresses, pass as public whatever they embed (`endpoint_policy.rs:102`);
  `AcceptedSound` says nothing of them.
- Under `--allow-private-endpoints` an unspecified or multicast IPv4 address
  passes when it is written as an IPv4-mapped IPv6 address.
- In the native map an mDNS expiry removes an address whoever reported it, a
  configured peer included; identify without addresses makes a candidate that
  cannot be dialed; nothing bounds the map; and the verified map is never read.
- In the behaviour, a second request for a peer that is being dialed fails at
  once and takes the first one with it: both get `false` and the application
  sees `DialFailed`, while the first attempt is still open and may connect.
  `queue_depth` bounds the channel, not the dials in flight.
- A browser scan that began before `stop` and ends after another `start` feeds
  the new session; `scanOnce` on an adapter that was never started scans, and
  hands nothing over.

### Bounds

Every bound is a constant of its module. The candidate store needs more
identities than places for eviction, and two sequences and blocks for each
branch of `compare_freshness`. The bootstrap instance has a target above the
dial limit, so `buffer_unordered` must refill, and a stranger, so the target can
be met by somebody the cycle never dialed. In `Supervisor`, an initial delay of
2, a maximum of 4 and a `ShiftCap` of 2 give the products 2, 4 and 8: below, at
and above the cap. The lifetimes of `announcer` are one whose jitter window is
clamped to nothing (3), one whose window is clamped by the base (5) and one
whose base is the configured interval (8); lifetimes of one and two seconds
leave no room for the delay of the receipt and are left to
`PromptReceiptsLeaveRoom`. In `scanner`, blocks are a second apart, the first at
second 1, and a lifetime is three seconds. Heads go from the genesis block, where
the cutoff and the confirmed number saturate, to block 4, whose window is blocks
1 to 4: the search from the deployment block 0 skips the genesis block and has
to keep block 1, which is exactly at the cutoff. The chunk of four can be halved
down to one, and a cap of two logs can cut the second page of two blocks in its
middle. Chain length, scans, forks, signed records and
restarts are bounded in the guards; where a model stops only because of such a
bound, or because the supervisor has stopped, its configuration disables the
deadlock check (`announcer`, `scanner`, `peer_discovery`, `supervisor`).
`node` and `native_peers` are checked for deadlock, a process that has ended
apart. In `node`, `MaxLive` bounds the announcements of the two processes alive
at once, `Fresh` the keys a path may be given (two for the file that both may
name) and `Outages` the files whose machine loses power, that of the reader alone, so
that the two starts that race for one file are covered in the run by crashes and
by `IdentityIsKept` for losses of power;
`MaxEndpoints` and `MaxParts` are small enough for a record to exceed them, and
`Key` leaves room for a stranger and for a forger. The channel of two in
`native_peers` is filled by the controller's commands, so callers do wait. In
`peer_discovery` a lifetime of two seconds and one confirmation make a lookback
of one block the smallest that covers it, so that one block less is noticed;
heads go up to block 3, for which the timestamp search skips the genesis block.

### Fairness

- `Bootstrap`: every await of a cycle ends (`BootstrapFairSpec`): a dial by its
  timeout, a discovery source and an announcement because their provider
  answers or fails, which is an assumption here too. The transport owes nothing.
- `Supervisor`: the loop is one task of the runtime and its sleeps and dial
  timeouts are timers, so `LocalStep` is weakly fair. Provider calls carry no
  timeout: that they return is an assumption, `ProviderStep` of `RegistrySpec`. One peer is assumed reachable: if a source keeps being asked it
  names the peer again and again, and if it keeps being dialed it accepts
  (strong fairness). `ShutdownStops` is conditional on connections that stop
  flapping, because a turn that ends `Connected` does not look at the shutdown
  flag.
- `Scanner`: every provider call returns, possibly with an error.
- `PeerDiscovery`: the same, and the interval of a started adapter fires.
- `Host`: the event loop and the timers are weakly fair. A caller that waits
  for room in the channel is served in turn, since the channel's permits are
  first come, first served; hence strong fairness of `SendDial` and
  `SendPrune`. Nothing is assumed of the network.
- `NativePeers`: the task's thread and the handling of commands are weakly fair,
  since `select!` picks at random among the branches that are ready; a call that
  waits for room is served in turn (strong fairness). No timeout and no event of
  the swarm is assumed to happen.
- `Node`: a running node takes its turns and time passes (weak fairness). Of a
  provider and of a peer that are asked again and again some answer is assumed
  (strong fairness of `Announce` and `DialSucceeds`). `Scanned` is strongly fair
  because an announcement, seven days by default, outlives many cycles, whose
  backoff is at most five minutes.

## What is proved

The theorems hold for every value of the constants that satisfies the named
assumptions.

`CandidateStoreProofs`, from `Identity` finite, `Score` injective and a natural
cap: `StoreTypeCorrect`, `StoreBounded`, `StoreOrderIndependent` (the store
always equals the reference sample of what it was given, in any order and with
any duplicates) and `StoreNeverReadmits`. `OrderIndependent` is not inductive:
the store has forgotten the records it dropped. The inductive invariant `IInv`
adds that an identity is left out only by a full store whose members all score
lower (`LowestScores`), and that what is kept is the freshest record seen
(`RetainedFreshest`). Eviction preserves the first because the evicted identity
is the worst; the rank of a retained identity is then below the cap because the
identities below it are all retained, and freshness orders records strictly, so
the freshest is unique up to equality.

`SupervisorProofs`, from a finite set of peers and natural policy limits. For
one cycle: `BootstrapTypeCorrect`, `BootstrapIdleOnceSatisfied` and `BootstrapTriesAll`. The last one needs
`BootstrapInv`: `Bookkeeping` says where every offered candidate is (queued, in
a future or tried) and `SourcesInOrder` which sources have been visited at each
point, so that `Isolated` is reached only with an empty queue after all three
sources. For the loop: `SupervisorCyclesSound` (both promises hold in every cycle the loop starts, among its sleeps, renewals and shutdown),
`SupervisorDelayGrows` and `SupervisorNoRepeatedFailedScan`. `SupervisorInv`
adds `ScanRested`: while the loop is at the top of a turn, or in a cycle that has
not scanned yet, a sleep or a bootstrap that reached its target came since the
last scan. The loop's own variables do not say so; it holds because a cycle that
ends in backoff leaves only through a sleep, and one that ends connected has
reached its target.

`AnnouncerProofs`, for every set of lifetimes, policy and clock:
`AnnouncerTypeCorrect`, `AnnouncerSequencesIncrease` and
`AnnouncerRenewsBeforeExpiry`. The invariant `AnnouncerInv` follows a sequence
number from the counter to the chain: everything on the chain is below
everything in the pool, the pool is ascending, all of it is below the counter
(`CounterAhead`, `PoolAfterLog`), and the counter is never ahead of the clock, so
that a restart, which takes its number from the clock, cannot fall back. The
clock is the system's wall clock, which is assumed not to be set back from one
process to the next: after such a step a restart would reuse numbers. That
last point also needs one attempt to take at least one tick: `announce` makes
several round trips to the provider, and attempts are separated by the
supervisor's sleeps. `RecordInFlight` ties the receipt's expiry to the lifetime
the renewal is computed from. Renewal before expiry is proved under
`LeavesRoom`: each lifetime outlasts the largest jittered renewal plus the delay
of the receipt. `PromptReceiptsLeaveRoom` shows what the code itself ensures:
without delay, every lifetime of two seconds or more leaves room. With a delay
it does not always: up to twice the maximum jitter the window reaches up to
the last second of the lifetime, so `docs/spec.md:689` ("Seeds SHOULD renew
before expiry") then depends on the receipt being prompt.

Also in `CandidateStoreProofs`, for every lifetime and integer width of the
peer cache: `CacheKeepsFreshest` and `CacheLoadsSample`. `LoadProgress` says that a load has fed its store exactly the usable rows it has taken;
the store's own invariant, reused through `InsertProofInv`, then gives the
sample.

`NodeProofs`, for any number of starts, files and keys of `Identity`:
`IdTypeCorrect` and `IdentityIsKept`. `IdentityKept` is not inductive, since `SyncAll` makes durable
whatever the file then holds. `IdInv` adds `CreatorOwns`, that a start between
`create_new` and `sync_all` has the file to itself (torn, or its own key, and
no creation of it has returned), and `OneCreator`, that no two starts are in
that stretch for one path; both hold because `create_new` needs an absent file,
and a file that was once synced is never absent again.

`HostProofs` and `BehaviourProofs`, for any number of peers, callers and
connections per peer and any capacity of the channel: `HostWaitersBounded`,
`HostSnapshotAccurate`, `BehaviourWaitersServed`, `BehaviourCountAccurate`, the
type invariants, and `HostImplementsConnector` and
`BehaviourImplementsConnector`, that is `Spec => Connector!Spec` under the
refinement mapping. A `connect` that returns true does so on the word of the
sender it gave away, so the refinement needs to know where that sender is:
`SendersWait` says that whoever holds the sender of a live call (the channel, the
waiters of a peer, or the handler that is answering) holds it for the peer the
call is about, and that a handler which grants has published the peer first;
`OneSender` says that a call has one sender in one place, so that a timeout,
which turns the sender into a dropped one wherever it is, leaves none behind.
`Agreement` ties the loop's set, the snapshot and the swarm together.

`NativePeersProofs`, for any peers, addresses, listeners and configured peers
and any capacity of the channel: `NativeTypeOK`, `NativeStatusCurrent` and
`NativeCandidatesDialable`. The channel starts with a status that leaves the
configured peers out, so `StatusCurrent` rests on `PublishedOrWaiting`: a status
that is behind names no listener, and only a task that is still waiting for one
can read it. `AskerWaits` and `OneQuestion` say that a queued question has the
task waiting for it, unanswered, and is the only one of its kind, so that no
answer is left over for the next call.

`ScannerProofs`, for every chain whose timestamps increase, every fork above the
settled blocks, any ranges the provider allows and any log cap, chunk sizes and
confirmations, assuming only that the chain's block numbers and log indexes are
among those of candidates: `ScannerScanComplete`, `ScannerNoFalseReorg` and `ScannerTypeCorrect` for the node,
`DiscoveryScanComplete`, `DiscoveryFeedsSample` and `DiscoveryTypeCorrect` for
the browser client. The walk over the logs is shared, and so is its invariant
`WalkInv`. `ChainInv` says that blocks are at least a second apart and that what
has `Confirmations` blocks on top is settled; `Ranges` that everything a scan
reads is settled, so that the logs it has read are still the chain's when it
ends. `Progress` is the heart of it: the store and the page have between them
exactly what was announced from the first block to the frontier, one processed
or paged log for each position, unless the cap has cut the page. It survives a
halved chunk because the frontier does not move, and a new range because
adjoining ranges split the positions in two. `Skipped` says that what lies
before the first block is dead at the head: each turn of the binary search keeps
it by the order of the timestamps. In the browser client it holds for a
lookback as well, if `LookbackCovers`: that many blocks, a second apart at least,
outlast the longest lifetime. `Anchored` says that the head of the scan and the
checkpoint are blocks of the chain, which gives `NoFalseReorg`. For the adapter,
`InFlight`, `OneInterval` and `Feeding` say where scan, interval and report are
while `start` and `stop` interleave with a scan; `Feeding`, with the store's own
invariant, gives `FeedsSample`. A page is the log positions of its range in
chain order, by rank, so that no induction over blocks is needed.

`NodeProofs`, for any number of processes, files, keys, command lines and
foreign records: `NodeAnnouncedAccepted`, `NodeAcceptedSound`, `NodeTypeOK`, `NodeImplementsIdentity` (whatever the nodes
do, the identity files see only steps of `Identity`) and, from it,
`NodeIdentityKept`. They assume that a generated key is new and signs nothing of
the foreign records, that addresses are sequences, and that a command line names
a path of the model. `NodeInv` carries what the checks at the start established
to the announcement made much later: `StartsChecked` (the command line and the
key in use are still the ones that passed), `KeysOwn` (a key in use was generated
here, so no foreign record bears its signature) and `ChainFits` (what these
processes put on the chain are envelopes that fit). The step from there to the
reader is about the operators: the lemmas on `Kept` show that a codec which drops
some endpoints keeps the rest in order, so that a record of which every endpoint
passes the seed's policy loses none under the reader's.

Only model-checked: the liveness properties (`CycleEnds`, `Recovers`, `ShutdownStops`,
`ScanEnds`, `ConnectReturns`, `Resurrects`, `ListenerNoticed`, `CallsReturn`,
`KeepsScanning`), since temporal reasoning with fairness and `ENABLED` is beyond
the prover. Every invariant of a passing run has a theorem. Where a run does not
list a module's type invariant, a theorem still shows it.

## Not modelled

- Byte encodings, hashes and signatures as such: `Records` takes encodings as
  injective and signatures as unforgeable. `Scanner` and `PeerCache` leave the
  verdict on a record a free choice, of which `Records` is one instance.
- The JSON forms of numbers, `canonical_json` and the namespace hash are pure
  conversions nothing in the models tells apart.
- clap's parsing in `main.rs`, file permissions, telemetry, log output and the
  layout of the status file.
- The HTTP transport and the codecs of the TypeScript client: a failed request
  is `BrowserFails`, a record that does not decode is `Unusable`.
- The explorer (`apps/explorer`) is presentation but for its RPC fallback and
  its probe of peers, which are in the plan.
- The on-chain site contract cannot change after its constructor.
- Reorganizations deeper than the confirmation depth: the contract between
  scanner and chain.

## Plan

1. The explorer's RPC fallback and probe.
2. A composition of supervisor and host, in which the controller's connector is
   `Host`.
