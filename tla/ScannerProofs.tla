----------------------------- MODULE ScannerProofs -----------------------------
(***************************************************************************)
(* For any chain, any forks above the confirmed blocks, any ranges the     *)
(* provider allows and any limits: what a scan sees and reports, in the    *)
(* node and in the browser client, which shares the walk over the logs.    *)
(***************************************************************************)
EXTENDS PeerDiscovery, CandidateStoreProofs, SequenceTheorems

\* Blocks are at least a second apart, and those with Confirmations blocks on
\* top are settled.
ChainInv ==
  /\ Height - Confirmations <= settled
  /\ \A i, j \in 0..Height : i <= j => BlockAt(i).time + (j - i) <= BlockAt(j).time

Walking == {"query", "validate", "report", "emit"}

\* What scan reads is settled, and its ranges stay between its first block and
\* its head.
Ranges ==
  /\ head.number <= settled
  /\ checkpoint # <<>> => checkpoint[1] <= settled
  /\ pc # "validate" => page = <<>>
  /\ pc = "confirmed" => high <= settled
  /\ pc \in {"checkpoint", "search"} \cup Walking => DeploymentBlock <= head.number
  /\ pc = "search" => DeploymentBlock <= low /\ low <= high /\ high <= head.number
  /\ pc \in Walking => DeploymentBlock <= low /\ low <= head.number
  /\ pc = "query" => low <= from /\ from <= head.number + 1 /\ chunk >= 1
  /\ pc = "validate" => low <= from /\ from <= to /\ to <= head.number /\ chunk >= 1

\* The last block whose logs have been read.
Frontier == CASE pc = "query" -> from - 1
              [] pc = "validate" -> to
              [] OTHER -> head.number

Paged == {CandidateOf(page[k]) : k \in {j \in DOMAIN page : Usable(page[j])}}

\* The store and the page have between them what was announced up to the
\* frontier, unless the log cap has cut the page.
Progress ==
  pc \in Walking =>
    /\ seen \cup Paged \subseteq Announced(low, Frontier)
    /\ processed + Len(page) <= MaxLogs
    /\ processed + Len(page) < MaxLogs =>
         /\ seen \cup Paged = Announced(low, Frontier)
         /\ processed + Len(page) = Cardinality(Positions(low, Frontier))

\* Nothing announced before the first block is alive at the head.
Skipped ==
  pc \in {"search"} \cup Walking =>
    \A n \in DeploymentBlock..(low - 1) : BlockAt(n).time + MaxTtl <= head.time

\* What both clients rely on.
WalkInv == DataTypeOK /\ ChainInv /\ ProofInv /\ Ranges /\ Progress /\ processed <= MaxLogs

\* The head is a block of the chain, and so is the last one reported.
Anchored ==
  /\ pc \in {"checkpoint", "search"} \cup Walking => head.fork = BlockAt(head.number).fork
  /\ checkpoint # <<>> => Hash(checkpoint[1]) = checkpoint

ScannerInv == WalkInv /\ ScannerTypeOK /\ Skipped /\ Anchored /\ NoFalseReorg

\* A started adapter has one interval, a stopped one none.
OneInterval == timers = IF running THEN 1 ELSE 0

\* The flag is set exactly while scanOnce runs.
InFlight == scanning <=> pc # "idle"

\* A head to be read was confirmed for a scan without a lookback.
Confirming == pc = "confirmed" => lookback = 0 /\ DeploymentBlock <= high

\* The loop over the report is between nothing and all of the store.
Feeding ==
  /\ pc # "emit" => report = {} /\ fed = {}
  /\ report \cup fed \subseteq {candidates[i] : i \in Retained}
  /\ pc = "emit" =>
       /\ \A c \in fed : c.identity \notin Unparsed
       /\ \A i \in Retained : candidates[i] \in fed \cup report \/ i \in Unparsed

DiscoveryInv ==
  /\ WalkInv /\ DiscoveryTypeOK /\ OneInterval /\ InFlight /\ Confirming /\ Feeding
  /\ LookbackCovers => Skipped

-------------------------------------------------------------------------------
(***************************************************************************)
(* Positions and events                                                    *)
(***************************************************************************)
LEMMA Limits ==
  /\ MaxTtl \in Nat /\ Ttls \subseteq 1..MaxTtl /\ Delays \subseteq Nat \ {0}
  /\ DeploymentBlock \in Nat /\ InitialChunk \in Nat /\ MinimumChunk \in Nat
  /\ MaxLogs \in Nat /\ Confirmations \in Nat
  /\ LogsPerBlock \in Nat /\ MaxHeight \in Nat
  BY ScannerAssumption

\* Counting the positions up to each one numbers them.
LEMMA PlaceOnto ==
  ASSUME NEW at \in SUBSET (Int \X Int), IsFiniteSet(at)
  PROVE  /\ \A p \in at : Place(at, p) \in 1..Cardinality(at)
         /\ \A p, q \in at : Place(at, p) = Place(at, q) => p = q
         /\ \A m \in 1..Cardinality(at) : \E p \in at : Place(at, p) = m
<1> DEFINE C == Cardinality(at)
           UpTo(q, p) == q[1] < p[1] \/ (q[1] = p[1] /\ q[2] <= p[2])
           below(p) == {q \in at : UpTo(q, p)}
           r == [p \in at |-> Cardinality(below(p))]
<1>1. C \in Nat
  BY FS_CardinalityType
<1>2. \A p \in at : p[1] \in Int /\ p[2] \in Int /\ p = <<p[1], p[2]>>
  OBVIOUS
<1>3. ASSUME NEW p \in at
      PROVE  p \in below(p) /\ IsFiniteSet(below(p)) /\ Cardinality(below(p)) \in 1..C
  <2>1. UpTo(p, p)
    BY <1>2
  <2>2. below(p) \in SUBSET at /\ p \in below(p)
    BY <2>1
  <2>3. IsFiniteSet(below(p)) /\ Cardinality(below(p)) \in Nat /\ Cardinality(below(p)) <= C
    BY <2>2, FS_Subset, FS_CardinalityType
  <2>4. Cardinality(below(p)) # 0
    BY <2>2, <2>3, FS_EmptySet
  <2> QED
    BY <1>1, <2>2, <2>3, <2>4
<1>4. ASSUME NEW p \in at, NEW q \in at, UpTo(p, q), p # q
      PROVE  r[p] # r[q]
  <2>1. \A x \in at : UpTo(x, p) => UpTo(x, q)
    BY <1>2, <1>4
  <2>2. ~UpTo(q, p)
    BY <1>2, <1>4
  <2>3. below(p) \in SUBSET below(q) /\ q \in below(q) /\ q \notin below(p)
    BY <1>3, <2>1, <2>2
  <2> QED
    BY <1>3, <2>3, FS_Subset
<1>5. ASSUME NEW p \in at, NEW q \in at, r[p] = r[q]
      PROVE  p = q
  <2>1. UpTo(p, q) \/ UpTo(q, p)
    BY <1>2
  <2> QED
    BY <1>4, <1>5, <2>1
<1>6. r \in Injection(at, 1..C)
  <2>1. r \in [at -> 1..C]
    BY <1>3
  <2> QED
    BY <1>5, <2>1 DEF Injection, IsInjective
<1>7. IsFiniteSet(1..C) /\ Cardinality(1..C) = C
  BY <1>1, FS_Interval
<1>8. r \in Surjection(at, 1..C)
  BY <1>6, <1>7, FS_Injection
<1>9. \A p \in at : r[p] = Place(at, p)
  BY DEF Place
<1>10. \A m \in 1..C : \E p \in at : r[p] = m
  BY <1>8 DEF Surjection
<1>11. \A p \in at : r[p] \in 1..C
  BY <1>3
<1> HIDE DEF r
<1> QED
  BY <1>5, <1>9, <1>10, <1>11

\* The events of a page are those at its positions.
LEMMA EventsOf ==
  ASSUME NEW at \in SUBSET (Int \X Int), IsFiniteSet(at)
  PROVE  /\ Cardinality(at) \in Nat
         /\ DOMAIN Events(at) = 1..Cardinality(at)
         /\ \A m \in DOMAIN Events(at) : \E p \in at : Events(at)[m] = Event(p)
         /\ \A p \in at : \E m \in DOMAIN Events(at) : Events(at)[m] = Event(p)
<1> DEFINE nth(m) == CHOOSE p \in at : Place(at, p) = m
<1>1. Cardinality(at) \in Nat
  BY FS_CardinalityType
<1>2. \A m \in 1..Cardinality(at) : nth(m) \in at /\ Place(at, nth(m)) = m
  BY PlaceOnto
<1>3. Events(at) = [m \in 1..Cardinality(at) |-> Event(nth(m))]
  BY DEF Events
<1>4. ASSUME NEW p \in at
      PROVE  Place(at, p) \in 1..Cardinality(at) /\ nth(Place(at, p)) = p
  <2>1. Place(at, p) \in 1..Cardinality(at)
    BY PlaceOnto
  <2> QED
    BY <1>2, <2>1, PlaceOnto
<1> HIDE DEF nth
<1>5. DOMAIN Events(at) = 1..Cardinality(at)
  BY <1>3
<1>6. \A m \in DOMAIN Events(at) : Events(at)[m] = Event(nth(m))
  BY <1>3
<1> QED
  BY <1>1, <1>2, <1>4, <1>5, <1>6

\* The positions of two adjoining ranges are those of the whole.
LEMMA PositionsFinite ==
  ASSUME NEW first \in Nat, NEW last \in Int
  PROVE  /\ Positions(first, last) \in SUBSET (Int \X Int)
         /\ IsFiniteSet(Positions(first, last))
         /\ \A p \in Positions(first, last) : p[1] \in first..last /\ p[2] \in 1..LogsPerBlock
<1> DEFINE all == (first..last) \X (1..LogsPerBlock)
<1>1. IsFiniteSet(first..last) /\ IsFiniteSet(1..LogsPerBlock)
  BY FS_Interval, Limits
<1>2. IsFiniteSet(all)
  BY <1>1, FS_Product
<1>3. Positions(first, last) \in SUBSET all
  BY DEF Positions
<1>4. all \in SUBSET (Int \X Int) /\ \A p \in all : p[1] \in first..last /\ p[2] \in 1..LogsPerBlock
  BY Limits
<1> HIDE DEF all
<1> QED
  BY <1>2, <1>3, <1>4, FS_Subset

LEMMA PositionsSplit ==
  ASSUME NEW first \in Nat, NEW mid \in Int, NEW next \in Nat, NEW last \in Int,
         next = mid + 1, first <= next, mid <= last
  PROVE  /\ Positions(first, last) = Positions(first, mid) \cup Positions(next, last)
         /\ Positions(first, mid) \cap Positions(next, last) = {}
<1>1. first..last = (first..mid) \cup (next..last)
  OBVIOUS
<1>2. \A n : ~(n \in first..mid /\ n \in next..last)
  OBVIOUS
<1>3. \A p : p \in Positions(first, last)
              <=> p \in Positions(first, mid) \cup Positions(next, last)
  BY <1>1, Zenon DEF Positions
<1>4. /\ \A p \in Positions(first, mid) : p[1] \in first..mid
      /\ \A p \in Positions(next, last) : p[1] \in next..last
  BY PositionsFinite
<1> QED
  BY <1>2, <1>3, <1>4

LEMMA CountSplit ==
  ASSUME NEW first \in Nat, NEW mid \in Int, NEW next \in Nat, NEW last \in Int,
         next = mid + 1, first <= next, mid <= last
  PROVE  /\ Cardinality(Positions(first, last)) =
              Cardinality(Positions(first, mid)) + Cardinality(Positions(next, last))
         /\ Cardinality(Positions(first, mid)) \in Nat
         /\ Cardinality(Positions(next, last)) \in Nat
<1> DEFINE A == Positions(first, mid)
           B == Positions(next, last)
           P == Positions(first, last)
<1>1. P = A \cup B /\ A \cap B = {}
  BY PositionsSplit
<1>2. IsFiniteSet(A) /\ IsFiniteSet(B)
  BY PositionsFinite
<1> HIDE DEF A, B, P
<1>3. Cardinality(A \cap B) = 0
  BY <1>1, FS_EmptySet
<1>4. Cardinality(A) \in Nat /\ Cardinality(B) \in Nat
  BY <1>2, FS_CardinalityType
<1>5. Cardinality(A \cup B) = Cardinality(A) + Cardinality(B) - Cardinality(A \cap B)
  BY <1>2, FS_Union
<1>6. Cardinality(P) = Cardinality(A) + Cardinality(B)
  BY <1>1, <1>3, <1>4, <1>5
<1> QED
  BY <1>4, <1>6 DEF A, B, P

-------------------------------------------------------------------------------
(***************************************************************************)
(* The chain                                                               *)
(***************************************************************************)
LEMMA BlockFacts ==
  ASSUME ChainTypeOK
  PROVE  /\ Height \in Nat /\ Len(chain) = Height + 1 /\ settled \in Nat /\ settled <= Height
         /\ \A n \in 0..Height : BlockAt(n) \in BlockRecord(reorgs)
<1>1. Len(chain) \in Nat /\ DOMAIN chain = 1..Len(chain) /\ Len(chain) # 0
  BY LenProperties, EmptySeq DEF ChainTypeOK
<1>2. \A k \in 1..Len(chain) : chain[k] \in BlockRecord(reorgs)
  BY <1>1, ElementOfSeq DEF ChainTypeOK
<1>3. Height \in Nat /\ Len(chain) = Height + 1
  BY <1>1 DEF Height
<1> QED
  BY <1>2, <1>3 DEF ChainTypeOK, BlockAt

\* The settled blocks are the same after the step.
SettledStay ==
  /\ settled' \in Nat /\ settled <= settled' /\ settled' <= Height'
  /\ reorgs <= reorgs' /\ reorgs' \in Nat
  /\ \A n \in 0..settled : BlockAt(n)' = BlockAt(n)

\* A block with a later timestamp comes on top of block m.
LEMMA ChainExtended ==
  ASSUME ChainTypeOK, ChainInv, NEW m \in settled..Height, m < MaxHeight,
         reorgs' \in Nat, reorgs <= reorgs',
         NEW b \in BlockRecord(reorgs'), BlockAt(m).time < b.time,
         chain' = Append(SubSeq(chain, 1, m + 1), b),
         settled' \in settled..(m + 1), m + 1 - Confirmations <= settled'
  PROVE  ChainTypeOK' /\ ChainInv' /\ SettledStay
<1>1. /\ Height \in Nat /\ Len(chain) = Height + 1 /\ settled \in Nat
      /\ \A n \in 0..Height : BlockAt(n) \in BlockRecord(reorgs)
  BY BlockFacts
<1>2. m \in Nat /\ m <= Height /\ settled <= m
  BY <1>1
<1>3. BlockRecord(reorgs) \subseteq BlockRecord(reorgs')
  BY DEF BlockRecord, ChainTypeOK
<1>4. chain \in Seq(BlockRecord(reorgs'))
  <2>1. chain \in Seq(BlockRecord(reorgs))
    BY DEF ChainTypeOK
  <2> QED
    BY <1>3, <2>1
<1>5. /\ chain' \in Seq(BlockRecord(reorgs')) /\ Len(chain') = m + 2
      /\ \A k \in 1..(m + 1) : chain'[k] = chain[k]
      /\ chain'[m + 2] = b
  <2> DEFINE s == SubSeq(chain, 1, m + 1)
  <2>1. /\ s \in Seq(BlockRecord(reorgs')) /\ Len(s) = m + 1
        /\ \A k \in 1..(m + 1) : s[k] = chain[k]
    BY <1>1, <1>2, <1>4, SubSeqProperties
  <2> HIDE DEF s
  <2>2. chain' = Append(s, b)
    BY DEF s
  <2> QED
    BY <1>2, <2>1, <2>2, AppendProperties
<1>6. Height' = m + 1
  BY <1>2, <1>5 DEF Height
<1>7. /\ \A n \in 0..m : BlockAt(n)' = BlockAt(n)
      /\ BlockAt(m + 1)' = b
  <2>1. \A n \in 0..m : n + 1 \in 1..(m + 1)
    BY <1>2
  <2>2. (m + 1) + 1 = m + 2
    BY <1>2
  <2> QED
    BY <1>5, <2>1, <2>2 DEF BlockAt
<1>8. SettledStay
  BY <1>1, <1>2, <1>6, <1>7 DEF SettledStay
<1>9. ChainTypeOK'
  <2>1. chain' # <<>>
    BY <1>2, <1>5, EmptySeq
  <2> QED
    BY <1>1, <1>2, <1>5, <1>6, <2>1, Limits DEF ChainTypeOK
<1>10. ChainInv'
  <2>1. /\ \A n \in 0..m : BlockAt(n).time \in Nat /\ n \in 0..Height
        /\ b.time \in Nat /\ m \in 0..m
    BY <1>1, <1>2 DEF BlockRecord
  <2>2. \A i, j \in 0..m : i <= j => BlockAt(i).time + (j - i) <= BlockAt(j).time
    BY <2>1 DEF ChainInv
  <2>3. \A i \in 0..m : BlockAt(i).time + ((m + 1) - i) <= b.time
    <3> SUFFICES ASSUME NEW i \in 0..m
                 PROVE  BlockAt(i).time + ((m + 1) - i) <= b.time
      OBVIOUS
    <3>1. BlockAt(i).time + (m - i) <= BlockAt(m).time
      BY <1>2, <2>1, <2>2
    <3> QED
      BY <1>2, <2>1, <3>1
  <2>4. ASSUME NEW i \in 0..(m + 1), NEW j \in 0..(m + 1), i <= j
        PROVE  BlockAt(i)'.time + (j - i) <= BlockAt(j)'.time
    <3>1. CASE j \in 0..m
      <4>1. i \in 0..m
        BY <1>2, <2>4, <3>1
      <4> QED
        BY <1>7, <2>2, <2>4, <3>1, <4>1
    <3>2. CASE j = m + 1 /\ i \in 0..m
      BY <1>7, <2>3, <3>2
    <3>3. CASE j = m + 1 /\ i = m + 1
      BY <1>2, <1>7, <2>1, <3>3
    <3> QED
      BY <1>2, <2>4, <3>1, <3>2, <3>3
  <2>5. \A i, j \in 0..(m + 1) : i <= j => BlockAt(i)'.time + (j - i) <= BlockAt(j)'.time
    BY <2>4
  <2>6. \A i, j \in 0..Height' : i <= j => BlockAt(i)'.time + (j - i) <= BlockAt(j)'.time
    BY <1>6, <2>5
  <2>7. Height' - Confirmations <= settled'
    BY <1>2, <1>6, Limits
  <2> QED
    BY <2>6, <2>7, Zenon DEF ChainInv
<1> QED
  BY <1>8, <1>9, <1>10

LEMMA SuccessorFacts ==
  ASSUME NEW time \in Nat, NEW b \in Successors(time), reorgs \in Nat
  PROVE  b \in BlockRecord(reorgs) /\ time < b.time /\ b.logs \in LogLists
  BY Limits DEF Successors, BlockRecord

\* Growth and reorganizations leave the settled blocks alone.
LEMMA ChainSteps ==
  ASSUME ChainTypeOK, ChainInv, Mine \/ \E n \in 0..MaxHeight : Reorganize(n)
  PROVE  ChainTypeOK' /\ ChainInv' /\ SettledStay
<1>1. /\ Height \in Nat /\ Len(chain) = Height + 1 /\ settled \in Nat /\ settled <= Height
      /\ \A n \in 0..Height : BlockAt(n) \in BlockRecord(reorgs)
      /\ \A n \in 0..Height : BlockAt(n).time \in Nat
      /\ reorgs \in Nat
  <2>1. /\ Height \in Nat /\ Len(chain) = Height + 1 /\ settled \in Nat /\ settled <= Height
        /\ \A n \in 0..Height : BlockAt(n) \in BlockRecord(reorgs)
    BY BlockFacts
  <2> QED
    BY <2>1 DEF BlockRecord, ChainTypeOK
<1>2. CASE Mine
  <2>1. PICK b \in Successors(BlockAt(Height).time) : chain' = Append(chain, b)
    BY <1>2 DEF Mine
  <2>2. b \in BlockRecord(reorgs) /\ BlockAt(Height).time < b.time
    BY <1>1, SuccessorFacts
  <2>3. SubSeq(chain, 1, Height + 1) = chain
    <3>1. chain \in Seq(BlockRecord(reorgs))
      BY DEF ChainTypeOK
    <3> QED
      BY <1>1, <3>1
  <2>4. Height < MaxHeight /\ reorgs' = reorgs
    BY <1>2 DEF Mine
  <2>5. settled' \in settled..(Height + 1) /\ Height + 1 - Confirmations <= settled'
    BY <1>1, <1>2, Limits DEF Mine
  <2> QED
    BY <1>1, <2>1, <2>2, <2>3, <2>4, <2>5, ChainExtended
<1>3. ASSUME NEW n \in 0..MaxHeight, Reorganize(n)
      PROVE  ChainTypeOK' /\ ChainInv' /\ SettledStay
  <2>1. PICK b \in Successors(BlockAt(n).time) :
          chain' = Append(SubSeq(chain, 1, n + 1), [b EXCEPT !.fork = reorgs'])
    BY <1>3 DEF Reorganize
  <2>2. n \in settled..Height /\ n < Height /\ n < MaxHeight /\ n \in Nat
    BY <1>1, <1>3, Limits DEF Reorganize, ChainTypeOK
  <2>3. reorgs' = reorgs + 1 /\ settled' = settled
    BY <1>3 DEF Reorganize
  <2> DEFINE c == [b EXCEPT !.fork = reorgs']
  <2>4. c \in BlockRecord(reorgs') /\ BlockAt(n).time < c.time
    <3>1. b \in BlockRecord(reorgs) /\ BlockAt(n).time < b.time
      BY <1>1, <2>2, SuccessorFacts
    <3> QED
      BY <1>1, <2>3, <3>1 DEF BlockRecord
  <2>5. settled' \in settled..(n + 1) /\ n + 1 - Confirmations <= settled'
    BY <1>1, <2>2, <2>3, Limits DEF ChainInv
  <2> HIDE DEF c
  <2>6. chain' = Append(SubSeq(chain, 1, n + 1), c)
    BY <2>1 DEF c
  <2>7. reorgs' \in Nat /\ reorgs <= reorgs'
    BY <1>1, <2>3
  <2> QED
    BY <2>2, <2>4, <2>5, <2>6, <2>7, ChainExtended
<1> QED
  BY <1>2, <1>3

\* What is announced in a block is typed, and lives no longer than MaxTtl.
LEMMA EventFacts ==
  ASSUME ChainTypeOK, NEW first \in Nat, NEW last \in Int, last <= Height,
         NEW p \in Positions(first, last)
  PROVE  /\ p[1] \in first..last /\ p[1] \in 0..Height
         /\ Event(p) \in PositionedEvent
         /\ Usable(Event(p)) =>
              /\ CandidateOf(Event(p)) \in Candidate
              /\ head.time \in Nat => head.time < BlockAt(p[1]).time + MaxTtl
<1> DEFINE block == BlockAt(p[1])
           log == block.logs[p[2]]
<1>1. p[1] \in first..last /\ p[2] \in 1..LogsPerBlock /\ p[2] \in DOMAIN block.logs
  BY PositionsFinite DEF Positions
<1>2. p[1] \in 0..Height /\ p[1] \in Nat /\ p[1] <= MaxHeight
  BY <1>1, BlockFacts, Limits DEF ChainTypeOK
<1>3. block.time \in Nat /\ block.logs \in LogLists
  BY <1>2, BlockFacts DEF BlockRecord
<1>4. log \in Log
  BY <1>1, <1>3 DEF LogLists
<1>5. Event(p) = [block |-> p[1], logIndex |-> p[2] - 1, log |-> log,
                  validUntil |-> IF log = Unusable THEN 0 ELSE block.time + log.ttl]
  BY DEF Event
<1>6. log # Unusable => /\ log.identity \in Identity /\ log.sequence \in Sequence
                        /\ log.ttl \in Nat /\ log.ttl <= MaxTtl
  <2>1. log # Unusable => log \in [identity : Identity, sequence : Sequence, ttl : Ttls]
    BY <1>4, Zenon DEF Log
  <2> HIDE DEF log
  <2>2. log # Unusable => /\ log.identity \in Identity /\ log.sequence \in Sequence
                          /\ log.ttl \in Ttls
    BY <2>1
  <2>3. \A t \in Ttls : t \in Nat /\ t <= MaxTtl
    BY Limits
  <2> QED
    BY <2>2, <2>3
<1>7. p[2] - 1 \in Nat /\ p[2] - 1 \in LogIndex /\ p[1] \in Block
  BY <1>1, <1>2, Limits, ScannerAssumption
<1> HIDE DEF block, log
<1>8. Event(p) \in PositionedEvent
  BY <1>2, <1>3, <1>4, <1>5, <1>6, <1>7 DEF PositionedEvent
<1>9. ASSUME Usable(Event(p))
      PROVE  /\ CandidateOf(Event(p)) \in Candidate
             /\ head.time \in Nat => head.time < block.time + MaxTtl
  <2>1. log # Unusable /\ head.time < block.time + log.ttl
    BY <1>5, <1>9 DEF Usable
  <2>2. CandidateOf(Event(p)) = [identity |-> log.identity, sequence |-> log.sequence,
                                 block |-> p[1], logIndex |-> p[2] - 1]
    BY <1>5 DEF CandidateOf
  <2>3. CandidateOf(Event(p)) \in Candidate
    BY <1>6, <1>7, <2>1, <2>2 DEF Candidate
  <2>4. head.time \in Nat => head.time < block.time + MaxTtl
    BY <1>3, <1>6, <2>1, Limits
  <2> QED
    BY <2>3, <2>4
<1> QED
  BY <1>1, <1>2, <1>8, <1>9 DEF block

LEMMA AnnouncedIff ==
  ASSUME NEW first, NEW last, NEW x
  PROVE  x \in Announced(first, last) <=>
           \E p \in Positions(first, last) : Usable(Event(p)) /\ x = CandidateOf(Event(p))
  BY Zenon DEF Announced

LEMMA AnnouncedTyped ==
  ASSUME ChainTypeOK, NEW first \in Nat, NEW last \in Int, last <= Height
  PROVE  Announced(first, last) \subseteq Candidate
  BY AnnouncedIff, EventFacts

LEMMA AnnouncedSplit ==
  ASSUME NEW first \in Nat, NEW mid \in Int, NEW next \in Nat, NEW last \in Int,
         next = mid + 1, first <= next, mid <= last
  PROVE  Announced(first, last) = Announced(first, mid) \cup Announced(next, last)
<1>1. /\ Positions(first, last) = Positions(first, mid) \cup Positions(next, last)
      /\ Positions(first, mid) \cap Positions(next, last) = {}
  BY PositionsSplit
<1>2. ASSUME NEW x
      PROVE  x \in Announced(first, last)
               <=> x \in Announced(first, mid) \/ x \in Announced(next, last)
  <2>1. \A p : p \in Positions(first, last)
                <=> p \in Positions(first, mid) \/ p \in Positions(next, last)
    BY <1>1
  <2> QED
    BY <2>1, Zenon DEF Announced
<1> QED
  BY <1>2

LEMMA NothingAnnounced ==
  ASSUME NEW first \in Nat
  PROVE  /\ Announced(first, first - 1) = {}
         /\ Cardinality(Positions(first, first - 1)) = 0
<1>1. first..(first - 1) = {}
  OBVIOUS
<1>2. Positions(first, first - 1) = {}
  BY <1>1 DEF Positions
<1> QED
  BY <1>2, FS_EmptySet DEF Announced

\* The announcements in settled blocks do not change.
LEMMA PositionsStay ==
  ASSUME ChainTypeOK, SettledStay, NEW first \in Nat, NEW last \in Int, last <= settled
  PROVE  /\ Positions(first, last)' = Positions(first, last)
         /\ \A p \in Positions(first, last) : Event(p)' = Event(p)
<1>1. \A n \in first..last : BlockAt(n)' = BlockAt(n)
  BY BlockFacts DEF SettledStay
<1>2. Positions(first, last)' =
        {p \in (first..last) \X (1..LogsPerBlock) : p[2] \in DOMAIN (BlockAt(p[1])').logs}
  BY DEF Positions
<1>3. \A p \in (first..last) \X (1..LogsPerBlock) : BlockAt(p[1])' = BlockAt(p[1])
  BY <1>1
<1>4. Positions(first, last)' = Positions(first, last)
  BY <1>2, <1>3 DEF Positions
<1>5. ASSUME NEW p \in Positions(first, last)
      PROVE  Event(p)' = Event(p)
  <2>1. BlockAt(p[1])' = BlockAt(p[1])
    BY <1>3, <1>5 DEF Positions
  <2> QED
    BY <2>1, Zenon DEF Event
<1> QED
  BY <1>4, <1>5

LEMMA AnnouncedStay ==
  ASSUME ChainTypeOK, SettledStay, head' = head,
         NEW first \in Nat, NEW last \in Int, last <= settled
  PROVE  Announced(first, last)' = Announced(first, last)
<1>1. /\ Positions(first, last)' = Positions(first, last)
      /\ \A p \in Positions(first, last) : Event(p)' = Event(p)
  BY PositionsStay
<1>2. \A p \in Positions(first, last) :
        /\ Usable(Event(p))' <=> Usable(Event(p))
        /\ CandidateOf(Event(p))' = CandidateOf(Event(p))
  BY <1>1 DEF Usable, CandidateOf
<1>3. Announced(first, last)' =
        {CandidateOf(Event(p))' : p \in {q \in Positions(first, last)' : Usable(Event(q))'}}
  BY DEF Announced
<1> QED
  BY <1>1, <1>2, <1>3 DEF Announced

LEMMA ChainUntouched ==
  ASSUME ChainTypeOK, ChainInv, UNCHANGED chainVars
  PROVE  ChainTypeOK' /\ ChainInv' /\ SettledStay /\ Height' = Height
<1>1. chain' = chain /\ settled' = settled /\ reorgs' = reorgs
  BY DEF chainVars
<1>2. Height' = Height
  BY <1>1 DEF Height
<1>3. \A n : BlockAt(n)' = BlockAt(n)
  BY <1>1 DEF BlockAt
<1>4. ChainTypeOK'
  BY <1>1, <1>2 DEF ChainTypeOK
<1>5. ChainInv'
  BY <1>1, <1>2, <1>3, Zenon DEF ChainInv
<1>6. SettledStay
  BY <1>1, <1>2, <1>3, BlockFacts DEF SettledStay, ChainTypeOK
<1> QED
  BY <1>2, <1>4, <1>5, <1>6

-------------------------------------------------------------------------------
(***************************************************************************)
(* The walk over the logs, which the node and the browser client share     *)
(***************************************************************************)
LEMMA StoreUntouched == ASSUME ProofInv, UNCHANGED vars PROVE ProofInv'
  BY DEF vars, ProofInv, IInv, TypeOK, Bounded, LowestScores, RetainedFreshest, Retained,
         SeenIdentities, IsFreshest, Finite

LEMMA StoreEmptied == ASSUME EmptyStore PROVE ProofInv' /\ seen' = {}
<1>1. Init' /\ seen' = {}
  BY DEF EmptyStore, Init
<1>2. (Init => ProofInv)'
  BY InitProofInv, PTL
<1> QED
  BY <1>1, <1>2

LEMMA StoreTyped == ASSUME ProofInv PROVE TypeOK
  BY DEF ProofInv, IInv

LEMMA StoreTypedNext == ASSUME ProofInv' PROVE TypeOK'
  BY DEF ProofInv, IInv

\* How far the walk is, as numbers.
LEMMA WalkFacts ==
  ASSUME WalkInv
  PROVE  /\ head.number \in Nat /\ head.time \in Nat /\ head.number <= settled
         /\ settled \in Nat /\ settled <= Height /\ Height \in Nat /\ Height <= MaxHeight
         /\ low \in Nat /\ high \in Nat /\ from \in Nat /\ to \in Nat /\ chunk \in Nat
         /\ processed \in Nat /\ page \in Seq(PositionedEvent)
         /\ DOMAIN page = 1..Len(page) /\ Len(page) \in Nat
         /\ ChainTypeOK /\ ChainInv /\ ProofInv
         /\ pc \in Walking => Frontier \in Int /\ Frontier <= head.number /\ low <= Frontier + 1
<1>1. /\ head.number \in Nat /\ head.time \in Nat /\ head.number <= settled
      /\ low \in Nat /\ high \in Nat /\ from \in Nat /\ to \in Nat /\ chunk \in Nat
      /\ processed \in Nat /\ page \in Seq(PositionedEvent)
      /\ ChainTypeOK /\ ChainInv /\ ProofInv
  BY BlockFacts DEF WalkInv, DataTypeOK, Ranges
<1>2. settled \in Nat /\ settled <= Height /\ Height \in Nat /\ Height <= MaxHeight
  BY <1>1, BlockFacts DEF ChainTypeOK
<1>3. DOMAIN page = 1..Len(page) /\ Len(page) \in Nat
  BY <1>1, LenProperties
<1>4. pc \in Walking => Frontier \in Int /\ Frontier <= head.number /\ low <= Frontier + 1
  BY <1>1 DEF WalkInv, Ranges, Frontier, Walking
<1> QED
  BY <1>1, <1>2, <1>3, <1>4

\* The chain moves, or nothing does.
LEMMA ChainMoves ==
  ASSUME WalkInv, ChainTypeOK', ChainInv', SettledStay, UNCHANGED <<vars, pc, scanVars>>
  PROVE  WalkInv' /\ (Skipped => Skipped') /\ (Anchored => Anchored')
<1>1. UNCHANGED <<pc, head, low, high, from, to, chunk, page, processed, reorged, checkpoint,
                  accepted, scans, candidates, seen>>
  BY DEF vars, scanVars, searchVars, logVars
<1>2. settled \in Nat /\ settled <= settled' /\ settled' <= Height' /\ Height' \in Nat
      /\ reorgs \in Nat /\ reorgs <= reorgs' /\ reorgs' \in Nat /\ settled' \in Nat
      /\ Height \in Nat
  BY WalkFacts, BlockFacts DEF SettledStay, ChainTypeOK, Height
<1>3. ProofInv' /\ TypeOK'
  BY WalkFacts, StoreUntouched, StoreTypedNext
<1>4. Ranges'
  <2>1. Ranges /\ head.number \in Nat /\ high \in Nat
    BY WalkFacts DEF WalkInv
  <2>2. checkpoint = <<>> \/ checkpoint[1] \in Nat
    BY DEF WalkInv, DataTypeOK
  <2> QED
    BY <1>1, <1>2, <2>1, <2>2 DEF Ranges
<1>5. DataTypeOK'
  <2>1. DataTypeOK /\ Ranges
    BY DEF WalkInv
  <2>2. head' \in [number : 0..Height', time : Nat, fork : 0..reorgs']
    <3>1. head \in [number : 0..Height, time : Nat, fork : 0..reorgs] /\ head.number <= settled
      BY <2>1 DEF DataTypeOK, Ranges
    <3> QED
      BY <1>1, <1>2, <3>1
  <2>3. checkpoint' = <<>> \/ checkpoint' \in (0..Height') \X (0..reorgs')
    <3>1. checkpoint = <<>> \/ checkpoint \in (0..Height) \X (0..reorgs)
      BY <2>1 DEF DataTypeOK
    <3>2. checkpoint = <<>> \/ checkpoint[1] <= settled
      BY <2>1 DEF Ranges
    <3> QED
      BY <1>1, <1>2, <3>1, <3>2
  <2> QED
    BY <1>1, <1>3, <2>1, <2>2, <2>3 DEF DataTypeOK
<1>6. ASSUME pc \in Walking
      PROVE  /\ Frontier' = Frontier /\ Paged' = Paged
             /\ Positions(low, Frontier)' = Positions(low, Frontier)
             /\ Announced(low, Frontier)' = Announced(low, Frontier)
  <2>1. Frontier' = Frontier
    BY <1>1 DEF Frontier
  <2>2. Paged' = Paged
    BY <1>1 DEF Paged, Usable, CandidateOf
  <2>3. Frontier \in Int /\ Frontier <= settled /\ low \in Nat /\ low' = low /\ head' = head
        /\ ChainTypeOK
    BY <1>1, <1>6, WalkFacts
  <2> QED
    BY <2>1, <2>2, <2>3, PositionsStay, AnnouncedStay
<1>7. Progress'
  BY <1>1, <1>6 DEF WalkInv, Progress
<1>8. WalkInv'
  BY <1>1, <1>3, <1>4, <1>5, <1>7 DEF WalkInv
<1>9. Skipped => Skipped'
  <2> SUFFICES ASSUME Skipped, pc \in {"search"} \cup Walking,
                      NEW n \in DeploymentBlock..(low - 1)
               PROVE  BlockAt(n)'.time + MaxTtl <= head.time
    BY <1>1 DEF Skipped
  <2>1. n \in 0..settled
    <3>1. low <= head.number /\ Ranges
      BY WalkFacts DEF WalkInv, Ranges
    <3> QED
      BY <3>1, WalkFacts, Limits
  <2>2. BlockAt(n)' = BlockAt(n)
    BY <2>1 DEF SettledStay
  <2> QED
    BY <2>2 DEF Skipped
<1>10. Anchored => Anchored'
  <2>1. head.number \in 0..settled
    BY WalkFacts
  <2>2. checkpoint # <<>> => checkpoint[1] \in 0..settled
    BY WalkFacts DEF WalkInv, DataTypeOK, Ranges
  <2>3. BlockAt(head.number)' = BlockAt(head.number)
    BY <1>1, <2>1 DEF SettledStay
  <2>4. checkpoint # <<>> => BlockAt(checkpoint[1])' = BlockAt(checkpoint[1])
    BY <1>1, <2>2 DEF SettledStay
  <2> QED
    BY <1>1, <2>3, <2>4 DEF Anchored, Hash
<1> QED
  BY <1>8, <1>9, <1>10
\* Steps before the walk: the head and the search change, the rest does not.
LEMMA BeforeWalk ==
  ASSUME WalkInv, UNCHANGED <<vars, chainVars, logVars, reorged, checkpoint, accepted>>,
         scans' \in Nat, low' \in Nat, high' \in Nat,
         head' \in [number : 0..Height, time : Nat, fork : 0..reorgs],
         head'.number <= settled, pc # "validate", pc' \notin Walking,
         pc' = "confirmed" => high' <= settled,
         pc' \in {"checkpoint", "search"} => DeploymentBlock <= head'.number,
         pc' = "search" => DeploymentBlock <= low' /\ low' <= high' /\ high' <= head'.number
  PROVE  WalkInv'
<1>1. UNCHANGED <<from, to, chunk, page, processed, reorged, checkpoint, accepted, candidates,
                  seen, settled, reorgs>>
  BY DEF vars, logVars, chainVars
<1>2. ChainTypeOK' /\ ChainInv' /\ Height' = Height
  BY ChainUntouched, WalkFacts
<1>3. ProofInv' /\ TypeOK'
  BY WalkFacts, StoreUntouched, StoreTypedNext
<1>4. DataTypeOK'
  <2>1. DataTypeOK
    BY DEF WalkInv
  <2> QED
    BY <1>1, <1>2, <1>3, <2>1 DEF DataTypeOK
<1>5. Ranges'
  <2>1. Ranges
    BY DEF WalkInv
  <2> QED
    BY <1>1, <2>1 DEF Ranges, Walking
<1>6. Progress'
  BY DEF Progress
<1> QED
  BY <1>1, <1>2, <1>3, <1>4, <1>5, <1>6 DEF WalkInv

\* scan returns, with an error or with what it has found.
LEMMA Returned ==
  ASSUME WalkInv, ScanReturns, UNCHANGED <<chainVars, scans>>, reorged' \in BOOLEAN,
         checkpoint' = <<>> \/ /\ checkpoint' \in (0..Height) \X (0..reorgs)
                               /\ checkpoint'[1] <= settled,
         accepted' \in [Identity -> Sequence \cup {0}]
  PROVE  WalkInv' /\ Skipped'
<1>1. /\ pc' = "idle" /\ EmptyStore /\ head' = NoBlock /\ low' = 0 /\ high' = 0
      /\ from' = 0 /\ to' = 0 /\ chunk' = 0 /\ page' = <<>> /\ processed' = 0
      /\ settled' = settled /\ reorgs' = reorgs /\ scans' = scans
  BY DEF ScanReturns, chainVars
<1>2. ChainTypeOK' /\ ChainInv' /\ Height' = Height
  BY ChainUntouched, WalkFacts
<1>3. ProofInv' /\ TypeOK'
  BY <1>1, StoreEmptied, StoreTypedNext
<1>4. DataTypeOK'
  <2>1. scans \in Nat
    BY DEF WalkInv, DataTypeOK
  <2>2. head' \in [number : 0..Height', time : Nat, fork : 0..reorgs']
    BY <1>1, <1>2, WalkFacts DEF NoBlock, ChainTypeOK
  <2> QED
    BY <1>1, <1>2, <1>3, <2>1, <2>2 DEF DataTypeOK
<1>5. Ranges'
  BY <1>1, WalkFacts DEF Ranges, Walking, NoBlock
<1>6. Progress' /\ Skipped'
  BY <1>1 DEF Progress, Skipped, Walking
<1>7. processed' <= MaxLogs
  BY <1>1, Limits
<1> QED
  BY <1>2, <1>3, <1>4, <1>5, <1>6, <1>7 DEF WalkInv

\* A step of the binary search drops only blocks that are too old.
LEMMA SearchStep ==
  ASSUME WalkInv, Search
  PROVE  WalkInv' /\ (Skipped => Skipped')
<1> DEFINE middle == low + (high - low) \div 2
<1>1. /\ pc = "search" /\ pc' = pc /\ low < high /\ IsBlock(middle)
      /\ \/ BlockAt(middle).time < Cutoff /\ low' = middle + 1 /\ high' = high
         \/ high' = middle /\ low' = low
      /\ UNCHANGED <<vars, chainVars, head, logVars, reorged, checkpoint, accepted, scans>>
  BY DEF Search
<1>2. /\ low \in Nat /\ high \in Nat /\ head.number \in Nat /\ head.number <= settled
      /\ Ranges /\ DataTypeOK
  BY WalkFacts DEF WalkInv
<1>3. middle \in Nat /\ low <= middle /\ middle < high
  BY <1>1, <1>2
<1> HIDE DEF middle
<1>4. /\ DeploymentBlock <= low /\ high <= head.number
      /\ DeploymentBlock <= head.number
  BY <1>1, <1>2 DEF Ranges
<1>5. low' \in Nat /\ high' \in Nat /\ DeploymentBlock <= low' /\ low' <= high' /\ high' <= head.number
  BY <1>1, <1>2, <1>3, <1>4, Limits
<1>6. WalkInv'
  <2>1. head' = head /\ scans' = scans
    BY <1>1
  <2>2. head \in [number : 0..Height, time : Nat, fork : 0..reorgs] /\ scans \in Nat
    BY <1>2 DEF DataTypeOK
  <2> QED
    BY <1>1, <1>2, <1>4, <1>5, <2>1, <2>2, BeforeWalk DEF Walking
<1>7. ASSUME Skipped PROVE Skipped'
  <2>1. \A n : BlockAt(n)' = BlockAt(n)
    BY <1>1 DEF BlockAt, chainVars
  <2>2. \A n \in DeploymentBlock..(low - 1) : BlockAt(n).time + MaxTtl <= head.time
    BY <1>1, <1>7 DEF Skipped
  <2>3. ASSUME BlockAt(middle).time < Cutoff, NEW n \in DeploymentBlock..middle
        PROVE  BlockAt(n).time + MaxTtl <= head.time
    <3>1. middle \in 0..Height /\ n \in 0..Height /\ n <= middle
      BY <1>2, <1>3, <1>4, WalkFacts, Limits
    <3>2. BlockAt(n).time \in Nat /\ BlockAt(middle).time \in Nat
      BY <3>1, WalkFacts, BlockFacts DEF BlockRecord
    <3>3. BlockAt(n).time + (middle - n) <= BlockAt(middle).time
      BY <3>1, WalkFacts DEF ChainInv
    <3>4. head.time \in Nat /\ MaxTtl \in Nat /\ n \in Int /\ middle \in Int
      BY <1>3, <3>1, WalkFacts, Limits
    <3>5. BlockAt(middle).time + MaxTtl < head.time
      BY <2>3, <3>2, <3>4 DEF Cutoff
    <3> QED
      BY <3>1, <3>2, <3>3, <3>4, <3>5
  <2>4. ASSUME NEW n \in DeploymentBlock..(low' - 1)
        PROVE  BlockAt(n).time + MaxTtl <= head.time
    <3>1. CASE low' = low
      BY <2>2, <2>4, <3>1
    <3>2. CASE BlockAt(middle).time < Cutoff /\ low' = middle + 1
      <4>1. n \in DeploymentBlock..middle
        BY <1>3, <2>4, <3>2, Limits
      <4> QED
        BY <2>3, <3>2, <4>1
    <3> QED
      BY <1>1, <3>1, <3>2
  <2> QED
    BY <1>1, <2>1, <2>4 DEF Skipped
<1> QED
  BY <1>6, <1>7

\* Steps of the walk: the head, the first block and the chain stay.
LEMMA DuringWalk ==
  ASSUME WalkInv, UNCHANGED <<chainVars, searchVars, reorged, checkpoint, accepted, scans>>,
         pc \in {"search"} \cup Walking, ProofInv',
         from' \in Nat, to' \in Nat, chunk' \in Nat, processed' \in Nat,
         page' \in Seq(PositionedEvent)
  PROVE  /\ DataTypeOK' /\ ChainInv' /\ SettledStay
         /\ head' = head /\ low' = low /\ high' = high /\ settled' = settled
         /\ checkpoint' = checkpoint
         /\ Skipped => Skipped'
         /\ Anchored => Anchored'
<1>1. UNCHANGED <<head, low, high, chain, settled, reorgs, checkpoint, reorged, accepted, scans>>
  BY DEF searchVars, chainVars
<1>2. ChainTypeOK' /\ ChainInv' /\ SettledStay /\ Height' = Height
  BY ChainUntouched, WalkFacts
<1>3. DataTypeOK'
  <2>1. DataTypeOK /\ TypeOK'
    BY StoreTypedNext DEF WalkInv
  <2> QED
    BY <1>1, <1>2, <2>1 DEF DataTypeOK
<1>4. \A n : BlockAt(n)' = BlockAt(n)
  BY <1>1 DEF BlockAt
<1>5. Skipped => Skipped'
  BY <1>1, <1>4, Zenon DEF Skipped
<1>6. Anchored => Anchored'
  BY <1>1, <1>4 DEF Anchored, Hash
<1> QED
  BY <1>1, <1>2, <1>3, <1>5, <1>6

LEMMA FrontierMoves ==
  ASSUME WalkInv, SettledStay, head' = head, low' = low,
         NEW f \in Int, f <= head.number, Frontier' = f
  PROVE  /\ Announced(low, Frontier)' = Announced(low, f)
         /\ Positions(low, Frontier)' = Positions(low, f)
<1>1. f <= settled /\ low \in Nat /\ ChainTypeOK
  BY WalkFacts
<1> QED
  BY <1>1, AnnouncedStay, PositionsStay

LEMMA EmptyPage ==
  ASSUME page = <<>>
  PROVE  Paged = {} /\ Len(page) = 0
  BY DEF Paged

LEMMA EmptyPageNext ==
  ASSUME page' = <<>>
  PROVE  Paged' = {} /\ Len(page') = 0
  BY DEF Paged

\* The walk starts with an empty store.
LEMMA SearchDoneStep ==
  ASSUME WalkInv, SearchDone
  PROVE  WalkInv' /\ (Skipped => Skipped') /\ (Anchored => Anchored')
<1>1. /\ pc = "search" /\ pc' = "query" /\ low >= high /\ EmptyStore
      /\ from' = low /\ chunk' = AtLeastOne(InitialChunk) /\ processed' = 0
      /\ to' = to /\ page' = page
      /\ UNCHANGED <<chainVars, searchVars, reorged, checkpoint, accepted, scans>>
  BY DEF SearchDone
<1>2. Ranges /\ page = <<>>
  BY <1>1 DEF WalkInv, Ranges
<1>3. /\ low \in Nat /\ to \in Nat /\ chunk' \in Nat /\ chunk' >= 1 /\ head.number \in Nat
      /\ page \in Seq(PositionedEvent) /\ high \in Nat /\ head.number <= settled
  BY <1>1, WalkFacts, Limits DEF AtLeastOne
<1>4. ProofInv' /\ seen' = {}
  BY <1>1, StoreEmptied
<1>5. /\ DataTypeOK' /\ ChainInv' /\ SettledStay
      /\ head' = head /\ low' = low /\ high' = high /\ settled' = settled
      /\ checkpoint' = checkpoint
      /\ Skipped => Skipped'
      /\ Anchored => Anchored'
  BY <1>1, <1>3, <1>4, DuringWalk
<1>6. DeploymentBlock <= low /\ low <= head.number /\ DeploymentBlock <= head.number
  BY <1>1, <1>2, <1>3, Limits DEF Ranges
<1>7. Ranges'
  BY <1>1, <1>2, <1>3, <1>5, <1>6 DEF Ranges, Walking
<1>8. Progress'
  <2>1. Frontier' = low - 1
    BY <1>1 DEF Frontier
  <2>2. low - 1 \in Int /\ low - 1 <= head.number
    BY <1>3, <1>6
  <2>3. /\ Announced(low, Frontier)' = Announced(low, low - 1)
        /\ Positions(low, Frontier)' = Positions(low, low - 1)
    BY <1>5, <2>1, <2>2, FrontierMoves
  <2>4. Announced(low, Frontier)' = {} /\ Cardinality(Positions(low, Frontier)') = 0
    BY <1>3, <2>3, NothingAnnounced
  <2>5. Paged' = {} /\ Len(page') = 0
    BY <1>1, <1>2, EmptyPageNext
  <2> QED
    BY <1>1, <1>4, <2>4, <2>5, Limits DEF Progress
<1>9. processed' <= MaxLogs
  BY <1>1, Limits
<1> QED
  BY <1>4, <1>5, <1>7, <1>8, <1>9 DEF WalkInv

\* A page is what is announced in its range, unless the log cap cuts it.
LEMMA PageOf ==
  ASSUME WalkInv, NEW first \in Nat, NEW last \in Int, last <= Height, processed < MaxLogs,
         page' = Page(Events(Positions(first, last))), head' = head
  PROVE  /\ page' \in Seq(PositionedEvent) /\ Len(page') \in Nat
         /\ Paged' \subseteq Announced(first, last)
         /\ Len(page') <= MaxLogs - processed
         /\ Len(page') < MaxLogs - processed =>
              /\ Len(page') = Cardinality(Positions(first, last))
              /\ Paged' = Announced(first, last)
<1> DEFINE at == Positions(first, last)
           e == Events(at)
           n == Lesser(Len(e), MaxLogs - processed)
<1>1. at \in SUBSET (Int \X Int) /\ IsFiniteSet(at) /\ ChainTypeOK /\ processed \in Nat
  BY PositionsFinite, WalkFacts
<1>2. /\ Cardinality(at) \in Nat
      /\ DOMAIN e = 1..Cardinality(at)
      /\ \A m \in DOMAIN e : \E p \in at : e[m] = Event(p)
      /\ \A p \in at : \E m \in DOMAIN e : e[m] = Event(p)
  BY <1>1, EventsOf
<1>3. \A p \in at : Event(p) \in PositionedEvent
  BY <1>1, EventFacts
<1>4. e = [m \in 1..Cardinality(at) |-> e[m]]
  BY <1>2 DEF Events
<1> HIDE DEF e, at
<1>5. e \in Seq(PositionedEvent) /\ Len(e) = Cardinality(at)
  <2>1. \A m \in 1..Cardinality(at) : e[m] \in PositionedEvent
    BY <1>2, <1>3
  <2>2. e \in [1..Cardinality(at) -> PositionedEvent]
    BY <1>4, <2>1
  <2>3. e \in Seq(PositionedEvent)
    BY <1>2, <2>2
  <2>4. DOMAIN e = 1..Len(e) /\ Len(e) \in Nat
    BY <2>3, LenProperties
  <2>5. \A j, k \in Nat : 1..j = 1..k => j = k
    OBVIOUS
  <2> QED
    BY <1>2, <2>3, <2>4, <2>5, Zenon
<1>6. n \in Nat /\ n <= Len(e) /\ n <= MaxLogs - processed /\ (n < MaxLogs - processed => n = Len(e))
  BY <1>1, <1>2, <1>5, Limits DEF Lesser
<1>7. page' = SubSeq(e, 1, n)
  BY DEF Page, e, at
<1> HIDE DEF n
<1>8. /\ page' \in Seq(PositionedEvent) /\ Len(page') = n
      /\ DOMAIN (page') = 1..n
      /\ \A k \in 1..n : page'[k] = e[k] /\ k \in DOMAIN e
  BY <1>2, <1>5, <1>6, <1>7, SubSeqProperties
<1>9. Paged' = {CandidateOf(page'[k]) : k \in {j \in 1..n : Usable(page'[j])}}
  <2>1. \A x : (Usable(x)' <=> Usable(x)) /\ CandidateOf(x)' = CandidateOf(x)
    BY DEF Usable, CandidateOf
  <2> QED
    BY <1>8, <2>1 DEF Paged, Usable, CandidateOf
<1>10. \A x : x \in Paged' <=> \E k \in 1..n : Usable(e[k]) /\ x = CandidateOf(e[k])
  BY <1>8, <1>9
<1>11. \A x : x \in Announced(first, last) <=> \E p \in at : Usable(Event(p)) /\ x = CandidateOf(Event(p))
  BY AnnouncedIff DEF at
<1>12. Paged' \subseteq Announced(first, last)
  BY <1>2, <1>8, <1>10, <1>11
<1>13. n = Len(e) => Paged' = Announced(first, last)
  <2> SUFFICES ASSUME n = Len(e), NEW p \in at, Usable(Event(p))
               PROVE  CandidateOf(Event(p)) \in Paged'
    BY <1>11, <1>12
  <2>1. PICK m \in 1..n : e[m] = Event(p)
    BY <1>2, <1>5
  <2> QED
    BY <1>10, <2>1
<1> QED
  BY <1>5, <1>6, <1>8, <1>12, <1>13 DEF at

\* The next range adjoins what was read before.
LEMMA QueryStep ==
  ASSUME WalkInv, Query
  PROVE  WalkInv' /\ (Skipped => Skipped') /\ (Anchored => Anchored')
<1>1. /\ pc = "query" /\ pc' = "validate" /\ from <= head.number /\ processed < MaxLogs
      /\ to' = RangeEnd /\ from' = from /\ chunk' = chunk /\ processed' = processed
      /\ page' = Page(Events(Positions(from, RangeEnd)))
      /\ UNCHANGED <<chainVars, searchVars, reorged, checkpoint, accepted, scans>>
      /\ UNCHANGED vars
  BY DEF Query, MoreLogs
<1>2. /\ Ranges /\ Progress /\ page = <<>>
      /\ low \in Nat /\ from \in Nat /\ chunk \in Nat /\ processed \in Nat
      /\ head.number \in Nat /\ head.number <= settled /\ settled <= Height /\ settled \in Nat
      /\ Height \in Nat
  BY <1>1, WalkFacts DEF WalkInv, Ranges
<1>3. chunk >= 1 /\ low <= from /\ DeploymentBlock <= low /\ low <= head.number
  BY <1>1, <1>2 DEF Ranges, Walking
<1>4. RangeEnd \in Nat /\ from <= RangeEnd /\ RangeEnd <= head.number /\ RangeEnd <= Height
  BY <1>1, <1>2, <1>3 DEF RangeEnd
<1>5. head' = head
  BY <1>1 DEF searchVars
<1>6. /\ page' \in Seq(PositionedEvent) /\ Len(page') \in Nat
      /\ Paged' \subseteq Announced(from, RangeEnd)
      /\ Len(page') <= MaxLogs - processed
      /\ Len(page') < MaxLogs - processed =>
           /\ Len(page') = Cardinality(Positions(from, RangeEnd))
           /\ Paged' = Announced(from, RangeEnd)
  BY <1>1, <1>2, <1>4, <1>5, PageOf
<1>7. ProofInv'
  BY <1>1, WalkFacts, StoreUntouched
<1>8. /\ DataTypeOK' /\ ChainInv' /\ SettledStay
      /\ head' = head /\ low' = low /\ high' = high /\ settled' = settled
      /\ checkpoint' = checkpoint
      /\ Skipped => Skipped'
      /\ Anchored => Anchored'
  <2>1. pc \in {"search"} \cup Walking
    BY <1>1 DEF Walking
  <2> QED
    BY <1>1, <1>2, <1>4, <1>6, <1>7, <2>1, DuringWalk
<1>9. Ranges'
  BY <1>1, <1>2, <1>3, <1>4, <1>8 DEF Ranges, Walking
<1>10. Progress'
  <2> DEFINE mid == from - 1
  <2>1. mid \in Int /\ from = mid + 1 /\ mid <= RangeEnd /\ Frontier = mid
    BY <1>1, <1>2, <1>4 DEF Frontier
  <2> HIDE DEF mid
  <2>2. /\ Announced(low, RangeEnd) = Announced(low, mid) \cup Announced(from, RangeEnd)
        /\ Cardinality(Positions(low, RangeEnd)) =
             Cardinality(Positions(low, mid)) + Cardinality(Positions(from, RangeEnd))
        /\ Cardinality(Positions(low, mid)) \in Nat
        /\ Cardinality(Positions(from, RangeEnd)) \in Nat
    <3>1. low \in Nat /\ from \in Nat /\ RangeEnd \in Int /\ low <= from
      BY <1>2, <1>3, <1>4
    <3>2. Announced(low, RangeEnd) = Announced(low, mid) \cup Announced(from, RangeEnd)
      BY <2>1, <3>1, AnnouncedSplit
    <3>3. /\ Cardinality(Positions(low, RangeEnd)) =
               Cardinality(Positions(low, mid)) + Cardinality(Positions(from, RangeEnd))
          /\ Cardinality(Positions(low, mid)) \in Nat
          /\ Cardinality(Positions(from, RangeEnd)) \in Nat
      BY <2>1, <3>1, CountSplit
    <3> QED
      BY <3>2, <3>3
  <2>3. Frontier' = RangeEnd
    BY <1>1 DEF Frontier
  <2>4. /\ Announced(low, Frontier)' = Announced(low, RangeEnd)
        /\ Positions(low, Frontier)' = Positions(low, RangeEnd)
    BY <1>4, <1>8, <2>3, FrontierMoves
  <2>5. /\ seen \subseteq Announced(low, mid)
        /\ seen = Announced(low, mid)
        /\ processed = Cardinality(Positions(low, mid))
    <3>1. Paged = {} /\ Len(page) = 0
      BY <1>2, EmptyPage
    <3> QED
      BY <1>1, <1>2, <2>1, <3>1 DEF Progress, Walking
  <2>6. seen' = seen /\ processed' = processed /\ MaxLogs \in Nat
    BY <1>1, Limits DEF vars
  <2>7. (seen \cup Paged)' \subseteq Announced(low, RangeEnd)
    BY <1>6, <2>2, <2>5, <2>6
  <2>8. processed' + Len(page') <= MaxLogs
    BY <1>2, <1>6, <2>6
  <2>9. ASSUME processed' + Len(page') < MaxLogs
        PROVE  /\ (seen \cup Paged)' = Announced(low, RangeEnd)
               /\ processed' + Len(page') = Cardinality(Positions(low, RangeEnd))
    <3>1. Len(page') < MaxLogs - processed
      BY <1>2, <1>6, <2>6, <2>9
    <3> QED
      BY <1>2, <1>6, <2>2, <2>5, <2>6, <3>1
  <2> QED
    BY <2>4, <2>7, <2>8, <2>9 DEF Progress
<1>11. processed' <= MaxLogs
  BY <1>1, <1>2, Limits
<1> QED
  BY <1>7, <1>8, <1>9, <1>10, <1>11 DEF WalkInv

LEMMA RangeLimitedStep ==
  ASSUME WalkInv, RangeLimited
  PROVE  WalkInv' /\ (Skipped => Skipped') /\ (Anchored => Anchored')
<1>1. /\ pc = "query" /\ pc' = pc
      /\ to' = to /\ from' = from /\ page' = page /\ processed' = processed
      /\ chunk' = IF chunk \div 2 > AtLeastOne(MinimumChunk)
                    THEN chunk \div 2 ELSE AtLeastOne(MinimumChunk)
      /\ UNCHANGED <<chainVars, searchVars, reorged, checkpoint, accepted, scans>>
      /\ UNCHANGED vars
  BY DEF RangeLimited
<1>2. /\ Ranges /\ Progress /\ low \in Nat /\ from \in Nat /\ to \in Nat /\ chunk \in Nat
      /\ processed \in Nat /\ page \in Seq(PositionedEvent) /\ head.number \in Nat
      /\ processed <= MaxLogs
  BY WalkFacts DEF WalkInv
<1>3. chunk' \in Nat /\ chunk' >= 1
  BY <1>1, <1>2, Limits DEF AtLeastOne
<1>4. ProofInv'
  BY <1>1, WalkFacts, StoreUntouched
<1>5. pc \in {"search"} \cup Walking
  BY <1>1 DEF Walking
<1>6. /\ DataTypeOK' /\ ChainInv' /\ SettledStay
      /\ head' = head /\ low' = low /\ high' = high /\ settled' = settled
      /\ checkpoint' = checkpoint
      /\ Skipped => Skipped'
      /\ Anchored => Anchored'
  BY <1>1, <1>2, <1>3, <1>4, <1>5, DuringWalk
<1>7. Ranges'
  BY <1>1, <1>2, <1>3, <1>6 DEF Ranges, Walking
<1>8. Progress'
  <2>1. Frontier \in Int /\ Frontier <= head.number /\ Frontier' = Frontier
    BY <1>1, <1>5, WalkFacts DEF Walking, Frontier
  <2>2. /\ Announced(low, Frontier)' = Announced(low, Frontier)
        /\ Positions(low, Frontier)' = Positions(low, Frontier)
    BY <1>6, <2>1, FrontierMoves
  <2>3. Paged' = Paged /\ seen' = seen
    BY <1>1, <1>6 DEF Paged, Usable, CandidateOf, vars
  <2> QED
    BY <1>1, <1>2, <2>2, <2>3 DEF Progress
<1> QED
  BY <1>1, <1>2, <1>4, <1>6, <1>7, <1>8 DEF WalkInv

\* What is not on the page any more is in the store, if it is usable.
LEMMA PageTail ==
  ASSUME NEW S, page \in Seq(S), page # <<>>, page' = Tail(page), head' = head
  PROVE  /\ page' \in Seq(S) /\ Len(page') = Len(page) - 1 /\ Len(page) \in Nat \ {0}
         /\ Usable(Head(page)) => Paged = Paged' \cup {CandidateOf(Head(page))}
         /\ ~Usable(Head(page)) => Paged = Paged'
<1>1. /\ Len(page) \in Nat \ {0} /\ page' \in Seq(S) /\ Len(page') = Len(page) - 1
      /\ DOMAIN page = 1..Len(page) /\ Head(page) = page[1]
      /\ DOMAIN (page') = 1..(Len(page) - 1)
      /\ \A k \in 1..(Len(page) - 1) : page'[k] = page[k + 1]
  BY HeadTailProperties, EmptySeq, LenProperties
<1> DEFINE n == Len(page)
<1>2. \A x : x \in Paged <=> \E k \in 1..n : Usable(page[k]) /\ x = CandidateOf(page[k])
  BY <1>1 DEF Paged
<1>3. \A x : x \in Paged' <=> \E k \in 1..(n - 1) : Usable(page[k + 1]) /\ x = CandidateOf(page[k + 1])
  BY <1>1 DEF Paged, Usable, CandidateOf
<1>4. \A k \in 1..n : k = 1 \/ (k - 1 \in 1..(n - 1) /\ (k - 1) + 1 = k)
  BY <1>1
<1>5. \A k \in 1..(n - 1) : k + 1 \in 1..n
  BY <1>1
<1>6. 1 \in 1..n
  BY <1>1
<1> HIDE DEF n
<1>7. \A x : x \in Paged <=> x \in Paged' \/ (Usable(page[1]) /\ x = CandidateOf(page[1]))
  <2>1. ASSUME NEW x \in Paged
        PROVE  x \in Paged' \/ (Usable(page[1]) /\ x = CandidateOf(page[1]))
    <3>1. PICK k \in 1..n : Usable(page[k]) /\ x = CandidateOf(page[k])
      BY <1>2
    <3>2. CASE k = 1
      BY <3>1, <3>2
    <3>3. CASE k - 1 \in 1..(n - 1) /\ (k - 1) + 1 = k
      <4>1. Usable(page[(k - 1) + 1]) /\ x = CandidateOf(page[(k - 1) + 1])
        BY <3>1, <3>3
      <4> QED
        BY <1>3, <3>3, <4>1
    <3> QED
      BY <1>4, <3>2, <3>3
  <2>2. ASSUME NEW x \in Paged' PROVE x \in Paged
    BY <1>2, <1>3, <1>5
  <2>3. Usable(page[1]) => CandidateOf(page[1]) \in Paged
    BY <1>2, <1>6
  <2> QED
    BY <2>1, <2>2, <2>3
<1> QED
  BY <1>1, <1>7

\* An announcement moves from the page to the store, or is refused.
LEMMA ValidateStep ==
  ASSUME WalkInv, Validate
  PROVE  WalkInv' /\ (Skipped => Skipped') /\ (Anchored => Anchored')
<1>1. /\ pc = "validate" /\ pc' = pc /\ page # <<>> /\ page' = Tail(page)
      /\ processed' = processed + 1 /\ from' = from /\ to' = to /\ chunk' = chunk
      /\ IF Usable(Head(page)) THEN Insert(CandidateOf(Head(page))) ELSE UNCHANGED vars
      /\ UNCHANGED <<chainVars, searchVars, reorged, checkpoint, accepted, scans>>
  BY DEF Validate
<1>2. /\ Ranges /\ Progress /\ low \in Nat /\ from \in Nat /\ to \in Nat /\ chunk \in Nat
      /\ processed \in Nat /\ page \in Seq(PositionedEvent) /\ head.number \in Nat
      /\ head.number <= settled /\ settled <= Height /\ ChainTypeOK /\ ProofInv
      /\ settled \in Nat /\ Height \in Nat
  BY WalkFacts DEF WalkInv
<1>3. pc \in Walking /\ pc \in {"search"} \cup Walking
  BY <1>1 DEF Walking
<1>4. head' = head
  BY <1>1 DEF searchVars
<1>5. /\ page' \in Seq(PositionedEvent) /\ Len(page') = Len(page) - 1 /\ Len(page) \in Nat \ {0}
      /\ Usable(Head(page)) => Paged = Paged' \cup {CandidateOf(Head(page))}
      /\ ~Usable(Head(page)) => Paged = Paged'
  BY <1>1, <1>2, <1>4, PageTail
<1>6. Frontier \in Int /\ Frontier <= head.number /\ Frontier' = Frontier
  BY <1>1, <1>3, WalkFacts DEF Frontier
<1>7. Paged \subseteq Candidate
  <2>1. Paged \subseteq Announced(low, Frontier)
    BY <1>2, <1>3 DEF Progress
  <2>2. Announced(low, Frontier) \subseteq Candidate
    BY <1>2, <1>6, AnnouncedTyped
  <2> QED
    BY <2>1, <2>2
<1>8. /\ ProofInv'
      /\ Usable(Head(page)) => seen' = seen \cup {CandidateOf(Head(page))}
      /\ ~Usable(Head(page)) => seen' = seen
  <2>1. CASE Usable(Head(page))
    <3>1. CandidateOf(Head(page)) \in Candidate /\ Insert(CandidateOf(Head(page)))
      BY <1>1, <1>5, <1>7, <2>1
    <3>2. ProofInv'
      BY <1>2, <3>1, InsertProofInv
    <3> QED
      BY <2>1, <3>1, <3>2 DEF Insert
  <2>2. CASE ~Usable(Head(page))
    BY <1>1, <1>2, <2>2, StoreUntouched DEF vars
  <2> QED
    BY <2>1, <2>2
<1>9. /\ DataTypeOK' /\ ChainInv' /\ SettledStay
      /\ head' = head /\ low' = low /\ high' = high /\ settled' = settled
      /\ checkpoint' = checkpoint
      /\ Skipped => Skipped'
      /\ Anchored => Anchored'
  <2>1. processed' \in Nat
    BY <1>1, <1>2
  <2> QED
    BY <1>1, <1>2, <1>3, <1>5, <1>8, <2>1, DuringWalk
<1>10. Ranges'
  BY <1>1, <1>2, <1>9 DEF Ranges, Walking
<1>11. Progress' /\ processed' <= MaxLogs
  <2>1. /\ Announced(low, Frontier)' = Announced(low, Frontier)
        /\ Positions(low, Frontier)' = Positions(low, Frontier)
    BY <1>6, <1>9, FrontierMoves
  <2>2. (seen \cup Paged)' = seen \cup Paged
    BY <1>5, <1>8
  <2>3. processed' + Len(page') = processed + Len(page)
    BY <1>1, <1>2, <1>5
  <2>4. Progress'
    BY <1>1, <1>2, <2>1, <2>2, <2>3 DEF Progress
  <2>5. processed + Len(page) <= MaxLogs
    BY <1>2, <1>3 DEF Progress
  <2> QED
    BY <1>1, <1>2, <1>5, <2>4, <2>5, Limits
<1> QED
  BY <1>8, <1>9, <1>10, <1>11 DEF WalkInv

\* A walk step that reads nothing: the frontier stays, or the walk is over.
LEMMA QuietStep ==
  ASSUME WalkInv, UNCHANGED <<vars, chainVars, searchVars, reorged, checkpoint, accepted, scans>>,
         UNCHANGED <<to, chunk, page, processed>>, page = <<>>,
         pc \in Walking, pc' \in Walking \ {"validate"}, from' \in Nat,
         pc' = "query" => low <= from' /\ from' <= head.number + 1 /\ chunk >= 1,
         Frontier' \in Int, Frontier <= Frontier', Frontier' <= head.number,
         Frontier' = Frontier \/ processed >= MaxLogs
  PROVE  WalkInv' /\ (Skipped => Skipped') /\ (Anchored => Anchored')
<1>1. /\ Ranges /\ Progress /\ low \in Nat /\ from \in Nat /\ to \in Nat /\ chunk \in Nat
      /\ processed \in Nat /\ page \in Seq(PositionedEvent) /\ head.number \in Nat
      /\ processed <= MaxLogs /\ ProofInv
      /\ Frontier \in Int /\ Frontier <= head.number /\ low <= Frontier + 1
  BY WalkFacts DEF WalkInv
<1>2. ProofInv'
  BY <1>1, StoreUntouched
<1>3. /\ DataTypeOK' /\ ChainInv' /\ SettledStay
      /\ head' = head /\ low' = low /\ high' = high /\ settled' = settled
      /\ checkpoint' = checkpoint
      /\ Skipped => Skipped'
      /\ Anchored => Anchored'
  BY <1>1, <1>2, DuringWalk
<1>4. Ranges'
  BY <1>1, <1>3 DEF Ranges, Walking
<1>5. Progress'
  <2>1. Paged = {} /\ Paged' = {} /\ Len(page) = 0 /\ Len(page') = 0
    BY EmptyPage, EmptyPageNext
  <2>2. seen' = seen /\ seen \subseteq Announced(low, Frontier)
    BY <1>1, <2>1 DEF Progress, vars
  <2>3. CASE Frontier' = Frontier
    <3>1. /\ Announced(low, Frontier)' = Announced(low, Frontier)
          /\ Positions(low, Frontier)' = Positions(low, Frontier)
      BY <1>1, <1>3, <2>3, FrontierMoves
    <3> QED
      BY <1>1, <2>1, <2>2, <3>1 DEF Progress
  <2>4. CASE processed >= MaxLogs
    <3>1. PICK f \in Int : f = Frontier'
      OBVIOUS
    <3>2. PICK next \in Nat : next = Frontier + 1
      BY <1>1
    <3>3. Announced(low, f) = Announced(low, Frontier) \cup Announced(next, f)
      <4>1. PICK mid \in Int : mid = Frontier
        BY <1>1
      <4>2. low \in Nat /\ next = mid + 1 /\ low <= next /\ mid <= f
        BY <1>1, <3>1, <3>2, <4>1
      <4>3. Announced(low, f) = Announced(low, mid) \cup Announced(next, f)
        BY <4>2, AnnouncedSplit
      <4> QED
        BY <4>1, <4>3
    <3>4. Announced(low, Frontier)' = Announced(low, f)
      BY <1>3, <3>1, FrontierMoves
    <3>5. ~(processed' + Len(page') < MaxLogs) /\ processed' + Len(page') <= MaxLogs
      BY <1>1, <2>1, <2>4, Limits
    <3>6. (seen \cup Paged)' \subseteq Announced(low, Frontier)'
      BY <2>1, <2>2, <3>3, <3>4
    <3> QED
      BY <3>5, <3>6 DEF Progress
  <2> QED
    BY <2>3, <2>4
<1> QED
  BY <1>1, <1>2, <1>3, <1>4, <1>5 DEF WalkInv

LEMMA NextRangeStep ==
  ASSUME WalkInv, NextRange
  PROVE  WalkInv' /\ (Skipped => Skipped') /\ (Anchored => Anchored')
<1>1. /\ pc = "validate" /\ page = <<>>
      /\ \/ to = head.number /\ pc' = "report" /\ from' = from
         \/ to # head.number /\ pc' = "query" /\ from' = to + 1
      /\ UNCHANGED <<vars, chainVars, searchVars, reorged, checkpoint, accepted, scans>>
      /\ UNCHANGED <<to, chunk, page, processed>>
  BY DEF NextRange
<1>2. /\ Ranges /\ to \in Nat /\ from \in Nat /\ low \in Nat /\ head.number \in Nat /\ chunk \in Nat
  BY WalkFacts DEF WalkInv
<1>3. low <= from /\ from <= to /\ to <= head.number /\ chunk >= 1
  BY <1>1, <1>2 DEF Ranges
<1>4. Frontier = to /\ Frontier' = to /\ head' = head
  BY <1>1, <1>2 DEF Frontier, searchVars
<1>5. from' \in Nat /\ (pc' = "query" => low <= from' /\ from' <= head.number + 1 /\ chunk >= 1)
  BY <1>1, <1>2, <1>3
<1> QED
  BY <1>1, <1>2, <1>3, <1>4, <1>5, QuietStep DEF Walking

LEMMA LogsDoneStep ==
  ASSUME WalkInv, LogsDone
  PROVE  WalkInv' /\ (Skipped => Skipped') /\ (Anchored => Anchored')
<1>1. /\ pc = "query" /\ pc' = "report" /\ ~(from <= head.number /\ processed < MaxLogs)
      /\ UNCHANGED <<vars, chainVars, searchVars, reorged, checkpoint, accepted, scans>>
      /\ UNCHANGED <<from, to, chunk, page, processed>>
  BY DEF LogsDone, MoreLogs, scanVars, logVars
<1>2. /\ Ranges /\ to \in Nat /\ from \in Nat /\ low \in Nat /\ head.number \in Nat
      /\ processed \in Nat
  BY WalkFacts DEF WalkInv
<1>3. low <= from /\ from <= head.number + 1 /\ page = <<>>
  BY <1>1, <1>2 DEF Ranges
<1>4. Frontier = from - 1 /\ Frontier' = head.number
  BY <1>1 DEF Frontier, searchVars
<1>5. Frontier' = Frontier \/ processed >= MaxLogs
  BY <1>1, <1>2, <1>3, <1>4, Limits
<1> QED
  BY <1>1, <1>2, <1>3, <1>4, <1>5, QuietStep DEF Walking

LEMMA DeliverStep ==
  ASSUME WalkInv, Deliver
  PROVE  WalkInv' /\ (Skipped => Skipped')
<1>1. /\ pc = "report" /\ pc' = "emit"
      /\ UNCHANGED <<vars, chainVars, searchVars, reorged, checkpoint, accepted, scans>>
      /\ UNCHANGED <<from, to, chunk, page, processed>>
  BY DEF Deliver, scanVars, logVars
<1>2. page = <<>> /\ from \in Nat /\ head.number \in Nat
  BY <1>1, WalkFacts DEF WalkInv, Ranges
<1>3. Frontier = head.number /\ Frontier' = head.number
  BY <1>1 DEF Frontier, searchVars
<1> QED
  BY <1>1, <1>2, <1>3, QuietStep DEF Walking

-------------------------------------------------------------------------------
(***************************************************************************)
(* The node's scanner                                                      *)
(***************************************************************************)
ScannerPc == {"idle", "tagged head", "latest", "confirmed", "checkpoint", "search", "query",
              "validate", "report"}

LEMMA InitWalk ==
  ASSUME ScannerInit
  PROVE  WalkInv /\ Skipped /\ pc = "idle" /\ ~reorged /\ checkpoint = <<>>
         /\ candidates = [i \in {} |-> i]
<1>1. /\ Init /\ chain = <<[time |-> 1, fork |-> 0, logs |-> <<>>]>> /\ settled = 0 /\ reorgs = 0
      /\ pc = "idle" /\ head = NoBlock /\ low = 0 /\ high = 0 /\ from = 0 /\ to = 0 /\ chunk = 0
      /\ page = <<>> /\ processed = 0 /\ reorged = FALSE /\ checkpoint = <<>>
      /\ accepted = [i \in Identity |-> 0] /\ scans = 0
  BY DEF ScannerInit
<1>2. Height = 0
  BY <1>1 DEF Height
<1>3. ChainTypeOK
  <2>1. <<>> \in LogLists
    <3>1. <<>> \in [1..0 -> Log] /\ 0 \in 0..LogsPerBlock
      BY Limits
    <3> QED
      BY <3>1 DEF LogLists
  <2>2. [time |-> 1, fork |-> 0, logs |-> <<>>] \in BlockRecord(0)
    BY <2>1 DEF BlockRecord
  <2> QED
    BY <1>1, <1>2, <2>2, Limits DEF ChainTypeOK
<1>4. ChainInv
  <2>1. BlockAt(0).time = 1
    BY <1>1 DEF BlockAt
  <2> QED
    BY <1>1, <1>2, <2>1, Limits DEF ChainInv
<1>5. ProofInv /\ TypeOK
  BY <1>1, InitProofInv, StoreTyped
<1>6. DataTypeOK
  <2>1. head \in [number : 0..Height, time : Nat, fork : 0..reorgs]
    BY <1>1, <1>2 DEF NoBlock
  <2>2. accepted \in [Identity -> Sequence \cup {0}] /\ page \in Seq(PositionedEvent)
    BY <1>1
  <2> QED
    BY <1>1, <1>3, <1>5, <2>1, <2>2 DEF DataTypeOK
<1>7. Ranges /\ Progress /\ Skipped
  BY <1>1 DEF Ranges, Progress, Skipped, Walking, NoBlock
<1>8. WalkInv
  BY <1>1, <1>4, <1>5, <1>6, <1>7, Limits DEF WalkInv
<1> QED
  BY <1>1, <1>7, <1>8 DEF Init

LEMMA InitScannerInv == ScannerInit => ScannerInv
<1> SUFFICES ASSUME ScannerInit PROVE ScannerInv
  OBVIOUS
<1>1. WalkInv /\ Skipped /\ pc = "idle" /\ ~reorged /\ checkpoint = <<>>
  BY InitWalk
<1>2. Anchored
  BY <1>1 DEF Anchored, Walking
<1> QED
  BY <1>1, <1>2 DEF ScannerInv, ScannerTypeOK, WalkInv, NoFalseReorg

\* Without a new head or a new checkpoint both stay blocks of the chain.
LEMMA AnchorStays ==
  ASSUME Anchored, UNCHANGED <<chainVars, checkpoint>>,
         pc' \in {"checkpoint", "search"} \cup Walking =>
           head' = head /\ pc \in {"checkpoint", "search"} \cup Walking
  PROVE  Anchored'
<1>1. \A n : BlockAt(n)' = BlockAt(n)
  BY DEF BlockAt, chainVars
<1> QED
  BY <1>1 DEF Anchored, Hash

LEMMA ScannerIntro ==
  ASSUME WalkInv', pc' \in ScannerPc, Skipped', Anchored', reorged' = FALSE
  PROVE  ScannerInv'
  BY DEF ScannerInv, WalkInv, ScannerTypeOK, ScannerPc, NoFalseReorg

\* A new head is a settled block.
LEMMA ChooseStep ==
  ASSUME ScannerInv, NEW n \in 0..settled, Choose(n), pc # "validate",
         UNCHANGED <<vars, chainVars, low, high, logVars, reorged, checkpoint, accepted, scans>>
  PROVE  ScannerInv'
<1>1. /\ n \in 0..Height /\ DeploymentBlock <= n /\ pc' = "checkpoint"
      /\ head' = [number |-> n, time |-> BlockAt(n).time, fork |-> BlockAt(n).fork]
  BY DEF Choose, IsBlock
<1>2. /\ WalkInv /\ Anchored /\ low \in Nat /\ high \in Nat /\ scans \in Nat /\ reorged = FALSE
      /\ settled \in Nat
  BY WalkFacts DEF ScannerInv, WalkInv, DataTypeOK, NoFalseReorg
<1>3. BlockAt(n).time \in Nat /\ BlockAt(n).fork \in 0..reorgs
  <2>1. BlockAt(n) \in BlockRecord(reorgs)
    BY <1>1, <1>2, WalkFacts, BlockFacts
  <2> QED
    BY <2>1 DEF BlockRecord
<1>4. head' \in [number : 0..Height, time : Nat, fork : 0..reorgs] /\ head'.number = n
  BY <1>1, <1>3
<1>5. WalkInv'
  <2>1. n <= settled /\ pc' \notin Walking
    BY <1>1, <1>2 DEF Walking
  <2> QED
    BY <1>1, <1>2, <1>4, <2>1, BeforeWalk
<1>6. Anchored'
  <2>1. \A k : BlockAt(k)' = BlockAt(k)
    BY DEF BlockAt, chainVars
  <2> QED
    BY <1>1, <1>2, <2>1 DEF Anchored, Hash
<1>7. Skipped'
  BY <1>1 DEF Skipped, Walking
<1> QED
  BY <1>1, <1>2, <1>5, <1>6, <1>7, ScannerIntro DEF ScannerPc

LEMMA HeadSteps ==
  ASSUME ScannerInv, BeginScan \/ TaggedHead \/ NoTaggedHead \/ ReadLatest \/ ReadConfirmed
  PROVE  ScannerInv'
<1>1. /\ WalkInv /\ Anchored /\ low \in Nat /\ high \in Nat /\ scans \in Nat /\ reorged = FALSE
      /\ settled \in Nat /\ Height \in Nat /\ head.number <= settled
      /\ head \in [number : 0..Height, time : Nat, fork : 0..reorgs]
  BY WalkFacts DEF ScannerInv, WalkInv, DataTypeOK, NoFalseReorg
<1>2. ASSUME pc \in {"idle", "tagged head", "latest"}, pc' \in {"tagged head", "latest", "confirmed"},
             UNCHANGED <<vars, chainVars, head, low, logVars, checkpoint, accepted>>,
             high' \in Nat, pc' = "confirmed" => high' <= settled, scans' \in Nat, reorged' = FALSE
      PROVE  ScannerInv'
  <2>1. pc' \notin Walking /\ pc' \notin {"checkpoint", "search"} \cup Walking
    BY <1>2 DEF Walking
  <2>2. low' = low /\ head' = head /\ reorged' = reorged /\ checkpoint' = checkpoint
    BY <1>1, <1>2
  <2>3. WalkInv'
    BY <1>1, <1>2, <2>1, <2>2, BeforeWalk
  <2>4. Anchored' /\ Skipped'
    BY <1>1, <1>2, <2>1, AnchorStays DEF Skipped
  <2>5. pc' \in ScannerPc
    BY <1>2 DEF ScannerPc
  <2> QED
    BY <1>2, <2>3, <2>4, <2>5, ScannerIntro
<1>3. CASE BeginScan
  <2>1. /\ pc = "idle" /\ pc' \in {"tagged head", "latest"}
        /\ scans' = scans + 1 /\ reorged' = FALSE /\ high' = high
        /\ UNCHANGED <<vars, chainVars, head, low, logVars, checkpoint, accepted>>
    BY <1>3 DEF BeginScan, searchVars
  <2>2. scans' \in Nat /\ high' \in Nat
    <3>1. scans \in Nat /\ high \in Nat /\ scans' = scans + 1 /\ high' = high
      BY <1>1, <2>1, Zenon
    <3> QED
      BY <3>1
  <2>4. pc' # "confirmed"
    BY <2>1
  <2>3. pc \in {"idle", "tagged head", "latest"} /\ pc' \in {"tagged head", "latest", "confirmed"}
    BY <2>1
  <2> QED
    BY <1>2, <2>1, <2>2, <2>3, <2>4, Zenon
<1>4. CASE NoTaggedHead
  BY <1>1, <1>2, <1>4 DEF NoTaggedHead, scanVars, searchVars
<1>5. CASE ReadLatest
  <2>1. ConfirmedNumber(Height) \in Nat /\ ConfirmedNumber(Height) <= settled
    BY <1>1, Limits DEF ConfirmedNumber, WalkInv, ChainInv
  <2> QED
    BY <1>1, <1>2, <1>5, <2>1 DEF ReadLatest
<1>6. CASE TaggedHead
  BY <1>6, ChooseStep DEF TaggedHead
<1>7. CASE ReadConfirmed
  <2>1. high \in 0..settled
    BY <1>1, <1>7 DEF ReadConfirmed, WalkInv, Ranges
  <2> QED
    BY <1>7, <2>1, ChooseStep DEF ReadConfirmed
<1> QED
  BY <1>3, <1>4, <1>5, <1>6, <1>7

LEMMA DetectReorgStep ==
  ASSUME ScannerInv, DetectReorg
  PROVE  ScannerInv'
<1>1. /\ WalkInv /\ Anchored /\ scans \in Nat /\ reorged = FALSE /\ head.number \in Nat
      /\ settled \in Nat /\ settled <= Height /\ Height \in Nat /\ head.number <= settled
      /\ head \in [number : 0..Height, time : Nat, fork : 0..reorgs]
      /\ checkpoint = <<>> \/ checkpoint \in (0..Height) \X (0..reorgs)
      /\ Ranges
  BY WalkFacts DEF ScannerInv, WalkInv, DataTypeOK, NoFalseReorg
<1>2. /\ pc = "checkpoint" /\ pc' = "search" /\ low' = DeploymentBlock /\ high' = head.number
      /\ reorged' = (checkpoint # <<>> /\ ~(IsBlock(checkpoint[1]) /\ Hash(checkpoint[1]) = checkpoint))
      /\ UNCHANGED <<vars, chainVars, head, logVars, checkpoint, accepted, scans>>
  BY DEF DetectReorg
<1>3. reorged' = FALSE
  <2>1. checkpoint # <<>> => checkpoint[1] \in 0..Height
    BY <1>1
  <2>2. checkpoint # <<>> => Hash(checkpoint[1]) = checkpoint
    BY <1>1 DEF Anchored
  <2> QED
    BY <1>2, <2>1, <2>2 DEF IsBlock
<1>4. DeploymentBlock <= head.number
  BY <1>1, <1>2 DEF Ranges
<1>5. WalkInv'
  <2>1. head' = head /\ scans' = scans /\ reorged' = reorged /\ pc' \notin Walking
    BY <1>1, <1>2, <1>3 DEF Walking
  <2>2. UNCHANGED <<vars, chainVars, logVars, reorged, checkpoint, accepted>>
    BY <1>2, <2>1
  <2> QED
    BY <1>1, <1>2, <1>4, <2>1, <2>2, Limits, BeforeWalk
<1>6. Anchored'
  BY <1>1, <1>2, AnchorStays
<1>7. Skipped'
  BY <1>2, Limits DEF Skipped
<1> QED
  BY <1>2, <1>3, <1>5, <1>6, <1>7, ScannerIntro DEF ScannerPc

LEMMA ReturnSteps ==
  ASSUME ScannerInv, ScanFails \/ Report
  PROVE  ScannerInv'
<1>1. /\ WalkInv /\ Anchored /\ reorged = FALSE /\ Ranges /\ DataTypeOK /\ ChainTypeOK /\ ProofInv
      /\ head \in [number : 0..Height, time : Nat, fork : 0..reorgs] /\ head.number <= settled
      /\ accepted \in [Identity -> Sequence \cup {0}]
  BY WalkFacts DEF ScannerInv, WalkInv, DataTypeOK, NoFalseReorg
<1>2. ScanReturns /\ UNCHANGED <<chainVars, scans>> /\ reorged' = FALSE /\ pc' = "idle"
  BY <1>1 DEF ScanFails, Report, ScanReturns
<1>3. pc' \notin {"checkpoint", "search"} \cup Walking /\ pc' \in ScannerPc
  BY <1>2 DEF Walking, ScannerPc
<1>4. CASE ScanFails
  <2>1. UNCHANGED <<checkpoint, accepted>>
    BY <1>4 DEF ScanFails
  <2>2. checkpoint = <<>> \/ (checkpoint \in (0..Height) \X (0..reorgs) /\ checkpoint[1] <= settled)
    <3>1. checkpoint = <<>> \/ checkpoint \in (0..Height) \X (0..reorgs)
      BY <1>1 DEF DataTypeOK
    <3> QED
      BY <1>1, <3>1 DEF Ranges
  <2>3. WalkInv' /\ Skipped'
    BY <1>1, <1>2, <2>1, <2>2, Returned
  <2>4. Anchored'
    BY <1>1, <1>2, <1>3, <2>1, AnchorStays
  <2> QED
    BY <1>2, <1>3, <2>3, <2>4, ScannerIntro
<1>5. CASE Report
  <2>1. /\ pc = "report" /\ checkpoint' = <<head.number, head.fork>>
        /\ accepted' = [i \in Identity |->
             IF i \in Retained /\ candidates[i].sequence > accepted[i]
               THEN candidates[i].sequence ELSE accepted[i]]
    BY <1>5 DEF Report
  <2>2. \A i \in Retained : candidates[i].sequence \in Sequence
    BY <1>1, StoreTyped DEF TypeOK, Candidate
  <2>3. accepted' \in [Identity -> Sequence \cup {0}]
    BY <1>1, <2>1, <2>2
  <2>4. checkpoint' \in (0..Height) \X (0..reorgs) /\ checkpoint'[1] = head.number /\ checkpoint'[1] <= settled
    BY <1>1, <2>1
  <2>5. WalkInv' /\ Skipped'
    BY <1>1, <1>2, <2>3, <2>4, Returned
  <2>6. Anchored'
    <3>1. head.fork = BlockAt(head.number).fork
      BY <1>1, <2>1 DEF Anchored, Walking
    <3>2. \A n : BlockAt(n)' = BlockAt(n)
      BY <1>2 DEF BlockAt, chainVars
    <3>3. Hash(checkpoint[1])' = checkpoint'
      BY <2>1, <2>4, <3>1, <3>2 DEF Hash
    <3> QED
      BY <1>3, <3>3 DEF Anchored
  <2> QED
    BY <1>2, <1>3, <2>5, <2>6, ScannerIntro
<1> QED
  BY <1>4, <1>5

LEMMA WalkSteps ==
  ASSUME ScannerInv, Search \/ SearchDone \/ Query \/ RangeLimited \/ Validate \/ NextRange \/ LogsDone
  PROVE  ScannerInv'
<1>1. WalkInv /\ Skipped /\ Anchored /\ reorged = FALSE
  BY DEF ScannerInv, NoFalseReorg
<1>2. reorged' = FALSE /\ pc' \in ScannerPc
  BY <1>1 DEF Search, SearchDone, Query, RangeLimited, Validate, NextRange, LogsDone, scanVars,
              ScannerPc
<1>3. CASE Search
  <2>1. pc = "search" /\ pc' = pc /\ head' = head /\ UNCHANGED <<chainVars, checkpoint>>
    BY <1>3 DEF Search
  <2>2. Anchored'
    BY <1>1, <2>1, AnchorStays
  <2> QED
    BY <1>1, <1>2, <1>3, <2>2, SearchStep, ScannerIntro
<1>4. CASE SearchDone
  BY <1>1, <1>2, <1>4, SearchDoneStep, ScannerIntro
<1>5. CASE Query
  BY <1>1, <1>2, <1>5, QueryStep, ScannerIntro
<1>6. CASE RangeLimited
  BY <1>1, <1>2, <1>6, RangeLimitedStep, ScannerIntro
<1>7. CASE Validate
  BY <1>1, <1>2, <1>7, ValidateStep, ScannerIntro
<1>8. CASE NextRange
  BY <1>1, <1>2, <1>8, NextRangeStep, ScannerIntro
<1>9. CASE LogsDone
  BY <1>1, <1>2, <1>9, LogsDoneStep, ScannerIntro
<1> QED
  BY <1>3, <1>4, <1>5, <1>6, <1>7, <1>8, <1>9

LEMMA OutsideSteps ==
  ASSUME ScannerInv, Mine \/ (\E n \in 0..MaxHeight : Reorganize(n)) \/ UNCHANGED scannerVars
  PROVE  ScannerInv'
<1>1. WalkInv /\ Skipped /\ Anchored /\ reorged = FALSE /\ pc \in ScannerPc
  <2>1. WalkInv /\ Skipped /\ Anchored /\ ScannerTypeOK /\ reorged = FALSE
    BY DEF ScannerInv, NoFalseReorg
  <2> QED
    BY <2>1 DEF ScannerTypeOK, ScannerPc
<1>2. UNCHANGED <<vars, pc, scanVars>>
  BY DEF Mine, Reorganize, scannerVars
<1>3. ChainTypeOK' /\ ChainInv' /\ SettledStay
  <2>1. ChainTypeOK /\ ChainInv
    BY <1>1, WalkFacts
  <2>2. CASE UNCHANGED scannerVars
    BY <2>1, <2>2, ChainUntouched DEF scannerVars
  <2> QED
    BY <2>1, <2>2, ChainSteps
<1>4. reorged' = FALSE /\ pc' \in ScannerPc
  BY <1>1, <1>2 DEF scanVars
<1> QED
  BY <1>1, <1>2, <1>3, <1>4, ChainMoves, ScannerIntro

\* The invariant of the scanner, of which the theorems below are consequences.
THEOREM ScannerInvariant == ScannerSpec => []ScannerInv
<1>1. ScannerInv /\ [ScannerNext]_scannerVars => ScannerInv'
  <2> SUFFICES ASSUME ScannerInv, [ScannerNext]_scannerVars PROVE ScannerInv'
    OBVIOUS
  <2>1. CASE ScanStep
    BY <2>1, HeadSteps, DetectReorgStep, ReturnSteps, WalkSteps DEF ScanStep
  <2>2. CASE BeginScan
    BY <2>2, HeadSteps
  <2>3. CASE Mine \/ (\E n \in 0..MaxHeight : Reorganize(n)) \/ UNCHANGED scannerVars
    BY <2>3, OutsideSteps
  <2> QED
    BY <2>1, <2>2, <2>3 DEF ScannerNext
<1> QED
  BY InitScannerInv, <1>1, PTL DEF ScannerSpec

\* The scanner's state keeps its type on every chain.
THEOREM ScannerTypeCorrect == ScannerSpec => []ScannerTypeOK
  BY ScannerInvariant, PTL DEF ScannerInv

\* A fork among the unconfirmed blocks is never taken for a reorganization of
\* the checkpoint, whichever head the checkpoint came from.
THEOREM ScannerNoFalseReorg == ScannerSpec => []NoFalseReorg
  BY ScannerInvariant, PTL DEF ScannerInv

\* What is announced before the first block of the walk is dead at the head.
LEMMA LiveFromFirst ==
  ASSUME WalkInv, Skipped, pc \in Walking
  PROVE  Live = Announced(low, head.number)
<1>1. /\ low \in Nat /\ head.number \in Nat /\ head.number <= settled /\ settled <= Height
      /\ ChainTypeOK /\ head.time \in Nat /\ Height \in Nat /\ settled \in Nat
      /\ DeploymentBlock \in Nat /\ DeploymentBlock <= low /\ low <= head.number
  BY WalkFacts, Limits DEF WalkInv, Ranges
<1>2. PICK mid \in Int : mid = low - 1
  BY <1>1
<1>3. low = mid + 1 /\ mid <= head.number
  BY <1>1, <1>2
<1>4. Announced(DeploymentBlock, head.number) = Announced(DeploymentBlock, mid) \cup Announced(low, head.number)
  <2>1. head.number \in Int
    BY <1>1
  <2> QED
    BY <1>1, <1>3, <2>1, AnnouncedSplit
<1>5. Announced(DeploymentBlock, mid) = {}
  <2> SUFFICES ASSUME NEW p \in Positions(DeploymentBlock, mid), Usable(Event(p))
               PROVE  FALSE
    BY AnnouncedIff
  <2>1. mid <= Height
    BY <1>1, <1>3
  <2>2. p[1] \in DeploymentBlock..mid /\ p[1] \in 0..Height /\ head.time < BlockAt(p[1]).time + MaxTtl
    BY <1>1, <2>1, EventFacts
  <2>3. BlockAt(p[1]).time + MaxTtl <= head.time
    BY <1>2, <2>2 DEF Skipped
  <2>4. BlockAt(p[1]).time \in Nat
    BY <1>1, <2>2, BlockFacts DEF BlockRecord
  <2> QED
    BY <1>1, <2>2, <2>3, <2>4, Limits
<1> QED
  BY <1>4, <1>5 DEF Live

LEMMA SeesLive ==
  ASSUME WalkInv, pc = "report"
  PROVE  /\ processed <= MaxLogs
         /\ seen \subseteq Announced(low, head.number)
         /\ processed < MaxLogs => /\ seen = Announced(low, head.number)
                                   /\ processed = Cardinality(Positions(low, head.number))
<1>1. Ranges /\ Progress /\ processed <= MaxLogs /\ processed \in Nat
  BY WalkFacts DEF WalkInv
<1>2. Paged = {} /\ Len(page) = 0
  BY <1>1, EmptyPage DEF Ranges
<1>3. Frontier = head.number /\ pc \in Walking
  BY DEF Frontier, Walking
<1> QED
  BY <1>1, <1>2, <1>3 DEF Progress

\* A scan below the log cap has read every log from its first block to its head
\* once and seen exactly the announcements alive there, whatever ranges the
\* provider allowed and whatever became of the newer blocks meanwhile.
THEOREM ScannerScanComplete == ScannerSpec => []ScanComplete
<1>1. ScannerInv => ScanComplete
  <2> SUFFICES ASSUME ScannerInv PROVE ScanComplete
    OBVIOUS
  <2>1. WalkInv /\ Skipped /\ processed <= MaxLogs
    BY DEF ScannerInv, WalkInv
  <2>2. pc = "report" => Live = Announced(low, head.number)
    BY <2>1, LiveFromFirst DEF Walking
  <2> QED
    BY <2>1, <2>2, SeesLive DEF ScanComplete
<1> QED
  BY ScannerInvariant, <1>1, PTL

-------------------------------------------------------------------------------
(***************************************************************************)
(* The browser client                                                      *)
(***************************************************************************)
DiscoveryPc == {"idle", "gate", "latest", "confirmed", "search", "query", "validate", "report",
                "emit"}

LEMMA DiscoveryIntro ==
  ASSUME WalkInv', pc' \in DiscoveryPc, lookback' \in Nat, running' \in BOOLEAN,
         scanning' \in BOOLEAN, OneInterval', InFlight', Confirming', Feeding',
         LookbackCovers' => Skipped'
  PROVE  DiscoveryInv'
<1>1. DataTypeOK' /\ ProofInv'
  BY DEF WalkInv
<1>2. TypeOK'
  BY <1>1, StoreTypedNext
<1>3. report' \subseteq Candidate /\ fed' \subseteq Candidate
  <2>1. \A i \in Retained' : candidates'[i] \in Candidate
    BY <1>2 DEF TypeOK
  <2> QED
    BY <2>1 DEF Feeding
<1>4. timers' \in Nat
  BY DEF OneInterval
<1>5. DiscoveryTypeOK'
  BY <1>1, <1>3, <1>4 DEF DiscoveryTypeOK, DiscoveryPc
<1> QED
  BY <1>5 DEF DiscoveryInv

LEMMA InitDiscoveryInv == DiscoveryInit => DiscoveryInv
<1> SUFFICES ASSUME DiscoveryInit PROVE DiscoveryInv
  OBVIOUS
<1>1. /\ ScannerInit /\ lookback \in Nat /\ running = FALSE /\ timers = 0 /\ scanning = FALSE
      /\ report = {} /\ fed = {}
  BY DiscoveryAssumption DEF DiscoveryInit
<1>2. WalkInv /\ Skipped /\ pc = "idle"
  BY <1>1, InitWalk
<1>3. OneInterval /\ InFlight /\ Confirming /\ Feeding
  BY <1>1, <1>2 DEF OneInterval, InFlight, Confirming, Feeding
<1>4. DiscoveryTypeOK
  BY <1>1, <1>2 DEF DiscoveryTypeOK, WalkInv
<1> QED
  BY <1>2, <1>3, <1>4 DEF DiscoveryInv

LEMMA DiscoveryFacts ==
  ASSUME DiscoveryInv
  PROVE  /\ WalkInv /\ pc \in DiscoveryPc /\ lookback \in Nat /\ running \in BOOLEAN
         /\ scanning \in BOOLEAN /\ OneInterval /\ InFlight /\ Confirming /\ Feeding
         /\ LookbackCovers => Skipped
         /\ low \in Nat /\ high \in Nat /\ scans \in Nat /\ settled \in Nat /\ Height \in Nat
         /\ settled <= Height /\ head.number \in Nat /\ head.number <= settled
         /\ head \in [number : 0..Height, time : Nat, fork : 0..reorgs]
         /\ ChainTypeOK /\ ChainInv
<1>1. /\ WalkInv /\ DiscoveryTypeOK /\ OneInterval /\ InFlight /\ Confirming /\ Feeding
      /\ LookbackCovers => Skipped
  BY DEF DiscoveryInv
<1>2. /\ pc \in DiscoveryPc /\ lookback \in Nat /\ running \in BOOLEAN /\ scanning \in BOOLEAN
  BY <1>1 DEF DiscoveryTypeOK, DiscoveryPc
<1>3. scans \in Nat /\ head \in [number : 0..Height, time : Nat, fork : 0..reorgs]
  BY <1>1 DEF WalkInv, DataTypeOK
<1> QED
  BY <1>1, <1>2, <1>3, WalkFacts

\* Steps of a scan outside the loop over the report leave the adapter alone.
LEMMA AdapterStays ==
  ASSUME DiscoveryInv, UNCHANGED adapterVars, pc \notin {"idle", "emit"}, pc' \notin {"idle", "emit"}
  PROVE  /\ lookback' \in Nat /\ lookback' = lookback /\ running' \in BOOLEAN
         /\ scanning' \in BOOLEAN /\ OneInterval' /\ InFlight' /\ Feeding'
         /\ LookbackCovers' <=> LookbackCovers
<1>1. UNCHANGED <<lookback, running, timers, scanning, report, fed>>
  BY DEF adapterVars
<1>2. report = {} /\ fed = {} /\ OneInterval
  BY DiscoveryFacts DEF Feeding
<1>3. Feeding'
  BY <1>1, <1>2 DEF Feeding
<1>4. OneInterval' /\ InFlight' /\ (LookbackCovers' <=> LookbackCovers)
  BY <1>1, <1>2, DiscoveryFacts DEF OneInterval, InFlight, LookbackCovers
<1> QED
  BY <1>1, <1>3, <1>4, DiscoveryFacts

\* Start and stop touch nothing that a scan uses.
LEMMA StartStopSteps ==
  ASSUME DiscoveryInv, Start \/ Stop
  PROVE  DiscoveryInv'
<1>1. UNCHANGED <<scannerVars, lookback, scanning, report, fed>>
  BY DEF Start, Stop
<1>2. UNCHANGED <<vars, chainVars, pc, scanVars, high, candidates>>
  BY <1>1 DEF scannerVars, vars, scanVars, searchVars
<1>3. WalkInv' /\ (Skipped => Skipped')
  BY <1>2, DiscoveryFacts, ChainUntouched, ChainMoves
<1>4. OneInterval' /\ running' \in BOOLEAN
  <2>1. OneInterval
    BY DiscoveryFacts
  <2>2. CASE Start
    BY <2>1, <2>2 DEF Start, OneInterval
  <2>3. CASE Stop
    <3>1. timers = 1 /\ timers' = timers - 1 /\ running' = FALSE
      BY <2>1, <2>3 DEF Stop, OneInterval
    <3>2. timers' = 0
      BY <3>1
    <3> QED
      BY <3>1, <3>2 DEF OneInterval
  <2> QED
    BY <2>2, <2>3
<1>5. InFlight' /\ Confirming' /\ Feeding' /\ (LookbackCovers' <=> LookbackCovers)
  BY <1>1, <1>2, DiscoveryFacts DEF InFlight, Confirming, Feeding, LookbackCovers, Retained
<1> QED
  BY <1>1, <1>2, <1>3, <1>4, <1>5, DiscoveryFacts, DiscoveryIntro

LEMMA OutsideDiscovery ==
  ASSUME DiscoveryInv, Chain \/ UNCHANGED discoveryVars
  PROVE  DiscoveryInv'
<1>1. UNCHANGED <<vars, pc, scanVars, adapterVars>>
  BY DEF Chain, Mine, Reorganize, discoveryVars, scannerVars
<1>2. ChainTypeOK' /\ ChainInv' /\ SettledStay
  <2>1. ChainTypeOK /\ ChainInv
    BY DiscoveryFacts
  <2>2. CASE UNCHANGED discoveryVars
    BY <2>1, <2>2, ChainUntouched DEF discoveryVars, scannerVars
  <2>3. CASE Chain
    BY <2>1, <2>3, ChainSteps DEF Chain
  <2> QED
    BY <2>2, <2>3
<1>3. WalkInv' /\ (Skipped => Skipped')
  BY <1>1, <1>2, DiscoveryFacts, ChainMoves
<1>4. UNCHANGED <<lookback, running, timers, scanning, report, fed, high, candidates>>
  BY <1>1 DEF adapterVars, scanVars, searchVars, vars
<1>5. OneInterval' /\ InFlight' /\ Confirming' /\ Feeding' /\ (LookbackCovers' <=> LookbackCovers)
  BY <1>1, <1>4, DiscoveryFacts DEF OneInterval, InFlight, Confirming, Feeding, LookbackCovers,
                                    Retained
<1> QED
  BY <1>1, <1>3, <1>4, <1>5, DiscoveryFacts, DiscoveryIntro

LEMMA GateSteps ==
  ASSUME DiscoveryInv, ScanOnce \/ GateOpens \/ GateCloses
  PROVE  DiscoveryInv'
<1>1. /\ UNCHANGED <<vars, chainVars, searchVars, logVars, reorged, checkpoint, accepted>>
      /\ UNCHANGED <<lookback, running, timers, report, fed>>
  BY DEF ScanOnce, GateOpens, GateCloses, scanVars, adapterVars
<1>2. /\ pc \in {"idle", "gate"} /\ pc' \in {"gate", "latest", "idle"}
      /\ scanning' \in BOOLEAN /\ InFlight'
  <2>1. InFlight /\ scanning \in BOOLEAN
    BY DiscoveryFacts
  <2>2. CASE ScanOnce
    BY <2>1, <2>2 DEF ScanOnce, InFlight
  <2>3. CASE GateOpens
    BY <2>1, <2>3 DEF GateOpens, InFlight, adapterVars
  <2>4. CASE GateCloses
    BY <2>1, <2>4 DEF GateCloses, InFlight
  <2> QED
    BY <2>2, <2>3, <2>4
<1>3. scans' \in Nat
  <2>1. scans \in Nat
    BY DiscoveryFacts
  <2>2. scans' = scans + 1 \/ scans' = scans
    BY DEF ScanOnce, GateOpens, GateCloses, scanVars
  <2> QED
    BY <2>1, <2>2
<1>4. /\ pc # "validate" /\ pc # "emit" /\ pc' \notin Walking /\ pc' \notin {"search"} \cup Walking
      /\ pc' \in DiscoveryPc /\ pc' \notin {"confirmed", "checkpoint", "search", "emit"}
  BY <1>2 DEF Walking, DiscoveryPc
<1>5. head' = head /\ low' = low /\ high' = high
  BY <1>1 DEF searchVars
<1>6. WalkInv'
  BY <1>1, <1>3, <1>4, <1>5, DiscoveryFacts, BeforeWalk
<1>7. OneInterval' /\ Confirming' /\ Feeding' /\ Skipped'
  BY <1>1, <1>4, DiscoveryFacts DEF OneInterval, Confirming, Feeding, Skipped
<1> QED
  BY <1>1, <1>2, <1>4, <1>6, <1>7, DiscoveryFacts, DiscoveryIntro

\* A head is chosen, and with it the first block.
LEMMA BeginStep ==
  ASSUME DiscoveryInv, NEW n \in 0..settled, NEW b \in n..Height, DeploymentBlock <= n,
         head' = HeadAt(n, b), BeginAt(n), pc \in {"latest", "confirmed"},
         lookback # 0 => b = Height /\ n = ConfirmedNumber(Height),
         UNCHANGED <<vars, chainVars, logVars, reorged, checkpoint, accepted, scans, adapterVars>>
  PROVE  DiscoveryInv'
<1>1. /\ WalkInv /\ lookback \in Nat /\ settled \in Nat /\ Height \in Nat /\ settled <= Height
      /\ ChainTypeOK /\ ChainInv /\ scans \in Nat
  BY DiscoveryFacts
<1>2. n \in Nat /\ b \in 0..Height /\ n <= b /\ n <= settled
  BY <1>1
<1>3. BlockAt(b).time \in Nat /\ BlockAt(b).fork \in 0..reorgs
  BY <1>1, <1>2, BlockFacts DEF BlockRecord
<1>4. /\ head' = [number |-> n, time |-> BlockAt(b).time, fork |-> BlockAt(b).fork]
      /\ head' \in [number : 0..Height, time : Nat, fork : 0..reorgs]
      /\ head'.number = n /\ head'.time = BlockAt(b).time
  BY <1>1, <1>2, <1>3 DEF HeadAt
<1>5. /\ pc' = "search" /\ low' = (IF lookback = 0 THEN DeploymentBlock ELSE LookbackStart(n))
      /\ high' = (IF lookback = 0 THEN n ELSE low')
  BY DEF BeginAt
<1>6. /\ LookbackStart(n) \in Nat /\ DeploymentBlock <= LookbackStart(n)
      /\ lookback # 0 => LookbackStart(n) <= n
      /\ \/ LookbackStart(n) = DeploymentBlock
         \/ lookback <= n /\ LookbackStart(n) = n - lookback + 1
  BY <1>1, <1>2, Limits DEF LookbackStart
<1>7. low' \in Nat /\ high' \in Nat /\ DeploymentBlock <= low' /\ low' <= high' /\ high' <= n
  BY <1>2, <1>5, <1>6, Limits
<1>8. WalkInv'
  <2>1. pc' \notin Walking /\ pc # "validate" /\ pc' # "confirmed" /\ scans' \in Nat
    BY <1>1, <1>5 DEF Walking
  <2> QED
    BY <1>1, <1>2, <1>4, <1>5, <1>7, <2>1, BeforeWalk
<1>9. /\ lookback' \in Nat /\ running' \in BOOLEAN /\ scanning' \in BOOLEAN
      /\ OneInterval' /\ InFlight' /\ Feeding'
      /\ LookbackCovers' <=> LookbackCovers
  BY <1>5, AdapterStays
<1>10. ASSUME LookbackCovers PROVE Skipped'
  <2>1. \A m : BlockAt(m)' = BlockAt(m)
    BY DEF BlockAt, chainVars
  <2>2. ASSUME NEW m \in DeploymentBlock..(low' - 1)
        PROVE  BlockAt(m).time + MaxTtl <= BlockAt(b).time
    <3>1. lookback # 0 /\ lookback <= n /\ low' = n - lookback + 1
      BY <1>5, <1>6, <1>7, <2>2, Limits
    <3>2. b = Height /\ n = Height - Confirmations
      BY <1>1, <1>2, <3>1, Limits DEF ConfirmedNumber
    <3>3. m \in 0..Height /\ m <= n - lookback /\ m \in Nat
      BY <1>1, <1>2, <2>2, <3>1, Limits
    <3>4. BlockAt(m).time + (b - m) <= BlockAt(b).time /\ BlockAt(m).time \in Nat
      <4>1. m <= b
        BY <1>1, <1>2, <3>1, <3>3
      <4>2. BlockAt(m).time \in Nat
        BY <1>1, <3>3, BlockFacts DEF BlockRecord
      <4> QED
        BY <1>1, <1>2, <3>3, <4>1, <4>2 DEF ChainInv
    <3>5. lookback + Confirmations >= MaxTtl
      BY <1>10, <3>1 DEF LookbackCovers
    <3> QED
      BY <1>1, <1>2, <1>3, <3>2, <3>3, <3>4, <3>5, Limits
  <2> QED
    BY <1>4, <2>1, <2>2 DEF Skipped
<1>11. Confirming' /\ pc' \in DiscoveryPc
  BY <1>5 DEF Confirming, DiscoveryPc
<1> QED
  BY <1>8, <1>9, <1>10, <1>11, DiscoveryIntro

\* Reading the head.
LEMMA BrowserHeadSteps ==
  ASSUME DiscoveryInv, BrowserLatest \/ BrowserHead
  PROVE  DiscoveryInv'
<1>1. /\ WalkInv /\ lookback \in Nat /\ settled \in Nat /\ Height \in Nat /\ settled <= Height
      /\ ChainInv /\ Confirming /\ head.number <= settled /\ scans \in Nat
      /\ low \in Nat /\ high \in Nat /\ Ranges
      /\ head \in [number : 0..Height, time : Nat, fork : 0..reorgs]
      /\ LookbackCovers => Skipped
  BY DiscoveryFacts DEF WalkInv
<1>2. Height - Confirmations <= settled
  BY <1>1 DEF ChainInv
<1>3. UNCHANGED <<vars, chainVars, logVars, reorged, checkpoint, accepted, scans, adapterVars>>
  BY DEF BrowserLatest, BrowserHead
<1>4. CASE BrowserLatest
  <2>1. PICK n : n = ConfirmedNumber(Height)
    OBVIOUS
  <2>2. n \in Nat /\ n <= settled /\ n \in 0..settled /\ n <= Height
    BY <1>1, <1>2, <2>1, Limits DEF ConfirmedNumber
  <2>3. /\ pc = "latest" /\ DeploymentBlock <= n
        /\ \/ /\ lookback = 0 /\ pc' = "confirmed" /\ high' = n /\ UNCHANGED <<head, low>>
           \/ head' = HeadAt(n, Height) /\ BeginAt(n)
    BY <1>4, <2>1 DEF BrowserLatest
  <2>4. CASE lookback = 0 /\ pc' = "confirmed" /\ high' = n /\ UNCHANGED <<head, low>>
    <3>1. /\ pc' \notin Walking /\ pc # "validate" /\ pc' \in DiscoveryPc
          /\ pc' \notin {"search"} \cup Walking /\ pc' \notin {"idle", "emit"}
          /\ pc \notin {"idle", "emit"} /\ pc' \notin {"checkpoint", "search"} /\ pc' # "search"
      BY <2>3, <2>4 DEF Walking, DiscoveryPc
    <3>2. /\ head' = head /\ low' = low /\ high' = n /\ scans' = scans
      BY <1>3, <2>4
    <3>3. WalkInv'
      BY <1>1, <1>3, <2>2, <3>1, <3>2, BeforeWalk
    <3>4. /\ lookback' \in Nat /\ lookback' = lookback /\ running' \in BOOLEAN
          /\ scanning' \in BOOLEAN /\ OneInterval' /\ InFlight' /\ Feeding'
      BY <1>3, <3>1, AdapterStays
    <3>5. Skipped'
      BY <3>1 DEF Skipped
    <3>6. Confirming'
      BY <2>3, <2>4, <3>4 DEF Confirming
    <3> QED
      BY <3>1, <3>3, <3>4, <3>5, <3>6, DiscoveryIntro
  <2>5. CASE head' = HeadAt(n, Height) /\ BeginAt(n)
    <3>1. Height \in n..Height /\ pc \in {"latest", "confirmed"}
      BY <1>1, <2>2, <2>3
    <3>2. lookback # 0 => Height = Height /\ n = ConfirmedNumber(Height)
      BY <2>1
    <3> QED
      BY <1>3, <2>2, <2>3, <2>5, <3>1, <3>2, BeginStep
  <2> QED
    BY <2>3, <2>4, <2>5
<1>5. CASE BrowserHead
  <2>1. PICK n : n = high
    OBVIOUS
  <2>2. pc = "confirmed" /\ head' = HeadAt(n, n) /\ BeginAt(n)
    BY <1>5, <2>1 DEF BrowserHead
  <2>3. lookback = 0 /\ DeploymentBlock <= n /\ n <= settled
    BY <1>1, <2>1, <2>2 DEF Confirming, Ranges
  <2>4. n \in 0..settled /\ n \in n..Height /\ pc \in {"latest", "confirmed"}
    BY <1>1, <2>1, <2>2, <2>3
  <2>5. lookback # 0 => n = Height /\ n = ConfirmedNumber(Height)
    BY <2>3
  <2> QED
    BY <1>3, <2>2, <2>3, <2>4, <2>5, BeginStep
<1> QED
  BY <1>4, <1>5

\* The end of scanOnce, with a report or with an error.
LEMMA FinallyStep ==
  ASSUME DiscoveryInv, Finally
  PROVE  DiscoveryInv'
<1>1. WalkInv /\ DataTypeOK /\ Ranges /\ OneInterval /\ lookback \in Nat /\ running \in BOOLEAN
  BY DiscoveryFacts DEF WalkInv
<1>2. /\ ScanReturns /\ scanning' = FALSE /\ report' = {} /\ fed' = {} /\ pc' = "idle"
      /\ UNCHANGED <<chainVars, reorged, checkpoint, accepted, scans, lookback, running, timers>>
  BY DEF Finally, ScanReturns
<1>3. checkpoint = <<>> \/ (checkpoint \in (0..Height) \X (0..reorgs) /\ checkpoint[1] <= settled)
  <2>1. checkpoint = <<>> \/ checkpoint \in (0..Height) \X (0..reorgs)
    BY <1>1 DEF DataTypeOK
  <2> QED
    BY <1>1, <2>1 DEF Ranges
<1>4. reorged' \in BOOLEAN /\ accepted' \in [Identity -> Sequence \cup {0}]
  BY <1>1, <1>2 DEF DataTypeOK
<1>5. WalkInv' /\ Skipped'
  BY <1>1, <1>2, <1>3, <1>4, Returned
<1>6. OneInterval' /\ InFlight' /\ Confirming' /\ Feeding' /\ pc' \in DiscoveryPc
  BY <1>1, <1>2 DEF OneInterval, InFlight, Confirming, Feeding, DiscoveryPc
<1> QED
  BY <1>1, <1>2, <1>5, <1>6, DiscoveryIntro

LEMMA BrowserWalkSteps ==
  ASSUME DiscoveryInv, FindStartBlock \/ WalkRanges \/ InsertBounded
  PROVE  DiscoveryInv'
<1>1. WalkInv /\ (LookbackCovers => Skipped)
  BY DiscoveryFacts
<1>2. UNCHANGED adapterVars
  BY DEF FindStartBlock, WalkRanges, InsertBounded
<1>3. Search \/ SearchDone \/ Query \/ RangeLimited \/ NextRange \/ LogsDone \/ Validate
  BY DEF FindStartBlock, WalkRanges, InsertBounded
<1>4. WalkInv' /\ (Skipped => Skipped')
  BY <1>1, <1>3, SearchStep, SearchDoneStep, QueryStep, RangeLimitedStep, NextRangeStep,
     LogsDoneStep, ValidateStep
<1>5. pc \in {"search", "query", "validate"} /\ pc' \in {"search", "query", "validate", "report"}
  BY <1>3 DEF Search, SearchDone, Query, RangeLimited, NextRange, LogsDone, Validate
<1>6. /\ pc \notin {"idle", "emit"} /\ pc' \notin {"idle", "emit"} /\ pc' # "confirmed"
      /\ pc' \in DiscoveryPc
  BY <1>5 DEF DiscoveryPc
<1>7. /\ lookback' \in Nat /\ running' \in BOOLEAN /\ scanning' \in BOOLEAN
      /\ OneInterval' /\ InFlight' /\ Feeding'
      /\ LookbackCovers' <=> LookbackCovers
  BY <1>2, <1>6, AdapterStays
<1>8. Confirming'
  BY <1>6 DEF Confirming
<1> QED
  BY <1>1, <1>4, <1>6, <1>7, <1>8, DiscoveryIntro

\* The report, and the loop over it.
LEMMA EmitSteps ==
  ASSUME DiscoveryInv, Deliver \/ \E c \in report : Emit(c)
  PROVE  DiscoveryInv'
<1>1. /\ WalkInv /\ (LookbackCovers => Skipped) /\ OneInterval /\ InFlight /\ Feeding
      /\ lookback \in Nat /\ running \in BOOLEAN /\ scanning \in BOOLEAN
      /\ ChainTypeOK /\ ChainInv
  BY DiscoveryFacts
<1>2. /\ UNCHANGED <<vars, chainVars, scanVars, lookback, running, timers, scanning>>
      /\ pc \in {"report", "emit"} /\ pc' = "emit"
  BY DEF Deliver, Emit
<1>3. UNCHANGED <<candidates, lookback, running, timers, scanning>> /\ Retained' = Retained
  BY <1>2 DEF vars, Retained
<1>4. OneInterval' /\ InFlight' /\ Confirming' /\ (LookbackCovers' <=> LookbackCovers)
  BY <1>1, <1>2 DEF OneInterval, InFlight, Confirming, LookbackCovers
<1>5. CASE Deliver
  <2>1. WalkInv' /\ (Skipped => Skipped')
    BY <1>1, <1>5, DeliverStep
  <2>2. fed' = {} /\ report' = {candidates[i] : i \in Retained}
    BY <1>1, <1>5 DEF Deliver, Feeding
  <2>3. Feeding'
    BY <1>2, <1>3, <2>2 DEF Feeding
  <2> QED
    BY <1>1, <1>2, <1>4, <2>1, <2>3, DiscoveryIntro DEF DiscoveryPc
<1>6. ASSUME NEW c \in report, Emit(c)
      PROVE  DiscoveryInv'
  <2>1. pc' = pc /\ pc = "emit" /\ report' = report \ {c} /\ fed' = fed \cup ToPeerInfo(c)
    BY <1>6 DEF Emit
  <2>2. WalkInv' /\ (Skipped => Skipped')
    BY <1>1, <1>2, <2>1, ChainUntouched, ChainMoves
  <2>3. TypeOK
    BY <1>1, StoreTyped DEF WalkInv
  <2>4. PICK k \in Retained : c = candidates[k]
    BY <1>1 DEF Feeding
  <2>5. c.identity = k
    BY <2>3, <2>4 DEF TypeOK
  <2>6. fed' = IF k \in Unparsed THEN fed ELSE fed \cup {c}
    BY <2>1, <2>5 DEF ToPeerInfo
  <2>7. report' \cup fed' \subseteq {candidates[i] : i \in Retained}
    BY <1>1, <2>1, <2>4, <2>6 DEF Feeding
  <2>8. \A d \in fed' : d.identity \notin Unparsed
    BY <1>1, <2>1, <2>5, <2>6 DEF Feeding
  <2>9. \A i \in Retained : candidates[i] \in fed' \cup report' \/ i \in Unparsed
    <3> SUFFICES ASSUME NEW i \in Retained, i \notin Unparsed
                 PROVE  candidates[i] \in fed' \cup report'
      OBVIOUS
    <3>1. candidates[i] \in fed \cup report
      BY <1>1, <2>1 DEF Feeding
    <3>2. candidates[i] = c => i = k
      BY <2>3, <2>5 DEF TypeOK
    <3> QED
      BY <2>1, <2>6, <3>1, <3>2
  <2>10. Feeding'
    BY <1>2, <1>3, <2>7, <2>8, <2>9 DEF Feeding
  <2> QED
    BY <1>1, <1>2, <1>4, <2>2, <2>10, DiscoveryIntro DEF DiscoveryPc
<1> QED
  BY <1>5, <1>6

\* The invariant of the browser client.
THEOREM DiscoveryInvariant == DiscoverySpec => []DiscoveryInv
<1>1. DiscoveryInv /\ [DiscoveryNext]_discoveryVars => DiscoveryInv'
  <2> SUFFICES ASSUME DiscoveryInv, [DiscoveryNext]_discoveryVars PROVE DiscoveryInv'
    OBVIOUS
  <2>1. CASE Start \/ Stop
    BY <2>1, StartStopSteps
  <2>2. CASE ScanOnce \/ TimerFires
    BY <2>2, GateSteps DEF TimerFires
  <2>3. CASE ScanOnceStep
    <3>1. CASE BrowserFails \/ EmitDone
      BY <3>1, FinallyStep DEF BrowserFails, EmitDone
    <3>2. CASE Deliver \/ \E c \in report : IsNext(c) /\ Emit(c)
      BY <3>2, EmitSteps
    <3> QED
      BY <2>3, <3>1, <3>2, GateSteps, BrowserHeadSteps, BrowserWalkSteps DEF ScanOnceStep
  <2>4. CASE Chain \/ UNCHANGED discoveryVars
    BY <2>4, OutsideDiscovery
  <2> QED
    BY <2>1, <2>2, <2>3, <2>4 DEF DiscoveryNext
<1> QED
  BY InitDiscoveryInv, <1>1, PTL DEF DiscoverySpec

\* The adapter's state keeps its type: stop never clears an interval too many.
THEOREM DiscoveryTypeCorrect == DiscoverySpec => []DiscoveryTypeOK
  BY DiscoveryInvariant, PTL DEF DiscoveryInv

\* A scan of the browser client below the log cap has seen exactly the
\* announcements alive at its clock, for every lookback that with the
\* confirmations reaches the longest lifetime.
THEOREM DiscoveryScanComplete == DiscoverySpec => []BrowserScanComplete
<1>1. DiscoveryInv => BrowserScanComplete
  <2> SUFFICES ASSUME DiscoveryInv, pc = "report", processed < MaxLogs, LookbackCovers
               PROVE  seen = Live
    BY DEF BrowserScanComplete
  <2>1. WalkInv /\ Skipped /\ pc \in Walking
    BY DEF DiscoveryInv, Walking
  <2> QED
    BY <2>1, LiveFromFirst, SeesLive
<1> QED
  BY DiscoveryInvariant, <1>1, PTL

\* The host is fed the sample of what the scan saw, whenever the adapter is
\* started and stopped.
THEOREM DiscoveryFeedsSample == DiscoverySpec => []FeedsSample
<1>1. DiscoveryInv => FeedsSample
  <2> SUFFICES ASSUME DiscoveryInv, pc = "emit"
               PROVE  /\ fed \subseteq {c \in {Sample[i] : i \in DOMAIN Sample} : c.identity \notin Unparsed}
                      /\ \A c \in {Sample[i] : i \in DOMAIN Sample} :
                            c \in fed \cup report \/ c.identity \in Unparsed
    BY Zenon DEF FeedsSample
  <2>1. WalkInv /\ Feeding
    BY DEF DiscoveryInv
  <2>2. candidates = Sample
    BY <2>1, InvariantGivesSample DEF WalkInv, OrderIndependent
  <2>3. Retained = DOMAIN Sample
    BY <2>2 DEF Retained
  <2>4. \A i \in Retained : candidates[i].identity = i
    BY <2>1, StoreTyped DEF WalkInv, TypeOK
  <2> HIDE DEF Sample
  <2> QED
    BY <2>1, <2>2, <2>3, <2>4 DEF Feeding
<1> QED
  BY DiscoveryInvariant, <1>1, PTL

===============================================================================
