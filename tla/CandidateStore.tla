---------------------------- MODULE CandidateStore ----------------------------
(***************************************************************************)
(* The bounded candidate set of one registry scan                          *)
(* (crates/resurrect-core/src/validation.rs).                              *)
(*                                                                         *)
(* A scan feeds every validated announcement to the store in whatever      *)
(* order the provider returns the logs, the same peer possibly many times. *)
(* The store keeps at most max_candidates identities.  Which ones it keeps *)
(* is decided by a pseudo-random score of the identity under the scan's    *)
(* seed, and for each identity it keeps the freshest record.  The point of *)
(* the design is that an announcer cannot buy a place by announcing early, *)
(* late or often: the result depends on the set of announcements only.     *)
(***************************************************************************)
EXTENDS Integers, FiniteSets

CONSTANTS
  Identity,       \* identity keys: record type and peer id
  Score,          \* Score[i]: keccak256(sampling_seed, i), a 256-bit number
  MaxCandidates,  \* the configured cap; 0 is accepted by the constructor
  Sequence,       \* signed record sequence numbers
  Block,          \* block numbers of announcements (an absent one counts as 0)
  LogIndex        \* log indices within a block (an absent one counts as 0)

\* The hash is collision free on the identities of one scan.
ASSUME ScoreAssumption ==
  /\ Score \in [Identity -> Nat]
  /\ \A i, j \in Identity : Score[i] = Score[j] => i = j

ASSUME CapAssumption == MaxCandidates \in Nat

ASSUME PositionAssumption ==
  Sequence \subseteq Nat /\ Block \subseteq Nat /\ LogIndex \subseteq Nat

(***************************************************************************)
(* A validated candidate, reduced to what the store looks at: who it is    *)
(* and how fresh it is.  Two announcements with the same position are the  *)
(* same log, so they carry the same record.                                *)
(***************************************************************************)
Candidate == [identity : Identity, sequence : Sequence,
              block : Block, logIndex : LogIndex]

VARIABLES
  candidates,  \* the HashMap: retained identity -> retained record
  seen         \* history: every candidate passed to insert

vars == <<candidates, seen>>

Retained == DOMAIN candidates

\* new(): a zero cap is promoted to one.
Cap == IF MaxCandidates = 0 THEN 1 ELSE MaxCandidates

\* Faulty: of two records with the same sequence neither is fresher.
FresherBySequence(left, right) == left.sequence > right.sequence

\* compare_freshness(left, right) == Greater: lexicographic, strict.
Fresher(left, right) ==
  \/ left.sequence > right.sequence
  \/ /\ left.sequence = right.sequence
     /\ left.block > right.block
  \/ /\ left.sequence = right.sequence
     /\ left.block = right.block
     /\ left.logIndex > right.logIndex

\* HashMap::insert and HashMap::remove.
Put(map, c) ==
  [i \in DOMAIN map \cup {c.identity} |-> IF i = c.identity THEN c ELSE map[i]]
Remove(map, key) == [i \in DOMAIN map \ {key} |-> map[i]]

-------------------------------------------------------------------------------
(***************************************************************************)
(* insert(candidate), one action per return value.                         *)
(***************************************************************************)

\* A retained identity whose incoming record is strictly fresher.
Replaced(c) ==
  /\ c.identity \in Retained
  /\ Fresher(c, candidates[c.identity])
  /\ candidates' = Put(candidates, c)

\* A retained identity whose incoming record is older or the same log again.
Stale(c) ==
  /\ c.identity \in Retained
  /\ ~Fresher(c, candidates[c.identity])
  /\ UNCHANGED candidates

\* A new identity while there is room.
Inserted(c) ==
  /\ c.identity \notin Retained
  /\ Cardinality(Retained) < Cap
  /\ candidates' = Put(candidates, c)

\* max_by_key over the retained keys.
IsWorst(w) == w \in Retained /\ \A i \in Retained : Score[i] <= Score[w]

\* Faulty: the evicted identity's slot is reused under its old key.
EvictingInPlace(c) ==
  /\ c.identity \notin Retained
  /\ Cardinality(Retained) >= Cap
  /\ \E w \in Identity :
       /\ IsWorst(w)
       /\ Score[c.identity] < Score[w]
       /\ candidates' = [candidates EXCEPT ![w] = c]

\* Faulty: the worst identity is not removed.
EvictingNobody(c) ==
  /\ c.identity \notin Retained
  /\ Cardinality(Retained) >= Cap
  /\ \E w \in Identity :
       /\ IsWorst(w)
       /\ Score[c.identity] < Score[w]
       /\ candidates' = Put(candidates, c)

\* Faulty: the worst identity goes whoever comes, as in a ring buffer.
EvictingAlways(c) ==
  /\ c.identity \notin Retained
  /\ Cardinality(Retained) >= Cap
  /\ \E w \in Identity :
       /\ IsWorst(w)
       /\ candidates' = Put(Remove(candidates, w), c)

\* A new identity that scores below the worst retained one takes its place.
Evicting(c) ==
  /\ c.identity \notin Retained
  /\ Cardinality(Retained) >= Cap
  /\ \E w \in Identity :
       /\ IsWorst(w)
       /\ Score[c.identity] < Score[w]
       /\ candidates' = Put(Remove(candidates, w), c)

\* A new identity outside the sample.
SampledOut(c) ==
  /\ c.identity \notin Retained
  /\ Cardinality(Retained) >= Cap
  /\ \E w \in Identity : IsWorst(w) /\ ~(Score[c.identity] < Score[w])
  /\ UNCHANGED candidates

Insert(c) ==
  /\ \/ Replaced(c)
     \/ Stale(c)
     \/ Inserted(c)
     \/ Evicting(c)
     \/ SampledOut(c)
  /\ seen' = seen \cup {c}

Init == candidates = [i \in {} |-> i] /\ seen = {}

Next == \E c \in Candidate : Insert(c)

Spec == Init /\ [][Next]_vars

-------------------------------------------------------------------------------
(***************************************************************************)
(* What the store promises, as a function of the set of candidates alone.  *)
(***************************************************************************)
SeenIdentities == {c.identity : c \in seen}

\* How many known identities score below i.
Rank(i) == Cardinality({j \in SeenIdentities : Score[j] < Score[i]})

IsFreshest(c) == c \in seen /\ \A d \in seen :
                   d.identity = c.identity => ~Fresher(d, c)

\* The reference result: the Cap lowest-scored identities, each with the
\* freshest record anybody announced for it.
Sample == [i \in {j \in SeenIdentities : Rank(j) < Cap} |->
             CHOOSE c \in seen : c.identity = i /\ IsFreshest(c)]

(***************************************************************************)
(* Properties                                                              *)
(***************************************************************************)

\* Every retained entry is a candidate filed under its own identity.
TypeOK ==
  /\ seen \subseteq Candidate
  /\ Retained \subseteq Identity
  /\ candidates \in [Retained -> Candidate]
  /\ \A i \in Retained : candidates[i].identity = i

\* The store never holds more identities than its cap, so a flooded registry
\* cannot exhaust memory (insert, validation.rs:249-270).
Bounded == Cardinality(Retained) <= Cap

\* Whatever the order and the number of duplicate deliveries, insert has
\* computed exactly the reference sample of what it was given.
OrderIndependent == candidates = Sample

\* An identity that was sampled out or evicted never comes back during the
\* scan, however fresh the record it announces later.
NeverReadmitted ==
  [][\A i \in SeenIdentities \ Retained : i \notin Retained']_vars

\* The inductive invariant behind OrderIndependent: an identity is left out
\* only by a full store whose members all score lower.
LowestScores ==
  \A i \in SeenIdentities \ Retained :
    /\ Cardinality(Retained) = Cap
    /\ \A j \in Retained : Score[j] < Score[i]

RetainedFreshest == \A i \in Retained : IsFreshest(candidates[i])

IInv == TypeOK /\ Bounded /\ LowestScores /\ RetainedFreshest
===============================================================================
