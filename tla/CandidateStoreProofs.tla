------------------------- MODULE CandidateStoreProofs -------------------------
(***************************************************************************)
(* Proofs about CandidateStore for every set of identities, every          *)
(* collision-free score, every cap and every stream of candidates, and     *)
(* about SqlitePeerCache, which loads its rows through one, for every      *)
(* lifetime and integer width.                                             *)
(***************************************************************************)
EXTENDS PeerCache, FiniteSetTheorems, TLAPS

\* The cap is a positive natural number, a configured zero included.
LEMMA CapPositive == Cap \in Nat \ {0}
  BY CapAssumption DEF Cap

\* Freshness is a strict order on candidates, and two candidates of one
\* identity that neither supersedes are the same log.
LEMMA FresherOrder ==
  ASSUME NEW a \in Candidate, NEW b \in Candidate, NEW c \in Candidate
  PROVE  /\ ~Fresher(a, a)
         /\ Fresher(a, b) /\ ~Fresher(c, b) => ~Fresher(c, a)
         /\ a.identity = b.identity /\ ~Fresher(a, b) /\ ~Fresher(b, a) => a = b
  <1>1. /\ a \in [identity : Identity, sequence : Nat, block : Nat, logIndex : Nat]
        /\ b \in [identity : Identity, sequence : Nat, block : Nat, logIndex : Nat]
        /\ c \in [identity : Identity, sequence : Nat, block : Nat, logIndex : Nat]
    BY PositionAssumption DEF Candidate
  <1>2. QED
    BY <1>1 DEF Fresher

\* The identities met and those kept are finite, so their sizes are meaningful.
Finite == IsFiniteSet(SeenIdentities) /\ IsFiniteSet(Retained)

ProofInv == IInv /\ Finite

LEMMA InitProofInv == Init => ProofInv
  <1> SUFFICES ASSUME Init PROVE ProofInv
    OBVIOUS
  <1>1. seen = {} /\ Retained = {}
    BY DEF Init, Retained
  <1>2. IsFiniteSet({}) /\ Cardinality({}) = 0
    BY FS_EmptySet
  <1>3. TypeOK
    BY <1>1 DEF TypeOK, Init, Retained
  <1>4. Bounded
    BY <1>1, <1>2, CapPositive DEF Bounded
  <1>5. LowestScores /\ RetainedFreshest
    BY <1>1 DEF LowestScores, RetainedFreshest, SeenIdentities
  <1>6. SeenIdentities = {}
    BY <1>1 DEF SeenIdentities
  <1>7. QED
    BY <1>1, <1>2, <1>3, <1>4, <1>5, <1>6 DEF ProofInv, IInv, Finite

\* Storing a candidate under its identity keeps a well-typed map well typed.
LEMMA PutType ==
  ASSUME NEW map, DOMAIN map \subseteq Identity,
         map \in [DOMAIN map -> Candidate],
         \A i \in DOMAIN map : map[i].identity = i,
         NEW c \in Candidate
  PROVE  /\ DOMAIN Put(map, c) \subseteq Identity
         /\ Put(map, c) \in [DOMAIN Put(map, c) -> Candidate]
         /\ \A i \in DOMAIN Put(map, c) : Put(map, c)[i].identity = i
  <1>1. c.identity \in Identity
    BY DEF Candidate
  <1>2. QED
    BY <1>1 DEF Put

LEMMA RemoveType ==
  ASSUME NEW map, DOMAIN map \subseteq Identity,
         map \in [DOMAIN map -> Candidate],
         \A i \in DOMAIN map : map[i].identity = i,
         NEW key
  PROVE  /\ DOMAIN Remove(map, key) \subseteq Identity
         /\ Remove(map, key) \in [DOMAIN Remove(map, key) -> Candidate]
         /\ \A i \in DOMAIN Remove(map, key) : Remove(map, key)[i].identity = i
  BY DEF Remove

\* A retained record stays the freshest one known when the incoming record is
\* of another identity or does not supersede it.
LEMMA StillFreshest ==
  ASSUME NEW c, NEW r, IsFreshest(r), seen' = seen \cup {c},
         r.identity = c.identity => ~Fresher(c, r)
  PROVE  r \in seen' /\ \A d \in seen' : d.identity = r.identity => ~Fresher(d, r)
  BY DEF IsFreshest

LEMMA InsertProofInv ==
  ASSUME ProofInv, NEW c \in Candidate, Insert(c)
  PROVE  ProofInv'
  <1> USE DEF ProofInv, IInv
  <1>1. /\ seen' = seen \cup {c}
        /\ SeenIdentities' = SeenIdentities \cup {c.identity}
        /\ IsFiniteSet(SeenIdentities')
        /\ seen' \subseteq Candidate
        /\ c.identity \in Identity
    <2>1. seen' = seen \cup {c} /\ c.identity \in Identity /\ seen' \subseteq Candidate
      BY DEF Insert, TypeOK, Candidate
    <2>2. SeenIdentities' = SeenIdentities \cup {c.identity}
      BY <2>1 DEF SeenIdentities
    <2>3. QED
      BY <2>1, <2>2, FS_AddElement DEF Finite
  <1>2. /\ Retained \subseteq Identity /\ IsFiniteSet(Retained)
        /\ Retained = DOMAIN candidates
        /\ \A i \in Retained : candidates[i] \in Candidate /\ candidates[i].identity = i
        /\ Cardinality(Retained) \in Nat
        /\ Cap \in Nat \ {0}
        /\ Cardinality(Retained) <= Cap
    BY CapPositive, FS_CardinalityType DEF TypeOK, Finite, Retained, Bounded
  <1>3. CASE Replaced(c)
    <2>1. candidates' = Put(candidates, c) /\ c.identity \in Retained
          /\ Fresher(c, candidates[c.identity])
      BY <1>3 DEF Replaced
    <2>2. Retained' = Retained
      BY <2>1 DEF Put, Retained
    <2>3. TypeOK'
      BY <1>1, <2>1, PutType DEF TypeOK, Retained
    <2>4. Bounded' /\ Finite'
      BY <2>2, <1>1 DEF Bounded, Finite
    <2>5. LowestScores'
      BY <2>1, <2>2, <1>1 DEF LowestScores
    <2>6. RetainedFreshest'
      <3> SUFFICES ASSUME NEW i \in Retained
                   PROVE  /\ candidates'[i] \in seen'
                          /\ \A d \in seen' : d.identity = (candidates'[i]).identity
                                                => ~Fresher(d, candidates'[i])
        BY <2>2 DEF RetainedFreshest, IsFreshest
      <3>1. IsFreshest(candidates[i])
        BY DEF RetainedFreshest
      <3>2. CASE i # c.identity
        <4>1. candidates'[i] = candidates[i]
          BY <3>2, <2>1 DEF Put, Retained
        <4>2. QED
          BY <4>1, <3>1, <3>2, <1>1, <1>2, StillFreshest
      <3>3. CASE i = c.identity
        <4>1. candidates'[i] = c
          BY <3>3, <2>1 DEF Put
        <4>2. ASSUME NEW d \in seen', d.identity = c.identity PROVE ~Fresher(d, c)
          <5>1. CASE d = c
            BY <5>1, FresherOrder
          <5>2. CASE d \in seen
            <6>1. ~Fresher(d, candidates[i])
              BY <5>2, <4>2, <3>1, <3>3, <1>2 DEF IsFreshest
            <6>2. QED
              BY <6>1, <2>1, <3>3, <5>2, <1>1, <1>2, FresherOrder
          <5>3. QED
            BY <5>1, <5>2, <1>1
        <4>3. QED
          BY <4>1, <4>2, <1>1
      <3>4. QED
        BY <3>2, <3>3
    <2>7. QED
      BY <2>3, <2>4, <2>5, <2>6
  <1>4. CASE Stale(c)
    <2>1. candidates' = candidates /\ c.identity \in Retained
          /\ ~Fresher(c, candidates[c.identity])
      BY <1>4 DEF Stale
    <2>2. Retained' = Retained
      BY <2>1 DEF Retained
    <2>3. TypeOK' /\ Bounded' /\ Finite'
      BY <1>1, <2>1, <2>2 DEF TypeOK, Bounded, Finite
    <2>4. LowestScores'
      BY <2>1, <2>2, <1>1 DEF LowestScores
    <2>5. RetainedFreshest'
      BY <2>1, <2>2, <1>1, <1>2, StillFreshest DEF RetainedFreshest, IsFreshest
    <2>6. QED
      BY <2>3, <2>4, <2>5
  <1>5. CASE Inserted(c)
    <2>1. /\ candidates' = Put(candidates, c) /\ c.identity \notin Retained
          /\ Cardinality(Retained) < Cap
      BY <1>5 DEF Inserted
    <2>2. Retained' = Retained \cup {c.identity}
      BY <2>1 DEF Put, Retained
    <2>3. TypeOK'
      BY <1>1, <2>1, PutType DEF TypeOK, Retained
    <2>4. Bounded' /\ Finite'
      <3>1. /\ IsFiniteSet(Retained')
            /\ Cardinality(Retained') = Cardinality(Retained) + 1
        BY <2>1, <2>2, <1>2, FS_AddElement
      <3>2. QED
        BY <3>1, <2>1, <1>1, <1>2 DEF Bounded, Finite, Cap
    \* While there is room no identity has been left out yet.
    <2>5. SeenIdentities \subseteq Retained
      BY <2>1, <1>2 DEF LowestScores
    <2>6. LowestScores'
      BY <2>2, <2>5, <1>1 DEF LowestScores
    <2>7. RetainedFreshest'
      <3> SUFFICES ASSUME NEW i \in Retained \cup {c.identity}
                   PROVE  /\ candidates'[i] \in seen'
                          /\ \A d \in seen' : d.identity = (candidates'[i]).identity
                                                => ~Fresher(d, candidates'[i])
        BY <2>2 DEF RetainedFreshest, IsFreshest
      <3>1. CASE i \in Retained
        <4>1. candidates'[i] = candidates[i] /\ IsFreshest(candidates[i])
          BY <3>1, <2>1 DEF Put, Retained, RetainedFreshest
        <4>2. QED
          BY <4>1, <3>1, <2>1, <1>1, <1>2, StillFreshest
      <3>2. CASE i = c.identity
        <4>1. candidates'[i] = c
          BY <3>2, <2>1 DEF Put
        <4>2. \A d \in seen : d.identity # c.identity
          BY <2>1, <2>5 DEF SeenIdentities
        <4>3. QED
          BY <4>1, <4>2, <1>1, FresherOrder
      <3>3. QED
        BY <3>1, <3>2
    <2>8. QED
      BY <2>3, <2>4, <2>6, <2>7
  <1>6. CASE Evicting(c)
    <2>1. PICK w \in Identity :
            /\ IsWorst(w)
            /\ Score[c.identity] < Score[w]
            /\ candidates' = Put(Remove(candidates, w), c)
      BY <1>6 DEF Evicting
    <2>2. c.identity \notin Retained /\ Cardinality(Retained) >= Cap /\ w \in Retained
      BY <1>6, <2>1 DEF Evicting, IsWorst
    <2>3. Retained' = (Retained \ {w}) \cup {c.identity}
      BY <2>1 DEF Put, Remove, Retained
    <2>4. TypeOK'
      <3> DEFINE m == Remove(candidates, w)
      <3>1. /\ DOMAIN m \subseteq Identity /\ m \in [DOMAIN m -> Candidate]
            /\ \A i \in DOMAIN m : m[i].identity = i
        BY RemoveType DEF TypeOK, Retained
      <3>2. QED
        BY <3>1, <1>1, <2>1, PutType DEF TypeOK, Retained
    <2>5. Cardinality(Retained') = Cap /\ IsFiniteSet(Retained')
      <3>1. IsFiniteSet(Retained \ {w}) /\ Cardinality(Retained \ {w}) = Cardinality(Retained) - 1
        BY <2>2, <1>2, FS_RemoveElement
      <3>2. c.identity \notin Retained \ {w}
        BY <2>2
      <3>3. /\ IsFiniteSet(Retained')
            /\ Cardinality(Retained') = Cardinality(Retained \ {w}) + 1
        BY <3>1, <3>2, <2>3, FS_AddElement
      <3>4. QED
        BY <3>1, <3>3, <2>2, <1>2
    <2>6. Bounded' /\ Finite'
      BY <2>5, <1>1, <1>2 DEF Bounded, Finite, Cap
    \* Everything left out, the evicted identity included, scores above
    \* everything kept.
    <2>7. c.identity \notin SeenIdentities \/ \A j \in Retained : Score[j] < Score[c.identity]
      BY <2>2 DEF LowestScores
    <2>8. /\ \A i \in Identity : Score[i] \in Nat
          /\ \A i, j \in Identity : Score[i] = Score[j] => i = j
      BY ScoreAssumption
    <2>9. c.identity \notin SeenIdentities
      BY <2>7, <2>1, <2>2, <2>8, <1>1, <1>2
    <2>10. LowestScores'
      <3> SUFFICES ASSUME NEW i \in SeenIdentities', i \notin Retained',
                          NEW j \in Retained'
                   PROVE  Score[j] < Score[i]
        BY <2>5 DEF LowestScores, Cap
      <3>1. i = w \/ i \in SeenIdentities \ Retained
        BY <2>3, <1>1
      <3>2. j = c.identity \/ (j \in Retained /\ j # w)
        BY <2>3
      <3>3. \A k \in SeenIdentities \ Retained : \A l \in Retained : Score[l] < Score[k]
        BY DEF LowestScores
      <3>4. \A l \in Retained : Score[l] <= Score[w]
        BY <2>1 DEF IsWorst
      <3>5. SeenIdentities \subseteq Identity
        BY DEF SeenIdentities, TypeOK, Candidate
      <3>6. CASE i = w
        BY <3>6, <3>2, <3>4, <2>1, <2>2, <2>8, <1>1, <1>2
      <3>7. CASE i \in SeenIdentities \ Retained
        BY <3>7, <3>2, <3>3, <3>5, <2>1, <2>2, <2>8, <1>1, <1>2
      <3>8. QED
        BY <3>1, <3>6, <3>7
    <2>11. RetainedFreshest'
      <3> SUFFICES ASSUME NEW i \in (Retained \ {w}) \cup {c.identity}
                   PROVE  /\ candidates'[i] \in seen'
                          /\ \A d \in seen' : d.identity = (candidates'[i]).identity
                                                => ~Fresher(d, candidates'[i])
        BY <2>3 DEF RetainedFreshest, IsFreshest
      <3>1. CASE i \in Retained \ {w}
        <4>1. candidates'[i] = candidates[i] /\ IsFreshest(candidates[i])
          BY <3>1, <2>1, <2>2 DEF Put, Remove, Retained, RetainedFreshest
        <4>2. QED
          BY <4>1, <3>1, <2>2, <1>1, <1>2, StillFreshest
      <3>2. CASE i = c.identity
        <4>1. candidates'[i] = c
          BY <3>2, <2>1 DEF Put
        <4>2. \A d \in seen : d.identity # c.identity
          BY <2>9 DEF SeenIdentities
        <4>3. QED
          BY <4>1, <4>2, <1>1, FresherOrder
      <3>3. QED
        BY <3>1, <3>2
    <2>12. QED
      BY <2>4, <2>6, <2>10, <2>11
  <1>7. CASE SampledOut(c)
    <2>1. PICK w \in Identity : IsWorst(w) /\ ~(Score[c.identity] < Score[w])
      BY <1>7 DEF SampledOut
    <2>2. /\ candidates' = candidates /\ c.identity \notin Retained
          /\ Cardinality(Retained) >= Cap
      BY <1>7 DEF SampledOut
    <2>3. Retained' = Retained
      BY <2>2 DEF Retained
    <2>4. TypeOK' /\ Bounded' /\ Finite'
      BY <1>1, <2>2, <2>3 DEF TypeOK, Bounded, Finite
    <2>5. \A j \in Retained : Score[j] < Score[c.identity]
      BY <2>1, <2>2, <1>1, <1>2, ScoreAssumption DEF IsWorst
    <2>6. LowestScores'
      BY <2>2, <2>3, <2>5, <1>1, <1>2 DEF LowestScores, Cap
    <2>7. RetainedFreshest'
      BY <2>2, <2>3, <1>1, <1>2, StillFreshest DEF RetainedFreshest, IsFreshest
    <2>8. QED
      BY <2>4, <2>6, <2>7
  <1>8. QED
    BY <1>3, <1>4, <1>5, <1>6, <1>7 DEF Insert

\* The strengthened invariant of the candidate store: an identity is left out
\* only by a full store whose members all score lower, and what is kept for
\* an identity is the freshest record it announced.
THEOREM StoreInvariant == Spec => []ProofInv
  <1>1. ProofInv /\ [Next]_vars => ProofInv'
    <2> SUFFICES ASSUME ProofInv, [Next]_vars PROVE ProofInv'
      OBVIOUS
    <2>1. CASE Next
      BY <2>1, InsertProofInv DEF Next
    <2>2. CASE UNCHANGED vars
      BY <2>2 DEF vars, ProofInv, IInv, TypeOK, Bounded, LowestScores, RetainedFreshest,
                  IsFreshest, SeenIdentities, Finite, Retained
    <2>3. QED
      BY <2>1, <2>2
  <1>2. QED
    BY <1>1, InitProofInv, PTL DEF Spec

\* Type correctness: every entry is a candidate filed under its own identity.
THEOREM StoreTypeCorrect == Spec => []TypeOK
  BY StoreInvariant, PTL DEF ProofInv, IInv

\* The candidate cap holds however many announcements a scan meets.
THEOREM StoreBounded == Spec => []Bounded
  BY StoreInvariant, PTL DEF ProofInv, IInv

\* In every state that satisfies the invariant the store is the reference
\* sample of the candidates it has been given.
LEMMA InvariantGivesSample == ProofInv => OrderIndependent
  <1> SUFFICES ASSUME ProofInv PROVE candidates = Sample
    BY DEF OrderIndependent
  <1> USE DEF ProofInv, IInv
  <1>1. /\ IsFiniteSet(SeenIdentities) /\ SeenIdentities \subseteq Identity
        /\ IsFiniteSet(Retained) /\ Cardinality(Retained) \in Nat
        /\ Cardinality(Retained) <= Cap /\ Cap \in Nat
    <2>1. IsFiniteSet(SeenIdentities)
      BY DEF Finite
    <2>2. SeenIdentities \subseteq Identity
      BY DEF SeenIdentities, TypeOK, Candidate
    <2>3. QED
      BY <2>1, <2>2, CapPositive, FS_CardinalityType DEF Finite, Bounded
  <1>2. Retained \subseteq SeenIdentities
    BY DEF RetainedFreshest, IsFreshest, SeenIdentities, TypeOK
  <1>3. ASSUME NEW i \in Retained PROVE Rank(i) < Cap
    <2> DEFINE Below == {j \in SeenIdentities : Score[j] < Score[i]}
    <2>1. Below \subseteq Retained \ {i}
      <3>1. \A j \in SeenIdentities \ Retained : Score[i] < Score[j]
        BY <1>3 DEF LowestScores
      <3>2. QED
        BY <3>1, <1>1, <1>2, <1>3, ScoreAssumption
    <2>2. IsFiniteSet(Retained \ {i}) /\ Cardinality(Retained \ {i}) = Cardinality(Retained) - 1
      BY <1>1, <1>3, FS_RemoveElement
    <2>3. Cardinality(Below) <= Cardinality(Retained \ {i}) /\ IsFiniteSet(Below)
      BY <2>1, <2>2, FS_Subset
    <2>4. Cardinality(Below) \in Nat
      BY <2>3, FS_CardinalityType
    <2>5. QED
      BY <2>2, <2>3, <2>4, <1>1 DEF Rank
  <1>4. ASSUME NEW i \in SeenIdentities, i \notin Retained PROVE ~(Rank(i) < Cap)
    <2> DEFINE Below == {j \in SeenIdentities : Score[j] < Score[i]}
    <2>1. Retained \subseteq Below /\ Cardinality(Retained) = Cap
      BY <1>2, <1>4 DEF LowestScores
    <2>2. IsFiniteSet(Below)
      BY <1>1, FS_Subset
    <2>3. Cardinality(Retained) <= Cardinality(Below) /\ Cardinality(Below) \in Nat
      BY <2>1, <2>2, FS_Subset, FS_CardinalityType
    <2>4. QED
      BY <2>1, <2>3, <1>1 DEF Rank
  <1>5. {j \in SeenIdentities : Rank(j) < Cap} = Retained
    BY <1>2, <1>3, <1>4
  <1>6. ASSUME NEW i \in Retained
        PROVE  (CHOOSE c \in seen : c.identity = i /\ IsFreshest(c)) = candidates[i]
    <2>1. candidates[i] \in seen /\ candidates[i].identity = i /\ IsFreshest(candidates[i])
      BY <1>6 DEF RetainedFreshest, IsFreshest, TypeOK
    <2>2. ASSUME NEW c \in seen, c.identity = i, IsFreshest(c) PROVE c = candidates[i]
      <3>1. c \in Candidate /\ candidates[i] \in Candidate
        BY <2>1, <2>2 DEF TypeOK
      <3>2. ~Fresher(c, candidates[i]) /\ ~Fresher(candidates[i], c)
        BY <2>1, <2>2 DEF IsFreshest
      <3>3. QED
        BY <3>1, <3>2, <2>1, <2>2, FresherOrder
    <2>3. QED
      BY <2>1, <2>2
  <1>7. Sample = [i \in Retained |-> candidates[i]]
    BY <1>5, <1>6 DEF Sample
  <1>8. QED
    BY <1>7 DEF TypeOK, Retained

\* The result of a scan depends on the set of announcements it met and not on
\* their order or repetition: the store is always exactly the sample of the
\* Cap lowest-scored identities, each with its freshest record.
THEOREM StoreOrderIndependent == Spec => []OrderIndependent
  BY StoreInvariant, InvariantGivesSample, PTL

\* An identity once left out of the sample is never admitted again.
THEOREM StoreNeverReadmits == Spec => NeverReadmitted
  <1>1. ProofInv /\ [Next]_vars
          => [\A i \in SeenIdentities \ Retained : i \notin Retained']_vars
    <2> SUFFICES ASSUME ProofInv, Next, NEW i \in SeenIdentities \ Retained
                 PROVE  i \notin Retained'
      OBVIOUS
    <2>1. PICK c \in Candidate : Insert(c)
      BY DEF Next
    <2>2. Cardinality(Retained) = Cap /\ \A j \in Retained : Score[j] < Score[i]
      BY DEF ProofInv, IInv, LowestScores
    <2>3. CASE Replaced(c)
      BY <2>3 DEF Replaced, Put, Retained
    <2>4. CASE Stale(c) \/ SampledOut(c)
      BY <2>4 DEF Stale, SampledOut, Retained
    <2>5. ~Inserted(c)
      BY <2>2, CapPositive DEF Inserted
    <2>6. CASE Evicting(c)
      <3>1. PICK w \in Identity : /\ IsWorst(w) /\ Score[c.identity] < Score[w]
                                 /\ candidates' = Put(Remove(candidates, w), c)
        BY <2>6 DEF Evicting
      <3>2. Score[w] < Score[i] /\ Score[i] \in Nat /\ Score[w] \in Nat
            /\ Score[c.identity] \in Nat
        BY <3>1, <2>2, ScoreAssumption
           DEF IsWorst, ProofInv, IInv, TypeOK, SeenIdentities, Candidate
      <3>3. i # c.identity
        BY <3>1, <3>2
      <3>4. QED
        BY <3>1, <3>3 DEF Put, Remove, Retained
    <2>7. QED
      BY <2>1, <2>3, <2>4, <2>5, <2>6 DEF Insert
  <1>2. QED
    BY <1>1, StoreInvariant, PTL DEF Spec, NeverReadmitted

-------------------------------------------------------------------------------
(***************************************************************************)
(* The cache                                                               *)
(***************************************************************************)
CacheInv == CacheTypeOK /\ KeepsFreshest /\ LoadProgress /\ ProofInv

\* Positions of candidates are numbers.
LEMMA CandidateNumbers ==
  ASSUME NEW c \in Candidate
  PROVE  c.identity \in Identity /\ c.sequence \in Nat /\ c.block \in Nat
  BY PositionAssumption DEF Candidate

LEMMA InitCacheInv == CacheInit => CacheInv
  <1> SUFFICES ASSUME CacheInit PROVE CacheInv
    OBVIOUS
  <1>1. Init /\ ProofInv /\ TypeOK
    BY InitProofInv DEF CacheInit, ProofInv, IInv
  <1>2. CacheTypeOK /\ KeepsFreshest /\ LoadProgress
    BY <1>1 DEF CacheInit, CacheTypeOK, KeepsFreshest, LoadProgress
  <1>3. QED
    BY <1>1, <1>2 DEF CacheInv

\* A load's local variables, fresh again, satisfy the store's invariant.
LEMMA ForgottenLoad ==
  ASSUME ForgetLoad
  PROVE  Init' /\ ProofInv' /\ TypeOK'
  <1>1. Init'
    BY DEF ForgetLoad, Init
  <1>2. (Init => ProofInv)'
    BY InitProofInv, PTL
  <1>3. QED
    BY <1>1, <1>2 DEF ProofInv, IInv

\* While the store of the load is untouched, its invariant is.
LEMMA UntouchedStore ==
  ASSUME ProofInv, UNCHANGED vars
  PROVE  ProofInv' /\ TypeOK' /\ (Init => Init')
  BY DEF vars, ProofInv, IInv, TypeOK, Bounded, LowestScores, RetainedFreshest, Retained,
         SeenIdentities, IsFreshest, Finite, Init

\* The upsert keeps the newer of two records, and what it writes is a row.
LEMMA StoreStep ==
  ASSUME CacheInv, NEW r \in Reports, IsReport(r), Store(r)
  PROVE  CacheInv'
  <1>1. UNCHANGED <<now, stage, vars, pending, loadTime, failed>> /\ stage = "idle"
    BY DEF Store, loadVars
  <1>2. ProofInv' /\ TypeOK' /\ Init' /\ Init
    BY <1>1, UntouchedStore DEF CacheInv, LoadProgress
  <1>3. LoadProgress'
    BY <1>1, <1>2 DEF LoadProgress
  <1>4. CASE \E i \in DOMAIN r : ~Fits(r[i])
    <2>1. UNCHANGED <<rows, stored>>
      BY <1>4 DEF Store
    <2>2. CacheTypeOK' /\ KeepsFreshest'
      BY <1>1, <1>2, <2>1 DEF CacheInv, CacheTypeOK, KeepsFreshest, Fits
    <2>3. QED
      BY <1>2, <1>3, <2>2 DEF CacheInv
  <1>5. CASE \A i \in DOMAIN r : Fits(r[i])
    <2>1. rows' = Upsert(r) /\ stored' = Committed(r)
      BY <1>5 DEF Store
    <2>2. /\ DOMAIN r \subseteq Identity
          /\ \A i \in DOMAIN r : /\ r[i].candidate \in Candidate /\ r[i].expires \in Nat
                                 /\ r[i].candidate.identity = i /\ Fits(r[i])
      <3>1. PICK ids \in SUBSET Identity : r \in [ids -> Observation]
        BY DEF Reports
      <3>2. now \in Nat /\ LongestTtl \in Nat
        BY CacheAssumption DEF CacheInv, CacheTypeOK
      <3>3. QED
        BY <1>5, <3>1, <3>2 DEF Observation, IsReport
    <2>3. /\ DOMAIN rows' = DOMAIN rows \cup DOMAIN r
          /\ \A i \in DOMAIN rows' :
               \/ /\ i \in DOMAIN r
                  /\ rows'[i] = [candidate |-> r[i].candidate, expires |-> r[i].expires,
                                 condition |-> "sound"]
                  /\ i \in DOMAIN rows => Supersedes(r[i].candidate, rows[i].candidate)
               \/ /\ i \in DOMAIN rows /\ rows'[i] = rows[i]
                  /\ i \in DOMAIN r => ~Supersedes(r[i].candidate, rows[i].candidate)
      BY <2>1 DEF Upsert
    <2>4. \A i \in DOMAIN rows :
            rows[i].candidate \in Candidate /\ rows[i] \in Row /\ Fits(rows[i])
              /\ rows[i].candidate.identity = i
      BY DEF CacheInv, CacheTypeOK, Row
    <2>5. stored' \subseteq Candidate /\ stored' \subseteq stored \cup {r[i].candidate : i \in DOMAIN r}
      BY <2>1, <2>2 DEF Committed, Newest, CacheInv, CacheTypeOK
    <2>6. CacheTypeOK'
      <3>1. DOMAIN rows' \subseteq Identity
        BY <2>2, <2>3 DEF CacheInv, CacheTypeOK
      <3>2. ASSUME NEW i \in DOMAIN rows'
            PROVE  rows'[i] \in Row /\ rows'[i].candidate.identity = i
                     /\ rows'[i].candidate.sequence <= MaxInteger
        <4>1. CASE rows'[i] = rows[i] /\ i \in DOMAIN rows
          BY <2>4, <4>1 DEF Fits
        <4>2. CASE /\ i \in DOMAIN r
                   /\ rows'[i] = [candidate |-> r[i].candidate, expires |-> r[i].expires,
                                  condition |-> "sound"]
          <5>1. r[i].candidate \in Candidate /\ r[i].expires \in Nat
                /\ r[i].candidate.identity = i /\ r[i].candidate.sequence <= MaxInteger
            BY <2>2, <4>2 DEF Fits
          <5>2. QED
            BY <4>2, <5>1 DEF Row, Conditions
        <4>3. QED
          BY <2>3, <4>1, <4>2
      <3>3. QED
        BY <1>1, <1>2, <2>5, <3>1, <3>2 DEF CacheInv, CacheTypeOK, Fits
    <2>7. \A i \in DOMAIN rows' :
            \/ /\ i \in DOMAIN r /\ rows'[i].candidate = r[i].candidate
               /\ i \in DOMAIN rows => Supersedes(r[i].candidate, rows[i].candidate)
            \/ /\ i \in DOMAIN rows /\ rows'[i].candidate = rows[i].candidate
               /\ i \in DOMAIN r => ~Supersedes(r[i].candidate, rows[i].candidate)
      <3> SUFFICES ASSUME NEW i \in DOMAIN rows'
                   PROVE  \/ /\ i \in DOMAIN r /\ rows'[i].candidate = r[i].candidate
                             /\ i \in DOMAIN rows => Supersedes(r[i].candidate, rows[i].candidate)
                          \/ /\ i \in DOMAIN rows /\ rows'[i].candidate = rows[i].candidate
                             /\ i \in DOMAIN r => ~Supersedes(r[i].candidate, rows[i].candidate)
        OBVIOUS
      <3>1. rows'[i] = [candidate |-> r[i].candidate, expires |-> r[i].expires,
                        condition |-> "sound"] => rows'[i].candidate = r[i].candidate
        OBVIOUS
      <3>2. QED
        BY <2>3, <3>1
    <2>8. KeepsFreshest'
      <3> SUFFICES ASSUME NEW c \in stored'
                   PROVE  c.identity \in DOMAIN rows' /\ ~Newer(c, rows'[c.identity].candidate)
        BY DEF KeepsFreshest, Newer
      <3> DEFINE i == c.identity
      <3>1. CASE c \in stored
        <4>1. i \in DOMAIN rows /\ ~Newer(c, rows[i].candidate)
          BY <3>1 DEF CacheInv, KeepsFreshest
        <4>2. c.sequence \in Nat /\ c.block \in Nat
          BY <2>5, CandidateNumbers
        <4>3. rows[i].candidate.sequence \in Nat /\ rows[i].candidate.block \in Nat
          BY <2>4, <4>1, CandidateNumbers
        <4>4. i \in DOMAIN r => r[i].candidate.sequence \in Nat /\ r[i].candidate.block \in Nat
          BY <2>2, CandidateNumbers
        <4>5. i \in DOMAIN rows'
          BY <2>3, <4>1
        <4>6. QED
          BY <2>7, <4>1, <4>2, <4>3, <4>4, <4>5 DEF Newer, Supersedes
      <3>2. CASE c \notin stored
        <4>1. PICK j \in DOMAIN r : c = r[j].candidate
          BY <2>5, <3>2
        <4>2. i = j /\ i \in DOMAIN rows' /\ c.sequence \in Nat /\ c.block \in Nat
          BY <2>2, <2>3, <4>1, CandidateNumbers
        <4>3. i \in DOMAIN rows =>
                rows[i].candidate.sequence \in Nat /\ rows[i].candidate.block \in Nat
          BY <2>4, CandidateNumbers
        <4>4. QED
          BY <2>7, <4>1, <4>2, <4>3 DEF Newer, Supersedes
      <3>3. QED
        BY <3>1, <3>2
    <2>9. QED
      BY <1>2, <1>3, <2>6, <2>8 DEF CacheInv
  <1>6. QED
    BY <1>4, <1>5

\* Pruning drops rows together with what was committed for them.
LEMMA OpenStep == ASSUME CacheInv, Open PROVE CacheInv'
  <1>1. /\ UNCHANGED <<now, vars, pending, loadTime, failed>> /\ stage = "closed" /\ stage' = "idle"
        /\ rows' = [i \in {j \in DOMAIN rows : ~Expired(rows[j])} |-> rows[i]]
        /\ stored' = {c \in stored : ~Expired(rows[c.identity])}
    BY DEF Open, loadVars
  <1>2. ProofInv' /\ TypeOK' /\ Init'
    BY <1>1, UntouchedStore DEF CacheInv, LoadProgress
  <1>3. CacheTypeOK' /\ KeepsFreshest'
    BY <1>1, <1>2 DEF CacheInv, CacheTypeOK, KeepsFreshest, Fits
  <1>4. LoadProgress'
    BY <1>1, <1>2 DEF LoadProgress
  <1>5. QED
    BY <1>2, <1>3, <1>4 DEF CacheInv

\* Ending the process or the load.
LEMMA EndSteps == ASSUME CacheInv, Close \/ Resume PROVE CacheInv'
  <1>1. ForgetLoad /\ UNCHANGED <<rows, now, stored>> /\ stage' \in {"closed", "idle"}
    BY DEF Close, Resume
  <1>2. Init' /\ ProofInv' /\ TypeOK'
    BY <1>1, ForgottenLoad
  <1>3. CacheTypeOK' /\ KeepsFreshest'
    BY <1>1, <1>2 DEF CacheInv, CacheTypeOK, KeepsFreshest, ForgetLoad, Fits
  <1>4. LoadProgress'
    BY <1>1, <1>2 DEF LoadProgress
  <1>5. QED
    BY <1>2, <1>3, <1>4 DEF CacheInv

LEMMA LoadRowsStep == ASSUME CacheInv, LoadRows PROVE CacheInv'
  <1>1. /\ UNCHANGED <<rows, now, vars, stored>> /\ stage = "idle" /\ stage' = "loading"
        /\ loadTime' = now /\ failed' \in BOOLEAN
        /\ pending' = IF failed' THEN {} ELSE Table
    BY DEF LoadRows, Table
  <1>2. ProofInv' /\ TypeOK' /\ Init'
    BY <1>1, UntouchedStore DEF CacheInv, LoadProgress
  <1>3. CacheTypeOK' /\ KeepsFreshest'
    BY <1>1, <1>2 DEF CacheInv, CacheTypeOK, KeepsFreshest, Table, Fits
  <1>4. LoadProgress'
    BY <1>1, <1>2 DEF LoadProgress, Init, Table
  <1>5. QED
    BY <1>2, <1>3, <1>4 DEF CacheInv

\* A row is taken: validated and inserted, or refused.
LEMMA ValidateRowStep ==
  ASSUME CacheInv, NEW row \in pending, ValidateRow(row)
  PROVE  CacheInv'
  <1>1. /\ UNCHANGED <<rows, now, stage, loadTime, failed, stored>> /\ stage = "loading"
        /\ pending' = pending \ {row}
    BY DEF ValidateRow
  <1>2. row \in Row /\ row.candidate \in Candidate
    BY DEF CacheInv, CacheTypeOK, Row
  <1>3. /\ ProofInv'
        /\ seen' = IF RowUsable(row) THEN seen \cup {row.candidate} ELSE seen
    <2>1. CASE RowUsable(row)
      BY <1>2, <2>1, InsertProofInv DEF ValidateRow, CacheInv, Insert
    <2>2. CASE ~RowUsable(row)
      BY <2>2, UntouchedStore DEF ValidateRow, CacheInv, vars
    <2>3. QED
      BY <2>1, <2>2
  <1>4. TypeOK'
    BY <1>3 DEF ProofInv, IInv
  <1>5. CacheTypeOK' /\ KeepsFreshest'
    BY <1>1, <1>4 DEF CacheInv, CacheTypeOK, KeepsFreshest, Fits
  <1>6. LoadProgress'
    <2>1. CASE failed
      BY <1>1, <2>1 DEF LoadProgress
    <2>2. CASE ~failed
      <3>1. pending \subseteq Table /\ Table' = Table
            /\ seen = {x.candidate : x \in {y \in Table \ pending : RowUsable(y)}}
        BY <1>1, <2>2 DEF CacheInv, LoadProgress, Table
      <3>2. \A y : RowUsable(y)' <=> RowUsable(y)
        BY <1>1 DEF RowUsable
      <3>3. seen' = {x.candidate : x \in {y \in Table \ pending' : RowUsable(y)}}
        BY <1>1, <1>3, <3>1
      <3>4. QED
        BY <1>1, <2>2, <3>1, <3>2, <3>3 DEF LoadProgress
    <2>3. QED
      BY <2>1, <2>2
  <1>7. QED
    BY <1>3, <1>5, <1>6 DEF CacheInv

LEMMA OtherSteps ==
  ASSUME CacheInv,
         \/ Loaded
         \/ Tick
         \/ \E i \in DOMAIN rows, s \in Conditions : Damage(i, s)
         \/ UNCHANGED cacheVars
  PROVE  CacheInv'
  <1>1. UNCHANGED <<vars, pending, loadTime, failed, stored>>
    BY DEF Loaded, Tick, Damage, loadVars, cacheVars
  <1>2. ProofInv' /\ TypeOK' /\ (Init => Init')
    BY <1>1, UntouchedStore DEF CacheInv
  <1>3. CASE Loaded \/ Tick \/ UNCHANGED cacheVars
    <2>1. rows' = rows /\ now' \in Nat
          /\ (stage' = stage \/ (stage = "loading" /\ stage' = "loaded" /\ pending = {}))
      BY <1>3 DEF Loaded, Tick, cacheVars, CacheInv, CacheTypeOK
    <2>2. CacheTypeOK' /\ KeepsFreshest'
      BY <1>1, <1>2, <2>1 DEF CacheInv, CacheTypeOK, KeepsFreshest, Fits
    <2>3. LoadProgress'
      BY <1>1, <1>2, <2>1 DEF CacheInv, LoadProgress, Table, RowUsable, vars
    <2>4. QED
      BY <1>2, <2>2, <2>3 DEF CacheInv
  <1>4. ASSUME NEW i \in DOMAIN rows, NEW s \in Conditions, Damage(i, s)
        PROVE  CacheInv'
    <2>1. stage = "closed" /\ stage' = "closed" /\ now' = now
          /\ rows' = [rows EXCEPT ![i].condition = s]
      BY <1>4 DEF Damage
    <2>2. DOMAIN rows' = DOMAIN rows
          /\ \A j \in DOMAIN rows : rows'[j] \in Row /\ rows'[j].candidate = rows[j].candidate
      BY <2>1 DEF CacheInv, CacheTypeOK, Row
    <2>3. CacheTypeOK' /\ KeepsFreshest'
      BY <1>1, <1>2, <2>1, <2>2 DEF CacheInv, CacheTypeOK, KeepsFreshest, Fits
    <2>4. LoadProgress'
      BY <1>2, <2>1 DEF CacheInv, LoadProgress
    <2>5. QED
      BY <1>2, <2>3, <2>4 DEF CacheInv
  <1>5. QED
    BY <1>3, <1>4

\* The inductive invariant of the cache holds in every reachable state.
THEOREM CacheInvariant == CacheSpec => []CacheInv
  <1>1. CacheInit => CacheInv
    BY InitCacheInv
  <1>2. CacheInv /\ [CacheNext]_cacheVars => CacheInv'
    BY OpenStep, EndSteps, StoreStep, LoadRowsStep, ValidateRowStep, OtherSteps DEF CacheNext
  <1>3. QED
    BY <1>1, <1>2, PTL DEF CacheSpec

\* A peer keeps the newest record ever committed for it until its row is
\* pruned, for every order of reports, restarts and damage (cache.rs:189-192).
THEOREM CacheKeepsFreshest == CacheSpec => []KeepsFreshest
  <1>1. CacheInv => KeepsFreshest
    BY DEF CacheInv
  <1>2. QED
    BY <1>1, CacheInvariant, PTL

\* A load that succeeds is the reference sample of the rows that validate
\* (cache.rs:86-123), by the candidate store's own invariant.
THEOREM CacheLoadsSample == CacheSpec => []LoadsSample
  <1>1. CacheInv => LoadsSample
    <2> SUFFICES ASSUME CacheInv, stage = "loaded", ~failed
                 PROVE  seen = SoundRows /\ candidates = Sample
      BY DEF LoadsSample
    <2>1. candidates = Sample
      BY InvariantGivesSample DEF CacheInv, OrderIndependent
    <2>2. seen = {row.candidate : row \in {r \in Table : RowUsable(r)}}
      BY DEF CacheInv, LoadProgress
    <2>3. QED
      BY <2>1, <2>2 DEF SoundRows, Table
  <1>2. QED
    BY <1>1, CacheInvariant, PTL
===============================================================================
