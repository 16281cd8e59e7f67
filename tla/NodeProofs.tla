------------------------------- MODULE NodeProofs -------------------------------
(***************************************************************************)
(* For any number of processes, files, keys and command lines, and any     *)
(* announcements of others: what a start lets through can be announced,    *)
(* what is announced is accepted by every matching reader, a reader        *)
(* accepts nothing unsound, and the identity files are kept.               *)
(***************************************************************************)
EXTENDS Node, FiniteSetTheorems, SequenceTheorems, TLAPS

-------------------------------------------------------------------------------
(***************************************************************************)
(* load_or_create_identity: the identity that a start has created and      *)
(* returned is never replaced or lost                                      *)
(***************************************************************************)
\* p has created the file and not returned yet.
Creating(p) == Loading(p, "writing") \/ Loading(p, "syncing")

\* What p has written so far is what the file holds, and nobody has returned a
\* key of this file before.
CreatorOwns ==
  \A p \in Process : Creating(p) =>
    /\ load[p].key \in Key
    /\ file[PathOf(p)] = IF Loading(p, "writing") THEN Torn ELSE load[p].key
    /\ created[PathOf(p)] = {}

OneCreator ==
  \A p, q \in Process : Creating(p) /\ Creating(q) /\ PathOf(p) = PathOf(q) => p = q

IdInv == IdTypeOK /\ CreatorOwns /\ OneCreator /\ IdentityKept

Loaded == [stage : {"reading", "creating", "writing", "syncing", "loaded", "failed"},
           path : Path, key : Key \cup {Absent}]

\* A process that is in load_or_create_identity has a path and a key field.
LEMMA LoadingTyped ==
  ASSUME IdTypeOK, NEW p \in Process, load[p].stage # "idle"
  PROVE  load[p] \in Loaded
<1>1. load[p] \in LoadState
  BY DEF IdTypeOK
<1>2. load[p] # NotLoading
  BY DEF NotLoading
<1> QED
  BY <1>1, <1>2 DEF LoadState, Loaded

\* The file that a start creates is one of the paths.
LEMMA CreatorPath ==
  ASSUME IdTypeOK, NEW p \in Process, Creating(p)
  PROVE  PathOf(p) \in Path
BY LoadingTyped DEF Creating, Loading, PathOf, Loaded

\* Moving on in load_or_create_identity keeps the other fields.
LEMMA ContinueTyped ==
  ASSUME IdTypeOK, NEW p \in Process, load[p].stage # "idle",
         NEW s \in {"reading", "creating", "writing", "syncing", "loaded", "failed"},
         Continue(p, s)
  PROVE  /\ load' \in [Process -> LoadState]
         /\ load'[p].stage = s /\ load'[p].path = load[p].path /\ load'[p].key = load[p].key
         /\ \A q \in Process : q # p => load'[q] = load[q]
<1>1. load[p] \in Loaded
  BY LoadingTyped
<1>2. load \in [Process -> LoadState]
  BY DEF IdTypeOK
<1>3. load' = [load EXCEPT ![p] = [load[p] EXCEPT !.stage = s]]
  BY DEF Continue
<1>4. [load[p] EXCEPT !.stage = s] \in Loaded
  BY <1>1 DEF Loaded
<1>5. load'[p] = [load[p] EXCEPT !.stage = s] /\ \A q \in Process : q # p => load'[q] = load[q]
  BY <1>2, <1>3
<1>6. load' \in [Process -> LoadState]
  BY <1>2, <1>3, <1>4 DEF LoadState, Loaded
<1>7. /\ load'[p].stage = s /\ load'[p].path = load[p].path /\ load'[p].key = load[p].key
  BY <1>1, <1>5 DEF Loaded
<1> QED
  BY <1>5, <1>6, <1>7

\* A step that touches no file and takes p to no creating stage keeps the
\* invariant.
LEMMA QuietKeeps ==
  ASSUME IdInv, NEW p \in Process, load' \in [Process -> LoadState],
         \A q \in Process : q # p => load'[q] = load[q],
         load'[p].stage \notin {"writing", "syncing"},
         UNCHANGED <<file, durable, created>>
  PROVE  IdInv'
<1>1. IdTypeOK'
  BY DEF IdInv, IdTypeOK
<1>2. \A q \in Process : Creating(q)' => q # p /\ load'[q] = load[q] /\ Creating(q)
  BY DEF Creating, Loading
<1>3. CreatorOwns'
  BY <1>2 DEF IdInv, CreatorOwns, PathOf, Loading
<1>4. OneCreator'
  BY <1>2 DEF IdInv, OneCreator, PathOf
<1>5. IdentityKept'
  BY DEF IdInv, IdentityKept
<1> QED
  BY <1>1, <1>3, <1>4, <1>5 DEF IdInv

\* A process that moves to a stage that creates nothing.
LEMMA ContinueQuietly ==
  ASSUME IdInv, NEW p \in Process, load[p].stage # "idle",
         NEW s \in {"creating", "loaded", "failed"}, Continue(p, s),
         UNCHANGED <<file, durable, created>>
  PROVE  IdInv'
BY ContinueTyped, QuietKeeps DEF IdInv

\* Creating the file with create_new: the path was absent, so nobody creates
\* it and nobody has returned a key of it.
LEMMA CreateNewKeeps ==
  ASSUME IdInv, NEW p \in Process, NEW k \in Key, CreateNew(p, k)
  PROVE  IdInv'
<1> DEFINE f == PathOf(p)
<1>1. load[p] \in Loaded /\ f \in Path
  BY LoadingTyped DEF IdInv, CreateNew, Loading, PathOf, Loaded
<1>2. created[f] = {}
  BY <1>1, IdentityAssumption DEF IdInv, IdTypeOK, IdentityKept, CreateNew
<1>3. \A q \in Process : Creating(q) => PathOf(q) # f
  BY IdentityAssumption DEF IdInv, CreatorOwns, CreateNew
<1>4. load' = [load EXCEPT ![p] = [load[p] EXCEPT !.stage = "writing", !.key = k]]
  BY DEF CreateNew
<1>5. [load[p] EXCEPT !.stage = "writing", !.key = k] \in Loaded
  BY <1>1 DEF Loaded
<1>6. load' \in [Process -> LoadState]
  BY <1>4, <1>5 DEF IdInv, IdTypeOK, LoadState, Loaded
<1>7. load'[p].stage = "writing" /\ load'[p].key = k /\ load'[p].path = f
  BY <1>1, <1>4 DEF IdInv, IdTypeOK, Loaded, PathOf
<1>8. \A q \in Process : q # p => load'[q] = load[q]
  BY <1>4 DEF IdInv, IdTypeOK
<1>9. IdTypeOK'
  BY <1>1, <1>6 DEF IdInv, IdTypeOK, CreateNew
<1>10. \A q \in Process : Creating(q)' /\ q # p => Creating(q) /\ PathOf(q)' = PathOf(q) /\ PathOf(q) # f
  BY <1>3, <1>8 DEF Creating, Loading, PathOf
<1>11. CreatorOwns'
  <2> SUFFICES ASSUME NEW q \in Process, Creating(q)'
               PROVE  /\ load'[q].key \in Key
                      /\ file'[PathOf(q)'] = IF load'[q].stage = "writing" THEN Torn ELSE load'[q].key
                      /\ created'[PathOf(q)'] = {}
    BY DEF CreatorOwns, Loading
  <2>1. CASE q = p
    BY <2>1, <1>1, <1>2, <1>7 DEF IdInv, IdTypeOK, CreateNew, PathOf
  <2>2. CASE q # p
    <3>1. Creating(q) /\ PathOf(q)' = PathOf(q) /\ PathOf(q) # f /\ load'[q] = load[q]
      BY <2>2, <1>8, <1>10
    <3>2. file'[PathOf(q)] = file[PathOf(q)] /\ created' = created
      BY <3>1, CreatorPath DEF IdInv, IdTypeOK, CreateNew
    <3> QED
      BY <3>1, <3>2 DEF IdInv, CreatorOwns, Loading
  <2> QED
    BY <2>1, <2>2
<1>12. OneCreator'
  BY <1>7, <1>10 DEF IdInv, OneCreator, PathOf
<1>13. IdentityKept'
  BY <1>1, <1>2 DEF IdInv, IdTypeOK, IdentityKept, CreateNew
<1> QED
  BY <1>9, <1>11, <1>12, <1>13 DEF IdInv

\* write_all fills the file of the only start that creates it.
LEMMA WriteAllKeeps ==
  ASSUME IdInv, NEW p \in Process, WriteAll(p)
  PROVE  IdInv'
<1> DEFINE f == PathOf(p)
<1>1. load[p] \in Loaded /\ f \in Path /\ Creating(p)
  BY LoadingTyped DEF IdInv, WriteAll, Loading, PathOf, Loaded, Creating
<1>2. load[p].key \in Key /\ created[f] = {}
  BY <1>1 DEF IdInv, CreatorOwns
<1>3. \A q \in Process : q # p /\ Creating(q) => PathOf(q) # f
  BY <1>1 DEF IdInv, OneCreator
<1>4. /\ load' \in [Process -> LoadState]
      /\ load'[p].stage = "syncing" /\ load'[p].path = load[p].path /\ load'[p].key = load[p].key
      /\ \A q \in Process : q # p => load'[q] = load[q]
  BY ContinueTyped DEF IdInv, WriteAll, Loading
<1>5. file' = [file EXCEPT ![f] = load[p].key] /\ durable' = durable /\ created' = created
  BY DEF WriteAll
<1>6. IdTypeOK'
  BY <1>1, <1>2, <1>4, <1>5 DEF IdInv, IdTypeOK
<1>7. \A q \in Process : Creating(q)' /\ q # p => Creating(q) /\ PathOf(q)' = PathOf(q) /\ PathOf(q) # f
  BY <1>3, <1>4 DEF Creating, Loading, PathOf
<1>8. CreatorOwns'
  <2> SUFFICES ASSUME NEW q \in Process, Creating(q)'
               PROVE  /\ load'[q].key \in Key
                      /\ file'[PathOf(q)'] = IF load'[q].stage = "writing" THEN Torn ELSE load'[q].key
                      /\ created'[PathOf(q)'] = {}
    BY DEF CreatorOwns, Loading
  <2>1. CASE q = p
    BY <2>1, <1>1, <1>2, <1>4, <1>5 DEF IdInv, IdTypeOK, PathOf
  <2>2. CASE q # p
    BY <2>2, <1>4, <1>5, <1>7 DEF IdInv, IdTypeOK, CreatorOwns, Loading, PathOf
  <2> QED
    BY <2>1, <2>2
<1>9. OneCreator'
  BY <1>1, <1>4, <1>7 DEF IdInv, OneCreator, PathOf
<1>10. IdentityKept'
  BY <1>1, <1>2, <1>5 DEF IdInv, IdTypeOK, IdentityKept
<1> QED
  BY <1>6, <1>8, <1>9, <1>10 DEF IdInv

\* sync_all makes the key durable before it counts as created.
LEMMA SyncAllKeeps ==
  ASSUME IdInv, NEW p \in Process, SyncAll(p)
  PROVE  IdInv'
<1> DEFINE f == PathOf(p)
<1>1. load[p] \in Loaded /\ f \in Path /\ Creating(p)
  BY LoadingTyped DEF IdInv, SyncAll, Loading, PathOf, Loaded, Creating
<1>2. load[p].key \in Key /\ created[f] = {} /\ file[f] = load[p].key
  BY <1>1 DEF IdInv, CreatorOwns, SyncAll, Loading
<1>3. \A q \in Process : q # p /\ Creating(q) => PathOf(q) # f
  BY <1>1 DEF IdInv, OneCreator
<1>4. /\ load' \in [Process -> LoadState]
      /\ load'[p].stage = "loaded"
      /\ \A q \in Process : q # p => load'[q] = load[q]
  BY ContinueTyped DEF IdInv, SyncAll, Loading
<1>5. /\ file' = file /\ durable' = [durable EXCEPT ![f] = TRUE]
      /\ created' = [created EXCEPT ![f] = {load[p].key}]
  BY <1>1, <1>2 DEF SyncAll, IdInv, IdTypeOK
<1>6. IdTypeOK'
  BY <1>1, <1>2, <1>4, <1>5 DEF IdInv, IdTypeOK
<1>7. \A q \in Process : Creating(q)' =>
        q # p /\ Creating(q) /\ load'[q] = load[q] /\ PathOf(q) # f
  BY <1>3, <1>4 DEF Creating, Loading
<1>8. CreatorOwns'
  <2> SUFFICES ASSUME NEW q \in Process, Creating(q)'
               PROVE  /\ load'[q].key \in Key
                      /\ file'[PathOf(q)'] = IF load'[q].stage = "writing" THEN Torn ELSE load'[q].key
                      /\ created'[PathOf(q)'] = {}
    BY DEF CreatorOwns, Loading
  <2>1. Creating(q) /\ PathOf(q)' = PathOf(q) /\ PathOf(q) # f /\ load'[q] = load[q]
    BY <1>7 DEF PathOf
  <2>2. created'[PathOf(q)] = created[PathOf(q)] /\ file' = file
    BY <1>5, <2>1, CreatorPath DEF IdInv, IdTypeOK
  <2> QED
    BY <2>1, <2>2 DEF IdInv, CreatorOwns, Loading
<1>9. OneCreator'
  BY <1>7 DEF IdInv, OneCreator, PathOf
<1>10. IdentityKept'
  BY <1>1, <1>2, <1>5 DEF IdInv, IdTypeOK, IdentityKept
<1> QED
  BY <1>6, <1>8, <1>9, <1>10 DEF IdInv

\* A loss of power ends those who create the file; what was returned is durable.
LEMMA PowerLossKeeps ==
  ASSUME IdInv, NEW f \in Path, PowerLoss(f)
  PROVE  IdInv'
<1>1. PICK found \in IF durable[f] THEN {file[f]} ELSE {Absent, Torn, file[f]} :
        file' = [file EXCEPT ![f] = found]
  BY DEF PowerLoss
<1>2. durable' = [durable EXCEPT ![f] = TRUE] /\ created' = created
  BY DEF PowerLoss
<1>3. \A q \in Process :
        \/ load'[q] = NotLoading
        \/ load'[q] = load[q] /\ (load[q] # NotLoading => PathOf(q) # f)
  BY DEF PowerLoss
<1>4. load' \in [Process -> LoadState]
  BY DEF PowerLoss, IdInv, IdTypeOK, LoadState
<1>5. IdTypeOK'
  BY <1>1, <1>2, <1>4 DEF IdInv, IdTypeOK
<1>6. \A q \in Process : Creating(q)' => Creating(q) /\ load'[q] = load[q] /\ PathOf(q) # f
  BY <1>3 DEF Creating, Loading, NotLoading
<1>7. CreatorOwns'
  BY <1>1, <1>2, <1>6 DEF IdInv, IdTypeOK, CreatorOwns, Loading, PathOf
<1>8. OneCreator'
  BY <1>6 DEF IdInv, OneCreator, PathOf
<1>9. IdentityKept'
  BY <1>1, <1>2 DEF IdInv, IdTypeOK, IdentityKept
<1> QED
  BY <1>5, <1>7, <1>8, <1>9 DEF IdInv

\* Every step of load_or_create_identity, of a crash and of a loss of power
\* keeps the invariant.
LEMMA IdInvInductive ==
  IdInv /\ [IdNext]_idVars => IdInv'
<1> SUFFICES ASSUME IdInv, [IdNext]_idVars
             PROVE  IdInv'
  OBVIOUS
<1>1. ASSUME NEW p \in Process, LoadStep(p)
      PROVE  IdInv'
  <2>1. CASE ReadKey(p)
    <3> DEFINE k == file[PathOf(p)]
    <3>1. load[p] \in Loaded /\ k \in Key
      BY <2>1, LoadingTyped DEF IdInv, ReadKey, Loading
    <3>2. load' = [load EXCEPT ![p] = [load[p] EXCEPT !.stage = "loaded", !.key = k]]
      BY <2>1 DEF ReadKey
    <3>3. [load[p] EXCEPT !.stage = "loaded", !.key = k] \in Loaded
      BY <3>1 DEF Loaded
    <3>4. load' \in [Process -> LoadState]
      BY <3>2, <3>3 DEF IdInv, IdTypeOK, LoadState, Loaded
    <3>5. load'[p].stage = "loaded" /\ \A q \in Process : q # p => load'[q] = load[q]
      BY <3>1, <3>2 DEF IdInv, IdTypeOK, Loaded
    <3> QED
      BY <2>1, <3>4, <3>5, QuietKeeps DEF ReadKey
  <2>2. CASE ReadFails(p) \/ CreateFails(p) \/ WriteFails(p)
    BY <2>2, ContinueQuietly DEF ReadFails, CreateFails, WriteFails, Fails, Loading
  <2>3. CASE ReadAbsent(p)
    BY <2>3, ContinueQuietly DEF ReadAbsent, Loading
  <2>4. CASE WriteAll(p)
    BY <2>4, WriteAllKeeps
  <2>5. CASE SyncAll(p)
    BY <2>5, SyncAllKeeps
  <2> QED
    BY <1>1, <2>1, <2>2, <2>3, <2>4, <2>5 DEF LoadStep
<1>2. ASSUME NEW p \in Process, EndProcess(p)
      PROVE  IdInv'
  <2>1. load' \in [Process -> LoadState] /\ load'[p] = NotLoading
        /\ \A q \in Process : q # p => load'[q] = load[q]
    BY <1>2 DEF EndProcess, IdInv, IdTypeOK, LoadState
  <2> QED
    BY <1>2, <2>1, QuietKeeps DEF EndProcess, NotLoading
<1>3. ASSUME NEW p \in Process, NEW f \in Path, BeginLoad(p, f)
      PROVE  IdInv'
  <2>1. load' \in [Process -> LoadState] /\ load'[p].stage = "reading"
        /\ \A q \in Process : q # p => load'[q] = load[q]
    BY <1>3 DEF BeginLoad, IdInv, IdTypeOK, LoadState
  <2> QED
    BY <1>3, <2>1, QuietKeeps DEF BeginLoad
<1>4. CASE UNCHANGED idVars
  BY <1>4 DEF idVars, IdInv, IdTypeOK, CreatorOwns, OneCreator, IdentityKept, Creating, Loading, PathOf
<1> QED
  BY <1>1, <1>2, <1>3, <1>4, CreateNewKeeps, PowerLossKeeps DEF IdNext

\* The types of the identity file's state, for any number of starts and files
\* (identity.rs:13-48).
THEOREM IdTypeCorrect == IdSpec => []IdTypeOK
<1>1. IdInit => IdInv
  BY IdentityAssumption DEF IdInit, IdInv, IdTypeOK, CreatorOwns, OneCreator, IdentityKept,
     LoadState, NotLoading, Creating, Loading
<1>2. IdInv => IdTypeOK
  BY DEF IdInv
<1> QED
  BY <1>1, <1>2, IdInvInductive, PTL DEF IdSpec

\* However many starts race for one file and wherever they crash or lose power,
\* the key that a creation returned is the one the file holds, durably
\* (identity.rs:13-48).
THEOREM IdentityIsKept == IdSpec => []IdentityKept
<1>1. IdInit => IdInv
  BY IdentityAssumption DEF IdInit, IdInv, IdTypeOK, CreatorOwns, OneCreator, IdentityKept,
     LoadState, NotLoading, Creating, Loading
<1>2. IdInv => IdentityKept
  BY DEF IdInv
<1> QED
  BY <1>1, <1>2, IdInvInductive, PTL DEF IdSpec

-------------------------------------------------------------------------------
(***************************************************************************)
(* The endpoints a codec keeps                                             *)
(***************************************************************************)
Rank(keep, i) == Cardinality({j \in keep : j <= i})

\* The ranks of a set of positions are 1 up to its size.
LEMMA RankOnto ==
  ASSUME NEW n \in Nat, NEW keep \in SUBSET (1..n), NEW m \in 1..Cardinality(keep)
  PROVE  \E i \in keep : Rank(keep, i) = m
<1> DEFINE below(i) == {j \in keep : j <= i}
           r == [i \in keep |-> Cardinality(below(i))]
           C == Cardinality(keep)
<1>1. IsFiniteSet(keep) /\ C \in Nat
  <2>1. IsFiniteSet(1..n)
    BY FS_Interval
  <2>2. IsFiniteSet(keep)
    BY <2>1, FS_Subset
  <2> QED
    BY <2>2, FS_CardinalityType
<1>2. ASSUME NEW i \in keep
      PROVE  IsFiniteSet(below(i)) /\ Cardinality(below(i)) \in 1..C
  <2>1. below(i) \subseteq keep /\ i \in below(i)
    OBVIOUS
  <2>2. IsFiniteSet(below(i)) /\ Cardinality(below(i)) \in Nat /\ Cardinality(below(i)) <= C
    BY <1>1, <2>1, FS_Subset, FS_CardinalityType
  <2>3. Cardinality(below(i)) # 0
    BY <2>1, <2>2, FS_EmptySet
  <2> QED
    BY <1>1, <2>2, <2>3
<1>3. ASSUME NEW i \in keep, NEW k \in keep, i < k
      PROVE  r[i] # r[k]
  <2>1. below(i) \subseteq below(k) /\ k \in below(k) /\ k \notin below(i)
    <3>1. i \in Int /\ k \in Int /\ \A j \in keep : j \in Int
      OBVIOUS
    <3>2. ~(k <= i) /\ k <= k /\ \A j \in keep : j <= i => j <= k
      BY <1>3, <3>1
    <3> QED
      BY <3>2, Zenon
  <2>2. Cardinality(below(i)) # Cardinality(below(k))
    BY <1>2, <2>1, FS_Subset
  <2> QED
    BY <2>2
<1>4. r \in Injection(keep, 1..C)
  <2>1. r \in [keep -> 1..C]
    BY <1>2
  <2>2. ASSUME NEW i \in keep, NEW k \in keep, r[i] = r[k]
        PROVE  i = k
    <3>1. i \in Int /\ k \in Int
      OBVIOUS
    <3>2. ~(i < k) /\ ~(k < i)
      BY <1>3, <2>2
    <3> QED
      BY <3>1, <3>2
  <2> QED
    BY <2>1, <2>2 DEF Injection, IsInjective
<1>5. IsFiniteSet(1..C) /\ Cardinality(1..C) = C
  BY <1>1, FS_Interval
<1>6. r \in Surjection(keep, 1..C)
  BY <1>4, <1>5, FS_Injection
<1>7. PICK i \in keep : r[i] = m
  BY <1>6 DEF Surjection
<1> QED
  BY <1>7 DEF Rank

\* What is kept comes from a position that is kept.
LEMMA KeptFrom ==
  ASSUME NEW s, \E n \in Nat : DOMAIN s = 1..n, NEW keep \in SUBSET DOMAIN s
  PROVE  \A e \in ToSet(Kept(s, keep)) : \E i \in keep : e = s[i]
<1> SUFFICES ASSUME NEW e \in ToSet(Kept(s, keep))
             PROVE  \E i \in keep : e = s[i]
  OBVIOUS
<1>1. PICK n \in Nat : keep \in SUBSET (1..n)
  OBVIOUS
<1>2. Kept(s, keep) = [m \in 1..Cardinality(keep) |-> s[CHOOSE i \in keep : Rank(keep, i) = m]]
  BY Zenon DEF Kept, Rank
<1>3. PICK m \in 1..Cardinality(keep) : e = s[CHOOSE i \in keep : Rank(keep, i) = m]
  BY <1>2 DEF ToSet
<1>4. (CHOOSE i \in keep : Rank(keep, i) = m) \in keep
  BY <1>1, RankOnto
<1> QED
  BY <1>3, <1>4

\* A sequence all of whose positions are kept is kept as it is.
LEMMA KeptAll ==
  ASSUME NEW S, NEW s \in Seq(S)
  PROVE  Kept(s, DOMAIN s) = s
<1> DEFINE n == Len(s)
<1>1. n \in Nat /\ DOMAIN s = 1..n
  BY LenProperties
<1>2. Cardinality(1..n) = n
  BY <1>1, FS_Interval
<1>3. ASSUME NEW i \in 1..n PROVE Rank(1..n, i) = i
  <2>1. {j \in 1..n : j <= i} = 1..i
    BY <1>1
  <2>2. Cardinality(1..i) = i
    BY <1>1, FS_Interval
  <2> QED
    BY <2>1, <2>2 DEF Rank
<1>4. ASSUME NEW m \in 1..n PROVE (CHOOSE i \in 1..n : Rank(1..n, i) = m) = m
  <2>1. \A i \in 1..n : Rank(1..n, i) = m <=> i = m
    BY <1>3
  <2> QED
    BY <2>1
<1>5. Kept(s, 1..n) = [m \in 1..Cardinality(1..n) |-> s[CHOOSE i \in 1..n : Rank(1..n, i) = m]]
  BY Zenon DEF Kept, Rank
<1> HIDE DEF n
<1>6. Kept(s, 1..n) = [m \in 1..n |-> s[m]]
  BY <1>2, <1>4, <1>5
<1>7. s = [m \in 1..n |-> s[m]]
  BY <1>1, LenProperties DEF n
<1> QED
  BY <1>1, <1>6, <1>7

-------------------------------------------------------------------------------
(***************************************************************************)
(* The endpoint policy                                                     *)
(***************************************************************************)

\* What the default policy lets through, the policy for private overlays does.
LEMMA PolicyMonotone ==
  ASSUME NEW address, NEW expected, NEW context, Accepts(FALSE, address, expected, context)
  PROVE  Accepts(TRUE, address, expected, context)
<1>1. ASSUME NEW o, IsGlobalV4(o) PROVE ~Unspecified4(o) /\ ~Multicast4(o)
  BY <1>1 DEF IsGlobalV4
<1>2. ASSUME NEW s, IsGlobalV6(s) PROVE ~Unspecified6(s) /\ ~Multicast6(s)
  <2>1. CASE IsMapped(s)
    <3>1. s[6] = 65535 /\ s[1] = 0
      BY <2>1 DEF IsMapped
    <3> QED
      BY <3>1 DEF Unspecified6, Multicast6
  <2>2. CASE ~IsMapped(s)
    BY <1>2, <2>2 DEF IsGlobalV6
  <2> QED
    BY <2>1, <2>2
<1>3. ASSUME NEW part, AcceptIp(FALSE, part) PROVE AcceptIp(TRUE, part)
  BY <1>1, <1>2, <1>3 DEF AcceptIp
<1> QED
  BY <1>3 DEF Accepts

\* The default policy sees through an IPv4 address inside an IPv6 one.
LEMMA AcceptedIsPublic ==
  ASSUME NEW allow, ~allow, NEW address, NEW expected, NEW context,
         Accepts(allow, address, expected, context),
         NEW part \in ToSet(address), NEW o \in Ip4Of(part)
  PROVE  ~Unspecified4(o) /\ ~Loopback4(o) /\ ~Private4(o)
<1>1. part.proto \in {"ip4", "ip6"}
  BY DEF Ip4Of
<1>2. AcceptIp(allow, part)
  BY <1>1 DEF Accepts, ToSet
<1>3. CASE part.proto = "ip4"
  <2>1. o = part.octets /\ IsGlobalV4(part.octets)
    BY <1>2, <1>3 DEF AcceptIp, Ip4Of
  <2> QED
    BY <2>1 DEF IsGlobalV4
<1>4. CASE part.proto = "ip6"
  <2>1. o = Unmap(part.segments) /\ IsMapped(part.segments)
    BY <1>4 DEF Ip4Of
  <2>2. IsGlobalV6(part.segments)
    BY <1>2, <1>4 DEF AcceptIp
  <2>3. IsGlobalV4(o)
    BY <2>1, <2>2 DEF IsGlobalV6
  <2> QED
    BY <2>3 DEF IsGlobalV4
<1> QED
  BY <1>1, <1>3, <1>4

-------------------------------------------------------------------------------
(***************************************************************************)
(* The invariant                                                           *)
(***************************************************************************)

\* The keys these processes may ever have.
Own == UNION {Fresh(f, used) : f \in Path, used \in SUBSET Key}

Started(p) == stage[p] \in {"starting", "isolated", "dialing", "promoting"}

\* A start that has got past a check still satisfies it: the command line and
\* the key are those that were checked.
StartsChecked ==
  \A p \in Process :
    /\ ~At(p, "down") => Configures(cli[p])
    /\ Started(p) => Loading(p, "loaded") /\ Checks(cli[p], KeyOf(p))

\* Every key in a file or in use was generated here.
KeysOwn ==
  /\ \A f \in Path : file[f] \in Own \cup {Absent, Torn}
  /\ \A p \in Process : load[p].stage \in {"writing", "syncing", "loaded"} => load[p].key \in Own

\* What these processes have announced are envelopes that fit.
ChainFits ==
  /\ Foreign \subseteq chain
  /\ \A a \in chain \ Foreign :
       /\ ~IsEnr(a.record) /\ IsSeq(a.record.payload.addresses)
       /\ a.record.size <= MaxParts

NodeInv == IdInv /\ TypeOK /\ StartsChecked /\ KeysOwn /\ ChainFits

-------------------------------------------------------------------------------
(***************************************************************************)
(* The identity files                                                      *)
(***************************************************************************)

\* Every step of the nodes is a step of Identity, or leaves the files and the
\* loads alone.
LEMMA StepIsIdentityStep ==
  ASSUME IdTypeOK, [Next]_vars
  PROVE  [IdNext]_idVars
<1>1. ASSUME NEW p \in Process, Ends(p)
      PROVE  IdNext
  BY <1>1 DEF Ends, IdNext
<1>2. ASSUME NEW p \in Process, Launch(p)
      PROVE  IdNext
  <2>1. PICK c \in Options(p) : BeginLoad(p, c.identity)
    BY <1>2 DEF Launch
  <2>2. c.identity \in Path
    BY OptionsAssumption
  <2> QED
    BY <2>1, <2>2 DEF IdNext
<1>3. ASSUME NEW p \in Process, LoadsIdentity(p)
      PROVE  IdNext
  <2>1. CASE LoadStep(p)
    BY <2>1 DEF IdNext
  <2>2. ASSUME NEW k \in Fresh(PathOf(p), KeysInUse), CreateNew(p, k)
        PROVE  IdNext
    <3>1. PathOf(p) \in Path
      BY <2>2, LoadingTyped DEF CreateNew, Loading, PathOf, Loaded
    <3>2. KeysInUse \in SUBSET Key
      BY DEF KeysInUse
    <3>3. k \in Key
      BY <3>1, <3>2, KeysAssumption
    <3> QED
      BY <2>2, <3>3 DEF IdNext
  <2> QED
    BY <1>3, <2>1, <2>2 DEF LoadsIdentity
<1>4. ASSUME NEW p \in Process, StartStep(p)
      PROVE  IdNext \/ UNCHANGED idVars
  BY <1>1, <1>3, <1>4 DEF StartStep, Checked, StartRefused, Serves, ResourceFails
<1>5. ASSUME NEW p \in Process, TurnStep(p)
      PROVE  UNCHANGED idVars
  BY <1>5 DEF TurnStep, ScanFinds, ScanFails, Scan, NobodyAnswers, Announce, AnnounceFails
<1>6. ASSUME NEW f \in Outages, LosesPower(f)
      PROVE  IdNext
  BY <1>6, OutagesAssumption DEF LosesPower, IdNext
<1>7. CASE Next
  <2>1. CASE \E p \in Process : Launch(p) \/ StartStep(p) \/ TurnStep(p) \/ Stops(p)
    BY <2>1, <1>1, <1>2, <1>4, <1>5 DEF Stops
  <2>2. CASE \E p, q \in Process : DialSucceeds(p, q)
    BY <2>2 DEF DialSucceeds
  <2>3. CASE \E p \in Process : Crash(p) \/ BecomesDue(p)
    BY <2>3, <1>1 DEF Crash, BecomesDue
  <2>4. CASE \E f \in Outages : LosesPower(f)
    BY <2>4, <1>6
  <2>5. CASE \E a \in chain : Expires(a)
    BY <2>5 DEF Expires
  <2>6. CASE \E l \in links : Disconnects(l)
    BY <2>6 DEF Disconnects
  <2> QED
    BY <1>7, <2>1, <2>2, <2>3, <2>4, <2>5, <2>6 DEF Next
<1> QED
  BY <1>7 DEF vars

LEMMA IdInvKept ==
  ASSUME IdInv, [Next]_vars
  PROVE  IdInv'
BY StepIsIdentityStep, IdInvInductive DEF IdInv

LEMMA IdInvInit == IdInit => IdInv
BY IdentityAssumption DEF IdInit, IdInv, IdTypeOK, CreatorOwns, OneCreator, IdentityKept,
   LoadState, NotLoading, Creating, Loading

\* The nodes implement the identity file's specification: nothing the rest of
\* the program does with a file or a key is outside load_or_create_identity
\* (main.rs:167, identity.rs:13-48).
THEOREM NodeImplementsIdentity == Spec => IdSpec
<1>1. Init => IdInit
  BY DEF Init
<1>2. IdInv /\ [Next]_vars => [IdNext]_idVars /\ IdInv'
  BY StepIsIdentityStep, IdInvKept DEF IdInv
<1> QED
  BY <1>1, <1>2, IdInvInit, PTL DEF Spec, IdSpec

\* However many nodes are started on however many files, and wherever they
\* crash or lose power, the key a creation returned is the one the file holds
\* (identity.rs:13-48).
THEOREM NodeIdentityKept == Spec => []IdentityKept
BY NodeImplementsIdentity, IdentityIsKept, PTL

-------------------------------------------------------------------------------
(***************************************************************************)
(* Every action keeps the invariant                                        *)
(***************************************************************************)
Stages == {"down", "identity", "starting", "isolated", "dialing", "promoting"}

\* A process that stays where it was, with its command line and its load.
Stays(p) == stage'[p] = stage[p] /\ cli'[p] = cli[p] /\ load'[p] = load[p]

\* The parts of NodeInv that speak of one process.
ProcessOK(p) ==
  /\ cli[p] \in Options(p) \cup {NoCli}
  /\ At(p, "down") <=> cli[p] = NoCli
  /\ At(p, "down") <=> load[p] = NotLoading
  /\ ~At(p, "down") => Configures(cli[p])
  /\ Started(p) => Loading(p, "loaded") /\ Checks(cli[p], KeyOf(p))
  /\ load[p].stage \in {"writing", "syncing", "loaded"} => load[p].key \in Own

LEMMA StaysOK ==
  ASSUME NEW p \in Process, ProcessOK(p), Stays(p)
  PROVE  ProcessOK(p)'
BY DEF ProcessOK, Stays, At, Started, Loading, KeyOf

Pairs == {{p, q} : p, q \in Process}

\* NodeInv process by process.
LEMMA NodeInvParts ==
  ASSUME NodeInv
  PROVE  /\ IdInv
         /\ stage \in [Process -> Stages]
         /\ DOMAIN cli = Process /\ DOMAIN candidates = Process
         /\ \A p \in Process : ProcessOK(p)
         /\ due \subseteq {p \in Process : Running(p) /\ cli[p].seed}
         /\ links \subseteq Pairs
         /\ \A f \in Path : file[f] \in Own \cup {Absent, Torn}
         /\ ChainFits
<1>1. ASSUME NEW p \in Process PROVE ProcessOK(p)
  <2>1. /\ cli[p] \in Options(p) \cup {NoCli}
        /\ At(p, "down") <=> cli[p] = NoCli
        /\ At(p, "down") <=> load[p] = NotLoading
    BY DEF NodeInv, TypeOK
  <2>2. /\ ~At(p, "down") => Configures(cli[p])
        /\ Started(p) => Loading(p, "loaded") /\ Checks(cli[p], KeyOf(p))
    BY DEF NodeInv, StartsChecked
  <2>3. load[p].stage \in {"writing", "syncing", "loaded"} => load[p].key \in Own
    BY DEF NodeInv, KeysOwn
  <2> QED
    BY <2>1, <2>2, <2>3 DEF ProcessOK
<1> QED
  BY <1>1 DEF NodeInv, TypeOK, KeysOwn, Pairs, Stages

LEMMA NodeInvFromParts ==
  ASSUME IdInv',
         stage' \in [Process -> Stages],
         DOMAIN cli' = Process, DOMAIN candidates' = Process,
         \A p \in Process : ProcessOK(p)',
         due' \subseteq {p \in Process : Running(p)' /\ cli'[p].seed},
         links' \subseteq Pairs,
         \A f \in Path : file'[f] \in Own \cup {Absent, Torn},
         ChainFits'
  PROVE  NodeInv'
<1>1. TypeOK'
  <2>1. IdTypeOK'
    BY DEF IdInv
  <2>2. \A p \in Process :
          /\ cli'[p] \in Options(p) \cup {NoCli}
          /\ At(p, "down")' <=> cli'[p] = NoCli
          /\ At(p, "down")' <=> load'[p] = NotLoading
    BY Zenon DEF ProcessOK
  <2> QED
    BY <2>1, <2>2 DEF TypeOK, Stages, Pairs
<1>2. StartsChecked'
  BY Zenon DEF StartsChecked, ProcessOK
<1>3. KeysOwn'
  BY Zenon DEF KeysOwn, ProcessOK
<1> QED
  BY <1>1, <1>2, <1>3 DEF NodeInv

\* Processes that end, and the files of the machine they ran on, if it lost power.
LEMMA EndKeeps ==
  ASSUME NodeInv, IdInv', NEW lost \in SUBSET Process,
         stage' \in [Process -> Stages], DOMAIN cli' = Process, DOMAIN candidates' = Process,
         \A p \in lost : stage'[p] = "down" /\ cli'[p] = NoCli /\ load'[p] = NotLoading,
         \A p \in Process \ lost : Stays(p),
         \A f \in Path : file'[f] \in {file[f], Absent, Torn},
         due' = due \ lost, links' \subseteq links, UNCHANGED chain
  PROVE  NodeInv'
<1>1. ASSUME NEW p \in Process PROVE ProcessOK(p)'
  <2>1. CASE p \in lost
    <3>1. /\ stage'[p] = "down" /\ cli'[p] = NoCli /\ load'[p] = NotLoading
          /\ load'[p].stage = "idle"
      BY <2>1 DEF NotLoading
    <3> QED
      BY <3>1 DEF ProcessOK, At, Started, Loading, KeyOf
  <2>2. CASE p \notin lost
    BY <2>2, StaysOK, NodeInvParts
  <2> QED
    BY <2>1, <2>2
<1>2. due' \subseteq {p \in Process : Running(p)' /\ cli'[p].seed}
  <2>1. ASSUME NEW p \in due' PROVE p \in Process /\ Running(p)' /\ cli'[p].seed
    <3>1. p \in Process /\ p \notin lost /\ Running(p) /\ cli[p].seed
      BY NodeInvParts
    <3> QED
      BY <3>1 DEF Stays, Running
  <2> QED
    BY <2>1
<1>3. links' \subseteq Pairs
  BY NodeInvParts
<1>4. \A f \in Path : file'[f] \in Own \cup {Absent, Torn}
  <2>1. \A f \in Path : file[f] \in Own \cup {Absent, Torn}
    BY NodeInvParts
  <2> QED
    BY <2>1
<1>5. ChainFits'
  BY NodeInvParts DEF ChainFits
<1> QED
  BY <1>1, <1>2, <1>3, <1>4, <1>5, NodeInvFromParts

\* One process that goes on to another stage, or changes only its load.
LEMMA MoveKeeps ==
  ASSUME NodeInv, IdInv', NEW p \in Process,
         stage' \in [Process -> Stages], DOMAIN cli' = Process, DOMAIN candidates' = Process,
         ProcessOK(p)',
         \A q \in Process \ {p} : Stays(q),
         due' \subseteq {q \in Process : Running(q)' /\ cli'[q].seed},
         links' \subseteq Pairs,
         \A f \in Path : file'[f] \in Own \cup {Absent, Torn},
         ChainFits'
  PROVE  NodeInv'
<1>1. \A q \in Process : ProcessOK(q)'
  BY StaysOK, NodeInvParts
<1> QED
  BY <1>1, NodeInvFromParts


\* StartRefused, ResourceFails, Stops and Crash.
LEMMA EndsKeeps ==
  ASSUME NodeInv, IdInv', NEW p \in Process, Ends(p)
  PROVE  NodeInv'
<1>1. /\ stage \in [Process -> Stages] /\ DOMAIN cli = Process /\ DOMAIN candidates = Process
      /\ load \in [Process -> LoadState]
  BY NodeInvParts DEF IdInv, IdTypeOK
<1>2. /\ stage' = [stage EXCEPT ![p] = "down"] /\ cli' = [cli EXCEPT ![p] = NoCli]
      /\ candidates' = [candidates EXCEPT ![p] = {}]
      /\ load' = [load EXCEPT ![p] = NotLoading]
  BY DEF Ends, Goto, EndProcess
<1>3. /\ stage' \in [Process -> Stages] /\ DOMAIN cli' = Process /\ DOMAIN candidates' = Process
  BY <1>1, <1>2 DEF Stages
<1>4. stage'[p] = "down" /\ cli'[p] = NoCli /\ load'[p] = NotLoading
  BY <1>1, <1>2
<1>5. \A q \in Process \ {p} : Stays(q)
  BY <1>1, <1>2 DEF Stays
<1>6. file' = file /\ due' = due \ {p} /\ links' \subseteq links /\ UNCHANGED chain
  BY DEF Ends, EndProcess
<1> DEFINE lost == {p}
<1>7. /\ lost \in SUBSET Process
      /\ \A q \in lost : stage'[q] = "down" /\ cli'[q] = NoCli /\ load'[q] = NotLoading
      /\ \A q \in Process \ lost : Stays(q)
      /\ \A f \in Path : file'[f] \in {file[f], Absent, Torn}
      /\ due' = due \ lost
  BY <1>4, <1>5, <1>6
<1> HIDE DEF lost
<1> QED
  BY <1>3, <1>6, <1>7, EndKeeps

LEMMA LosesPowerKeeps ==
  ASSUME NodeInv, IdInv', NEW f \in Path, LosesPower(f)
  PROVE  NodeInv'
<1> DEFINE lost == {p \in Process : load[p] # NotLoading /\ PathOf(p) = f}
<1>1. /\ stage \in [Process -> Stages] /\ file \in [Path -> Key \cup {Absent, Torn}]
  BY NodeInvParts DEF IdInv, IdTypeOK
<1>2. /\ stage' = [p \in Process |-> IF p \in lost THEN "down" ELSE stage[p]]
      /\ cli' = [p \in Process |-> IF p \in lost THEN NoCli ELSE cli[p]]
      /\ candidates' = [p \in Process |-> IF p \in lost THEN {} ELSE candidates[p]]
      /\ load' = [p \in Process |-> IF p \in lost THEN NotLoading ELSE load[p]]
  BY DEF LosesPower, PowerLoss
<1>3. due' = due \ lost /\ links' \subseteq links /\ UNCHANGED chain
  BY DEF LosesPower
<1>4. \A g \in Path : file'[g] \in {file[g], Absent, Torn}
  BY <1>1 DEF LosesPower, PowerLoss
<1> HIDE DEF lost
<1>5. stage' \in [Process -> Stages] /\ DOMAIN cli' = Process /\ DOMAIN candidates' = Process
  BY <1>1, <1>2 DEF Stages
<1>6. lost \in SUBSET Process
  BY DEF lost
<1>7. \A p \in lost : stage'[p] = "down" /\ cli'[p] = NoCli /\ load'[p] = NotLoading
  BY <1>2, <1>6
<1>8. \A p \in Process \ lost : Stays(p)
  BY <1>2 DEF Stays
<1> QED
  BY <1>3, <1>4, <1>5, <1>6, <1>7, <1>8, EndKeeps

LEMMA LaunchKeeps ==
  ASSUME NodeInv, IdInv', NEW p \in Process, Launch(p)
  PROVE  NodeInv'
<1>1. PICK c \in Options(p) :
        Configures(c) /\ cli' = [cli EXCEPT ![p] = c] /\ BeginLoad(p, c.identity)
  BY DEF Launch
<1>2. /\ stage \in [Process -> Stages] /\ DOMAIN cli = Process
      /\ load \in [Process -> LoadState]
  BY NodeInvParts DEF IdInv, IdTypeOK
<1>3. c # NoCli
  <2>1. "none" \notin DOMAIN c
    BY OptionsAssumption
  <2>2. "none" \in DOMAIN NoCli
    BY DEF NoCli
  <2> QED
    BY <2>1, <2>2
<1>4. /\ stage' = [stage EXCEPT ![p] = "identity"]
      /\ load' = [load EXCEPT ![p] = [stage |-> "reading", path |-> c.identity, key |-> Absent]]
      /\ UNCHANGED <<file, candidates, due, chain, links>>
  BY <1>1 DEF Launch, Goto, BeginLoad
<1>5. stage'[p] = "identity" /\ cli'[p] = c /\ load'[p].stage = "reading"
  BY <1>1, <1>2, <1>4
<1>6. stage' \in [Process -> Stages] /\ DOMAIN cli' = Process /\ DOMAIN candidates' = Process
  BY <1>1, <1>2, <1>4, NodeInvParts DEF Stages
<1>7. \A q \in Process \ {p} : Stays(q)
  BY <1>1, <1>2, <1>4 DEF Stays
<1>8. load'[p] # NotLoading
  BY <1>5 DEF NotLoading
<1>9. ProcessOK(p)'
  BY <1>1, <1>3, <1>5, <1>8 DEF ProcessOK, At, Started
<1>10. due' \subseteq {q \in Process : Running(q)' /\ cli'[q].seed}
  <2>1. ASSUME NEW q \in due PROVE q \in Process /\ Running(q)' /\ cli'[q].seed
    <3>1. q \in Process /\ Running(q) /\ cli[q].seed
      BY NodeInvParts
    <3>2. q # p
      BY <3>1 DEF Launch, At, Running
    <3> QED
      BY <3>1, <3>2, <1>7 DEF Stays, Running
  <2> QED
    BY <2>1, <1>4
<1>11. /\ links' \subseteq Pairs /\ ChainFits'
       /\ \A f \in Path : file'[f] \in Own \cup {Absent, Torn}
  BY <1>4, NodeInvParts DEF ChainFits
<1> QED
  BY <1>6, <1>7, <1>9, <1>10, <1>11, MoveKeeps


\* load_or_create_identity: what is written and what is loaded was generated here.
LEMMA LoadsIdentityKeeps ==
  ASSUME NodeInv, IdInv', NEW p \in Process, LoadsIdentity(p)
  PROVE  NodeInv'
<1> DEFINE busy == {"reading", "creating", "writing", "syncing", "loaded", "failed"}
           own == {"writing", "syncing", "loaded"}
<1>1. /\ IdTypeOK /\ ProcessOK(p) /\ At(p, "identity") /\ UNCHANGED nodeVars
      /\ load \in [Process -> LoadState] /\ file \in [Path -> Key \cup {Absent, Torn}]
      /\ \A f \in Path : file[f] \in Own \cup {Absent, Torn}
  BY NodeInvParts DEF LoadsIdentity, IdInv, IdTypeOK
<1>2. ASSUME NEW s \in busy, Continue(p, s), load[p].stage # "idle",
             s \in own => load[p].stage \in own
      PROVE  /\ \A q \in Process \ {p} : load'[q] = load[q]
             /\ load'[p].stage \in busy
             /\ load'[p].stage \in own => load'[p].key \in Own
  <2>1. /\ load'[p].stage = s /\ load'[p].key = load[p].key
        /\ \A q \in Process : q # p => load'[q] = load[q]
    BY <1>1, <1>2, ContinueTyped
  <2> QED
    BY <1>1, <1>2, <2>1 DEF ProcessOK
<1>3. ASSUME NEW k \in Own, NEW s \in {"writing", "loaded"}, load[p].stage # "idle",
             load' = [load EXCEPT ![p].stage = s, ![p].key = k]
      PROVE  /\ \A q \in Process \ {p} : load'[q] = load[q]
             /\ load'[p].stage \in busy
             /\ load'[p].stage \in own => load'[p].key \in Own
  <2>1. load[p] \in Loaded
    BY <1>1, <1>3, LoadingTyped
  <2>2. load' = [load EXCEPT ![p] = [load[p] EXCEPT !.stage = s, !.key = k]]
    BY <1>3
  <2>3. /\ load'[p] = [load[p] EXCEPT !.stage = s, !.key = k]
        /\ \A q \in Process \ {p} : load'[q] = load[q]
    BY <1>1, <2>2
  <2>4. load'[p].stage = s /\ load'[p].key = k
    BY <2>1, <2>3 DEF Loaded
  <2> QED
    BY <2>3, <2>4
<1>4. /\ \A q \in Process \ {p} : load'[q] = load[q]
      /\ load'[p].stage \in busy
      /\ load'[p].stage \in own => load'[p].key \in Own
      /\ \A f \in Path : file'[f] \in Own \cup {Absent, Torn}
  <2>1. CASE ReadKey(p)
    <3>1. load[p] \in Loaded
      BY <1>1, <2>1, LoadingTyped DEF ReadKey, Loading
    <3>2. file[PathOf(p)] \in Own
      BY <1>1, <2>1, <3>1, IdentityAssumption DEF ReadKey, Loaded, PathOf
    <3> QED
      BY <1>1, <1>3, <2>1, <3>2 DEF ReadKey, Loading
  <2>2. CASE ReadFails(p) \/ ReadAbsent(p) \/ CreateFails(p) \/ WriteFails(p)
    BY <1>1, <1>2, <2>2 DEF ReadFails, ReadAbsent, CreateFails, WriteFails, Fails, Loading
  <2>3. CASE WriteAll(p)
    <3>1. load[p].stage = "writing" /\ load[p].key \in Own
      BY <1>1, <2>3 DEF WriteAll, Loading, ProcessOK
    <3>2. \A f \in Path : file'[f] \in Own \cup {Absent, Torn}
      BY <1>1, <2>3, <3>1 DEF WriteAll
    <3> QED
      BY <1>2, <2>3, <3>1, <3>2 DEF WriteAll
  <2>4. CASE SyncAll(p)
    BY <1>1, <1>2, <2>4 DEF SyncAll, Loading
  <2>5. ASSUME NEW k \in Fresh(PathOf(p), KeysInUse), CreateNew(p, k)
        PROVE  <1>4!:
    <3>1. PathOf(p) \in Path /\ KeysInUse \in SUBSET Key
      BY <1>1, <2>5, LoadingTyped DEF CreateNew, Loading, PathOf, Loaded, KeysInUse
    <3>2. k \in Own
      BY <3>1 DEF Own
    <3>3. \A f \in Path : file'[f] \in Own \cup {Absent, Torn}
      BY <1>1, <2>5 DEF CreateNew
    <3> QED
      BY <1>3, <2>5, <3>2, <3>3 DEF CreateNew, Loading
  <2> QED
    BY <2>1, <2>2, <2>3, <2>4, <2>5 DEF LoadsIdentity, LoadStep
<1>5. load'[p] # NotLoading
  BY <1>4 DEF NotLoading
<1>6. \A q \in Process \ {p} : Stays(q)
  BY <1>1, <1>4 DEF Stays, nodeVars
<1>7. ProcessOK(p)'
  <2>1. stage'[p] = "identity" /\ cli'[p] = cli[p] /\ cli[p] # NoCli
    BY <1>1 DEF nodeVars, At, ProcessOK
  <2> QED
    BY <1>1, <1>4, <1>5, <2>1 DEF ProcessOK, At, Started
<1>8. due' \subseteq {q \in Process : Running(q)' /\ cli'[q].seed}
  BY <1>1, NodeInvParts DEF nodeVars, Running
<1>9. /\ stage' \in [Process -> Stages] /\ DOMAIN cli' = Process /\ DOMAIN candidates' = Process
      /\ links' \subseteq Pairs /\ ChainFits'
  BY <1>1, NodeInvParts DEF nodeVars, ChainFits
<1> QED
  BY <1>4, <1>6, <1>7, <1>8, <1>9, MoveKeeps


\* A process that has passed its checks goes on to another stage of its life.
LEMMA TurnKeeps ==
  ASSUME NodeInv, NEW p \in Process, NEW s \in {"starting", "isolated", "dialing", "promoting"},
         Goto(p, s), UNCHANGED <<idVars, cli>>, ~At(p, "down"),
         Loading(p, "loaded") /\ Checks(cli[p], KeyOf(p)),
         DOMAIN candidates' = Process, links' \subseteq Pairs, ChainFits',
         due' \subseteq due \cup {p}, p \in due' => s # "starting" /\ cli[p].seed
  PROVE  NodeInv'
<1>1. IdInv'
  BY IdInvInductive, NodeInvParts
<1>2. stage \in [Process -> Stages] /\ stage' = [stage EXCEPT ![p] = s]
  BY NodeInvParts DEF Goto
<1>3. file' = file /\ load' = load /\ cli' = cli
  BY DEF idVars
<1>4. stage' \in [Process -> Stages] /\ stage'[p] = s
  BY <1>2 DEF Stages
<1>5. \A q \in Process \ {p} : Stays(q)
  BY <1>2, <1>3 DEF Stays
<1>6. ProcessOK(p)'
  <2>1. ProcessOK(p) /\ cli[p] # NoCli /\ load[p] # NotLoading
    BY NodeInvParts DEF ProcessOK
  <2> QED
    BY <1>3, <1>4, <2>1 DEF ProcessOK, At, Started, Loading, KeyOf
<1>7. due' \subseteq {q \in Process : Running(q)' /\ cli'[q].seed}
  <2>1. ASSUME NEW q \in due' PROVE q \in Process /\ Running(q)' /\ cli'[q].seed
    <3>1. CASE q = p
      BY <3>1, <1>3, <1>4 DEF Running
    <3>2. CASE q # p
      <4>1. q \in Process /\ Running(q) /\ cli[q].seed
        BY <3>2, NodeInvParts
      <4> QED
        BY <4>1, <3>2, <1>2, <1>3 DEF Running
    <3> QED
      BY <3>1, <3>2
  <2> QED
    BY <2>1
<1>8. DOMAIN cli' = Process /\ \A f \in Path : file'[f] \in Own \cup {Absent, Torn}
  BY <1>3, NodeInvParts
<1> QED
  BY <1>1, <1>4, <1>5, <1>6, <1>7, <1>8, MoveKeeps

\* Whoever is started has its command line and its key checked.
LEMMA StartedChecked ==
  ASSUME NodeInv, NEW p \in Process, Started(p)
  PROVE  ~At(p, "down") /\ Loading(p, "loaded") /\ Checks(cli[p], KeyOf(p))
BY NodeInvParts DEF ProcessOK, Started, At

LEMMA CheckedKeeps ==
  ASSUME NodeInv, NEW p \in Process, Checked(p)
  PROVE  NodeInv'
<1>1. /\ Goto(p, "starting") /\ UNCHANGED <<idVars, cli>> /\ ~At(p, "down")
      /\ Loading(p, "loaded") /\ Checks(cli[p], KeyOf(p))
      /\ candidates' = candidates /\ links' = links /\ chain' = chain /\ due' = due
  BY DEF Checked, At
<1>2. p \notin due
  BY NodeInvParts DEF Running, Checked, At
<1>3. DOMAIN candidates' = Process /\ links' \subseteq Pairs /\ ChainFits'
  BY <1>1, NodeInvParts DEF ChainFits
<1> QED
  BY <1>1, <1>2, <1>3, TurnKeeps

LEMMA ServesKeeps ==
  ASSUME NodeInv, NEW p \in Process, Serves(p)
  PROVE  NodeInv'
<1>1. Loading(p, "loaded") /\ Checks(cli[p], KeyOf(p)) /\ ~At(p, "down")
  BY StartedChecked DEF Serves, At, Started
<1>2. p \notin due
  BY NodeInvParts DEF Running, Serves, At
<1>3. /\ Goto(p, "isolated") /\ UNCHANGED <<idVars, cli>>
      /\ candidates' = candidates /\ links' = links /\ chain' = chain
      /\ due' \subseteq due \cup {p} /\ (p \in due' => cli[p].seed)
  BY <1>2 DEF Serves
<1>4. DOMAIN candidates' = Process /\ links' \subseteq Pairs /\ ChainFits'
  BY <1>3, NodeInvParts DEF ChainFits
<1> QED
  BY <1>1, <1>3, <1>4, TurnKeeps

\* The turns of the supervisor that publish nothing.
LEMMA QuietTurnKeeps ==
  ASSUME NodeInv, NEW p \in Process, Running(p),
         NEW s \in {"isolated", "dialing", "promoting"}, Goto(p, s),
         UNCHANGED <<idVars, cli, chain>>, due' = due,
         DOMAIN candidates' = Process, links' \subseteq Pairs
  PROVE  NodeInv'
<1>1. Loading(p, "loaded") /\ Checks(cli[p], KeyOf(p)) /\ ~At(p, "down")
  BY StartedChecked DEF Running, Started
<1>2. ChainFits' /\ (p \in due' => cli[p].seed)
  BY NodeInvParts DEF ChainFits
<1> QED
  BY <1>1, <1>2, TurnKeeps

LEMMA ScanKeeps ==
  ASSUME NodeInv, NEW p \in Process, NEW found, Scan(p, found)
  PROVE  NodeInv'
<1>1. DOMAIN candidates' = Process /\ links' \subseteq Pairs
  BY NodeInvParts DEF Scan
<1>2. Running(p) /\ Goto(p, "dialing") /\ UNCHANGED <<idVars, cli, chain>> /\ due' = due
  BY DEF Scan, Running, At
<1> QED
  BY <1>1, <1>2, QuietTurnKeeps

LEMMA DialKeeps ==
  ASSUME NodeInv, NEW p \in Process, NEW q \in Process, DialSucceeds(p, q)
  PROVE  NodeInv'
<1>1. DOMAIN candidates' = Process
  BY NodeInvParts DEF DialSucceeds
<1>2. links' \subseteq Pairs
  <2>1. {p, q} \in Pairs
    BY DEF Pairs
  <2>2. links' = links \cup {{p, q}} /\ links \subseteq Pairs
    BY NodeInvParts DEF DialSucceeds
  <2> HIDE DEF Pairs
  <2> QED
    BY <2>1, <2>2
<1>3. Running(p) /\ Goto(p, "isolated") /\ UNCHANGED <<idVars, cli, chain>> /\ due' = due
  BY DEF DialSucceeds, Running, At
<1> QED
  BY <1>1, <1>2, <1>3, QuietTurnKeeps

LEMMA UnansweredKeeps ==
  ASSUME NodeInv, NEW p \in Process, NobodyAnswers(p) \/ AnnounceFails(p)
  PROVE  NodeInv'
<1>1. DOMAIN candidates' = Process /\ links' \subseteq Pairs
  BY NodeInvParts DEF NobodyAnswers, AnnounceFails
<1>2. PICK s \in {"isolated", "promoting"} : Goto(p, s)
  BY DEF NobodyAnswers, AnnounceFails
<1>3. Running(p) /\ UNCHANGED <<idVars, cli, chain>> /\ due' = due
  BY DEF NobodyAnswers, AnnounceFails, Running, At
<1> QED
  BY <1>1, <1>2, <1>3, QuietTurnKeeps

\* What announce publishes is an envelope that fits.
LEMMA AnnounceKeeps ==
  ASSUME NodeInv, NEW p \in Process, Announce(p)
  PROVE  NodeInv'
<1> DEFINE a == Announcement(p)
<1>1. Started(p) /\ CanAnnounce(p)
  BY DEF Announce, Started, At
<1>2. Loading(p, "loaded") /\ Checks(cli[p], KeyOf(p)) /\ ~At(p, "down")
  BY <1>1, StartedChecked
<1>3. cli[p] \in Options(p)
  BY <1>2, NodeInvParts DEF ProcessOK
<1>4. /\ ~IsEnr(a.record) /\ IsSeq(a.record.payload.addresses) /\ a.record.size <= MaxParts
  BY <1>1, <1>3, OptionsAssumption DEF Announcement, SignPeerRecord, Envelope, IsEnr, CanAnnounce, CanSign
<1>5. chain' = chain \cup {a}
  BY DEF Announce
<1> HIDE DEF a
<1>6. ChainFits'
  BY <1>4, <1>5, NodeInvParts DEF ChainFits
<1>7. /\ Goto(p, "isolated") /\ UNCHANGED <<idVars, cli>>
      /\ candidates' = candidates /\ links' = links /\ due' = due \ {p}
  BY DEF Announce
<1>8. DOMAIN candidates' = Process /\ links' \subseteq Pairs
  BY <1>7, NodeInvParts
<1> QED
  BY <1>2, <1>6, <1>7, <1>8, TurnKeeps

\* Time and the surroundings move no process.
LEMMA SurroundingsKeep ==
  ASSUME NodeInv, UNCHANGED <<idVars, stage, cli, candidates>>,
         due' \subseteq {p \in Process : Running(p) /\ cli[p].seed},
         links' \subseteq links, ChainFits'
  PROVE  NodeInv'
<1>1. IdInv'
  BY IdInvInductive, NodeInvParts
<1>2. \A p \in Process : ProcessOK(p)'
  BY NodeInvParts, StaysOK DEF Stays, idVars
<1>3. /\ stage' \in [Process -> Stages] /\ DOMAIN cli' = Process /\ DOMAIN candidates' = Process
      /\ \A f \in Path : file'[f] \in Own \cup {Absent, Torn}
  BY NodeInvParts DEF idVars
<1>4. links' \subseteq Pairs
  BY NodeInvParts
<1>5. due' \subseteq {p \in Process : Running(p)' /\ cli'[p].seed}
  BY DEF Running
<1> QED
  BY <1>1, <1>2, <1>3, <1>4, <1>5, NodeInvFromParts


\* Every step keeps the invariant.
LEMMA NodeInvInductive ==
  ASSUME NodeInv, [Next]_vars
  PROVE  NodeInv'
<1>1. IdInv'
  BY IdInvKept, NodeInvParts
<1>2. ASSUME NEW p \in Process, StartStep(p)
      PROVE  NodeInv'
  BY <1>1, <1>2, LoadsIdentityKeeps, CheckedKeeps, ServesKeeps, EndsKeeps
     DEF StartStep, StartRefused, ResourceFails
<1>3. ASSUME NEW p \in Process, TurnStep(p)
      PROVE  NodeInv'
  BY <1>3, ScanKeeps, UnansweredKeeps, AnnounceKeeps DEF TurnStep, ScanFinds, ScanFails
<1>4. ASSUME NEW p \in Process, Crash(p) \/ BecomesDue(p)
      PROVE  NodeInv'
  <2>1. CASE Crash(p)
    BY <1>1, <2>1, EndsKeeps DEF Crash
  <2>2. CASE BecomesDue(p)
    <3>1. due' \subseteq {q \in Process : Running(q) /\ cli[q].seed}
      BY <2>2, NodeInvParts DEF BecomesDue
    <3>2. UNCHANGED <<idVars, stage, cli, candidates>> /\ links' \subseteq links /\ ChainFits'
      BY <2>2, NodeInvParts DEF BecomesDue, ChainFits
    <3> QED
      BY <3>1, <3>2, SurroundingsKeep
  <2> QED
    BY <1>4, <2>1, <2>2
<1>5. ASSUME NEW a \in chain, Expires(a)
      PROVE  NodeInv'
  <2>1. ChainFits'
    BY <1>5, NodeInvParts DEF Expires, ChainFits
  <2>2. UNCHANGED <<idVars, stage, cli, candidates>> /\ links' \subseteq links /\ due' = due
    BY <1>5 DEF Expires
  <2> QED
    BY <2>1, <2>2, NodeInvParts, SurroundingsKeep
<1>6. ASSUME NEW l \in links, Disconnects(l)
      PROVE  NodeInv'
  <2>1. /\ UNCHANGED <<idVars, stage, cli, candidates>> /\ links' \subseteq links /\ due' = due
        /\ ChainFits'
    BY <1>6, NodeInvParts DEF Disconnects, ChainFits
  <2> QED
    BY <2>1, NodeInvParts, SurroundingsKeep
<1>7. CASE UNCHANGED vars
  BY <1>7, NodeInvParts, SurroundingsKeep DEF vars, nodeVars, ChainFits
<1>8. CASE Next
  <2>1. CASE \E p \in Process : Launch(p) \/ StartStep(p) \/ TurnStep(p) \/ Stops(p)
    BY <2>1, <1>1, <1>2, <1>3, LaunchKeeps, EndsKeeps DEF Stops
  <2>2. CASE \E p, q \in Process : DialSucceeds(p, q)
    BY <2>2, DialKeeps
  <2>3. CASE \E f \in Outages : LosesPower(f)
    BY <2>3, <1>1, OutagesAssumption, LosesPowerKeeps
  <2> QED
    BY <1>4, <1>5, <1>6, <1>8, <2>1, <2>2, <2>3 DEF Next
<1> QED
  BY <1>7, <1>8

LEMMA NodeInvInit == Init => NodeInv
<1> SUFFICES ASSUME Init PROVE NodeInv
  OBVIOUS
<1>1. IdInv
  BY IdInvInit DEF Init
<1>2. TypeOK
  BY <1>1 DEF Init, IdInit, IdInv, TypeOK, At
<1>3. StartsChecked
  BY DEF Init, StartsChecked, At, Started
<1>4. KeysOwn
  BY DEF Init, IdInit, KeysOwn, NotLoading
<1>5. ChainFits
  BY DEF Init, ChainFits
<1> QED
  BY <1>1, <1>2, <1>3, <1>4, <1>5 DEF NodeInv

-------------------------------------------------------------------------------
(***************************************************************************)
(* What follows                                                            *)
(***************************************************************************)

\* The invariant holds throughout: what a start has checked stays as it was
\* checked, its keys are generated here and its announcements fit (main.rs:
\* 158-195, identity.rs:13-48, signed_peer_record.rs:155-195).
THEOREM NodeInvariant == Spec => []NodeInv
BY NodeInvInit, NodeInvInductive, PTL DEF Spec

\* The types of the processes' state: what is down holds nothing, and only a
\* running seed is due (main.rs:158-312).
THEOREM NodeTypeOK == Spec => []TypeOK
<1>1. NodeInv => TypeOK
  BY DEF NodeInv
<1> QED
  BY <1>1, NodeInvariant, PTL

\* The descriptor a process runs with is one that load_descriptor lets through.
LEMMA RunningDescriptor ==
  ASSUME NodeInv, NEW p \in Process, Running(p)
  PROVE  /\ cli[p] \in Options(p) /\ Checks(cli[p], KeyOf(p)) /\ load[p].key \in Own
         /\ ValidPolicy(cli[p], DescriptorOf(p).maxTtl)
         /\ DescriptorOf(p).maxTtl = MaxTtl
<1>1. /\ cli[p] \in Options(p) /\ Configures(cli[p]) /\ Checks(cli[p], KeyOf(p))
      /\ load[p].key \in Own
  BY NodeInvParts DEF ProcessOK, Running, Started, At, Loading
<1>2. \A d \in LoadDescriptor(cli[p]) : d.maxTtl = MaxTtl
  BY DEF LoadDescriptor, ValidDescriptor, Mainnet
<1>3. PICK d \in LoadDescriptor(cli[p]) : ValidPolicy(cli[p], d.maxTtl)
  BY <1>1 DEF Configures
<1>4. DescriptorOf(p) \in LoadDescriptor(cli[p])
  BY <1>3 DEF DescriptorOf
<1>5. DescriptorOf(p).maxTtl = MaxTtl /\ d.maxTtl = MaxTtl
  BY <1>2, <1>4
<1> QED
  BY <1>1, <1>3, <1>5

\* The endpoints of an ENR are a list.
LEMMA EnrEndpointsSeq ==
  ASSUME NEW enr
  PROVE  \E n \in Nat : DOMAIN EnrEndpoints(enr) = 1..n
<1> DEFINE ip(v) == IF v = 4 THEN [proto |-> "ip4", octets |-> enr.ip4]
                             ELSE [proto |-> "ip6", segments |-> enr.ip6]
           has(v) == (IF v = 4 THEN "ip4" ELSE "ip6") \in DOMAIN enr
           address(transport, v) == <<ip(v), [proto |-> transport]>>
           endpoint(transport, v) ==
             IF has(v) /\ <<transport, v>> \in enr.ports THEN <<address(transport, v)>> ELSE <<>>
           S == {address("tcp", 4), address("tcp", 6), address("udp", 4), address("udp", 6)}
           a == endpoint("tcp", 4)
           b == endpoint("tcp", 6)
           c == endpoint("udp", 4)
           d == endpoint("udp", 6)
<1>1. EnrEndpoints(enr) = a \o b \o c \o d
  BY DEF EnrEndpoints
<1>2. /\ address("tcp", 4) \in S /\ address("tcp", 6) \in S
      /\ address("udp", 4) \in S /\ address("udp", 6) \in S
  OBVIOUS
<1> HIDE DEF address, S, has
<1>3. a \in Seq(S) /\ b \in Seq(S) /\ c \in Seq(S) /\ d \in Seq(S)
  BY <1>2
<1> HIDE DEF a, b, c, d
<1>4. a \o b \o c \o d \in Seq(S)
  BY <1>3
<1> QED
  BY <1>1, <1>4, LenProperties

\* What the two codecs accept is not empty, was kept from the record's own
\* addresses and satisfies the policy.
LEMMA EnvelopeSound ==
  ASSUME NEW allow, NEW envelope, NEW context, IsSeq(envelope.payload.addresses),
         NEW c \in DecodeEnvelope(allow, envelope, context)
  PROVE  /\ c.endpoints # <<>> /\ c.type = LIBP2P
         /\ c.peer = envelope.signature.by
         /\ \A e \in ToSet(c.endpoints) :
              /\ e \in ToSet(envelope.signature.input[3].addresses)
              /\ Accepts(allow, e, {envelope.key}, context)
<1> DEFINE addresses == envelope.payload.addresses
           chosen == {i \in DOMAIN addresses :
                        /\ Parses(addresses[i])
                        /\ Accepts(allow, addresses[i], {envelope.key}, context)}
<1>1. /\ c = [type |-> LIBP2P, peer |-> envelope.key,
              endpoints |-> Usable(allow, envelope, context)]
      /\ Usable(allow, envelope, context) # <<>>
      /\ envelope.signature =
           [by |-> envelope.key, input |-> SigningInput(envelope.type, envelope.payload)]
  BY DEF DecodeEnvelope
<1>2. c.endpoints = Kept(addresses, chosen)
  BY <1>1 DEF Usable
<1>3. envelope.signature.by = envelope.key /\ envelope.signature.input[3] = envelope.payload
  BY <1>1 DEF SigningInput
<1>4. \E n \in Nat : DOMAIN addresses = 1..n
  <2>1. addresses \in Seq(ToSet(addresses))
    BY DEF IsSeq
  <2> QED
    BY <2>1, LenProperties
<1>5. \A e \in ToSet(Kept(addresses, chosen)) : \E i \in chosen : e = addresses[i]
  BY <1>4, KeptFrom, Zenon
<1>6. ASSUME NEW e \in ToSet(c.endpoints)
      PROVE  e \in ToSet(addresses) /\ Accepts(allow, e, {envelope.key}, context)
  <2>1. PICK i \in chosen : e = addresses[i]
    BY <1>2, <1>5
  <2> QED
    BY <2>1 DEF ToSet
<1> QED
  BY <1>1, <1>3, <1>6

LEMMA EnrSound ==
  ASSUME NEW allow, NEW enr, NEW context, NEW c \in DecodeEnr(allow, enr, context)
  PROVE  /\ c.endpoints # <<>> /\ c.type = ENR
         /\ \A e \in ToSet(c.endpoints) : Accepts(allow, e, {}, context)
<1> DEFINE addresses == EnrEndpoints(enr)
           chosen == {i \in DOMAIN addresses : Accepts(allow, addresses[i], {}, context)}
<1>1. /\ c = [type |-> ENR, peer |-> enr.node, endpoints |-> Kept(addresses, chosen)]
      /\ Kept(addresses, chosen) # <<>>
  BY DEF DecodeEnr
<1>2. \A e \in ToSet(Kept(addresses, chosen)) : \E i \in chosen : e = addresses[i]
  BY EnrEndpointsSeq, KeptFrom, Zenon
<1>3. ASSUME NEW e \in ToSet(c.endpoints) PROVE Accepts(allow, e, {}, context)
  <2>1. PICK i \in chosen : e = addresses[i]
    BY <1>1, <1>2
  <2> QED
    BY <2>1
<1> QED
  BY <1>1, <1>3

\* Whatever anybody publishes, a reader accepts an envelope only for the key
\* that signed it, with endpoints that key signed, and by default no endpoint
\* that hides a private address (signed_peer_record.rs:78-141, enr_codec.rs,
\* endpoint_policy.rs:25-113, validation.rs).
THEOREM NodeAcceptedSound == Spec => []AcceptedSound
<1>1. ASSUME NodeInv, NEW p \in Process, NEW a \in chain, NEW context \in DialContext, Running(p),
             NEW c \in Validate(a, DescriptorOf(p), cli[p].allowPrivate, context)
      PROVE  /\ c.endpoints # <<>>
             /\ c.type = LIBP2P =>
                  /\ c.peer = a.record.signature.by
                  /\ ToSet(c.endpoints) \subseteq ToSet(a.record.signature.input[3].addresses)
             /\ ~cli[p].allowPrivate =>
                  \A e \in ToSet(c.endpoints) : \A part \in ToSet(e) : \A o \in Ip4Of(part) :
                    ~Unspecified4(o) /\ ~Loopback4(o) /\ ~Private4(o)
  <2> DEFINE allow == cli[p].allowPrivate
  <2>1. CASE a.type = ENR
    <3>1. c \in DecodeEnr(allow, a.record, context)
      BY <1>1, <2>1 DEF Validate
    <3>2. /\ c.endpoints # <<>> /\ c.type = ENR
          /\ \A e \in ToSet(c.endpoints) : Accepts(allow, e, {}, context)
      BY <3>1, EnrSound
    <3>3. c.type # LIBP2P
      BY <3>2 DEF ENR, LIBP2P
    <3> QED
      BY <3>2, <3>3, AcceptedIsPublic
  <2>2. CASE a.type # ENR
    <3>1. c \in DecodeEnvelope(allow, a.record, context) /\ ~IsEnr(a.record)
      BY <1>1, <2>2 DEF Validate
    <3>2. IsSeq(a.record.payload.addresses)
      BY <1>1, <3>1, ForeignAssumption, NodeInvParts DEF ChainFits
    <3> HIDE DEF allow
    <3>3. /\ c.endpoints # <<>> /\ c.type = LIBP2P
          /\ c.peer = a.record.signature.by
          /\ \A e \in ToSet(c.endpoints) :
               /\ e \in ToSet(a.record.signature.input[3].addresses)
               /\ Accepts(allow, e, {a.record.key}, context)
      BY <3>1, <3>2, EnvelopeSound
    <3> QED
      BY <3>3, AcceptedIsPublic DEF allow
  <2> QED
    BY <2>1, <2>2
<1>2. NodeInv => AcceptedSound
  BY <1>1 DEF AcceptedSound
<1> QED
  BY <1>2, NodeInvariant, PTL

\* An announcement of a running process is not one of the others: nobody else
\* has its key.
LEMMA AnnouncementOwn ==
  ASSUME NodeInv, NEW p \in Process, Running(p)
  PROVE  Announcement(p) \notin Foreign
<1> DEFINE a == Announcement(p)
<1>1. ~IsEnr(a.record) /\ a.record.signature.by = load[p].key
  BY DEF Announcement, SignPeerRecord, Envelope, IsEnr, KeyOf
<1>2. load[p].key \in Own
  BY RunningDescriptor
<1> HIDE DEF a
<1>3. PICK f \in Path, used \in SUBSET Key : load[p].key \in Fresh(f, used)
  BY <1>2 DEF Own
<1>4. SUFFICES ASSUME a \in Foreign PROVE FALSE
  BY DEF a
<1> QED
  BY <1>1, <1>3, <1>4, KeysAssumption

\* What the start's policy check let through, a reader's does that applies the
\* same policy or the one for private overlays.
LEMMA ReaderAccepts ==
  ASSUME NEW allow \in BOOLEAN, NEW reader \in BOOLEAN, allow => reader,
         NEW address, NEW expected, NEW context, Accepts(allow, address, expected, context)
  PROVE  Accepts(reader, address, expected, context)
<1>1. CASE reader = allow
  BY <1>1
<1>2. CASE reader = TRUE /\ allow = FALSE
  BY <1>2, PolicyMonotone
<1> QED
  BY <1>1, <1>2

\* A reader keeps every endpoint of an envelope that its signer checked.
LEMMA SignedIsRead ==
  ASSUME NEW key, NEW addresses, NEW reader,
         IsSeq(addresses), addresses # <<>>,
         Len(addresses) <= MaxEndpoints, Size(addresses) <= MaxParts,
         \A i \in DOMAIN addresses :
           Parses(addresses[i]) /\ Accepts(reader, addresses[i], {key}, "NativeServer")
  PROVE  DecodeEnvelope(reader, SignPeerRecord(key, addresses), "NativeServer") =
           {[type |-> LIBP2P, peer |-> key, endpoints |-> addresses]}
<1> DEFINE envelope == SignPeerRecord(key, addresses)
<1>1. /\ envelope.key = key /\ envelope.type = PeerRecordType
      /\ envelope.payload = [peer |-> key, addresses |-> addresses]
      /\ envelope.size = Size(addresses)
      /\ envelope.signature =
           [by |-> key, input |-> SigningInput(PeerRecordType, envelope.payload)]
  BY DEF SignPeerRecord, Envelope
<1>2. envelope.payload.peer = key /\ envelope.payload.addresses = addresses
  BY <1>1
<1> HIDE DEF envelope
<1>3. {i \in DOMAIN addresses :
         Parses(addresses[i]) /\ Accepts(reader, addresses[i], {key}, "NativeServer")}
        = DOMAIN addresses
  OBVIOUS
<1>4. Kept(addresses, DOMAIN addresses) = addresses
  BY KeptAll DEF IsSeq
<1>5. Usable(reader, envelope, "NativeServer") = addresses
  BY <1>1, <1>2, <1>3, <1>4, Zenon DEF Usable
<1>6. DecodeEnvelope(reader, envelope, "NativeServer") =
        {[type |-> LIBP2P, peer |-> key, endpoints |-> addresses]}
  BY <1>1, <1>2, <1>5 DEF DecodeEnvelope
<1> QED
  BY <1>6 DEF envelope

\* Every reader of the namespace accepts what a seed has announced, with all
\* its endpoints, for every command line of the two that the start lets
\* through (main.rs:188-195, signed_peer_record.rs:78-141, endpoint_policy.rs:
\* 25-81, validation.rs).
THEOREM NodeAnnouncedAccepted == Spec => []AnnouncedAccepted
<1>1. ASSUME NodeInv, NEW p \in Process, NEW q \in Process, Running(p), cli[p].seed, Running(q),
             Announcement(p) \in chain,
             DescriptorOf(q).namespace = DescriptorOf(p).namespace,
             LIBP2P \in ToSet(DescriptorOf(q).types),
             ~(cli[p].allowPrivate /\ ~cli[q].allowPrivate)
      PROVE  Verdict(q, Announcement(p)) =
               {[type |-> LIBP2P, peer |-> KeyOf(p), endpoints |-> cli[p].advertise]}
  <2> DEFINE a == Announcement(p)
             adv == cli[p].advertise
             reader == cli[q].allowPrivate
             key == KeyOf(p)
             candidate == [type |-> LIBP2P, peer |-> key, endpoints |-> adv]
  <2>1. /\ cli[p] \in Options(p) /\ cli[q] \in Options(q) /\ Checks(cli[p], key)
    BY <1>1, RunningDescriptor
  <2>2. /\ IsSeq(adv) /\ cli[p].allowPrivate \in BOOLEAN /\ reader \in BOOLEAN
    BY <2>1, OptionsAssumption
  <2>3. /\ adv # <<>> /\ Len(adv) <= MaxEndpoints
        /\ \A i \in DOMAIN adv :
             Parses(adv[i]) /\ Accepts(cli[p].allowPrivate, adv[i], {key}, "NativeServer")
    BY <1>1, <2>1 DEF Checks, Advertises
  <2>4. \A i \in DOMAIN adv : Parses(adv[i]) /\ Accepts(reader, adv[i], {key}, "NativeServer")
    BY <1>1, <2>2, <2>3, ReaderAccepts
  <2>5. /\ a.record = SignPeerRecord(key, adv) /\ a.type = LIBP2P
        /\ a.namespace = DescriptorOf(p).namespace
        /\ ~IsEnr(a.record) /\ a.record.size = Size(adv)
    BY DEF Announcement, SignPeerRecord, Envelope, IsEnr
  <2>6. Size(adv) <= MaxParts
    <3>1. a \in chain \ Foreign
      BY <1>1, AnnouncementOwn
    <3>2. a.record.size <= MaxParts
      BY <1>1, <3>1, NodeInvParts DEF ChainFits
    <3> QED
      BY <2>5, <3>2
  <2> HIDE DEF a, adv, reader, key
  <2>7. DecodeEnvelope(reader, a.record, "NativeServer") = {candidate}
    BY <2>2, <2>3, <2>4, <2>5, <2>6, SignedIsRead
  <2>8. Verdict(q, a) = {c \in {candidate} : Len(c.endpoints) <= MaxEndpoints}
    <3>1. a.type # ENR
      BY <2>5 DEF ENR, LIBP2P
    <3>2. IsEnr(a.record) = (a.type = ENR)
      BY <2>5, <3>1 DEF IsEnr
    <3>3. a.namespace = DescriptorOf(q).namespace /\ a.type \in ToSet(DescriptorOf(q).types)
      BY <1>1, <2>5
    <3> HIDE DEF candidate
    <3>4. Validate(a, DescriptorOf(q), reader, "NativeServer") =
            {c \in DecodeEnvelope(reader, a.record, "NativeServer") : Len(c.endpoints) <= MaxEndpoints}
      BY <3>1, <3>2, <3>3, Zenon DEF Validate
    <3> QED
      BY <2>7, <3>4, Zenon DEF Verdict, reader
  <2>9. candidate.endpoints = adv
    OBVIOUS
  <2> QED
    BY <2>3, <2>8, <2>9 DEF a, adv, key
<1>2. NodeInv => AnnouncedAccepted
  BY <1>1 DEF AnnouncedAccepted
<1> QED
  BY <1>2, NodeInvariant, PTL

===============================================================================
