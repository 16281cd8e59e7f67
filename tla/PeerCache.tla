------------------------------- MODULE PeerCache -------------------------------
(***************************************************************************)
(* SqlitePeerCache (crates/resurrect-node/src/cache.rs): what a node       *)
(* remembers of the registry across restarts.  Every scan stores its       *)
(* report in one transaction, every bootstrap cycle loads the table        *)
(* through a CandidateStore, and each start prunes it.  The file may be    *)
(* damaged while the node is down.                                         *)
(***************************************************************************)
EXTENDS CandidateStore

CONSTANTS
  LongestTtl,   \* longest lifetime of an announcement
  MaxInteger,   \* i64::MAX: SQLite integers are signed, sequences are u64
  MaxTime       \* bound of the model: the clock stops here

ASSUME CacheAssumption == LongestTtl \in Nat /\ MaxInteger \in Nat /\ MaxTime \in Nat

VARIABLES
  rows,      \* the table verified_peers of one namespace, by primary key
  now,       \* unix_time()
  stage,     \* "closed", "idle", "loading" or "loaded"
  pending,   \* rows load has read and not yet validated
  loadTime,  \* the time load compares expiries with
  failed,    \* the last load returned an error
  stored     \* history: the newest candidates committed for the peers with a row

loadVars == <<vars, pending, loadTime, failed>>
cacheVars == <<rows, now, stage, loadVars, stored>>

\* A row is sound, its record fails to decode, or one of its numbers does.
Conditions == {"sound", "tampered", "unreadable"}
Row == [candidate : Candidate, expires : Nat, condition : Conditions]

\* A candidate of a scan's report, whose head may lag behind the clock.
Observation == [candidate : Candidate, expires : now..(now + LongestTtl)]

\* One candidate for each of some identities.
Reports == UNION {[ids -> Observation] : ids \in SUBSET Identity}
IsReport(r) == \A i \in DOMAIN r : r[i].candidate.identity = i

\* The newest of a set of candidates, for the history.
Newer(c, d) == c.sequence > d.sequence \/ (c.sequence = d.sequence /\ c.block > d.block)
Newest(set) == {c \in set : \A d \in set : d.identity = c.identity => ~Newer(d, c)}
Committed(report) == Newest(stored \cup {report[i].candidate : i \in DOMAIN report})

-------------------------------------------------------------------------------
(***************************************************************************)
(* store_verified                                                          *)
(***************************************************************************)

\* to_i64
Fits(o) == o.candidate.sequence <= MaxInteger

\* Faulty: INSERT OR REPLACE.
SupersedesAlways(c, d) == TRUE

\* The WHERE clause of the upsert.
Supersedes(c, d) ==
  \/ c.sequence > d.sequence
  \/ c.sequence = d.sequence /\ c.block >= d.block

Upsert(report) ==
  [i \in DOMAIN rows \cup DOMAIN report |->
     IF i \in DOMAIN report /\ (i \in DOMAIN rows => Supersedes(report[i].candidate, rows[i].candidate))
       THEN [candidate |-> report[i].candidate, expires |-> report[i].expires, condition |-> "sound"]
       ELSE rows[i]]

\* One transaction: a number that does not fit rolls all of it back.
Store(report) ==
  /\ stage = "idle"
  /\ IF \A i \in DOMAIN report : Fits(report[i])
       THEN /\ rows' = Upsert(report)
            /\ stored' = Committed(report)
       ELSE UNCHANGED <<rows, stored>>
  /\ UNCHANGED <<now, stage, loadVars>>

-------------------------------------------------------------------------------
(***************************************************************************)
(* open and prune_expired, at every start of the node                      *)
(***************************************************************************)
Expired(row) == row.expires <= now

Open ==
  LET live == {i \in DOMAIN rows : ~Expired(rows[i])}
  IN  /\ stage = "closed"
      /\ stage' = "idle"
      /\ rows' = [i \in live |-> rows[i]]
      /\ stored' = {c \in stored : ~Expired(rows[c.identity])}
      /\ UNCHANGED <<now, loadVars>>

\* The variables of load are gone, also when the process ends during it.
ForgetLoad ==
  /\ candidates' = [i \in {} |-> i]
  /\ seen' = {}
  /\ pending' = {}
  /\ loadTime' = 0
  /\ failed' = FALSE

\* The process ends anywhere; an open transaction is rolled back.
Close ==
  /\ stage # "closed"
  /\ stage' = "closed"
  /\ ForgetLoad
  /\ UNCHANGED <<rows, now, stored>>

-------------------------------------------------------------------------------
(***************************************************************************)
(* load                                                                    *)
(***************************************************************************)
\* load_rows collects every row or the first conversion error.
LoadRows ==
  /\ stage = "idle"
  /\ failed' = \E i \in DOMAIN rows : rows[i].condition = "unreadable"
  /\ pending' = IF failed' THEN {} ELSE {rows[i] : i \in DOMAIN rows}
  /\ loadTime' = now
  /\ stage' = "loading"
  /\ UNCHANGED <<rows, now, vars, stored>>

\* ORDER BY sequence DESC, announcement_block DESC
First(row) == \A other \in pending : Supersedes(row.candidate, other.candidate)

\* validate_announcement on the row's own expiry.
RowUsable(row) == row.condition = "sound" /\ row.expires > loadTime

\* Faulty: rows are trusted, since they were verified before they were stored.
ValidateRowTrusting(row) ==
  /\ stage = "loading"
  /\ First(row)
  /\ pending' = pending \ {row}
  /\ Insert(row.candidate)
  /\ UNCHANGED <<rows, now, stage, loadTime, failed, stored>>

ValidateRow(row) ==
  /\ stage = "loading"
  /\ First(row)
  /\ pending' = pending \ {row}
  /\ IF RowUsable(row) THEN Insert(row.candidate) ELSE UNCHANGED vars
  /\ UNCHANGED <<rows, now, stage, loadTime, failed, stored>>

Loaded ==
  /\ stage = "loading"
  /\ pending = {}
  /\ stage' = "loaded"
  /\ UNCHANGED <<rows, now, loadVars, stored>>

\* discover returns and the cycle goes on.
Resume ==
  /\ stage = "loaded"
  /\ stage' = "idle"
  /\ ForgetLoad
  /\ UNCHANGED <<rows, now, stored>>

-------------------------------------------------------------------------------
\* The file is damaged while nobody has it open.
Damage(i, condition) ==
  /\ stage = "closed"
  /\ rows' = [rows EXCEPT ![i].condition = condition]
  /\ UNCHANGED <<now, stage, loadVars, stored>>

Tick ==
  /\ now < MaxTime
  /\ now' = now + 1
  /\ UNCHANGED <<rows, stage, loadVars, stored>>

CacheInit ==
  /\ Init
  /\ rows = [i \in {} |-> i]
  /\ now = 1
  /\ stage = "closed"
  /\ pending = {}
  /\ loadTime = 0
  /\ failed = FALSE
  /\ stored = {}

CacheNext ==
  \/ Open
  \/ Close
  \/ \E r \in Reports : IsReport(r) /\ Store(r)
  \/ LoadRows
  \/ \E row \in pending : ValidateRow(row)
  \/ Loaded
  \/ Resume
  \/ \E i \in DOMAIN rows, s \in Conditions : Damage(i, s)
  \/ Tick

CacheSpec == CacheInit /\ [][CacheNext]_cacheVars

-------------------------------------------------------------------------------
(***************************************************************************)
(* Properties                                                              *)
(***************************************************************************)
CacheTypeOK ==
  /\ TypeOK
  /\ DOMAIN rows \subseteq Identity
  /\ \A i \in DOMAIN rows :
       rows[i] \in Row /\ rows[i].candidate.identity = i /\ Fits(rows[i])
  /\ now \in Nat /\ loadTime \in Nat
  /\ stage \in {"closed", "idle", "loading", "loaded"}
  /\ pending \subseteq Row
  /\ failed \in BOOLEAN
  /\ stored \subseteq Candidate

\* Reports arrive out of order and restarts prune in between; a peer whose
\* row has not expired at a start keeps the newest record ever committed for
\* it (upsert, cache.rs:189-192; prune, cache.rs:244-255).
KeepsFreshest ==
  \A c \in stored :
    /\ c.identity \in DOMAIN rows
    /\ ~Newer(c, rows[c.identity].candidate)

\* The candidates of the rows that are sound and alive.
SoundRows == {rows[i].candidate : i \in {j \in DOMAIN rows : RowUsable(rows[j])}}

\* A load that succeeds returns the reference sample of the rows that still
\* validate, and no other (load, cache.rs:86-123).
LoadsSample == stage = "loaded" /\ ~failed => seen = SoundRows /\ candidates = Sample

(***************************************************************************)
(* The inductive invariant behind LoadsSample: what a load has fed to its  *)
(* store are the usable rows it has already taken.                         *)
(***************************************************************************)
Table == {rows[i] : i \in DOMAIN rows}

LoadProgress ==
  /\ stage \in {"closed", "idle"} => Init
  /\ stage \in {"loading", "loaded"} /\ ~failed =>
       /\ pending \subseteq Table
       /\ seen = {row.candidate : row \in {r \in Table \ pending : RowUsable(r)}}
  /\ stage = "loaded" => pending = {}
===============================================================================
