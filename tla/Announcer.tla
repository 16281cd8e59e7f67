------------------------------- MODULE Announcer -------------------------------
(***************************************************************************)
(* RegistryAnnouncer (crates/resurrect-node/src/registry.rs) over the      *)
(* Ethereum provider: a seed signs a record with the next sequence number, *)
(* sends a transaction, waits for the receipt and schedules its renewal.   *)
(*                                                                         *)
(* Everything the announcer knows is in memory.  The provider can lose an  *)
(* answer after the chain accepted the transaction, and the process can    *)
(* stop anywhere; both leave announcements the announcer knows nothing of. *)
(***************************************************************************)
EXTENDS Integers, Sequences

CONSTANTS
  Ttl,              \* lifetimes the node announces with
  MaxTtl,           \* descriptor.registry.max_ttl_seconds = MAX_TTL
  RenewalInterval,  \* the configured renewal interval
  MaxJitter,        \* 24 hours
  ReceiptLag,       \* how long after inclusion a receipt may be read
  MaxTime,          \* bound of the model: the clock stops here
  MaxSigned,        \* bound of the model: records signed
  MaxRestarts       \* bound of the model: process restarts

\* validate_cli_policy rejects a zero interval and lifetimes out of range.
ASSUME PolicyAssumption ==
  /\ MaxTtl \in Nat /\ Ttl \subseteq 1..MaxTtl
  /\ RenewalInterval \in Nat \ {0}
  /\ MaxJitter \in Nat \ {0}
  /\ ReceiptLag \in Nat

ASSUME BoundAssumption == MaxTime \in Nat /\ MaxSigned \in Nat /\ MaxRestarts \in Nat

NoTransaction == [sequence |-> 0, ttl |-> 0]

VARIABLES
  now,          \* the clock, in units no longer than one announce attempt
  sequence,     \* the AtomicU64 sequence
  nextRenewal,  \* the AtomicU64 next_renewal
  step,         \* where announce is: "idle", "checking", "sending", "awaiting"
  current,      \* the record being announced
  pool,         \* transactions accepted by the provider, in nonce order
  log,          \* announcements on chain, in block order
  acked,        \* history: expiry of what the last receipt was for, 0 if it reverted
  signed,       \* number of records signed
  restarts      \* number of restarts

vars == <<now, sequence, nextRenewal, step, current, pool, log, acked, signed, restarts>>

Announcement == [sequence : Nat, minedAt : Nat, validUntil : Nat]

-------------------------------------------------------------------------------
(***************************************************************************)
(* The renewal schedule                                                    *)
(***************************************************************************)
Lesser(a, b) == IF a < b THEN a ELSE b
SaturatingSub(a, b) == IF a < b THEN 0 ELSE a - b

\* Faulty: the renewal is planned for the expiry itself.
BaseRenewalAtExpiry(ttl) == Lesser(RenewalInterval * 2, ttl)

\* Half the lifetime, at least one, at most the configured interval.
BaseRenewal(ttl) ==
  LET half == ttl \div 2 IN Lesser(RenewalInterval, IF half < 1 THEN 1 ELSE half)

JitterWindow(base, ttl) ==
  Lesser(MaxJitter,
    Lesser(SaturatingSub(base, 1), SaturatingSub(SaturatingSub(ttl, base), 1)))

\* Every value jittered_renewal can return.
JitteredRenewal(base, ttl) ==
  LET window == JitterWindow(base, ttl)
  IN  IF window = 0 THEN {base} ELSE (base - window) .. (base + window)

RenewalDue == now >= nextRenewal

-------------------------------------------------------------------------------
(***************************************************************************)
(* announce                                                                *)
(***************************************************************************)

\* A caller found the renewal due.  Lifetimes outside the registry's bounds
\* are refused here, before anything changes.
BeginAnnounce(ttl) ==
  /\ step = "idle"
  /\ RenewalDue
  /\ ttl > 0 /\ ttl <= MaxTtl
  /\ step' = "checking"
  /\ current' = [sequence |-> 0, ttl |-> ttl]
  /\ UNCHANGED <<now, sequence, nextRenewal, pool, log, acked, signed, restarts>>

\* Faulty: the early return leaves the announcer marked as failed.
CheckFailedForGood ==
  /\ step = "checking"
  /\ step' = "failed"
  /\ current' = NoTransaction
  /\ UNCHANGED <<now, sequence, nextRenewal, pool, log, acked, signed, restarts>>

\* The chain id or the registry constants cannot be read or do not match.
CheckFailed ==
  /\ step = "checking"
  /\ step' = "idle"
  /\ current' = NoTransaction
  /\ UNCHANGED <<now, sequence, nextRenewal, pool, log, acked, signed, restarts>>

\* The sequence number is taken before anything can fail, and never put back.
Sign ==
  /\ step = "checking"
  /\ signed < MaxSigned /\ now < MaxTime
  /\ step' = "sending"
  /\ current' = [current EXCEPT !.sequence = sequence]
  /\ sequence' = sequence + 1
  /\ signed' = signed + 1
  /\ now' = now + 1
  /\ UNCHANGED <<nextRenewal, pool, log, acked, restarts>>

\* send() succeeds.
Send ==
  /\ step = "sending"
  /\ step' = "awaiting"
  /\ pool' = Append(pool, current)
  /\ UNCHANGED <<now, sequence, nextRenewal, current, log, acked, signed, restarts>>

\* send() fails, and the transaction was refused or only its answer was lost.
SendFailed ==
  /\ step = "sending"
  /\ step' = "idle"
  /\ current' = NoTransaction
  /\ pool' = pool \/ pool' = Append(pool, current)
  /\ UNCHANGED <<now, sequence, nextRenewal, log, acked, signed, restarts>>

\* The renewal is scheduled from the clock as it is now.
Schedule(ttl) ==
  \E after \in JitteredRenewal(BaseRenewal(ttl), ttl) : nextRenewal' = now + after

\* get_receipt() returns the receipt of an announcement.
Receipt ==
  /\ step = "awaiting"
  /\ \E n \in DOMAIN log :
       /\ log[n].sequence = current.sequence
       /\ now <= log[n].minedAt + ReceiptLag
       /\ acked' = log[n].validUntil
  /\ Schedule(current.ttl)
  /\ step' = "idle"
  /\ current' = NoTransaction
  /\ UNCHANGED <<now, sequence, pool, log, signed, restarts>>

\* The transaction was included and reverted.  Its receipt counts like any
\* other: nobody looks at its status.
ReceiptReverted ==
  /\ step = "awaiting"
  /\ \A n \in DOMAIN pool : pool[n].sequence # current.sequence
  /\ \A n \in DOMAIN log : log[n].sequence # current.sequence
  /\ Schedule(current.ttl)
  /\ acked' = 0
  /\ step' = "idle"
  /\ current' = NoTransaction
  /\ UNCHANGED <<now, sequence, pool, log, signed, restarts>>

\* get_receipt() fails, before or after inclusion: nothing is scheduled.
ReceiptFailed ==
  /\ step = "awaiting"
  /\ step' = "idle"
  /\ current' = NoTransaction
  /\ UNCHANGED <<now, sequence, nextRenewal, pool, log, acked, signed, restarts>>

\* Faulty: a new process counts from one.
RestartFromOne ==
  /\ restarts < MaxRestarts
  /\ restarts' = restarts + 1
  /\ sequence' = 1
  /\ nextRenewal' = 0
  /\ step' = "idle"
  /\ current' = NoTransaction
  /\ acked' = 0
  /\ UNCHANGED <<now, pool, log, signed>>

\* The process stops at any point and starts again.
Restart ==
  /\ restarts < MaxRestarts
  /\ restarts' = restarts + 1
  /\ sequence' = now
  /\ nextRenewal' = 0
  /\ step' = "idle"
  /\ current' = NoTransaction
  /\ acked' = 0
  /\ UNCHANGED <<now, pool, log, signed>>

-------------------------------------------------------------------------------
(***************************************************************************)
(* The chain and the clock.  ResurrectBeaconV1.announce keeps no state and *)
(* sets validUntil from the block timestamp.                               *)
(***************************************************************************)
Mine ==
  /\ pool # <<>>
  /\ log' = Append(log, [sequence |-> Head(pool).sequence, minedAt |-> now,
                         validUntil |-> now + Head(pool).ttl])
  /\ pool' = Tail(pool)
  /\ UNCHANGED <<now, sequence, nextRenewal, step, current, acked, signed, restarts>>

\* The transaction is included and fails; it leaves no event.
Revert ==
  /\ pool # <<>>
  /\ pool' = Tail(pool)
  /\ UNCHANGED <<now, sequence, nextRenewal, step, current, log, acked, signed, restarts>>

Tick ==
  /\ now < MaxTime
  /\ now' = now + 1
  /\ UNCHANGED <<sequence, nextRenewal, step, current, pool, log, acked, signed, restarts>>

\* sequence_now() is at least one.
Init ==
  /\ now = 1
  /\ sequence = now
  /\ nextRenewal = 0
  /\ step = "idle"
  /\ current = NoTransaction
  /\ pool = <<>>
  /\ log = <<>>
  /\ acked = 0
  /\ signed = 0
  /\ restarts = 0

Next ==
  \/ \E ttl \in Ttl : BeginAnnounce(ttl)
  \/ CheckFailed
  \/ Sign
  \/ Send
  \/ SendFailed
  \/ Receipt
  \/ ReceiptReverted
  \/ ReceiptFailed
  \/ Restart
  \/ Mine
  \/ Revert
  \/ Tick

Spec == Init /\ [][Next]_vars

-------------------------------------------------------------------------------
(***************************************************************************)
(* Properties                                                              *)
(***************************************************************************)
Transaction == [sequence : Nat, ttl : Nat]

TypeOK ==
  /\ now \in Nat /\ sequence \in Nat /\ nextRenewal \in Nat /\ acked \in Nat
  /\ step \in {"idle", "checking", "sending", "awaiting"}
  /\ current \in Transaction
  /\ pool \in Seq(Transaction)
  /\ log \in Seq(Announcement)
  /\ signed \in Nat /\ restarts \in Nat

\* A later announcement of this node carries a larger sequence number, across
\* lost answers, retries and restarts, so that every reader that keeps the
\* largest sequence ends up with the latest record (fetch_add before send,
\* registry.rs:241; sequence_now at start, registry.rs:179).
SequencesIncrease ==
  \A m, n \in DOMAIN log : m < n => log[m].sequence < log[n].sequence

\* docs/spec.md:689: "Seeds SHOULD renew before expiry."  A scheduled renewal
\* falls before the expiry of the announcement it renews; a receipt of a
\* transaction that reverted schedules one as well, with nothing to renew.
RenewsBeforeExpiry == acked > 0 => nextRenewal < acked

(***************************************************************************)
(* The inductive invariant: a sequence number on its way from the counter  *)
(* to the chain stays above everything before it, and the lifetime it is   *)
(* announced with stays the one the renewal is computed from.              *)
(***************************************************************************)
Ascending(s) == \A m, n \in DOMAIN s : m < n => s[m].sequence < s[n].sequence

Below(s, bound) == \A n \in DOMAIN s : s[n].sequence < bound

CounterAhead == sequence <= now /\ Below(log, sequence) /\ Below(pool, sequence)

PoolAfterLog == Ascending(pool) /\ \A n \in DOMAIN pool : Below(log, pool[n].sequence)

RecordInFlight ==
  /\ step # "idle" => current.ttl \in Ttl
  /\ step = "sending" => /\ current.sequence < sequence
                         /\ Below(log, current.sequence)
                         /\ Below(pool, current.sequence)
  /\ step = "awaiting" =>
       /\ current.sequence < sequence
       /\ \A n \in DOMAIN pool :
            pool[n].sequence = current.sequence => pool[n].ttl = current.ttl
       /\ \A n \in DOMAIN log :
            log[n].sequence = current.sequence => log[n].validUntil = log[n].minedAt + current.ttl

AnnouncerInv == TypeOK /\ SequencesIncrease /\ CounterAhead /\ PoolAfterLog /\ RecordInFlight

\* Every lifetime outlasts the latest renewal the jitter allows, counted from
\* the slowest receipt.
LeavesRoom ==
  \A ttl \in Ttl : \A after \in JitteredRenewal(BaseRenewal(ttl), ttl) : after + ReceiptLag < ttl
===============================================================================
