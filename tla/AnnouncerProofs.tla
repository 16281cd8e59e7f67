---------------------------- MODULE AnnouncerProofs ----------------------------
(***************************************************************************)
(* Proofs about RegistryAnnouncer for every set of lifetimes, renewal      *)
(* interval, jitter and receipt lag, and for any number of records,        *)
(* restarts and lost answers.                                              *)
(***************************************************************************)
EXTENDS Announcer, TLAPS

\* Appending a record with a sequence number above all others.
LEMMA AppendFacts ==
  ASSUME NEW T, NEW s \in Seq(T), NEW e \in T, NEW bound \in Nat,
         \A x \in T : x.sequence \in Nat,
         Below(s, bound), e.sequence < bound
  PROVE  /\ Append(s, e) \in Seq(T)
         /\ Below(Append(s, e), bound)
         /\ Ascending(s) /\ Below(s, e.sequence) => Ascending(Append(s, e))
  <1>1. Append(s, e) \in Seq(T) /\ DOMAIN Append(s, e) = 1..(Len(s) + 1) /\ DOMAIN s = 1..Len(s)
    OBVIOUS
  <1>2. \A n \in DOMAIN Append(s, e) :
          Append(s, e)[n] = IF n = Len(s) + 1 THEN e ELSE s[n]
    OBVIOUS
  <1>3. Below(Append(s, e), bound)
    BY <1>1, <1>2 DEF Below
  <1>4. ASSUME Ascending(s), Below(s, e.sequence)
        PROVE  Ascending(Append(s, e))
    BY <1>1, <1>2, <1>4 DEF Ascending, Below
  <1>5. QED
    BY <1>1, <1>3, <1>4

\* What is left after the head of a sequence is taken.
LEMMA TailFacts ==
  ASSUME NEW T, NEW s \in Seq(T), s # <<>>
  PROVE  /\ Tail(s) \in Seq(T) /\ Head(s) \in T /\ 1 \in DOMAIN s /\ Head(s) = s[1]
         /\ \A n \in DOMAIN Tail(s) : n + 1 \in DOMAIN s /\ Tail(s)[n] = s[n + 1] /\ n \in Nat \ {0}
  OBVIOUS

\* The records on the chain and in the pool have sequence numbers and expiries.
LEMMA ElementFacts ==
  ASSUME TypeOK
  PROVE  /\ \A n \in DOMAIN log : log[n].sequence \in Nat /\ log[n].validUntil \in Nat
         /\ \A n \in DOMAIN pool : pool[n].sequence \in Nat
  <1>1. log \in Seq(Announcement) /\ pool \in Seq(Transaction)
    BY DEF TypeOK
  <1>2. \A n \in DOMAIN log : log[n] \in Announcement
    BY <1>1
  <1>3. \A n \in DOMAIN pool : pool[n] \in Transaction
    BY <1>1
  <1>4. QED
    BY <1>2, <1>3 DEF Announcement, Transaction

LEMMA InitAnnouncerInv == Init => AnnouncerInv
  <1> SUFFICES ASSUME Init PROVE AnnouncerInv
    OBVIOUS
  <1>1. TypeOK
    BY DEF Init, TypeOK, NoTransaction, Transaction
  <1>2. SequencesIncrease /\ CounterAhead /\ PoolAfterLog /\ RecordInFlight
    BY DEF Init, SequencesIncrease, CounterAhead, PoolAfterLog, RecordInFlight, Below, Ascending
  <1>3. QED
    BY <1>1, <1>2 DEF AnnouncerInv

\* The steps of announce that leave the pool and the chain alone.
LEMMA LocalSteps ==
  ASSUME AnnouncerInv,
         \/ \E ttl \in Ttl : BeginAnnounce(ttl)
         \/ CheckFailed
         \/ Receipt
         \/ ReceiptReverted
         \/ ReceiptFailed
         \/ Restart
         \/ Tick
  PROVE  AnnouncerInv'
  <1>0. Below(log, now) /\ Below(pool, now) /\ now \in Nat
    <2>1. now \in Nat /\ sequence \in Nat /\ sequence <= now
          /\ Below(log, sequence) /\ Below(pool, sequence)
      BY DEF AnnouncerInv, TypeOK, CounterAhead
    <2>2. /\ \A n \in DOMAIN log : log[n].sequence \in Nat
          /\ \A n \in DOMAIN pool : pool[n].sequence \in Nat
      BY ElementFacts DEF AnnouncerInv
    <2>3. QED
      BY <2>1, <2>2 DEF Below
  <1> USE PolicyAssumption, BoundAssumption
      DEF AnnouncerInv, SequencesIncrease, CounterAhead, PoolAfterLog, RecordInFlight,
          Below, Ascending, TypeOK, Transaction, Announcement, NoTransaction
  <1>1. ASSUME NEW ttl \in Ttl, BeginAnnounce(ttl) PROVE AnnouncerInv'
    BY <1>1 DEF BeginAnnounce
  <1>2. CASE CheckFailed
    BY <1>2 DEF CheckFailed
  <1>3. CASE ReceiptFailed
    BY <1>3 DEF ReceiptFailed
  <1>4. CASE Restart
    BY <1>0, <1>4 DEF Restart
  <1>5. CASE Tick
    BY <1>5 DEF Tick
  <1>6. CASE Receipt \/ ReceiptReverted
    <2>1. acked' \in Nat
      <3>1. CASE Receipt
        <4>1. PICK n \in DOMAIN log : acked' = log[n].validUntil
          BY <3>1 DEF Receipt
        <4>2. QED
          BY <4>1, ElementFacts
      <3>2. CASE ReceiptReverted
        BY <3>2 DEF ReceiptReverted
      <3>3. QED
        BY <1>6, <3>1, <3>2
    <2>2. nextRenewal' \in Nat
      <3>1. PICK after \in JitteredRenewal(BaseRenewal(current.ttl), current.ttl) :
              nextRenewal' = now + after
        BY <1>6 DEF Receipt, ReceiptReverted, Schedule
      <3>2. current.ttl \in Nat
        BY <1>6 DEF Receipt, ReceiptReverted
      <3>3. after \in Nat
        BY <3>1, <3>2 DEF JitteredRenewal, JitterWindow, BaseRenewal, Lesser, SaturatingSub
      <3>4. QED
        BY <3>1, <3>3
    <2>3. /\ step' = "idle" /\ current' = NoTransaction
          /\ UNCHANGED <<now, sequence, pool, log, signed, restarts>>
      BY <1>6 DEF Receipt, ReceiptReverted
    <2>4. QED
      BY <2>1, <2>2, <2>3
  <1>7. QED
    BY <1>1, <1>2, <1>3, <1>4, <1>5, <1>6

\* The sequence number leaves the counter.
LEMMA SignStep == ASSUME AnnouncerInv, Sign PROVE AnnouncerInv'
  <1>1. /\ current \in Transaction /\ sequence \in Nat /\ now \in Nat /\ sequence <= now
        /\ current.ttl \in Ttl /\ Below(log, sequence) /\ Below(pool, sequence)
    BY DEF AnnouncerInv, TypeOK, CounterAhead, RecordInFlight, Sign
  <1>2. /\ current' = [current EXCEPT !.sequence = sequence]
        /\ sequence' = sequence + 1 /\ now' = now + 1 /\ step' = "sending"
        /\ UNCHANGED <<nextRenewal, pool, log, acked, restarts>> /\ signed' = signed + 1
    BY DEF Sign
  <1>3. current' \in Transaction /\ current'.ttl = current.ttl /\ current'.sequence = sequence
    BY <1>1, <1>2 DEF Transaction
  <1>4. TypeOK'
    BY <1>1, <1>2, <1>3 DEF AnnouncerInv, TypeOK
  <1>5. Below(log, sequence + 1) /\ Below(pool, sequence + 1)
    BY <1>1, ElementFacts DEF Below, AnnouncerInv
  <1>6. CounterAhead'
    BY <1>1, <1>2, <1>5 DEF CounterAhead, Below
  <1>7. SequencesIncrease' /\ PoolAfterLog'
    BY <1>2 DEF AnnouncerInv, SequencesIncrease, PoolAfterLog, Ascending, Below
  <1>8. RecordInFlight'
    BY <1>1, <1>2, <1>3 DEF RecordInFlight, Below
  <1>9. QED
    BY <1>4, <1>6, <1>7, <1>8 DEF AnnouncerInv

\* The record enters the pool, whether or not the caller learns of it.
LEMMA SendSteps == ASSUME AnnouncerInv, Send \/ SendFailed PROVE AnnouncerInv'
  <1> DEFINE T == Transaction
  <1>1. /\ pool \in Seq(T) /\ current \in T /\ sequence \in Nat /\ \A x \in T : x.sequence \in Nat
        /\ step = "sending"
    BY DEF AnnouncerInv, TypeOK, Transaction, Send, SendFailed
  <1>2. Below(pool, sequence) /\ Below(pool, current.sequence) /\ Below(log, current.sequence)
        /\ current.sequence < sequence /\ Ascending(pool)
    BY <1>1 DEF AnnouncerInv, CounterAhead, PoolAfterLog, RecordInFlight
  <1> HIDE DEF T
  <1>3. Append(pool, current) \in Seq(T) /\ Below(Append(pool, current), sequence)
        /\ Ascending(Append(pool, current))
    BY <1>1, <1>2, AppendFacts
  <1>4. \A n \in DOMAIN Append(pool, current) :
          Append(pool, current)[n] = current \/ (n \in DOMAIN pool /\ Append(pool, current)[n] = pool[n])
    BY <1>1
  <1>5. \A n \in DOMAIN Append(pool, current) : Below(log, Append(pool, current)[n].sequence)
    BY <1>2, <1>4 DEF AnnouncerInv, PoolAfterLog
  <1>6. CASE Send
    <2>1. TypeOK'
      BY <1>3, <1>6 DEF Send, AnnouncerInv, TypeOK, T
    <2>2. SequencesIncrease' /\ CounterAhead' /\ PoolAfterLog'
      BY <1>3, <1>5, <1>6 DEF Send, AnnouncerInv, SequencesIncrease, CounterAhead, PoolAfterLog, Below
    <2>3. RecordInFlight'
      <3>1. \A n \in DOMAIN pool : pool[n].sequence # current.sequence
        BY <1>1, <1>2 DEF Below, T, Transaction
      <3>2. \A n \in DOMAIN log : log[n].sequence # current.sequence
        BY <1>1, <1>2 DEF Below, AnnouncerInv, TypeOK, Announcement, T, Transaction
      <3>3. QED
        BY <1>1, <1>2, <1>4, <1>6, <3>1, <3>2 DEF Send, AnnouncerInv, RecordInFlight
    <2>4. QED
      BY <2>1, <2>2, <2>3 DEF AnnouncerInv
  <1>7. CASE SendFailed
    <2>1. pool' = pool \/ pool' = Append(pool, current)
      BY <1>7 DEF SendFailed
    <2>2. TypeOK'
      BY <1>3, <1>7, <2>1 DEF SendFailed, AnnouncerInv, TypeOK, T, NoTransaction, Transaction
    <2>3. SequencesIncrease' /\ CounterAhead' /\ PoolAfterLog'
      BY <1>3, <1>5, <1>7, <2>1
      DEF SendFailed, AnnouncerInv, SequencesIncrease, CounterAhead, PoolAfterLog, Below
    <2>4. RecordInFlight'
      BY <1>7 DEF SendFailed, RecordInFlight
    <2>5. QED
      BY <2>2, <2>3, <2>4 DEF AnnouncerInv
  <1>8. QED
    BY <1>6, <1>7

\* The first transaction of the pool becomes the last announcement.
LEMMA MineStep == ASSUME AnnouncerInv, Mine PROVE AnnouncerInv'
  <1> DEFINE e == [sequence |-> Head(pool).sequence, minedAt |-> now,
                   validUntil |-> now + Head(pool).ttl]
  <1>1. /\ pool \in Seq(Transaction) /\ pool # <<>> /\ log \in Seq(Announcement)
        /\ pool' = Tail(pool) /\ log' = Append(log, e)
        /\ now \in Nat /\ sequence \in Nat
    BY DEF AnnouncerInv, TypeOK, Mine
  <1>2. /\ Tail(pool) \in Seq(Transaction) /\ Head(pool) \in Transaction
        /\ 1 \in DOMAIN pool /\ Head(pool) = pool[1]
        /\ \A n \in DOMAIN Tail(pool) :
             n + 1 \in DOMAIN pool /\ Tail(pool)[n] = pool[n + 1] /\ n \in Nat \ {0}
    BY <1>1, TailFacts
  <1>3. e \in Announcement /\ e.sequence = pool[1].sequence
    BY <1>1, <1>2 DEF Announcement, Transaction
  <1>4. Below(log, sequence) /\ e.sequence < sequence /\ Ascending(log) /\ Below(log, e.sequence)
    BY <1>2, <1>3
    DEF AnnouncerInv, CounterAhead, PoolAfterLog, SequencesIncrease, Ascending, Below
  <1>5. \A x \in Announcement : x.sequence \in Nat
    BY DEF Announcement
  <1> HIDE DEF e
  <1>6. Append(log, e) \in Seq(Announcement) /\ Below(Append(log, e), sequence)
        /\ Ascending(Append(log, e))
    BY <1>1, <1>3, <1>4, <1>5, AppendFacts
  <1>7. \A n \in DOMAIN Append(log, e) :
          Append(log, e)[n] = e \/ (n \in DOMAIN log /\ Append(log, e)[n] = log[n])
    BY <1>1
  <1>8. TypeOK'
    BY <1>1, <1>2, <1>6 DEF AnnouncerInv, TypeOK, Mine
  <1>9. SequencesIncrease'
    BY <1>1, <1>6 DEF SequencesIncrease, Ascending
  <1>10. Below(Tail(pool), sequence) /\ Ascending(Tail(pool))
    BY <1>2 DEF AnnouncerInv, CounterAhead, PoolAfterLog, Below, Ascending
  <1>11. CounterAhead'
    BY <1>1, <1>6, <1>10 DEF AnnouncerInv, CounterAhead, Mine, Below
  <1>12. PoolAfterLog'
    <2>1. ASSUME NEW n \in DOMAIN Tail(pool) PROVE Below(Append(log, e), Tail(pool)[n].sequence)
      <3>1. n + 1 \in DOMAIN pool /\ 1 < n + 1 /\ Tail(pool)[n] = pool[n + 1]
        BY <1>2
      <3>2. pool[1].sequence < pool[n + 1].sequence /\ Below(log, pool[n + 1].sequence)
        BY <1>2, <3>1 DEF AnnouncerInv, PoolAfterLog, Ascending
      <3>3. QED
        BY <1>3, <1>7, <3>1, <3>2 DEF Below
    <2>2. QED
      BY <1>1, <1>10, <2>1 DEF PoolAfterLog
  <1>13. RecordInFlight'
    <2>1. current' = current /\ step' = step /\ sequence' = sequence
      BY DEF Mine
    <2>2. CASE step = "sending"
      <3>1. Below(pool, current.sequence) /\ Below(log, current.sequence)
            /\ current.sequence < sequence
        BY <2>2 DEF AnnouncerInv, RecordInFlight
      <3>2. Below(Tail(pool), current.sequence)
        BY <1>2, <3>1 DEF Below
      <3>3. Below(Append(log, e), current.sequence)
        BY <1>2, <1>3, <1>7, <3>1 DEF Below
      <3>4. QED
        BY <1>1, <2>1, <2>2, <3>1, <3>2, <3>3 DEF AnnouncerInv, RecordInFlight
    <2>3. CASE step = "awaiting"
      <3>1. \A n \in DOMAIN pool : pool[n].sequence = current.sequence => pool[n].ttl = current.ttl
        BY <2>3 DEF AnnouncerInv, RecordInFlight
      <3>2. \A n \in DOMAIN log :
              log[n].sequence = current.sequence => log[n].validUntil = log[n].minedAt + current.ttl
        BY <2>3 DEF AnnouncerInv, RecordInFlight
      <3>3. e.sequence = current.sequence => e.validUntil = e.minedAt + current.ttl
        BY <1>2, <1>3, <3>1 DEF e
      <3>4. QED
        BY <1>1, <1>2, <1>7, <2>1, <2>3, <3>1, <3>2, <3>3 DEF AnnouncerInv, RecordInFlight
    <2>4. QED
      BY <2>1, <2>2, <2>3 DEF AnnouncerInv, RecordInFlight
  <1>14. QED
    BY <1>8, <1>9, <1>11, <1>12, <1>13 DEF AnnouncerInv

\* A transaction that reverts only leaves the pool.
LEMMA RevertStep == ASSUME AnnouncerInv, Revert PROVE AnnouncerInv'
  <1>1. /\ pool \in Seq(Transaction) /\ pool # <<>> /\ pool' = Tail(pool)
        /\ UNCHANGED <<now, sequence, nextRenewal, step, current, log, acked, signed, restarts>>
    BY DEF AnnouncerInv, TypeOK, Revert
  <1>2. /\ Tail(pool) \in Seq(Transaction)
        /\ \A n \in DOMAIN Tail(pool) :
             n + 1 \in DOMAIN pool /\ Tail(pool)[n] = pool[n + 1] /\ n \in Nat \ {0}
    BY <1>1, TailFacts
  <1>3. TypeOK' /\ SequencesIncrease'
    BY <1>1, <1>2 DEF AnnouncerInv, TypeOK, SequencesIncrease
  <1>4. CounterAhead' /\ PoolAfterLog'
    BY <1>1, <1>2 DEF AnnouncerInv, CounterAhead, PoolAfterLog, Below, Ascending
  <1>5. RecordInFlight'
    BY <1>1, <1>2 DEF AnnouncerInv, RecordInFlight, Below
  <1>6. QED
    BY <1>3, <1>4, <1>5 DEF AnnouncerInv

\* A step that changes nothing keeps the invariant.
LEMMA StutterStep == ASSUME AnnouncerInv, UNCHANGED vars PROVE AnnouncerInv'
  BY DEF AnnouncerInv, TypeOK, SequencesIncrease, CounterAhead, PoolAfterLog, RecordInFlight,
         Below, Ascending, vars

\* The inductive invariant of the announcer holds in every reachable state.
THEOREM AnnouncerInvariant == Spec => []AnnouncerInv
  <1>1. Init => AnnouncerInv
    BY InitAnnouncerInv
  <1>2. AnnouncerInv /\ [Next]_vars => AnnouncerInv'
    BY LocalSteps, SignStep, SendSteps, MineStep, RevertStep, StutterStep DEF Next
  <1>3. QED
    BY <1>1, <1>2, PTL DEF Spec

\* The announcer's state keeps its type, whatever the policy and the clock.
THEOREM AnnouncerTypeCorrect == Spec => []TypeOK
  <1>1. AnnouncerInv => TypeOK
    BY DEF AnnouncerInv
  <1>2. QED
    BY <1>1, AnnouncerInvariant, PTL

\* Announcements reach the chain with increasing sequence numbers, across any
\* number of lost answers, retries and restarts (registry.rs:179 and 241).
THEOREM AnnouncerSequencesIncrease == Spec => []SequencesIncrease
  <1>1. AnnouncerInv => SequencesIncrease
    BY DEF AnnouncerInv
  <1>2. QED
    BY <1>1, AnnouncerInvariant, PTL

LEMMA LifetimesPositive == \A ttl \in Ttl : ttl \in Nat \ {0}
  BY PolicyAssumption

\* jittered_renewal never leaves the lifetime: for two seconds and more it
\* returns at least one second and less than the lifetime.
LEMMA JitterBounds ==
  ASSUME NEW ttl \in Nat, ttl >= 2,
         NEW after \in JitteredRenewal(BaseRenewal(ttl), ttl)
  PROVE  after \in Nat /\ 1 <= after /\ after < ttl
  <1>1. BaseRenewal(ttl) \in Nat /\ 1 <= BaseRenewal(ttl) /\ BaseRenewal(ttl) < ttl
    BY PolicyAssumption DEF BaseRenewal, Lesser
  <1>2. /\ JitterWindow(BaseRenewal(ttl), ttl) \in Nat
        /\ JitterWindow(BaseRenewal(ttl), ttl) <= BaseRenewal(ttl) - 1
        /\ JitterWindow(BaseRenewal(ttl), ttl) <= ttl - BaseRenewal(ttl) - 1
    BY <1>1, PolicyAssumption DEF JitterWindow, Lesser, SaturatingSub
  <1>3. QED
    BY <1>1, <1>2 DEF JitteredRenewal

\* With receipts read in the second of their block, every lifetime of at least
\* two seconds leaves room for its renewal.
THEOREM PromptReceiptsLeaveRoom ==
  ASSUME ReceiptLag = 0, \A ttl \in Ttl : ttl >= 2
  PROVE  LeavesRoom
  <1> SUFFICES ASSUME NEW ttl \in Ttl, NEW after \in JitteredRenewal(BaseRenewal(ttl), ttl)
               PROVE  after + ReceiptLag < ttl
    BY DEF LeavesRoom
  <1>1. ttl \in Nat
    BY LifetimesPositive
  <1>2. QED
    BY <1>1, JitterBounds

\* Where the lifetimes leave room for jitter and receipt, no renewal is ever
\* planned for the expiry it should precede or later (registry.rs:256-265).
THEOREM AnnouncerRenewsBeforeExpiry ==
  ASSUME LeavesRoom
  PROVE  Spec => []RenewsBeforeExpiry
  <1>1. Init => RenewsBeforeExpiry
    BY DEF Init, RenewsBeforeExpiry
  <1>2. AnnouncerInv /\ RenewsBeforeExpiry /\ [Next]_vars => RenewsBeforeExpiry'
    <2> SUFFICES ASSUME AnnouncerInv, RenewsBeforeExpiry, [Next]_vars
                 PROVE  RenewsBeforeExpiry'
      OBVIOUS
    <2>1. CASE Receipt
      <3>1. PICK n \in DOMAIN log :
              /\ log[n].sequence = current.sequence
              /\ now <= log[n].minedAt + ReceiptLag
              /\ acked' = log[n].validUntil
        BY <2>1 DEF Receipt
      <3>2. PICK after \in JitteredRenewal(BaseRenewal(current.ttl), current.ttl) :
              nextRenewal' = now + after
        BY <2>1 DEF Receipt, Schedule
      <3>3. current.ttl \in Ttl /\ log[n].validUntil = log[n].minedAt + current.ttl
        BY <2>1, <3>1 DEF Receipt, AnnouncerInv, RecordInFlight
      <3>4. after + ReceiptLag < current.ttl
        BY <3>2, <3>3 DEF LeavesRoom
      <3>5. current.ttl \in Nat /\ after \in Int
        <4>1. current.ttl \in Nat
          BY <3>3, LifetimesPositive
        <4>2. BaseRenewal(current.ttl) \in Nat
          BY <4>1, PolicyAssumption DEF BaseRenewal, Lesser
        <4>3. JitterWindow(BaseRenewal(current.ttl), current.ttl) \in Nat
          BY <4>1, <4>2, PolicyAssumption DEF JitterWindow, Lesser, SaturatingSub
        <4>4. QED
          BY <3>2, <4>1, <4>2, <4>3 DEF JitteredRenewal
      <3>6. log[n].minedAt \in Nat /\ now \in Nat
        <4>1. log \in Seq(Announcement) /\ now \in Nat
          BY DEF AnnouncerInv, TypeOK
        <4>2. log[n] \in Announcement
          BY <3>1, <4>1
        <4>3. QED
          BY <4>1, <4>2 DEF Announcement
      <3>7. QED
        BY <3>1, <3>2, <3>3, <3>4, <3>5, <3>6, PolicyAssumption DEF RenewsBeforeExpiry
    <2>2. CASE Restart \/ ReceiptReverted
      BY <2>2 DEF Restart, ReceiptReverted, RenewsBeforeExpiry
    <2>3. CASE ~Receipt /\ ~Restart /\ ~ReceiptReverted
      BY <2>3 DEF Next, vars, BeginAnnounce, CheckFailed, Sign, Send, SendFailed, ReceiptFailed,
                  Mine, Revert, Tick, RenewsBeforeExpiry
    <2>4. QED
      BY <2>1, <2>2, <2>3
  <1>3. QED
    BY <1>1, <1>2, AnnouncerInvariant, PTL DEF Spec
===============================================================================
