------------------------------- MODULE HostProofs -------------------------------
(***************************************************************************)
(* For any number of peers, callers and connections and any capacity of    *)
(* the channel: the host's waiters are bounded, its snapshot is the        *)
(* swarm's, and it implements the connector the controller relies on.      *)
(***************************************************************************)
EXTENDS Host, FiniteSetTheorems, SequenceTheorems, TLAPS

Waiter == Caller \cup {Dropped}

\* w, unless its receiver is gone, is a caller whose connect to p waits.
Waits(w, p) == w # Dropped => call[w] = [state |-> "waiting", peer |-> p]

InChannel(c) == \E k \in DOMAIN commands : commands[k].kind = "dial" /\ commands[k].waiter = c
InPending(c) == \E p \in Peer : \E k \in DOMAIN pending[p] : pending[p][k] = c
InCompleting(c) == \E k \in DOMAIN completing : completing[k] = c

\* Whoever holds the sender of a call, the call waits for it, and for the peer
\* that the holder answers about; a handler that grants has published the peer.
SendersWait ==
  /\ \A k \in DOMAIN commands :
       commands[k].kind = "dial" => Waits(commands[k].waiter, commands[k].peer)
  /\ \A p \in Peer : \A k \in DOMAIN pending[p] : Waits(pending[p][k], p)
  /\ \A k \in DOMAIN completing :
       \E p \in Peer : Waits(completing[k], p) /\ (answer = "granted" => p \in published)

\* Each call has one sender, in one place.
OneSender ==
  /\ \A j, k \in DOMAIN commands :
       /\ commands[j].kind = "dial" /\ commands[k].kind = "dial"
       /\ commands[j].waiter = commands[k].waiter /\ commands[j].waiter # Dropped
       => j = k
  /\ \A c \in Caller : InChannel(c) => ~InPending(c) /\ ~InCompleting(c)
  /\ \A c \in Caller : InPending(c) => ~InCompleting(c)
  /\ Len(completing) <= 1

\* The loop's set, the snapshot and the swarm agree while the loop runs.
Agreement ==
  /\ published = connected
  /\ running => connected = {p \in Peer : links[p] > 0}

HostInv == TypeOK /\ WaitersBounded /\ Agreement /\ SendersWait /\ OneSender

-------------------------------------------------------------------------------
\* Mapping the elements of a sequence keeps its length.
LEMMA MappedSeq ==
  ASSUME NEW S, NEW T, NEW s \in Seq(S), NEW t,
         t = [k \in DOMAIN s |-> t[k]], \A k \in DOMAIN s : t[k] \in T
  PROVE  t \in Seq(T) /\ Len(t) = Len(s) /\ DOMAIN t = DOMAIN s
<1>1. DOMAIN s = 1..Len(s) /\ Len(s) \in Nat
  BY LenProperties
<1>2. t \in [1..Len(s) -> T]
  BY <1>1
<1> QED
  BY <1>1, <1>2, IsASeq, LenProperties

\* retain drops the only waiter of a peer or keeps it.
LEMMA RetainOne ==
  ASSUME NEW s \in Seq(Waiter), Len(s) <= 1
  PROVE  Retain(s) = <<>> \/ Retain(s) = s
<1> DEFINE live == {k \in DOMAIN s : s[k] # Dropped}
           Rank(k) == Cardinality({j \in live : j <= k})
<1>1. DOMAIN s = 1..Len(s) /\ Len(s) \in Nat
  BY LenProperties
<1>2. CASE live = {}
  <2>1. Cardinality(live) = 0
    BY <1>2, FS_EmptySet
  <2>2. Retain(s) = [n \in 1..0 |-> s[CHOOSE k \in live : Rank(k) = n]]
    BY <2>1 DEF Retain
  <2> QED
    BY <2>2
<1>3. CASE live # {}
  <2>1. live = {1} /\ 1 \in DOMAIN s
    BY <1>1, <1>3
  <2>2. Len(s) = 1
    BY <1>1, <2>1
  <2>3. {j \in {1} : j <= 1} = {1}
    OBVIOUS
  <2>4. Rank(1) = 1 /\ Cardinality(live) = 1
    BY <2>1, <2>3, FS_Singleton, Zenon
  <2> HIDE DEF Rank
  <2>5. (CHOOSE k \in live : Rank(k) = 1) = 1
    BY <2>1, <2>4
  <2>6. Retain(s) = [n \in 1..Cardinality(live) |-> s[CHOOSE k \in live : Rank(k) = n]]
    BY Zenon DEF Retain, Rank
  <2> HIDE DEF live
  <2>7. \A n \in 1..1 : s[CHOOSE k \in live : Rank(k) = n] = s[n]
    <3> SUFFICES ASSUME NEW n \in 1..1
                 PROVE  s[CHOOSE k \in live : Rank(k) = n] = s[n]
      OBVIOUS
    <3>1. n = 1
      OBVIOUS
    <3> QED
      BY <2>5, <3>1
  <2>8. s = [n \in 1..1 |-> s[n]]
    BY <2>2, LenProperties
  <2> QED
    BY <2>4, <2>6, <2>7, <2>8
<1> QED
  BY <1>2, <1>3

\* Elements of a sequence without its head, and of one with a new end.
LEMMA TailElements ==
  ASSUME NEW S, NEW s \in Seq(S), s # <<>>
  PROVE  /\ Head(s) = s[1] /\ 1 \in DOMAIN s /\ s[1] \in S
         /\ Tail(s) \in Seq(S) /\ Len(Tail(s)) = Len(s) - 1
         /\ \A k \in DOMAIN Tail(s) : k + 1 \in DOMAIN s /\ k \in Nat \ {0} /\ Tail(s)[k] = s[k + 1]
  OBVIOUS

LEMMA AppendElements ==
  ASSUME NEW S, NEW s \in Seq(S), NEW e \in S, NEW k \in DOMAIN Append(s, e)
  PROVE  \/ k \in DOMAIN s /\ Append(s, e)[k] = s[k]
         \/ k = Len(s) + 1 /\ Append(s, e)[k] = e
  OBVIOUS

-------------------------------------------------------------------------------
Open == [state : {"sending", "waiting", "pruning", "granted", "refused"}, peer : Peer]

\* A call that is not idle has a peer, and keeps it when it goes on.
LEMMA OpenCall ==
  ASSUME TypeOK, NEW c \in Caller, call[c] # Idle
  PROVE  call[c] \in Open
  BY DEF TypeOK, Open

LEMMA AtOpen ==
  ASSUME TypeOK, NEW c \in Caller, NEW state, At(c, state), state # "idle"
  PROVE  call[c] \in Open
  BY DEF TypeOK, Open, At, Idle

LEMMA GotoCall ==
  ASSUME TypeOK, NEW c \in Caller, call[c] \in Open,
         NEW state \in {"sending", "waiting", "pruning", "granted", "refused"}, Goto(c, state)
  PROVE  /\ call' \in [Caller -> {Idle} \cup Open]
         /\ call'[c] = [state |-> state, peer |-> call[c].peer]
         /\ \A d \in Caller : d # c => call'[d] = call[d]
  BY DEF TypeOK, Open, Goto

LEMMA ReturnCall ==
  ASSUME TypeOK, NEW c \in Caller, Return(c)
  PROVE  /\ call' \in [Caller -> {Idle} \cup Open]
         /\ call'[c] = Idle
         /\ \A d \in Caller : d # c => call'[d] = call[d]
  BY DEF TypeOK, Open, Return

\* The caller behind a sender waits.
LEMMA HeldWaits ==
  ASSUME HostInv, NEW c \in Caller, InChannel(c) \/ InPending(c) \/ InCompleting(c)
  PROVE  At(c, "waiting")
<1>1. \A p \in Peer : Waits(c, p) => At(c, "waiting")
  BY HostAssumption DEF Waits, At
<1>2. CASE InChannel(c)
  <2>1. PICK k \in DOMAIN commands : commands[k].kind = "dial" /\ commands[k].waiter = c
    BY <1>2 DEF InChannel
  <2>2. commands[k].peer \in Peer
    BY <2>1 DEF HostInv, TypeOK, Command, Prune, Shutdown
  <2> QED
    BY <1>1, <2>1, <2>2 DEF HostInv, SendersWait
<1>3. CASE InPending(c)
  BY <1>1, <1>3 DEF HostInv, SendersWait, InPending
<1>4. CASE InCompleting(c)
  BY <1>1, <1>4 DEF HostInv, SendersWait, InCompleting
<1> QED
  BY <1>2, <1>3, <1>4

\* Steps that leave the senders where they are, and every call that waits.
LEMMA QuietKeeps ==
  ASSUME HostInv, UNCHANGED <<commands, pending, completing, answer, published>>,
         \A c \in Caller : At(c, "waiting") => call'[c] = call[c]
  PROVE  SendersWait' /\ OneSender'
<1>1. \A w \in Waiter, p \in Peer : Waits(w, p) => Waits(w, p)'
  BY DEF Waits, Waiter, At
<1>2. \A k \in DOMAIN commands : commands[k].kind = "dial" =>
        commands[k].waiter \in Waiter /\ commands[k].peer \in Peer
  BY DEF HostInv, TypeOK, Command, Waiter, Prune, Shutdown
<1>3. /\ \A p \in Peer : \A k \in DOMAIN pending[p] : pending[p][k] \in Waiter
      /\ \A k \in DOMAIN completing : completing[k] \in Waiter
  BY DEF HostInv, TypeOK, Waiter
<1>4. SendersWait'
  BY <1>1, <1>2, <1>3 DEF HostInv, SendersWait
<1>5. OneSender'
  BY DEF HostInv, OneSender, InChannel, InPending, InCompleting
<1> QED
  BY <1>4, <1>5

\* Dropping the receiver of c only replaces c by Dropped, wherever it is.
LEMMA DropReceiverKeeps ==
  ASSUME HostInv, NEW c \in Caller, DropReceiver(c), UNCHANGED <<answer, published>>,
         \A d \in Caller : d # c => call'[d] = call[d]
  PROVE  /\ commands' \in Seq(Command)
         /\ pending' \in [Peer -> Seq(Waiter)]
         /\ completing' \in Seq(Waiter)
         /\ \A p \in Peer : Len(pending'[p]) = Len(pending[p])
         /\ SendersWait' /\ OneSender'
<1> DEFINE drop(w) == IF w = c THEN Dropped ELSE w
<1> USE DEF Waiter
<1>1. /\ DOMAIN commands' = DOMAIN commands
      /\ commands' \in Seq(Command)
      /\ \A k \in DOMAIN commands :
           /\ commands'[k].kind = commands[k].kind
           /\ commands[k].kind = "dial" =>
                /\ commands[k].waiter \in Waiter /\ commands[k].peer \in Peer
                /\ commands'[k].waiter = drop(commands[k].waiter)
                /\ commands'[k].peer = commands[k].peer
  <2>1. commands' = [k \in DOMAIN commands |->
          IF commands[k].kind = "dial"
            THEN [commands[k] EXCEPT !.waiter = drop(commands[k].waiter)] ELSE commands[k]]
    BY DEF DropReceiver
  <2>2. \A k \in DOMAIN commands : commands[k] \in Command
    BY DEF HostInv, TypeOK
  <2>3. \A k \in DOMAIN commands :
          /\ commands'[k] \in Command
          /\ commands'[k].kind = commands[k].kind
          /\ commands[k].kind = "dial" =>
                /\ commands[k].waiter \in Waiter /\ commands[k].peer \in Peer
                /\ commands'[k].waiter = drop(commands[k].waiter)
                /\ commands'[k].peer = commands[k].peer
    BY <2>1, <2>2 DEF Command, Prune, Shutdown
  <2>4. commands' = [k \in DOMAIN commands |-> commands'[k]]
    BY <2>1
  <2>5. commands \in Seq(Command)
    BY DEF HostInv, TypeOK
  <2>6. commands' \in Seq(Command) /\ DOMAIN commands' = DOMAIN commands
    BY <2>3, <2>4, <2>5, MappedSeq
  <2> QED
    BY <2>3, <2>6
<1>2. /\ pending' \in [Peer -> Seq(Waiter)]
      /\ \A p \in Peer :
           /\ DOMAIN pending'[p] = DOMAIN pending[p] /\ Len(pending'[p]) = Len(pending[p])
           /\ \A k \in DOMAIN pending[p] :
                pending[p][k] \in Waiter /\ pending'[p][k] = drop(pending[p][k])
  <2>1. pending' = [p \in Peer |-> [k \in DOMAIN pending[p] |-> drop(pending[p][k])]]
    BY DEF DropReceiver
  <2> SUFFICES ASSUME NEW p \in Peer
               PROVE  /\ pending'[p] \in Seq(Waiter)
                      /\ DOMAIN pending'[p] = DOMAIN pending[p] /\ Len(pending'[p]) = Len(pending[p])
                      /\ \A k \in DOMAIN pending[p] :
                           pending[p][k] \in Waiter /\ pending'[p][k] = drop(pending[p][k])
    BY <2>1
  <2>2. pending[p] \in Seq(Waiter)
    BY DEF HostInv, TypeOK
  <2>3. pending'[p] = [k \in DOMAIN pending[p] |-> drop(pending[p][k])]
    BY <2>1
  <2>4. \A k \in DOMAIN pending[p] : pending[p][k] \in Waiter /\ pending'[p][k] = drop(pending[p][k])
    BY <2>2, <2>3
  <2>5. /\ pending'[p] = [k \in DOMAIN pending[p] |-> pending'[p][k]]
        /\ \A k \in DOMAIN pending[p] : pending'[p][k] \in Waiter
    BY <2>3, <2>4
  <2>6. /\ pending'[p] \in Seq(Waiter)
        /\ DOMAIN pending'[p] = DOMAIN pending[p] /\ Len(pending'[p]) = Len(pending[p])
    <3> DEFINE s == pending[p]
               t == pending'[p]
    <3> HIDE DEF s, t, Waiter
    <3>1. s \in Seq(Waiter) /\ t = [k \in DOMAIN s |-> t[k]] /\ \A k \in DOMAIN s : t[k] \in Waiter
      BY <2>2, <2>5 DEF s, t
    <3>2. t \in Seq(Waiter) /\ Len(t) = Len(s) /\ DOMAIN t = DOMAIN s
      BY <3>1, MappedSeq
    <3> QED
      BY <3>2 DEF s, t
  <2> QED
    BY <2>4, <2>6
<1>3. /\ completing' \in Seq(Waiter)
      /\ DOMAIN completing' = DOMAIN completing /\ Len(completing') = Len(completing)
      /\ \A k \in DOMAIN completing :
           completing[k] \in Waiter /\ completing'[k] = drop(completing[k])
  <2>1. completing \in Seq(Waiter)
    BY DEF HostInv, TypeOK
  <2>2. completing' = [k \in DOMAIN completing |-> drop(completing[k])]
    BY DEF DropReceiver
  <2>3. \A k \in DOMAIN completing : completing[k] \in Waiter /\ completing'[k] = drop(completing[k])
    BY <2>1, <2>2
  <2>4. /\ completing' = [k \in DOMAIN completing |-> completing'[k]]
        /\ \A k \in DOMAIN completing : completing'[k] \in Waiter
    BY <2>2, <2>3
  <2> QED
    BY <2>1, <2>3, <2>4, MappedSeq
<1>4. \A w \in Waiter, p \in Peer :
        Waits(w, p) /\ drop(w) # Dropped => call'[drop(w)] = [state |-> "waiting", peer |-> p]
  BY HostAssumption DEF Waits
<1>5. SendersWait'
  <2>1. \A k \in DOMAIN commands' : commands'[k].kind = "dial" /\ commands'[k].waiter # Dropped =>
          call'[commands'[k].waiter] = [state |-> "waiting", peer |-> commands'[k].peer]
    BY <1>1, <1>4 DEF HostInv, SendersWait
  <2>2. \A p \in Peer : \A k \in DOMAIN pending'[p] : pending'[p][k] # Dropped =>
          call'[pending'[p][k]] = [state |-> "waiting", peer |-> p]
    BY <1>2, <1>4 DEF HostInv, SendersWait
  <2>3. \A k \in DOMAIN completing' : \E p \in Peer :
          /\ completing'[k] # Dropped => call'[completing'[k]] = [state |-> "waiting", peer |-> p]
          /\ answer' = "granted" => p \in published'
    BY <1>3, <1>4 DEF HostInv, SendersWait
  <2> QED
    BY <2>1, <2>2, <2>3 DEF SendersWait, Waits
<1>6. \A d \in Caller : /\ InChannel(d)' => InChannel(d)
                        /\ InPending(d)' => InPending(d)
                        /\ InCompleting(d)' => InCompleting(d)
  <2>0. \A w \in Waiter, d \in Caller : drop(w) = d => w = d
    BY HostAssumption
  <2> HIDE DEF drop
  <2>1. ASSUME NEW d \in Caller, InChannel(d)' PROVE InChannel(d)
    <3>1. PICK k \in DOMAIN commands' : commands'[k].kind = "dial" /\ commands'[k].waiter = d
      BY <2>1 DEF InChannel
    <3> QED
      BY <1>1, <2>0, <3>1 DEF InChannel
  <2>2. ASSUME NEW d \in Caller, InPending(d)' PROVE InPending(d)
    <3>1. PICK p \in Peer : \E k \in DOMAIN pending'[p] : pending'[p][k] = d
      BY <2>2 DEF InPending
    <3>2. PICK k \in DOMAIN pending[p] : drop(pending[p][k]) = d /\ pending[p][k] \in Waiter
      BY <1>2, <3>1
    <3> QED
      BY <2>0, <3>2 DEF InPending
  <2>3. ASSUME NEW d \in Caller, InCompleting(d)' PROVE InCompleting(d)
    BY <1>3, <2>0, <2>3 DEF InCompleting
  <2> QED
    BY <2>1, <2>2, <2>3
<1>7. OneSender'
  BY <1>1, <1>3, <1>6 DEF HostInv, OneSender
<1> QED
  BY <1>1, <1>2, <1>3, <1>5, <1>7

\* A prune or a shutdown enters the channel.
LEMMA AppendKeeps ==
  ASSUME HostInv, NEW e \in {Prune, Shutdown}, commands' = Append(commands, e),
         UNCHANGED <<pending, completing, answer, published>>,
         \A c \in Caller : At(c, "waiting") => call'[c] = call[c]
  PROVE  commands' \in Seq(Command) /\ SendersWait' /\ OneSender'
<1>1. e \in Command /\ e.kind # "dial" /\ commands \in Seq(Command)
  BY DEF HostInv, TypeOK, Command, Prune, Shutdown
<1>2. commands' \in Seq(Command)
  BY <1>1
<1>3. \A k \in DOMAIN commands' : commands'[k].kind = "dial" =>
        /\ k \in DOMAIN commands /\ commands'[k] = commands[k]
        /\ commands[k].waiter \in Waiter /\ commands[k].peer \in Peer
  <2> SUFFICES ASSUME NEW k \in DOMAIN commands', commands'[k].kind = "dial"
               PROVE  /\ k \in DOMAIN commands /\ commands'[k] = commands[k]
                      /\ commands[k].waiter \in Waiter /\ commands[k].peer \in Peer
    OBVIOUS
  <2>1. k \in DOMAIN commands /\ commands'[k] = commands[k]
    BY <1>1, AppendElements
  <2>2. commands[k] \in Command
    BY <1>1, <2>1
  <2> QED
    BY <2>1, <2>2 DEF Command, Waiter, Prune, Shutdown
<1>4. /\ \A p \in Peer : \A k \in DOMAIN pending[p] : pending[p][k] \in Waiter
      /\ \A k \in DOMAIN completing : completing[k] \in Waiter
  BY DEF HostInv, TypeOK, Waiter
<1>5. \A w \in Waiter, p \in Peer :
        Waits(w, p) /\ w # Dropped => call'[w] = [state |-> "waiting", peer |-> p]
  BY DEF Waits, Waiter, At
<1>6. SendersWait'
  <2>1. \A k \in DOMAIN commands' : commands'[k].kind = "dial" /\ commands'[k].waiter # Dropped =>
          call'[commands'[k].waiter] = [state |-> "waiting", peer |-> commands'[k].peer]
    BY <1>3, <1>5 DEF HostInv, SendersWait
  <2>2. \A p \in Peer : \A k \in DOMAIN pending[p] : pending[p][k] # Dropped =>
          call'[pending[p][k]] = [state |-> "waiting", peer |-> p]
    BY <1>4, <1>5 DEF HostInv, SendersWait
  <2>3. \A k \in DOMAIN completing : \E p \in Peer :
          /\ completing[k] # Dropped => call'[completing[k]] = [state |-> "waiting", peer |-> p]
          /\ answer = "granted" => p \in published
    BY <1>4, <1>5 DEF HostInv, SendersWait
  <2> QED
    BY <2>1, <2>2, <2>3 DEF SendersWait, Waits
<1>7. OneSender'
  <2>1. \A c \in Caller : /\ InChannel(c)' => InChannel(c)
                          /\ InPending(c)' => InPending(c)
                          /\ InCompleting(c)' => InCompleting(c)
    BY <1>3 DEF InChannel, InPending, InCompleting
  <2> QED
    BY <1>3, <2>1 DEF HostInv, OneSender
<1> QED
  BY <1>2, <1>6, <1>7

\* A dial enters the channel with the only sender of its call.
LEMMA SendDialKeeps ==
  ASSUME HostInv, NEW c \in Caller, SendDial(c)
  PROVE  HostInv'
<1> DEFINE d == Dial(c, call[c].peer)
<1>1. call[c] \in Open /\ d \in Command
  <2>1. call[c] \in Open
    BY AtOpen DEF SendDial, HostInv
  <2> QED
    BY <2>1 DEF Open, Dial, Command
<1>2. /\ call' \in [Caller -> {Idle} \cup Open]
      /\ call'[c] = [state |-> "waiting", peer |-> call[c].peer]
      /\ \A e \in Caller : e # c => call'[e] = call[e]
  BY <1>1, GotoCall DEF SendDial, HostInv
<1>3. ~InChannel(c) /\ ~InPending(c) /\ ~InCompleting(c)
  BY HeldWaits DEF SendDial, At
<1>4. /\ commands' = Append(commands, d) /\ commands \in Seq(Command)
      /\ UNCHANGED <<running, attempts, links, connected, published, pending, completing, answer>>
  BY DEF SendDial, HostInv, TypeOK, swarmVars, loopVars
<1>5. commands' \in Seq(Command)
  BY <1>1, <1>4
<1>6. TypeOK'
  BY <1>2, <1>4, <1>5 DEF HostInv, TypeOK, Open
<1>7. \A k \in DOMAIN commands' :
        \/ k \in DOMAIN commands /\ commands'[k] = commands[k]
        \/ k = Len(commands) + 1 /\ commands'[k] = d
  BY <1>1, <1>4, AppendElements
<1>8. \A k \in DOMAIN commands : commands[k].kind = "dial" =>
        commands[k].waiter \in Waiter /\ commands[k].peer \in Peer /\ commands[k].waiter # c
  <2>1. \A k \in DOMAIN commands : commands[k] \in Command
    BY <1>4
  <2> QED
    BY <1>3, <2>1 DEF Command, Waiter, Prune, Shutdown, InChannel
<1>9. /\ \A p \in Peer : \A k \in DOMAIN pending[p] : pending[p][k] \in Waiter /\ pending[p][k] # c
      /\ \A k \in DOMAIN completing : completing[k] \in Waiter /\ completing[k] # c
  BY <1>3 DEF HostInv, TypeOK, Waiter, InPending, InCompleting
<1>10. \A w \in Waiter, p \in Peer :
        Waits(w, p) /\ w # Dropped /\ w # c => call'[w] = [state |-> "waiting", peer |-> p]
  BY <1>2 DEF Waits, Waiter
<1>11. d.kind = "dial" /\ d.waiter = c /\ d.peer = call[c].peer
  BY DEF Dial
<1>12. SendersWait'
  <2>1. \A k \in DOMAIN commands' : commands'[k].kind = "dial" /\ commands'[k].waiter # Dropped =>
          call'[commands'[k].waiter] = [state |-> "waiting", peer |-> commands'[k].peer]
    BY <1>2, <1>7, <1>8, <1>10, <1>11 DEF HostInv, SendersWait
  <2>2. \A p \in Peer : \A k \in DOMAIN pending[p] : pending[p][k] # Dropped =>
          call'[pending[p][k]] = [state |-> "waiting", peer |-> p]
    BY <1>9, <1>10 DEF HostInv, SendersWait
  <2>3. \A k \in DOMAIN completing : \E p \in Peer :
          /\ completing[k] # Dropped => call'[completing[k]] = [state |-> "waiting", peer |-> p]
          /\ answer = "granted" => p \in published
    BY <1>9, <1>10 DEF HostInv, SendersWait
  <2> QED
    BY <1>4, <2>1, <2>2, <2>3 DEF SendersWait, Waits
<1>13. OneSender'
  <2>1. \A e \in Caller : /\ InChannel(e)' => InChannel(e) \/ e = c
                          /\ InPending(e)' <=> InPending(e)
                          /\ InCompleting(e)' <=> InCompleting(e)
    BY <1>4, <1>7, <1>11 DEF InChannel, InPending, InCompleting
  <2>2. \A j, k \in DOMAIN commands' :
          /\ commands'[j].kind = "dial" /\ commands'[k].kind = "dial"
          /\ commands'[j].waiter = commands'[k].waiter /\ commands'[j].waiter # Dropped
          => j = k
    BY <1>7, <1>8, <1>11 DEF HostInv, OneSender
  <2> QED
    BY <1>3, <1>4, <2>1, <2>2 DEF HostInv, OneSender
<1> QED
  BY <1>4, <1>6, <1>12, <1>13 DEF HostInv, WaitersBounded, Agreement

-------------------------------------------------------------------------------
\* A command leaves the channel; if it is a dial, its sender is now nowhere.
LEMMA TakesCommand ==
  ASSUME HostInv, NEW kind, Takes(kind)
  PROVE  /\ commands' \in Seq(Command) /\ Head(commands) \in Command
         /\ Head(commands).kind = kind /\ completing = <<>>
         /\ \A k \in DOMAIN commands' : k \in Nat \ {0} /\ k + 1 \in DOMAIN commands
                                         /\ commands'[k] = commands[k + 1]
         /\ \A k \in DOMAIN commands' : commands'[k].kind = "dial" =>
              /\ commands'[k].waiter \in Waiter /\ commands'[k].peer \in Peer
              /\ Waits(commands[k + 1].waiter, commands[k + 1].peer)
         /\ kind = "dial" =>
              LET w == Head(commands).waiter
              IN  /\ w \in Waiter /\ Head(commands).peer \in Peer
                  /\ Waits(w, Head(commands).peer)
                  /\ w # Dropped =>
                       /\ ~InPending(w)
                       /\ \A k \in DOMAIN commands' :
                            commands'[k].kind = "dial" => commands'[k].waiter # w
<1>1. commands \in Seq(Command) /\ commands # <<>> /\ commands' = Tail(commands)
  BY DEF HostInv, TypeOK, Takes
<1>2. /\ Head(commands) = commands[1] /\ 1 \in DOMAIN commands
      /\ commands' \in Seq(Command) /\ commands[1] \in Command
      /\ \A k \in DOMAIN commands' : k \in Nat \ {0} /\ k + 1 \in DOMAIN commands
                                      /\ commands'[k] = commands[k + 1]
  BY <1>1, TailElements
<1>3. \A k \in DOMAIN commands : commands[k].kind = "dial" =>
        /\ commands[k].waiter \in Waiter /\ commands[k].peer \in Peer
        /\ Waits(commands[k].waiter, commands[k].peer)
  <2>1. \A k \in DOMAIN commands : commands[k] \in Command
    BY <1>1
  <2> QED
    BY <2>1 DEF HostInv, SendersWait, Command, Waiter, Prune, Shutdown
<1>4. commands[1].kind = kind /\ completing = <<>>
  BY <1>2 DEF Takes, Free
<1>5. ASSUME kind = "dial", commands[1].waiter # Dropped
      PROVE  /\ ~InPending(commands[1].waiter)
             /\ \A k \in DOMAIN commands' :
                  commands'[k].kind = "dial" => commands'[k].waiter # commands[1].waiter
  <2>1. commands[1].waiter \in Caller /\ InChannel(commands[1].waiter)
    BY <1>2, <1>3, <1>4, <1>5 DEF Waiter, InChannel
  <2>2. \A k \in Nat \ {0} : k + 1 # 1
    OBVIOUS
  <2> QED
    BY <1>2, <1>4, <1>5, <2>1, <2>2 DEF HostInv, OneSender
<1> QED
  BY <1>2, <1>3, <1>4, <1>5

\* The waiter of a dial is answered at once.
LEMMA HandleAnswers ==
  ASSUME HostInv, Takes("dial"), NEW reply \in {"granted", "refused"},
         Send(Head(commands).waiter, reply), UNCHANGED <<attempts, pending>>,
         UNCHANGED <<running, links, connected, published, completing, answer>>
  PROVE  HostInv'
<1> DEFINE w == Head(commands).waiter
<1>1. /\ w \in Waiter /\ commands' \in Seq(Command) /\ completing = <<>>
      /\ Waits(w, Head(commands).peer) /\ Head(commands).peer \in Peer
  BY TakesCommand
<1>2. /\ call' \in [Caller -> {Idle} \cup Open]
      /\ \A c \in Caller : c # w => call'[c] = call[c]
  <2>1. CASE w = Dropped
    BY <2>1 DEF Send, HostInv, TypeOK, Open
  <2>2. CASE w # Dropped
    <3>1. w \in Caller /\ call[w] = [state |-> "waiting", peer |-> Head(commands).peer]
      BY <1>1, <2>2 DEF Waiter, Waits
    <3>2. call[w] \in Open
      BY <1>1, <3>1 DEF Open
    <3> QED
      BY <2>2, <3>1, <3>2, GotoCall DEF Send, HostInv
  <2> QED
    BY <2>1, <2>2
<1>3. TypeOK'
  BY <1>1, <1>2 DEF HostInv, TypeOK, Open
<1>4. /\ \A k \in DOMAIN commands' : /\ k + 1 \in DOMAIN commands /\ k \in Nat
                                      /\ commands'[k] = commands[k + 1]
      /\ \A k \in DOMAIN commands' : commands'[k].kind = "dial" =>
           /\ commands'[k].waiter \in Waiter /\ commands'[k].peer \in Peer
           /\ Waits(commands[k + 1].waiter, commands[k + 1].peer)
           /\ w # Dropped => commands'[k].waiter # w
  BY TakesCommand
<1>5. ASSUME NEW p \in Peer, NEW k \in DOMAIN pending[p], pending[p][k] # Dropped
      PROVE  /\ pending[p][k] \in Caller /\ pending[p][k] # w
             /\ call[pending[p][k]] = [state |-> "waiting", peer |-> p]
  <2>1. w # Dropped => ~InPending(w)
    BY TakesCommand
  <2>2. pending[p][k] \in Caller
    BY <1>5 DEF HostInv, TypeOK
  <2>3. pending[p][k] # w
    BY <1>5, <2>1 DEF InPending
  <2>4. Waits(pending[p][k], p)
    BY <1>5 DEF HostInv, SendersWait
  <2> QED
    BY <1>5, <2>2, <2>3, <2>4 DEF Waits
<1>6. SendersWait'
  <2>1. \A k \in DOMAIN commands' : commands'[k].kind = "dial" /\ commands'[k].waiter # Dropped =>
          call'[commands'[k].waiter] = [state |-> "waiting", peer |-> commands'[k].peer]
    BY <1>2, <1>4 DEF Waits, Waiter
  <2>2. \A p \in Peer : \A k \in DOMAIN pending[p] : pending[p][k] # Dropped =>
          call'[pending[p][k]] = [state |-> "waiting", peer |-> p]
    BY <1>2, <1>5
  <2> QED
    BY <1>1, <2>1, <2>2 DEF SendersWait, Waits
<1>7. OneSender'
  <2>1. \A c \in Caller : /\ InChannel(c)' => InChannel(c)
                          /\ InPending(c)' <=> InPending(c)
                          /\ ~InCompleting(c)'
    BY <1>1, <1>4 DEF InChannel, InPending, InCompleting
  <2>2. \A j, k \in DOMAIN commands' :
          /\ commands'[j].kind = "dial" /\ commands'[k].kind = "dial"
          /\ commands'[j].waiter = commands'[k].waiter /\ commands'[j].waiter # Dropped
          => j = k
    <3>1. \A j, k \in DOMAIN commands' :
          /\ commands'[j].kind = "dial" /\ commands'[k].kind = "dial"
          /\ commands'[j].waiter = commands'[k].waiter /\ commands'[j].waiter # Dropped
          => j + 1 = k + 1
      BY <1>4 DEF HostInv, OneSender
    <3> QED
      BY <1>4, <3>1
  <2> QED
    BY <1>1, <2>1, <2>2 DEF HostInv, OneSender
<1> QED
  BY <1>3, <1>6, <1>7 DEF HostInv, WaitersBounded, Agreement

\* The caller's own steps, which hold no sender.
LEMMA CallerKeeps ==
  ASSUME HostInv, NEW c \in Caller,
         (\E p \in Peer : Connect(c, p)) \/ SendFails(c) \/ Answered(c)
  PROVE  HostInv'
<1>1. /\ UNCHANGED <<running, commands, attempts, links, connected, published, pending, completing, answer>>
      /\ ~At(c, "waiting")
  BY DEF Connect, SendFails, Answered, At, Idle, swarmVars, loopVars
<1>2. /\ call' \in [Caller -> {Idle} \cup Open]
      /\ \A d \in Caller : d # c => call'[d] = call[d]
  <2>1. CASE \E p \in Peer : Connect(c, p)
    BY <2>1 DEF HostInv, TypeOK, Connect, Open
  <2>2. CASE SendFails(c) \/ Answered(c)
    <3>1. Return(c)
      BY <2>2 DEF SendFails, Answered
    <3> QED
      BY <3>1, ReturnCall DEF HostInv
  <2> QED
    BY <2>1, <2>2
<1>3. TypeOK'
  BY <1>1, <1>2 DEF HostInv, TypeOK, Open
<1>4. SendersWait' /\ OneSender'
  <2>1. \A d \in Caller : At(d, "waiting") => call'[d] = call[d]
    BY <1>1, <1>2
  <2> QED
    BY <1>1, <2>1, QuietKeeps
<1> QED
  BY <1>1, <1>3, <1>4 DEF HostInv, WaitersBounded, Agreement

\* The receiver goes: on a timeout, or with the whole call.
LEMMA DropKeeps ==
  ASSUME HostInv, NEW c \in Caller, TimesOut(c) \/ Abandon(c)
  PROVE  HostInv'
<1>1. DropReceiver(c) /\ UNCHANGED <<running, attempts, links, connected, published, answer>>
  BY DEF TimesOut, Abandon, swarmVars
<1>2. /\ call' \in [Caller -> {Idle} \cup Open]
      /\ \A d \in Caller : d # c => call'[d] = call[d]
  <2>1. CASE TimesOut(c)
    <3>1. call[c] \in Open
      BY <2>1, AtOpen DEF TimesOut, HostInv
    <3> QED
      BY <2>1, <3>1, GotoCall DEF TimesOut, HostInv
  <2>2. CASE Abandon(c)
    BY <2>2, ReturnCall DEF Abandon, HostInv
  <2> QED
    BY <2>1, <2>2
<1>3. /\ commands' \in Seq(Command)
      /\ pending' \in [Peer -> Seq(Waiter)]
      /\ completing' \in Seq(Waiter)
      /\ \A p \in Peer : Len(pending'[p]) = Len(pending[p])
      /\ SendersWait' /\ OneSender'
  BY <1>1, <1>2, DropReceiverKeeps
<1>4. TypeOK'
  BY <1>1, <1>2, <1>3 DEF HostInv, TypeOK, Open, Waiter
<1>5. WaitersBounded'
  <2> SUFFICES ASSUME NEW p \in Peer
               PROVE  Len(pending'[p]) <= 1 /\ (pending'[p] # <<>> => p \in attempts')
    BY DEF WaitersBounded
  <2>1. pending[p] \in Seq(Waiter) /\ pending'[p] \in Seq(Waiter) /\ Len(pending'[p]) = Len(pending[p])
    BY <1>3 DEF HostInv, TypeOK, Waiter
  <2>2. pending[p] = <<>> => pending'[p] = <<>>
    BY <2>1
  <2> QED
    BY <1>1, <2>1, <2>2 DEF HostInv, WaitersBounded
<1> QED
  BY <1>1, <1>3, <1>4, <1>5 DEF HostInv, Agreement

\* Commands that carry no sender enter the channel.
LEMMA SendKeeps ==
  ASSUME HostInv, RequestShutdown \/ \E c \in Caller : SendPrune(c)
  PROVE  HostInv'
<1>1. UNCHANGED <<running, attempts, links, connected, published, pending, completing, answer>>
  BY DEF RequestShutdown, SendPrune, swarmVars, loopVars
<1>2. /\ call' \in [Caller -> {Idle} \cup Open]
      /\ \A d \in Caller : At(d, "waiting") => call'[d] = call[d]
  <2>1. CASE RequestShutdown
    BY <2>1 DEF RequestShutdown, HostInv, TypeOK, Open
  <2>2. ASSUME NEW c \in Caller, SendPrune(c)
        PROVE  /\ call' \in [Caller -> {Idle} \cup Open]
               /\ \A d \in Caller : At(d, "waiting") => call'[d] = call[d]
    <3>1. Return(c) /\ ~At(c, "waiting")
      BY <2>2 DEF SendPrune, At
    <3> QED
      BY <3>1, ReturnCall DEF HostInv
  <2> QED
    BY <2>1, <2>2
<1>3. commands' \in Seq(Command) /\ SendersWait' /\ OneSender'
  <2>1. CASE UNCHANGED commands
    BY <1>1, <1>2, <2>1, QuietKeeps DEF HostInv, TypeOK
  <2>2. CASE \E e \in {Prune, Shutdown} : commands' = Append(commands, e)
    BY <1>1, <1>2, <2>2, AppendKeeps
  <2> QED
    BY <2>1, <2>2 DEF RequestShutdown, SendPrune
<1>4. TypeOK'
  BY <1>1, <1>2, <1>3 DEF HostInv, TypeOK, Open
<1> QED
  BY <1>1, <1>3, <1>4 DEF HostInv, WaitersBounded, Agreement

\* Taking a command keeps the senders that stay in the channel apart.
LEMMA TakesKeeps ==
  ASSUME HostInv, NEW kind, Takes(kind)
  PROVE  /\ \A j, k \in DOMAIN commands' :
              /\ commands'[j].kind = "dial" /\ commands'[k].kind = "dial"
              /\ commands'[j].waiter = commands'[k].waiter /\ commands'[j].waiter # Dropped
              => j = k
         /\ \A c \in Caller : InChannel(c)' => InChannel(c) /\ (kind = "dial" => c # Head(commands).waiter)
<1>1. \A k \in DOMAIN commands' : /\ k \in Nat /\ k + 1 \in DOMAIN commands
                                  /\ commands'[k] = commands[k + 1]
  BY TakesCommand
<1>2. \A j, k \in DOMAIN commands' :
        /\ commands'[j].kind = "dial" /\ commands'[k].kind = "dial"
        /\ commands'[j].waiter = commands'[k].waiter /\ commands'[j].waiter # Dropped
        => j + 1 = k + 1
  BY <1>1 DEF HostInv, OneSender
<1>3. \A c \in Caller : InChannel(c)' => InChannel(c)
  BY <1>1 DEF InChannel
<1>4. ASSUME kind = "dial", NEW c \in Caller, InChannel(c)'
      PROVE  c # Head(commands).waiter
  <2>1. PICK k \in DOMAIN commands' : commands'[k].kind = "dial" /\ commands'[k].waiter = c
    BY <1>4 DEF InChannel
  <2>2. Head(commands).waiter # Dropped => commands'[k].waiter # Head(commands).waiter
    BY <1>4, <2>1, TakesCommand
  <2> QED
    BY <2>1, <2>2, HostAssumption
<1> QED
  BY <1>1, <1>2, <1>3, <1>4

\* The swarm dials: the sender moves from the channel to the peer's waiters,
\* which are empty because the swarm had no attempt.
LEMMA HandleDialsKeeps ==
  ASSUME HostInv, Takes("dial"), SwarmAccepts(Head(commands).peer),
         attempts' = attempts \cup {Head(commands).peer},
         pending' = [pending EXCEPT ![Head(commands).peer] = Append(@, Head(commands).waiter)],
         UNCHANGED <<running, links, connected, published, completing, answer, call>>
  PROVE  HostInv'
<1> DEFINE w == Head(commands).waiter
           p == Head(commands).peer
<1>1. /\ w \in Waiter /\ p \in Peer /\ Waits(w, p)
      /\ commands' \in Seq(Command) /\ completing = <<>>
      /\ w # Dropped => ~InPending(w)
  BY TakesCommand
<1>2. \A k \in DOMAIN commands' : commands'[k].kind = "dial" =>
        Waits(commands'[k].waiter, commands'[k].peer)
  BY TakesCommand
<1> HIDE DEF w, p
<1>3. pending \in [Peer -> Seq(Waiter)] /\ pending[p] = <<>>
  BY <1>1 DEF HostInv, TypeOK, Waiter, WaitersBounded, SwarmAccepts, p
<1>4. pending' = [pending EXCEPT ![p] = <<w>>]
  BY <1>1, <1>3 DEF p, w
<1>5. pending' \in [Peer -> Seq(Waiter)] /\ Len(<<w>>) = 1 /\ DOMAIN <<w>> = {1} /\ <<w>>[1] = w
  <2>1. <<w>> \in Seq(Waiter)
    BY <1>1
  <2>2. pending' \in [Peer -> Seq(Waiter)]
    BY <1>3, <1>4, <2>1
  <2>3. Len(<<w>>) = 1 /\ <<w>>[1] = w
    OBVIOUS
  <2>4. DOMAIN <<w>> = {1}
    OBVIOUS
  <2> QED
    BY <2>2, <2>3, <2>4
<1>6. \A q \in Peer : pending'[q] = IF q = p THEN <<w>> ELSE pending[q]
  BY <1>1, <1>3, <1>4
<1>7. attempts' = attempts \cup {p}
  BY DEF p
<1>8. TypeOK'
  BY <1>1, <1>5, <1>7 DEF HostInv, TypeOK, Waiter
<1>9. WaitersBounded'
  <2> SUFFICES ASSUME NEW q \in Peer
               PROVE  Len(pending'[q]) <= 1 /\ (pending'[q] # <<>> => q \in attempts')
    BY DEF WaitersBounded
  <2>1. CASE q = p
    <3>1. pending'[q] = <<w>>
      BY <1>6, <2>1
    <3>2. Len(pending'[q]) = 1
      BY <1>5, <3>1, Zenon
    <3>3. q \in attempts'
      BY <1>7, <2>1
    <3>4. 1 <= 1
      OBVIOUS
    <3> QED
      BY <3>2, <3>3, <3>4, Zenon
  <2>2. CASE q # p
    BY <1>6, <1>7, <2>2 DEF HostInv, WaitersBounded
  <2> QED
    BY <2>1, <2>2
<1>10. SendersWait'
  <2>1. \A q \in Peer : \A k \in DOMAIN pending'[q] : Waits(pending'[q][k], q)
    <3> SUFFICES ASSUME NEW q \in Peer, NEW k \in DOMAIN pending'[q]
                 PROVE  Waits(pending'[q][k], q)
      OBVIOUS
    <3>1. CASE q = p
      <4>1. pending'[q] = <<w>>
        BY <1>6, <3>1
      <4>2. k = 1
        BY <1>5, <4>1
      <4>3. pending'[q][k] = w
        BY <1>5, <4>1, <4>2
      <4> QED
        BY <1>1, <3>1, <4>3
    <3>2. CASE q # p
      <4>1. pending'[q] = pending[q]
        BY <1>6, <3>2
      <4> QED
        BY <4>1 DEF HostInv, SendersWait
    <3> QED
      BY <3>1, <3>2
  <2>2. completing' = <<>>
    BY <1>1
  <2> QED
    BY <1>2, <2>1, <2>2 DEF SendersWait, Waits
<1>11. OneSender'
  <2>1. ASSUME NEW c \in Caller, InPending(c)'
        PROVE  InPending(c) \/ c = w
    <3>1. PICK q \in Peer : \E k \in DOMAIN pending'[q] : pending'[q][k] = c
      BY <2>1 DEF InPending
    <3>2. CASE q = p
      BY <1>5, <1>6, <3>1, <3>2
    <3>3. CASE q # p
      BY <1>6, <3>1, <3>3 DEF InPending
    <3> QED
      BY <3>2, <3>3
  <2>2. \A c \in Caller : InChannel(c)' => InChannel(c) /\ c # w
    BY TakesKeeps DEF w
  <2>3. completing' = <<>> /\ \A c \in Caller : ~InCompleting(c)'
    BY <1>1 DEF InCompleting
  <2>4. \A j, k \in DOMAIN commands' :
          /\ commands'[j].kind = "dial" /\ commands'[k].kind = "dial"
          /\ commands'[j].waiter = commands'[k].waiter /\ commands'[j].waiter # Dropped
          => j = k
    BY TakesKeeps
  <2> QED
    BY <2>1, <2>2, <2>3, <2>4 DEF HostInv, OneSender
<1> QED
  BY <1>8, <1>9, <1>10, <1>11 DEF HostInv, Agreement

LEMMA HandleDialKeeps ==
  ASSUME HostInv, HandleDial
  PROVE  HostInv'
<1>1. Takes("dial") /\ UNCHANGED <<running, links, connected, published, completing, answer>>
  BY DEF HandleDial
<1>2. ASSUME NEW reply \in {"granted", "refused"}, Send(Head(commands).waiter, reply),
             UNCHANGED <<attempts, pending>>
      PROVE  HostInv'
  BY <1>1, <1>2, HandleAnswers
<1>3. ASSUME SwarmAccepts(Head(commands).peer),
             attempts' = attempts \cup {Head(commands).peer},
             pending' = [pending EXCEPT ![Head(commands).peer] = Append(@, Head(commands).waiter)],
             UNCHANGED call
      PROVE  HostInv'
  BY <1>1, <1>3, HandleDialsKeeps
<1> QED
  BY <1>2, <1>3 DEF HandleDial

LEMMA HandlePruneKeeps ==
  ASSUME HostInv, HandlePrune
  PROVE  HostInv'
<1>1. /\ Takes("prune")
      /\ UNCHANGED <<running, attempts, links, connected, published, completing, answer, call>>
  BY DEF HandlePrune, swarmVars
<1>2. pending \in [Peer -> Seq(Waiter)] /\ \A p \in Peer : Len(pending[p]) <= 1
  BY DEF HostInv, TypeOK, Waiter, WaitersBounded
<1>3. \A p \in Peer : pending'[p] = <<>> \/ pending'[p] = pending[p]
  BY <1>2, RetainOne DEF HandlePrune
<1>4. pending' \in [Peer -> Seq(Waiter)]
  <2>1. ASSUME NEW p \in Peer PROVE pending'[p] \in Seq(Waiter)
    <3>1. pending[p] \in Seq(Waiter) /\ <<>> \in Seq(Waiter)
      BY <1>2
    <3> QED
      BY <1>3, <3>1
  <2>2. pending' = [p \in Peer |-> Retain(pending[p])]
    BY DEF HandlePrune
  <2> HIDE DEF Retain
  <2> QED
    BY <2>1, <2>2
<1>5. commands' \in Seq(Command) /\ completing = <<>>
  BY <1>1, TakesCommand
<1>6. TypeOK'
  BY <1>1, <1>4, <1>5 DEF HostInv, TypeOK, Waiter
<1>7. WaitersBounded'
  BY <1>1, <1>3 DEF HostInv, WaitersBounded
<1>8. SendersWait'
  <2>1. \A k \in DOMAIN commands' : commands'[k].kind = "dial" =>
          Waits(commands'[k].waiter, commands'[k].peer)
    BY <1>1, TakesCommand
  <2>2. \A p \in Peer : \A k \in DOMAIN pending'[p] : Waits(pending'[p][k], p)
    BY <1>3 DEF HostInv, SendersWait
  <2> QED
    BY <1>1, <1>5, <2>1, <2>2 DEF SendersWait, Waits
<1>9. OneSender'
  <2>1. \A c \in Caller : /\ InPending(c)' => InPending(c)
                          /\ InCompleting(c)' <=> InCompleting(c)
    BY <1>1, <1>3 DEF InPending, InCompleting
  <2>2. /\ \A j, k \in DOMAIN commands' :
             /\ commands'[j].kind = "dial" /\ commands'[k].kind = "dial"
             /\ commands'[j].waiter = commands'[k].waiter /\ commands'[j].waiter # Dropped
             => j = k
        /\ \A c \in Caller : InChannel(c)' => InChannel(c)
    BY <1>1, TakesKeeps
  <2> QED
    BY <1>1, <2>1, <2>2 DEF HostInv, OneSender
<1> QED
  BY <1>1, <1>6, <1>7, <1>8, <1>9 DEF HostInv, Agreement

\* The loop ends and holds no sender any more.
LEMMA HandleShutdownKeeps ==
  ASSUME HostInv, HandleShutdown
  PROVE  HostInv'
<1>1. /\ commands' = <<>> /\ completing' = <<>> /\ ~running'
      /\ pending' = [p \in Peer |-> <<>>] /\ attempts' = {} /\ links' = [p \in Peer |-> 0]
      /\ UNCHANGED <<connected, published, answer>>
      /\ running' \in BOOLEAN
  BY DEF HandleShutdown, Free
<1>2. ASSUME NEW c \in Caller PROVE call'[c] \in {Idle} \cup Open
  <2>1. CASE At(c, "waiting")
    <3>1. call[c] \in Open /\ call'[c] = [call[c] EXCEPT !.state = "refused"]
      BY <2>1, AtOpen DEF HandleShutdown, HostInv
    <3> QED
      BY <3>1 DEF Open
  <2>2. CASE ~At(c, "waiting")
    BY <2>2 DEF HandleShutdown, HostInv, TypeOK, Open
  <2> QED
    BY <2>1, <2>2
<1>3. TypeOK'
  BY <1>1, <1>2 DEF HostInv, TypeOK, HandleShutdown, Open
<1>4. SendersWait' /\ OneSender'
  BY <1>1 DEF SendersWait, OneSender, InChannel, InPending, InCompleting
<1>5. WaitersBounded'
  BY <1>1 DEF WaitersBounded
<1> QED
  BY <1>1, <1>3, <1>4, <1>5 DEF HostInv, Agreement

\* A connection or a failed attempt: the handler takes the waiters of p.
LEMMA CompleteKeeps ==
  ASSUME HostInv, NEW p \in Peer, NEW reply \in {"granted", "refused"},
         completing = <<>>, Complete(p, reply), UNCHANGED <<commands, call>>,
         reply = "granted" => p \in published'
  PROVE  /\ pending' \in [Peer -> Seq(Waiter)] /\ completing' \in Seq(Waiter)
         /\ answer' \in {"granted", "refused"}
         /\ \A q \in Peer : /\ Len(pending'[q]) <= 1
                            /\ pending'[q] # <<>> => q # p /\ q \in attempts
         /\ SendersWait' /\ OneSender'
<1>1. pending \in [Peer -> Seq(Waiter)]
  BY DEF HostInv, TypeOK, Waiter
<1>2. completing' = pending[p] /\ answer' = reply /\ pending' = [pending EXCEPT ![p] = <<>>]
  BY DEF Complete
<1>3. \A q \in Peer : pending'[q] = IF q = p THEN <<>> ELSE pending[q]
  BY <1>1, <1>2
<1>4. pending' \in [Peer -> Seq(Waiter)] /\ completing' \in Seq(Waiter)
  BY <1>1, <1>2
<1>5. \A q \in Peer : /\ Len(pending'[q]) <= 1
                      /\ pending'[q] # <<>> => q # p /\ q \in attempts
  BY <1>3 DEF HostInv, WaitersBounded
<1>6. SendersWait'
  <2>1. \A k \in DOMAIN commands : commands[k].kind = "dial" =>
          Waits(commands[k].waiter, commands[k].peer)
    BY DEF HostInv, SendersWait
  <2>2. \A q \in Peer : \A k \in DOMAIN pending'[q] : Waits(pending'[q][k], q)
    BY <1>3 DEF HostInv, SendersWait
  <2>3. \A k \in DOMAIN completing' : Waits(completing'[k], p)
    BY <1>2 DEF HostInv, SendersWait
  <2> QED
    BY <1>2, <2>1, <2>2, <2>3 DEF SendersWait, Waits
<1>7. OneSender'
  <2>1. \A c \in Caller : /\ InChannel(c)' => InChannel(c)
                          /\ InPending(c)' => InPending(c)
                          /\ InCompleting(c)' => InPending(c)
    BY <1>2, <1>3 DEF InChannel, InPending, InCompleting
  <2>2. ASSUME NEW c \in Caller, InPending(c)', InCompleting(c)'
        PROVE  FALSE
    <3>1. PICK k \in DOMAIN pending[p] : pending[p][k] = c
      BY <1>2, <2>2 DEF InCompleting
    <3>2. PICK q \in Peer : q # p /\ \E j \in DOMAIN pending[q] : pending[q][j] = c
      BY <1>3, <2>2 DEF InPending
    <3>3. Waits(c, p) /\ Waits(c, q)
      BY <3>1, <3>2 DEF HostInv, SendersWait
    <3>4. call[c].peer = p /\ call[c].peer = q
      BY <3>3, HostAssumption DEF Waits
    <3> QED
      BY <3>2, <3>4
  <2>3. Len(completing') <= 1
    BY <1>2 DEF HostInv, WaitersBounded
  <2> QED
    BY <2>1, <2>2, <2>3 DEF HostInv, OneSender
<1> QED
  BY <1>2, <1>4, <1>5, <1>6, <1>7

\* Swarm events that take the waiters of p: a connection, publishing the peer
\* first, and a failed attempt.
LEMMA SwarmKeeps ==
  ASSUME HostInv, NEW p \in Peer, DialSucceeds(p) \/ Accept(p) \/ DialFails(p)
  PROVE  HostInv'
<1>1. running /\ completing = <<>> /\ UNCHANGED <<running, commands, call>>
  BY DEF DialSucceeds, Accept, DialFails, Free
<1>2. \/ /\ attempts' = attempts \/ attempts' = attempts \ {p}
         /\ links' = [links EXCEPT ![p] = @ + 1]
         /\ connected' = connected \cup {p} /\ published' = connected'
         /\ Complete(p, "granted")
      \/ /\ attempts' = attempts \ {p}
         /\ UNCHANGED <<links, connected, published>>
         /\ Complete(p, "refused")
  BY DEF DialSucceeds, Accept, DialFails, Established
<1>3. PICK r \in {"granted", "refused"} : Complete(p, r) /\ (r = "granted" => p \in published')
  BY <1>2
<1>4. /\ pending' \in [Peer -> Seq(Waiter)] /\ completing' \in Seq(Waiter)
      /\ answer' \in {"granted", "refused"}
      /\ \A q \in Peer : /\ Len(pending'[q]) <= 1
                         /\ pending'[q] # <<>> => q # p /\ q \in attempts
      /\ SendersWait' /\ OneSender'
  BY <1>1, <1>3, CompleteKeeps
<1>5. links \in [Peer -> Nat] /\ connected = {q \in Peer : links[q] > 0} /\ published = connected
  BY <1>1 DEF HostInv, TypeOK, Agreement
<1>6. links' \in [Peer -> Nat] /\ connected' = {q \in Peer : links'[q] > 0} /\ published' = connected'
  <2>1. CASE links' = [links EXCEPT ![p] = @ + 1] /\ connected' = connected \cup {p} /\ published' = connected'
    BY <1>5, <2>1
  <2>2. CASE UNCHANGED <<links, connected, published>>
    BY <1>5, <2>2
  <2> QED
    BY <1>2, <2>1, <2>2
<1>7. attempts' = attempts \/ attempts' = attempts \ {p}
  BY <1>2
<1>8. TypeOK'
  BY <1>1, <1>4, <1>6, <1>7 DEF HostInv, TypeOK, Waiter
<1>9. WaitersBounded'
  BY <1>4, <1>7 DEF WaitersBounded
<1> QED
  BY <1>4, <1>6, <1>8, <1>9 DEF HostInv, Agreement

LEMMA CloseKeeps ==
  ASSUME HostInv, NEW p \in Peer, Close(p)
  PROVE  HostInv'
<1>1. /\ running /\ links[p] > 0 /\ links' = [links EXCEPT ![p] = @ - 1]
      /\ completing = <<>>
      /\ UNCHANGED <<running, commands, attempts, pending, completing, answer, call>>
  BY DEF Close, Free
<1>2. links \in [Peer -> Nat] /\ connected = {q \in Peer : links[q] > 0} /\ published = connected
  BY <1>1 DEF HostInv, TypeOK, Agreement
<1>3. links' \in [Peer -> Nat] /\ \A q \in Peer : links'[q] = IF q = p THEN links[p] - 1 ELSE links[q]
  BY <1>1, <1>2
<1>4. connected' = {q \in Peer : links'[q] > 0} /\ published' = connected'
  <2>1. CASE links[p] = 1
    <3>1. connected' = connected \ {p} /\ published' = connected'
      BY <2>1 DEF Close
    <3> QED
      BY <1>2, <1>3, <2>1, <3>1
  <2>2. CASE links[p] # 1
    <3>1. connected' = connected /\ published' = published
      BY <2>2 DEF Close
    <3>2. links'[p] > 0
      BY <1>1, <1>2, <1>3, <2>2
    <3> QED
      BY <1>1, <1>2, <1>3, <3>1, <3>2
  <2> QED
    BY <2>1, <2>2
<1>5. TypeOK'
  BY <1>1, <1>3, <1>4 DEF HostInv, TypeOK
<1>6. SendersWait'
  BY <1>1 DEF HostInv, SendersWait, Waits
<1>7. OneSender'
  BY <1>1 DEF HostInv, OneSender, InChannel, InPending, InCompleting
<1> QED
  BY <1>1, <1>4, <1>5, <1>6, <1>7 DEF HostInv, WaitersBounded, Agreement

\* The handler answers the one waiter it holds.
LEMMA CompleteWaiterKeeps ==
  ASSUME HostInv, CompleteWaiter
  PROVE  HostInv'
<1> DEFINE w == completing[1]
<1>1. /\ completing \in Seq(Waiter) /\ completing # <<>> /\ Len(completing) <= 1
      /\ completing' = Tail(completing) /\ answer \in {"granted", "refused"}
      /\ UNCHANGED <<running, commands, attempts, links, connected, published, pending, answer>>
  BY DEF CompleteWaiter, HostInv, TypeOK, Waiter, OneSender, swarmVars
<1>2. Head(completing) = w /\ 1 \in DOMAIN completing /\ w \in Waiter /\ completing' = <<>>
  <2>1. /\ Head(completing) = w /\ 1 \in DOMAIN completing /\ w \in Waiter
        /\ completing' \in Seq(Waiter) /\ Len(completing') = Len(completing) - 1
    BY <1>1, TailElements
  <2>2. Len(completing') = 0
    BY <1>1, <2>1
  <2> QED
    BY <2>1, <2>2
<1>3. PICK p \in Peer : Waits(w, p)
  BY <1>2 DEF HostInv, SendersWait
<1>4. Send(w, answer)
  BY <1>2 DEF CompleteWaiter
<1> HIDE DEF w
<1>5. /\ call' \in [Caller -> {Idle} \cup Open]
      /\ \A c \in Caller : c # w => call'[c] = call[c]
  <2>1. CASE w = Dropped
    BY <1>4, <2>1 DEF Send, HostInv, TypeOK, Open
  <2>2. CASE w # Dropped
    <3>1. w \in Caller /\ call[w] = [state |-> "waiting", peer |-> p]
      BY <1>2, <1>3, <2>2 DEF Waiter, Waits
    <3>2. call[w] \in Open
      BY <3>1 DEF Open
    <3> QED
      BY <1>1, <1>4, <2>2, <3>1, <3>2, GotoCall DEF Send, HostInv
  <2> QED
    BY <2>1, <2>2
<1>6. \A c \in Caller : InChannel(c) \/ InPending(c) => c # w
  <2>1. \A c \in Caller : c = w => InCompleting(c)
    BY <1>2 DEF InCompleting, w
  <2> QED
    BY <2>1 DEF HostInv, OneSender
<1>7. TypeOK'
  BY <1>1, <1>2, <1>5 DEF HostInv, TypeOK, Open
<1>8. SendersWait'
  <2>1. ASSUME NEW k \in DOMAIN commands, commands[k].kind = "dial", commands[k].waiter # Dropped
        PROVE  call'[commands[k].waiter] = [state |-> "waiting", peer |-> commands[k].peer]
    <3>1. commands[k] \in Command /\ Waits(commands[k].waiter, commands[k].peer)
      BY <2>1 DEF HostInv, TypeOK, SendersWait
    <3>2. commands[k].waiter \in Caller
      BY <2>1, <3>1 DEF Command, Prune, Shutdown
    <3>3. commands[k].waiter # w
      BY <1>6, <2>1, <3>2 DEF InChannel
    <3> QED
      BY <1>5, <2>1, <3>1, <3>2, <3>3 DEF Waits
  <2>2. ASSUME NEW q \in Peer, NEW k \in DOMAIN pending[q], pending[q][k] # Dropped
        PROVE  call'[pending[q][k]] = [state |-> "waiting", peer |-> q]
    <3>1. pending[q][k] \in Caller /\ Waits(pending[q][k], q)
      BY <2>2 DEF HostInv, TypeOK, SendersWait
    <3>2. pending[q][k] # w
      BY <1>6, <3>1 DEF InPending
    <3> QED
      BY <1>5, <2>2, <3>1, <3>2 DEF Waits
  <2> QED
    BY <1>1, <1>2, <2>1, <2>2 DEF SendersWait, Waits
<1>9. OneSender'
  BY <1>1, <1>2 DEF HostInv, OneSender, InChannel, InPending, InCompleting
<1> QED
  BY <1>1, <1>7, <1>8, <1>9 DEF HostInv, WaitersBounded, Agreement

-------------------------------------------------------------------------------
\* HostInv holds at the start and every step keeps it.
THEOREM HostInvariant == Spec => []HostInv
<1>1. Init => HostInv
  <2> SUFFICES ASSUME Init PROVE HostInv
    OBVIOUS
  <2> USE DEF Init
  <2>1. TypeOK
    BY DEF TypeOK
  <2>2. WaitersBounded /\ Agreement
    BY DEF WaitersBounded, Agreement
  <2>3. SendersWait /\ OneSender
    BY DEF SendersWait, OneSender, InChannel, InPending, InCompleting
  <2> QED
    BY <2>1, <2>2, <2>3 DEF HostInv
<1>2. HostInv /\ [Next]_vars => HostInv'
  <2> SUFFICES ASSUME HostInv, [Next]_vars PROVE HostInv'
    OBVIOUS
  <2>1. ASSUME NEW c \in Caller, NEW p \in Peer, Connect(c, p) PROVE HostInv'
    BY <2>1, CallerKeeps
  <2>2. ASSUME NEW c \in Caller, SendDial(c) PROVE HostInv'
    BY <2>2, SendDialKeeps
  <2>3. ASSUME NEW c \in Caller, SendFails(c) \/ Answered(c) PROVE HostInv'
    BY <2>3, CallerKeeps
  <2>4. ASSUME NEW c \in Caller, TimesOut(c) \/ Abandon(c) PROVE HostInv'
    BY <2>4, DropKeeps
  <2>5. CASE RequestShutdown \/ \E c \in Caller : SendPrune(c)
    BY <2>5, SendKeeps
  <2>6. CASE HandleDial
    BY <2>6, HandleDialKeeps
  <2>7. CASE HandlePrune
    BY <2>7, HandlePruneKeeps
  <2>8. CASE HandleShutdown
    BY <2>8, HandleShutdownKeeps
  <2>9. CASE CompleteWaiter
    BY <2>9, CompleteWaiterKeeps
  <2>10. ASSUME NEW p \in Peer, DialSucceeds(p) \/ Accept(p) \/ DialFails(p) PROVE HostInv'
    BY <2>10, SwarmKeeps
  <2>11. ASSUME NEW p \in Peer, Close(p) PROVE HostInv'
    BY <2>11, CloseKeeps
  <2>12. CASE UNCHANGED vars
    <3>1. UNCHANGED <<running, commands, attempts, links, connected, published, pending,
                      completing, answer, call>>
      BY <2>12 DEF vars, swarmVars, loopVars
    <3>2. SendersWait' /\ OneSender'
      BY <3>1, QuietKeeps
    <3> QED
      BY <3>1, <3>2 DEF HostInv, TypeOK, WaitersBounded, Agreement
  <2> QED
    BY <2>1, <2>2, <2>3, <2>4, <2>5, <2>6, <2>7, <2>8, <2>9, <2>10, <2>11, <2>12
    DEF Next, CallerStep, LoopStep, SwarmEvent
<1> QED
  BY <1>1, <1>2, PTL DEF Spec

\* The host's variables keep their types (the state of Libp2pHost and
\* EventLoop, p2p.rs).
THEOREM HostTypeOK == Spec => []TypeOK
<1>1. HostInv => TypeOK
  BY DEF HostInv
<1> QED
  BY <1>1, HostInvariant, PTL

\* However many callers time out and however often they retry, a peer has at
\* most one waiter, and only while an attempt that will answer it is open
\* (dial, prune_dial_waiters and handle_swarm).
THEOREM HostWaitersBounded == Spec => []WaitersBounded
<1>1. HostInv => WaitersBounded
  BY DEF HostInv
<1> QED
  BY <1>1, HostInvariant, PTL

\* The published snapshot is the swarm's set of connected peers, whatever
\* number of simultaneous connections opens and closes (handle_swarm).
THEOREM HostSnapshotAccurate == Spec => []SnapshotAccurate
<1>1. HostInv => SnapshotAccurate
  BY DEF HostInv, Agreement, SnapshotAccurate
<1> QED
  BY <1>1, HostInvariant, PTL

-------------------------------------------------------------------------------
(***************************************************************************)
(* The host implements the connector: each step is a step of Connector or  *)
(* leaves its variables unchanged.                                         *)
(***************************************************************************)
Abstract == [c \in Caller |-> AbstractCall(c)]

\* What the abstract call is in each state of the call.
LEMMA AbstractValue ==
  ASSUME NEW c \in Caller
  PROVE  /\ call[c] = Idle => AbstractCall(c) = Idle
         /\ call[c] \in Open =>
              /\ AbstractCall(c) # Idle /\ AbstractCall(c).peer = call[c].peer
              /\ AbstractCall(c) = [state |-> AbstractCall(c).state, peer |-> call[c].peer]
              /\ call[c].state \in {"granted", "refused"} => AbstractCall(c).state = call[c].state
              /\ call[c].state \notin {"granted", "refused"} => AbstractCall(c).state = "open"
<1>1. call[c] \in Open => call[c] # Idle
  BY DEF Open, Idle
<1>2. call[c] = Idle => AbstractCall(c) = Idle
  BY DEF AbstractCall
<1>3. ASSUME call[c] \in Open
      PROVE  AbstractCall(c) = [state |-> IF call[c].state = "granted" THEN "granted"
                                          ELSE IF call[c].state = "refused" THEN "refused" ELSE "open",
                                peer |-> call[c].peer]
  BY <1>1, <1>3 DEF AbstractCall, At
<1>4. ASSUME call[c] \in Open PROVE AbstractCall(c) # Idle
  BY <1>3, <1>4 DEF Idle
<1> QED
  BY <1>2, <1>3, <1>4

\* The connector sees nothing of a step that changes no abstract call.
LEMMA AbstractUnchanged ==
  ASSUME \A c \in Caller : AbstractCall(c)' = AbstractCall(c), UNCHANGED published
  PROVE  UNCHANGED Promise!connectorVars
<1>1. Abstract' = Abstract
  BY DEF Abstract
<1> QED
  BY <1>1 DEF Promise!connectorVars, Abstract

LEMMA AbstractOthers ==
  ASSUME NEW c, call'[c] = call[c]
  PROVE  AbstractCall(c)' = AbstractCall(c)
  BY DEF AbstractCall, At

\* A call returns or is dropped.
LEMMA RefinesFinish ==
  ASSUME HostInv, NEW c \in Caller, call[c] # Idle, Return(c), UNCHANGED published
  PROVE  Promise!Finish(c)
<1>1. call[c] \in Open
  BY OpenCall DEF HostInv
<1>2. call'[c] = Idle /\ \A d \in Caller : d # c => call'[d] = call[d]
  BY ReturnCall DEF HostInv
<1>3. AbstractCall(c) # Idle /\ AbstractCall(c)' = Idle
  BY <1>1, <1>2, AbstractValue DEF AbstractCall
<1>4. \A d \in Caller : d # c => AbstractCall(d)' = AbstractCall(d)
  BY <1>2, AbstractOthers
<1>5. Abstract[c] # Idle /\ Abstract' = [Abstract EXCEPT ![c] = Idle]
  BY <1>3, <1>4 DEF Abstract
<1> QED
  BY <1>5 DEF Promise!Finish, Promise!Idle, Abstract, Idle

\* A sender is used: true only for a peer that is in the snapshot.
LEMMA RefinesAnswer ==
  ASSUME HostInv, NEW w \in Waiter, NEW p \in Peer, Waits(w, p),
         NEW reply \in {"granted", "refused"}, Send(w, reply), UNCHANGED published,
         reply = "granted" => p \in published
  PROVE  [Promise!Next]_(Promise!connectorVars)
<1>1. CASE w = Dropped
  <2>1. call' = call
    BY <1>1 DEF Send
  <2>2. UNCHANGED Promise!connectorVars
    BY <2>1, AbstractOthers, AbstractUnchanged
  <2> QED
    BY <2>2
<1>2. CASE w # Dropped
  <2>1. w \in Caller /\ call[w] = [state |-> "waiting", peer |-> p]
    BY <1>2 DEF Waiter, Waits
  <2>2. call[w] \in Open /\ call[w].peer = p /\ call[w].state = "waiting"
    BY <2>1 DEF Open
  <2>3. /\ call'[w] = [state |-> reply, peer |-> p]
        /\ \A d \in Caller : d # w => call'[d] = call[d]
    BY <1>2, <2>1, <2>2, GotoCall DEF Send, HostInv
  <2>4. AbstractCall(w).state = "open" /\ AbstractCall(w).peer = p
    BY <2>1, <2>2, AbstractValue
  <2>5. AbstractCall(w)' = [state |-> reply, peer |-> p]
    BY <2>3 DEF AbstractCall, At, Idle
  <2>6. \A d \in Caller : d # w => AbstractCall(d)' = AbstractCall(d)
    BY <2>3, AbstractOthers
  <2>7. /\ Abstract[w].state = "open" /\ Abstract[w].peer = p
        /\ Abstract' = [Abstract EXCEPT ![w] = [state |-> reply, peer |-> Abstract[w].peer]]
    BY <2>1, <2>4, <2>5, <2>6 DEF Abstract
  <2>8. CASE reply = "granted"
    <3>1. Promise!Grant(w)
      BY <2>7, <2>8 DEF Promise!Grant, Abstract
    <3> QED
      BY <2>1, <3>1 DEF Promise!Next
  <2>9. CASE reply = "refused"
    <3>1. Abstract' = [d \in Caller |-> IF d \in {w} THEN [state |-> "refused", peer |-> Abstract[d].peer]
                                                    ELSE Abstract[d]]
      BY <2>1, <2>4, <2>5, <2>6, <2>9 DEF Abstract
    <3>2. Promise!Refuse({w})
      BY <2>7, <3>1 DEF Promise!Refuse, Abstract
    <3> QED
      BY <2>1, <3>2 DEF Promise!Next
  <2> QED
    BY <2>8, <2>9
<1> QED
  BY <1>1, <1>2

\* The loop ends: every call that waits is refused at once.
LEMMA RefinesShutdown ==
  ASSUME HostInv, HandleShutdown
  PROVE  [Promise!Next]_(Promise!connectorVars)
<1> DEFINE cs == {c \in Caller : At(c, "waiting")}
<1>1. UNCHANGED published
  BY DEF HandleShutdown
<1>2. \A c \in Caller : c \notin cs => AbstractCall(c)' = AbstractCall(c)
  <2>1. \A c \in Caller : c \notin cs => call'[c] = call[c]
    BY DEF HandleShutdown
  <2> QED
    BY <2>1, AbstractOthers
<1>3. ASSUME NEW c \in cs
      PROVE  /\ AbstractCall(c).state = "open"
             /\ AbstractCall(c)' = [state |-> "refused", peer |-> AbstractCall(c).peer]
  <2>1. call[c] \in Open /\ call[c].state = "waiting"
    BY <1>3, AtOpen DEF HostInv, At
  <2>2. AbstractCall(c).state = "open" /\ AbstractCall(c).peer = call[c].peer
    BY <2>1, AbstractValue
  <2>3. call'[c] = [call[c] EXCEPT !.state = "refused"]
    BY DEF HandleShutdown
  <2>4. call'[c] = [state |-> "refused", peer |-> call[c].peer]
    BY <2>1, <2>3 DEF Open
  <2>5. AbstractCall(c)' = [state |-> "refused", peer |-> call[c].peer]
    BY <2>4 DEF AbstractCall, At, Idle
  <2> QED
    BY <2>2, <2>5
<1>4. CASE cs = {}
  <2>1. UNCHANGED Promise!connectorVars
    BY <1>1, <1>2, <1>4, AbstractUnchanged
  <2> QED
    BY <2>1
<1>5. CASE cs # {}
  <2>1. Abstract' = [c \in Caller |-> IF c \in cs THEN [state |-> "refused", peer |-> Abstract[c].peer]
                                                  ELSE Abstract[c]]
    BY <1>2, <1>3 DEF Abstract
  <2>2. \A c \in cs : Abstract[c].state = "open"
    BY <1>3 DEF Abstract
  <2> HIDE DEF cs
  <2>3. Promise!Refuse(cs)
    BY <1>1, <1>5, <2>1, <2>2 DEF Promise!Refuse, Abstract
  <2>4. cs \in SUBSET Caller
    BY DEF cs
  <2> QED
    BY <2>3, <2>4 DEF Promise!Next
<1> QED
  BY <1>4, <1>5

\* connect returns true only for a peer the snapshot showed during the call:
\* the event loop publishes before it answers (p2p.rs:423-431), a dial to a
\* connected peer is answered from the published set, and a waiter is only
\* ever answered about the peer its call named.
THEOREM HostImplementsConnector == Spec => ImplementsConnector
<1>1. Init => Promise!Init
  <2> SUFFICES ASSUME Init PROVE Promise!Init
    OBVIOUS
  <2>1. \A c \in Caller : AbstractCall(c) = Idle
    BY DEF Init, AbstractCall
  <2> QED
    BY <2>1 DEF Init, Promise!Init, Promise!Idle, Idle
<1>2. HostInv /\ [Next]_vars => [Promise!Next]_(Promise!connectorVars)
  <2> SUFFICES ASSUME HostInv, [Next]_vars
               PROVE  [Promise!Next]_(Promise!connectorVars)
    OBVIOUS
  <2>1. ASSUME NEW c \in Caller, NEW p \in Peer, Connect(c, p)
        PROVE  Promise!Connect(c, p)
    <3>1. /\ call[c] = Idle /\ call'[c] = [state |-> "sending", peer |-> p]
          /\ UNCHANGED published
          /\ \A d \in Caller : d # c => call'[d] = call[d]
      BY <2>1 DEF Connect, HostInv, TypeOK, loopVars
    <3>2. AbstractCall(c) = Idle /\ AbstractCall(c)' = [state |-> "open", peer |-> p]
      BY <3>1 DEF AbstractCall, At, Idle
    <3>3. \A d \in Caller : d # c => AbstractCall(d)' = AbstractCall(d)
      BY <3>1, AbstractOthers
    <3>4. Abstract[c] = Idle /\ Abstract' = [Abstract EXCEPT ![c] = [state |-> "open", peer |-> p]]
      BY <3>2, <3>3 DEF Abstract
    <3> QED
      BY <3>1, <3>4 DEF Promise!Connect, Promise!Idle, Abstract, Idle
  <2>2. ASSUME NEW c \in Caller, SendFails(c) \/ Answered(c) \/ SendPrune(c) \/ Abandon(c)
        PROVE  Promise!Finish(c)
    <3>1. call[c] # Idle /\ Return(c) /\ UNCHANGED published
      BY <2>2 DEF SendFails, Answered, SendPrune, Abandon, At, Idle, loopVars
    <3> QED
      BY <3>1, RefinesFinish
  <2>3. ASSUME NEW c \in Caller, SendDial(c) \/ TimesOut(c)
        PROVE  UNCHANGED Promise!connectorVars
    <3>1. PICK from \in {"sending", "waiting"}, to \in {"waiting", "pruning"} :
            At(c, from) /\ Goto(c, to)
      BY <2>3 DEF SendDial, TimesOut
    <3>2. call[c] \in Open /\ UNCHANGED published
      BY <2>3, <3>1, AtOpen DEF SendDial, TimesOut, HostInv, loopVars
    <3>3. /\ call'[c] = [state |-> to, peer |-> call[c].peer]
          /\ \A d \in Caller : d # c => call'[d] = call[d]
      BY <3>1, <3>2, GotoCall DEF HostInv
    <3>4. AbstractCall(c) = [state |-> "open", peer |-> call[c].peer]
      BY <3>1, <3>2 DEF AbstractCall, At, Open, Idle
    <3>5. AbstractCall(c)' = [state |-> "open", peer |-> call[c].peer]
      BY <3>1, <3>3 DEF AbstractCall, At, Idle
    <3>6. \A d \in Caller : d # c => AbstractCall(d)' = AbstractCall(d)
      BY <3>3, AbstractOthers
    <3> QED
      BY <3>2, <3>4, <3>5, <3>6, AbstractUnchanged
  <2>4. CASE RequestShutdown \/ HandlePrune \/ UNCHANGED vars \/ \E p \in Peer : DialFails(p)
    <3>1. UNCHANGED <<call, published>>
      BY <2>4 DEF RequestShutdown, HandlePrune, DialFails, vars, loopVars
    <3>2. UNCHANGED Promise!connectorVars
      BY <3>1, AbstractOthers, AbstractUnchanged
    <3> QED
      BY <3>2
  <2>5. CASE HandleDial
    <3> DEFINE w == Head(commands).waiter
               p == Head(commands).peer
    <3>1. w \in Waiter /\ p \in Peer /\ Waits(w, p) /\ UNCHANGED published
      BY <2>5, TakesCommand DEF HandleDial
    <3>2. CASE UNCHANGED call
      <4>1. UNCHANGED Promise!connectorVars
        BY <3>1, <3>2, AbstractOthers, AbstractUnchanged
      <4> QED
        BY <4>1
    <3>3. ASSUME NEW reply \in {"granted", "refused"}, Send(w, reply), reply = "granted" => p \in connected
          PROVE  [Promise!Next]_(Promise!connectorVars)
      <4>1. reply = "granted" => p \in published
        BY <3>3 DEF HostInv, Agreement
      <4> HIDE DEF w, p
      <4> QED
        BY <3>1, <3>3, <4>1, RefinesAnswer
    <3>4. \/ UNCHANGED call
          \/ \E reply \in {"granted", "refused"} : Send(w, reply) /\ (reply = "granted" => p \in connected)
      BY <2>5 DEF HandleDial
    <3> QED
      BY <3>2, <3>3, <3>4
  <2>6. CASE HandleShutdown
    BY <2>6, RefinesShutdown
  <2>7. CASE CompleteWaiter
    <3>1. completing \in Seq(Waiter) /\ completing # <<>> /\ answer \in {"granted", "refused"}
      BY <2>7 DEF CompleteWaiter, HostInv, TypeOK, Waiter
    <3>2. Head(completing) = completing[1] /\ 1 \in DOMAIN completing /\ completing[1] \in Waiter
      BY <3>1, TailElements
    <3>3. Send(completing[1], answer) /\ UNCHANGED published
      BY <2>7, <3>2 DEF CompleteWaiter
    <3>4. PICK p \in Peer : Waits(completing[1], p) /\ (answer = "granted" => p \in published)
      BY <3>2 DEF HostInv, SendersWait
    <3> QED
      BY <3>1, <3>2, <3>3, <3>4, RefinesAnswer
  <2>8. ASSUME NEW p \in Peer, DialSucceeds(p) \/ Accept(p)
        PROVE  Promise!Connects(p)
    <3>1. published' = published \cup {p} /\ UNCHANGED call
      BY <2>8 DEF DialSucceeds, Accept, Established, HostInv, Agreement
    <3>2. Abstract' = Abstract
      BY <3>1, AbstractOthers DEF Abstract
    <3> QED
      BY <3>1, <3>2 DEF Promise!Connects, Abstract
  <2>9. ASSUME NEW p \in Peer, Close(p)
        PROVE  Promise!Disconnects(p) \/ UNCHANGED Promise!connectorVars
    <3>1. UNCHANGED call /\ (published' = published \ {p} \/ UNCHANGED published)
      BY <2>9 DEF Close, HostInv, Agreement
    <3>2. Abstract' = Abstract
      BY <3>1, AbstractOthers DEF Abstract
    <3> QED
      BY <3>1, <3>2 DEF Promise!Disconnects, Promise!connectorVars, Abstract
  <2> QED
    BY <2>1, <2>2, <2>3, <2>4, <2>5, <2>6, <2>7, <2>8, <2>9
    DEF Next, CallerStep, LoopStep, SwarmEvent, Promise!Next
<1> QED
  BY <1>1, <1>2, HostInvariant, PTL DEF Spec, ImplementsConnector, Promise!Spec

===============================================================================
