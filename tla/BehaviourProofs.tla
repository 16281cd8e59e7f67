----------------------------- MODULE BehaviourProofs -----------------------------
(***************************************************************************)
(* For any number of peers, callers and connections and any queue depth:   *)
(* the behaviour's waiters are served, its count is the Swarm's, and it    *)
(* implements the connector the controller relies on.                      *)
(***************************************************************************)
EXTENDS Behaviour, FiniteSetTheorems, SequenceTheorems, TLAPS

\* w, unless its receiver is gone, is a caller whose connect to p waits.
Waits(w, p) == w # Dropped => call[w] = [state |-> "waiting", peer |-> p]

InRequests(c) == \E k \in DOMAIN requests : requests[k].waiter = c
InWaiters(c) == \E p \in Peer : \E k \in DOMAIN waiters[p] : waiters[p][k] = c
InResolving(c) == \E k \in DOMAIN resolving : resolving[k] = c

\* Whoever holds the sender of a call, the call waits for it, and for the peer
\* that the holder answers about; an event that grants has counted the peer.
SendersWait ==
  /\ \A k \in DOMAIN requests : Waits(requests[k].waiter, requests[k].peer)
  /\ \A p \in Peer : \A k \in DOMAIN waiters[p] : Waits(waiters[p][k], p)
  /\ \A k \in DOMAIN resolving :
       \E p \in Peer : Waits(resolving[k], p) /\ (answer = "granted" => p \in counted)

\* Each call has one sender, in one place.
OneSender ==
  /\ \A j, k \in DOMAIN requests :
       requests[j].waiter = requests[k].waiter /\ requests[j].waiter # Dropped => j = k
  /\ \A j, k \in DOMAIN resolving : resolving[j] = resolving[k] /\ resolving[j] # Dropped => j = k
  /\ \A c \in Caller : InRequests(c) => ~InWaiters(c) /\ ~InResolving(c)
  /\ \A c \in Caller : InWaiters(c) => ~InResolving(c)

\* The behaviour's set, the count and the Swarm agree while the Swarm lives.
Agreement ==
  /\ counted = connected
  /\ running => connected = {p \in Peer : links[p] > 0}

BehaviourInv == TypeOK /\ WaitersServed /\ Agreement /\ SendersWait /\ OneSender

-------------------------------------------------------------------------------
\* Mapping the elements of a sequence keeps its length.
LEMMA MappedSeq ==
  ASSUME NEW S, NEW T, NEW s \in Seq(S), NEW t,
         t = [k \in DOMAIN s |-> t[k]], \A k \in DOMAIN s : t[k] \in T
  PROVE  t \in Seq(T) /\ Len(t) = Len(s) /\ DOMAIN t = DOMAIN s
<1>1. DOMAIN s = 1..Len(s) /\ Len(s) \in Nat
  BY LenProperties
<1>2. t \in [1..Len(s) -> T]
  BY <1>1
<1> QED
  BY <1>1, <1>2, IsASeq, LenProperties

\* Elements of a sequence without its head, and of one with a new end.
LEMMA TailElements ==
  ASSUME NEW S, NEW s \in Seq(S), s # <<>>
  PROVE  /\ Head(s) = s[1] /\ 1 \in DOMAIN s /\ s[1] \in S
         /\ Tail(s) \in Seq(S)
         /\ \A k \in DOMAIN Tail(s) : k + 1 \in DOMAIN s /\ k \in Nat \ {0} /\ Tail(s)[k] = s[k + 1]
  OBVIOUS

LEMMA AppendElements ==
  ASSUME NEW S, NEW s \in Seq(S), NEW e \in S, NEW k \in DOMAIN Append(s, e)
  PROVE  \/ k \in DOMAIN s /\ Append(s, e)[k] = s[k]
         \/ k = Len(s) + 1 /\ Append(s, e)[k] = e
  OBVIOUS

LEMMA OneElement ==
  ASSUME NEW S, NEW s \in Seq(S), Len(s) <= 1, NEW j \in DOMAIN s
  PROVE  j = 1
  BY LenProperties

-------------------------------------------------------------------------------
DialRequest == [waiter : Waiter, peer : Peer]
Notice == [kind : {"Dialing", "Connected", "DialFailed"}, peer : Peer]
Open == [state : {"sending", "waiting", "granted", "refused"}, peer : Peer]

\* A call that is not idle has a peer, and keeps it when it goes on.
LEMMA AtOpen ==
  ASSUME TypeOK, NEW c \in Caller, NEW state, At(c, state), state # "idle"
  PROVE  call[c] \in Open
  BY DEF TypeOK, Open, At, Idle

LEMMA GotoCall ==
  ASSUME TypeOK, NEW c \in Caller, call[c] \in Open,
         NEW state \in {"sending", "waiting", "granted", "refused"}, Goto(c, state)
  PROVE  /\ call' \in [Caller -> {Idle} \cup Open]
         /\ call'[c] = [state |-> state, peer |-> call[c].peer]
         /\ \A d \in Caller : d # c => call'[d] = call[d]
  BY DEF TypeOK, Open, Goto

LEMMA ReturnCall ==
  ASSUME TypeOK, NEW c \in Caller, call' = [call EXCEPT ![c] = Idle]
  PROVE  /\ call' \in [Caller -> {Idle} \cup Open]
         /\ call'[c] = Idle
         /\ \A d \in Caller : d # c => call'[d] = call[d]
  BY DEF TypeOK, Open

\* Senders are senders of callers, or their receivers are gone.
LEMMA HeldTypes ==
  ASSUME TypeOK
  PROVE  /\ \A k \in DOMAIN requests : requests[k].waiter \in Waiter /\ requests[k].peer \in Peer
         /\ \A p \in Peer : \A k \in DOMAIN waiters[p] : waiters[p][k] \in Waiter
         /\ \A k \in DOMAIN resolving : resolving[k] \in Waiter
<1>1. \A k \in DOMAIN requests : requests[k] \in DialRequest
  <2>1. requests \in Seq(DialRequest)
    BY DEF TypeOK, DialRequest
  <2> QED
    BY <2>1
<1>2. \A k \in DOMAIN requests : requests[k].waiter \in Waiter /\ requests[k].peer \in Peer
  BY <1>1 DEF DialRequest
<1>3. \A p \in Peer : \A k \in DOMAIN waiters[p] : waiters[p][k] \in Waiter
  BY DEF TypeOK
<1>4. \A k \in DOMAIN resolving : resolving[k] \in Waiter
  BY DEF TypeOK
<1> QED
  BY <1>2, <1>3, <1>4

\* The caller behind a sender waits.
LEMMA HeldWaits ==
  ASSUME BehaviourInv, NEW c \in Caller, InRequests(c) \/ InWaiters(c) \/ InResolving(c)
  PROVE  At(c, "waiting")
<1>1. \A p \in Peer : Waits(c, p) => At(c, "waiting")
  BY BehaviourAssumption DEF Waits, At
<1>2. CASE InRequests(c)
  BY <1>1, <1>2, HeldTypes DEF BehaviourInv, SendersWait, InRequests
<1>3. CASE InWaiters(c)
  BY <1>1, <1>3 DEF BehaviourInv, SendersWait, InWaiters
<1>4. CASE InResolving(c)
  BY <1>1, <1>4 DEF BehaviourInv, SendersWait, InResolving
<1> QED
  BY <1>2, <1>3, <1>4

\* Steps that leave the senders where they are, and every call that waits.
LEMMA QuietKeeps ==
  ASSUME BehaviourInv, UNCHANGED <<requests, waiters, resolving, answer>>,
         resolving = <<>> \/ UNCHANGED counted,
         \A c \in Caller : At(c, "waiting") => call'[c] = call[c]
  PROVE  SendersWait' /\ OneSender'
<1>1. \A w \in Waiter, p \in Peer : Waits(w, p) => Waits(w, p)'
  BY DEF Waits, Waiter, At
<1>2. /\ \A k \in DOMAIN requests : requests[k].waiter \in Waiter /\ requests[k].peer \in Peer
      /\ \A p \in Peer : \A k \in DOMAIN waiters[p] : waiters[p][k] \in Waiter
      /\ \A k \in DOMAIN resolving : resolving[k] \in Waiter
  BY HeldTypes DEF BehaviourInv
<1>3. SendersWait'
  BY <1>1, <1>2 DEF BehaviourInv, SendersWait
<1>4. OneSender'
  BY DEF BehaviourInv, OneSender, InRequests, InWaiters, InResolving
<1> QED
  BY <1>3, <1>4

-------------------------------------------------------------------------------
\* Connect, a return and the steps that touch no sender.
LEMMA CallerKeeps ==
  ASSUME BehaviourInv, NEW c \in Caller, (\E p \in Peer : Connect(c, p)) \/ Returns(c)
  PROVE  BehaviourInv'
<1>1. /\ UNCHANGED <<running, requests, waiters, connected, counted, queue, resolving, answer, attempts, links>>
      /\ ~At(c, "waiting")
  BY DEF Connect, Returns, At, Idle, behaviourVars, connectivityVars, swarmVars
<1>2. /\ call' \in [Caller -> {Idle} \cup Open]
      /\ \A d \in Caller : d # c => call'[d] = call[d]
  <2>1. CASE \E p \in Peer : Connect(c, p)
    BY <2>1 DEF BehaviourInv, TypeOK, Connect, Open
  <2>2. CASE Returns(c)
    BY <2>2, ReturnCall DEF Returns, BehaviourInv
  <2> QED
    BY <2>1, <2>2
<1>3. TypeOK'
  BY <1>1, <1>2 DEF BehaviourInv, TypeOK, Open
<1>4. SendersWait' /\ OneSender'
  <2>1. \A d \in Caller : At(d, "waiting") => call'[d] = call[d]
    BY <1>1, <1>2
  <2> QED
    BY <1>1, <2>1, QuietKeeps
<1> QED
  BY <1>1, <1>3, <1>4 DEF BehaviourInv, WaitersServed, Agreement

\* A request enters the channel with the only sender of its call.
LEMMA RequestKeeps ==
  ASSUME BehaviourInv, NEW c \in Caller, Request(c)
  PROVE  BehaviourInv'
<1> DEFINE d == [waiter |-> c, peer |-> call[c].peer]
<1>1. call[c] \in Open
  BY AtOpen DEF Request, BehaviourInv
<1>2. d \in DialRequest /\ d.waiter = c /\ d.peer = call[c].peer
  BY <1>1 DEF Open, DialRequest, Waiter
<1>3. /\ call' \in [Caller -> {Idle} \cup Open]
      /\ call'[c] = [state |-> "waiting", peer |-> call[c].peer]
      /\ \A e \in Caller : e # c => call'[e] = call[e]
  BY <1>1, GotoCall DEF Request, BehaviourInv
<1>4. ~InRequests(c) /\ ~InWaiters(c) /\ ~InResolving(c)
  BY HeldWaits DEF Request, At
<1>5. /\ requests' = Append(requests, d) /\ requests \in Seq(DialRequest)
      /\ UNCHANGED <<running, waiters, connected, counted, queue, resolving, answer, attempts, links>>
  BY DEF Request, BehaviourInv, TypeOK, DialRequest, behaviourVars, connectivityVars, swarmVars
<1> HIDE DEF d
<1>6. requests' \in Seq(DialRequest)
  BY <1>2, <1>5
<1>7. \A k \in DOMAIN requests' :
        \/ k \in DOMAIN requests /\ requests'[k] = requests[k]
        \/ k = Len(requests) + 1 /\ requests'[k] = d
  BY <1>2, <1>5, AppendElements
<1>8. TypeOK'
  BY <1>3, <1>5, <1>6 DEF BehaviourInv, TypeOK, Open, DialRequest
<1>9. \A w \in Waiter, p \in Peer :
        Waits(w, p) /\ w # Dropped /\ w # c => call'[w] = [state |-> "waiting", peer |-> p]
  BY <1>3 DEF Waits, Waiter
<1>10. SendersWait'
  <2>1. ASSUME NEW k \in DOMAIN requests', requests'[k].waiter # Dropped
        PROVE  call'[requests'[k].waiter] = [state |-> "waiting", peer |-> requests'[k].peer]
    <3>1. CASE k \in DOMAIN requests /\ requests'[k] = requests[k]
      <4>1. /\ requests[k].waiter \in Waiter /\ requests[k].peer \in Peer /\ requests[k].waiter # c
            /\ Waits(requests[k].waiter, requests[k].peer)
        BY <1>4, <3>1, HeldTypes DEF BehaviourInv, SendersWait, InRequests
      <4> QED
        BY <1>9, <2>1, <3>1, <4>1
    <3>2. CASE requests'[k] = d
      BY <1>2, <1>3, <3>2
    <3> QED
      BY <1>7, <3>1, <3>2
  <2>2. ASSUME NEW p \in Peer, NEW k \in DOMAIN waiters[p], waiters[p][k] # Dropped
        PROVE  call'[waiters[p][k]] = [state |-> "waiting", peer |-> p]
    <3>1. waiters[p][k] \in Waiter /\ waiters[p][k] # c /\ Waits(waiters[p][k], p)
      BY <1>4, HeldTypes DEF BehaviourInv, SendersWait, InWaiters
    <3> QED
      BY <1>9, <2>2, <3>1
  <2>3. ASSUME NEW k \in DOMAIN resolving
        PROVE  \E p \in Peer :
                 /\ resolving[k] # Dropped => call'[resolving[k]] = [state |-> "waiting", peer |-> p]
                 /\ answer = "granted" => p \in counted
    <3>1. resolving[k] \in Waiter /\ resolving[k] # c
      BY <1>4, HeldTypes DEF BehaviourInv, InResolving
    <3>2. PICK p \in Peer : Waits(resolving[k], p) /\ (answer = "granted" => p \in counted)
      BY DEF BehaviourInv, SendersWait
    <3> QED
      BY <1>9, <3>1, <3>2
  <2> QED
    BY <1>5, <2>1, <2>2, <2>3 DEF SendersWait, Waits
<1>11. OneSender'
  <2>1. \A e \in Caller : /\ InRequests(e)' => InRequests(e) \/ e = c
                          /\ InWaiters(e)' <=> InWaiters(e)
                          /\ InResolving(e)' <=> InResolving(e)
    BY <1>2, <1>5, <1>7 DEF InRequests, InWaiters, InResolving
  <2>2. \A j, k \in DOMAIN requests' :
          requests'[j].waiter = requests'[k].waiter /\ requests'[j].waiter # Dropped => j = k
    <3>1. \A k \in DOMAIN requests : requests[k].waiter # c
      BY <1>4 DEF InRequests
    <3> QED
      BY <1>2, <1>7, <3>1 DEF BehaviourInv, OneSender
  <2>3. \A j, k \in DOMAIN resolving' :
          resolving'[j] = resolving'[k] /\ resolving'[j] # Dropped => j = k
    BY <1>5 DEF BehaviourInv, OneSender
  <2> QED
    BY <1>4, <2>1, <2>2, <2>3 DEF BehaviourInv, OneSender
<1> QED
  BY <1>5, <1>8, <1>10, <1>11 DEF BehaviourInv, WaitersServed, Agreement

\* Dropping the receiver of c only replaces c by Dropped, wherever it is.
LEMMA GivesUpKeeps ==
  ASSUME BehaviourInv, NEW c \in Caller, GivesUp(c)
  PROVE  BehaviourInv'
<1> DEFINE drop(w) == IF w = c THEN Dropped ELSE w
<1>1. UNCHANGED <<running, connected, counted, queue, answer, attempts, links>>
  BY DEF GivesUp, connectivityVars, swarmVars
<1>2. /\ call' \in [Caller -> {Idle} \cup Open]
      /\ \A d \in Caller : d # c => call'[d] = call[d]
  BY ReturnCall DEF GivesUp, BehaviourInv
<1>3. /\ \A w \in Waiter : drop(w) \in Waiter
      /\ \A w \in Waiter, d \in Caller : drop(w) = d => w = d
      /\ \A v, w \in Waiter : drop(v) = drop(w) /\ drop(v) # Dropped => v = w /\ v # Dropped
      /\ \A w \in Waiter, p \in Peer :
           Waits(w, p) /\ drop(w) # Dropped => call'[drop(w)] = [state |-> "waiting", peer |-> p]
  BY <1>2, BehaviourAssumption DEF Waiter, Waits
<1>4. /\ requests' \in Seq(DialRequest) /\ DOMAIN requests' = DOMAIN requests
      /\ \A k \in DOMAIN requests : /\ requests[k].waiter \in Waiter /\ requests[k].peer \in Peer
                                    /\ requests'[k].waiter = drop(requests[k].waiter)
                                    /\ requests'[k].peer = requests[k].peer
  <2>1. requests' = [k \in DOMAIN requests |-> [requests[k] EXCEPT !.waiter = drop(requests[k].waiter)]]
    BY DEF GivesUp
  <2>2. requests \in Seq(DialRequest)
    BY DEF BehaviourInv, TypeOK, DialRequest
  <2>3. \A k \in DOMAIN requests : requests[k] \in DialRequest
    BY <2>2
  <2> HIDE DEF drop
  <2>4. \A k \in DOMAIN requests : /\ requests[k].waiter \in Waiter /\ requests[k].peer \in Peer
                                   /\ requests'[k].waiter = drop(requests[k].waiter)
                                   /\ requests'[k].peer = requests[k].peer
                                   /\ requests'[k] \in DialRequest
    BY <1>3, <2>1, <2>3 DEF DialRequest
  <2>5. requests' = [k \in DOMAIN requests |-> requests'[k]]
    BY <2>1
  <2>6. requests' \in Seq(DialRequest) /\ DOMAIN requests' = DOMAIN requests
    BY <2>2, <2>4, <2>5, MappedSeq
  <2> QED
    BY <2>4, <2>6
<1>5. /\ waiters' \in [Peer -> Seq(Waiter)]
      /\ \A p \in Peer :
           /\ DOMAIN waiters'[p] = DOMAIN waiters[p] /\ Len(waiters'[p]) = Len(waiters[p])
           /\ waiters[p] = <<>> => waiters'[p] = <<>>
           /\ \A k \in DOMAIN waiters[p] :
                waiters[p][k] \in Waiter /\ waiters'[p][k] = drop(waiters[p][k])
  <2>1. waiters' = [p \in Peer |-> [k \in DOMAIN waiters[p] |-> drop(waiters[p][k])]]
    BY DEF GivesUp
  <2> HIDE DEF drop
  <2> SUFFICES ASSUME NEW p \in Peer
               PROVE  /\ waiters'[p] \in Seq(Waiter)
                      /\ DOMAIN waiters'[p] = DOMAIN waiters[p] /\ Len(waiters'[p]) = Len(waiters[p])
                      /\ waiters[p] = <<>> => waiters'[p] = <<>>
                      /\ \A k \in DOMAIN waiters[p] :
                           waiters[p][k] \in Waiter /\ waiters'[p][k] = drop(waiters[p][k])
    BY <2>1
  <2> DEFINE s == waiters[p]
             t == waiters'[p]
  <2>2. s \in Seq(Waiter)
    BY DEF BehaviourInv, TypeOK
  <2>3. t = [k \in DOMAIN s |-> drop(s[k])]
    BY <2>1
  <2> HIDE DEF s, t
  <2>4. \A k \in DOMAIN s : s[k] \in Waiter /\ t[k] = drop(s[k])
    BY <2>2, <2>3
  <2>5. t = [k \in DOMAIN s |-> t[k]] /\ \A k \in DOMAIN s : t[k] \in Waiter
    BY <1>3, <2>3, <2>4
  <2>6. t \in Seq(Waiter) /\ Len(t) = Len(s) /\ DOMAIN t = DOMAIN s
    BY <2>2, <2>5, MappedSeq
  <2>7. s = <<>> => t = <<>>
    BY <2>6
  <2> QED
    BY <2>4, <2>6, <2>7 DEF s, t
<1>6. /\ resolving' \in Seq(Waiter) /\ DOMAIN resolving' = DOMAIN resolving
      /\ \A k \in DOMAIN resolving :
           resolving[k] \in Waiter /\ resolving'[k] = drop(resolving[k])
  <2>1. resolving \in Seq(Waiter)
    BY DEF BehaviourInv, TypeOK
  <2>2. resolving' = [k \in DOMAIN resolving |-> drop(resolving[k])]
    BY DEF GivesUp
  <2> HIDE DEF drop
  <2>3. \A k \in DOMAIN resolving : resolving[k] \in Waiter /\ resolving'[k] = drop(resolving[k])
    BY <2>1, <2>2
  <2>4. /\ resolving' = [k \in DOMAIN resolving |-> resolving'[k]]
        /\ \A k \in DOMAIN resolving : resolving'[k] \in Waiter
    BY <1>3, <2>2, <2>3
  <2> QED
    BY <2>1, <2>3, <2>4, MappedSeq
<1> HIDE DEF drop
<1>7. TypeOK'
  BY <1>1, <1>2, <1>4, <1>5, <1>6 DEF BehaviourInv, TypeOK, Open, DialRequest
<1>8. WaitersServed'
  BY <1>1, <1>5 DEF BehaviourInv, WaitersServed
<1>9. SendersWait'
  <2>1. \A k \in DOMAIN requests' : requests'[k].waiter # Dropped =>
          call'[requests'[k].waiter] = [state |-> "waiting", peer |-> requests'[k].peer]
    BY <1>3, <1>4 DEF BehaviourInv, SendersWait
  <2>2. \A p \in Peer : \A k \in DOMAIN waiters'[p] : waiters'[p][k] # Dropped =>
          call'[waiters'[p][k]] = [state |-> "waiting", peer |-> p]
    BY <1>3, <1>5 DEF BehaviourInv, SendersWait
  <2>3. \A k \in DOMAIN resolving' : \E p \in Peer :
          /\ resolving'[k] # Dropped => call'[resolving'[k]] = [state |-> "waiting", peer |-> p]
          /\ answer' = "granted" => p \in counted'
    BY <1>1, <1>3, <1>6 DEF BehaviourInv, SendersWait
  <2> QED
    BY <2>1, <2>2, <2>3 DEF SendersWait, Waits
<1>10. OneSender'
  <2>1. ASSUME NEW d \in Caller, InRequests(d)' PROVE InRequests(d)
    BY <1>3, <1>4, <2>1 DEF InRequests
  <2>2. ASSUME NEW d \in Caller, InWaiters(d)' PROVE InWaiters(d)
    <3>1. PICK p \in Peer : \E k \in DOMAIN waiters'[p] : waiters'[p][k] = d
      BY <2>2 DEF InWaiters
    <3>2. PICK k \in DOMAIN waiters[p] : drop(waiters[p][k]) = d /\ waiters[p][k] \in Waiter
      BY <1>5, <3>1
    <3> QED
      BY <1>3, <3>2 DEF InWaiters
  <2>3. ASSUME NEW d \in Caller, InResolving(d)' PROVE InResolving(d)
    BY <1>3, <1>6, <2>3 DEF InResolving
  <2>4. \A j, k \in DOMAIN requests' :
          requests'[j].waiter = requests'[k].waiter /\ requests'[j].waiter # Dropped => j = k
    BY <1>3, <1>4 DEF BehaviourInv, OneSender
  <2>5. \A j, k \in DOMAIN resolving' :
          resolving'[j] = resolving'[k] /\ resolving'[j] # Dropped => j = k
    BY <1>3, <1>6 DEF BehaviourInv, OneSender
  <2> QED
    BY <2>1, <2>2, <2>3, <2>4, <2>5 DEF BehaviourInv, OneSender
<1> QED
  BY <1>1, <1>7, <1>8, <1>9, <1>10 DEF BehaviourInv, Agreement

-------------------------------------------------------------------------------
\* A request leaves the channel; its sender is now nowhere.
LEMMA TakesRequest ==
  ASSUME BehaviourInv, Takes
  PROVE  LET w == Head(requests).waiter
             p == Head(requests).peer
         IN  /\ requests' \in Seq(DialRequest) /\ resolving = <<>> /\ running
             /\ w \in Waiter /\ p \in Peer /\ Waits(w, p)
             /\ w # Dropped => ~InWaiters(w)
             /\ \A k \in DOMAIN requests' : /\ requests'[k].waiter \in Waiter
                                            /\ w # Dropped => requests'[k].waiter # w
                                            /\ Waits(requests'[k].waiter, requests'[k].peer)
             /\ \A j, k \in DOMAIN requests' :
                  requests'[j].waiter = requests'[k].waiter /\ requests'[j].waiter # Dropped => j = k
             /\ \A c \in Caller : InRequests(c)' => InRequests(c) /\ c # w
<1>1. requests \in Seq(DialRequest) /\ requests # <<>> /\ requests' = Tail(requests)
  BY DEF BehaviourInv, TypeOK, DialRequest, Takes
<1>2. /\ Head(requests) = requests[1] /\ 1 \in DOMAIN requests
      /\ requests' \in Seq(DialRequest)
      /\ \A k \in DOMAIN requests' : k \in Nat \ {0} /\ k + 1 \in DOMAIN requests
                                      /\ requests'[k] = requests[k + 1]
  BY <1>1, TailElements
<1>3. \A k \in DOMAIN requests : /\ requests[k].waiter \in Waiter /\ requests[k].peer \in Peer
                                 /\ Waits(requests[k].waiter, requests[k].peer)
  BY HeldTypes DEF BehaviourInv, SendersWait
<1>4. \A k \in Nat \ {0} : k + 1 # 1
  OBVIOUS
<1>5. \A k \in DOMAIN requests' : requests[1].waiter # Dropped => requests'[k].waiter # requests[1].waiter
  BY <1>2, <1>4 DEF BehaviourInv, OneSender
<1>6. requests[1].waiter # Dropped => ~InWaiters(requests[1].waiter)
  <2>1. requests[1].waiter # Dropped => requests[1].waiter \in Caller /\ InRequests(requests[1].waiter)
    BY <1>2, <1>3 DEF Waiter, InRequests
  <2> QED
    BY <2>1 DEF BehaviourInv, OneSender
<1>7. ASSUME NEW j \in DOMAIN requests', NEW k \in DOMAIN requests',
             requests'[j].waiter = requests'[k].waiter, requests'[j].waiter # Dropped
      PROVE  j = k
  <2>1. j + 1 = k + 1
    BY <1>2, <1>7 DEF BehaviourInv, OneSender
  <2> QED
    BY <1>2, <2>1
<1>8. ASSUME NEW c \in Caller, InRequests(c)'
      PROVE  InRequests(c) /\ c # requests[1].waiter
  <2>1. PICK k \in DOMAIN requests' : requests'[k].waiter = c
    BY <1>8 DEF InRequests
  <2> QED
    BY <1>2, <1>5, <2>1, BehaviourAssumption DEF InRequests
<1>9. resolving = <<>> /\ running
  BY DEF Takes, Free
<1>10. \A k \in DOMAIN requests' : /\ requests'[k].waiter \in Waiter
                                   /\ Waits(requests'[k].waiter, requests'[k].peer)
  BY <1>2, <1>3
<1> QED
  BY <1>2, <1>3, <1>5, <1>6, <1>7, <1>8, <1>9, <1>10

\* The waiter of a request is answered at once.
LEMMA AnswerKeeps ==
  ASSUME BehaviourInv, Reject \/ AlreadyConnected
  PROVE  BehaviourInv'
<1> DEFINE w == Head(requests).waiter
           p == Head(requests).peer
<1>1. PICK reply \in {"granted", "refused"} : Send(w, reply)
  BY DEF Reject, AlreadyConnected
<1>2. /\ Takes
      /\ UNCHANGED <<running, waiters, connected, counted, queue, resolving, answer, attempts, links>>
  BY DEF Reject, AlreadyConnected, behaviourVars, connectivityVars, swarmVars
<1>3. /\ requests' \in Seq(DialRequest) /\ resolving = <<>>
      /\ w \in Waiter /\ p \in Peer /\ Waits(w, p)
      /\ w # Dropped => ~InWaiters(w)
      /\ \A k \in DOMAIN requests' : /\ requests'[k].waiter \in Waiter
                                     /\ w # Dropped => requests'[k].waiter # w
                                     /\ Waits(requests'[k].waiter, requests'[k].peer)
      /\ \A j, k \in DOMAIN requests' :
           requests'[j].waiter = requests'[k].waiter /\ requests'[j].waiter # Dropped => j = k
      /\ \A c \in Caller : InRequests(c)' => InRequests(c)
  BY <1>2, TakesRequest
<1> HIDE DEF w, p
<1>4. /\ call' \in [Caller -> {Idle} \cup Open]
      /\ \A c \in Caller : c # w => call'[c] = call[c]
  <2>1. CASE w = Dropped
    BY <1>1, <2>1 DEF Send, BehaviourInv, TypeOK, Open
  <2>2. CASE w # Dropped
    <3>1. w \in Caller /\ call[w] = [state |-> "waiting", peer |-> p]
      BY <1>3, <2>2 DEF Waiter, Waits
    <3>2. call[w] \in Open
      BY <1>3, <3>1 DEF Open
    <3> QED
      BY <1>1, <2>2, <3>1, <3>2, GotoCall DEF Send, BehaviourInv
  <2> QED
    BY <2>1, <2>2
<1>5. TypeOK'
  BY <1>2, <1>3, <1>4 DEF BehaviourInv, TypeOK, Open, DialRequest
<1>6. SendersWait'
  <2>1. ASSUME NEW k \in DOMAIN requests', requests'[k].waiter # Dropped
        PROVE  call'[requests'[k].waiter] = [state |-> "waiting", peer |-> requests'[k].peer]
    <3>1. requests'[k].waiter \in Caller /\ requests'[k].waiter # w
      BY <1>3, <2>1 DEF Waiter
    <3>2. Waits(requests'[k].waiter, requests'[k].peer)
      BY <1>3
    <3> QED
      BY <1>4, <2>1, <3>1, <3>2 DEF Waits
  <2>2. ASSUME NEW q \in Peer, NEW k \in DOMAIN waiters[q], waiters[q][k] # Dropped
        PROVE  call'[waiters[q][k]] = [state |-> "waiting", peer |-> q]
    <3>1. waiters[q][k] \in Caller /\ Waits(waiters[q][k], q)
      BY <2>2, HeldTypes DEF BehaviourInv, SendersWait, Waiter
    <3>2. waiters[q][k] # w
      BY <1>3, <2>2 DEF InWaiters
    <3> QED
      BY <1>4, <2>2, <3>1, <3>2 DEF Waits
  <2> QED
    BY <1>2, <1>3, <2>1, <2>2 DEF SendersWait, Waits
<1>7. OneSender'
  <2>1. \A c \in Caller : (InWaiters(c)' <=> InWaiters(c)) /\ ~InResolving(c)'
    BY <1>2, <1>3 DEF InWaiters, InResolving
  <2> QED
    BY <1>2, <1>3, <2>1 DEF BehaviourInv, OneSender
<1> QED
  BY <1>2, <1>5, <1>6, <1>7 DEF BehaviourInv, WaitersServed, Agreement

\* The Swarm dials: the sender moves from the channel to the peer's waiters,
\* which are empty because the Swarm had no attempt.
LEMMA DialKeeps ==
  ASSUME BehaviourInv, Dial
  PROVE  BehaviourInv'
<1> DEFINE w == Head(requests).waiter
           p == Head(requests).peer
<1>1. /\ Takes /\ p \notin connected /\ SwarmAccepts(p)
      /\ waiters' = [waiters EXCEPT ![p] = Append(waiters[p], w)]
      /\ attempts' = attempts \cup {p}
      /\ queue' = <<Event("Dialing", p)>>
      /\ UNCHANGED <<running, connected, counted, resolving, answer, links, call>>
  BY DEF Dial, connectivityVars
<1>2. /\ requests' \in Seq(DialRequest) /\ resolving = <<>>
      /\ w \in Waiter /\ p \in Peer /\ Waits(w, p)
      /\ \A k \in DOMAIN requests' : Waits(requests'[k].waiter, requests'[k].peer)
      /\ \A j, k \in DOMAIN requests' :
           requests'[j].waiter = requests'[k].waiter /\ requests'[j].waiter # Dropped => j = k
      /\ \A c \in Caller : InRequests(c)' => InRequests(c) /\ c # w
  BY <1>1, TakesRequest
<1> HIDE DEF w, p
<1>3. waiters \in [Peer -> Seq(Waiter)] /\ waiters[p] = <<>>
  BY <1>1, <1>2 DEF BehaviourInv, TypeOK, WaitersServed, SwarmAccepts
<1>4. <<w>> \in Seq(Waiter) /\ Len(<<w>>) = 1 /\ <<w>>[1] = w /\ DOMAIN <<w>> = {1}
  <2>1. Len(<<w>>) = 1 /\ <<w>>[1] = w
    OBVIOUS
  <2>2. <<w>> \in Seq(Waiter)
    BY <1>2
  <2>3. DOMAIN <<w>> = {1}
    OBVIOUS
  <2> QED
    BY <2>1, <2>2, <2>3
<1>5. waiters' = [waiters EXCEPT ![p] = <<w>>]
  BY <1>1, <1>2, <1>3
<1>6. waiters' \in [Peer -> Seq(Waiter)]
  BY <1>3, <1>4, <1>5
<1>7. waiters'[p] = <<w>> /\ \A q \in Peer : q # p => waiters'[q] = waiters[q]
  BY <1>2, <1>3, <1>5
<1>8. TypeOK'
  <2>1. queue' \in Seq(Notice)
    BY <1>1, <1>2 DEF Event, Notice
  <2> QED
    BY <1>1, <1>2, <1>6, <2>1 DEF BehaviourInv, TypeOK, Notice, DialRequest
<1>9. WaitersServed'
  <2> SUFFICES ASSUME NEW q \in Peer
               PROVE  /\ Len(waiters'[q]) <= 1
                      /\ waiters'[q] # <<>> => q \in attempts' /\ q \notin connected'
    BY DEF WaitersServed
  <2>1. CASE q = p
    <3>1. Len(waiters'[q]) = 1
      BY <1>4, <1>7, <2>1, Zenon
    <3>2. Len(waiters'[q]) <= 1
      BY <3>1
    <3> QED
      BY <1>1, <2>1, <3>2
  <2>2. CASE q # p
    BY <1>1, <1>7, <2>2 DEF BehaviourInv, WaitersServed
  <2> QED
    BY <2>1, <2>2
<1>10. SendersWait'
  <2>1. ASSUME NEW q \in Peer, NEW k \in DOMAIN waiters'[q]
        PROVE  Waits(waiters'[q][k], q)
    <3>1. CASE q = p
      <4>1. waiters'[q][k] = w
        BY <1>4, <1>7, <3>1
      <4> QED
        BY <1>2, <3>1, <4>1
    <3>2. CASE q # p
      BY <1>7, <3>2 DEF BehaviourInv, SendersWait
    <3> QED
      BY <3>1, <3>2
  <2> QED
    BY <1>1, <1>2, <2>1 DEF SendersWait, Waits
<1>11. OneSender'
  <2>1. ASSUME NEW c \in Caller, InWaiters(c)'
        PROVE  InWaiters(c) \/ c = w
    <3>1. PICK q \in Peer : \E k \in DOMAIN waiters'[q] : waiters'[q][k] = c
      BY <2>1 DEF InWaiters
    <3>2. CASE q = p
      BY <1>4, <1>7, <3>1, <3>2
    <3>3. CASE q # p
      BY <1>7, <3>1, <3>3 DEF InWaiters
    <3> QED
      BY <3>2, <3>3
  <2>2. \A c \in Caller : ~InResolving(c)'
    BY <1>1, <1>2 DEF InResolving
  <2> QED
    BY <1>1, <1>2, <2>1, <2>2 DEF BehaviourInv, OneSender
<1> QED
  BY <1>1, <1>8, <1>9, <1>10, <1>11 DEF BehaviourInv, Agreement

\* The waiters of p are handed to the resolving event, with the sender of a
\* refused request behind them.
LEMMA ResolveKeeps ==
  ASSUME BehaviourInv, NEW p \in Peer, NEW held \in Seq(Waiter), NEW pushed \in Seq(Notice),
         NEW reply \in {"granted", "refused"}, NEW kind \in {"Connected", "DialFailed"},
         Resolve(p, held, pushed, reply, kind), resolving = <<>>, UNCHANGED call,
         reply = "granted" => p \in counted',
         \A k \in DOMAIN held : Waits(held[k], p),
         \A j, k \in DOMAIN held : held[j] = held[k] /\ held[j] # Dropped => j = k,
         \A k \in DOMAIN requests' : Waits(requests'[k].waiter, requests'[k].peer),
         \A j, k \in DOMAIN requests' :
           requests'[j].waiter = requests'[k].waiter /\ requests'[j].waiter # Dropped => j = k,
         \A c \in Caller : InRequests(c)' => InRequests(c) /\ \A k \in DOMAIN held : held[k] # c
  PROVE  /\ waiters' \in [Peer -> Seq(Waiter)] /\ resolving' \in Seq(Waiter)
         /\ queue' \in Seq(Notice) /\ answer' \in {"granted", "refused"}
         /\ \A q \in Peer : waiters'[q] = IF q = p THEN <<>> ELSE waiters[q]
         /\ SendersWait' /\ OneSender'
<1>1. waiters \in [Peer -> Seq(Waiter)] /\ waiters' = [waiters EXCEPT ![p] = <<>>]
  BY DEF Resolve, BehaviourInv, TypeOK
<1>2. waiters' \in [Peer -> Seq(Waiter)] /\ \A q \in Peer : waiters'[q] = IF q = p THEN <<>> ELSE waiters[q]
  BY <1>1
<1>3. resolving' = held /\ answer' \in {"granted", "refused"} /\ (held # <<>> => answer' = reply)
  BY DEF Resolve, BehaviourInv, TypeOK
<1>4. queue' \in Seq(Notice)
  <2>1. queue \in Seq(Notice) /\ Event(kind, p) \in Notice
    BY DEF BehaviourInv, TypeOK, Notice, Event
  <2>2. queue \o pushed \in Seq(Notice)
    BY <2>1
  <2>3. Append(queue \o pushed, Event(kind, p)) \in Seq(Notice)
    BY <2>1, <2>2
  <2> QED
    BY <2>2, <2>3 DEF Resolve
<1>5. SendersWait'
  <2>1. \A q \in Peer : \A k \in DOMAIN waiters'[q] : Waits(waiters'[q][k], q)
    BY <1>2 DEF BehaviourInv, SendersWait
  <2>2. \A k \in DOMAIN resolving' : Waits(resolving'[k], p) /\ (answer' = "granted" => p \in counted')
    BY <1>3
  <2> QED
    BY <2>1, <2>2 DEF SendersWait, Waits
<1>6. OneSender'
  <2>1. ASSUME NEW c \in Caller, InWaiters(c)'
        PROVE  /\ InWaiters(c)
               /\ \A k \in DOMAIN held : held[k] # c
    <3>1. PICK q \in Peer : q # p /\ \E j \in DOMAIN waiters[q] : waiters[q][j] = c
      BY <1>2, <2>1 DEF InWaiters
    <3>2. Waits(c, q)
      BY <3>1 DEF BehaviourInv, SendersWait
    <3>3. ~Waits(c, p)
      BY <3>1, <3>2, BehaviourAssumption DEF Waits
    <3> QED
      BY <3>1, <3>3 DEF InWaiters
  <2>2. \A c \in Caller : InResolving(c)' => \E k \in DOMAIN held : held[k] = c
    BY <1>3 DEF InResolving
  <2>3. \A j, k \in DOMAIN resolving' :
          resolving'[j] = resolving'[k] /\ resolving'[j] # Dropped => j = k
    BY <1>3
  <2> QED
    BY <2>1, <2>2, <2>3 DEF BehaviourInv, OneSender
<1> QED
  BY <1>2, <1>3, <1>4, <1>5, <1>6

\* The peer is being dialed already: its waiter and the new one are refused.
LEMMA DialRefusedKeeps ==
  ASSUME BehaviourInv, DialRefused
  PROVE  BehaviourInv'
<1> DEFINE w == Head(requests).waiter
           p == Head(requests).peer
           held == Append(waiters[p], w)
           pushed == <<Event("Dialing", p)>>
<1>1. /\ Takes
      /\ Resolve(p, held, pushed, "refused", "DialFailed")
      /\ UNCHANGED <<running, connected, counted, attempts, links, call>>
  BY DEF DialRefused, connectivityVars, swarmVars
<1>2. /\ requests' \in Seq(DialRequest) /\ resolving = <<>>
      /\ w \in Waiter /\ p \in Peer /\ Waits(w, p) /\ (w # Dropped => ~InWaiters(w))
      /\ \A k \in DOMAIN requests' : Waits(requests'[k].waiter, requests'[k].peer)
      /\ \A j, k \in DOMAIN requests' :
           requests'[j].waiter = requests'[k].waiter /\ requests'[j].waiter # Dropped => j = k
      /\ \A c \in Caller : InRequests(c)' => InRequests(c) /\ c # w
  BY <1>1, TakesRequest
<1> HIDE DEF w, p
<1>3. waiters[p] \in Seq(Waiter) /\ Len(waiters[p]) <= 1
  BY <1>2 DEF BehaviourInv, TypeOK, WaitersServed
<1>4. held \in Seq(Waiter) /\ pushed \in Seq(Notice)
  BY <1>2, <1>3 DEF Event, Notice
<1>5. \A k \in DOMAIN held : \/ k \in DOMAIN waiters[p] /\ held[k] = waiters[p][k] /\ k = 1
                             \/ k = Len(waiters[p]) + 1 /\ held[k] = w
  BY <1>2, <1>3, AppendElements, OneElement
<1> HIDE DEF held, pushed
<1>6. \A k \in DOMAIN held : Waits(held[k], p)
  BY <1>2, <1>5 DEF BehaviourInv, SendersWait
<1>7. \A j, k \in DOMAIN held : held[j] = held[k] /\ held[j] # Dropped => j = k
  <2>1. \A k \in DOMAIN waiters[p] : w # Dropped => waiters[p][k] # w
    BY <1>2 DEF InWaiters
  <2> QED
    BY <1>5, <2>1
<1>8. \A c \in Caller : InRequests(c)' => InRequests(c) /\ \A k \in DOMAIN held : held[k] # c
  <2>1. \A c \in Caller : InRequests(c) => ~InWaiters(c)
    BY DEF BehaviourInv, OneSender
  <2>2. \A c \in Caller : ~InWaiters(c) => \A k \in DOMAIN waiters[p] : waiters[p][k] # c
    BY <1>2 DEF InWaiters
  <2> QED
    BY <1>2, <1>5, <2>1, <2>2
<1>9. /\ waiters' \in [Peer -> Seq(Waiter)] /\ resolving' \in Seq(Waiter)
      /\ queue' \in Seq(Notice) /\ answer' \in {"granted", "refused"}
      /\ \A q \in Peer : waiters'[q] = IF q = p THEN <<>> ELSE waiters[q]
      /\ SendersWait' /\ OneSender'
  BY <1>1, <1>2, <1>4, <1>6, <1>7, <1>8, ResolveKeeps
<1>10. TypeOK'
  BY <1>1, <1>2, <1>9 DEF BehaviourInv, TypeOK, Notice, DialRequest
<1>11. WaitersServed'
  BY <1>1, <1>9 DEF BehaviourInv, WaitersServed
<1> QED
  BY <1>1, <1>9, <1>10, <1>11 DEF BehaviourInv, Agreement

\* Swarm events that resolve the waiters of p: a connection, counting the peer
\* first, and a failed attempt.
LEMMA SwarmKeeps ==
  ASSUME BehaviourInv, NEW p \in Peer, DialSucceeds(p) \/ Inbound(p) \/ DialFails(p)
  PROVE  BehaviourInv'
<1>1. running /\ resolving = <<>> /\ UNCHANGED <<running, requests, call>>
  BY DEF DialSucceeds, Inbound, DialFails, Free
<1>2. links \in [Peer -> Nat] /\ connected = {q \in Peer : links[q] > 0} /\ counted = connected
  BY <1>1 DEF BehaviourInv, TypeOK, Agreement
<1>3. \/ /\ attempts' = attempts \/ attempts' = attempts \ {p}
         /\ links' = [links EXCEPT ![p] = @ + 1]
         /\ connected' = connected \cup {p}
         /\ counted' = IF p \in connected THEN counted ELSE connected'
         /\ Resolve(p, waiters[p], <<>>, "granted", "Connected")
      \/ /\ attempts' = attempts \ {p}
         /\ UNCHANGED <<links, connected, counted>>
         /\ Resolve(p, waiters[p], <<>>, "refused", "DialFailed")
  BY DEF DialSucceeds, Inbound, DialFails, Established, connectivityVars
<1>4. /\ links' \in [Peer -> Nat] /\ connected' = {q \in Peer : links'[q] > 0} /\ counted' = connected'
      /\ \A q \in Peer : q # p => (q \in connected' <=> q \in connected)
  <2>1. CASE /\ links' = [links EXCEPT ![p] = @ + 1]
             /\ connected' = connected \cup {p}
             /\ counted' = IF p \in connected THEN counted ELSE connected'
    BY <1>2, <2>1
  <2>2. CASE UNCHANGED <<links, connected, counted>>
    BY <1>2, <2>2
  <2> QED
    BY <1>3, <2>1, <2>2
<1>5. PICK reply \in {"granted", "refused"}, kind \in {"Connected", "DialFailed"} :
        Resolve(p, waiters[p], <<>>, reply, kind) /\ (reply = "granted" => p \in counted')
  BY <1>3, <1>4
<1>6. waiters[p] \in Seq(Waiter) /\ Len(waiters[p]) <= 1 /\ <<>> \in Seq(Notice)
  BY DEF BehaviourInv, TypeOK, WaitersServed
<1>7. \A k \in DOMAIN waiters[p] : Waits(waiters[p][k], p)
  BY DEF BehaviourInv, SendersWait
<1>8. \A j, k \in DOMAIN waiters[p] : j = k
  BY <1>6, OneElement
<1>9. /\ \A k \in DOMAIN requests' : Waits(requests'[k].waiter, requests'[k].peer)
      /\ \A j, k \in DOMAIN requests' :
           requests'[j].waiter = requests'[k].waiter /\ requests'[j].waiter # Dropped => j = k
  BY <1>1 DEF BehaviourInv, SendersWait, OneSender
<1>10. \A c \in Caller : InRequests(c)' => InRequests(c) /\ \A k \in DOMAIN waiters[p] : waiters[p][k] # c
  <2>1. \A c \in Caller : InRequests(c)' => InRequests(c) /\ ~InWaiters(c)
    BY <1>1 DEF BehaviourInv, OneSender, InRequests
  <2> QED
    BY <2>1 DEF InWaiters
<1>11. /\ waiters' \in [Peer -> Seq(Waiter)] /\ resolving' \in Seq(Waiter)
       /\ queue' \in Seq(Notice) /\ answer' \in {"granted", "refused"}
       /\ \A q \in Peer : waiters'[q] = IF q = p THEN <<>> ELSE waiters[q]
       /\ SendersWait' /\ OneSender'
  <2> DEFINE held == waiters[p]
             none == <<>>
  <2>1. /\ held \in Seq(Waiter) /\ none \in Seq(Notice)
        /\ Resolve(p, held, none, reply, kind)
        /\ \A k \in DOMAIN held : Waits(held[k], p)
        /\ \A j, k \in DOMAIN held : held[j] = held[k] /\ held[j] # Dropped => j = k
        /\ \A c \in Caller : InRequests(c)' => InRequests(c) /\ \A k \in DOMAIN held : held[k] # c
    BY <1>5, <1>6, <1>7, <1>8, <1>10
  <2>2. UNCHANGED call
    BY <1>1
  <2> HIDE DEF held, none
  <2> QED
    BY <1>1, <1>5, <1>9, <2>1, <2>2, ResolveKeeps
<1>12. attempts' = attempts \/ attempts' = attempts \ {p}
  BY <1>3
<1>13. TypeOK'
  BY <1>1, <1>4, <1>11, <1>12 DEF BehaviourInv, TypeOK, Notice
<1>14. WaitersServed'
  <2> SUFFICES ASSUME NEW q \in Peer
               PROVE  /\ Len(waiters'[q]) <= 1
                      /\ waiters'[q] # <<>> => q \in attempts' /\ q \notin connected'
    BY DEF WaitersServed
  <2>1. CASE q = p
    BY <1>11, <2>1
  <2>2. CASE q # p
    BY <1>4, <1>11, <1>12, <2>2 DEF BehaviourInv, WaitersServed
  <2> QED
    BY <2>1, <2>2
<1> QED
  BY <1>4, <1>11, <1>13, <1>14 DEF BehaviourInv, Agreement

\* The last connection of a peer takes it out of the count; polling an event
\* and the application's own dials touch no sender.
LEMMA ClosedKeeps ==
  ASSUME BehaviourInv, NEW p \in Peer, Closed(p)
  PROVE  BehaviourInv'
<1>1. /\ running /\ links[p] > 0 /\ links' = [links EXCEPT ![p] = @ - 1]
      /\ resolving = <<>>
      /\ UNCHANGED <<running, requests, waiters, queue, resolving, answer, attempts, call>>
  BY DEF Closed, Free
<1>2. links \in [Peer -> Nat] /\ connected = {q \in Peer : links[q] > 0} /\ counted = connected
  BY <1>1 DEF BehaviourInv, TypeOK, Agreement
<1>3. links' \in [Peer -> Nat] /\ \A q \in Peer : links'[q] = IF q = p THEN links[p] - 1 ELSE links[q]
  BY <1>1, <1>2
<1>4. connected' = {q \in Peer : links'[q] > 0} /\ counted' = connected' /\ connected' \subseteq connected
  <2>1. CASE links[p] = 1
    <3>1. connected' = connected \ {p} /\ counted' = connected'
      BY <2>1 DEF Closed
    <3> QED
      BY <1>2, <1>3, <2>1, <3>1
  <2>2. CASE links[p] # 1
    <3>1. connected' = connected /\ counted' = counted
      BY <2>2 DEF Closed
    <3>2. links'[p] > 0
      BY <1>1, <1>2, <1>3, <2>2
    <3> QED
      BY <1>1, <1>2, <1>3, <3>1, <3>2
  <2> QED
    BY <2>1, <2>2
<1>5. TypeOK'
  BY <1>1, <1>3, <1>4 DEF BehaviourInv, TypeOK
<1>6. SendersWait' /\ OneSender'
  BY <1>1, QuietKeeps
<1> QED
  BY <1>1, <1>4, <1>5, <1>6 DEF BehaviourInv, WaitersServed, Agreement

LEMMA QuietSwarmKeeps ==
  ASSUME BehaviourInv, Emit \/ \E p \in Peer : ApplicationDials(p)
  PROVE  BehaviourInv'
<1>1. /\ UNCHANGED <<running, requests, waiters, connected, counted, resolving, answer, links, call>>
      /\ attempts \subseteq attempts' /\ attempts' \subseteq attempts \cup Peer
  BY DEF Emit, ApplicationDials, behaviourVars, connectivityVars, swarmVars
<1>2. queue' \in Seq(Notice)
  <2>1. queue \in Seq(Notice)
    BY DEF BehaviourInv, TypeOK, Notice
  <2>2. queue # <<>> => Tail(queue) \in Seq(Notice)
    BY <2>1, TailElements
  <2> QED
    BY <2>1, <2>2 DEF Emit, ApplicationDials, behaviourVars
<1>3. TypeOK'
  BY <1>1, <1>2 DEF BehaviourInv, TypeOK, Notice
<1>4. SendersWait' /\ OneSender'
  BY <1>1, QuietKeeps
<1>5. WaitersServed'
  BY <1>1 DEF BehaviourInv, WaitersServed
<1> QED
  BY <1>1, <1>3, <1>4, <1>5 DEF BehaviourInv, Agreement

\* The Swarm is dropped and holds no sender any more.
LEMMA DropSwarmKeeps ==
  ASSUME BehaviourInv, DropSwarm
  PROVE  BehaviourInv'
<1>1. /\ requests' = <<>> /\ resolving' = <<>> /\ queue' = <<>> /\ running' = FALSE
      /\ waiters' = [p \in Peer |-> <<>>] /\ attempts' = {} /\ links' = [p \in Peer |-> 0]
      /\ UNCHANGED <<connected, counted, answer>>
  BY DEF DropSwarm, Free, connectivityVars
<1>2. ASSUME NEW c \in Caller PROVE call'[c] \in {Idle} \cup Open
  <2>1. CASE At(c, "waiting")
    <3>1. call[c] \in Open /\ call'[c] = [state |-> "refused", peer |-> call[c].peer]
      BY <2>1, AtOpen DEF DropSwarm, BehaviourInv
    <3> QED
      BY <3>1 DEF Open
  <2>2. CASE ~At(c, "waiting")
    BY <2>2 DEF DropSwarm, BehaviourInv, TypeOK, Open
  <2> QED
    BY <2>1, <2>2
<1>3. TypeOK'
  <2>1. call' \in [Caller -> {Idle} \cup Open]
    <3>1. call' = [c \in Caller |-> call'[c]]
      BY DEF DropSwarm
    <3> QED
      BY <1>2, <3>1
  <2>2. /\ requests' \in Seq(DialRequest) /\ resolving' \in Seq(Waiter) /\ queue' \in Seq(Notice)
        /\ waiters' \in [Peer -> Seq(Waiter)]
    BY <1>1
  <2> QED
    BY <1>1, <2>1, <2>2 DEF BehaviourInv, TypeOK, Open, DialRequest, Notice
<1>4. SendersWait' /\ OneSender'
  BY <1>1 DEF SendersWait, OneSender, InRequests, InWaiters, InResolving
<1>5. WaitersServed'
  BY <1>1 DEF WaitersServed
<1> QED
  BY <1>1, <1>3, <1>4, <1>5 DEF BehaviourInv, Agreement

\* The event answers its next waiter.
LEMMA ResolveWaiterKeeps ==
  ASSUME BehaviourInv, ResolveWaiter
  PROVE  BehaviourInv'
<1> DEFINE w == resolving[1]
<1>1. /\ resolving \in Seq(Waiter) /\ resolving # <<>>
      /\ resolving' = Tail(resolving) /\ answer \in {"granted", "refused"}
      /\ UNCHANGED <<running, requests, waiters, connected, counted, queue, answer, attempts, links>>
  BY DEF ResolveWaiter, BehaviourInv, TypeOK, connectivityVars, swarmVars
<1>2. /\ Head(resolving) = w /\ 1 \in DOMAIN resolving /\ w \in Waiter
      /\ resolving' \in Seq(Waiter)
      /\ \A k \in DOMAIN resolving' : k + 1 \in DOMAIN resolving /\ k \in Nat \ {0}
                                       /\ resolving'[k] = resolving[k + 1]
  BY <1>1, TailElements
<1>3. PICK p \in Peer : Waits(w, p)
  BY <1>2 DEF BehaviourInv, SendersWait
<1>4. Send(w, answer)
  BY <1>2 DEF ResolveWaiter
<1>5. /\ \A c \in Caller : InRequests(c) \/ InWaiters(c) => c # w
      /\ \A k \in DOMAIN resolving' : w # Dropped => resolving'[k] # w
  <2>1. \A c \in Caller : c = w => InResolving(c)
    BY <1>2 DEF InResolving
  <2>2. \A k \in Nat \ {0} : k + 1 # 1
    OBVIOUS
  <2> QED
    BY <1>2, <2>1, <2>2 DEF BehaviourInv, OneSender
<1> HIDE DEF w
<1>6. /\ call' \in [Caller -> {Idle} \cup Open]
      /\ \A c \in Caller : c # w => call'[c] = call[c]
  <2>1. CASE w = Dropped
    BY <1>4, <2>1 DEF Send, BehaviourInv, TypeOK, Open
  <2>2. CASE w # Dropped
    <3>1. w \in Caller /\ call[w] = [state |-> "waiting", peer |-> p]
      BY <1>2, <1>3, <2>2 DEF Waiter, Waits
    <3>2. call[w] \in Open
      BY <3>1 DEF Open
    <3> QED
      BY <1>1, <1>4, <2>2, <3>1, <3>2, GotoCall DEF Send, BehaviourInv
  <2> QED
    BY <2>1, <2>2
<1>7. TypeOK'
  BY <1>1, <1>2, <1>6 DEF BehaviourInv, TypeOK, Open
<1>8. SendersWait'
  <2>1. ASSUME NEW k \in DOMAIN requests, requests[k].waiter # Dropped
        PROVE  call'[requests[k].waiter] = [state |-> "waiting", peer |-> requests[k].peer]
    <3>1. requests[k].waiter \in Caller /\ Waits(requests[k].waiter, requests[k].peer)
      BY <2>1, HeldTypes DEF BehaviourInv, SendersWait, Waiter
    <3>2. requests[k].waiter # w
      BY <1>5, <3>1 DEF InRequests
    <3> QED
      BY <1>6, <2>1, <3>1, <3>2 DEF Waits
  <2>2. ASSUME NEW q \in Peer, NEW k \in DOMAIN waiters[q], waiters[q][k] # Dropped
        PROVE  call'[waiters[q][k]] = [state |-> "waiting", peer |-> q]
    <3>1. waiters[q][k] \in Caller /\ Waits(waiters[q][k], q)
      BY <2>2, HeldTypes DEF BehaviourInv, SendersWait, Waiter
    <3>2. waiters[q][k] # w
      BY <1>5, <3>1 DEF InWaiters
    <3> QED
      BY <1>6, <2>2, <3>1, <3>2 DEF Waits
  <2>3. ASSUME NEW k \in DOMAIN resolving'
        PROVE  \E q \in Peer :
                 /\ resolving'[k] # Dropped => call'[resolving'[k]] = [state |-> "waiting", peer |-> q]
                 /\ answer = "granted" => q \in counted
    <3>1. PICK q \in Peer : Waits(resolving'[k], q) /\ (answer = "granted" => q \in counted)
      BY <1>2 DEF BehaviourInv, SendersWait
    <3>2. resolving'[k] # Dropped => resolving'[k] \in Caller /\ resolving'[k] # w
      BY <1>2, <1>5 DEF Waiter
    <3> QED
      BY <1>6, <3>1, <3>2 DEF Waits
  <2> QED
    BY <1>1, <2>1, <2>2, <2>3 DEF SendersWait, Waits
<1>9. OneSender'
  <2>1. \A c \in Caller : /\ InRequests(c)' <=> InRequests(c)
                          /\ InWaiters(c)' <=> InWaiters(c)
                          /\ InResolving(c)' => InResolving(c)
    BY <1>1, <1>2 DEF InRequests, InWaiters, InResolving
  <2>2. ASSUME NEW j \in DOMAIN resolving', NEW k \in DOMAIN resolving',
               resolving'[j] = resolving'[k], resolving'[j] # Dropped
        PROVE  j = k
    <3>1. j + 1 = k + 1
      BY <1>2, <2>2 DEF BehaviourInv, OneSender
    <3> QED
      BY <1>2, <3>1
  <2> QED
    BY <1>1, <2>1, <2>2 DEF BehaviourInv, OneSender
<1> QED
  BY <1>1, <1>7, <1>8, <1>9 DEF BehaviourInv, WaitersServed, Agreement

-------------------------------------------------------------------------------
\* BehaviourInv holds at the start and every step keeps it.
THEOREM BehaviourInvariant == Spec => []BehaviourInv
<1>1. Init => BehaviourInv
  <2> SUFFICES ASSUME Init PROVE BehaviourInv
    OBVIOUS
  <2> USE DEF Init
  <2>1. TypeOK
    BY DEF TypeOK
  <2>2. WaitersServed /\ Agreement
    BY DEF WaitersServed, Agreement
  <2>3. SendersWait /\ OneSender
    BY DEF SendersWait, OneSender, InRequests, InWaiters, InResolving
  <2> QED
    BY <2>1, <2>2, <2>3 DEF BehaviourInv
<1>2. BehaviourInv /\ [Next]_vars => BehaviourInv'
  <2> SUFFICES ASSUME BehaviourInv, [Next]_vars PROVE BehaviourInv'
    OBVIOUS
  <2>1. ASSUME NEW c \in Caller, (\E p \in Peer : Connect(c, p)) \/ Returns(c) PROVE BehaviourInv'
    BY <2>1, CallerKeeps
  <2>2. ASSUME NEW c \in Caller, Request(c) PROVE BehaviourInv'
    BY <2>2, RequestKeeps
  <2>3. ASSUME NEW c \in Caller, GivesUp(c) PROVE BehaviourInv'
    BY <2>3, GivesUpKeeps
  <2>4. CASE Reject \/ AlreadyConnected
    BY <2>4, AnswerKeeps
  <2>5. CASE Dial
    BY <2>5, DialKeeps
  <2>6. CASE DialRefused
    BY <2>6, DialRefusedKeeps
  <2>7. CASE Emit \/ \E p \in Peer : ApplicationDials(p)
    BY <2>7, QuietSwarmKeeps
  <2>8. CASE ResolveWaiter
    BY <2>8, ResolveWaiterKeeps
  <2>9. ASSUME NEW p \in Peer, DialSucceeds(p) \/ Inbound(p) \/ DialFails(p) PROVE BehaviourInv'
    BY <2>9, SwarmKeeps
  <2>10. ASSUME NEW p \in Peer, Closed(p) PROVE BehaviourInv'
    BY <2>10, ClosedKeeps
  <2>11. CASE DropSwarm
    BY <2>11, DropSwarmKeeps
  <2>12. CASE UNCHANGED vars
    <3>1. UNCHANGED <<running, requests, waiters, connected, counted, queue, resolving, answer,
                      attempts, links, call>>
      BY <2>12 DEF vars, behaviourVars, connectivityVars, swarmVars
    <3>2. SendersWait' /\ OneSender'
      BY <3>1, QuietKeeps
    <3>3. TypeOK'
      BY <3>1 DEF BehaviourInv, TypeOK
    <3> QED
      BY <3>1, <3>2, <3>3 DEF BehaviourInv, WaitersServed, Agreement
  <2> QED
    BY <2>1, <2>2, <2>3, <2>4, <2>5, <2>6, <2>7, <2>8, <2>9, <2>10, <2>11, <2>12
    DEF Next, CallerStep, Poll, SwarmEvent
<1> QED
  BY <1>1, <1>2, PTL DEF Spec

\* The behaviour's variables keep their types (the state of Behaviour and
\* Connector, behaviour.rs).
THEOREM BehaviourTypeOK == Spec => []TypeOK
<1>1. BehaviourInv => TypeOK
  BY DEF BehaviourInv
<1> QED
  BY <1>1, BehaviourInvariant, PTL

\* Nobody's waiter is forgotten, whatever the application dials itself and
\* however many callers give up: it waits for an attempt that will answer it
\* (accept and on_swarm_event).
THEOREM BehaviourWaitersServed == Spec => []WaitersServed
<1>1. BehaviourInv => WaitersServed
  BY DEF BehaviourInv
<1> QED
  BY <1>1, BehaviourInvariant, PTL

\* The count is the number of peers the Swarm is connected to, with any number
\* of parallel connections (on_swarm_event, behaviour.rs:254-276).
THEOREM BehaviourCountAccurate == Spec => []CountAccurate
<1>1. BehaviourInv => CountAccurate
  BY DEF BehaviourInv, Agreement, CountAccurate
<1> QED
  BY <1>1, BehaviourInvariant, PTL

-------------------------------------------------------------------------------
(***************************************************************************)
(* The behaviour implements the connector: each step is a step of          *)
(* Connector or leaves its variables unchanged.                            *)
(***************************************************************************)
Abstract == [c \in Caller |-> AbstractCall(c)]

\* The abstract call of one that is open.
LEMMA AbstractOpen ==
  ASSUME NEW c \in Caller, call[c] \in Open
  PROVE  /\ AbstractCall(c) # Idle /\ AbstractCall(c).peer = call[c].peer
         /\ call[c].state \notin {"granted", "refused"} =>
              AbstractCall(c) = [state |-> "open", peer |-> call[c].peer]
<1>1. call[c] # Idle
  BY DEF Open, Idle
<1>2. AbstractCall(c) = [state |-> IF call[c].state = "granted" \/ call[c].state = "refused"
                                     THEN call[c].state ELSE "open",
                         peer |-> call[c].peer]
  BY <1>1 DEF AbstractCall, At
<1>3. AbstractCall(c) # Idle
  BY <1>2 DEF Idle
<1> QED
  BY <1>2, <1>3

\* The connector sees nothing of a step that changes no abstract call.
LEMMA AbstractUnchanged ==
  ASSUME \A c \in Caller : AbstractCall(c)' = AbstractCall(c), UNCHANGED counted
  PROVE  UNCHANGED Promise!connectorVars
<1>1. Abstract' = Abstract
  BY DEF Abstract
<1> QED
  BY <1>1 DEF Promise!connectorVars, Abstract

LEMMA AbstractOthers ==
  ASSUME NEW c, call'[c] = call[c]
  PROVE  AbstractCall(c)' = AbstractCall(c)
  BY DEF AbstractCall, At

\* A call returns or is given up.
LEMMA RefinesFinish ==
  ASSUME BehaviourInv, NEW c \in Caller, call[c] \in Open,
         call' = [call EXCEPT ![c] = Idle], UNCHANGED counted
  PROVE  Promise!Finish(c)
<1>1. call'[c] = Idle /\ \A d \in Caller : d # c => call'[d] = call[d]
  BY ReturnCall DEF BehaviourInv
<1>2. AbstractCall(c) # Idle /\ AbstractCall(c)' = Idle
  BY <1>1, AbstractOpen DEF AbstractCall
<1>3. \A d \in Caller : d # c => AbstractCall(d)' = AbstractCall(d)
  BY <1>1, AbstractOthers
<1>4. Abstract[c] # Idle /\ Abstract' = [Abstract EXCEPT ![c] = Idle]
  BY <1>2, <1>3 DEF Abstract
<1> QED
  BY <1>4 DEF Promise!Finish, Promise!Idle, Abstract, Idle

\* A sender is used: true only for a peer that is counted.
LEMMA RefinesAnswer ==
  ASSUME BehaviourInv, NEW w \in Waiter, NEW p \in Peer, Waits(w, p),
         NEW reply \in {"granted", "refused"}, Send(w, reply), UNCHANGED counted,
         reply = "granted" => p \in counted
  PROVE  [Promise!Next]_(Promise!connectorVars)
<1>1. CASE w = Dropped
  <2>1. call' = call
    BY <1>1 DEF Send
  <2>2. UNCHANGED Promise!connectorVars
    BY <2>1, AbstractOthers, AbstractUnchanged
  <2> QED
    BY <2>2
<1>2. CASE w # Dropped
  <2>1. w \in Caller /\ call[w] = [state |-> "waiting", peer |-> p]
    BY <1>2 DEF Waiter, Waits
  <2>2. call[w] \in Open /\ call[w].peer = p /\ call[w].state = "waiting"
    BY <2>1 DEF Open
  <2>3. /\ call'[w] = [state |-> reply, peer |-> p]
        /\ \A d \in Caller : d # w => call'[d] = call[d]
    BY <1>2, <2>1, <2>2, GotoCall DEF Send, BehaviourInv
  <2>4. AbstractCall(w).state = "open" /\ AbstractCall(w).peer = p
    BY <2>1, <2>2, AbstractOpen
  <2>5. AbstractCall(w)' = [state |-> reply, peer |-> p]
    BY <2>3 DEF AbstractCall, At, Idle
  <2>6. \A d \in Caller : d # w => AbstractCall(d)' = AbstractCall(d)
    BY <2>3, AbstractOthers
  <2>7. /\ Abstract[w].state = "open" /\ Abstract[w].peer = p
        /\ Abstract' = [Abstract EXCEPT ![w] = [state |-> reply, peer |-> Abstract[w].peer]]
    BY <2>1, <2>4, <2>5, <2>6 DEF Abstract
  <2>8. CASE reply = "granted"
    <3>1. Promise!Grant(w)
      BY <2>7, <2>8 DEF Promise!Grant, Abstract
    <3> QED
      BY <2>1, <3>1 DEF Promise!Next
  <2>9. CASE reply = "refused"
    <3>1. Abstract' = [d \in Caller |-> IF d \in {w} THEN [state |-> "refused", peer |-> Abstract[d].peer]
                                                    ELSE Abstract[d]]
      BY <2>1, <2>4, <2>5, <2>6, <2>9 DEF Abstract
    <3>2. Promise!Refuse({w})
      BY <2>7, <3>1 DEF Promise!Refuse, Abstract
    <3> QED
      BY <2>1, <3>2 DEF Promise!Next
  <2> QED
    BY <2>8, <2>9
<1> QED
  BY <1>1, <1>2

\* The Swarm is dropped: every call that waits is refused at once.
LEMMA RefinesDropSwarm ==
  ASSUME BehaviourInv, DropSwarm
  PROVE  [Promise!Next]_(Promise!connectorVars)
<1> DEFINE cs == {c \in Caller : At(c, "waiting")}
<1>1. UNCHANGED counted
  BY DEF DropSwarm, connectivityVars
<1>2. \A c \in Caller : c \notin cs => AbstractCall(c)' = AbstractCall(c)
  <2>1. \A c \in Caller : c \notin cs => call'[c] = call[c]
    BY DEF DropSwarm
  <2> QED
    BY <2>1, AbstractOthers
<1>3. ASSUME NEW c \in cs
      PROVE  /\ AbstractCall(c).state = "open"
             /\ AbstractCall(c)' = [state |-> "refused", peer |-> AbstractCall(c).peer]
  <2>1. call[c] \in Open /\ call[c].state = "waiting"
    BY <1>3, AtOpen DEF BehaviourInv, At
  <2>2. AbstractCall(c).state = "open" /\ AbstractCall(c).peer = call[c].peer
    BY <2>1, AbstractOpen
  <2>3. call'[c] = [state |-> "refused", peer |-> call[c].peer]
    BY DEF DropSwarm
  <2>4. AbstractCall(c)' = [state |-> "refused", peer |-> call[c].peer]
    BY <2>3 DEF AbstractCall, At, Idle
  <2> QED
    BY <2>2, <2>4
<1>4. CASE cs = {}
  <2>1. UNCHANGED Promise!connectorVars
    BY <1>1, <1>2, <1>4, AbstractUnchanged
  <2> QED
    BY <2>1
<1>5. CASE cs # {}
  <2>1. Abstract' = [c \in Caller |-> IF c \in cs THEN [state |-> "refused", peer |-> Abstract[c].peer]
                                                  ELSE Abstract[c]]
    BY <1>2, <1>3 DEF Abstract
  <2>2. \A c \in cs : Abstract[c].state = "open"
    BY <1>3 DEF Abstract
  <2> HIDE DEF cs
  <2>3. Promise!Refuse(cs)
    BY <1>1, <1>5, <2>1, <2>2 DEF Promise!Refuse, Abstract
  <2>4. cs \in SUBSET Caller
    BY DEF cs
  <2> QED
    BY <2>3, <2>4 DEF Promise!Next
<1> QED
  BY <1>4, <1>5

\* connect returns true only for a peer that was counted during the call:
\* "Publish connectivity before waking the waiter" (behaviour.rs:263), a
\* request for a connected peer is granted while it is counted, and a waiter is
\* only ever answered about the peer its call named.
THEOREM BehaviourImplementsConnector == Spec => ImplementsConnector
<1>1. Init => Promise!Init
  <2> SUFFICES ASSUME Init PROVE Promise!Init
    OBVIOUS
  <2>1. \A c \in Caller : AbstractCall(c) = Idle
    BY DEF Init, AbstractCall
  <2> QED
    BY <2>1 DEF Init, Promise!Init, Promise!Idle, Idle
<1>2. BehaviourInv /\ [Next]_vars => [Promise!Next]_(Promise!connectorVars)
  <2> SUFFICES ASSUME BehaviourInv, [Next]_vars
               PROVE  [Promise!Next]_(Promise!connectorVars)
    OBVIOUS
  <2>1. ASSUME NEW c \in Caller, NEW p \in Peer, Connect(c, p)
        PROVE  Promise!Connect(c, p)
    <3>1. /\ call[c] = Idle /\ call'[c] = [state |-> "sending", peer |-> p]
          /\ UNCHANGED counted
          /\ \A d \in Caller : d # c => call'[d] = call[d]
      BY <2>1 DEF Connect, BehaviourInv, TypeOK, behaviourVars, connectivityVars
    <3>2. AbstractCall(c) = Idle /\ AbstractCall(c)' = [state |-> "open", peer |-> p]
      BY <3>1 DEF AbstractCall, At, Idle
    <3>3. \A d \in Caller : d # c => AbstractCall(d)' = AbstractCall(d)
      BY <3>1, AbstractOthers
    <3>4. Abstract[c] = Idle /\ Abstract' = [Abstract EXCEPT ![c] = [state |-> "open", peer |-> p]]
      BY <3>2, <3>3 DEF Abstract
    <3> QED
      BY <3>1, <3>4 DEF Promise!Connect, Promise!Idle, Abstract, Idle
  <2>2. ASSUME NEW c \in Caller, Returns(c) \/ GivesUp(c)
        PROVE  Promise!Finish(c)
    <3>1. call[c] \in Open
      BY <2>2, AtOpen DEF Returns, GivesUp, BehaviourInv
    <3>2. call' = [call EXCEPT ![c] = Idle] /\ UNCHANGED counted
      BY <2>2 DEF Returns, GivesUp, behaviourVars, connectivityVars
    <3> QED
      BY <3>1, <3>2, RefinesFinish
  <2>3. ASSUME NEW c \in Caller, Request(c)
        PROVE  UNCHANGED Promise!connectorVars
    <3>1. call[c] \in Open /\ call[c].state = "sending" /\ UNCHANGED counted
      BY <2>3, AtOpen DEF Request, BehaviourInv, At, behaviourVars, connectivityVars
    <3>2. /\ call'[c] = [state |-> "waiting", peer |-> call[c].peer]
          /\ \A d \in Caller : d # c => call'[d] = call[d]
      BY <2>3, <3>1, GotoCall DEF Request, BehaviourInv
    <3>3. AbstractCall(c) = [state |-> "open", peer |-> call[c].peer]
      BY <3>1, AbstractOpen
    <3>4. AbstractCall(c)' = [state |-> "open", peer |-> call[c].peer]
      BY <3>2 DEF AbstractCall, At, Idle
    <3>5. \A d \in Caller : d # c => AbstractCall(d)' = AbstractCall(d)
      BY <3>2, AbstractOthers
    <3> QED
      BY <3>1, <3>3, <3>4, <3>5, AbstractUnchanged
  <2>4. CASE \/ Dial \/ DialRefused \/ Emit \/ UNCHANGED vars
             \/ \E p \in Peer : DialFails(p) \/ ApplicationDials(p)
    <3>1. UNCHANGED <<call, counted>>
      BY <2>4 DEF Dial, DialRefused, Emit, DialFails, ApplicationDials, vars, behaviourVars, connectivityVars
    <3>2. UNCHANGED Promise!connectorVars
      BY <3>1, AbstractOthers, AbstractUnchanged
    <3> QED
      BY <3>2
  <2>5. CASE Reject \/ AlreadyConnected
    <3> DEFINE w == Head(requests).waiter
               p == Head(requests).peer
    <3>1. PICK reply \in {"granted", "refused"} :
            Send(w, reply) /\ (reply = "granted" => p \in connected)
      BY <2>5 DEF Reject, AlreadyConnected
    <3>2. Takes /\ UNCHANGED counted
      BY <2>5 DEF Reject, AlreadyConnected, behaviourVars, connectivityVars
    <3>3. w \in Waiter /\ p \in Peer /\ Waits(w, p)
      BY <3>2, TakesRequest
    <3>4. reply = "granted" => p \in counted
      BY <3>1 DEF BehaviourInv, Agreement
    <3> HIDE DEF w, p
    <3> QED
      BY <3>1, <3>2, <3>3, <3>4, RefinesAnswer
  <2>6. CASE ResolveWaiter
    <3>1. resolving \in Seq(Waiter) /\ resolving # <<>> /\ answer \in {"granted", "refused"}
      BY <2>6 DEF ResolveWaiter, BehaviourInv, TypeOK
    <3>2. Head(resolving) = resolving[1] /\ 1 \in DOMAIN resolving /\ resolving[1] \in Waiter
      BY <3>1, TailElements
    <3>3. Send(resolving[1], answer) /\ UNCHANGED counted
      BY <2>6, <3>2 DEF ResolveWaiter, connectivityVars
    <3>4. PICK p \in Peer : Waits(resolving[1], p) /\ (answer = "granted" => p \in counted)
      BY <3>2 DEF BehaviourInv, SendersWait
    <3> QED
      BY <3>1, <3>2, <3>3, <3>4, RefinesAnswer
  <2>7. ASSUME NEW p \in Peer, DialSucceeds(p) \/ Inbound(p)
        PROVE  Promise!Connects(p)
    <3>1. counted' = counted \cup {p} /\ UNCHANGED call
      BY <2>7 DEF DialSucceeds, Inbound, Established, BehaviourInv, Agreement
    <3>2. Abstract' = Abstract
      BY <3>1, AbstractOthers DEF Abstract
    <3> QED
      BY <3>1, <3>2 DEF Promise!Connects, Abstract
  <2>8. ASSUME NEW p \in Peer, Closed(p)
        PROVE  Promise!Disconnects(p) \/ UNCHANGED Promise!connectorVars
    <3>1. UNCHANGED call /\ (counted' = counted \ {p} \/ UNCHANGED counted)
      BY <2>8 DEF Closed, BehaviourInv, Agreement
    <3>2. Abstract' = Abstract
      BY <3>1, AbstractOthers DEF Abstract
    <3> QED
      BY <3>1, <3>2 DEF Promise!Disconnects, Promise!connectorVars, Abstract
  <2>9. CASE DropSwarm
    BY <2>9, RefinesDropSwarm
  <2> QED
    BY <2>1, <2>2, <2>3, <2>4, <2>5, <2>6, <2>7, <2>8, <2>9
    DEF Next, CallerStep, Poll, SwarmEvent, Promise!Next
<1> QED
  BY <1>1, <1>2, BehaviourInvariant, PTL DEF Spec, ImplementsConnector, Promise!Spec

===============================================================================
