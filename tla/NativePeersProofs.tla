---------------------------- MODULE NativePeersProofs ----------------------------
(***************************************************************************)
(* For any peers, addresses, listeners and configured peers, and any       *)
(* capacity of the channel: what the status and the native candidates say. *)
(***************************************************************************)
EXTENDS NativePeers, SequenceTheorems, TLAPS

Command == [kind : {"candidates", "shutdown", "other"}] \cup [kind : {"verified"}, peer : Peer]

\* A queued question has its asker waiting, without an answer so far.
AskerWaits ==
  \A i \in DOMAIN commands :
    /\ commands[i].kind = "candidates" => main = "asked" /\ ~reply.sent
    /\ commands[i].kind = "shutdown" => main = "stopped" /\ ~reply.sent

\* The task asks one thing at a time.
OneQuestion ==
  \A i, j \in DOMAIN commands :
    commands[i].kind \in {"candidates", "shutdown"} /\ commands[j].kind = commands[i].kind => i = j

Answered == reply.sent => main \in {"asked", "stopped"}

QueueOK ==
  /\ commands \in Seq(Command) /\ Len(commands) <= Capacity
  /\ Answered /\ AskerWaits /\ OneQuestion

MapsOK ==
  /\ listening \subseteq accepted /\ accepted \subseteq Listener
  /\ Known \subseteq Peer /\ \A p \in Known : native[p] \subseteq Address
  /\ verified \subseteq Peer
  /\ CandidatesDialable

Mains == {"start", "checking", "changed", "serving", "asking", "adding", "stopping",
          "asked", "stopped", "joining", "ended", "failed"}

\* What is published is current, or it names no listener and the task is still
\* waiting for one.
PublishedOrWaiting ==
  loop = "running" =>
    \/ published = Status(listening, native)
    \/ published.listening = {} /\ main \in {"checking", "changed"}

\* Before the start the status is the one the channel was made with.
NotStarted ==
  main = "start" => loop = "none" /\ published.listening = {} /\ listening = {}

ControlOK ==
  /\ loop \in {"none", "running", "stopped"} /\ main \in Mains
  /\ PublishedOrWaiting /\ NotStarted

NativeInv == QueueOK /\ MapsOK /\ ControlOK

-------------------------------------------------------------------------------
(***************************************************************************)
(* The command channel and the answers                                     *)
(***************************************************************************)
LEMMA QueueTail ==
  ASSUME commands \in Seq(Command), commands # <<>>, commands' = Tail(commands)
  PROVE  /\ commands' \in Seq(Command) /\ Len(commands') = Len(commands) - 1
         /\ Len(commands) \in Nat
         /\ 1 \in DOMAIN commands /\ Head(commands) = commands[1]
         /\ \A i \in DOMAIN commands' :
              /\ i \in Nat \ {0} /\ i + 1 \in DOMAIN commands
              /\ commands'[i] = commands[i + 1]
<1>1. /\ Len(commands) \in Nat /\ DOMAIN commands = 1..Len(commands) /\ Len(commands) # 0
  BY LenProperties, EmptySeq
<1>2. /\ commands' \in Seq(Command) /\ Len(commands') = Len(commands) - 1
      /\ \A i \in 1..Len(commands') : commands'[i] = commands[i + 1]
      /\ Head(commands) = commands[1]
  BY <1>1, HeadTailProperties
<1>3. DOMAIN commands' = 1..Len(commands')
  BY <1>2, LenProperties
<1> QED
  BY <1>1, <1>2, <1>3

LEMMA QueueAppend ==
  ASSUME commands \in Seq(Command), NEW c \in Command, commands' = Append(commands, c)
  PROVE  /\ commands' \in Seq(Command) /\ Len(commands') = Len(commands) + 1
         /\ Len(commands) \in Nat
         /\ \A i \in DOMAIN commands' :
              \/ i \in DOMAIN commands /\ commands'[i] = commands[i]
              \/ i = Len(commands) + 1 /\ commands'[i] = c
<1>1. Len(commands) \in Nat /\ DOMAIN commands = 1..Len(commands)
  BY LenProperties
<1>2. /\ commands' \in Seq(Command) /\ Len(commands') = Len(commands) + 1
      /\ \A i \in 1..Len(commands) : commands'[i] = commands[i]
      /\ commands'[Len(commands) + 1] = c
  BY AppendProperties
<1>3. DOMAIN commands' = 1..Len(commands')
  BY <1>2, LenProperties
<1> QED
  BY <1>1, <1>2, <1>3

\* The queue stays, and whoever waits for an answer goes on waiting.
LEMMA QueueStays ==
  ASSUME QueueOK, UNCHANGED commands, reply' = reply \/ ~reply'.sent,
         main' = main \/ \A i \in DOMAIN commands : commands[i].kind \notin {"candidates", "shutdown"},
         reply'.sent => main' = main
  PROVE  QueueOK'
<1>1. Answered' /\ OneQuestion'
  BY DEF QueueOK, Answered, OneQuestion
<1>2. AskerWaits'
  BY DEF QueueOK, AskerWaits
<1> QED
  BY <1>1, <1>2 DEF QueueOK

LEMMA QueueEmptied ==
  ASSUME QueueOK, commands' = <<>>, reply'.sent => main' \in {"asked", "stopped"}
  PROVE  QueueOK'
<1>1. commands' \in Seq(Command) /\ Len(commands') = 0 /\ DOMAIN commands' = {}
  BY EmptySeq
<1>2. Answered' /\ AskerWaits' /\ OneQuestion'
  BY <1>1 DEF Answered, AskerWaits, OneQuestion
<1> QED
  BY <1>1, <1>2, CapacityAssumption DEF QueueOK

LEMMA QueueGrows ==
  ASSUME QueueOK, NEW c \in Command, Room, commands' = Append(commands, c), reply' = reply,
         c.kind = "candidates" => main' = "asked",
         c.kind = "shutdown" => main' = "stopped",
         main' = main \/ main \notin {"asked", "stopped"},
         c.kind \in {"candidates", "shutdown"} => main \notin {"asked", "stopped"}
  PROVE  QueueOK'
<1>1. commands \in Seq(Command) /\ Answered /\ AskerWaits /\ OneQuestion
  BY DEF QueueOK
<1>2. /\ commands' \in Seq(Command) /\ Len(commands') = Len(commands) + 1
      /\ Len(commands) \in Nat
      /\ \A i \in DOMAIN commands' :
           \/ i \in DOMAIN commands /\ commands'[i] = commands[i]
           \/ i = Len(commands) + 1 /\ commands'[i] = c
  BY <1>1, QueueAppend
<1>3. Len(commands') <= Capacity
  BY <1>2, CapacityAssumption DEF Room
<1>4. c.kind \in {"candidates", "shutdown"} \/ main' # main =>
        /\ ~reply.sent
        /\ \A i \in DOMAIN commands : commands[i].kind \notin {"candidates", "shutdown"}
  BY <1>1 DEF Answered, AskerWaits
<1>5. Answered'
  BY <1>1, <1>4 DEF Answered
<1>6. AskerWaits'
  BY <1>1, <1>2, <1>4 DEF AskerWaits
<1>7. OneQuestion'
  BY <1>1, <1>2, <1>4 DEF OneQuestion
<1> QED
  BY <1>2, <1>3, <1>5, <1>6, <1>7 DEF QueueOK

\* A command is taken out; a question is answered.
LEMMA QueueShrinks ==
  ASSUME QueueOK, commands # <<>>, commands' = Tail(commands), UNCHANGED main,
         \/ Head(commands).kind \notin {"candidates", "shutdown"} /\ UNCHANGED reply
         \/ Head(commands).kind = "candidates" /\ reply'.sent
  PROVE  QueueOK'
<1>1. commands \in Seq(Command) /\ Answered /\ AskerWaits /\ OneQuestion /\ Len(commands) <= Capacity
  BY DEF QueueOK
<1>2. /\ commands' \in Seq(Command) /\ Len(commands') = Len(commands) - 1
      /\ Len(commands) \in Nat /\ 1 \in DOMAIN commands /\ Head(commands) = commands[1]
      /\ \A i \in DOMAIN commands' :
           /\ i \in Nat \ {0} /\ i + 1 \in DOMAIN commands
           /\ commands'[i] = commands[i + 1]
  BY <1>1, QueueTail
<1>3. Len(commands') <= Capacity
  BY <1>1, <1>2, CapacityAssumption
<1>4. OneQuestion'
  <2> SUFFICES ASSUME NEW i \in DOMAIN commands', NEW j \in DOMAIN commands',
                      commands'[i].kind \in {"candidates", "shutdown"},
                      commands'[j].kind = commands'[i].kind
               PROVE  i = j
    BY DEF OneQuestion
  <2>1. i + 1 = j + 1
    BY <1>1, <1>2 DEF OneQuestion
  <2> QED
    BY <1>2, <2>1
<1>5. CASE Head(commands).kind \notin {"candidates", "shutdown"} /\ UNCHANGED reply
  <2>1. Answered' /\ AskerWaits'
    BY <1>1, <1>2, <1>5 DEF Answered, AskerWaits
  <2> QED
    BY <1>2, <1>3, <1>4, <2>1 DEF QueueOK
<1>6. CASE Head(commands).kind = "candidates" /\ reply'.sent
  <2>1. main = "asked"
    BY <1>1, <1>2, <1>6 DEF AskerWaits
  <2>2. \A i \in DOMAIN commands' : commands'[i].kind \notin {"candidates", "shutdown"}
    <3> SUFFICES ASSUME NEW i \in DOMAIN commands',
                        commands'[i].kind \in {"candidates", "shutdown"}
                 PROVE  FALSE
      OBVIOUS
    <3>1. i + 1 \in DOMAIN commands /\ commands[i + 1].kind = commands'[i].kind /\ i + 1 # 1
      BY <1>2
    <3>2. commands[i + 1].kind = "candidates"
      BY <1>1, <2>1, <3>1 DEF AskerWaits
    <3> QED
      BY <1>1, <1>2, <1>6, <3>1, <3>2 DEF OneQuestion
  <2>3. Answered' /\ AskerWaits'
    BY <2>1, <2>2 DEF Answered, AskerWaits
  <2> QED
    BY <1>2, <1>3, <1>4, <2>3 DEF QueueOK
<1> QED
  BY <1>5, <1>6

\* While the task awaits no answer, there is none and nothing was asked.
LEMMA NobodyAsks ==
  ASSUME QueueOK, main \notin {"asked", "stopped"}
  PROVE  /\ ~reply.sent
         /\ \A i \in DOMAIN commands : commands[i].kind \notin {"candidates", "shutdown"}
  BY DEF QueueOK, Answered, AskerWaits

LEMMA QueueSteps ==
  ASSUME QueueOK, [Next]_vars
  PROVE  QueueOK'
<1>1. CASE UNCHANGED <<commands, main, reply>>
  BY <1>1, QueueStays
<1>2. CASE Fails /\ main \notin {"asked", "stopped"}
  BY <1>2, NobodyAsks, QueueEmptied DEF Fails, Stop
<1>3. CASE Panics
  BY <1>3, QueueEmptied DEF Panics, Stop, QueueOK, Answered
<1>4. CASE HandleShutdown
  <2>1. /\ commands # <<>> /\ Head(commands).kind = "shutdown" /\ commands' = <<>> /\ main' = main
    BY <1>4 DEF HandleShutdown, Stop
  <2>2. commands \in Seq(Command)
    BY DEF QueueOK
  <2>3. 1 \in DOMAIN commands /\ Head(commands) = commands[1]
    BY <2>1, <2>2, HeadTailProperties, LenProperties, EmptySeq
  <2>4. main = "stopped"
    BY <2>1, <2>3 DEF QueueOK, AskerWaits
  <2> QED
    BY <2>1, <2>4, QueueEmptied
<1>5. CASE UNCHANGED <<commands, reply>> /\ main \notin {"asked", "stopped"}
  <2>1. /\ ~reply.sent
        /\ \A i \in DOMAIN commands : commands[i].kind \notin {"candidates", "shutdown"}
    BY <1>5, NobodyAsks
  <2> QED
    BY <1>5, <2>1, QueueStays
<1>6. CASE Returns
  <2>1. UNCHANGED commands /\ ~reply'.sent
    BY <1>6 DEF Returns, MainStep, NoReply
  <2>2. \A i \in DOMAIN commands : commands[i].kind \notin {"candidates", "shutdown"}
    BY <1>6 DEF Returns, MainStep, Queued, QueueOK, AskerWaits
  <2> QED
    BY <2>1, <2>2, QueueStays
<1>7. CASE SendsAsk
  <2>1. [kind |-> "candidates"] \in Command
    BY DEF Command
  <2>2. /\ main = "asking" /\ main' = "asked" /\ Room /\ reply' = reply
        /\ commands' = Append(commands, [kind |-> "candidates"])
    BY <1>7 DEF SendsAsk, Sends
  <2> QED
    BY <2>1, <2>2, QueueGrows
<1>8. CASE SendsShutdown
  <2>1. [kind |-> "shutdown"] \in Command
    BY DEF Command
  <2>2. /\ main = "stopping" /\ main' = "stopped" /\ Room /\ reply' = reply
        /\ commands' = Append(commands, [kind |-> "shutdown"])
    BY <1>8 DEF SendsShutdown, Sends
  <2> QED
    BY <2>1, <2>2, QueueGrows
<1>9. CASE SendsVerified
  <2>1. PICK p \in Peer : Sends("adding", [kind |-> "verified", peer |-> p], "serving")
    BY <1>9 DEF SendsVerified
  <2>2. [kind |-> "verified", peer |-> p] \in Command
    BY DEF Command
  <2>3. /\ main = "adding" /\ main' = "serving" /\ Room /\ reply' = reply
        /\ commands' = Append(commands, [kind |-> "verified", peer |-> p])
    BY <2>1 DEF Sends
  <2> QED
    BY <2>2, <2>3, QueueGrows
<1>10. CASE OtherSends
  <2>1. [kind |-> "other"] \in Command
    BY DEF Command
  <2>2. /\ main' = main /\ Room /\ reply' = reply
        /\ commands' = Append(commands, [kind |-> "other"])
    BY <1>10 DEF OtherSends
  <2> QED
    BY <2>1, <2>2, QueueGrows
<1>11. CASE HandleCandidates \/ HandleVerified \/ HandleOther
  BY <1>11, QueueShrinks DEF HandleCandidates, HandleVerified, HandleOther, Takes
<1>12. CASE StartFails \/ StatusClosed \/ ListenTimeout
  BY <1>2, <1>12 DEF StartFails, StatusClosed, ListenTimeout
<1>13. CASE \/ \E configured \in Configured, ok \in SUBSET Listener : Start(configured, ok)
            \/ ListenerSeen \/ NoListenerYet \/ StatusChanged \/ SendFails \/ Joins
            \/ \E kind \in {"asking", "adding", "stopping"} : Calls(kind)
  BY <1>5, <1>13 DEF Start, ListenerSeen, NoListenerYet, StatusChanged, SendFails, Joins, Calls,
                     MainStep
<1>14. CASE SwarmStep \/ Ended \/ UNCHANGED vars
  BY <1>1, <1>14 DEF SwarmStep, NewListenAddr, ExpiredListenAddr, Discovered, Expired, Received,
                     Event, Ended, vars
<1> QED
  BY <1>3, <1>4, <1>6, <1>7, <1>8, <1>9, <1>10, <1>11, <1>12, <1>13, <1>14
     DEF Next, Goes, CommandStep

-------------------------------------------------------------------------------
(***************************************************************************)
(* The maps                                                                *)
(***************************************************************************)
\* Only the maps change, and the peers that stay keep an address or are bare.
LEMMA MapsIntro ==
  ASSUME MapsOK, UNCHANGED verified, listening' \subseteq accepted', accepted' \subseteq Listener,
         DOMAIN native' \subseteq Peer,
         \A p \in DOMAIN native' : native'[p] \subseteq Address /\ (native'[p] = {} => p \in bare')
  PROVE  MapsOK'
  BY DEF MapsOK, Known, CandidatesDialable

LEMMA PairsOf ==
  ASSUME NEW pairs, \A c \in pairs : c.peer \in Peer /\ c.address \in Address
  PROVE  /\ PeersOf(pairs) \subseteq Peer
         /\ \A p : Of(p, pairs) \subseteq Address /\ (Of(p, pairs) # {} <=> p \in PeersOf(pairs))
  BY DEF PeersOf, Of

LEMMA MapsSteps ==
  ASSUME MapsOK, commands \in Seq(Command), NotStarted, [Next]_vars
  PROVE  MapsOK'
<1>0. /\ listening \subseteq accepted /\ accepted \subseteq Listener /\ DOMAIN native \subseteq Peer
      /\ \A p \in DOMAIN native : native[p] \subseteq Address /\ (native[p] = {} => p \in bare)
  BY DEF MapsOK, Known, CandidatesDialable
<1>1. CASE UNCHANGED <<accepted, listening, native, verified, bare>>
  BY <1>1 DEF MapsOK, Known, CandidatesDialable
<1>2. ASSUME NEW configured \in Configured, NEW ok \in SUBSET Listener, Start(configured, ok)
      PROVE  MapsOK'
  <2>1. /\ accepted' = ok /\ listening' = listening /\ verified' = verified /\ bare' = bare
        /\ native' = Reported(NoPeers, configured, PeersOf(configured))
    BY <1>2 DEF Start
  <2>2. /\ PeersOf(configured) \subseteq Peer
        /\ \A p \in PeersOf(configured) : Of(p, configured) \subseteq Address /\ Of(p, configured) # {}
    BY <1>2, PairsOf DEF Start, Splits
  <2>3. /\ DOMAIN native' = PeersOf(configured)
        /\ \A p \in DOMAIN native' : native'[p] = Of(p, configured)
    BY <2>1 DEF Reported, NoPeers
  <2>4. listening' \subseteq accepted' /\ accepted' \subseteq Listener
    BY <1>2, <2>1 DEF NotStarted, Start
  <2> QED
    BY <1>0, <2>1, <2>2, <2>3, <2>4, MapsIntro
<1>3. CASE HandleVerified
  <2>1. /\ commands # <<>> /\ Head(commands).kind = "verified"
        /\ verified' = verified \cup {Head(commands).peer}
        /\ UNCHANGED <<accepted, listening, native, bare>>
    BY <1>3 DEF HandleVerified, Takes
  <2>2. Head(commands) \in Command
    BY <2>1, HeadTailProperties
  <2>3. Head(commands).peer \in Peer
    BY <2>1, <2>2 DEF Command
  <2> QED
    BY <2>1, <2>3 DEF MapsOK, Known, CandidatesDialable
<1>4. ASSUME NEW l \in Listener, NewListenAddr(l) \/ ExpiredListenAddr(l)
      PROVE  MapsOK'
  BY <1>0, <1>4, MapsIntro DEF NewListenAddr, ExpiredListenAddr, Event
<1>5. ASSUME NEW pairs \in SUBSET [peer : Peer, address : Address], Discovered(pairs)
      PROVE  MapsOK'
  <2>1. /\ native' = Reported(native, pairs, PeersOf(pairs))
        /\ UNCHANGED <<accepted, listening, verified, bare>>
    BY <1>5 DEF Discovered, Event
  <2>2. /\ PeersOf(pairs) \subseteq Peer
        /\ \A p : Of(p, pairs) \subseteq Address /\ (Of(p, pairs) # {} <=> p \in PeersOf(pairs))
    BY PairsOf
  <2>3. /\ DOMAIN native' = DOMAIN native \cup PeersOf(pairs)
        /\ \A p \in DOMAIN native : native'[p] = native[p] \cup Of(p, pairs)
        /\ \A p \in PeersOf(pairs) \ DOMAIN native : native'[p] = Of(p, pairs)
    BY <2>1 DEF Reported
  <2>4. \A p \in DOMAIN native' : native'[p] \subseteq Address /\ (native'[p] = {} => p \in bare')
    BY <1>0, <2>1, <2>2, <2>3
  <2> QED
    BY <1>0, <2>1, <2>2, <2>3, <2>4, MapsIntro
<1>6. ASSUME NEW pairs \in SUBSET [peer : Peer, address : Address], Expired(pairs)
      PROVE  MapsOK'
  <2>1. /\ native' = [p \in {x \in Known : x \notin PeersOf(pairs) \/ native[x] \ Of(x, pairs) # {}} |->
                        native[p] \ Of(p, pairs)]
        /\ bare' = bare \cap DOMAIN native'
        /\ UNCHANGED <<accepted, listening, verified>>
    BY <1>6 DEF Expired, Event
  <2>2. \A p : Of(p, pairs) # {} <=> p \in PeersOf(pairs)
    BY PairsOf
  <2>3. /\ DOMAIN native' \subseteq DOMAIN native
        /\ \A p \in DOMAIN native' :
             /\ native'[p] = native[p] \ Of(p, pairs)
             /\ p \notin PeersOf(pairs) \/ native'[p] # {}
    BY <2>1 DEF Known
  <2>4. \A p \in DOMAIN native' : native'[p] \subseteq Address /\ (native'[p] = {} => p \in bare')
    BY <1>0, <2>1, <2>2, <2>3
  <2> QED
    BY <1>0, <2>1, <2>3, <2>4, MapsIntro
<1>7. ASSUME NEW q \in Peer, NEW addresses \in SUBSET Address, Received(q, addresses)
      PROVE  MapsOK'
  <2> DEFINE pairs == [peer : {q}, address : addresses]
  <2>1. /\ native' = Reported(native, pairs, {q})
        /\ bare' = IF q \in DOMAIN native \/ addresses # {} THEN bare ELSE bare \cup {q}
        /\ UNCHANGED <<accepted, listening, verified>>
    BY <1>7 DEF Received, Event, Known
  <2>2. /\ \A p : Of(p, pairs) \subseteq Address
        /\ addresses # {} => Of(q, pairs) # {}
    <3>1. \A a \in addresses : a \in Of(q, pairs)
      <4> SUFFICES ASSUME NEW a \in addresses PROVE a \in Of(q, pairs)
        OBVIOUS
      <4>1. \E x \in pairs : x.peer = q /\ x.address = a
        <5>1. [peer |-> q, address |-> a] \in pairs
          OBVIOUS
        <5> QED
          BY <5>1
      <4> QED
        BY <4>1 DEF Of
    <3> QED
      BY <3>1 DEF Of
  <2>3. /\ DOMAIN native' = DOMAIN native \cup {q}
        /\ \A p \in DOMAIN native : native'[p] = native[p] \cup Of(p, pairs)
        /\ q \notin DOMAIN native => native'[q] = Of(q, pairs)
    BY <2>1 DEF Reported
  <2> HIDE DEF pairs
  <2>4. ASSUME NEW p \in DOMAIN native'
        PROVE  native'[p] \subseteq Address /\ (native'[p] = {} => p \in bare')
    <3>1. CASE p \in DOMAIN native
      BY <1>0, <2>1, <2>2, <2>3, <3>1
    <3>2. CASE p \notin DOMAIN native
      <4>1. p = q /\ native'[p] = Of(q, pairs)
        BY <2>3, <3>2
      <4>2. native'[p] = {} => addresses = {} /\ bare' = bare \cup {q}
        BY <2>1, <2>2, <3>2, <4>1
      <4> QED
        BY <2>2, <4>1, <4>2
    <3> QED
      BY <3>1, <3>2
  <2> QED
    BY <1>0, <2>1, <2>3, <2>4, MapsIntro
<1>8. CASE SwarmStep
  BY <1>4, <1>5, <1>6, <1>7, <1>8 DEF SwarmStep
<1>9. CASE StartFails \/ Goes \/ ListenTimeout \/ Panics \/ OtherSends \/ Ended \/ UNCHANGED vars
  BY <1>1, <1>9 DEF StartFails, Goes, ListenTimeout, Panics, OtherSends, Ended, vars, loopVars,
     Fails, ListenerSeen, NoListenerYet, StatusChanged, StatusClosed, SendsAsk, SendsShutdown,
     SendsVerified, Sends, SendFails, Returns, Joins, MainStep
<1>10. CASE HandleCandidates \/ HandleOther \/ HandleShutdown
            \/ \E kind \in {"asking", "adding", "stopping"} : Calls(kind)
  BY <1>1, <1>10 DEF HandleCandidates, HandleOther, HandleShutdown, Calls, MainStep, loopVars
<1> QED
  BY <1>2, <1>3, <1>8, <1>9, <1>10 DEF Next, CommandStep

-------------------------------------------------------------------------------
(***************************************************************************)
(* The status                                                              *)
(***************************************************************************)
LEMMA ControlSteps ==
  ASSUME ControlOK, [Next]_vars
  PROVE  ControlOK'
<1>0. /\ loop \in {"none", "running", "stopped"} /\ main \in Mains
      /\ PublishedOrWaiting /\ NotStarted
  BY DEF ControlOK
<1>1. CASE /\ published' = Status(listening', native') /\ loop = "running" /\ UNCHANGED <<loop, main>>
  BY <1>0, <1>1 DEF ControlOK, PublishedOrWaiting, NotStarted
<1>2. CASE loop' = "stopped" /\ main' \in Mains \ {"start"}
  BY <1>2 DEF ControlOK, PublishedOrWaiting, NotStarted
<1>3. CASE /\ UNCHANGED <<loop, listening, native, published>> /\ main' \in Mains \ {"start"}
           /\ \/ main' \in {"checking", "changed"}
              \/ main \notin {"checking", "changed"}
              \/ published.listening # {}
  BY <1>0, <1>3 DEF ControlOK, PublishedOrWaiting, NotStarted
<1>4. CASE UNCHANGED <<loop, listening, native, published, main>>
  BY <1>0, <1>4 DEF ControlOK, PublishedOrWaiting, NotStarted
<1>5. CASE \E configured \in Configured, ok \in SUBSET Listener : Start(configured, ok)
  <2>1. /\ main = "start" /\ main' = "checking" /\ loop' = "running" /\ published' = published
    BY <1>5 DEF Start
  <2> QED
    BY <1>0, <2>1 DEF ControlOK, PublishedOrWaiting, NotStarted, Mains
<1>6. CASE StartFails \/ StatusClosed \/ ListenTimeout \/ Panics \/ HandleShutdown
  <2>1. loop' = "stopped" /\ (main' = "failed" \/ (main' = main /\ loop = "running"))
    BY <1>6 DEF StartFails, StatusClosed, ListenTimeout, Panics, HandleShutdown, Fails, Stop
  <2>2. main' \in Mains \ {"start"}
    BY <1>0, <2>1 DEF NotStarted, Mains
  <2> QED
    BY <1>2, <2>1, <2>2
<1>7. CASE \/ ListenerSeen \/ NoListenerYet \/ StatusChanged
           \/ SendsAsk \/ SendsShutdown \/ SendsVerified \/ SendFails \/ Returns \/ Joins
           \/ \E kind \in {"asking", "adding", "stopping"} : Calls(kind)
  BY <1>3, <1>7 DEF ListenerSeen, NoListenerYet, StatusChanged, SendsAsk, SendsShutdown,
     SendsVerified, Sends, SendFails, Returns, Joins, Calls, MainStep, loopVars, Mains
<1>8. CASE HandleVerified \/ SwarmStep
  BY <1>1, <1>8 DEF HandleVerified, Takes, SwarmStep, NewListenAddr, ExpiredListenAddr, Discovered,
     Expired, Received, Event, Publish
<1>9. CASE HandleCandidates \/ HandleOther \/ OtherSends \/ Ended \/ UNCHANGED vars
  BY <1>4, <1>9 DEF HandleCandidates, HandleOther, OtherSends, Takes, Ended, vars, loopVars
<1> QED
  BY <1>5, <1>6, <1>7, <1>8, <1>9 DEF Next, Goes, CommandStep

\* The invariant of the native side of the host.
THEOREM NativeInvariant == Spec => []NativeInv
<1>1. Init => NativeInv
  <2> SUFFICES ASSUME Init PROVE NativeInv
    OBVIOUS
  <2>1. commands \in Seq(Command) /\ Len(commands) = 0 /\ DOMAIN commands = {}
    BY EmptySeq DEF Init
  <2>2. QueueOK
    BY <2>1, CapacityAssumption DEF Init, NoReply, QueueOK, Answered, AskerWaits, OneQuestion
  <2>3. MapsOK
    BY DEF Init, MapsOK, Known, NoPeers, CandidatesDialable
  <2>4. ControlOK
    BY DEF Init, ControlOK, PublishedOrWaiting, NotStarted, Status, Mains
  <2> QED
    BY <2>2, <2>3, <2>4 DEF NativeInv
<1>2. NativeInv /\ [Next]_vars => NativeInv'
  BY QueueSteps, MapsSteps, ControlSteps DEF NativeInv, QueueOK, ControlOK
<1> QED
  BY <1>1, <1>2, PTL DEF Spec

\* The state of the host's native side keeps its type, and an answer is there
\* only for a task that awaits it.
THEOREM NativeTypeOK == Spec => []TypeOK
<1>1. NativeInv => TypeOK
  BY DEF NativeInv, QueueOK, MapsOK, ControlOK, Mains, Answered, TypeOK
<1> QED
  BY NativeInvariant, <1>1, PTL

\* Past wait_for_listener the status is never behind the listeners and the
\* native peers, although it starts without the configured ones.
THEOREM NativeStatusCurrent == Spec => []StatusCurrent
<1>1. NativeInv => StatusCurrent
  BY DEF NativeInv, ControlOK, PublishedOrWaiting, StatusCurrent
<1> QED
  BY NativeInvariant, <1>1, PTL

\* However mDNS, identify and the configured peers overlap, a native candidate
\* has an address unless identify alone reported it, and with none.
THEOREM NativeCandidatesDialable == Spec => []CandidatesDialable
<1>1. NativeInv => CandidatesDialable
  BY DEF NativeInv, MapsOK
<1> QED
  BY NativeInvariant, <1>1, PTL

===============================================================================
