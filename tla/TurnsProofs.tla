---------------------------- MODULE TurnsProofs ----------------------------
(***************************************************************************)
(* Proofs about Turns, for any number of conversations, turns and clients  *)
(* and any size of a channel.                                              *)
(*                                                                         *)
(* The argument: the manager's map only holds turns of the conversation it *)
(* files them under, and none that is retired (MapInv).  The timer of an   *)
(* old turn therefore finds either itself or a successor, which it leaves  *)
(* alone; and a subscriber always belongs to a running turn (SubInv).  A   *)
(* client that has subscribed stays among the subscribers while its turn   *)
(* runs, so every event is offered to it once (StreamInv).                 *)
(***************************************************************************)
EXTENDS Turns, SequenceTheorems, TLAPS

\* A client that is not away has a turn at hand.
HoldInv == \A x \in Clients : client[x].pc # "away" => client[x].turn \in TurnIds

\* An entry of the map is a turn of that conversation, running or kept.
MapInv ==
    \A c \in Convs : turns[c] # NoTurn =>
        /\ turn[turns[c]].conv = c
        /\ turn[turns[c]].st \in {"running", "finished"}

\* A subscriber streams a running turn and its channel is open.
SubInv ==
    \A x \in Clients : client[x].sub =>
        /\ client[x].pc # "away"
        /\ client[x].open
        /\ turn[client[x].turn].st = "running"

TurnInv == TypeOK /\ HoldInv /\ MapInv /\ OneRunningTurn /\ SubInv

-----------------------------------------------------------------------------
(* Type correctness *)

\* The events Subscribe copies are a sequence of events.
LEMMA BacklogType == \A n \in Nat : Backlog(n) \in Seq(Event)
BY DEF Backlog, Event

\* Offering an event to a subscriber changes its channel or what it lost.
LEMMA OfferType ==
    ASSUME NEW c \in Client, NEW n \in Event
    PROVE  /\ Offer(c, n) \in Client
           /\ Offer(c, n).pc = c.pc
           /\ Offer(c, n).turn = c.turn
           /\ Offer(c, n).sub = c.sub
           /\ Offer(c, n).open = c.open
<1>1. CASE Len(c.chan) < Buffer
  <2> DEFINE s == Append(c.chan, n)
  <2>1. s \in Seq(Event)
    BY DEF Client
  <2>2. Offer(c, n) = [c EXCEPT !.chan = s]
    BY <1>1 DEF Offer
  <2> HIDE DEF s
  <2>3. QED
    BY <2>1, <2>2 DEF Client
<1>2. CASE ~(Len(c.chan) < Buffer)
  <2> DEFINE l == c.lost \cup {n}
  <2>1. l \in SUBSET Event
    BY DEF Client
  <2>2. Offer(c, n) = [c EXCEPT !.lost = l]
    BY <1>2 DEF Offer
  <2> HIDE DEF l
  <2>3. QED
    BY <2>1, <2>2 DEF Client
<1>3. QED
  BY <1>1, <1>2

\* A client that writes the next event of its backlog or of its channel.
LEMMA ReadType ==
    ASSUME NEW c \in Client
    PROVE  LET r == [c EXCEPT !.seen = Append(c.seen, Head(c.backlog)), !.backlog = Tail(c.backlog)]
               s == [c EXCEPT !.seen = Append(c.seen, Head(c.chan)), !.chan = Tail(c.chan)]
           IN  /\ c.backlog # << >> =>
                     /\ r \in Client /\ r.pc = c.pc
                     /\ r.turn = c.turn /\ r.sub = c.sub /\ r.open = c.open
               /\ c.chan # << >> =>
                     /\ s \in Client /\ s.pc = c.pc
                     /\ s.turn = c.turn /\ s.sub = c.sub /\ s.open = c.open
<1>1. /\ c.seen \in Seq(Event)
      /\ c.backlog \in Seq(Event)
      /\ c.chan \in Seq(Event)
  BY DEF Client
<1>2. ASSUME c.backlog # << >>
      PROVE  Append(c.seen, Head(c.backlog)) \in Seq(Event) /\ Tail(c.backlog) \in Seq(Event)
  BY <1>1, <1>2
<1>3. ASSUME c.chan # << >>
      PROVE  Append(c.seen, Head(c.chan)) \in Seq(Event) /\ Tail(c.chan) \in Seq(Event)
  BY <1>1, <1>3
<1>4. ASSUME NEW s \in Seq(Event), NEW t \in Seq(Event)
      PROVE  LET u == [c EXCEPT !.seen = s, !.backlog = t]
                 v == [c EXCEPT !.seen = s, !.chan = t]
             IN  /\ u \in Client /\ u.pc = c.pc
                 /\ u.turn = c.turn /\ u.sub = c.sub /\ u.open = c.open
                 /\ v \in Client /\ v.pc = c.pc
                 /\ v.turn = c.turn /\ v.sub = c.sub /\ v.open = c.open
  <2> DEFINE u == [c EXCEPT !.seen = s, !.backlog = t]
             v == [c EXCEPT !.seen = s, !.chan = t]
  <2>1. /\ u \in Client /\ u.pc = c.pc
        /\ u.turn = c.turn /\ u.sub = c.sub /\ u.open = c.open
    BY DEF Client
  <2>2. /\ v \in Client /\ v.pc = c.pc
        /\ v.turn = c.turn /\ v.sub = c.sub /\ v.open = c.open
    BY DEF Client
  <2>3. QED
    BY <2>1, <2>2
<1>5. QED
  BY <1>2, <1>3, <1>4

\* A client that has just been given a turn.
LEMMA HoldingType ==
    ASSUME NEW t \in TurnIds
    PROVE  LET k == [Away EXCEPT !.pc = "holding", !.turn = t]
           IN  /\ Away \in Client
               /\ k \in Client
               /\ k.turn = t
               /\ k.pc = "holding"
               /\ ~k.sub
<1>1. Away \in Client /\ ~Away.sub
  BY DEF Away, Client
<1>2. QED
  BY <1>1 DEF Client

\* A step of one client that keeps its turn at hand.
LEMMA ClientType ==
    ASSUME TypeOK, HoldInv, NEW x \in Clients, NEW k \in Client,
           k.pc # "away" => k.turn \in TurnIds,
           client' = [client EXCEPT ![x] = k]
    PROVE  client' \in [Clients -> Client] /\ HoldInv'
BY DEF TypeOK, HoldInv

\* Every step keeps the types, and a client its turn.
LEMMA TurnsTypeStep ==
    ASSUME TypeOK, HoldInv, [Next]_vars
    PROVE  TypeOK' /\ HoldInv'
<1> USE TurnsAssumption
<1>1. ASSUME NEW x \in Clients, NEW t \in TurnIds, Start(x, t)
      PROVE  TypeOK' /\ HoldInv'
  <2> DEFINE k == [Away EXCEPT !.pc = "holding", !.turn = t]
  <2>1. k \in Client /\ k.turn \in TurnIds
    BY HoldingType
  <2>2. client' = [client EXCEPT ![x] = k]
    BY <1>1 DEF Start
  <2> HIDE DEF k
  <2>3. client' \in [Clients -> Client] /\ HoldInv'
    BY <2>1, <2>2, ClientType
  <2>4. turn' \in [TurnIds -> Turn] /\ turns' \in [Convs -> TurnIds \cup {NoTurn}]
    BY <1>1 DEF Start, TypeOK, Turn
  <2>5. QED
    BY <2>3, <2>4 DEF TypeOK
<1>2. ASSUME NEW t \in TurnIds, AppendEvent(t)
      PROVE  TypeOK' /\ HoldInv'
  <2> DEFINE n == turn[t].events + 1
  <2>1. n \in Event
    BY DEF TypeOK, Turn, Event
  <2>2. turn' \in [TurnIds -> Turn]
    BY <1>2 DEF AppendEvent, TypeOK, Turn
  <2>3. /\ UNCHANGED turns
        /\ client' = [x \in Clients |-> IF x \in Subs(t) THEN Offer(client[x], n) ELSE client[x]]
    BY <1>2 DEF AppendEvent
  <2> HIDE DEF n
  <2>4. \A x \in Clients : client'[x] \in Client /\ client'[x].pc = client[x].pc
                                                 /\ client'[x].turn = client[x].turn
    BY <2>1, <2>3, OfferType DEF TypeOK
  <2>5. client' \in [Clients -> Client]
    BY <2>3, <2>4
  <2>6. QED
    BY <2>2, <2>3, <2>4, <2>5 DEF TypeOK, HoldInv
<1>3. ASSUME NEW t \in TurnIds, Finish(t)
      PROVE  TypeOK' /\ HoldInv'
  <2>1. turn' \in [TurnIds -> Turn] /\ UNCHANGED turns
    BY <1>3 DEF Finish, TypeOK, Turn
  <2>2. client' = [x \in Clients |-> IF x \in Subs(t)
                                     THEN [client[x] EXCEPT !.sub = FALSE, !.open = FALSE]
                                     ELSE client[x]]
    BY <1>3 DEF Finish
  <2>3. \A x \in Clients : client'[x] \in Client /\ client'[x].pc = client[x].pc
                                                 /\ client'[x].turn = client[x].turn
    <3> SUFFICES ASSUME NEW x \in Clients
                 PROVE  /\ client'[x] \in Client /\ client'[x].pc = client[x].pc
                        /\ client'[x].turn = client[x].turn
      OBVIOUS
    <3>1. client[x] \in Client
      BY DEF TypeOK
    <3> DEFINE c == [client[x] EXCEPT !.sub = FALSE, !.open = FALSE]
    <3>2. c \in Client /\ c.pc = client[x].pc /\ c.turn = client[x].turn
      BY <3>1 DEF Client
    <3>3. client'[x] = c \/ client'[x] = client[x]
      BY <2>2
    <3> HIDE DEF c
    <3>4. QED
      BY <3>1, <3>2, <3>3
  <2>4. client' \in [Clients -> Client]
    BY <2>2, <2>3
  <2>5. QED
    BY <2>1, <2>3, <2>4 DEF TypeOK, HoldInv
<1>4. ASSUME NEW t \in TurnIds, Retire(t)
      PROVE  TypeOK' /\ HoldInv'
  BY <1>4 DEF Retire, TypeOK, HoldInv, Turn
<1>5. ASSUME NEW x \in Clients, NEW k \in Client, k.pc # "away" => k.turn \in TurnIds,
             client' = [client EXCEPT ![x] = k], UNCHANGED <<turns, turn>>
      PROVE  TypeOK' /\ HoldInv'
  BY <1>5, ClientType DEF TypeOK
<1>6. ASSUME NEW x \in Clients, NEW c \in Convs, Get(x, c)
      PROVE  TypeOK' /\ HoldInv'
  <2> DEFINE k == [Away EXCEPT !.pc = "holding", !.turn = turns[c]]
  <2>1. k \in Client /\ k.turn \in TurnIds
    <3>1. turns[c] \in TurnIds
      BY <1>6 DEF Get, TypeOK
    <3>2. QED
      BY <3>1, HoldingType
  <2>2. client' = [client EXCEPT ![x] = k] /\ UNCHANGED <<turns, turn>>
    BY <1>6 DEF Get
  <2> HIDE DEF k
  <2>3. QED
    BY <1>5, <2>1, <2>2
<1>7. ASSUME NEW x \in Clients, Stream(x) \/ Leave(x)
      PROVE  TypeOK' /\ HoldInv'
  <2> DEFINE c == client[x]
  <2>1. c \in Client /\ (c.pc # "away" => c.turn \in TurnIds)
    BY DEF TypeOK, HoldInv
  <2>2. CASE Subscribe(x)
    <3> DEFINE b == Backlog(turn[c.turn].events)
               o == ~isFinished(c.turn)
               k == [c EXCEPT !.pc = "replay", !.backlog = b, !.open = o, !.sub = o]
    <3>1. c.turn \in TurnIds
      BY <2>1, <2>2 DEF Subscribe
    <3>2. b \in Seq(Event) /\ o \in BOOLEAN
      BY <3>1, BacklogType DEF TypeOK, Turn, isFinished
    <3>3. client' = [client EXCEPT ![x] = k] /\ UNCHANGED <<turns, turn>>
      BY <2>2 DEF Subscribe
    <3> HIDE DEF b, o
    <3>4. k \in Client /\ k.turn = c.turn
      BY <2>1, <3>2 DEF Client
    <3> HIDE DEF k
    <3>5. QED
      BY <1>5, <3>1, <3>3, <3>4
  <2>3. CASE Replay(x)
    <3> DEFINE k == [c EXCEPT !.seen = Append(c.seen, Head(c.backlog)), !.backlog = Tail(c.backlog)]
    <3>1. /\ client' = [client EXCEPT ![x] = k]
          /\ UNCHANGED <<turns, turn>>
          /\ c.backlog # << >>
      BY <2>3 DEF Replay
    <3>2. k \in Client /\ k.turn = c.turn /\ k.pc = c.pc
      BY <2>1, <3>1, ReadType
    <3> HIDE DEF k
    <3>3. QED
      BY <1>5, <2>1, <3>1, <3>2
  <2>4. CASE Replayed(x)
    <3> DEFINE k == [c EXCEPT !.pc = "tail"]
    <3>1. client' = [client EXCEPT ![x] = k] /\ UNCHANGED <<turns, turn>> /\ c.pc # "away"
      BY <2>4 DEF Replayed
    <3>2. k \in Client /\ k.turn = c.turn
      BY <2>1 DEF Client
    <3> HIDE DEF k
    <3>3. QED
      BY <1>5, <2>1, <3>1, <3>2
  <2>5. CASE Receive(x)
    <3> DEFINE k == [c EXCEPT !.seen = Append(c.seen, Head(c.chan)), !.chan = Tail(c.chan)]
    <3>1. /\ client' = [client EXCEPT ![x] = k]
          /\ UNCHANGED <<turns, turn>>
          /\ c.chan # << >>
      BY <2>5 DEF Receive
    <3>2. k \in Client /\ k.turn = c.turn /\ k.pc = c.pc
      BY <2>1, <3>1, ReadType
    <3> HIDE DEF k
    <3>3. QED
      BY <1>5, <2>1, <3>1, <3>2
  <2>6. CASE Complete(x)
    <3> DEFINE k == [c EXCEPT !.pc = "over"]
    <3>1. client' = [client EXCEPT ![x] = k] /\ UNCHANGED <<turns, turn>> /\ c.pc # "away"
      BY <2>6 DEF Complete
    <3>2. k \in Client /\ k.turn = c.turn
      BY <2>1 DEF Client
    <3> HIDE DEF k
    <3>3. QED
      BY <1>5, <2>1, <3>1, <3>2
  <2>7. CASE Leave(x)
    <3>1. client' = [client EXCEPT ![x] = Away] /\ UNCHANGED <<turns, turn>>
      BY <2>7 DEF Leave
    <3>2. Away \in Client /\ Away.pc = "away"
      BY DEF Away, Client
    <3>3. QED
      BY <1>5, <3>1, <3>2
  <2>8. QED
    BY <1>7, <2>2, <2>3, <2>4, <2>5, <2>6, <2>7 DEF Stream
<1>8. CASE UNCHANGED vars
  BY <1>8 DEF vars, TypeOK, HoldInv
<1>9. QED
  BY <1>1, <1>2, <1>3, <1>4, <1>6, <1>7, <1>8 DEF Next

\* Every reachable state of the turn manager is well typed, and no client streams
\* without a turn.
THEOREM TurnsTyping == Spec => [](TypeOK /\ HoldInv)
<1>1. Init => TypeOK /\ HoldInv
  <2> SUFFICES ASSUME Init PROVE TypeOK /\ HoldInv
    OBVIOUS
  <2>1. Away \in Client /\ Away.pc = "away"
    BY DEF Away, Client
  <2>2. turn \in [TurnIds -> Turn] /\ turns \in [Convs -> TurnIds \cup {NoTurn}]
    BY DEF Init, Turn
  <2>3. QED
    BY <2>1, <2>2 DEF Init, TypeOK, HoldInv
<1>2. TypeOK /\ HoldInv /\ [Next]_vars => TypeOK' /\ HoldInv'
  BY TurnsTypeStep
<1>3. QED
  BY <1>1, <1>2, PTL DEF Spec

-----------------------------------------------------------------------------
(* The map *)

\* What each action does to the turns' states and to the map.
LEMMA TurnEffect ==
    ASSUME TypeOK, NEW t \in TurnIds, NEW s \in {"running", "finished", "retired"},
           turn' = [turn EXCEPT ![t].st = s]
    PROVE  /\ \A u \in TurnIds : turn'[u].conv = turn[u].conv
           /\ \A u \in TurnIds \ {t} : turn'[u].st = turn[u].st
           /\ turn'[t].st = s
BY DEF TypeOK, Turn

\* Appending an event changes no turn's state.
LEMMA AppendEffect ==
    ASSUME TypeOK, NEW t \in TurnIds, AppendEvent(t)
    PROVE  \A u \in TurnIds : turn'[u].conv = turn[u].conv /\ turn'[u].st = turn[u].st
BY DEF AppendEvent, TypeOK, Turn

\* Clients only look at the map and at the turns.
LEMMA ClientEffect ==
    ASSUME NEW x \in Clients, Stream(x) \/ Leave(x) \/ \E c \in Convs : Get(x, c)
    PROVE  UNCHANGED <<turns, turn>>
BY DEF Stream, Subscribe, Replay, Replayed, Receive, Complete, Leave, Get

\* Neither a successor's start nor a predecessor's timer displaces a running turn.
LEMMA MapStep ==
    ASSUME TypeOK, MapInv, OneRunningTurn, [Next]_vars
    PROVE  MapInv' /\ OneRunningTurn'
<1> USE TurnsAssumption DEF MapInv, OneRunningTurn
<1>1. ASSUME NEW x \in Clients, NEW t \in TurnIds, Start(x, t)
      PROVE  MapInv' /\ OneRunningTurn'
  <2>1. PICK c \in Convs : c = turn[t].conv
    BY DEF TypeOK, Turn
  <2>2. /\ turn' = [turn EXCEPT ![t].st = "running"]
        /\ turns' = [turns EXCEPT ![c] = t]
        /\ turns[c] # NoTurn => turn[turns[c]].st # "running"
    BY <1>1, <2>1 DEF Start, isFinished
  <2>3. \A u \in TurnIds \ {t} : turn[u].st = "running" => turn[u].conv # c
    BY <2>2 DEF TypeOK
  <2>4. QED
    BY <2>1, <2>2, <2>3, TurnEffect DEF TypeOK
<1>2. ASSUME NEW t \in TurnIds, AppendEvent(t)
      PROVE  MapInv' /\ OneRunningTurn'
  <2>1. UNCHANGED turns
    BY <1>2 DEF AppendEvent
  <2>2. QED
    BY <1>2, <2>1, AppendEffect DEF TypeOK
<1>3. ASSUME NEW t \in TurnIds, Finish(t)
      PROVE  MapInv' /\ OneRunningTurn'
  <2>1. UNCHANGED turns /\ turn' = [turn EXCEPT ![t].st = "finished"]
    BY <1>3 DEF Finish
  <2>2. QED
    BY <2>1, TurnEffect DEF TypeOK
<1>4. ASSUME NEW t \in TurnIds, Retire(t)
      PROVE  MapInv' /\ OneRunningTurn'
  <2>1. PICK c \in Convs : c = turn[t].conv
    BY DEF TypeOK, Turn
  <2>2. /\ turn[t].st = "finished"
        /\ turn' = [turn EXCEPT ![t].st = "retired"]
        /\ turns' = IF turns[c] = t THEN [turns EXCEPT ![c] = NoTurn] ELSE turns
    BY <1>4, <2>1 DEF Retire
  <2>3. \A d \in Convs : turns[d] = t => d = c
    BY <2>1
  <2>4. MapInv'
    BY <2>2, <2>3, TurnEffect DEF TypeOK
  <2>5. OneRunningTurn'
    BY <2>1, <2>2, TurnEffect DEF TypeOK
  <2>6. QED
    BY <2>4, <2>5
<1>5. ASSUME UNCHANGED <<turns, turn>>
      PROVE  MapInv' /\ OneRunningTurn'
  BY <1>5
<1>6. QED
  BY <1>1, <1>2, <1>3, <1>4, <1>5, ClientEffect DEF Next, vars

-----------------------------------------------------------------------------
(* The subscribers *)

\* No step leaves a closed channel, or one of a turn that is over, among the
\* subscribers.
LEMMA SubStep ==
    ASSUME TypeOK, HoldInv, SubInv, [Next]_vars
    PROVE  SubInv'
<1> USE TurnsAssumption DEF SubInv
<1>1. ASSUME NEW x \in Clients, NEW t \in TurnIds, Start(x, t)
      PROVE  SubInv'
  <2> DEFINE k == [Away EXCEPT !.pc = "holding", !.turn = t]
  <2>1. /\ turn' = [turn EXCEPT ![t].st = "running"]
        /\ client' = [client EXCEPT ![x] = k]
    BY <1>1 DEF Start
  <2>2. ~k.sub
    BY HoldingType
  <2> HIDE DEF k
  <2>3. QED
    BY <2>1, <2>2, TurnEffect DEF TypeOK, HoldInv
<1>2. ASSUME NEW t \in TurnIds, AppendEvent(t)
      PROVE  SubInv'
  <2> DEFINE n == turn[t].events + 1
  <2>1. n \in Event
    BY DEF TypeOK, Turn, Event
  <2>2. client' = [x \in Clients |-> IF x \in Subs(t) THEN Offer(client[x], n) ELSE client[x]]
    BY <1>2 DEF AppendEvent
  <2> HIDE DEF n
  <2>3. \A x \in Clients : /\ client'[x].pc = client[x].pc
                           /\ client'[x].turn = client[x].turn
                           /\ client'[x].sub = client[x].sub
                           /\ client'[x].open = client[x].open
    BY <2>1, <2>2, OfferType DEF TypeOK
  <2>4. QED
    BY <1>2, <2>3, AppendEffect DEF HoldInv
<1>3. ASSUME NEW t \in TurnIds, Finish(t)
      PROVE  SubInv'
  <2>1. /\ turn' = [turn EXCEPT ![t].st = "finished"]
        /\ client' = [x \in Clients |-> IF x \in Subs(t)
                                        THEN [client[x] EXCEPT !.sub = FALSE, !.open = FALSE]
                                        ELSE client[x]]
    BY <1>3 DEF Finish
  <2>2. ASSUME NEW x \in Subs(t)
        PROVE  ~client'[x].sub
    <3>1. x \in Clients /\ client[x] \in Client
      BY DEF Subs, TypeOK
    <3>2. client'[x] = [client[x] EXCEPT !.sub = FALSE, !.open = FALSE]
      BY <2>1, <3>1
    <3>3. QED
      BY <3>1, <3>2 DEF Client
  <2>3. \A x \in Clients \ Subs(t) :
           client'[x] = client[x] /\ (client[x].sub => client[x].turn # t)
    BY <2>1 DEF Subs
  <2>4. \A u \in TurnIds \ {t} : turn'[u].st = turn[u].st
    BY <2>1, TurnEffect
  <2>5. ASSUME NEW x \in Clients, client'[x].sub
        PROVE  client'[x].pc # "away" /\ client'[x].open /\ turn'[client'[x].turn].st = "running"
    <3>1. client'[x] = client[x] /\ client[x].turn # t /\ client[x].sub
      BY <2>2, <2>3, <2>5
    <3>2. client[x].turn \in TurnIds \ {t}
      BY <3>1 DEF HoldInv
    <3>3. QED
      BY <2>4, <3>1, <3>2
  <2>6. QED
    BY <2>5
<1>4. ASSUME NEW t \in TurnIds, Retire(t)
      PROVE  SubInv'
  <2>1. /\ turn[t].st = "finished"
        /\ turn' = [turn EXCEPT ![t].st = "retired"]
        /\ UNCHANGED client
    BY <1>4 DEF Retire
  <2>2. QED
    BY <2>1, TurnEffect DEF HoldInv
<1>5. ASSUME NEW x \in Clients, NEW c \in Convs, Get(x, c)
      PROVE  SubInv'
  <2> DEFINE k == [Away EXCEPT !.pc = "holding", !.turn = turns[c]]
  <2>1. turns[c] \in TurnIds /\ UNCHANGED turn /\ client' = [client EXCEPT ![x] = k]
    BY <1>5 DEF Get, TypeOK
  <2>2. ~k.sub
    BY <2>1, HoldingType
  <2> HIDE DEF k
  <2>3. QED
    BY <2>1, <2>2 DEF TypeOK
<1>6. ASSUME NEW x \in Clients, Subscribe(x)
      PROVE  SubInv'
  <2> DEFINE c == client[x]
             b == Backlog(turn[c.turn].events)
             o == ~isFinished(c.turn)
             k == [c EXCEPT !.pc = "replay", !.backlog = b, !.open = o, !.sub = o]
  <2>1. client' = [client EXCEPT ![x] = k] /\ UNCHANGED turn
    BY <1>6 DEF Subscribe
  <2>2. o \in BOOLEAN /\ (o => turn[c.turn].st = "running")
    BY DEF isFinished
  <2>3. c \in Client
    BY DEF TypeOK
  <2> HIDE DEF b, o
  <2>4. k.pc = "replay" /\ k.open = o /\ k.sub = o /\ k.turn = c.turn
    BY <2>3 DEF Client
  <2> HIDE DEF k
  <2>5. QED
    BY <2>1, <2>2, <2>4 DEF TypeOK
<1>7. ASSUME NEW x \in Clients, NEW k \in Client, client' = [client EXCEPT ![x] = k],
             k.turn = client[x].turn, k.sub = client[x].sub, k.open = client[x].open,
             k.pc # "away", UNCHANGED turn
      PROVE  SubInv'
  BY <1>7 DEF TypeOK
<1>8. ASSUME NEW x \in Clients, Replay(x) \/ Replayed(x) \/ Receive(x) \/ Complete(x)
      PROVE  SubInv'
  <2> DEFINE c == client[x]
  <2>1. c \in Client
    BY DEF TypeOK
  <2>2. CASE Replay(x)
    BY <1>7, <2>1, <2>2, ReadType DEF Replay
  <2>3. CASE Receive(x)
    BY <1>7, <2>1, <2>3, ReadType DEF Receive
  <2>4. CASE Replayed(x) \/ Complete(x)
    <3>1. PICK l \in {"tail", "over"} : client' = [client EXCEPT ![x] = [c EXCEPT !.pc = l]]
      BY <2>4 DEF Replayed, Complete
    <3> DEFINE k == [c EXCEPT !.pc = l]
    <3>2. k \in Client /\ k.turn = c.turn /\ k.sub = c.sub /\ k.open = c.open /\ k.pc = l
      BY <2>1 DEF Client
    <3>3. UNCHANGED turn
      BY <2>4 DEF Replayed, Complete
    <3>4. client' = [client EXCEPT ![x] = k]
      BY <3>1
    <3> HIDE DEF k
    <3>5. QED
      BY <1>7, <3>2, <3>3, <3>4
  <2>5. QED
    BY <1>8, <2>2, <2>3, <2>4
<1>9. ASSUME NEW x \in Clients, Leave(x)
      PROVE  SubInv'
  BY <1>9 DEF Leave, Away, TypeOK
<1>10. CASE UNCHANGED vars
  BY <1>10 DEF vars
<1>11. QED
  BY <1>1, <1>2, <1>3, <1>4, <1>5, <1>6, <1>8, <1>9, <1>10 DEF Next, Stream

-----------------------------------------------------------------------------
(* Theorems *)

\* The inductive invariant: types, the map and the subscribers.
THEOREM TurnsInvariant == Spec => []TurnInv
<1>1. Init => MapInv /\ OneRunningTurn /\ SubInv
  BY DEF Init, MapInv, OneRunningTurn, SubInv, Away
<1>2. TurnInv /\ [Next]_vars => MapInv' /\ OneRunningTurn' /\ SubInv'
  BY MapStep, SubStep DEF TurnInv
<1>3. QED
  BY <1>1, <1>2, TurnsTyping, PTL DEF Spec, TurnInv

\* A conversation never has two running turns.
THEOREM OneTurn == Spec => []OneRunningTurn
BY TurnsInvariant, PTL DEF TurnInv

\* The turn's goroutine never sends on a closed channel.
THEOREM NoSendOnClosed == Spec => []SubscribersAreOpen
<1>1. TurnInv => SubscribersAreOpen
  BY DEF TurnInv, SubInv, SubscribersAreOpen
<1>2. QED
  BY <1>1, TurnsInvariant, PTL

\* The turn manager implements TurnRegistry, on which Chat is built.
THEOREM TurnsRefinement == Spec => ImplementsRegistry
<1> USE TurnsAssumption
<1> DEFINE run == {c \in Convs : turns[c] # NoTurn /\ turn[turns[c]].st = "running"}
           kpt == {c \in Convs : turns[c] # NoTurn /\ turn[turns[c]].st = "finished"}
<1>1. Init => Registry!RegInit
  BY DEF Init, Registry!RegInit
<1>2. TurnInv /\ [Next]_vars => [Registry!RegNext]_(Registry!regVars)
  <2> SUFFICES ASSUME TurnInv, [Next]_vars
               PROVE  [Registry!RegNext]_(Registry!regVars)
    OBVIOUS
  <2> USE DEF TurnInv
  <2>1. ASSUME NEW x \in Clients, NEW t \in TurnIds, Start(x, t)
        PROVE  Registry!RegNext
    <3>1. PICK c \in Convs : c = turn[t].conv
      BY DEF TypeOK, Turn
    <3>2. /\ turn[t].st = "new"
          /\ turn' = [turn EXCEPT ![t].st = "running"]
          /\ turns' = [turns EXCEPT ![c] = t]
          /\ turns[c] # NoTurn => turn[turns[c]].st # "running"
      BY <2>1, <3>1 DEF Start, isFinished
    <3>3. \A d \in Convs : turns[d] # t
      BY <3>2 DEF MapInv
    <3>4. run' = run \cup {c} /\ kpt' = kpt \ {c} /\ c \notin run
      BY <3>1, <3>2, <3>3, TurnEffect DEF TypeOK
    <3>5. QED
      BY <3>4 DEF Registry!RegNext, Registry!Begin
  <2>2. ASSUME NEW t \in TurnIds, AppendEvent(t)
        PROVE  run' = run /\ kpt' = kpt
    <3>1. UNCHANGED turns
      BY <2>2 DEF AppendEvent
    <3>2. QED
      BY <2>2, <3>1, AppendEffect DEF TypeOK
  <2>3. ASSUME NEW t \in TurnIds, Finish(t)
        PROVE  Registry!RegNext
    <3>1. PICK c \in Convs : c = turn[t].conv
      BY DEF TypeOK, Turn
    <3>2. /\ turn[t].st = "running"
          /\ turn' = [turn EXCEPT ![t].st = "finished"]
          /\ UNCHANGED turns
      BY <2>3 DEF Finish
    <3>3. turns[c] = t /\ \A d \in Convs \ {c} : turns[d] # t
      BY <3>1, <3>2 DEF OneRunningTurn, MapInv
    <3>4. run' = run \ {c} /\ kpt' = kpt \cup {c} /\ c \in run
      BY <3>2, <3>3, TurnEffect DEF TypeOK
    <3>5. QED
      BY <3>4 DEF Registry!RegNext, Registry!End
  <2>4. ASSUME NEW t \in TurnIds, Retire(t)
        PROVE  Registry!RegNext \/ (run' = run /\ kpt' = kpt)
    <3>1. PICK c \in Convs : c = turn[t].conv
      BY DEF TypeOK, Turn
    <3>2. /\ turn[t].st = "finished"
          /\ turn' = [turn EXCEPT ![t].st = "retired"]
          /\ turns' = IF turns[c] = t THEN [turns EXCEPT ![c] = NoTurn] ELSE turns
      BY <2>4, <3>1 DEF Retire
    <3>3. \A d \in Convs \ {c} : turns[d] # t
      BY <3>1 DEF MapInv
    <3>4. CASE turns[c] = t
      <4>1. kpt' = kpt \ {c} /\ c \in kpt /\ run' = run
        BY <3>2, <3>3, <3>4, TurnEffect DEF TypeOK
      <4>2. QED
        BY <4>1 DEF Registry!RegNext, Registry!Forget
    <3>5. CASE turns[c] # t
      BY <3>2, <3>3, <3>5, TurnEffect DEF TypeOK
    <3>6. QED
      BY <3>4, <3>5
  <2>5. ASSUME UNCHANGED <<turns, turn>>
        PROVE  run' = run /\ kpt' = kpt
    BY <2>5
  <2>6. Registry!RegNext \/ (run' = run /\ kpt' = kpt)
    BY <2>1, <2>2, <2>3, <2>4, <2>5, ClientEffect DEF Next, vars
  <2>7. QED
    BY <2>6 DEF Registry!regVars
<1>3. QED
  BY <1>1, <1>2, TurnsInvariant, PTL DEF Spec, ImplementsRegistry, Registry!RegSpec

-----------------------------------------------------------------------------
(* The streams *)

\* s holds the events up to m in order, but for the lost ones.
StreamOk(s, lost, m) ==
    /\ \A i \in 1 .. Len(s) - 1 : s[i] < s[i + 1]
    /\ Numbers(s) \cap lost = {}
    /\ Numbers(s) \cup lost = 1 .. m

\* What is known of a client that has the turn t at hand.  Once it has subscribed it
\* stays among the subscribers for as long as the turn appends events.
ClientOk(c, t) ==
    /\ t.st # "new"
    /\ c.pc = "holding" => /\ c.seen = << >> /\ c.chan = << >>
                           /\ c.lost = {} /\ ~c.sub
    /\ c.pc # "holding" => /\ StreamOk(Pending(c), c.lost, t.events)
                           /\ t.st = "running" => c.sub
    /\ c.pc = "tail" => c.backlog = << >>

StreamInv ==
    \A x \in Clients : client[x].pc # "away" => ClientOk(client[x], turn[client[x].turn])

\* What is pending stays the same when an event moves from one part to the part
\* before it.
LEMMA MoveHead ==
    ASSUME NEW s \in Seq(Event), NEW b \in Seq(Event), b # << >>
    PROVE  Append(s, Head(b)) \o Tail(b) = s \o b
<1> DEFINE h == Append(s, Head(b))
           r == Tail(b)
<1>1. /\ Head(b) \in Event /\ Head(b) = b[1]
      /\ r \in Seq(Event) /\ Len(r) = Len(b) - 1
      /\ \A i \in 1 .. Len(r) : r[i] = b[i + 1]
      /\ Len(b) \in Nat \ {0} /\ Len(s) \in Nat
  BY HeadTailProperties, EmptySeq, LenProperties
<1>2. /\ h \in Seq(Event)
      /\ Len(h) = Len(s) + 1
      /\ \A i \in 1 .. Len(s) : h[i] = s[i]
      /\ h[Len(s) + 1] = b[1]
  BY <1>1, AppendProperties
<1> HIDE DEF h, r
<1>3. /\ h \o r \in Seq(Event)
      /\ Len(h \o r) = Len(s) + Len(b)
      /\ \A i \in 1 .. Len(s) + Len(b) :
            (h \o r)[i] = IF i <= Len(s) + 1 THEN h[i] ELSE r[i - (Len(s) + 1)]
  <2>1. /\ h \o r \in Seq(Event)
        /\ Len(h \o r) = Len(h) + Len(r)
        /\ \A i \in 1 .. Len(h) + Len(r) :
              (h \o r)[i] = IF i <= Len(h) THEN h[i] ELSE r[i - Len(h)]
    BY <1>1, <1>2, ConcatProperties
  <2>2. Len(h) = Len(s) + 1 /\ Len(h) + Len(r) = Len(s) + Len(b)
    BY <1>1, <1>2
  <2>3. QED
    BY <2>1, <2>2
<1>4. /\ s \o b \in Seq(Event)
      /\ Len(s \o b) = Len(s) + Len(b)
      /\ \A i \in 1 .. Len(s) + Len(b) : (s \o b)[i] = IF i <= Len(s) THEN s[i] ELSE b[i - Len(s)]
  BY ConcatProperties
<1>5. \A i \in 1 .. Len(s) + Len(b) : (h \o r)[i] = (s \o b)[i]
  <2> TAKE i \in 1 .. Len(s) + Len(b)
  <2>1. CASE i <= Len(s)
    BY <1>1, <1>2, <1>3, <1>4, <2>1
  <2>2. CASE i = Len(s) + 1
    BY <1>1, <1>2, <1>3, <1>4, <2>2
  <2>3. CASE i > Len(s) + 1
    <3>1. i - (Len(s) + 1) \in 1 .. Len(r) /\ (i - (Len(s) + 1)) + 1 = i - Len(s)
      BY <1>1, <2>3
    <3>2. r[i - (Len(s) + 1)] = b[i - Len(s)]
      BY <1>1, <3>1
    <3>3. QED
      BY <1>1, <1>3, <1>4, <2>3, <3>2
  <2>4. i <= Len(s) \/ i = Len(s) + 1 \/ i > Len(s) + 1
    <3>1. i \in Int /\ Len(s) \in Nat
      BY <1>1
    <3>2. QED
      BY <3>1
  <2>5. QED
    BY <2>1, <2>2, <2>3, <2>4
<1>6. h \o r = s \o b
  BY <1>3, <1>4, <1>5, SeqEqual
<1>7. QED
  BY <1>6 DEF h, r

\* An event at the end of the channel is at the end of what is pending.
LEMMA AppendRight ==
    ASSUME NEW s \in Seq(Event), NEW b \in Seq(Event), NEW n \in Event
    PROVE  s \o Append(b, n) = Append(s \o b, n)
<1>1. <<n>> \in Seq(Event) /\ s \o b \in Seq(Event)
  BY ConcatProperties
<1>2. Append(b, n) = b \o <<n>> /\ Append(s \o b, n) = (s \o b) \o <<n>>
  BY <1>1, AppendIsConcat
<1>3. (s \o b) \o <<n>> = s \o (b \o <<n>>)
  BY <1>1, ConcatAssociative
<1>4. QED
  BY <1>2, <1>3

\* A stream stays faithful when the next event is appended to it or lost.
LEMMA StreamGrows ==
    ASSUME NEW s \in Seq(Event), NEW lost \in SUBSET Event, NEW m \in Nat,
           StreamOk(s, lost, m)
    PROVE  /\ StreamOk(Append(s, m + 1), lost, m + 1)
           /\ StreamOk(s, lost \cup {m + 1}, m + 1)
<1> DEFINE n == m + 1
           t == Append(s, n)
<1>1. n \in Event /\ n \notin 1 .. m /\ 1 .. n = (1 .. m) \cup {n}
  BY DEF Event
<1>2. /\ t \in Seq(Event)
      /\ Len(t) = Len(s) + 1
      /\ \A i \in 1 .. Len(s) : t[i] = s[i]
      /\ t[Len(s) + 1] = n
      /\ Len(s) \in Nat /\ DOMAIN s = 1 .. Len(s) /\ DOMAIN t = 1 .. Len(s) + 1
  BY <1>1, AppendProperties, LenProperties
<1>3. \A i \in 1 .. Len(s) : s[i] \in 1 .. m
  BY <1>2 DEF StreamOk, Numbers
<1> HIDE DEF t
<1>4. Numbers(t) = Numbers(s) \cup {n}
  BY <1>2 DEF Numbers
<1>5. \A i \in 1 .. Len(t) - 1 : t[i] < t[i + 1]
  <2> SUFFICES ASSUME NEW i \in 1 .. Len(s) PROVE t[i] < t[i + 1]
    BY <1>2
  <2>1. CASE i = Len(s)
    BY <1>2, <1>3, <2>1
  <2>2. CASE i # Len(s)
    <3>1. PICK l \in Nat : l = Len(s)
      BY <1>2
    <3>2. i \in 1 .. l - 1 /\ i + 1 \in 1 .. l
      BY <2>2, <3>1
    <3>3. s[i] < s[i + 1] /\ t[i] = s[i] /\ t[i + 1] = s[i + 1]
      BY <1>2, <3>1, <3>2 DEF StreamOk
    <3>4. QED
      BY <3>3
  <2>3. QED
    BY <2>1, <2>2
<1> HIDE DEF n
<1>6. n \notin Numbers(s) /\ n \notin lost
  BY <1>1 DEF StreamOk
<1>7. StreamOk(t, lost, n)
  BY <1>1, <1>4, <1>5, <1>6 DEF StreamOk
<1>8. StreamOk(s, lost \cup {n}, n)
  BY <1>1, <1>6 DEF StreamOk
<1>9. QED
  BY <1>7, <1>8 DEF t, n

\* The backlog Subscribe returns is the whole stream so far.
LEMMA BacklogOk == \A m \in Nat : StreamOk(Backlog(m), {}, m)
<1> SUFFICES ASSUME NEW m \in Nat PROVE StreamOk(Backlog(m), {}, m)
  OBVIOUS
<1>1. Len(Backlog(m)) = m /\ DOMAIN Backlog(m) = 1 .. m /\ \A i \in 1 .. m : Backlog(m)[i] = i
  BY DEF Backlog
<1>2. QED
  BY <1>1 DEF StreamOk, Numbers

\* Writing an event changes nothing of what is pending.
LEMMA ReadPending ==
    ASSUME NEW c \in Client
    PROVE  LET r == [c EXCEPT !.seen = Append(c.seen, Head(c.backlog)), !.backlog = Tail(c.backlog)]
               s == [c EXCEPT !.seen = Append(c.seen, Head(c.chan)), !.chan = Tail(c.chan)]
           IN  /\ c.backlog # << >> => Pending(r) = Pending(c) /\ r.lost = c.lost
               /\ c.chan # << >> /\ c.backlog = << >> =>
                     Pending(s) = Pending(c) /\ s.lost = c.lost /\ s.backlog = << >>
<1>1. c.seen \in Seq(Event) /\ c.backlog \in Seq(Event) /\ c.chan \in Seq(Event)
  BY DEF Client
<1>2. ASSUME NEW u, NEW v
      PROVE  /\ Pending([c EXCEPT !.seen = u, !.backlog = v]) = u \o v \o c.chan
             /\ Pending([c EXCEPT !.seen = u, !.chan = v]) = u \o c.backlog \o v
             /\ [c EXCEPT !.seen = u, !.backlog = v].lost = c.lost
             /\ [c EXCEPT !.seen = u, !.chan = v].lost = c.lost
             /\ [c EXCEPT !.seen = u, !.chan = v].backlog = c.backlog
  BY DEF Pending, Client
<1>3. ASSUME c.backlog # << >>
      PROVE  (Append(c.seen, Head(c.backlog)) \o Tail(c.backlog)) \o c.chan = Pending(c)
  BY <1>1, <1>3, MoveHead DEF Pending
<1>4. ASSUME c.chan # << >>, c.backlog = << >>
      PROVE  (Append(c.seen, Head(c.chan)) \o c.backlog) \o Tail(c.chan) = Pending(c)
  <2>1. Append(c.seen, Head(c.chan)) \in Seq(Event)
    BY <1>1, <1>4, HeadTailProperties, AppendProperties
  <2>2. /\ Append(c.seen, Head(c.chan)) \o << >> = Append(c.seen, Head(c.chan))
        /\ c.seen \o << >> = c.seen
    BY <1>1, <2>1, ConcatEmptySeq
  <2>3. Append(c.seen, Head(c.chan)) \o Tail(c.chan) = c.seen \o c.chan
    BY <1>1, <1>4, MoveHead
  <2>4. Pending(c) = (c.seen \o << >>) \o c.chan
    BY <1>4 DEF Pending
  <2>5. QED
    BY <1>4, <2>2, <2>3, <2>4
<1> DEFINE sb == Append(c.seen, Head(c.backlog))
           tb == Tail(c.backlog)
           sc == Append(c.seen, Head(c.chan))
           tc == Tail(c.chan)
<1>5. c.backlog # << >> => /\ Pending([c EXCEPT !.seen = sb, !.backlog = tb]) = Pending(c)
                           /\ [c EXCEPT !.seen = sb, !.backlog = tb].lost = c.lost
  <2>a. c.backlog # << >> => Pending(c) = sb \o tb \o c.chan
    BY <1>3, Zenon
  <2> HIDE DEF sb, tb
  <2>1. c.backlog # << >> => sb \o tb \o c.chan = Pending(c)
    BY <2>a
  <2>b. /\ Pending([c EXCEPT !.seen = sb, !.backlog = tb]) = sb \o tb \o c.chan
        /\ [c EXCEPT !.seen = sb, !.backlog = tb].lost = c.lost
    BY <1>2
  <2>2. QED
    BY <2>1, <2>b
<1>6. c.chan # << >> /\ c.backlog = << >> =>
        /\ Pending([c EXCEPT !.seen = sc, !.chan = tc]) = Pending(c)
        /\ [c EXCEPT !.seen = sc, !.chan = tc].lost = c.lost
        /\ [c EXCEPT !.seen = sc, !.chan = tc].backlog = << >>
  <2>1. c.chan # << >> /\ c.backlog = << >> => sc \o c.backlog \o tc = Pending(c)
    BY <1>4
  <2> HIDE DEF sc, tc
  <2>2. QED
    BY <1>2, <2>1
<1>7. QED
  BY <1>5, <1>6

\* Appending an event keeps a subscriber's stream faithful.
LEMMA OfferOk ==
    ASSUME NEW c \in Client, NEW m \in Nat, StreamOk(Pending(c), c.lost, m)
    PROVE  /\ StreamOk(Pending(Offer(c, m + 1)), Offer(c, m + 1).lost, m + 1)
           /\ Offer(c, m + 1).backlog = c.backlog
<1> DEFINE n == m + 1
<1>1. /\ c.seen \in Seq(Event) /\ c.backlog \in Seq(Event) /\ c.chan \in Seq(Event)
      /\ c.lost \in SUBSET Event
      /\ n \in Event
  BY DEF Client, Event
<1>2. c.seen \o c.backlog \in Seq(Event) /\ Pending(c) \in Seq(Event)
  BY <1>1, ConcatProperties DEF Pending
<1>3. StreamOk(Append(Pending(c), n), c.lost, n) /\ StreamOk(Pending(c), c.lost \cup {n}, n)
  BY <1>1, <1>2, StreamGrows
<1>4. (c.seen \o c.backlog) \o Append(c.chan, n) = Append(Pending(c), n)
  BY <1>1, <1>2, AppendRight DEF Pending
<1> HIDE DEF n
<1>5. CASE Len(c.chan) < Buffer
  <2> DEFINE v == Append(c.chan, n)
  <2>1. Offer(c, n) = [c EXCEPT !.chan = v]
    BY <1>5 DEF Offer
  <2> HIDE DEF v
  <2>2. /\ Offer(c, n).seen = c.seen
        /\ Offer(c, n).backlog = c.backlog
        /\ Offer(c, n).chan = v
        /\ Offer(c, n).lost = c.lost
    BY <2>1 DEF Client
  <2>3. Pending(Offer(c, n)) = Append(Pending(c), n)
    BY <1>4, <2>2 DEF Pending, v
  <2>4. QED
    BY <1>3, <2>2, <2>3 DEF n
<1>6. CASE ~(Len(c.chan) < Buffer)
  <2> DEFINE v == c.lost \cup {n}
  <2>1. Offer(c, n) = [c EXCEPT !.lost = v]
    BY <1>6 DEF Offer
  <2> HIDE DEF v
  <2>2. /\ Offer(c, n).seen = c.seen
        /\ Offer(c, n).backlog = c.backlog
        /\ Offer(c, n).chan = c.chan
        /\ Offer(c, n).lost = v
    BY <2>1 DEF Client
  <2>3. Pending(Offer(c, n)) = Pending(c)
    BY <2>2 DEF Pending
  <2>4. QED
    BY <1>3, <2>2, <2>3 DEF n, v
<1>7. QED
  BY <1>5, <1>6

\* Every step keeps the streams faithful: one step per action.
LEMMA StreamStep ==
    ASSUME TurnInv, StreamInv, [Next]_vars
    PROVE  StreamInv'
<1> USE TurnsAssumption DEF TurnInv
<1>1. \A y \in Clients :
        /\ client[y] \in Client
        /\ client[y].pc # "away" => /\ client[y].turn \in TurnIds
                                    /\ ClientOk(client[y], turn[client[y].turn])
  BY DEF TypeOK, HoldInv, StreamInv
<1>2. ASSUME NEW x \in Clients, NEW k \in Client, client' = [client EXCEPT ![x] = k],
             UNCHANGED turn, k.pc # "away" => ClientOk(k, turn[k.turn])
      PROVE  StreamInv'
  BY <1>1, <1>2 DEF StreamInv, TypeOK
<1>3. ASSUME NEW x \in Clients, NEW t \in TurnIds, Start(x, t)
      PROVE  StreamInv'
  <2> DEFINE k == [Away EXCEPT !.pc = "holding", !.turn = t]
  <2>1. /\ client' = [client EXCEPT ![x] = k]
        /\ turn' = [turn EXCEPT ![t].st = "running"]
        /\ turn[t].st = "new"
    BY <1>3 DEF Start
  <2>2. /\ turn'[t].st = "running"
        /\ \A u \in TurnIds \ {t} : turn'[u] = turn[u]
    BY <2>1 DEF TypeOK, Turn
  <2>3. k \in Client /\ k.turn = t /\ k.pc = "holding" /\ ~k.sub
    BY HoldingType
  <2>4. k.seen = << >> /\ k.chan = << >> /\ k.lost = {}
    BY DEF Away
  <2> HIDE DEF k
  <2>5. ClientOk(k, turn'[t])
    BY <2>2, <2>3, <2>4 DEF ClientOk
  <2>6. ASSUME NEW y \in Clients \ {x}, client'[y].pc # "away"
        PROVE  ClientOk(client'[y], turn'[client'[y].turn])
    <3>1. client'[y] = client[y]
      BY <2>1 DEF TypeOK
    <3>2. client[y].turn \in TurnIds \ {t}
      BY <1>1, <2>1, <2>6, <3>1 DEF ClientOk
    <3>3. QED
      BY <1>1, <2>2, <2>6, <3>1, <3>2
  <2>7. client'[x] = k
    BY <2>1 DEF TypeOK
  <2>8. QED
    BY <2>3, <2>5, <2>6, <2>7 DEF StreamInv
<1>4. ASSUME NEW t \in TurnIds, AppendEvent(t)
      PROVE  StreamInv'
  <2> DEFINE m == turn[t].events
  <2>1. /\ m \in Nat
        /\ turn[t].st = "running"
        /\ turn'[t].st = "running"
        /\ turn'[t].events = m + 1
        /\ \A u \in TurnIds \ {t} : turn'[u] = turn[u]
    BY <1>4 DEF AppendEvent, TypeOK, Turn
  <2>2. \A y \in Clients :
          client'[y] = IF y \in Subs(t) THEN Offer(client[y], m + 1) ELSE client[y]
    BY <1>4 DEF AppendEvent
  <2>3. m + 1 \in Event
    BY <2>1 DEF Event
  <2> HIDE DEF m
  <2>4. ASSUME NEW y \in Clients, client'[y].pc # "away"
        PROVE  ClientOk(client'[y], turn'[client'[y].turn])
    <3> DEFINE c == client[y]
    <3>1. CASE y \in Subs(t)
      <4> DEFINE k == Offer(c, m + 1)
      <4>1. /\ client'[y] = k /\ k.pc = c.pc /\ k.turn = c.turn /\ k.sub = c.sub
            /\ c.sub /\ c.turn = t
        BY <1>1, <2>2, <2>3, <3>1, OfferType DEF Subs
      <4>2. ClientOk(c, turn[t]) /\ c.pc # "holding"
        BY <1>1, <2>4, <4>1 DEF ClientOk
      <4>3. StreamOk(Pending(c), c.lost, m)
        BY <4>2 DEF ClientOk, m
      <4>4. StreamOk(Pending(k), k.lost, m + 1) /\ k.backlog = c.backlog
        BY <1>1, <2>1, <4>3, OfferOk
      <4> HIDE DEF k
      <4>5. ClientOk(k, turn'[t])
        BY <2>1, <4>1, <4>2, <4>4 DEF ClientOk
      <4>6. QED
        BY <4>1, <4>5
    <3>2. CASE y \notin Subs(t) /\ c.turn = t
      <4>1. client'[y] = c /\ ~c.sub
        BY <2>2, <3>2 DEF Subs
      <4>2. ClientOk(c, turn[t]) /\ c.pc = "holding"
        BY <1>1, <2>1, <2>4, <3>2, <4>1 DEF ClientOk
      <4>3. QED
        BY <2>1, <3>2, <4>1, <4>2 DEF ClientOk
    <3>3. CASE y \notin Subs(t) /\ c.turn # t
      BY <1>1, <2>1, <2>2, <2>4, <3>3
    <3>4. QED
      BY <3>1, <3>2, <3>3
  <2>5. QED
    BY <2>4 DEF StreamInv
<1>5. ASSUME NEW t \in TurnIds, NEW s \in {"finished", "retired"},
             turn[t].st # "new", turn' = [turn EXCEPT ![t].st = s]
      PROVE  \A u \in TurnIds : /\ turn'[u].events = turn[u].events
                                /\ turn[u].st # "new" => turn'[u].st # "new"
                                /\ turn'[u].st = "running" => turn[u].st = "running"
  BY <1>5 DEF TypeOK, Turn
<1>6. ASSUME NEW t \in TurnIds, Finish(t)
      PROVE  StreamInv'
  <2>1. /\ turn[t].st # "new"
        /\ turn' = [turn EXCEPT ![t].st = "finished"]
        /\ turn'[t].st = "finished"
    BY <1>6, TurnEffect DEF Finish
  <2>2. \A u \in TurnIds : /\ turn'[u].events = turn[u].events
                           /\ turn[u].st # "new" => turn'[u].st # "new"
                           /\ turn'[u].st = "running" => turn[u].st = "running"
    BY <1>5, <2>1
  <2>3. ASSUME NEW y \in Clients, client'[y].pc # "away"
        PROVE  ClientOk(client'[y], turn'[client'[y].turn])
    <3> DEFINE c == client[y]
               k == client'[y]
    <3>1. c \in Client
      BY <1>1
    <3>2. /\ k = IF y \in Subs(t) THEN [c EXCEPT !.sub = FALSE, !.open = FALSE] ELSE c
          /\ y \in Subs(t) => c.turn = t
      BY <1>6 DEF Finish, Subs
    <3>3. /\ k.pc = c.pc /\ k.turn = c.turn /\ k.seen = c.seen /\ k.backlog = c.backlog
          /\ k.chan = c.chan /\ k.lost = c.lost
          /\ k.sub = c.sub \/ (~k.sub /\ c.turn = t)
      BY <3>1, <3>2 DEF Client
    <3>4. c.turn \in TurnIds /\ ClientOk(c, turn[c.turn])
      BY <1>1, <2>3, <3>3
    <3> HIDE DEF k
    <3>5. Pending(k) = Pending(c)
      BY <3>3 DEF Pending
    <3>6. ClientOk(k, turn'[k.turn])
      BY <2>1, <2>2, <3>3, <3>4, <3>5 DEF ClientOk
    <3>7. QED
      BY <3>6 DEF k
  <2>4. QED
    BY <2>3 DEF StreamInv
<1>7. ASSUME NEW t \in TurnIds, Retire(t)
      PROVE  StreamInv'
  <2>1. /\ turn[t].st # "new"
        /\ turn' = [turn EXCEPT ![t].st = "retired"]
        /\ UNCHANGED client
    BY <1>7 DEF Retire
  <2>2. \A u \in TurnIds : /\ turn'[u].events = turn[u].events
                           /\ turn[u].st # "new" => turn'[u].st # "new"
                           /\ turn'[u].st = "running" => turn[u].st = "running"
    BY <1>5, <2>1
  <2>3. QED
    BY <1>1, <2>1, <2>2 DEF StreamInv, ClientOk
<1>8. ASSUME NEW x \in Clients, NEW d \in Convs, Get(x, d)
      PROVE  StreamInv'
  <2> DEFINE k == [Away EXCEPT !.pc = "holding", !.turn = turns[d]]
  <2>1. /\ client' = [client EXCEPT ![x] = k]
        /\ UNCHANGED turn
        /\ turns[d] \in TurnIds
        /\ turn[turns[d]].st # "new"
    BY <1>8 DEF Get, TypeOK, MapInv
  <2>2. k \in Client /\ k.turn = turns[d] /\ k.pc = "holding" /\ ~k.sub
    BY <2>1, HoldingType
  <2>3. k.seen = << >> /\ k.chan = << >> /\ k.lost = {}
    BY DEF Away
  <2> HIDE DEF k
  <2>4. ClientOk(k, turn[k.turn])
    BY <2>1, <2>2, <2>3 DEF ClientOk
  <2>5. QED
    BY <1>2, <2>1, <2>2, <2>4
<1>9. ASSUME NEW x \in Clients, Subscribe(x)
      PROVE  StreamInv'
  <2> DEFINE c == client[x]
             m == turn[c.turn].events
             b == Backlog(m)
             o == ~isFinished(c.turn)
             k == [c EXCEPT !.pc = "replay", !.backlog = b, !.open = o, !.sub = o]
  <2>1. /\ client' = [client EXCEPT ![x] = k]
        /\ UNCHANGED turn
        /\ c.pc = "holding"
    BY <1>9 DEF Subscribe
  <2>2. c \in Client /\ c.turn \in TurnIds /\ ClientOk(c, turn[c.turn]) /\ m \in Nat
    BY <1>1, <2>1 DEF TypeOK, Turn
  <2>3. o \in BOOLEAN /\ (o <=> turn[c.turn].st = "running")
    BY DEF isFinished
  <2>4. b \in Seq(Event) /\ StreamOk(b, {}, m)
    BY <2>2, BacklogType, BacklogOk
  <2> HIDE DEF b, o, m
  <2>5. /\ k \in Client
        /\ k.pc = "replay" /\ k.turn = c.turn /\ k.backlog = b /\ k.sub = o
        /\ k.seen = << >> /\ k.chan = << >> /\ k.lost = {}
    BY <2>1, <2>2, <2>3, <2>4 DEF ClientOk, Client
  <2> HIDE DEF k
  <2>6. Pending(k) = b
    BY <2>4, <2>5, ConcatEmptySeq DEF Pending
  <2>7. ClientOk(k, turn[k.turn])
    BY <2>2, <2>3, <2>4, <2>5, <2>6 DEF ClientOk, m
  <2>8. QED
    BY <1>2, <2>1, <2>5, <2>7
<1>10. ASSUME NEW x \in Clients, NEW k \in Client, client' = [client EXCEPT ![x] = k],
              UNCHANGED turn, client[x].pc \in {"replay", "tail"},
              k.pc \in {"replay", "tail", "over"}, k.turn = client[x].turn,
              k.sub = client[x].sub, Pending(k) = Pending(client[x]), k.lost = client[x].lost,
              k.pc = "tail" => k.backlog = << >>
       PROVE  StreamInv'
  <2>1. ClientOk(k, turn[k.turn])
    BY <1>1, <1>10 DEF ClientOk
  <2>2. QED
    BY <1>2, <1>10, <2>1
<1>11. ASSUME NEW x \in Clients, Replay(x)
       PROVE  StreamInv'
  <2> DEFINE c == client[x]
             k == [c EXCEPT !.seen = Append(c.seen, Head(c.backlog)), !.backlog = Tail(c.backlog)]
  <2>1. /\ client' = [client EXCEPT ![x] = k]
        /\ UNCHANGED turn
        /\ c.pc = "replay"
        /\ c.backlog # << >>
    BY <1>11 DEF Replay
  <2>2. /\ k \in Client /\ k.pc = c.pc /\ k.turn = c.turn /\ k.sub = c.sub
        /\ Pending(k) = Pending(c) /\ k.lost = c.lost
    BY <1>1, <2>1, ReadType, ReadPending
  <2> HIDE DEF k
  <2>3. QED
    BY <1>10, <2>1, <2>2
<1>12. ASSUME NEW x \in Clients, Receive(x)
       PROVE  StreamInv'
  <2> DEFINE c == client[x]
             k == [c EXCEPT !.seen = Append(c.seen, Head(c.chan)), !.chan = Tail(c.chan)]
  <2>1. /\ client' = [client EXCEPT ![x] = k]
        /\ UNCHANGED turn
        /\ c.pc = "tail"
        /\ c.chan # << >>
    BY <1>12 DEF Receive
  <2>2. c.backlog = << >>
    BY <1>1, <2>1 DEF ClientOk
  <2>3. /\ k \in Client /\ k.pc = c.pc /\ k.turn = c.turn /\ k.sub = c.sub
        /\ Pending(k) = Pending(c) /\ k.lost = c.lost /\ k.backlog = << >>
    BY <1>1, <2>1, <2>2, ReadType, ReadPending
  <2> HIDE DEF k
  <2>4. QED
    BY <1>10, <2>1, <2>3
<1>13. ASSUME NEW x \in Clients, Replayed(x) \/ Complete(x)
       PROVE  StreamInv'
  <2> DEFINE c == client[x]
  <2>1. PICK l \in {"tail", "over"} :
           /\ client' = [client EXCEPT ![x] = [c EXCEPT !.pc = l]]
           /\ l = "tail" => c.backlog = << >>
           /\ c.pc \in {"replay", "tail"}
           /\ UNCHANGED turn
    BY <1>13 DEF Replayed, Complete
  <2> DEFINE k == [c EXCEPT !.pc = l]
  <2>2. /\ k \in Client /\ k.pc = l /\ k.turn = c.turn /\ k.sub = c.sub
        /\ k.lost = c.lost /\ k.backlog = c.backlog /\ k.seen = c.seen /\ k.chan = c.chan
    BY <1>1 DEF Client
  <2>3. client' = [client EXCEPT ![x] = k]
    BY <2>1
  <2> HIDE DEF k
  <2>4. Pending(k) = Pending(c)
    BY <2>2 DEF Pending
  <2>5. QED
    BY <1>10, <2>1, <2>2, <2>3, <2>4
<1>14. ASSUME NEW x \in Clients, Leave(x)
       PROVE  StreamInv'
  <2>1. client' = [client EXCEPT ![x] = Away] /\ UNCHANGED turn
    BY <1>14 DEF Leave
  <2>2. Away \in Client /\ Away.pc = "away"
    BY DEF Away, Client
  <2>3. QED
    BY <1>2, <2>1, <2>2
<1>15. CASE UNCHANGED vars
  BY <1>15 DEF vars, StreamInv
<1>16. QED
  BY <1>3, <1>4, <1>6, <1>7, <1>8, <1>9, <1>11, <1>12, <1>13, <1>14, <1>15 DEF Next, Stream

\* Whatever the size of the channels and however clients come and go, a client is
\* written every event of its turn once and in order, but for those dropped on its
\* own full channel.
THEOREM FaithfulStreams == Spec => []StreamFaithful
<1>1. Init => StreamInv
  BY DEF Init, StreamInv, Away
<1>2. TurnInv /\ StreamInv /\ [Next]_vars => StreamInv'
  BY StreamStep
<1>3. StreamInv => StreamFaithful
  BY DEF StreamInv, ClientOk, StreamOk, StreamFaithful
<1>4. QED
  BY <1>1, <1>2, <1>3, TurnsInvariant, PTL DEF Spec

\* Types, one running turn and open channels, in every reachable state.
THEOREM SoundTurns == Spec => []TurnsAreSound
BY TurnsTyping, OneTurn, NoSendOnClosed, PTL DEF TurnsAreSound

=============================================================================
