------------------------------- MODULE Turns -------------------------------
(***************************************************************************)
(* The turn manager (internal/ai/turn_manager.go) and the loop that streams*)
(* a turn to a client (streamTurnToClient in internal/ai/handler.go).      *)
(*                                                                         *)
(* A turn runs in its own goroutine and appends events to a backlog that   *)
(* it also fans out to its subscribers' channels.  A client replays the    *)
(* backlog it was given and then reads its channel; it may go away and     *)
(* come back.  Every critical section (t.mu, m.mu) is an action.           *)
(*                                                                         *)
(* An event is its number in its turn.  Nothing survives a restart of the  *)
(* process: a restart is the initial state.                                *)
(***************************************************************************)
EXTENDS Naturals, Sequences

CONSTANTS
    Convs,        \* conversations.id
    TurnIds,      \* Turn objects
    Clients,      \* HTTP connections that stream a turn
    NoTurn,       \* no entry in the manager's map, no turn at hand
    Buffer,       \* capacity of a subscriber's channel (64)
    MaxEvents     \* bound: events of a turn

ASSUME TurnsAssumption ==
    /\ NoTurn \notin TurnIds
    /\ Buffer \in Nat \ {0}
    /\ MaxEvents \in Nat

VARIABLES
    turns,        \* turns[c]: TurnManager.turns
    turn,         \* turn[t]: the Turn object
    client        \* client[x]: where the streaming loop of x is

vars == <<turns, turn, client>>

-----------------------------------------------------------------------------
(* State *)

\* "new": not yet allocated; "retired": its retention timer has fired.
Turn == [st     : {"new", "running", "finished", "retired"},
         conv   : Convs,
         events : Nat]                 \* len(t.events)

Event == Nat \ {0}

Client == [pc      : {"away", "holding", "replay", "tail", "over"},
           turn    : TurnIds \cup {NoTurn},
           backlog : Seq(Event),         \* what Subscribe returned, not yet written
           chan    : Seq(Event),         \* what is in the channel
           open    : BOOLEAN,          \* the channel exists and is not closed
           sub     : BOOLEAN,          \* the channel is in t.subs
           seen    : Seq(Event),         \* events written to the connection
           lost    : SUBSET Event]       \* history: events dropped on a full channel

Away == [pc |-> "away", turn |-> NoTurn, backlog |-> << >>, chan |-> << >>,
         open |-> FALSE, sub |-> FALSE, seen |-> << >>, lost |-> {}]

TypeOK ==
    /\ turns \in [Convs -> TurnIds \cup {NoTurn}]
    /\ turn \in [TurnIds -> Turn]
    /\ client \in [Clients -> Client]

Init ==
    /\ turns = [c \in Convs |-> NoTurn]
    /\ turn \in [TurnIds -> [st : {"new"}, conv : Convs, events : {0}]]
    /\ client = [x \in Clients |-> Away]

\* The numbers of a turn's first n events, in order.
Backlog(n) == [i \in 1 .. n |-> i]

Subs(t) == {x \in Clients : client[x].sub /\ client[x].turn = t}

-----------------------------------------------------------------------------
(* The turn *)

isFinished(t) == turn[t].st # "running"

\* Start: refused while the conversation's turn is running.  The client whose
\* request started it goes on to stream it.
Start(x, t) ==
    LET c == turn[t].conv
    IN  /\ client[x].pc = "away"
        /\ turn[t].st = "new"
        /\ turns[c] # NoTurn => isFinished(turns[c])
        /\ turn' = [turn EXCEPT ![t].st = "running"]
        /\ turns' = [turns EXCEPT ![c] = t]
        /\ client' = [client EXCEPT ![x] = [Away EXCEPT !.pc = "holding", !.turn = t]]

\* A subscriber's channel after Append of event n.
Offer(c, n) == IF Len(c.chan) < Buffer THEN [c EXCEPT !.chan = Append(@, n)]
               ELSE [c EXCEPT !.lost = @ \cup {n}]

\* Append: to the backlog, and to every subscriber's channel that has room.  The
\* event a recovered panic appends is one of these.
AppendEvent(t) ==
    LET n == turn[t].events + 1
    IN  /\ turn[t].st = "running"
        /\ n <= MaxEvents
        /\ turn' = [turn EXCEPT ![t].events = n]
        /\ client' = [x \in Clients |-> IF x \in Subs(t) THEN Offer(client[x], n) ELSE client[x]]
        /\ UNCHANGED turns

\* Mutant of Finish: the subscribers' channels are not closed.
FinishKeepsOpen(t) ==
    /\ turn[t].st = "running"
    /\ turn' = [turn EXCEPT ![t].st = "finished"]
    /\ client' = [x \in Clients |-> IF x \in Subs(t) THEN [client[x] EXCEPT !.sub = FALSE]
                                    ELSE client[x]]
    /\ UNCHANGED turns

\* Mutant of Finish: the turn is forgotten at once, without its retention.
FinishForgets(t) ==
    /\ turn[t].st = "running"
    /\ turn' = [turn EXCEPT ![t].st = "finished"]
    /\ client' = [x \in Clients |-> IF x \in Subs(t)
                                    THEN [client[x] EXCEPT !.sub = FALSE, !.open = FALSE]
                                    ELSE client[x]]
    /\ turns' = [turns EXCEPT ![turn[t].conv] = NoTurn]

\* The body returned, panicked or hit its deadline: markFinished.
Finish(t) ==
    /\ turn[t].st = "running"
    /\ turn' = [turn EXCEPT ![t].st = "finished"]
    /\ client' = [x \in Clients |-> IF x \in Subs(t)
                                    THEN [client[x] EXCEPT !.sub = FALSE, !.open = FALSE]
                                    ELSE client[x]]
    /\ UNCHANGED turns

\* Mutant of Retire: the timer never finds the entry to be its own.
RetireNothing(t) ==
    /\ turn[t].st = "finished"
    /\ turn' = [turn EXCEPT ![t].st = "retired"]
    /\ UNCHANGED <<turns, client>>

\* The retention timer: the entry is deleted only if it is still this turn's.
Retire(t) ==
    LET c == turn[t].conv
    IN  /\ turn[t].st = "finished"
        /\ turn' = [turn EXCEPT ![t].st = "retired"]
        /\ turns' = IF turns[c] = t THEN [turns EXCEPT ![c] = NoTurn] ELSE turns
        /\ UNCHANGED client

-----------------------------------------------------------------------------
(* The client *)

\* StreamActiveTurn: Get returned the conversation's turn.
Get(x, c) ==
    /\ client[x].pc = "away"
    /\ turns[c] # NoTurn
    /\ client' = [client EXCEPT ![x] = [Away EXCEPT !.pc = "holding", !.turn = turns[c]]]
    /\ UNCHANGED <<turns, turn>>

\* Mutant of Subscribe: the copy of the backlog leaves out its last event.
SubscribeShort(x) ==
    LET t == client[x].turn
        n == turn[t].events
    IN  /\ client[x].pc = "holding"
        /\ client' = [client EXCEPT ![x] =
              [@ EXCEPT !.pc = "replay", !.backlog = Backlog(IF n = 0 THEN 0 ELSE n - 1),
                        !.open = ~isFinished(t), !.sub = ~isFinished(t)]]
        /\ UNCHANGED <<turns, turn>>

\* Subscribe: a copy of the backlog and, unless the turn is finished, a channel.
Subscribe(x) ==
    LET t == client[x].turn
    IN  /\ client[x].pc = "holding"
        /\ client' = [client EXCEPT ![x] =
              [@ EXCEPT !.pc = "replay", !.backlog = Backlog(turn[t].events),
                        !.open = ~isFinished(t), !.sub = ~isFinished(t)]]
        /\ UNCHANGED <<turns, turn>>

\* The replay loop writes the next event of the backlog.
Replay(x) ==
    LET c == client[x]
    IN  /\ c.pc = "replay"
        /\ c.backlog # << >>
        /\ client' = [client EXCEPT ![x] =
              [c EXCEPT !.seen = Append(c.seen, Head(c.backlog)), !.backlog = Tail(c.backlog)]]
        /\ UNCHANGED <<turns, turn>>

\* ... and is done with it.  A channel that is closed by now is still read: its
\* buffered events are delivered before the loop ends.
Replayed(x) ==
    LET c == client[x]
    IN  /\ c.pc = "replay"
        /\ c.backlog = << >>
        /\ client' = [client EXCEPT ![x] = [@ EXCEPT !.pc = "tail"]]
        /\ UNCHANGED <<turns, turn>>

\* The streaming loop takes an event from the channel and writes it.
Receive(x) ==
    LET c == client[x]
    IN  /\ c.pc = "tail"
        /\ c.chan # << >>
        /\ client' = [client EXCEPT ![x] =
              [c EXCEPT !.seen = Append(c.seen, Head(c.chan)), !.chan = Tail(c.chan)]]
        /\ UNCHANGED <<turns, turn>>

\* There was no channel, or it is closed and empty: the response is complete.
Complete(x) ==
    LET c == client[x]
    IN  /\ c.pc = "tail"
        /\ c.chan = << >>
        /\ ~c.open
        /\ client' = [client EXCEPT ![x] = [@ EXCEPT !.pc = "over"]]
        /\ UNCHANGED <<turns, turn>>

\* Mutant of Leave: the channel is closed, but stays among the subscribers.
LeaveSubscribed(x) ==
    /\ client[x].pc # "away"
    /\ client' = [client EXCEPT ![x] = IF client[x].sub THEN [@ EXCEPT !.open = FALSE, !.pc = "over"]
                                       ELSE Away]
    /\ UNCHANGED <<turns, turn>>

\* The client disconnects, or its response is over: the deferred unsubscribe takes
\* the channel out of the subscribers and closes it, if the turn has not done so.
Leave(x) ==
    /\ client[x].pc # "away"
    /\ client' = [client EXCEPT ![x] = Away]
    /\ UNCHANGED <<turns, turn>>

-----------------------------------------------------------------------------
(* Specification *)

Stream(x) == Subscribe(x) \/ Replay(x) \/ Replayed(x) \/ Receive(x) \/ Complete(x)

Next ==
    \/ \E x \in Clients, t \in TurnIds : Start(x, t)
    \/ \E t \in TurnIds : AppendEvent(t) \/ Finish(t) \/ Retire(t)
    \/ \E x \in Clients, c \in Convs : Get(x, c)
    \/ \E x \in Clients : Stream(x) \/ Leave(x)

Spec == Init /\ [][Next]_vars

\* A turn ends, by its deadline if not before; timers fire; a streaming loop that can
\* go on goes on.
Fairness ==
    /\ \A t \in TurnIds : WF_vars(Finish(t)) /\ WF_vars(Retire(t))
    /\ \A x \in Clients : WF_vars(Stream(x))

FairSpec == Spec /\ Fairness

-----------------------------------------------------------------------------
(* Properties *)

\* One turn at a time: the running turn of a conversation is the one in the map,
\* whatever the timers of its predecessors do.
OneRunningTurn ==
    \A t \in TurnIds : turn[t].st = "running" => turns[turn[t].conv] = t

Pending(c) == c.seen \o c.backlog \o c.chan

Numbers(s) == {s[i] : i \in DOMAIN s}

\* No client misses, repeats or reorders an event: what it has been written, what it
\* still has to replay and what waits in its channel are in order, and leave out
\* nothing but what its full channel dropped.
StreamFaithful ==
    \A x \in Clients : client[x].pc \in {"replay", "tail", "over"} =>
        LET c == client[x]
        IN  /\ \A i \in 1 .. Len(Pending(c)) - 1 : Pending(c)[i] < Pending(c)[i + 1]
            /\ Numbers(Pending(c)) \cap c.lost = {}
            /\ Numbers(Pending(c)) \cup c.lost = 1 .. turn[c.turn].events

\* No send on a closed channel, which would panic inside the turn: whoever is among
\* the subscribers of a turn has an open channel, and the turn is running.
SubscribersAreOpen ==
    \A x \in Clients : client[x].sub =>
        client[x].open /\ turn[client[x].turn].st = "running"

\* Nobody is left hanging on a turn that is over: a streaming client's response ends.
StreamsEnd ==
    \A x \in Clients : client[x].pc # "away" ~> client[x].pc \in {"over", "away"}

\* The map does not fill up: every turn leaves it.
TurnsAreForgotten ==
    \A c \in Convs, t \in TurnIds : turns[c] = t ~> turns[c] # t

Registry == INSTANCE TurnRegistry
    WITH running <- {c \in Convs : turns[c] # NoTurn /\ turn[turns[c]].st = "running"},
         kept    <- {c \in Convs : turns[c] # NoTurn /\ turn[turns[c]].st = "finished"}

\* Goroutines, locks and timers together implement the three steps of TurnRegistry.
ImplementsRegistry == Registry!RegSpec

\* The turns and those who listen: one turn runs, and nobody is sent to on a
\* closed channel.
TurnsAreSound == TypeOK /\ OneRunningTurn /\ SubscribersAreOpen

=============================================================================
