\* One conversation, two turns one after the other, two clients, channels of one
\* event, three events a turn: a slow client overflows, a late one replays.
CONSTANTS
    Convs = {c1}
    TurnIds = {t1, t2}
    Clients = {x1, x2}
    NoTurn = NoTurn
    Buffer = 1
    MaxEvents = 3
SPECIFICATION FairSpec
INVARIANTS StreamFaithful TurnsAreSound
PROPERTIES ImplementsRegistry StreamsEnd TurnsAreForgotten
CHECK_DEADLOCK FALSE
