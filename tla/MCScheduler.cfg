CONSTANTS
    game = game
    net = net
    e1 = e1
    e2 = e2
    e3 = e3
    Clients <- MCClients
    Game <- game
    Events <- MCEvents
    MaxId = 2
    Delays <- MCDelays
    MaxTime = 1
    NoEvent = NoEvent
    Never = Never
SPECIFICATION FairSpec
INVARIANTS
    TypeOK
    NoOversleep
    StoppedNeverFires
    IdsMatchEvents
PROPERTIES
    ImplementsTimers
CHECK_DEADLOCK FALSE
