CONSTANTS
    game = game
    net = net
    worker = worker
    q1 = q1
    q2 = q2
    q3 = q3
    none = none
    Clients <- MCClients
    Game <- game
    Worker <- worker
    Queries <- MCQueries
    NoQuery <- none
SPECIFICATION FairSpec
INVARIANTS
    TypeOK
    RunOnceInOrder
    ShutdownDrains
PROPERTIES
    AcceptedIsExecuted
CHECK_DEADLOCK FALSE
