CONSTANTS
    net = net
    sched = sched
    worker = worker
    t1 = t1
    t2 = t2
    t3 = t3
    close = close
    game = game
    term = term
    none = none
    Producers <- MCProducers
    SchedulerThread <- sched
    Worker <- worker
    Tasks <- MCTasks
    TimedTasks <- MCTimed
    CloseTask <- close
    GameShutdown <- game
    Terminate <- term
    NoTask <- none
SPECIFICATION FairSpec
INVARIANTS
    TypeOK
    NoLostWakeup
    DrainedAtExit
    OneOwner
PROPERTIES
    CloseEndsWorker
    ImplementsExecutor
CHECK_DEADLOCK FALSE
