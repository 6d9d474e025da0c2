CONSTANTS
    box = box
    gem = gem
    Items <- MCItems
    Inside <- MCInside
    Durations <- MCDurations
    MinTicks = 1
    Cap = 1
    MaxStart = 1
    MaxTime = 4
    MaxChecks = 2
    MaxRelease = 2
    None = None
    End = End
    Gone = Gone
SPECIFICATION FairSpec
INVARIANTS
    IteratorStaysValid
CHECK_DEADLOCK FALSE
