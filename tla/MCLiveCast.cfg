CONSTANTS
    Spectators = {eve, kim}
    BufferSize = 2
    MaxQueue = 2
SPECIFICATION Spec
INVARIANT NoCircularWait
CHECK_DEADLOCK FALSE
