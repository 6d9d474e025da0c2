CONSTANTS
    ann = ann
    Conns = {c1, c2}
    Characters = {ann}
    Asks <- MCAsks
    RefMod = 16
    MaxTasks = 2
    NoConn = NoConn
    NoPlayer = NoPlayer
SPECIFICATION FairSpec
INVARIANTS
    TypeOK
    AttachmentMutual
    RefsBalance
    PacketKeepsPlayer
    NoOrphan
    AutosendCovered
PROPERTY ClosedIsForgotten
CHECK_DEADLOCK FALSE
