CONSTANTS
    q1 = q1
    q2 = q2
    q3 = q3
    q4 = q4
    p1 = p1
    p2 = p2
    p3 = p3
    p4 = p4
    Players <- MCPlayers
    Parties <- MCParties
    NoPlayer = NoPlayer
    NoParty = NoParty
SPECIFICATION Spec
SYMMETRY MCSymmetry
INVARIANTS
    TypeOK
    MembershipAgrees
    InvitationsAgree
    OfflineIsForgotten
    SharingIsEarned
