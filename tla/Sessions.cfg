SPECIFICATION FairSpec
CONSTANTS
    x1 = x1
    x2 = x2
    Channels = {c1, c2}
    Mobile = {c1, c2}
    Bound = {c1, c2}
    Chats = {x1, x2}
    Home <- AllToOne
    AdminAt = x1
    Grace = 2
    MaxMoves = 1
INVARIANT SessionsExplained
PROPERTY StaleIsClosed
CHECK_DEADLOCK FALSE
