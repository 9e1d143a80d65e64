SPECIFICATION MCSpec
CONSTANTS
    Channels = {c1, c2, c3}
    Viewers = {v1}
    Chats = {x1, x2}
    Handlers = {h1, h2}
    TTL = 4
    MaxTokens = 2
    Scenes <- AccountScenes
    Calls = {n1}
    Callers = {y1, y2}
    MAX_SKEW_SECS = 2
    Offsets <- ClockOffsets
    MaxClock <- ClockBounds
    SEAL_KEY_TTL = 2
    MaxKeys = 3
    MaxRequests = 3
INVARIANTS TokensEnd ExecutedOnce KeyErrorExplained
PROPERTY OfflineShown
CHECK_DEADLOCK FALSE
