SPECIFICATION MCSpec
CONSTANTS
    d1 = d1
    d2 = d2
    Server = Server
    Devices = {d1, d2}
    Used = {d1}
    MaxId = 2
    SendTime <- Reversed
    MaxInFlight = 2
    Callers = {"any", "reader"}
    Allowed <- AnyAndReader
    MaxCalls = 2
    MaxFaults = 1
INVARIANTS InboxAgrees BadgeCleared TrueAnswer AnsweredReturns
PROPERTIES ImplementsReadMarks
