CONSTANTS
    Nbls = {n1, n2}
    NoNbl = NoNbl
    CancelIds = {c1}
    ActiveLimit = 2
    BacklogLimit = 1
    Budget = 1
    Closed = {"PAUSED"}
    NbCounts = {1, 2}
    MaxAge = 1
    ClockSpan = 16
    MaxClock = 1
    LastSubmit = 0
    MaxTickets = 2
SPECIFICATION FairSpec
PROPERTIES DueIsReturned
