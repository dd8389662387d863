CONSTANTS
    Nbls = {n1, n2, n3}
    NoNbl = NoNbl
    CancelIds = {c1}
    ActiveLimit = 2
    BacklogLimit = 2
    Budget = 2
    Closed = {"PAUSED"}
    NbCounts = {0, 1, 2, 3}
    MaxAge = 1
    ClockSpan = 16
    MaxClock = 1
    LastSubmit = 0
    MaxTickets = 3
SPECIFICATION Spec
SYMMETRY Symmetry
INVARIANTS OwnedOnce NoFalseZero Bounded NoIdleRoom CancelStops ChargesExact
PROPERTIES ImplementsFifo
