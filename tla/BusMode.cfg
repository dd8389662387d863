CONSTANTS
    Reads = 2
    PerClock = 2
    MaxStarts = 2
SPECIFICATION FairSpec
INVARIANTS DataOnMatchedBus AccessInWindow BelievedTrue
PROPERTIES StartEnds
CHECK_DEADLOCK FALSE
