CONSTANTS
    Workers = {w1, w2}
    NoThread = NoThread
    RecoveryMax = 1
    MaxSends = 1
SPECIFICATION FairSpec
CHECK_DEADLOCK FALSE
INVARIANTS ClosedWhilePaused NoStrandedSend QuietInD3
PROPERTIES PauseReturns PowerCompletes
