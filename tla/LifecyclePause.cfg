CONSTANTS
    Workers = {w1, w2}
    NoThread = NoThread
    RecoveryMax = 1
    MaxSends = 1
SPECIFICATION Spec
CHECK_DEADLOCK FALSE
PROPERTY PauseDrains
