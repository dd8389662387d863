CONSTANTS
    StreakLimit = 1
    MaxSnapshots = 3
    MaxWithIrq = 0
    MaxPauses = 1
    MaxPowers = 1
SPECIFICATION FairSpec
INVARIANTS InterruptKept SnapshotsWhole DrainedAtStop AdapterOutlivesAll
PROPERTIES MaskedEnds HaltEnds
CHECK_DEADLOCK FALSE
