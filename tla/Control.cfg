SPECIFICATION FairSpec
CONSTANTS
    SyncMod = 1
    MaxGen = 2
    Depth = 1
INVARIANTS LinkHonest FailedUnpublished PrefRestored ScanAlone ScanFresh
PROPERTIES ScanRestores RequestsEnd
