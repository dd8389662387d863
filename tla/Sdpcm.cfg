CONSTANTS
    SeqMod = 8
    Window = 3
    BurstMax = 2
    Budget = 3
    Buffers = 3
    RxDepth = 2
    MaxOut = 9
SPECIFICATION FairSpec
INVARIANTS CreditTrue
PROPERTIES NumbersInOrder DataDiscipline CreditReturns
