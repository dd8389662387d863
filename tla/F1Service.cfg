CONSTANTS
    MaxFrames = 2
    MaxToggles = 2
    MaxMail = 1
SPECIFICATION FairSpec
INVARIANTS FlowChangeKept FrameKept
PROPERTIES FrameIsRead
