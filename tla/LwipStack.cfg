SPECIFICATION FairSpec
CONSTANTS
    MaxFrames = 2
    MaxPosted = 2
    Packets = {p1}
INVARIANTS
    StatusFollowsInterface
    FramesAccounted
PROPERTIES
    InputDrains
CHECK_DEADLOCK FALSE
