SPECIFICATION FairSpec
CONSTANTS
    Capacity = 2
    MaxFrames = 4
    MaxStarts = 2
INVARIANTS TypeOK RingsSound
PROPERTIES InOrder TeardownEnds
CHECK_DEADLOCK FALSE
