SPECIFICATION FairSpec
CONSTANTS
    DualModes = {"off", "dual", "dual-stream"}
    LegacyAe = {0, 1}
    Depth = 2
    MaxReinits = 2
INVARIANTS TypeOK Standing
PROPERTY TeardownEnds
CHECK_DEADLOCK FALSE
