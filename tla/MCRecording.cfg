SPECIFICATION FairSpec
CONSTANTS
    Modes = {"off", "mirror", "dual", "dual-stream"}
    Formats = {"ts", "hevc"}
    Audio = 1
    MaxRequests = 2
    MaxReinits = 1
    MaxFiles = 3
INVARIANTS TypeOK FilesSound StopHonoured
PROPERTY ExitReached
CHECK_DEADLOCK FALSE
