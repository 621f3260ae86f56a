SPECIFICATION FairSpec
CONSTANTS
    InFile <- MCInFile
    Unfiled <- MCUnfiled
    Values <- MCValues
    MaxFps = 1
    SensorFps = 1
    FileStates = {"ok", "absent", "bad"}
    MaxSets = 2
    MaxReloads = 2
    MaxFileEdits = 1
INVARIANTS TypeOK QuietPipeline
PROPERTY ReloadHonoured
CHECK_DEADLOCK FALSE
