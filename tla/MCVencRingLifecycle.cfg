SPECIFICATION LifeFairSpec
CONSTANTS
    SlotCount = 2
    IdxMod = 64
    MaxCreates = 2
    MaxWrites = 2
    MaxCrashes = 1
    MaxStarts = 2
INVARIANTS LifeTypeOK HarmNeedsStraddling
PROPERTY DestroyNoticed
CHECK_DEADLOCK FALSE
