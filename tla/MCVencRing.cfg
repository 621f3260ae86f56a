SPECIFICATION FairSpec
CONSTANTS
    SlotCount = 2
    SlotDataSize = 2
    BufSize = 1
    Lens <- MCLens
    ReadCalls <- AllCalls
    IdxMod = 64
    MaxCalls = 3
    Damageable <- MCDamageable
INVARIANTS TypeOK IndexOrder NoSlotShared CopyInBounds
PROPERTIES FifoSpec EveryPacketTaken
