SPECIFICATION Spec
CONSTANTS
    Nals <- MCNals
    MaxSlots = 2
    MaxFrames = 3
    Payloads = {3, 12}
    SetCap = 9
    Numbers = 32
    FirstSeq = 30
INVARIANTS TypeOK Decodable FrameAccounted
CHECK_DEADLOCK FALSE
