SPECIFICATION LiveSpec
CONSTANTS
    Bitrates = {1, 2}
    Rates = {0, 2, 4, 6}
    Gops = {1}
    Servers = {"", "a"}
    SensorFps = 3
    BootFps = 2
    HighestFps = 5
    IdleFps = 1
    Boot <- MCBoot
    MaxRequests = 2
INVARIANT DeviceAgrees
PROPERTY AllOrNothing
CHECK_DEADLOCK FALSE
