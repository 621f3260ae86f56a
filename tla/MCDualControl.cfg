SPECIFICATION FairSpec
CONSTANTS
    Configured = 1200
    Rates = {600, 2000}
    Seconds = {1, 10}
    Fps = 2
    MaxRequests = 2
INVARIANTS TypeOK CallsHaveChannel ChannelAsReported
PROPERTIES BackoffLowers TeardownEnds
CHECK_DEADLOCK FALSE
