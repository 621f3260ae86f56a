SPECIFICATION Spec
CONSTANTS
    Uris <- MCUris
    Boot <- MCBoot
    Fds = {0, 1, 2, 3, 4, 5, 6}
    MaxApplies = 1
    MaxReinits = 0
INVARIANT CacheIsSnapshot
