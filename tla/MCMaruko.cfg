SPECIFICATION MarukoFairSpec
INVARIANTS MarukoTypeOK GraphSound
PROPERTY TermHonoured
CHECK_DEADLOCK FALSE
