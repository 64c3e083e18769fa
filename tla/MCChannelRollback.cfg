CONSTANTS
    Window = 1
    Threshold = 1
    Uses <- RefusedUses
SPECIFICATION FairSpec
PROPERTY RemoteEOFIsFinal
CHECK_DEADLOCK FALSE
