CONSTANTS
    Window = 1
    Threshold = 1
    Uses <- MCUses
SPECIFICATION FairSpec
INVARIANTS TypeOK EOFIsTruthful ConfirmedCloseLosesNothing
PROPERTY CloseCompletes
CHECK_DEADLOCK FALSE
