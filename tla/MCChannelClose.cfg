CONSTANTS
    Window = 1
    Threshold = 1
    Uses <- PlainUses
SPECIFICATION Spec
INVARIANT SessionSurvivesClose
CHECK_DEADLOCK FALSE
