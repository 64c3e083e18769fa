CONSTANTS
    Window = 1
    Hangups = TRUE
    Leader = leader
    Children = {}
    Streams = {"stdout"}
    Outputs = {"stdout"}
    Results = {"ok", "bad"}
    Signaled = "bad"
    ExitOK = "ok"
    MaxOutput = 1
    MaxInput = 1
    Interrupts = TRUE
SPECIFICATION Spec
INVARIANTS TypeOK ExitIsFaithful
CHECK_DEADLOCK FALSE
