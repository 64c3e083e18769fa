CONSTANTS
    Window = 1
    Hangups = FALSE
    Leader = leader
    Children = {}
    Streams = {"stdout"}
    Outputs = {"stdout"}
    Results = {"ok", "bad"}
    Signaled = "bad"
    ExitOK = "ok"
    MaxOutput = 1
    MaxInput = 1
    Interrupts = FALSE
SPECIFICATION Spec
INVARIANT ExitReported
CHECK_DEADLOCK FALSE
