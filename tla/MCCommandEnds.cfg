CONSTANTS
    Window = 1
    Hangups = TRUE
    Leader = leader
    Children = {child}
    Streams = {"stdout"}
    Outputs = {"stdout"}
    Results = {"ok", "bad"}
    Signaled = "bad"
    ExitOK = "ok"
    MaxOutput = 1
    MaxInput = 0
    Interrupts = FALSE
SPECIFICATION FairSpec
INVARIANT DoneMeansGone
PROPERTIES NoOrphans ClientReturns
CHECK_DEADLOCK FALSE
