CONSTANTS
    Senders = {s1, s2}
    FrameSizes = {1, 3}
    InitialWindow = 5
    MaxPacketSize = 3
    WindowAdjustThreshold = 3
    MaxQueuedFramesPerChannel = 3
    MaxQueuedBytesPerChannel = 5
    MaxUint32 = 7
    MaxSends = 4
SPECIFICATION FairSpec
INVARIANTS TypeOK WindowConservation NoProtocolError NoWedge
PROPERTY EverySendReturns
CHECK_DEADLOCK FALSE
