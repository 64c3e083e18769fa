SPECIFICATION FairSpec
CONSTANTS
    GlobalCallers = {g1}
    ChannelCallers = {r1}
    MaxPendingGlobalRequests = 1
    MaxQueuedFramesTotal = 2
    MaxQueuedBytesTotal = 3
    MaxQueuedFramesPerChannel = 2
    MaxQueuedBytesPerChannel = 3
    Size <- MCSize
    Uses <- MCUses
    MaxIn = 2
INVARIANTS
    TypeOK
    BudgetAccounted
    QueuesHaveRoom
    EndHasReason
    DisconnectDelivered
    WithdrawnNeverWritten
    IncomingAccounted
    EndedChannelHoldsNothing
PROPERTIES
    WaitReturns
    CallsReturn
CHECK_DEADLOCK FALSE
