SPECIFICATION FairSpec
CONSTANTS
    PeerIds = {p1, p2}
    MaxChannels = 2
    MaxPendingOpens = 1
    MaxPendingChannelRequests = 1
    MaxPendingChannelRequestsPerChannel = 1
    MaxIds = 2
INVARIANTS
    TypeOK
    SlotAccounting
    RequestAccounting
    PeerIDsAgree
    NoInternalError
PROPERTIES
    EndedChannelsLeave
    OpenersReturn
CHECK_DEADLOCK FALSE
