SPECIFICATION RemoteSpec
CONSTANTS
    id1 = id1
    id2 = id2
    mid1 = mid1
    mid2 = mid2
    Ids <- TwoIds
    NoId = NoId
    MidMaps <- OwnOrSame
    Legacy <- LegacyRows
    Providers <- Both
    Daemon = daemon
    Manual = manual
    NoOne = noone
    PageSize = 1
    MaxEvents = 0
    Casts <- FetchAloneAndOthers
    Starts <- OneMessage
    MaxLinkEvents = 0
PROPERTY EveryAccountCatchesUp
CHECK_DEADLOCK FALSE
