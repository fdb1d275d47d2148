SPECIFICATION RemoteSpec
CONSTANTS
    id1 = id1
    id2 = id2
    mid1 = mid1
    mid2 = mid2
    Ids <- TwoIds
    NoId = NoId
    MidMaps <- OwnOrSame
    Legacy <- LegacyRows
    Providers <- Both
    Daemon = daemon
    Manual = manual
    NoOne = noone
    PageSize = 1
    MaxEvents = 2
    Casts <- FetchAloneAndOthers
    Starts <- OneMessage
    MaxLinkEvents = 3
INVARIANTS
    RowsAreSound
    AnnouncedOnce
    LinkCoversIndex
PROPERTIES
    ListingIsPublished
    IndexCatchesUp
CHECK_DEADLOCK FALSE
