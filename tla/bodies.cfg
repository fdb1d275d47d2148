SPECIFICATION FairSpec
CONSTANTS
    daemon = daemon
    cli = cli
    tui = tui
    user = user
    Uids <- TwoUids
    Unparsable <- OneUid
    Batchers <- Syncing
    WithBodies <- OneDaemon
    Viewers <- OneViewer
    Users <- OneUser
    Casts <- Alternatives
    MaxChanges = 4
    MaxDrops = 1
    MaxFaults = 1
INVARIANTS
    IndexFollowsRows
    CurrentBodiesAreRight
PROPERTY EventuallyFetched
