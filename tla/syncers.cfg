SPECIFICATION CastSpec
CONSTANTS
    inbox = inbox
    work = work
    daemon = daemon
    tui = tui
    cli = cli
    user = user
    None = None
    Folders <- TwoFolders
    Permanent <- JustInbox
    Inbox <- inbox
    Uids <- TwoUids
    Flags = {deleted}
    Deleted = deleted
    Daemons <- OneDaemon
    Tuis <- OneTui
    Clis <- OneCli
    Mutators <- OneUser
    MaxVer = 3
    MaxReserves = 2
INVARIANTS
    LatestReservationWins
    AnnouncedOnce
    CompleteSnapshotIsAuthoritative
    RowsBelongToFolder
PROPERTIES
    NeverGoesBack
    ImplementsLastReservation
