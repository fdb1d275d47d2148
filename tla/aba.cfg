SPECIFICATION Spec
CONSTANTS
    inbox = inbox
    work = work
    daemon = daemon
    tui = tui
    cli = cli
    user = user
    None = None
    Folders <- TwoFolders
    Permanent <- JustInbox
    Inbox <- inbox
    Uids <- OneUid
    Flags = {deleted}
    Deleted = deleted
    Daemons <- OneDaemon
    Tuis <- OneTui
    Clis <- NoOne
    Mutators <- NoOne
    MaxVer = 3
    MaxReserves = 2
INVARIANT LaterReservationSupersedes
