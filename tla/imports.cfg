SPECIFICATION Spec
CONSTANTS
    inbox = inbox
    work = work
    daemon = daemon
    tui = tui
    cli = cli
    user = user
    None = None
    Folders <- TwoFolders
    Permanent <- JustInbox
    Inbox <- inbox
    Uids <- OneUid
    Flags = {deleted}
    Deleted = deleted
    Daemons <- OneDaemon
    Tuis <- NoOne
    Clis <- NoOne
    Mutators <- OneUser
    MaxVer = 1
    MaxReserves = 1
PROPERTY ImportsOutliveSyncs
