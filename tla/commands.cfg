SPECIFICATION CommandsSpec
CONSTANTS
    e1 = e1
    x = x
    p1 = p1
    p2 = p2
    ann = ann
    annie = annie
    n1 = n1
    n2 = n2
    k1 = k1
    k2 = k2
    home = home
    work = work
    Events <- MCEvents
    Stray = x
    Processes <- MCProcesses
    DavServers <- MCDavServers
    MaxVersion = 2
    MaxFaults = 1
    Addresses = {ann, annie}
    ContactNames = {n1, n2}
    Keys = {k1, k2}
    Within <- MCWithin
    Mail <- MCMail
    MaxCount = 2
    AccountNames = {home, work}
    MaxAdds = 2
    FolderPaths <- MCFolderPaths
    Mailboxes <- MCMailboxes
    MaxImports = 2
    MaxCommands = 3
INVARIANTS
    SecretsFollowAccounts
    MailboxComesBack
PROPERTIES
    ReplacesOnlyWhatWasSeen
    OnlyRemoveForgets
    CommandsKeepToThePath
    EventuallyInStep
CHECK_DEADLOCK FALSE
