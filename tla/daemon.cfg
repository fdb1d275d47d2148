SPECIFICATION DaemonSpec
CONSTANTS
    Accounts = {me, you}
    Me = me
    Services = {{me}, {me, you}}
    Folders = {inbox, lists}
    Idle = inbox
    Open = lists
    Cap = 2
    MaxChanges = 1
    MaxFaults = 1
    MaxQueue = 1
    Daemons = {d1, d2, d3}
    Nobody = nobody
    MaxCrashes = 3
    MaxSilent = 1
INVARIANTS
    ConnectedViewIsFresh
    OneReachableServer
PROPERTIES
    EventuallyShown
    StartSucceeds
CHECK_DEADLOCK FALSE
