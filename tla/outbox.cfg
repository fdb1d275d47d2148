SPECIFICATION FairSpec
CONSTANTS
    m1 = m1
    m2 = m2
    cli = cli
    compose = compose
    daemon = daemon
    tui = tui
    panel = panel
    Msgs <- TwoMsgs
    Queued <- TwoQueued
    Senders <- TwoSenders
    DueDrainers <- OneDaemon
    ListDrainers <- OneTui
    Overlays <- OnePanel
    Casts <- Alternatives
    MaxFaults = 1
    MaxAttempts = 2
INVARIANTS
    DuplicateNeedsFault
PROPERTIES
    StoredUntilSent
    EventuallyDelivered
