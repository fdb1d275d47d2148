SPECIFICATION Spec
CONSTANTS
    m1 = m1
    m2 = m2
    cli = cli
    compose = compose
    daemon = daemon
    tui = tui
    panel = panel
    Msgs <- TwoMsgs
    Queued <- OneQueued
    Senders <- TwoSenders
    DueDrainers <- OneDaemon
    ListDrainers <- OneTui
    Overlays <- OnePanel
    Casts <- AllTogether
    MaxFaults = 0
    MaxAttempts = 2
PROPERTY FailedSendStaysQueued
