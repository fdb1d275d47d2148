SPECIFICATION ConversationsSpec
CONSTANTS
    a = a
    b = b
    c = c
    daemon = daemon
    tui = tui
    ann = ann
    bob = bob
    eve = eve
    None = None
    Absent = Absent
    Ids <- ThreeIds
    Ingesters <- TwoIngesters
    Mailboxes <- TrailAndCircles
    People = {ann, bob, eve}
    Transports = {"imap", "graph", "jmap"}
    Fields = {"to", "cc", "bcc"}
    MaxMessages = 3
SYMMETRY Interchangeable
INVARIANTS
    NoCycle
    SettledThreads
    AddressedAreReached
    RepliesReachEveryone
    ReferencesAreAncestors
CHECK_DEADLOCK FALSE
