SPECIFICATION ConversationsSpec
CONSTANTS
    a = a
    b = b
    c = c
    daemon = daemon
    tui = tui
    ann = ann
    bob = bob
    eve = eve
    None = None
    Absent = Absent
    Ids <- ThreeIds
    Ingesters <- TwoIngesters
    Mailboxes <- JustImap
    People = {ann, bob, eve}
    Transports = {"imap", "graph", "jmap"}
    Fields = {"to", "cc", "bcc"}
    MaxMessages = 3
SYMMETRY Interchangeable
INVARIANT RowsFollowRoots
CHECK_DEADLOCK FALSE
