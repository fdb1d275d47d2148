SPECIFICATION TuiSpec
CONSTANTS
    Accounts = {me, you}
    Boot = me
    Drafts = {d1, d2}
    Nothing = nothing
    Users = {"patient", "hasty"}
    MaxWaiting = 3
    Folders = {1, 2, 3}
    NoSelect = {2}
    Uids = {1, 2}
    Habits = {{"account"}, {"jump"}, {"folderop"}}
    MaxChanges = 2
    Scripts = {main, away}
    MaxRecords = 1
    MaxEdits = 2
INVARIANTS
    OneAtATime
    OpenDraftIsKept
    SessionAnswersItsOwner
    ShownIsCurrent
    KeysGoToWhatIsSeen
PROPERTIES
    BusyEnds
    BackgroundKeepsThePlace
    EscapeLeadsOut
