SPECIFICATION Spec
CONSTANTS
    Accounts = {me}
    Boot = me
    Folders = {1, 2, 3}
    NoSelect = {2}
    Uids = {1, 2}
    Habits = {{"jump"}}
    MaxChanges = 0
INVARIANT ListsAgree
