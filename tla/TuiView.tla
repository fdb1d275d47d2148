------------------------------- MODULE TuiView -------------------------------
(***************************************************************************)
(* What the TUI shows and what its commands act on: the folder list, the   *)
(* message list, the selections in both, and the watched folder.           *)
(*                                                                         *)
(* Both lists are copies of the store's tables.  A command takes the       *)
(* folder from one list and the uid from the other.  The event loop runs   *)
(* one handler at a time; the store changes under it (the sync loop,       *)
(* other processes).  Folders are numbers in the order of their names,     *)
(* uids numbers in the order of their dates; a row of the model is there   *)
(* and not flagged \Deleted.  No daemon is connected, so that the TUI      *)
(* watches the open folder itself.                                         *)
(***************************************************************************)
EXTENDS Naturals, Sequences, SequencesExt, FiniteSets

CONSTANTS
    Accounts, Boot,   \* accounts, and the one the TUI starts with
    Folders,          \* names of folders, in their order
    NoSelect,         \* those with the attribute \Noselect
    Uids,             \* uids of messages, in the order of their dates
    Habits,           \* sets of what a user may do besides: "jump" (gg and G in the
                      \* folder pane), "folderop" (create, rename or delete a
                      \* folder), "account" (switch accounts)
    MaxChanges        \* bound: changes of the store by others

VARIABLES
    habits,         \* what this user does: a member of Habits
    exists,         \* exists[a]: folders in the store
    rows,           \* rows[a][f]: uids in the store
    account,        \* the open account
    listed, fsel,   \* the folder list, and the index selected in it
    shown, msel,    \* the message list, and the index selected in it
    watch,          \* account and folder that the watch is bound to
    changes         \* ghost: counter for the bound

store == <<exists, rows>>
folderPane == <<account, listed, fsel>>
messagePane == <<shown, msel, watch>>
vars == <<habits, store, folderPane, messagePane, changes>>

None == 0
Row(a, f, u) == [account |-> a, folder |-> f, uid |-> u]
NoRow == Row(Boot, None, None)

----------------------------------------------------------------------------
(* Reading the store. *)

InOrder(S, Before(_, _)) ==
    CHOOSE s \in [1 .. Cardinality(S) -> S] : \A i, j \in DOMAIN s : i < j => Before(s[i], s[j])
Ascending(S) == InOrder(S, <)
Descending(S) == InOrder(S, >)

ListSelectable(a) == Ascending(exists[a] \ NoSelect)

ListMessages(a, f) ==
    IF f = None THEN <<>>
    ELSE LET uids == Descending(rows[a][f]) IN [i \in DOMAIN uids |-> Row(a, f, uids[i])]

Current == IF fsel \in DOMAIN listed THEN listed[fsel] ELSE None
Selected == IF msel \in DOMAIN shown THEN shown[msel] ELSE NoRow

\* Mutant: the first entry, always.
ResolveFirst(list, x) == IF list = <<>> THEN None ELSE 1

\* resolve_folder_selection, resolve_message_selection: the entry that was
\* selected, or else the first.
Resolve(list, x) ==
    IF list = <<>> THEN None
    ELSE IF Contains(list, x) THEN CHOOSE i \in DOMAIN list : list[i] = x
    ELSE 1

\* reload_messages of folder f of account a, when row was is selected.
\* respawn_watch compares the folders' names.
Load(a, f, was) ==
    /\ shown' = ListMessages(a, f)
    /\ msel' = Resolve(shown', was)
    /\ watch' = IF f \in {None, watch.folder} THEN watch ELSE Row(a, f, None)

----------------------------------------------------------------------------
(* Others change the store. *)

StoreChange ==
    /\ changes < MaxChanges
    /\ changes' = changes + 1
    /\ \E a \in Accounts, f \in Folders :
        \/ /\ f \in exists[a] \ NoSelect
           /\ \E S \in SUBSET Uids : rows' = [rows EXCEPT ![a][f] = S]
           /\ UNCHANGED exists
        \/ /\ f \notin exists[a]
           /\ exists' = [exists EXCEPT ![a] = @ \cup {f}]
           /\ UNCHANGED rows
        \/ /\ f \in exists[a]
           /\ exists' = [exists EXCEPT ![a] = @ \ {f}]
           /\ rows' = [rows EXCEPT ![a][f] = {}]
    /\ UNCHANGED <<habits, folderPane, messagePane>>

----------------------------------------------------------------------------
(* Results of background tasks. *)

\* FolderUpdated or Hello, or a sync that succeeded: both lists.
Updated ==
    /\ listed' = ListSelectable(account)
    /\ fsel' = Resolve(listed', Current)
    /\ Load(account, IF fsel' = None THEN None ELSE listed'[fsel'], Selected)
    /\ UNCHANGED <<habits, store, account, changes>>

\* A sync that failed, a body, an expunge, flags set: the message list.
ReloadMessages ==
    /\ Load(account, Current, Selected)
    /\ UNCHANGED <<habits, store, folderPane, changes>>

\* FolderOp succeeded: the folder list is replaced.
FolderOpDone ==
    /\ "folderop" \in habits
    /\ listed' = Ascending(exists[account])
    /\ fsel' = IF listed' # <<>> /\ fsel = None THEN 1 ELSE fsel
    /\ UNCHANGED <<habits, store, account, messagePane, changes>>

----------------------------------------------------------------------------
(* Keys. *)

\* The indices that step_list moves to, wrapping at the ends.
Neighbours(i, n) ==
    LET at == IF i = None THEN 0 ELSE i - 1 IN {((at + 1) % n) + 1, ((at + n - 1) % n) + 1}

\* Mutant: the selection moves, as in the message list.
StepFolderOnly ==
    /\ listed # <<>>
    /\ fsel' \in Neighbours(fsel, Len(listed))
    /\ UNCHANGED <<habits, store, account, listed, messagePane, changes>>

\* j and k in the folder pane.
StepFolder ==
    /\ listed # <<>>
    /\ fsel' \in Neighbours(fsel, Len(listed))
    /\ Load(account, listed[fsel'], Selected)
    /\ UNCHANGED <<habits, store, account, listed, changes>>

\* gg and G in the folder pane.
JumpFolder ==
    /\ "jump" \in habits /\ listed # <<>>
    /\ fsel' \in {1, Len(listed)}
    /\ UNCHANGED <<habits, store, account, listed, messagePane, changes>>

\* The folder picker, a search hit or a message of a thread.
SwitchFolder ==
    /\ \E i \in DOMAIN listed : fsel' = i /\ Load(account, listed[i], Selected)
    /\ UNCHANGED <<habits, store, account, listed, changes>>

StepMessage ==
    /\ msel' \in DOMAIN shown
    /\ UNCHANGED <<habits, store, folderPane, shown, watch, changes>>

\* toggle_deleted or move_current_to: the uid of the selected row, in the
\* current folder, on the server and in the store; then the list.
RemoveMessage ==
    /\ Current # None /\ Selected # NoRow
    /\ rows' = [rows EXCEPT ![account][Current] = @ \ {Selected.uid}]
    /\ LET left == Descending(rows'[account][Current])
           list == [i \in DOMAIN left |-> Row(account, Current, left[i])]
       IN shown' = list /\ msel' = Resolve(list, Selected)
    /\ watch' = IF watch.folder = Current THEN watch ELSE Row(account, Current, None)
    /\ UNCHANGED <<habits, exists, folderPane, changes>>

SwitchAccount ==
    /\ "account" \in habits
    /\ \E a \in Accounts \ {account} :
        /\ account' = a
        /\ listed' = ListSelectable(a)
        /\ fsel' = IF listed' = <<>> THEN None ELSE 1
        /\ Load(a, IF listed' = <<>> THEN None ELSE listed'[1], NoRow)
    /\ UNCHANGED <<habits, store, changes>>

----------------------------------------------------------------------------
Init ==
    /\ habits \in Habits
    /\ exists \in [Accounts -> {Folders}]
    /\ rows \in [Accounts -> {[f \in Folders |-> IF f \in NoSelect THEN {} ELSE Uids]}]
    /\ account = Boot
    /\ listed = ListSelectable(Boot)
    /\ fsel = IF listed = <<>> THEN None ELSE 1
    /\ shown = ListMessages(Boot, Current)
    /\ msel = IF shown = <<>> THEN None ELSE 1
    /\ watch = Row(Boot, Current, None)
    /\ changes = 0

Next ==
    \/ StoreChange
    \/ Updated \/ ReloadMessages \/ FolderOpDone
    \/ StepFolder \/ JumpFolder \/ SwitchFolder
    \/ StepMessage \/ RemoveMessage
    \/ SwitchAccount

Spec == Init /\ [][Next]_vars

----------------------------------------------------------------------------
(* Properties *)

\* The variables have their types, and the selected message is in the list.
TypeOK ==
    /\ habits \in Habits
    /\ exists \in [Accounts -> SUBSET Folders]
    /\ rows \in [Accounts -> [Folders -> SUBSET Uids]]
    /\ account \in Accounts
    /\ listed \in Seq(Folders) /\ fsel \in 0..Cardinality(Folders)
    /\ shown \in Seq([account : Accounts, folder : Folders, uid : Uids])
    /\ msel \in 0..Len(shown) /\ (shown # <<>> => msel # None)
    /\ watch \in [account : Accounts, folder : Folders \cup {None}, uid : {None}]
    /\ changes \in 0..MaxChanges

\* The message list is that of the selected folder of the open account, for any
\* user: "the currently-loaded message list ... for the focused folder".
ListsAgree ==
    \A i \in DOMAIN shown : shown[i].account = account /\ shown[i].folder = Current

\* Every message on the screen is of the current folder, so that a command,
\* which sends the current folder with the uid of the selected message, acts on
\* the message that the user sees.  (gg and G in the folder pane, and a folder
\* operation's new list, change the current folder alone.)
ShownIsCurrent == habits \subseteq {"account"} => ListsAgree

\* "Folder reload preserves selection by folder name; message reload preserves
\* it by stable identity rather than list index": what happens in the background
\* moves neither selection while the folder and the message are there.  (The
\* list after a folder operation is kept by index.)  And an update makes the two
\* lists agree again, whatever the user and the store did.
BackgroundKeepsThePlace ==
    [][/\ Updated \/ ReloadMessages \/ FolderOpDone =>
            /\ "folderop" \notin habits /\ Current \in exists[account] \ NoSelect =>
                  Current' = Current
            /\ Selected # NoRow /\ Selected.folder = Current /\ Current' = Current
                 /\ Selected.uid \in rows[account][Current] => Selected' = Selected
       /\ Updated => ListsAgree']_vars

----------------------------------------------------------------------------
(* The invariant behind them: the folder list has a place for each folder at  *)
(* most, and the message list is of the open account, and of the folder that   *)
(* was current when it was loaded.                                             *)
ListsInv ==
    /\ Len(listed) <= Cardinality(Folders)
    /\ \A i \in DOMAIN shown :
          /\ shown[i].account = account
          /\ habits \subseteq {"account"} => shown[i].folder = Current
================================================================================
