-------------------------------- MODULE TuiKeys --------------------------------
(***************************************************************************)
(* Which key does what in the TUI: the binding table and its lookup, the   *)
(* overlays that take the keys, the prefixes (leader, g, Ctrl-G), and the  *)
(* results of background tasks that open an overlay by themselves.         *)
(*                                                                         *)
(* The event loop gives a key to the first open overlay of a fixed order,  *)
(* and draws the overlays in another order; nothing but the handlers keeps *)
(* the two in agreement.  Contents (messages, text, selections outside the *)
(* search) are left out: where a handler looks at them, it may go either   *)
(* way.                                                                    *)
(***************************************************************************)
EXTENDS Naturals, FiniteSetsExt, TuiBinds

CONSTANTS
    Users,       \* kinds of user: a "patient" one lets an operation finish that
                 \* opens or closes an overlay; a "hasty" one keeps typing
    MaxResults   \* bound: messages a search finds

VARIABLES
    user,     \* the kind of user, or "leaving": one who only wants to get out
    running,  \* "yes", "quit" by a key, or "failed" by an error
    pane, receipt,         \* the list: focused pane, current_receipt
    help,                  \* show_help
    leader, g, pgp,        \* pending_leader, pending_g, pending_pgp_chord
    open,                  \* the overlays that are Some
    picker, prompt, mode,  \* their kinds: active_picker, folder_crud_prompt, forms
    search, last,          \* the search overlay, last_search
    op                     \* the background operation

chords == <<leader, g, pgp>>
listVars == <<pane, receipt, help>>
layers == <<open, picker, prompt, mode>>
searching == <<search, last>>
vars == <<user, running, listVars, chords, layers, searching, op>>

Wizards == {"wizard", "sieve_wizard"}
NoSearch == [len |-> 0, cursor |-> 0]
Closed == [query |-> FALSE, len |-> 0, at |-> 0]
NoPrompt == [kind |-> "Create", text |-> FALSE]
Normal == [wizard |-> "Normal", sieve_wizard |-> "Normal"]
Surprising == {"list", "get", "put", "send"}

\* The order in which the event loop looks for the overlay a key goes to.
RouteOrder == <<"active_picker", "composer", "outbox", "search", "thread",
    "move_picker", "account_picker", "contacts", "ical", "folder_crud",
    "prompt", "wizard", "sieve_wizard">>
\* The order in which they are drawn; the composer is drawn alone.
DrawOrder == <<"move_picker", "outbox", "search", "thread", "account_picker",
    "contacts", "ical", "active_picker", "folder_crud", "prompt", "wizard",
    "sieve_wizard">>

FirstOpen(order) ==
    LET at == {i \in DOMAIN order : order[i] \in open}
    IN IF at = {} THEN "list" ELSE order[Min(at)]
LastOpen(order) ==
    LET at == {i \in DOMAIN order : order[i] \in open}
    IN IF at = {} THEN "list" ELSE order[Max(at)]
Route == FirstOpen(RouteOrder)
TakesKeys == IF Route = "list" /\ help THEN "help" ELSE Route
OnTop == IF "composer" \in open THEN "composer" ELSE IF help THEN "help" ELSE LastOpen(DrawOrder)

----------------------------------------------------------------------------
(* Looking a key up in the binding table of TuiBinds.                        *)

Passes(gate) ==
    \/ gate = "any"
    \/ gate = "lists" /\ pane # "preview"
    \/ gate = "messages" /\ pane = "messages"
    \/ gate = "preview" /\ pane = "preview"
    \/ gate = "receipt" /\ pane = "preview" /\ receipt
    \/ gate = "body" /\ pane \in {"messages", "preview"}

\* Action::from_key: the first row whose context, prefix, key and gate match.  A
\* row without contexts is matched in every context.
FromKey(context, key, led, pgpArmed, gArmed) ==
    LET Hit(row) == /\ row.contexts = {} \/ context \in row.contexts
                    /\ Prefixed(row.prefix, led, pgpArmed, gArmed)
                    /\ Passes(row.gate)
        hits == IF key \in DOMAIN RowsOn THEN {i \in RowsOn[key] : Hit(Binds[i])} ELSE {}
    IN IF hits = {} THEN "none" ELSE Binds[Min(hits)].action

----------------------------------------------------------------------------
(* Action::invoke.  Each operator below sets every variable but the user's  *)
(* kind and the prefixes, which the handlers set.                           *)

Keep == UNCHANGED <<running, listVars, layers, searching, op>>

\* An error that a handler passes on with `?` ends the event loop.
Fails == /\ running' = "failed"
         /\ UNCHANGED <<listVars, layers, searching, op>>

\* The message list or its selection changes; refresh_body looks for a receipt.
Reselect(p) == /\ pane' = p
               /\ receipt' \in BOOLEAN
               /\ UNCHANGED <<running, help, layers, searching, op>>

\* spawn_pending and the task; refused while one is pending.
Spawn(kind) == IF op = "none" THEN op' = kind ELSE op' = op
Starts(kind) == Spawn(kind) /\ UNCHANGED <<running, listVars, layers, searching>>

Shows(layer) == /\ open' = open \cup {layer}
                /\ UNCHANGED <<running, listVars, picker, prompt, mode, searching, op>>
ShowsPicker(kind) == /\ open' = open \cup {"active_picker"}
                     /\ picker' = kind
                     /\ UNCHANGED <<running, listVars, prompt, mode, searching, op>>
ShowsWizard(wizard) == /\ open' = open \cup {wizard}
                       /\ mode' \in {[mode EXCEPT ![wizard] = m] : m \in {"Normal", "Insert"}}
                       /\ UNCHANGED <<running, listVars, picker, prompt, searching, op>>

\* What an overlay kept is gone with it.
Dropped(layers0) ==
    /\ open' = open \ layers0
    /\ picker' = IF "active_picker" \in layers0 THEN "Folder" ELSE picker
    /\ prompt' = IF "prompt" \in layers0 THEN NoPrompt ELSE prompt
    /\ mode' = [wizard \in Wizards |-> IF wizard \in layers0 THEN "Normal" ELSE mode[wizard]]
    /\ search' = IF "search" \in layers0 THEN Closed ELSE search
Hides(layer) == Dropped({layer}) /\ UNCHANGED <<running, listVars, last, op>>

Next3(p) == IF p = "folders" THEN "messages" ELSE IF p = "messages" THEN "preview" ELSE "folders"
Previous3(p) == Next3(Next3(p))

\* jump_to_message: to the folder, if it is still listed, and the message.
JumpFrom(layers0) ==
    /\ \/ pane' = "messages" /\ receipt' \in BOOLEAN /\ running' \in {"yes", "failed"}
       \/ UNCHANGED <<pane, receipt, running>>
    /\ Dropped(layers0)
    /\ UNCHANGED <<help, op>>

Navigate(action) ==
    \/ /\ action = "Quit"
       /\ running' = "quit"
       /\ UNCHANGED <<listVars, layers, searching, op>>
    \/ /\ action = "ToggleHelp"
       /\ help' = TRUE
       /\ UNCHANGED <<running, pane, receipt, layers, searching, op>>
    \/ /\ action \in {"MoveDown", "MoveUp"}
       /\ \/ pane # "preview" /\ Reselect(pane)
          \/ pane = "folders" /\ Fails
          \/ pane = "preview" /\ Keep
    \/ action \in {"JumpTop", "JumpBottom", "Scroll"} /\ Keep
    \/ /\ action \in {"PaneCycleForward", "PaneCycleBackward"}
       /\ pane' = IF action = "PaneCycleForward" THEN Next3(pane) ELSE Previous3(pane)
       /\ UNCHANGED <<running, receipt, help, layers, searching, op>>
    \/ /\ action = "Confirm"
       /\ \/ pane = "folders" /\ (Reselect("messages") \/ Fails)
          \/ /\ pane = "messages"
             /\ pane' = "preview"
             /\ receipt' \in BOOLEAN
             /\ (Spawn("reload") \/ UNCHANGED op)
             /\ UNCHANGED <<running, help, layers, searching>>

OnMessage(action) ==
    \/ action \in {"ToggleSeen", "ToggleFlagged", "ToggleDeleted"} /\ (Reselect(pane) \/ Fails)
    \/ action \in {"Expunge", "MarkFolderRead", "ManualSync"} /\ Starts("reload")
    \/ action \in {"ListUnsubscribe", "OAuthLogin"} /\ Starts("other")
    \/ action \in {"MoveMessage", "CopyMessage"} /\ Shows("move_picker")
    \/ action = "OpenThread" /\ (Shows("thread") \/ Keep \/ Fails)
    \/ action = "OpenIcal" /\ (Shows("ical") \/ Keep \/ Fails)
    \/ action = "ToggleRawHeaders" /\ Reselect(pane)
    \/ /\ action = "ReadReceiptSend"
       /\ \/ Spawn("other") /\ receipt' = (op # "none")
          \/ UNCHANGED <<receipt, op>>
       /\ UNCHANGED <<running, pane, help, layers, searching>>
    \/ /\ action = "ReadReceiptDecline"
       /\ receipt' = FALSE
       /\ UNCHANGED <<running, pane, help, layers, searching, op>>

Compose(action) ==
    \/ action = "OpenBlankCompose" /\ Shows("composer")
    \/ action \in {"OpenReply", "OpenReplyAll", "OpenForward"} /\ (Shows("composer") \/ Keep \/ Fails)
    \/ action = "ComposerDiscard" /\ Hides("composer")
    \/ action = "ComposerSaveDraft" /\ (Hides("composer") \/ Keep \/ Fails)
    \/ /\ action = "ComposerSend"
       /\ \/ Keep
          \/ op # "none" /\ (Hides("composer") \/ Fails)
          \/ /\ op = "none"
             /\ op' = "send"
             /\ Dropped({"composer"})
             /\ UNCHANGED <<running, listVars, last>>
    \/ /\ action \in {"ComposerFocusNext", "ComposerFocusPrev", "ComposerPgpArm",
                      "ComposerPgpSign", "ComposerPgpEncrypt", "ComposerYank", "ComposerPaste"}
       /\ Keep

\* step_last_search: n and N go round the results of the last search.
StepLastSearch(step) ==
    \/ last = NoSearch /\ Keep
    \/ /\ last # NoSearch
       /\ last' = [last EXCEPT !.cursor = (@ + step) % last.len]
       /\ JumpFrom({})

\* build_search_state: the overlay opens on the last search.
OpenSearch ==
    /\ open' = open \cup {"search"}
    /\ search' = [query |-> last # NoSearch, len |-> last.len, at |-> last.cursor]
    /\ UNCHANGED <<running, listVars, picker, prompt, mode, last, op>>

OpenOverlay(action) ==
    \/ action = "OpenSearch" /\ OpenSearch
    \/ action = "SearchStepForward" /\ StepLastSearch(1)
    \/ action = "SearchStepBackward" /\ StepLastSearch(last.len - 1)
    \/ action = "OpenAccountPicker" /\ (Shows("account_picker") \/ Keep \/ Fails)
    \/ action = "OpenContacts" /\ (Shows("contacts") \/ Fails)
    \/ action = "OpenOutbox" /\ (Shows("outbox") \/ Fails)
    \/ action = "LeaderOpenFolderPicker" /\ ShowsPicker("Folder")
    \/ action = "LeaderOpenAccountPicker" /\ (ShowsPicker("Account") \/ Keep \/ Fails)
    \/ action = "LeaderOpenMessagePicker" /\ ShowsPicker("Message")
    \/ action = "LeaderOpenAttachmentPicker" /\ (ShowsPicker("Attachment") \/ Keep)
    \/ action = "OpenTemplatePicker" /\ (ShowsPicker("Template") \/ Keep)
    \/ action = "LeaderNewAccountWizard" /\ ShowsWizard("wizard")
    \/ action = "LeaderOpenSievePicker" /\ Starts("list")
    \/ action = "LeaderOpenFolderCrud" /\ Shows("folder_crud")

\* switch_account: another account's folders, and none of the last search reset.
SwitchAccount(layers0) ==
    /\ Dropped(layers0)
    /\ \/ UNCHANGED <<running, pane, receipt>>
       \/ pane' = "folders" /\ receipt' \in BOOLEAN /\ UNCHANGED running
       \/ running' = "failed" /\ UNCHANGED <<pane, receipt>>
    /\ UNCHANGED <<help, last, op>>

InOverlay(action) ==
    \/ action = "OutboxDrainAll" /\ Starts("reload")
    \/ action \in {"OutboxDrainOne", "OutboxDeleteOne"} /\ (Keep \/ Fails)
    \/ action = "OutboxClose" /\ Hides("outbox")
    \/ action = "MovePickerClose" /\ Hides("move_picker")
    \/ /\ action = "MovePickerConfirm"
       /\ \/ Keep
          \/ /\ Dropped({"move_picker"})
             /\ receipt' \in BOOLEAN
             /\ running' \in {"yes", "failed"}
             /\ UNCHANGED <<pane, help, last, op>>
    \/ action = "AccountPickerClose" /\ Hides("account_picker")
    \/ action = "AccountPickerConfirm" /\ SwitchAccount({"account_picker"})
    \/ action = "ContactsClose" /\ Hides("contacts")
    \/ /\ action = "ContactsConfirm"
       /\ \/ Keep
          \/ /\ open' = (open \ {"contacts"}) \cup {"composer"}
             /\ UNCHANGED <<running, listVars, picker, prompt, mode, searching, op>>
    \/ action \in {"IcalClose", "IcalReply"} /\ Hides("ical")
    \/ action = "ThreadClose" /\ Hides("thread")
    \/ /\ action = "ThreadConfirm"
       /\ Keep \/ (JumpFrom({"thread"}) /\ UNCHANGED last)

Invoke(action) ==
    \/ Navigate(action)
    \/ OnMessage(action)
    \/ Compose(action)
    \/ OpenOverlay(action)
    \/ InOverlay(action)

----------------------------------------------------------------------------
(* The list: help, then the leader, then the g prefix, then the table.      *)

DismissHelp ==
    /\ help
    /\ help' = FALSE
    /\ UNCHANGED <<running, pane, receipt, chords, layers, searching, op>>

LedAction(key) == FromKey("List", key, TRUE, FALSE, FALSE)

LeaderChord(key) ==
    /\ ~help /\ leader /\ LedAction(key) # "none"
    /\ leader' = FALSE
    /\ Invoke(LedAction(key))
    /\ UNCHANGED <<g, pgp>>

NoChord(key) == ~help /\ ~(leader /\ LedAction(key) # "none")

ArmLeader(key) ==
    /\ NoChord(key) /\ key = "Space"
    /\ leader' = TRUE
    /\ Keep
    /\ UNCHANGED <<g, pgp>>

ArmG(key) ==
    /\ NoChord(key) /\ key = "g" /\ ~g
    /\ g' = TRUE /\ leader' = FALSE
    /\ Keep
    /\ UNCHANGED pgp

PlainKey(key) ==
    LET action == FromKey("List", key, FALSE, FALSE, g) IN
    /\ NoChord(key) /\ key # "Space" /\ (key = "g" => g)
    /\ g' = FALSE /\ leader' = FALSE
    /\ IF action = "none" THEN Keep ELSE Invoke(action)
    /\ UNCHANGED pgp

ListKey(key) ==
    /\ Route = "list"
    /\ DismissHelp \/ LeaderChord(key) \/ ArmLeader(key) \/ ArmG(key) \/ PlainKey(key)

----------------------------------------------------------------------------
(* The composer: the Ctrl-G chord, its bindings, the leader, the editor.    *)

ComposerActions == {"ComposerSend", "ComposerSaveDraft", "ComposerDiscard", "ComposerFocusNext",
    "ComposerFocusPrev", "ComposerPgpArm", "ComposerYank", "ComposerPaste"}

PgpChord(key) ==
    LET action == FromKey("Composer", key, FALSE, TRUE, FALSE) IN
    /\ pgp /\ action \in {"ComposerPgpSign", "ComposerPgpEncrypt"}
    /\ pgp' = FALSE
    /\ Invoke(action)
    /\ UNCHANGED <<leader, g>>

\* The editor gets a key that is neither bound nor Space.
ComposerTakes(key) ==
    LET action == FromKey("Composer", key, leader, FALSE, FALSE) IN
    /\ ~(pgp /\ FromKey("Composer", key, FALSE, TRUE, FALSE) # "none")
    /\ pgp' = (action = "ComposerPgpArm")
    /\ leader' = (action \notin ComposerActions /\ key = "Space")
    /\ IF action \in ComposerActions THEN Invoke(action) ELSE Keep
    /\ UNCHANGED g

ComposerKey(key) == Route = "composer" /\ (PgpChord(key) \/ ComposerTakes(key))

----------------------------------------------------------------------------
(* The overlays that take a few keys for themselves and ask the table about *)
(* the rest.                                                                *)

\* Mutant: the thread overlay asks for the outbox's bindings.
ContextOfCopied == [outbox |-> "Outbox", thread |-> "Outbox", move_picker |-> "MovePicker",
    account_picker |-> "AccountPicker", contacts |-> "Contacts", ical |-> "Ical"]

ContextOf == [outbox |-> "Outbox", thread |-> "Thread", move_picker |-> "MovePicker",
    account_picker |-> "AccountPicker", contacts |-> "Contacts", ical |-> "Ical"]

OwnKeys(layer) ==
    IF layer = "ical" THEN {}
    ELSE IF layer \in {"move_picker", "contacts"} THEN Moves \cup Characters \cup {"Backspace"}
    ELSE Moves

OverlayKey(key) ==
    /\ Route \in DOMAIN ContextOf
    /\ LET action == FromKey(ContextOf[Route], key, FALSE, FALSE, FALSE)
       IN IF key \in OwnKeys(Route) \/ action = "none" THEN Keep ELSE Invoke(action)
    /\ UNCHANGED chords

----------------------------------------------------------------------------
(* The search overlay.                                                      *)

\* run_search: an empty query or an error clears the results; a search that
\* finds nothing forgets the last one.
RunSearch ==
    /\ \/ /\ search.query
          /\ \E n \in {0, MaxResults} :
                /\ search' = [search EXCEPT !.len = n, !.at = 0]
                /\ last' = [len |-> n, cursor |-> 0]
       \/ UNCHANGED searching
    /\ UNCHANGED <<running, listVars, layers, op>>

GoToResult ==
    /\ last' = IF last = NoSearch THEN last ELSE [last EXCEPT !.cursor = search.at]
    /\ JumpFrom({"search"})

MoveInResults(to) ==
    /\ search' = [search EXCEPT !.at = to]
    /\ last' = IF last = NoSearch THEN last ELSE [last EXCEPT !.cursor = to]
    /\ UNCHANGED <<running, listVars, layers, op>>

EditQuery(query) ==
    /\ search' = [query |-> query, len |-> 0, at |-> 0]
    /\ UNCHANGED <<running, listVars, layers, last, op>>

SearchKey(key) ==
    /\ Route = "search"
    /\ CASE key = "Esc" -> Hides("search")
         [] key = "Enter" -> IF search.len > 0 THEN GoToResult ELSE RunSearch
         [] key \in {"k", "Up"} /\ search.len > 0 ->
                MoveInResults((search.at + search.len - 1) % search.len)
         [] key \in {"j", "Down"} /\ search.len > 0 ->
                MoveInResults((search.at + 1) % search.len)
         [] key = "Backspace" -> \E query \in {FALSE, search.query} : EditQuery(query)
         [] key \in Characters /\ ~(search.len > 0 /\ key \in {"j", "k"}) -> EditQuery(TRUE)
         [] OTHER -> Keep
    /\ UNCHANGED chords

----------------------------------------------------------------------------
(* The pickers, the folder dialog and the forms.                            *)

OpensTemplate == /\ open' = (open \ {"active_picker"}) \cup {"composer"}
                 /\ picker' = "Folder"
                 /\ UNCHANGED <<running, listVars, prompt, mode, searching, op>>

\* What a choice in the picker does; the picker is gone by then.
Chosen ==
    \/ picker \in {"Folder", "Message"} /\ JumpFrom({"active_picker"}) /\ UNCHANGED last
    \/ picker = "Account" /\ SwitchAccount({"active_picker"})
    \/ /\ picker = "Attachment"
       /\ running' \in {"yes", "failed"}
       /\ Dropped({"active_picker"})
       /\ UNCHANGED <<listVars, last, op>>
    \/ /\ picker = "Sieve"
       /\ Spawn("get")
       /\ Dropped({"active_picker"})
       /\ UNCHANGED <<running, listVars, last>>
    \/ /\ picker = "Template"
       /\ Hides("active_picker") \/ OpensTemplate

PickerKey(key) ==
    /\ Route = "active_picker"
    /\ IF key = "Esc" THEN Hides("active_picker")
       ELSE IF key = "Enter" THEN Chosen \/ Keep
       ELSE Keep
    /\ UNCHANGED chords

\* Mutant: the dialog stays under the prompt it opens.
ConfirmUnderPrompt(kind) ==
    /\ \/ open' = open \cup {"prompt"} /\ prompt' = [kind |-> kind, text |-> FALSE]
       \/ kind # "Create" /\ open' = open \ {"folder_crud"} /\ UNCHANGED prompt
    /\ UNCHANGED <<running, listVars, picker, mode, searching, op>>

\* confirm_folder_crud: rename and delete need a selected folder.
ConfirmFolderCrud(kind) ==
    /\ \/ /\ open' = (open \ {"folder_crud"}) \cup {"prompt"}
          /\ prompt' = [kind |-> kind, text |-> FALSE]
       \/ kind # "Create" /\ open' = open \ {"folder_crud"} /\ UNCHANGED prompt
    /\ UNCHANGED <<running, listVars, picker, mode, searching, op>>

FolderCrudKey(key) ==
    /\ Route = "folder_crud"
    /\ CASE key = "Esc" -> Hides("folder_crud")
         [] key = "c" -> ConfirmFolderCrud("Create")
         [] key = "r" -> ConfirmFolderCrud("Rename")
         [] key = "d" -> ConfirmFolderCrud("Delete")
         [] key = "Enter" -> \E kind \in {"Create", "Rename", "Delete"} : ConfirmFolderCrud(kind)
         [] OTHER -> Keep
    /\ UNCHANGED chords

\* apply_folder_crud_prompt: the prompt is gone, even when an operation is pending.
ApplyPrompt ==
    /\ Dropped({"prompt"})
    /\ Spawn("other")
    /\ UNCHANGED <<running, listVars, last>>

EditPrompt(text) ==
    /\ prompt' = [prompt EXCEPT !.text = text]
    /\ UNCHANGED <<running, listVars, open, picker, mode, searching, op>>

PromptKey(key) ==
    /\ Route = "prompt"
    /\ CASE key = "Esc" -> Hides("prompt")
         [] key = "Enter" -> IF prompt.text THEN ApplyPrompt ELSE Keep
         [] key = "y" /\ prompt.kind = "Delete" -> ApplyPrompt
         [] key = "Backspace" -> \E text \in {FALSE, prompt.text} : EditPrompt(text)
         [] key \in Characters /\ prompt.kind # "Delete" -> EditPrompt(TRUE)
         [] OTHER -> Keep
    /\ UNCHANGED chords

\* The form: Esc leaves Insert mode, other keys may change the mode.
FormInput(wizard, key) ==
    /\ IF key = "Esc" THEN mode' = [mode EXCEPT ![wizard] = "Normal"]
       ELSE mode' \in {mode, [mode EXCEPT ![wizard] = "Insert"]}
    /\ UNCHANGED <<running, listVars, open, picker, prompt, searching, op>>

\* save_sieve_wizard: back in the form when the name is empty or while busy.
SaveSieve ==
    \/ Keep
    \/ op # "none" /\ ShowsWizard("sieve_wizard")
    \/ /\ op = "none"
       /\ op' = "put"
       /\ Dropped({"sieve_wizard"})
       /\ UNCHANGED <<running, listVars, last>>

\* <Space>s, in Normal mode.
Saves(key) == mode[Route] = "Normal" /\ leader /\ key = "s"

FormKey(key) ==
    LET normal == mode[Route] = "Normal" IN
    /\ ~Saves(key)
    /\ leader' = IF normal /\ key # "Esc" THEN key = "Space" ELSE leader
    /\ CASE normal /\ key = "Esc" -> Hides(Route)
         [] normal /\ key = "Space" -> Keep
         [] OTHER -> FormInput(Route, key)

\* The account wizard is gone after a save, also when the account is not valid.
WizardKey(key) ==
    /\ Route = "wizard"
    /\ FormKey(key) \/ (Saves(key) /\ leader' = FALSE /\ Hides("wizard"))
    /\ UNCHANGED <<g, pgp>>

SieveWizardKey(key) ==
    /\ Route = "sieve_wizard"
    /\ FormKey(key) \/ (Saves(key) /\ leader' = FALSE /\ SaveSieve)
    /\ UNCHANGED <<g, pgp>>

----------------------------------------------------------------------------
(* The event loop.                                                          *)

Dispatch(key) ==
    /\ running = "yes"
    /\ \/ PickerKey(key) \/ ComposerKey(key) \/ OverlayKey(key) \/ SearchKey(key)
       \/ FolderCrudKey(key) \/ PromptKey(key) \/ WizardKey(key)
       \/ SieveWizardKey(key) \/ ListKey(key)
    /\ UNCHANGED user

Press(key) ==
    /\ user \in Users
    /\ user = "patient" => op \notin Surprising
    /\ Dispatch(key)

\* The user has had enough, and only presses the keys that close things.
GiveUp ==
    /\ running = "yes" /\ user \in Users
    /\ user' = "leaving"
    /\ UNCHANGED <<running, listVars, chords, layers, searching, op>>

Escape ==
    /\ user = "leaving" /\ TakesKeys # "list"
    /\ \/ Route = "composer" /\ Dispatch("C-q")
       \/ Route # "composer" /\ Dispatch("Esc")

\* handle_task_result, for the operation that has ended.
Result ==
    /\ running = "yes" /\ op # "none"
    /\ op' = "none"
    /\ \/ op = "reload" /\ receipt' \in BOOLEAN /\ running' \in {"yes", "failed"}
          /\ UNCHANGED <<pane, help, layers>>
       \/ op = "list" /\ open' = open \cup {"active_picker"} /\ picker' = "Sieve"
          /\ UNCHANGED <<running, listVars, prompt, mode>>
       \/ op \in {"get", "put"} /\ open' = open \cup {"sieve_wizard"}
          /\ mode' \in {[mode EXCEPT !.sieve_wizard = m] : m \in {"Normal", "Insert"}}
          /\ UNCHANGED <<running, listVars, picker, prompt>>
       \/ op = "send" /\ open' = open \ {"composer"}
          /\ UNCHANGED <<running, listVars, picker, prompt, mode>>
       \/ op # "reload" /\ UNCHANGED <<running, listVars, layers>>
    /\ UNCHANGED <<user, chords, searching>>

\* The watch starts a sync; an event of the daemon reloads the lists.
Background ==
    /\ running = "yes"
    /\ \/ Starts("reload")
       \/ Reselect(pane)
       \/ Fails
    /\ UNCHANGED <<user, chords>>

Init ==
    /\ user \in Users
    /\ running = "yes"
    /\ pane = "folders" /\ receipt \in BOOLEAN /\ help = FALSE
    /\ leader = FALSE /\ g = FALSE /\ pgp = FALSE
    /\ open = {}
    /\ picker = "Folder"
    /\ prompt = NoPrompt
    /\ mode = Normal
    /\ search = Closed
    /\ last = NoSearch
    /\ op = "none"

\* Ended: the TUI has quit or failed.
Ended == running # "yes" /\ UNCHANGED vars

Next ==
    \/ \E key \in Keys : Press(key)
    \/ GiveUp
    \/ Escape
    \/ Result
    \/ Background
    \/ Ended

\* The loop goes on reading keys and results.
Fairness == WF_vars(Escape) /\ WF_vars(Result)

Spec == Init /\ [][Next]_vars /\ Fairness

----------------------------------------------------------------------------
(* Properties.                                                              *)

\* The keys go to what the user sees on top, as long as no operation that
\* opens an overlay ends behind the user's back: no handler leaves an overlay
\* open under the one it opens.
KeysGoToWhatIsSeen ==
    user = "patient" /\ running = "yes" => TakesKeys = OnTop

Out == user = "leaving" => TakesKeys = "list" \/ running # "yes"

\* A user who presses nothing but Esc (Ctrl-Q in the composer) gets back to the
\* list, whatever overlays are open in whatever mode.
EscapeLeadsOut == []<>Out

-----------------------------------------------------------------------------
(* Why keys go to what is seen: with one overlay at most, the two orders have *)
(* nothing to disagree about.  A handler hides its overlay before it shows    *)
(* another; the table has no key that opens one over the overlay it is for;   *)
(* and an operation that will open one was started where nothing is left open.*)

Overlays == {RouteOrder[i] : i \in DOMAIN RouteOrder}

OneLayer ==
    /\ open = {} \/ \E layer \in Overlays : open = {layer}
    /\ help \in BOOLEAN
    /\ help => open = {}

LayersInv ==
    user = "patient" /\ running = "yes" =>
        /\ OneLayer
        /\ op \in Surprising => open = {} /\ ~help
================================================================================
