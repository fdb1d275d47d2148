-------------------------------- MODULE TuiBinds --------------------------------
(***************************************************************************)
(* BINDS, the TUI's table of key bindings: rows in the order in which they *)
(* are tried.  A key is named with its modifiers ("C-d"); a row has the    *)
(* prefix it needs ("leader", "g", "pgp" for Ctrl-G), the contexts it is   *)
(* listed for, and the gate it passes.                                     *)
(***************************************************************************)
EXTENDS Sequences

BindRow(prefix, action, key, contexts, gate) ==
    [prefix |-> prefix, action |-> action, key |-> key, contexts |-> contexts, gate |-> gate]
Plain(action, key, context) == BindRow("none", action, key, {context}, "any")
Gated(gate, action, key) == BindRow("none", action, key, {"List"}, gate)
Hidden(gate, action, key) == BindRow("none", action, key, {}, gate)
Led(action, key, context) == BindRow("leader", action, key, {context}, "any")
WithNav == {"List", "Outbox", "Search", "Thread", "MovePicker", "AccountPicker", "Contacts"}

NavigationRows == <<
    Plain("Quit", "q", "List"), Plain("Quit", "C-c", "List"), Plain("ToggleHelp", "?", "List"),
    BindRow("none", "MoveDown", "j", WithNav, "any"), BindRow("none", "MoveUp", "k", WithNav, "any"),
    BindRow("g", "JumpTop", "g", {"List"}, "lists"), Gated("lists", "JumpBottom", "G"),
    Plain("PaneCycleForward", "Tab", "List"), Plain("PaneCycleBackward", "BackTab", "List"),
    Gated("lists", "Confirm", "Enter") >>
PreviewRows == <<
    Hidden("preview", "Scroll", "j"), Hidden("preview", "Scroll", "k"),
    Hidden("preview", "Scroll", "PageDown"), Hidden("preview", "Scroll", "PageUp"),
    Hidden("preview", "Scroll", "C-d"), Hidden("preview", "Scroll", "C-u"),
    BindRow("g", "Scroll", "g", {}, "preview"), Hidden("preview", "Scroll", "G") >>
MessageRows == <<
    Gated("messages", "ToggleSeen", "s"), Gated("messages", "ToggleFlagged", "*"),
    Gated("messages", "ToggleDeleted", "d"), Gated("messages", "Expunge", "e"),
    Led("MarkFolderRead", "R", "List"), Gated("messages", "MoveMessage", "m"),
    Gated("messages", "OpenThread", "T"), Gated("messages", "ListUnsubscribe", "U"),
    Gated("messages", "OpenIcal", "i"),
    Gated("receipt", "ReadReceiptSend", "Y"), Hidden("receipt", "ReadReceiptDecline", "N") >>
ComposeRows == <<
    Plain("OpenBlankCompose", "c", "List"), Plain("OpenReply", "r", "List"),
    Plain("OpenReplyAll", "R", "List"), Plain("OpenForward", "f", "List"),
    Plain("ComposerSend", "C-s", "Composer"), Plain("ComposerSaveDraft", "C-d", "Composer"),
    Plain("ComposerDiscard", "C-q", "Composer"), Plain("ComposerFocusNext", "Tab", "Composer"),
    Plain("ComposerFocusPrev", "BackTab", "Composer"), Plain("ComposerPgpArm", "C-g", "Composer"),
    BindRow("pgp", "ComposerPgpSign", "s", {"Composer"}, "any"),
    BindRow("pgp", "ComposerPgpEncrypt", "e", {"Composer"}, "any"),
    Led("ComposerYank", "y", "Composer"), Led("ComposerPaste", "p", "Composer") >>
OverlayRows == <<
    Plain("OpenSearch", "/", "List"), Plain("SearchStepForward", "n", "List"),
    Plain("SearchStepBackward", "N", "List"), Plain("OpenAccountPicker", "a", "List"),
    Plain("OpenContacts", "C", "List"), Plain("OpenOutbox", "O", "List"),
    Plain("OAuthLogin", "L", "List"),
    Led("LeaderOpenFolderPicker", "f", "List"), Led("LeaderOpenAccountPicker", "b", "List"),
    Led("LeaderOpenMessagePicker", "m", "List"), Led("LeaderOpenAttachmentPicker", "a", "List"),
    Led("LeaderNewAccountWizard", "n", "List"), Led("LeaderOpenSievePicker", "S", "List"),
    Plain("ManualSync", "F", "List"), Gated("body", "ToggleRawHeaders", "H"),
    Gated("messages", "CopyMessage", "y"), Led("OpenTemplatePicker", "t", "List"),
    Led("LeaderOpenFolderCrud", "F", "List") >>
PickerRows == <<
    Plain("OutboxDrainAll", "D", "Outbox"), Plain("OutboxDrainOne", "d", "Outbox"),
    Plain("OutboxDeleteOne", "x", "Outbox"), Plain("OutboxClose", "Esc", "Outbox"),
    Plain("MovePickerClose", "Esc", "MovePicker"), Plain("MovePickerConfirm", "Enter", "MovePicker"),
    Plain("AccountPickerClose", "Esc", "AccountPicker"),
    Plain("AccountPickerConfirm", "Enter", "AccountPicker"),
    Plain("ContactsClose", "Esc", "Contacts"), Plain("ContactsConfirm", "Enter", "Contacts") >>
DialogRows == <<
    Plain("IcalClose", "Esc", "Ical"), Plain("IcalReply", "a", "Ical"),
    Plain("IcalReply", "t", "Ical"), Plain("IcalReply", "d", "Ical"),
    Plain("ThreadClose", "Esc", "Thread"), Plain("ThreadConfirm", "Enter", "Thread"),
    Plain("SearchClose", "Esc", "Search"), Plain("SearchConfirm", "Enter", "Search"),
    BindRow("none", "WizardClose", "Esc", {"Wizard", "SieveWizard"}, "any"),
    BindRow("leader", "WizardSave", "s", {"Wizard", "SieveWizard"}, "any"),
    Plain("ActivePickerClose", "Esc", "ActivePicker"),
    Plain("ActivePickerConfirm", "Enter", "ActivePicker") >>
Binds == NavigationRows \o PreviewRows \o MessageRows \o ComposeRows \o OverlayRows \o
    PickerRows \o DialogRows

Prefixed(prefix, led, pgpArmed, gArmed) ==
    \/ prefix = "leader" /\ led
    \/ prefix = "pgp" /\ pgpArmed
    \/ prefix = "g" /\ gArmed
    \/ prefix = "none" /\ ~led /\ ~pgpArmed

RowsOn == [key \in {Binds[i].key : i \in DOMAIN Binds} |->
              {i \in DOMAIN Binds : Binds[i].key = key}]

(* The keys of the model: those of the table and those that nothing binds. *)
Named == {"Esc", "Enter", "Tab", "BackTab", "PageDown", "PageUp", "Up", "Down", "Backspace"}
Controls == {"C-c", "C-d", "C-u", "C-s", "C-q", "C-g"}
OtherKeys == {"Esc", "Space", "Backspace", "Down", "z"}
Keys == DOMAIN RowsOn \cup OtherKeys
Characters == Keys \ (Named \cup Controls)
Moves == {"j", "k", "Up", "Down"}
================================================================================
