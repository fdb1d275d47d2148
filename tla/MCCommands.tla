----------------------------- MODULE MCCommands -----------------------------
(***************************************************************************)
(* One run for the commands that keep state outside the synced mail:       *)
(* calendars, contacts, accounts, the server's folders, mbox files.  They  *)
(* share no state, so a behaviour is one of a single part, and the others  *)
(* stay in an initial state of theirs.                                     *)
(*                                                                         *)
(* Two processes at a time; a calendar of one event beside another         *)
(* collection with one resource; ann's address is a prefix of annie's (as  *)
(* ann@x.org is of ann@x.org.uk), and one message has both; accounts of    *)
(* two names; folder paths of one name and of two, the latter also the new *)
(* name of a folder and as such one name with a slash in it; mailboxes of  *)
(* one message of three pieces, whatever they look like, or of three rows. *)
(***************************************************************************)
EXTENDS Calendar

CONSTANTS
    Addresses, ContactNames, Keys, Within, Mail, MaxCount,  \* Contacts
    AccountNames, MaxAdds,                                  \* Accounts
    FolderPaths,                                            \* FolderAdmin
    Mailboxes, MaxImports,                                  \* Mbox
    MaxCommands                                             \* Contacts, FolderAdmin

CONSTANTS e1, x, p1, p2, ann, annie, n1, n2, k1, k2, home, work

MCEvents == {e1}
MCProcesses == {p1, p2}

Shape(answers, other_is_calendar) == [answers |-> answers, other_is_calendar |-> other_is_calendar]

\* An address book whose answer mentions calendars comes first; or the chain
\* stays at the base URL, which the server spells otherwise.
MCDavServers ==
    {Shape(Server(TRUE, FALSE, <<Response("principal", TRUE), Response("other", TRUE), Response("cal", TRUE)>>), FALSE),
     Shape(Server(FALSE, FALSE, <<Response("base/", TRUE), Response("cal", TRUE)>>), FALSE)}

MCWithin == {<<ann, ann>>, <<annie, annie>>, <<ann, annie>>}
MCMail == <<<<[address |-> annie, name |-> "none"], [address |-> ann, name |-> n1]>>>>
MCFolderPaths == {<<"b">>, <<"a", "/", "b">>}

VARIABLES
    part,
    configured, rows, recent, cards, pushes, pulling, harvesting, commands,   \* Contacts
    config, keyring, tokens, account_job, added, account_mishaps, account_faults, \* Accounts
    kind, boxes, last_id, cmd, started, folder_faults,                        \* FolderAdmin
    stored, mbox, copied, import_job, imports                                 \* Mbox

Book == INSTANCE Contacts WITH
    Names <- ContactNames, Failing <- TRUE

\* "none" is the absence of a key.
ASSUME KeysAssumption == Book!None \notin Keys

Login == INSTANCE Accounts WITH
    Names <- AccountNames,
    job <- account_job, mishaps <- account_mishaps, faults <- account_faults

Folders == INSTANCE FolderAdmin WITH
    Process <- Processes, Path <- FolderPaths,
    issued <- last_id, faults <- folder_faults

\* Pieces of messages as in Mbox; the end of the headers falls anywhere.
Bit(what, depth, set) == [kind |-> what, gt |-> depth, flags |-> set]
Gap == Bit("empty", 0, {})
Words == Bit("text", 0, {})
Sender(gt) == Bit("from", gt, {})
Seen == Bit("status", 0, {"seen"})
MailRow(text, set) == [raw |-> text, flags |-> set]

MCMailboxes ==
    {<<MailRow(<<a, b, c>>, {"flagged", "junk"})>> :
        a \in {Gap, Words, Sender(1), Seen}, b \in {Gap, Words, Sender(0), Sender(1), Seen},
        c \in {Gap, Sender(1), Seen}}
    \cup {<<MailRow(<<Sender(1), Gap, Sender(0)>>, {"seen"}), MailRow(<<>>, {}),
            MailRow(<<Words>>, {})>>}

Copy == INSTANCE Mbox WITH
    Importers <- Processes, Kept <- {"seen", "flagged"},
    rows <- stored, file <- mbox, job <- import_job

\* Messages are of the pieces of Mbox.
ASSUME MailboxesAssumption == Mailboxes \subseteq Seq([raw : Seq(Copy!Pieces), flags : SUBSET STRING])

bookVars == <<configured, rows, recent, cards, pushes, pulling, harvesting, commands>>
loginVars == <<config, keyring, tokens, account_job, added, account_mishaps, account_faults>>
folderVars == <<kind, boxes, last_id, cmd, started, folder_faults>>
copyVars == <<stored, mbox, copied, import_job, imports>>
allVars == <<part, vars, bookVars, loginVars, folderVars, copyVars>>

CommandsInit ==
    /\ Init /\ Book!Init /\ Login!Init /\ Folders!Init /\ Copy!Init
    /\ part \in {"calendar", "contacts", "accounts", "folders", "mailbox"}
    /\ part # "calendar" => dav = CHOOSE d \in DavServers : TRUE
    /\ part # "contacts" => configured
    /\ part # "folders" => kind = "jmap"
    /\ part # "mailbox" => stored.inbox = CHOOSE inbox \in Mailboxes : TRUE

CommandsNext ==
    \/ part = "calendar" /\ Next /\ UNCHANGED <<part, bookVars, loginVars, folderVars, copyVars>>
    \/ part = "contacts" /\ Book!Next /\ UNCHANGED <<part, vars, loginVars, folderVars, copyVars>>
    \/ part = "accounts" /\ Login!Next /\ UNCHANGED <<part, vars, bookVars, folderVars, copyVars>>
    \/ part = "folders" /\ Folders!Next /\ UNCHANGED <<part, vars, bookVars, loginVars, copyVars>>
    \/ part = "mailbox" /\ Copy!Next /\ UNCHANGED <<part, vars, bookVars, loginVars, folderVars>>

\* The fairness of each part.
CommandsFairness ==
    /\ \A p \in Processes : WF_vars(part = "calendar" /\ Work(p))
    /\ SF_vars(part = "calendar" /\ \E p \in Processes : StartPull(p, FALSE))
    /\ WF_bookVars(part = "contacts" /\ Book!Pull)
    /\ WF_bookVars(part = "contacts" /\ Book!PullCard)
    /\ WF_bookVars(part = "contacts" /\ Book!Bump)
    /\ WF_bookVars(part = "contacts" /\ \E push \in pushes : Book!Push(push) \/ Book!Exit(push))
    /\ \A p \in Processes :
          WF_folderVars(part = "folders" /\ (Folders!Retry(p) \/ Folders!List(p) \/ Folders!Set(p, FALSE)))

CommandsSpec == CommandsInit /\ [][CommandsNext]_allVars /\ CommandsFairness

-----------------------------------------------------------------------------
(* Properties: those of the parts, in the behaviours of the part.          *)

\* Only `contacts remove` takes a name, a key or a count away.
OnlyRemoveForgets == Book!OnlyRemoveForgets

\* An account finds its own secret, and none outlives its account.
SecretsFollowAccounts ==
    part = "accounts" => Login!AccountsHaveTheirSecrets /\ Login!RemovedLeavesNothing

\* What was exported comes back with an import that has the folder to itself.
MailboxComesBack == part = "mailbox" => Copy!MailboxComesBack

\* The path of a mailbox leads to it and to no other, and a command acts on the
\* mailbox that had the user's path at some time while the command ran.
CommandsKeepToThePath ==
    [](part = "folders" => Folders!PathsNameOneMailbox) /\ Folders!CommandsKeepToThePath

\* What the user repeats succeeds in the end: one calendar command at a time gets
\* an exact mirror of the server, whatever failed or died before and whatever
\* discovery finds; pulling contacts now and then, the server's names; the creation
\* of a folder is made, whatever a first attempt left half-made.
EventuallyInStep ==
    <>[](/\ part = "calendar" => Mirrored
         /\ part = "contacts" => Book!NamedAsOnServer
         /\ part = "folders" => Folders!NoneIsMaking)
=============================================================================
