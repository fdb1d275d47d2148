# A TLA+ model of inbx

inbx is a mail client: a terminal interface (`apps/inbx`), a background daemon
(`apps/inbx-sync`) and a set of command line tools, over one SQLite database, one
Maildir and one full-text index per account. Several operating system processes
work on these at the same time and coordinate through the database, a few files
and one Unix socket only. That, and what the mail, calendar and address book
servers do meanwhile, is where its hard behaviour is, and what these modules are
about. TLC checks small instances of every module; TLAPS proves the most
important properties for all values of the constants.

Paths below are relative to `src/`; "store" is `crates/inbx-store/src/lib.rs`,
"sync" is `crates/inbx-sync/src/lib.rs`, "app" is `apps/inbx/src/tui/app.rs`,
"jmap" is `crates/inbx-net/src/jmap.rs`, "main" is `apps/inbx/src/main.rs`.

## 1. The system

### Components

| component | state it keeps | operations | makes it correct |
|---|---|---|---|
| header index (store, sync, main) | `folders` rows with two generation counters, `messages` rows | list and reconcile folders, reserve, fetch, `apply_snapshot`, echoes of commands, `inbx import` | the index is a state the server was in; it does not go back; rows of one UIDVALIDITY only |
| opaque index (store, jmap, `graph.rs`) | rows keyed by a hash of the provider's id | paged listing, adoption and rekeying of older rows, pruning by id | one row per message, with its own body; what was there throughout is not pruned |
| delta link (store, sync, main) | one column per folder | `graph fetch`, the daemon's and the TUI's watch, `inbx watch` | no change is skipped for good |
| bodies and search (store, sync) | Maildir files, `maildir_path`, `messages_fts` | `list_unfetched`, `fetch_bodies`, `write_maildir`, `index_for_search`, `set_maildir_path` | a message that counts as fetched can be found; no body under another message's row |
| outbox (store, app, main) | `outbox` rows with attempts and retry time | enqueue, drain, record failure, delete, the overlay | a message that could not be sent is kept until it is |
| threading (`threading.rs`) | `thread_containers`, `messages.thread_id` | `ingest`, `set_threading` | a forest; every cached root is right; order does not matter |
| composer and submission (`inbx-composer`, `smtp.rs`, main, app) | a draft, or its text | new, reply, forward, template, PGP envelope, send, append to Sent | a message reaches whom its draft names; References lead back to the start |
| sync loop (sync) | one loop per account | discover, sync every folder, emit, wait | never ends; everything on the server is fetched |
| IPC (`crates/inbx-ipc`) | a socket file, a broadcast ring of 64 events | `bind_at`, `send`, connect | one daemon; an update reaches every client |
| TUI view (app, `tui/mod.rs`) | folder list, message list, selections, watch | reload, navigate, switch account, commands | a command acts on the message on the screen |
| TUI keys (`binds.rs`, `keys.rs`) | overlays, prefixes, composer mode | the binding table, one handler per overlay, results that open one | keys go to what is on top; Esc leads out |
| TUI operations (app, `tui/mod.rs`) | pending counter, result queue, composer, sieve session | spawn, handle a result, compose, send | one operation at a time, always finished; drafts are not lost |
| ManageSieve (`sieve.rs`, app) | a connection, in the TUI a cached one | list, get, put, activate, delete | a request reads its own answer |
| folder management (jmap, `graph.rs`, main, app) | the server's tree | create, delete, rename, subscribe | a path leads to one mailbox; a repeated creation succeeds |
| accounts (`inbx-config`, main, `wizard.rs`) | `config.toml`, keyring entries | add, edit, remove, OAuth login | an account finds its secret, none outlives it |
| calendars (`caldav.rs`, main) | `.ics` files, `_index.toml` with etags | pull, put, delete, rsvp | nothing unseen is overwritten; the mirror catches up |
| contacts (`inbx-contacts`, `carddav.rs`, main) | a table of addresses | add, remove, harvest, pull, push, Autocrypt keys | only remove forgets; names follow the server |
| mbox files (`mbox.rs`, main) | a file, a local folder | export, import | what was exported comes back |
| providers (`crates/inbx-net`) | connections | IMAP, SMTP, JMAP, Graph, OAuth | requests do what they say; limits hold |
| PGP, rendering, message checks | none between two calls | sign, encrypt, parse, display one message | pure functions of a message |

### How they interact

* The daemon, the TUI and every command open the same SQLite file. There is no
  lock besides SQLite's own, so that a transaction, or a single statement outside
  one, is the unit of interleaving. `config.toml` and the calendar's index are read
  whole and written whole, without a lock.
* A *sync* is: list folders, `reconcile_folders`, reserve a generation, fetch,
  `apply_snapshot`, thread the new rows, download bodies, index them. The daemon
  does it for every folder in a loop; the TUI does it for one folder in a task;
  `inbx fetch` does it once.
* A *command* (mark, move, expunge) changes the server first and then echoes the
  change into the index. An *import* writes folders and messages of its own into the
  same two tables, beside or into a folder of the server.
* The daemon broadcasts `FolderUpdated` on its socket after each sync. The TUI's
  pump task puts what it reads on the event loop's queue; the event loop reloads
  both lists. When no daemon answers, or the connection ends, the TUI runs the
  same loop in its own process and watches the open folder itself.
* The event loop runs one handler at a time and never waits for a background
  operation. An operation is a task that posts one result; `spawn_pending` refuses
  a second one.
* A message that is written goes to a server, or to the outbox, which every later
  drain reads; what it says in its headers is what the composer of whoever
  answers it, and the threading of whoever reads it, will work from.
* Calendar and contact commands talk to a DAV server that other clients change,
  and find their collection by the same discovery.

### Behaviour that is hard to test

Three processes that fetch one folder and apply in another order; a UIDVALIDITY
that changes between two requests; a listing in pages that moves meanwhile; a
folder that is missing from one listing; a link stored before what it covers; a
process that dies between SMTP's acceptance and the deletion of the row; an import
into a folder that is being synchronised; a Message-ID that two tables spell
differently; a row id that is issued twice; two drains of one table; messages of a conversation that
arrive in any order in several processes; replies to replies by programs that each
rewrite the headers; a subscription that races the first load; a client that lags;
a daemon that stops; two daemons that start together; results that arrive after the
user has moved on; overlays that are drawn in another order than they take keys; a
mutex released between "connect" and "use"; an answer that is left half-read; two
files, or a file and a keyring, that change in separate steps; a tree that is
created node by node. `PROJECT.json` lists each of these hazards with the line where
it bites and the properties that are about it.

## 2. The modules

Every module describes its variables and its abstraction at its top. Definitions
keep the names of the functions they model where there is one; a definition marked
"Mutant" is a plausible bug that is used to see that a property notices it, and is
not part of any specification.

| module | models | one action is |
|---|---|---|
| `SnapshotStore` | the header index of an IMAP account | one transaction, one autocommit statement, or one request |
| `LastReservation` | what the generations promise, without generations | one step of a worker |
| `OpaqueIndex` | a folder of a JMAP or Graph account | one page, one batch, one transaction, one command |
| `DeltaLink` | Graph's delta link and JMAP's push | one request or one statement |
| `BodyIndex` | bodies, Maildir and search index of one folder | one statement or one request |
| `Outbox` | sending and draining | one statement or one SMTP attempt |
| `Threading` | `Threader::ingest` and `set_threading` | one statement |
| `Submission` | a conversation from draft to readers | one command of a user, one submission |
| `SyncEvents` | from the server to the screen | one step of the loop, the socket or the event loop |
| `DaemonSocket` | starting and stopping the daemon | one system call on the socket file |
| `TuiView` | lists, selections and watch of the TUI | one handler of the event loop |
| `TuiBinds`, `TuiKeys` | the binding table; keys, overlays, prefixes and modes | one key or one result |
| `TuiOps` | operations, composer, sieve session | one handler, or one step of a task between two waits for the mutex |
| `ManageSieve` | requests and answers on a connection | one request, or the reading of one answer |
| `Dav` | DAV discovery, as a function | - |
| `Calendar` | the CalDAV mirror of an account | one request, one file, or the saving of the index |
| `Contacts` | the address book and its cards | one statement or one request |
| `Accounts` | `config.toml` and the keyring | one file access or one keyring call |
| `FolderAdmin` | folder commands of JMAP and Graph accounts | one request |
| `Mbox` | export and import | one file, or one imported message |
| `SnapshotProofs`, `BodyIndexProofs` | theorems about `SnapshotStore`, about `BodyIndex` | - |
| `OpaqueProofs` | theorems about `OpaqueIndex` and `DeltaLink` | - |
| `MailProofs` | theorems about `Outbox`, `Threading` and `Submission` | - |
| `DaemonProofs` | theorems about `SyncEvents` and `DaemonSocket` | - |
| `TuiOpsProofs` | theorems about `TuiOps`, `TuiView`, `ManageSieve` and `TuiKeys` | - |
| `CommandsProofs` | theorems about `Accounts`, `Calendar`, `Contacts`, `FolderAdmin` and `Mbox` | - |
| `FiniteFacts` | lemmas on finite sets and on recursion that the proofs share | - |

The modules interact through the database and are composed where the interaction
is what a property is about: `SnapshotStore` has daemon, TUI, fetch, user
commands and imports on the two tables; `BodyIndex` and `OpaqueIndex` have the syncer, the viewer
and the user on rows, files and search index; `Outbox` all drains and the overlay;
`SyncEvents` the server, the loop, the socket and the event loop; `Submission` the
composer, the PGP envelope, the transports, the outbox and the Sent folder.
Elsewhere one module relies on what another one shows: `BodyIndex` and
`OpaqueIndex` on `SnapshotStore` for the order in which snapshots apply, `Threading`
on `Submission` for what References say, `TuiKeys` on `TuiOps` for a counter that is
right.

### The index

**`SnapshotStore`.** The server side of a folder is `exists`, `suv` (UIDVALIDITY),
`mbox` (uids with flags) and `unext` (UIDNEXT), which others change at any time; the
index is `row` (the `folders` rows with both counters and the stored UIDVALIDITY) and
`rows` (the `messages` rows). A syncer is a `sync_once` (Daemons), a `do_manual_sync`
(Tuis) or a `cmd_fetch` (Clis), with `pc`, its folder and what it listed and fetched;
a daemon lists the folders and reconciles the index with them first, an `inbx fetch`
lists them and only adds rows, a TUI does neither. `Reserve` is `reserve_snapshot_generation`; `ApplySnapshot` is the whole
transaction: eligibility (`Superseded`), the rows that survive a change of
UIDVALIDITY (`Surviving`), the upserts (`Upserted`), the pruning of a complete
listing (`Pruned`), and the rows reported as new (`NewRows`). `Fail` ends a syncer
between any two steps. A mutator sends its request (`ServerRequest`) and echoes it by
one statement (`EchoDelete`) or by a read and a write per row (`EchoRead`,
`EchoWrite`), as `mutate_flags` does.

An import (`cmd_import`, main:1783) has three steps, each a statement of its own:
`ImportFolder` creates the folder or, if the index has it, overwrites its UIDVALIDITY
with 0; `ImportNumber` reads the highest uid among the rows of UIDVALIDITY 0;
`ImportMessage` writes such a row, and another one, until the import ends or dies.
`row.known` tells UIDVALIDITY 0 from the NULL of a row that a listing or a reservation
has created. The rows of a folder are therefore of two kinds, `Copied` from the server
(their UIDVALIDITY is at least 1, as IMAP has it) and `Imported`. The next snapshot of
the folder finds a UIDVALIDITY that is not its own and wipes both (store:276), and
`reconcile_folders` removes a folder that only the import knows (store:455): `imports`
shows it. The reading of IMAP sessions that tell no UIDVALIDITY as 0
(`imap.rs`:281, 340, 397) is left out; RFC 3501 has them tell one.

The ghosts `latest`, `mirrored`, `faithful` and
`announced` say who reserved last, which version a copy shows, whether it is a complete
one, and what was reported as new and has not been deleted by a user command since.

**`LastReservation`** is the abstract specification: a worker claims a folder, which takes
the right to publish from whoever had it, looks at the server, and publishes if the
right is still its own. `SnapshotStore!Abstract` instantiates it, with `Holder(f)`, the
syncer whose generation equals the counter, for the right. The counters implement it
for folders the server keeps listing; `aba` shows that they do not for others.

**`OpaqueIndex`** takes that order for granted (its variable `holder` is
`LastReservation`'s) and has what is particular to JMAP and Graph: rows keyed by a hash
of the provider's id, rows of older releases that `apply_snapshot` adopts, collapses
or rekeys, listings in pages that move while they are read (JMAP checks the query's
state, Graph has nothing to check), batches of `Email/get`, pruning by id, and bodies
that are asked for by id. `validate_query_page` refuses a page without the query's total
(jmap:1542), which `query_all_email_ids` does not ask for (jmap:868) and RFC 8620, 5.5,
lets a server give only on request; `totals`, which never changes, says whether the
server gives it all the same. Legacy rows are initial states: nothing, or two or three rows
of one message in the forms earlier releases left.

**`DeltaLink`** has the link. `log` is what happened in the folder, a link is a place in
it, `oldest` the first place the server still knows. `cmd_graph_fetch` copies and then
stores; the daemon, `inbx watch` and the TUI's watch store and then sync.

**`BodyIndex`** has the rows with their rowids (`NewRow` gives the largest plus one, as
SQLite does without AUTOINCREMENT), the Maildir, the search index keyed by rowid and the
delete trigger. A batcher applies a snapshot, lists what is missing, fetches it in one
request, and per body writes the file, deletes the old entry, inserts the new one and
records the path; a viewer does that for one message; a user deletes rows. A text is
named by uid and UIDVALIDITY, so that a body under the wrong row shows. Snapshots apply
in the order in which they were taken, which is what `SnapshotStore` shows.

### Mail that is written

**`Outbox`** has the table and every path into and out of it: senders (`cmd_send`,
`do_smtp_send`), drains of due rows (`sync_once`, `drain_outbox_silent`, `inbx outbox
drain`), the TUI's drain of all rows, and the overlay, which works from the list it
loaded when it opened. The server accepts, refuses, or accepts and the answer is lost.
Drains go through SMTP whatever the account's transport is. Time is whether a row's
retry time has come.

**`Submission`** has people who all use inbx. A desk holds one draft: a new message, a
reply, a reply to all or a forward of a message in the inbox, in the composer or as
the text `inbx draft` prints. The text may get an attachment (`--attach` parses the
draft and builds it anew), either may get a PGP envelope; then it is sent. What a
parser of headers makes of lines it was not made for (`Parsed`, `ParsedReferences`) is
nondeterministic. SMTP's envelope is read from the headers, Graph and JMAP take the
message as it is, the outbox reads the envelope once more when it is drained. A
message that everybody can read shows that `References` lead back to the start, which is
the premise under which `Threading` finds one thread.

**`Threading`** has the containers, the cached roots and the cached thread ids;
`Threader::ingest` is one action per statement, since no transaction surrounds it, and
the recursive queries are recursive functions. A mailbox (`box`) says what messages
refer to, which rows may go, how many processes ingest and how many crash, and in
`byId` which rows are found by their Message-IDs. There are two forms of one. Containers,
References and `thread_id` have what mail-parser makes of the header, without angle
brackets (sync:622). `messages.message_id` has what the listing said: with brackets in
an IMAP ENVELOPE (`imap.rs`:309, 362, 424) and from Graph (`graph.rs`:335, 583), without
them from JMAP and in an imported file. The two statements of an ingest that look rows up by
Message-ID, the other message's subject (`threading.rs`:143) and step 8 (230), do not
find a row of the former kind; `set_threading` writes the row of the message it
threads by folder and uid.

**`Mbox`** has two folders and a file. A raw message is the sequence of what its newlines
separate: an empty piece, a `From ` behind some `>`, a Status header with its flags, any
other text. `Export` writes `Written(row)` for each row and may be killed anywhere;
`StartImport` splits the file and reads the largest uid, `ImportOne` writes a row.

### The daemon

**`SyncEvents`.** The contents of a folder are a version number, on the server, in the
store and on the screen. The loop fetches, applies and emits for each folder and then
waits for a push or the poll timer. An emitted event goes into a ring of `Cap` slots
that drops the oldest; `Forward` takes it to the TUI's queue, `HandleTask` from there to
a reload. The TUI connects before it loads (`Connect`, `Load`); the accept loop
subscribes and greets some time later (`Subscribe`, `Greet`). Without a daemon the
TUI runs the loop itself, and each signal of its watch starts a manual sync unless an
operation is pending.

**`DaemonSocket`** has the path, named by the daemon that bound it. `bind_at` is probe,
check, unlink, bind, listen, each an action; a stop closes and then unlinks; a crash
leaves the file. A daemon may leave a probe unanswered (`MaxSilent`).

### The terminal interface

**`TuiView`** has the two lists as copies of the store, the index selected in each, and
the folder the watch is bound to. Every handler that replaces a list or moves a
selection is an action. A user has *habits* (jump with gg and G; folder operations;
switching accounts), chosen at the start, so that a property that needs the absence of
one says so. The run has users with one habit each, the theorems are for any.

**`TuiBinds`** is the table of key bindings in the order in which it is searched.
**`TuiKeys`** has the open overlays, the prefixes and the composer's mode, the order in
which overlays take a key (`RouteOrder`) and the one in which they are drawn (`DrawOrder`), a
handler for each, and the results that open or close an overlay by themselves. What a
handler looks at in an overlay's contents is left out, and it may go either way.

**`TuiOps`** has the pending counter, the operation under way, the results on their way,
the draft in the composer and what became of each draft, and the cached ManageSieve
session behind a fair mutex that an operation takes twice. A *patient* user waits for an
operation before the next step that could disturb it, a *hasty* one does not.

**`ManageSieve`** has what is said there: a request, the records of the server's answer
(lines, literals, a tag), and where `read_response_until_done` stops reading. The
`wire` keeps what was sent and not read; `answer` is what the server said, `told` what
the client made of it. `inbx sieve` connects for each command, the TUI keeps its session.
Two forms of an answer, which RFC 5804 allows, are left out: a script sent as a quoted
string, which `get_script` (`sieve.rs`:149) would return with its quotes, and a tag in
lower case; an `ok` ends an answer like an `OK` (296) and is then taken for a refusal (231).

### Commands beside the mail

**`Dav`** is discovery, a function of the server's answers. **`Calendar`** works with what
it finds: a directory of files, an index of etags read whole at the start of a command
and written whole at its end, and other clients on the server. **`Contacts`** has the
table, the harvest from messages (which counts and names), `contacts add` with its PUT
in a task of its own, `carddav pull` and `push`, and the keys the sync loop finds.
**`Accounts`** has `config.toml` and the keyring, with a step for each reading and
writing of either, and prompts or a browser in between. **`FolderAdmin`** has a tree of
mailboxes with names and parents, the paths made of them, and the commands that first
list and then act; Graph lists top-level folders only.

### Scenarios and parts

TLC's configurations can only give values to constants, so an alternative that a run is
to cover (who takes part, which kind of user, which mailbox) is a variable that `Init`
chooses from a constant set and no action changes: `cast` in `MCSyncers` and
`DeltaLink`, `Casts` in `Outbox` and `BodyIndex`, `habits`, `box`, `user`.

Modules that share no state and answer neighbouring questions are checked in one run. Its
MC module extends one of them (or two, where their names differ), instantiates the
others, and has a variable `part`: only the actions of that part are taken and the variables of the others rest in one initial
state. Fairness is stated per part, an invariant of another module is
`part = "x" => ...`, and a liveness property `<>[](part = "x" => P)`. So the states of a
run are the sum of the states of its parts, never their product.

## 3. What TLC checks

Every run of `PROJECT.json` has a configuration of its name. `expect: pass` means that TLC explores the
whole instance without an error; the instances of the
passing runs have between half a million and three and a half million distinct states. Each property is paired in `PROJECT.json` with a *mutant*, a
definition with a plausible bug in the code it models, under which TLC finds the
property violated: so none holds by the shape of its model. The runs `aba`,
`outbox_shared`, `view_jump` and `contacts_push` check one statement each that the
repository makes of the program and that the code does not keep. So do three
configurations beside the runs, `imports` (of `MCSnapshotStore`), `threads_imap` (of
`MCThreading`) and `jmap_total` (of `MCRemoteIndex`), on which TLC ends with a
counterexample within seconds. The findings in `PROJECT.json` quote each statement.

| run | instance | properties | what they say |
|---|---|---|---|
| `syncers` | four casts: three syncers on one folder with two uids; the daemon (twice) and a user on two folders of which one comes and goes; the same two when the user imports; `inbx fetch` (once) and a user who imports into a folder with two uids and moves | `LatestReservationWins`, `NeverGoesBack`, `ImplementsLastReservation` | only the latest reservation applies; the index never shows an older state of the server after a newer one |
| | | `CompleteSnapshotIsAuthoritative`, `RowsBelongToFolder` | after a complete snapshot the copied rows are what the server had; copied rows are of one UIDVALIDITY, that of their folder unless an import has overwritten it, and of existing folders |
| | | `AnnouncedOnce` | a message is new once, unless a user command deletes its row or a date search follows the wipe after an import |
| `aba` | a folder missing from one listing | `LaterReservationSupersedes` (violated) | "A later reservation makes an older fetched snapshot ineligible" (store:168) |
| `imports` (no run) | the daemon and an import | `ImportsOutliveSyncs` (violated) | "The folder is created in the local index but not on the server" (main:237): the next sync deletes what was imported |
| `outbox` | three casts of senders, drains and the overlay, one fault | `StoredUntilSent`, `DuplicateNeedsFault` | a row leaves the table when its message was sent, or the user deleted it; no second delivery without a fault or a second drain |
| | | `EventuallyDelivered` | what is queued is delivered |
| `outbox_shared` | two drains and a sender | `FailedSendStaysQueued` (violated) | an id that is issued again: a late deletion removes another message |
| `threads` | two processes on a path of three messages, one whose row is found by its id and two whose are not; one process on a circle of three, all found or none; two or three people | `NoCycle`, `SettledThreads` | links form a forest; when nothing is under way the caches of rows that are found are right, and full References give every row its tree, whatever the order |
| | | `AddressedAreReached`, `RepliesReachEveryone`, `ReferencesAreAncestors` | what a draft says is what happens, over several messages |
| `threads_imap` (no run) | the circle, with rows as IMAP lists them | `RowsFollowRoots` (violated) | "update messages.thread_id for every message under the new root" (`threading.rs`:228): no row is found, and a message stays in the thread it was in |
| `bodies` | three casts on two uids, of which one cannot be parsed | `IndexFollowsRows`, `CurrentBodiesAreRight`, `EventuallyFetched` | fetched messages are found and deleted ones are not; no body of another message; every body arrives |
| `remote` | two messages, one per page, four kinds of legacy rows; three casts on the link | `RowsAreSound`, `AnnouncedOnce`, `ListingIsPublished` | a row has its own body and id; what was present throughout a JMAP sync is listed and is new once |
| | | `LinkCoversIndex`, `IndexCatchesUp` | the link never runs ahead of `graph fetch`'s index; in the end the index is exact, where a JMAP server gives totals |
| `jmap_total` (no run) | the same, with no event | `EveryAccountCatchesUp` (violated) | "A complete snapshot walks every query page" (jmap:978): without a total no listing ever ends |
| `daemon` | one or two accounts, a ring of two slots; three daemons and one path | `ConnectedViewIsFresh`, `EventuallyShown` | what the store has is on the screen or on its way there; a change is shown in the end |
| | | `OneReachableServer`, `StartSucceeds` | one daemon, at the path; a stale file keeps nobody from starting |
| `tui` | two accounts, two drafts, three folders, every overlay and key | `OneAtATime`, `BusyEnds` | the counter is the number of operations in flight, at most one, and comes back to 0 |
| | | `OpenDraftIsKept`, `SessionAnswersItsOwner` | a result touches its own draft; a sieve operation finds its account's session and its own answer |
| | | `ShownIsCurrent`, `BackgroundKeepsThePlace` | a command names the message that is shown; results keep the selection |
| | | `KeysGoToWhatIsSeen`, `EscapeLeadsOut` | keys go to the overlay on top; Esc alone leads back to the list |
| `view_jump` | a user who presses gg or G in the folder pane | `ListsAgree` (violated) | the loaded messages are those of the focused folder (app:1145) |
| `commands` | two processes; one event and a stray resource; two addresses; two account names; two folder paths; 61 mailboxes | `ReplacesOnlyWhatWasSeen`, `OnlyRemoveForgets` | an update replaces a version somebody here has seen; a contact keeps name, key and count |
| | | `SecretsFollowAccounts`, `CommandsKeepToThePath` | an account finds its secret and none outlives it; a command acts on the mailbox at the path |
| | | `MailboxComesBack` | an import adds what the export wrote, with text and flags |
| | | `EventuallyInStep` | repeated commands bring the mirror, the names and the folders into step |
| `contacts_push` | one contact, a server that never fails | `AddedIsPushed` (violated) | "auto-pushes on each write" (`inbx-contacts/src/lib.rs`:68) |

The type invariants (`TypeOK`) are not properties of a run: for the modules with a module
of proofs they are theorems, for the others they are documentation that can be added to
a configuration.

### Premises that the code does not guarantee

A property that is true of the code only under a condition states the condition. These
are the conditions, and what happens without them.

* `RowsBelongToFolder` and `CompleteSnapshotIsAuthoritative` are about the rows copied from
  the server. Imported rows have UIDVALIDITY 0, so that those of a folder that has both are
  of two UIDVALIDITYs until the next snapshot wipes them; and from the import to that
  snapshot the folder's own UIDVALIDITY is not that of its copied rows.
* `NoCycle`: one process ingests. Two that ingest messages which refer to each other may
  both pass the check for a cycle and both link (`threading.rs`:93); every later walk to
  the root then fails, where `tests/threading_jwz.rs`:238 expects "no infinite loop, no
  error". `SettledThreads` is about several processes, for conversations whose
  References agree, and without a crash between the statements that move a subtree
  (`threading.rs`:190). That the cached thread follows the cached root when a later message
  moves a whole subtree is only so of rows found by their Message-IDs (JMAP accounts,
  imported files): `threads_imap` has the others. That the order of arrival does not
  matter also needs References that name the whole path and subjects that differ: what is
  linked otherwise can depend on who came first. `Submission!ReferencesAreAncestors` says when inbx writes them so.
* `AddressedAreReached` and `ReferencesAreAncestors` except what the code forgets:
  `--attach` builds the draft anew without References, In-Reply-To and earlier
  attachments; the outer headers of a PGP envelope have neither Bcc (so that SMTP's
  envelope misses the blind copies) nor Message-ID.
* `IndexFollowsRows`: one process. It keeps what `CHANGELOG.md`:81 promises ("failed
  indexing cannot leave rows marked as completely fetched"). With several, another
  worker's insertion may come between the deletion and the insertion of an entry
  (store:796), which ends the job with a constraint error, and an entry that is written
  for a row that went after the lookup of its id (store:783) stays.
* `CurrentBodiesAreRight` is about rows of the server's present UIDVALIDITY: a row of an
  old one may get the body that its uid names now, until the next snapshot.
* `EventuallyFetched`: one process syncs; two may supersede each other for ever.
* `ConnectedViewIsFresh` and `EventuallyShown`: the daemon serves the TUI's account
  alone. Another account's events share the ring (`server.rs`:113) and may push out the
  only event of a change; nothing tells the client that it lagged.
* `DuplicateNeedsFault`: one drain at a time; two send a row twice. `StoredUntilSent`: one
  drain, or nobody who sends; a late drain deletes by an id that was issued again.
  `EventuallyDelivered`: the overlay is not used, since each retry by hand puts a
  message's next one off.
* `OneReachableServer`: no start or stop overlaps another (`server.rs`:59, 148), and live
  daemons answer within 250 ms.
* `ShownIsCurrent` needs a user who neither jumps in the folder pane (run `view_jump`)
  nor makes, renames or deletes folders: the list after a folder operation is kept by
  index (`tui/mod.rs`:270). `BackgroundKeepsThePlace` excepts the latter only. The
  watch is compared by folder name, not by account (app:2178), which the properties do
  not say anything about.
* `OpenDraftIsKept`, `BusyEnds`: the patient user. A result of sending closes whatever draft is open
  (`tui/mod.rs`:348). The session half of `SessionAnswersItsOwner`, too: a hasty user
  reaches the `expect` at app:2320, or the session of the account before the switch
  (app:1708).
* The answer half of `SessionAnswersItsOwner`: after the upload of `inbx sieve vacation`,
  a literal behind OK is not read, and a text in it that begins like a tag is taken for
  the answer to the activation that follows (`sieve.rs`:243).
* `KeysGoToWhatIsSeen`: the patient user; late results open overlays over others.
* `ListingIsPublished` is about JMAP: Graph's pages carry nothing to compare.
  `IndexCatchesUp` excepts rows that are `Stuck`: a row that nothing resolves fails
  every download of its folder, and two rows of an older release that claim one uid
  fail every transaction (store:343). And it is about JMAP servers that give the total of
  a query unasked; with one that does not, no listing is ever complete (`jmap_total`),
  and what the other properties say of JMAP listings is then empty.
* `LinkCoversIndex`: only `inbx graph fetch` moves the link. The daemon and the watches
  store it first; `IndexCatchesUp` shows that a full sync makes up for it.
* `MailboxComesBack`: the import has the folder to itself. Two read the same largest uid
  and replace each other's rows.
* `AnnouncedOnce`, of `SnapshotStore` and of `OpaqueIndex`: a row that a command deleted
  and a listing in flight brings back is new again. So is, in `SnapshotStore`, a message
  whose row the wipe after an import removed, if the snapshot that wipes is a date search
  that does not list it.

### Observations

What else the modelling brought up, in the code as it is: a text without recipients is
queued and can never be drained; an append to Sent that fails after the message was
accepted is reported as an error, and repeating it sends twice (main, `cmd_send`); a
drained message never reaches Sent; the TUI sends by SMTP whatever the transport;
`expunge` on a Graph account deletes local rows only, and they come back as new; the
space bar arms the leader in the composer and types nothing (`keys.rs`:144); a
validation error of a wizard drops what was typed; `accounts add` asks its questions
between reading and writing `config.toml`, so that a command in between is undone;
`cal put` records no etag when the server sends none, and the next update fails until a
pull; `contacts add` and `carddav push` name a card differently and make two; a JMAP
rename takes the new path as one name (jmap:1295); a folder deletion that is repeated
after a lost answer may resolve to a mailbox by role (jmap:1496); export and import add
two newlines to a message each time.

### Bounds

Every bound is a constant whose name begins with `Max`, or a set of model values, and the
guards that use it are the only places where a model stops before the code would. They
are chosen for the case that matters to just fit, and were raised until no mutant needed
more. Two uids are needed for a wrong row beside a right one, two reservations of one
syncer for a counter that comes back, three server changes for old, new and newer. Two
queued messages let one id be issued again. Three messages make the shortest circle
that is not a pair, and the shortest conversation in which a message has an ancestor
that is not its parent. One message per page makes two messages two pages. A ring of
two slots is full after one cycle of two folders. Three daemons are needed for one to
unlink the file of a second while a third probes. Three folders, with one that cannot
be selected, are needed for an index to point to another one after a change. Three
tasks at the mutex are an operation, a drop and a second operation. One record more
than `MaxRecords` leaves an answer half-read. One fault is one crash, error or lost answer
at any point; what follows a crash is the same after a second one, except for daemons'
files, where three crashes are allowed.

### Fairness

* `outbox`: the daemon drains every cycle, a process that runs takes its next step, the
  clock reaches retry times; and a server that is asked again and again accepts in the
  end (strong fairness of `DrainSend(d, r, TRUE)`): without that there is nothing to
  promise. Nobody has to write a message.
* `bodies`: a syncer that downloads bodies starts a cycle again and again and each step
  follows (the daemon's `loop`); faults are finite; a viewer need not do anything.
* `remote`: the daemon lists, applies and downloads bodies; `inbx watch` and the daemon
  sync after a signal; the poll timer fires.
* `daemon`: tasks that are ready run (tokio), the poll timer fires, requests end, the
  event loop handles its queue. The loops' fairness is strong where a bound of the
  model, the length of the queue, can switch a step off. Nobody promises that a daemon
  starts or that a watch signals, and nothing about the socket needs fairness.
* `tui`: the operation's task and the dropping task run on, and the event loop handles a
  result (strong: handlers of the user's keys come in between). For `EscapeLeadsOut`,
  a user who wants out presses Esc, and pending results arrive.
* `commands`: the processes of the calendar run on, and the user starts a pull again and
  again (strong, since another command may be running); contacts are pulled, and a push
  runs or its process ends; a folder creation that failed is repeated.

## 4. What is proved

Eight modules hold proofs that TLAPS checks, for every value of the constants that
satisfies the assumptions named in the modules: finite sets where a database or a
mailbox is one, disjoint kinds of processes, natural numbers for bounds, uids that are
numbers, a placeholder ("none", `Nothing`, `NoId`) outside the set it is added to, the
forms in which an older release left its rows. TLC evaluates the same assumptions in
the runs. The number of processes, folders, messages, drafts, accounts and faults, the
size of a page and of the ring are free.

Every proof has the same shape. The inductive invariant is a conjunction of named
parts, which are defined at the end of the component's module, under its properties,
since they say why the properties hold; a module of proofs shows that `Init` has them,
that each action keeps them, one lemma per part or per group of actions, and what
follows. For each property the table says which invariant it needs and why the
property is not inductive by itself.

| theorem | property | inductive invariant |
|---|---|---|
| `SnapshotProofs!TypeCorrect` | `TypeOK` | itself |
| `LatestReservationAlwaysWins` | `LatestReservationWins` | `ReservationInv`: generations in flight do not exceed the counter and differ from each other, the newest is the last reserver's. The property does not say that they differ |
| `IndexNeverGoesBack` | `NeverGoesBack` | `MirrorInv`: whoever may still apply looked at the server no earlier than whatever was applied. It relates a counter to time |
| `RowsAreInOrder`, `RowsAlwaysBelong` | `RowsBelongToFolder` | with `MailboxInv` and `SnapshotInv`: a uid is one message, of the server and in every snapshot, whose UIDVALIDITY is never an import's 0; so that what a snapshot meets in the index is of its UIDVALIDITY or is wiped |
| `CompleteSnapshotsAreAuthoritative` | `CompleteSnapshotIsAuthoritative` | `AuthorityInv`: a complete snapshot of the present version is the mailbox, while it waits to be applied |
| `NothingIsAnnouncedTwice` | `AnnouncedOnce` | `AnnounceInv`: what was reported has its row, or is gone from the mailbox for good; and it is not in a snapshot that may still apply, or has its row |
| `GenerationsAreReservations` | `ImplementsLastReservation` | the above; every step is one of `LastReservation`, or a stutter, under the refinement mapping |
| `OpaqueProofs!TypeCorrect` | `TypeOK` | itself |
| `RowsAlwaysSound` | `RowsAreSound` | `RowInv`: a row's id, uid and body are of one message, or of two with one Message-ID |
| `AnnouncedOnlyOnce` | `AnnouncedOnce` | `ListingInv` and `ReportInv`: what was reported has its row as long as it may be reported again; what came too late for the listing was not reported |
| `ListingsArePublished` | `ListingIsPublished` | `ListingInv`: while the query's state is unchanged, the pages are the beginning of the folder |
| `LinkAlwaysCovers` | `LinkCoversIndex` | `FetchInv`: what the index will be once the changes at hand are copied agrees up to the link that will be stored; of the messages that have not changed again, what is to be upserted is in the folder and what is to be deleted is not |
| `BodyIndexProofs!TypeCorrect` | `TypeOK` | with `FiniteInv`: there is a largest rowid, so that the next one is new |
| `BodiesAreRight` | `CurrentBodiesAreRight` | `SourceInv`: the bytes a job holds are as recent as the UIDVALIDITY it works under, whoever renumbers meanwhile |
| `IndexIsKept` | `IndexFollowsRows` | `AloneInv`: where a process that works alone is in its job, what is indexed already, and that the row is the one whose id it read |
| `MailProofs!TypeCorrect` | `TypeOK` | with `TableInv`: ids are distinct |
| `MailIsKept` | `StoredUntilSent` | `QuietInv` and `SoloInv`: the id about to be deleted is of an accepted message, because ids that are held are still in the table and are not issued again |
| `DuplicatesNeedFaults` | `DuplicateNeedsFault` | `OnceInv`: without faults a message is in one place |
| `ThreadTypeCorrect` | `TypeOK` of `Threading` | with `ContainersInv`: what an ingest has inserted is still there when it links, whoever else is at work |
| `NeverACycle` | `NoCycle` | `ForestInv`: what one process alone has read of the forest, that the child is a root and is not above its new parent, is still so when it writes |
| `ThreadsSettle` | `SettledThreads`, if at most one process ingests or References are full | `CachesInv`: between the statements of an ingest the messages, of those whose rows are found, whose caches differ are those below the root it is about to move. `PathInv`: with full References a link that is made, or is still to be made by somebody, is that of the path, so that none is undone |
| `AddressedAlwaysReached` | `AddressedAreReached` | `SubmissionInv`: nobody is both named and hidden; what a text, an envelope and a row of the outbox hold is what the draft said |
| `RepliesAlwaysReachEveryone`, `ReferencesAlwaysAncestors` | `RepliesReachEveryone`, `ReferencesAreAncestors` | the same: an answer goes on from the message it answers. The properties follow by induction along the answers |
| `DaemonProofs!TypeCorrect` | `TypeOK` | with `VersionInv` |
| `OneProcessSyncs` | | `LinkInv`: while the TUI is connected its own loop is off, and nothing in the queue starts it |
| `ViewCatchesUp` | `ConnectedViewIsFresh` | `FreshInv`: what the screen does not show is about to be announced, or in the ring, or in the queue |
| `DaemonProofs!SocketTypeCorrect` | `SocketTypeOK` | itself |
| `OneServerIsReached` | `OneReachableServer` | `TurnInv`, `ServerInv`: what a daemon saw of the path still holds when it acts; whoever got past its probe is the only one to listen |
| `StartsSucceed` | `StartSucceeds` | the same |
| `TuiOpsProofs!TypeCorrect` | `TypeOK` | itself |
| `OneOperationAtATime` | `OneAtATime` | `Counting`: an operation runs, or its result waits, or neither, and the counter tells which |
| `DraftIsKept` | `OpenDraftIsKept` | `DraftInv`: while a message is being sent no composer is open, so the result that closes one finds none |
| `ViewTypeCorrect` | `TypeOK` of `TuiView` | with `ListsInv`: what is shown is of the open account and, unless the user jumps or makes folders, of the current folder |
| `ShownAlwaysCurrent` | `ShownIsCurrent` | the same |
| `PlaceIsKept` | `BackgroundKeepsThePlace` | the same; a list in order has each folder and each message once, so that what was selected is found again |
| `SessionIsItsOwn` | the session half of `SessionAnswersItsOwner` | `SessionInv`: the sieve operation of a user who waits is alone at the mutex; a session of another account has a task that drops it |
| `AnswersInTheirPlace` | the answer half | `AnswerInv`: only the remark on an upload is ever left unread, before a request whose answer carries no data, and behind it comes the answer. The property says nothing while a request is under way |
| `SessionAlwaysAnswers` | `SessionAnswersItsOwner` | both |
| `KeysAlwaysGoToWhatIsSeen` | `KeysGoToWhatIsSeen` | `LayersInv`: one overlay is open at most, and none while an operation runs whose result opens one. The property says nothing of results on their way |
| `SecretsStayWithAccounts` | `SecretsFollowAccounts` | `KeyedInv`, `OwnInv`, `CleanInv`: the same of the list that a command is about to write, and of a password that is stored before its account or outlives it for a step |
| `UpdatesReplaceWhatWasSeen` | `ReplacesOnlyWhatWasSeen` | `EtagsInv`: every etag on record, in the index or in a command, is of a version that was in the file, or that the server has replaced |
| `OnlyRemovalForgets` | `OnlyRemoveForgets` | the type of a row; statement by statement |
| `OnlyTheNamedAreTouched`, `GraphCreationsStand` | parts of `CommandsKeepToThePath` | `AimInv`: the mailbox a command works with is still what its path names, or somebody came between. `GraphInv`: on Graph the name that is sent is the path |
| `LoneImportsAdd` | `ImportsAddInOrder`, a part of `MailboxComesBack` | `AloneInv`: an import that began alone has the largest uids; one that begins later has larger ones |
| `MailboxAlwaysComesBack` | `MailboxComesBack` | with `FileInv`: the file, as far as it was written, is read as the rows it was made of. It relates what is written to what will be read |

What the arguments rest on, beyond one step at a time:

* **Time.** The generation counters of `SnapshotStore` say nothing of when a snapshot was
  taken; the invariants relate each to the server's version. They are about
  `Permanent` folders, which the server lists from the start and for ever, so that no
  reconciliation removes the row. The run `aba` shows that this restriction cannot be
  dropped: it is where counters begin anew.
* **Two writers of one UIDVALIDITY.** `SnapshotProofs!RowInductive` goes through every step
  that writes a folder's UIDVALIDITY: a snapshot, which writes its own and wipes what is of
  another, and an import, which writes 0 and wipes nothing. The copied rows stay of one
  UIDVALIDITY because 0 is none of a snapshot's: whatever an import left is wiped before
  anything is copied again; and `ImportsApart` shows that no step of an import changes the
  copied rows, the counters, or what is in flight.
* **A transaction as a loop.** `apply_snapshot` on an opaque listing goes through the
  messages one by one, and each may adopt, collapse, rekey or insert a row. The model
  has it as a recursive function over the listing, and `OpaqueProofs` shows by induction
  along it (`SoundTx`, `Stands`) what holds of the transaction so far: rows stay sound,
  those of the messages passed stand at their canonical uid, no row that carries an id
  loses it to another.
* **What SQLite issues again.** A rowid is the largest plus one. `FiniteFacts` shows that
  a finite set has a largest number; `MailProofs` and `BodyIndexProofs` need that the
  next id is none that is there, and can only exclude that it is one that was there.
* **The recursive queries.** The ancestors of a container are computed by a recursion with
  as many rounds as there are Message-IDs. `MailProofs!AboveFacts` shows that by then
  nothing new is found, by counting; so that they are the least set that has the
  container and, with a container, its parent. `LinkedForest` and `InsertedForest`, the
  two ways in which parents change, argue about sets only.
* **Order.** A list on the screen is a finite set put in order by name or by date.
  `FiniteFacts!Sortable` shows that there is such an order, by the rank of each member,
  and `Lists` that it has each member once; `Resolved` that the entry looked for is
  found where it is.
* **Along a conversation.** What a message says goes back to the message it answers, and
  an answer comes later. So a set of messages that has a message if it has the one
  answered has them all: this is how who is reached, and what References name, is carried
  through conversations of any length.
* **Keys.** Nothing is assumed of the table of bindings but what is in it; which handler
  a key leads to depends on the one overlay, prefix and mode, and `TuiOpsProofs` goes
  through the handlers.
* **Lines of a file.** `CommandsProofs` follows the writing and the reading of an mbox
  file piece by piece. A bare `From ` is never in what is written for a message, since
  every line of this kind is quoted; so the reading ends a message where the writing
  began the next one, quoting is undone, and the Status that is found is the one that was
  put there. For a file that was cut off, what has been read so far is the rows written
  whole, and perhaps one message more.
* **Recursion.** `FiniteFacts!Recursion` shows that a recursion over `0..n` has a solution,
  and `UpTo` is induction up to a number for a set: the library's theorems of this kind
  take an operator as a parameter, which no backend here can instantiate.

Only model-checked are

* all liveness (`EventuallyDelivered`, `EventuallyFetched`, `IndexCatchesUp`,
  `EventuallyShown`, `BusyEnds`, `EscapeLeadsOut`, `EventuallyInStep`): the prover has
  neither fairness nor ENABLED;
* of `CommandsKeepToThePath` two parts, `PathsNameOneMailbox` and, for JMAP accounts,
  `CreationsStand`: they are about the characters of paths and about a tree of mailboxes,
  and `FolderAdmin` computes both with folds;
* whatever the violated runs and configurations show.

## 5. What is not modelled

* Rendering, message checks and HTML: pure functions of one message, with unit tests.
* PGP's cryptography and key discovery, read receipts, unsubscribing: one call or one
  message each. What a PGP envelope does to a message's headers is in `Submission`.
* Protocols below the request: IMAP, SMTP and HTTP framing, TLS, EventSource records, the
  blobs of JMAP submissions, XML and vCard and iCalendar text. A request happens or
  fails, and its answer may be lost where the code would notice.
* OAuth's browser, callback server and token requests; autoconfiguration; themes.
* Drawing, except for the order of overlays.
* SQLite's "busy" errors are faults like any other; its own crash safety is assumed, and a
  statement or transaction happens whole or not at all.
* Errors that leave the event loop through `?` end the TUI (app:966 loses a draft that
  way). `TuiKeys` has that exit, `TuiOps` has not.
* A switch of accounts under the TUI's local loop (app:2143) and its watch (app:2178): both
  may stay with the account the TUI started with. `SyncEvents` has one account on the
  screen.
* Commands that only read, the texts of templates, the `xtask` stub.

## 6. The plan

What exists came in this order: the index under three processes, its generations and
their proof; the outbox; threading; bodies; events and the daemon; the TUI; then the
providers' indexes and links, submission, DAV, contacts, accounts, folders, scripts and
mbox files; then the proofs of section 4, component by component. What is left:

1. `FolderAdmin`: `PathsNameOneMailbox` and the creation of folders on JMAP accounts as
   theorems, by induction along the tree and along the characters of a path.
2. In the models: the local loop and the watch after a switch of accounts; the exit of
   the TUI in `TuiOps`; Graph's listings with a property that says how much may be missed.
