--------------------------- MODULE SnapshotStore ---------------------------
(***************************************************************************)
(* How the local index follows the mail server (IMAP transport).           *)
(*                                                                         *)
(* Three kinds of process copy a server folder into the SQLite index:      *)
(* the sync daemon (sync_once), the TUI's manual sync (do_manual_sync) and *)
(* `inbx fetch` (cmd_fetch).  They run in different OS processes, share    *)
(* nothing but the database, and coordinate through two counters in the    *)
(* folders row: a generation is reserved before the network fetch, and the *)
(* snapshot may be applied only while it is still the latest reservation.  *)
(* Mutators are user commands: flag, move and expunge change the server    *)
(* first and echo the change into the index afterwards; import writes rows *)
(* of its own into a folder of the index, which the server may also have.  *)
(*                                                                         *)
(* One action is one SQLite transaction, one autocommit statement or one   *)
(* request to the server; everything may interleave between two of them.   *)
(***************************************************************************)
EXTENDS Naturals

CONSTANTS
    Folders,      \* folder names
    Permanent,    \* the folders the server lists from the start and for ever
    Inbox,        \* the folder every syncer defaults to
    Uids,         \* UIDs a server may assign
    Flags,        \* flag tokens; contains Deleted
    Deleted,      \* the \Deleted flag
    Daemons,      \* sync_once processes
    Tuis,         \* do_manual_sync tasks
    Clis,         \* `inbx fetch` processes
    Mutators,     \* user commands
    None,         \* no folder and no syncer (refinement only)
    MaxVer,       \* bound: changes the server undergoes
    MaxReserves   \* bound: generations one syncer reserves

Syncers == Daemons \cup Tuis \cup Clis

ASSUME PermanentAssumption == Permanent \subseteq Folders /\ Inbox \in Permanent
ASSUME UidsAssumption == Uids \subseteq Nat
ASSUME KindsAssumption ==
    Daemons \cap Tuis = {} /\ Daemons \cap Clis = {} /\ Tuis \cap Clis = {}
ASSUME NoneAssumption == None \notin Folders \cup Syncers
ASSUME DeletedAssumption == Deleted \in Flags
ASSUME BoundsAssumption == MaxVer \in Nat /\ MaxReserves \in Nat

VARIABLES
    \* The server.
    exists,      \* folders that exist on the server
    suv,         \* suv[f]: UIDVALIDITY of folder f
    mbox,        \* mbox[f]: its messages, as [uid, flags] records
    unext,       \* unext[f]: its UIDNEXT
    ver,         \* ghost: number of changes the server has undergone
    \* The SQLite database.
    row,         \* row[f]: the folders row of f
    rows,        \* rows[f]: the messages rows of f
    \* The syncers.
    pc, fold, gen, listing, snap,
    \* The mutators.
    mut,
    \* Ghosts that relate reservations and snapshots to server versions.
    issued,      \* issued[s]: number of reservations s has made
    latest,      \* latest[f]: the last reservation made for folder name f
    mirrored,    \* mirrored[f]: server version of the last applied snapshot
    faithful,    \* faithful[f]: that snapshot was complete and no echo followed
    announced    \* announced[f]: the messages reported as new so far, but for those
                 \* whose row a user command or a wipe has deleted since

server  == <<exists, suv, mbox, unext, ver>>
store   == <<row, rows>>
process == <<pc, fold, gen, listing, snap>>
ghosts  == <<issued, latest, mirrored, faithful, announced>>
vars    == <<server, store, process, mut, ghosts>>

----------------------------------------------------------------------------
(* Values *)

Tokens == Syncers \X Nat
NoToken == <<>>

\* An absent folders row.  Its uidvalidity is NULL unless it is known; 0 is what
\* `inbx import` stores there, and in its rows.  No server's UIDVALIDITY is 0.
NoRow == [present |-> FALSE, known |-> FALSE, uv |-> 0, snap |-> 0, reserved |-> 0]

FolderRows == [present : BOOLEAN, known : BOOLEAN, uv : Nat, snap : Nat, reserved : Nat]

Messages == [uid : Uids, flags : SUBSET Flags]
StoredRows == [uid : Uids, uv : Nat, flags : SUBSET Flags]
Snapshots == [uv : Nat, msgs : SUBSET Messages, complete : BOOLEAN, at : Nat]
NoSnapshot == [uv |-> 0, msgs |-> {}, complete |-> FALSE, at |-> 0]

UidsOf(ms) == {m.uid : m \in ms}
Keys(rs) == {<<r.uv, r.uid>> : r \in rs}

\* The rows of f that were copied from the server, and those that were imported.
Copied(f) == {r \in rows[f] : r.uv > 0}
Imported(f) == {r \in rows[f] : r.uv = 0}

Commands == {"mark", "move", "expunge", "import"}
MutatorStates ==
    [at : {"idle", "server", "echo", "write", "number", "insert"}, op : Commands,
     folder : Folders, uids : SUBSET Uids, todo : SUBSET Uids, flag : Flags,
     add : BOOLEAN, read : SUBSET StoredRows, next : Nat]

IdleMutator ==
    [at |-> "idle", op |-> "mark", folder |-> Inbox, uids |-> {}, todo |-> {},
     flag |-> Deleted, add |-> TRUE, read |-> {}, next |-> 0]

Init ==
    /\ exists \in {fs \in SUBSET Folders : Permanent \subseteq fs}
    /\ suv = [f \in Folders |-> 1]
    /\ mbox = [f \in Folders |-> {}]
    /\ unext = [f \in Folders |-> 1]
    /\ ver = 0
    /\ row = [f \in Folders |-> NoRow]
    /\ rows = [f \in Folders |-> {}]
    /\ pc = [s \in Syncers |-> "idle"]
    /\ fold = [s \in Syncers |-> Inbox]
    /\ gen = [s \in Syncers |-> 0]
    /\ listing = [s \in Syncers |-> {}]
    /\ snap = [s \in Syncers |-> NoSnapshot]
    /\ mut = [m \in Mutators |-> IdleMutator]
    /\ issued = [s \in Syncers |-> 0]
    /\ latest = [f \in Folders |-> NoToken]
    /\ mirrored = [f \in Folders |-> 0]
    /\ faithful = [f \in Folders |-> FALSE]
    /\ announced = [f \in Folders |-> {}]

----------------------------------------------------------------------------
(* The server, changed by other clients and by delivery. *)

Changed == ver < MaxVer /\ ver' = ver + 1

Deliver(f) ==
    /\ Changed
    /\ f \in exists
    /\ unext[f] \in Uids
    /\ mbox' = [mbox EXCEPT ![f] = @ \cup {[uid |-> unext[f], flags |-> {}]}]
    /\ unext' = [unext EXCEPT ![f] = @ + 1]
    /\ UNCHANGED <<exists, suv, store, process, mut, ghosts>>

RemoteExpunge(f) ==
    /\ Changed
    /\ \E m \in mbox[f] : mbox' = [mbox EXCEPT ![f] = @ \ {m}]
    /\ UNCHANGED <<exists, suv, unext, store, process, mut, ghosts>>

\* A mailbox restored or migrated: UIDs no longer name the same messages.
ResetUidvalidity(f) ==
    /\ Changed
    /\ f \in exists
    /\ suv' = [suv EXCEPT ![f] = @ + 1]
    /\ \E kept \in SUBSET mbox[f] : mbox' = [mbox EXCEPT ![f] = kept]
    /\ UNCHANGED <<exists, unext, store, process, mut, ghosts>>

RemoveFolder(f) ==
    /\ Changed
    /\ f \in exists \ Permanent
    /\ exists' = exists \ {f}
    /\ mbox' = [mbox EXCEPT ![f] = {}]
    /\ UNCHANGED <<suv, unext, store, process, mut, ghosts>>

CreateFolder(f) ==
    /\ Changed
    /\ f \notin exists
    /\ exists' = exists \cup {f}
    /\ suv' = [suv EXCEPT ![f] = @ + 1]
    /\ unext' = [unext EXCEPT ![f] = 1]
    /\ UNCHANGED <<mbox, store, process, mut, ghosts>>

ServerStep ==
    \E f \in Folders :
        \/ Deliver(f)
        \/ RemoteExpunge(f)
        \/ ResetUidvalidity(f)
        \/ RemoveFolder(f)
        \/ CreateFolder(f)

----------------------------------------------------------------------------
(* The syncers. *)

\* sync_once and cmd_fetch list the folders first; do_manual_sync does not.
Start(s, f) ==
    /\ pc[s] = "idle"
    /\ pc' = [pc EXCEPT ![s] = IF s \in Tuis THEN "reserve" ELSE "list"]
    /\ fold' = [fold EXCEPT ![s] = f]
    /\ UNCHANGED <<server, store, gen, listing, snap, mut, ghosts>>

ListFolders(s) ==
    /\ pc[s] = "list"
    /\ listing' = [listing EXCEPT ![s] = exists]
    /\ pc' = [pc EXCEPT ![s] = "record"]
    /\ UNCHANGED <<server, store, fold, gen, snap, mut, ghosts>>

\* Mutant: folder rows are dropped, their message rows are not.
ReconcileLeavingMessages(s) ==
    /\ s \in Daemons /\ pc[s] = "record"
    /\ row' = [f \in Folders |->
                 IF f \in listing[s] THEN [row[f] EXCEPT !.present = TRUE] ELSE NoRow]
    /\ pc' = [pc EXCEPT ![s] = "reserve"]
    /\ listing' = [listing EXCEPT ![s] = {}]
    /\ UNCHANGED <<server, rows, fold, gen, snap, mut, ghosts>>

\* The daemon: one transaction that upserts every listed folder and deletes
\* every other folders row together with its messages.
ReconcileFolders(s) ==
    /\ s \in Daemons /\ pc[s] = "record"
    /\ row' = [f \in Folders |->
                 IF f \in listing[s] THEN [row[f] EXCEPT !.present = TRUE] ELSE NoRow]
    /\ rows' = [f \in Folders |-> IF f \in listing[s] THEN rows[f] ELSE {}]
    /\ faithful' = [f \in Folders |-> f \in listing[s] /\ faithful[f]]
    /\ pc' = [pc EXCEPT ![s] = "reserve"]
    /\ listing' = [listing EXCEPT ![s] = {}]
    /\ UNCHANGED <<server, fold, gen, snap, mut, issued, latest, mirrored, announced>>

\* `inbx fetch`: one autocommit upsert per listed folder, and no removal.
UpsertFolder(s) ==
    /\ s \in Clis /\ pc[s] = "record"
    /\ IF listing[s] = {}
       THEN /\ pc' = [pc EXCEPT ![s] = "reserve"]
            /\ UNCHANGED <<row, listing>>
       ELSE \E f \in listing[s] :
            /\ row' = [row EXCEPT ![f].present = TRUE]
            /\ listing' = [listing EXCEPT ![s] = @ \ {f}]
            /\ UNCHANGED pc
    /\ UNCHANGED <<server, rows, fold, gen, snap, mut, ghosts>>

\* Mutant: a reservation that is still open is shared.
ReserveShared(s) ==
    /\ pc[s] = "reserve"
    /\ issued[s] < MaxReserves
    /\ LET f == fold[s]
           g == IF row[f].reserved > row[f].snap THEN row[f].reserved ELSE row[f].reserved + 1
       IN
       /\ row' = [row EXCEPT ![f].present = TRUE, ![f].reserved = g]
       /\ gen' = [gen EXCEPT ![s] = g]
       /\ latest' = [latest EXCEPT ![f] = <<s, issued[s] + 1>>]
    /\ issued' = [issued EXCEPT ![s] = @ + 1]
    /\ pc' = [pc EXCEPT ![s] = "fetch"]
    /\ UNCHANGED <<server, rows, fold, listing, snap, mut, mirrored, faithful, announced>>

Reserve(s) ==
    /\ pc[s] = "reserve"
    /\ issued[s] < MaxReserves
    /\ LET f == fold[s] IN
       /\ row' = [row EXCEPT ![f].present = TRUE, ![f].reserved = @ + 1]
       /\ gen' = [gen EXCEPT ![s] = row[f].reserved + 1]
       /\ latest' = [latest EXCEPT ![f] = <<s, issued[s] + 1>>]
    /\ issued' = [issued EXCEPT ![s] = @ + 1]
    /\ pc' = [pc EXCEPT ![s] = "fetch"]
    /\ UNCHANGED <<server, rows, fold, listing, snap, mut, mirrored, faithful, announced>>

FetchAs(s, msgs, complete) ==
    /\ pc[s] = "fetch"
    /\ fold[s] \in exists
    /\ snap' = [snap EXCEPT ![s] =
            [uv |-> suv[fold[s]], msgs |-> msgs, complete |-> complete, at |-> ver]]
    /\ pc' = [pc EXCEPT ![s] = "apply"]
    /\ UNCHANGED <<server, store, fold, gen, listing, mut, ghosts>>

FetchHeaders(s) == FetchAs(s, mbox[fold[s]], TRUE)

\* Mutant: a date search taken for the whole folder.
FetchSinceAsComplete(s) ==
    /\ s \in Clis
    /\ \E msgs \in SUBSET mbox[fold[s]] : FetchAs(s, msgs, TRUE)

\* `inbx fetch --since`: only the messages a date search selects.
FetchSince(s) ==
    /\ s \in Clis
    /\ \E msgs \in SUBSET mbox[fold[s]] : FetchAs(s, msgs, FALSE)

----------------------------------------------------------------------------
(* Store::apply_snapshot, one transaction. *)

Token(s) == <<s, issued[s]>>

\* Mutant: only applied generations supersede, not reserved ones.
SupersededByApplied(s) == gen[s] <= row[fold[s]].snap

Superseded(s) ==
    \/ gen[s] < row[fold[s]].reserved
    \/ gen[s] <= row[fold[s]].snap

Eligible(s) ==
    /\ row[fold[s]].present
    /\ gen[s] > 0
    /\ ~Superseded(s)
    /\ gen[s] <= row[fold[s]].reserved

\* Message rows that survive a change of UIDVALIDITY: none, imported ones included.
\* The 0 that an import has stored differs from the server's as well.
Surviving(f, uv) == IF row[f].known /\ row[f].uv # uv THEN {} ELSE rows[f]

Upserted(rs, sn) ==
    {r \in rs : r.uv # sn.uv \/ r.uid \notin UidsOf(sn.msgs)}
        \cup {[uid |-> m.uid, uv |-> sn.uv, flags |-> m.flags] : m \in sn.msgs}

\* Only a complete snapshot removes rows.
Pruned(rs, sn) ==
    IF sn.complete
    THEN {r \in rs : r.uv = sn.uv => r.uid \in UidsOf(sn.msgs)}
    ELSE rs

\* Mutant: >= for >.
NewRowsFromMax(f, sn) ==
    {m \in sn.msgs : \A r \in rows[f] : r.uv = sn.uv => r.uid <= m.uid}

\* Rows above the highest UID stored before, under the snapshot's UIDVALIDITY.
NewRows(f, sn) ==
    {m \in sn.msgs : \A r \in rows[f] : r.uv = sn.uv => r.uid < m.uid}

Release(s) ==
    /\ pc' = [pc EXCEPT ![s] = "idle"]
    /\ fold' = [fold EXCEPT ![s] = Inbox]
    /\ gen' = [gen EXCEPT ![s] = 0]
    /\ listing' = [listing EXCEPT ![s] = {}]
    /\ snap' = [snap EXCEPT ![s] = NoSnapshot]

ApplySnapshot(s) ==
    /\ pc[s] = "apply"
    /\ Eligible(s)
    /\ LET f == fold[s]
           sn == snap[s]
       IN  /\ rows' = [rows EXCEPT ![f] = Pruned(Upserted(Surviving(f, sn.uv), sn), sn)]
           /\ row' = [row EXCEPT ![f].known = TRUE, ![f].uv = sn.uv, ![f].snap = gen[s]]
           /\ mirrored' = [mirrored EXCEPT ![f] = sn.at]
           /\ faithful' = [faithful EXCEPT ![f] = sn.complete]
           /\ announced' = [announced EXCEPT ![f] =
                  (@ \ (Keys(rows[f] \ Surviving(f, sn.uv)) \ Keys(rows'[f])))
                      \cup {<<sn.uv, m.uid>> : m \in NewRows(f, sn)}]
    /\ Release(s)
    /\ UNCHANGED <<server, mut, issued, latest>>

\* Superseded (applied: false) or not reserved in this row (an error): the
\* transaction rolls back and the syncer gives up.
RejectSnapshot(s) ==
    /\ pc[s] = "apply"
    /\ ~Eligible(s)
    /\ Release(s)
    /\ UNCHANGED <<server, store, mut, ghosts>>

\* A network or database error, or the process dies.
Fail(s) ==
    /\ pc[s] # "idle"
    /\ Release(s)
    /\ UNCHANGED <<server, store, mut, ghosts>>

SyncerStep ==
    \E s \in Syncers :
        \/ \E f \in Folders : Start(s, f)
        \/ ListFolders(s)
        \/ ReconcileFolders(s)
        \/ UpsertFolder(s)
        \/ Reserve(s)
        \/ FetchHeaders(s)
        \/ FetchSince(s)
        \/ ApplySnapshot(s)
        \/ RejectSnapshot(s)
        \/ Fail(s)

----------------------------------------------------------------------------
(* User commands that change the server first, then echo it in the index. *)

Begin(m, op, f, us, flag, add) ==
    /\ mut[m].at = "idle"
    /\ us # {}
    /\ mut' = [mut EXCEPT ![m] =
            [at |-> "server", op |-> op, folder |-> f, uids |-> us, todo |-> us,
             flag |-> flag, add |-> add, read |-> {}, next |-> 0]]
    /\ UNCHANGED <<server, store, process, ghosts>>

\* A user names UIDs the index shows; expunge names only a folder.
BeginCommand(m) ==
    \E f \in Folders :
        \/ \E us \in SUBSET UidsOf(rows[f]), flag \in Flags, add \in BOOLEAN :
                Begin(m, "mark", f, us, flag, add)
        \/ \E us \in SUBSET UidsOf(rows[f]) : Begin(m, "move", f, us, Deleted, TRUE)
        \/ Begin(m, "expunge", f, Uids, Deleted, TRUE)

WithFlag(r, flag, add) ==
    [r EXCEPT !.flags = IF add THEN @ \cup {flag} ELSE @ \ {flag}]

\* The mailbox after the server carried out command c for UID u.
ServerEffect(c, u) ==
    CASE c.op = "mark" ->
            {IF x.uid = u THEN WithFlag(x, c.flag, c.add) ELSE x : x \in mbox[c.folder]}
      [] c.op = "move" -> {x \in mbox[c.folder] : x.uid # u}
      [] OTHER -> {x \in mbox[c.folder] : Deleted \notin x.flags}

\* One request per UID for mark and move, one request for expunge.
ServerRequest(m) ==
    /\ mut[m].at = "server"
    /\ mut[m].folder \in exists
    /\ \E u \in mut[m].todo :
        /\ mbox' = [mbox EXCEPT ![mut[m].folder] = ServerEffect(mut[m], u)]
        /\ IF mbox' = mbox THEN UNCHANGED ver ELSE Changed
        /\ LET left == IF mut[m].op = "expunge" THEN {} ELSE mut[m].todo \ {u}
           IN  mut' = [mut EXCEPT ![m].todo = left,
                                  ![m].at = IF left = {} THEN "echo" ELSE "server"]
    /\ UNCHANGED <<exists, suv, unext, store, process, ghosts>>

\* delete_messages and purge_deleted: one statement.
EchoDelete(m) ==
    LET c == mut[m] IN
    /\ c.at = "echo" /\ c.op \in {"move", "expunge"}
    /\ rows' = [rows EXCEPT ![c.folder] =
            IF c.op = "move" THEN {r \in @ : r.uid \notin c.uids}
                             ELSE {r \in @ : Deleted \notin r.flags}]
    /\ faithful' = [faithful EXCEPT ![c.folder] = @ /\ rows' = rows]
    /\ announced' = [announced EXCEPT ![c.folder] =
            @ \ Keys(rows[c.folder] \ rows'[c.folder])]
    /\ mut' = [mut EXCEPT ![m] = IdleMutator]
    /\ UNCHANGED <<server, row, process, issued, latest, mirrored>>

\* mutate_flags: a SELECT, then one UPDATE per selected row, with no
\* transaction around them.
EchoRead(m) ==
    LET c == mut[m] IN
    /\ c.at = "echo" /\ c.op = "mark"
    /\ mut' = [mut EXCEPT ![m].at = "write",
                          ![m].read = {r \in rows[c.folder] : r.uid \in c.uids}]
    /\ UNCHANGED <<server, store, process, ghosts>>

EchoWrite(m) ==
    LET c == mut[m] IN
    /\ c.at = "write"
    /\ IF c.read = {}
       THEN /\ mut' = [mut EXCEPT ![m] = IdleMutator]
            /\ UNCHANGED <<rows, faithful>>
       ELSE \E old \in c.read :
            /\ rows' = [rows EXCEPT ![c.folder] =
                   {IF r.uid = old.uid /\ r.uv = old.uv
                    THEN WithFlag(old, c.flag, c.add) ELSE r : r \in @}]
            /\ faithful' = [faithful EXCEPT ![c.folder] = @ /\ rows' = rows]
            /\ mut' = [mut EXCEPT ![m].read = @ \ {old}]
    /\ UNCHANGED <<server, row, process, issued, latest, mirrored, announced>>

\* The server refuses a request, the connection drops, or the process dies:
\* what was done stays done and the rest is not attempted.
Interrupt(m) ==
    /\ mut[m].at # "idle"
    /\ mut' = [mut EXCEPT ![m] = IdleMutator]
    /\ UNCHANGED <<server, store, process, ghosts>>

MutatorStep ==
    \E m \in Mutators :
        \/ BeginCommand(m)
        \/ ServerRequest(m)
        \/ EchoDelete(m)
        \/ EchoRead(m)
        \/ EchoWrite(m)
        \/ Interrupt(m)

----------------------------------------------------------------------------
(* `inbx import`: messages of a file, into a folder of the index.  No two of *)
(* its statements share a transaction.                                       *)

\* upsert_folder with uidvalidity 0, which replaces the server's.
ImportFolder(m) ==
    /\ mut[m].at = "idle"
    /\ \E f \in Folders :
        /\ row' = [row EXCEPT ![f].present = TRUE, ![f].known = TRUE, ![f].uv = 0]
        /\ mut' = [mut EXCEPT ![m] =
                [IdleMutator EXCEPT !.at = "number", !.op = "import", !.folder = f]]
    /\ UNCHANGED <<server, rows, process, ghosts>>

\* UIDs start after the highest of the imported rows, or at 1.
ImportNumber(m) ==
    LET used == UidsOf(Imported(mut[m].folder)) IN
    /\ mut[m].at = "number"
    /\ \E n \in {u + 1 : u \in used \cup {0}} :
        /\ \A u \in used : u < n
        /\ mut' = [mut EXCEPT ![m].at = "insert", ![m].next = n]
    /\ UNCHANGED <<server, store, process, ghosts>>

\* The next message, with the flags its Status headers give it; a row that another
\* import has inserted under the same UID meanwhile is overwritten.
ImportMessage(m) ==
    LET c == mut[m] IN
    /\ c.at = "insert" /\ c.next \in Uids
    /\ \E flags \in SUBSET Flags :
        rows' = [rows EXCEPT ![c.folder] =
            {r \in @ : r.uv # 0 \/ r.uid # c.next}
                \cup {[uid |-> c.next, uv |-> 0, flags |-> flags]}]
    /\ mut' = [mut EXCEPT ![m].next = @ + 1]
    /\ UNCHANGED <<server, row, process, ghosts>>

\* It ends, or dies, by Interrupt.
ImportStep == \E m \in Mutators : ImportFolder(m) \/ ImportNumber(m) \/ ImportMessage(m)

Next == ServerStep \/ SyncerStep \/ MutatorStep \/ ImportStep

Spec == Init /\ [][Next]_vars

----------------------------------------------------------------------------
(* Properties *)

TypeOK ==
    /\ exists \subseteq Folders /\ Permanent \subseteq exists
    /\ suv \in [Folders -> Nat \ {0}]
    /\ mbox \in [Folders -> SUBSET Messages]
    /\ unext \in [Folders -> Nat]
    /\ ver \in Nat
    /\ row \in [Folders -> FolderRows]
    /\ rows \in [Folders -> SUBSET StoredRows]
    /\ pc \in [Syncers -> {"idle", "list", "record", "reserve", "fetch", "apply"}]
    /\ fold \in [Syncers -> Folders]
    /\ gen \in [Syncers -> Nat]
    /\ listing \in [Syncers -> SUBSET Folders]
    /\ snap \in [Syncers -> Snapshots]
    /\ mut \in [Mutators -> MutatorStates]
    /\ issued \in [Syncers -> Nat]
    /\ latest \in [Folders -> Tokens \cup {NoToken}]
    /\ mirrored \in [Folders -> Nat]
    /\ faithful \in [Folders -> BOOLEAN]
    /\ announced \in [Folders -> SUBSET (Nat \X Uids)]

\* The rows copied from the server belong to their folder: they need a folders row
\* (there is no foreign key), carry one UIDVALIDITY, at most one row per UID, and
\* either the folder is of that UIDVALIDITY or an import has overwritten it with 0,
\* upon which the next snapshot wipes them: reconcile_folders deletes rows and folder
\* in one transaction, and apply_snapshot never mixes what two UIDVALIDITYs named,
\* although imports change the folder's between any two of its statements.
RowsBelongToFolder ==
    \A f \in Folders :
        /\ \A r, q \in Copied(f) : r.uv = q.uv /\ (r.uid = q.uid => r = q)
        /\ \A r \in Copied(f) : row[f].present /\ row[f].known /\ row[f].uv \in {0, r.uv}

\* A complete snapshot is authoritative: as long as no echo of a user command
\* disturbed it and the server has not changed since it was fetched, the index
\* holds exactly the server's messages with the server's flags, whatever older,
\* superseded, incomplete or foreign-UIDVALIDITY snapshots ran before, and beside
\* them only what was imported.
CompleteSnapshotIsAuthoritative ==
    \A f \in Folders :
        faithful[f] /\ mirrored[f] = ver =>
            Copied(f) = {[uid |-> m.uid, uv |-> suv[f], flags |-> m.flags] : m \in mbox[f]}

\* A fetched snapshot of folder f applies if and only if no reservation was
\* made for f after its own: older snapshots are superseded, and a failed or
\* abandoned later fetch is the only thing that can waste one.
LatestReservationWinsFor(f) ==
    \A s \in Syncers :
        pc[s] = "apply" /\ fold[s] = f => (Eligible(s) <=> latest[f] = Token(s))

\* It holds of every folder the server never stops listing; the generations of
\* such a folder are never issued twice because its row is never deleted.
LatestReservationWins == \A f \in Permanent : LatestReservationWinsFor(f)

\* As reserve_snapshot_generation's comment states it, for every folder: a
\* later reservation makes an older fetched snapshot ineligible to apply.
LaterReservationSupersedes ==
    \A s \in Syncers :
        pc[s] = "apply" /\ latest[fold[s]] # Token(s) => ~Eligible(s)

\* The index of a permanent folder never goes back to an earlier state of the
\* server: snapshots are applied in the order in which they were fetched,
\* although three kinds of process fetch and apply concurrently.
NeverGoesBack ==
    [][\A f \in Permanent : mirrored'[f] >= mirrored[f]]_vars

\* No message of a permanent folder is reported as new twice, unless a user command
\* has deleted its row in between, or a date search has replaced the rows that an
\* import made the index wipe: although what is new is read from the rows, which an
\* expunge on the server, a date search and a change of UIDVALIDITY thin out.
AnnouncedOnce ==
    \A s \in Syncers :
        pc[s] = "apply" /\ Eligible(s) /\ fold[s] \in Permanent =>
            \A m \in NewRows(fold[s], snap[s]) :
                <<snap[s].uv, m.uid>> \notin announced[fold[s]]

\* As the command says of itself, the folder of an import is "created in the local
\* index but not on the server": what it holds is not the syncers' to remove.
ImportsOutliveSyncs ==
    [][\A s \in Syncers : pc'[s] # pc[s] => \A f \in Folders : Imported(f) \subseteq rows'[f]]_vars

\* s has reserved a generation of a permanent folder and not finished with it.
Working(s) == pc[s] \in {"fetch", "apply"} /\ fold[s] \in Permanent

\* The inductive strengthening of LatestReservationWins: generations in flight
\* are distinct, none exceeds the counter, and the one that equals it belongs
\* to the last reserver and has not been applied.
ReservationInv ==
    /\ \A s \in Syncers : Working(s) =>
          /\ row[fold[s]].present
          /\ gen[s] > 0
          /\ gen[s] <= row[fold[s]].reserved
          /\ gen[s] = row[fold[s]].reserved <=> latest[fold[s]] = Token(s)
          /\ gen[s] = row[fold[s]].reserved => row[fold[s]].snap < gen[s]
    /\ \A s, t \in Syncers :
          Working(s) /\ Working(t) /\ fold[s] = fold[t] /\ gen[s] = gen[t] => s = t
    /\ \A f \in Permanent : row[f].snap <= row[f].reserved
    /\ \A s \in Daemons : pc[s] = "record" => Permanent \subseteq listing[s]

\* The inductive strengthening of NeverGoesBack: a snapshot that may still be
\* applied was fetched after the last one that was.
MirrorInv ==
    /\ \A f \in Folders : mirrored[f] <= ver
    /\ \A s \in Syncers : pc[s] = "apply" =>
          /\ snap[s].at <= ver
          /\ fold[s] \in Permanent /\ gen[s] = row[fold[s]].reserved =>
                mirrored[fold[s]] <= snap[s].at

\* A UID names one message of a folder for as long as the folder lasts.
MailboxInv ==
    \A f \in Folders :
        /\ f \notin exists => mbox[f] = {}
        /\ \A m \in mbox[f] : m.uid < unext[f]
        /\ \A m, n \in mbox[f] : m.uid = n.uid => m = n

\* So it does in a snapshot, whose UIDVALIDITY is never the 0 of an import.
\* A syncer that has fetched nothing carries no snapshot.
SnapshotInv ==
    \A s \in Syncers :
        /\ pc[s] = "apply" => snap[s].uv > 0
        /\ pc[s] # "apply" => snap[s] = NoSnapshot
        /\ \A m, n \in snap[s].msgs : m.uid = n.uid => m = n

\* The inductive strengthening of CompleteSnapshotIsAuthoritative: a complete
\* snapshot fetched at the server's present version is the mailbox.
AuthorityInv ==
    /\ CompleteSnapshotIsAuthoritative
    /\ \A s \in Syncers :
          pc[s] = "apply" /\ snap[s].complete /\ snap[s].at = ver =>
              snap[s].msgs = mbox[fold[s]] /\ snap[s].uv = suv[fold[s]]

\* The inductive strengthening of AnnouncedOnce.  A message that was reported under
\* the server's UIDVALIDITY has its row, or is gone from the mailbox; UIDs are not
\* used again, so it never comes back.  A snapshot that may still be applied is of no
\* earlier UIDVALIDITY than what was reported, and, if complete, lacks a message only
\* if the mailbox does.
Current(s, f) == pc[s] = "apply" /\ fold[s] = f /\ gen[s] = row[f].reserved

Recorded(a, f) == a \in Keys(rows[f])

AnnounceFor(f) ==
    /\ \A a \in announced[f] :
          /\ a[1] <= suv[f] /\ a[2] < unext[f]
          /\ a[1] = suv[f] => Recorded(a, f) \/ a[2] \notin UidsOf(mbox[f])
    /\ \A s \in Syncers : Current(s, f) =>
          /\ snap[s].uv <= suv[f]
          /\ \A m \in snap[s].msgs : m.uid < unext[f]
          /\ \A a \in announced[f] :
                /\ a[1] <= snap[s].uv
                /\ a[1] = snap[s].uv => Recorded(a, f) \/ a[2] \notin UidsOf(snap[s].msgs)
                /\ snap[s].complete /\ a[2] \notin UidsOf(snap[s].msgs)
                      => a[2] \notin UidsOf(mbox[f])

AnnounceInv == \A f \in Permanent : AnnounceFor(f)

----------------------------------------------------------------------------
(* Refinement: the generation counters implement LastReservation on the    *)
(* permanent folders.                                                      *)

\* The syncer whose generation would still be accepted for f.
Holder(f) ==
    IF \E s \in Syncers : Working(s) /\ fold[s] = f /\ Eligible(s)
    THEN CHOOSE s \in Syncers : Working(s) /\ fold[s] = f /\ Eligible(s)
    ELSE None

Abstract == INSTANCE LastReservation WITH
    Folders <- Permanent,
    Workers <- Syncers,
    None <- None,
    now <- ver,
    work <- [s \in Syncers |-> IF Working(s) THEN fold[s] ELSE None],
    looked <- [s \in Syncers |-> Working(s) /\ pc[s] = "apply"],
    seen <- [s \in Syncers |-> IF Working(s) THEN snap[s].at ELSE 0],
    holder <- [f \in Permanent |-> Holder(f)],
    view <- [f \in Permanent |-> mirrored[f]]

\* reserve_snapshot_generation and the generation checks of apply_snapshot
\* implement a revocable right to publish: every step of the detailed model is
\* a step of LastReservation or leaves it unchanged.
ImplementsLastReservation == Abstract!Spec

============================================================================
