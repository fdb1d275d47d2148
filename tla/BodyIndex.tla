------------------------------- MODULE BodyIndex -------------------------------
(***************************************************************************)
(* Message bodies and the full-text index of one IMAP folder.              *)
(*                                                                         *)
(* A header snapshot creates and deletes messages rows; later, bodies are  *)
(* downloaded by UID, written to the Maildir, indexed for search and only  *)
(* then recorded in the row.  The search index is keyed by the rowid of    *)
(* the messages row, and a trigger deletes the entry of a deleted row.     *)
(* Batchers (sync_once, cmd_fetch) take a snapshot and then download what  *)
(* is missing; viewers (do_fetch_body) download the message on screen.     *)
(* Indexing is three statements without a transaction.                     *)
(*                                                                         *)
(* How snapshots are reserved and superseded is SnapshotStore's subject;   *)
(* here they apply in the order in which they were taken.                  *)
(***************************************************************************)
EXTENDS Naturals, FiniteSets

CONSTANTS
    Uids,         \* UIDs the server may assign
    Unparsable,   \* messages whose bytes mail_parser rejects
    Batchers,     \* sync_once and cmd_fetch processes
    WithBodies,   \* batchers that run with fetch_bodies
    Viewers,      \* do_fetch_body tasks
    Users,        \* user commands that delete rows
    Casts,        \* sets of workers that may be there together
    MaxChanges,   \* bound: changes of the server
    MaxDrops,     \* bound: rows a user command deletes
    MaxFaults     \* bound: crashes and database or network errors

Workers == Batchers \cup Viewers \cup Users

ASSUME UidsAssumption == Uids \subseteq Nat \ {0} /\ Unparsable \subseteq Uids
ASSUME WithBodiesAssumption == WithBodies \subseteq Batchers
ASSUME CastsAssumption == Casts \subseteq SUBSET Workers
ASSUME WorkersAssumption ==
    /\ IsFiniteSet(Workers)
    /\ Batchers \cap Viewers = {} /\ Batchers \cap Users = {} /\ Viewers \cap Users = {}
ASSUME BoundsAssumption == MaxChanges \in Nat /\ MaxDrops \in Nat /\ MaxFaults \in Nat

VARIABLES
    suv, mbox,    \* the server: UIDVALIDITY and the UIDs in the folder
    rows,         \* messages rows
    fts,          \* messages_fts entries
    job,          \* job[w]: what worker w is doing
    latest,       \* the batcher that took the last snapshot
    changes, drops, faults   \* ghosts: counters for the bounds

bounds == <<changes, drops, faults>>
vars == <<suv, mbox, rows, fts, job, latest, bounds>>

----------------------------------------------------------------------------
(* Values.  The text of a message is named by its UID and UIDVALIDITY. *)

Texts == Uids \X (Nat \ {0})
NoText == <<>>

Rows == [id : Nat \ {0}, uid : Uids, uv : Nat \ {0}, body : Texts \cup {NoText}]
Entries == [id : Nat \ {0}, text : Texts]
Bodies == [uid : Uids, text : Texts]
NoBody == [uid |-> 0, text |-> NoText]

IdsOf(rs) == {r.id : r \in rs}

RowOf(uid, uv) == {r \in rows : r.uid = uid /\ r.uv = uv}

Jobs ==
    {j \in [at : {"away", "idle", "apply", "list", "download", "body", "delete", "insert", "path"},
            uv : Nat, uids : SUBSET Uids, got : SUBSET Bodies, cur : Bodies \cup {NoBody}, id : Nat] :
        /\ j.at = "apply" => j.uv # 0
        /\ j.at \in {"delete", "insert", "path"} => j.cur \in Bodies
        /\ j.at \in {"delete", "insert"} => j.id # 0}

NoJob == [at |-> "idle", uv |-> 0, uids |-> {}, got |-> {}, cur |-> NoBody, id |-> 0]

\* A worker that takes no part in a behaviour.
Away == [NoJob EXCEPT !.at = "away"]
Present == {w \in Workers : job[w].at # "away"}

----------------------------------------------------------------------------
(* The server. *)

Changes == changes < MaxChanges /\ changes' = changes + 1

Deliver ==
    /\ Changes
    /\ \E u \in Uids \ mbox : (\A v \in mbox : v < u) /\ mbox' = mbox \cup {u}
    /\ UNCHANGED <<suv, rows, fts, job, latest, drops, faults>>

Remove ==
    /\ Changes
    /\ \E u \in mbox : mbox' = mbox \ {u}
    /\ UNCHANGED <<suv, rows, fts, job, latest, drops, faults>>

ResetUidvalidity ==
    /\ Changes
    /\ suv' = suv + 1
    /\ UNCHANGED <<mbox, rows, fts, job, latest, drops, faults>>

----------------------------------------------------------------------------
(* Rows come and go. *)

\* messages.id is INTEGER PRIMARY KEY without AUTOINCREMENT: new rows take the
\* ids above the largest one in the table, in the order of their UIDs.
NewRow(u, uv, new, kept) ==
    LET top == {0} \cup IdsOf(kept)
        base == CHOOSE i \in top : \A j \in top : j <= i
    IN  [id |-> base + Cardinality({v \in new : v <= u}), uid |-> u, uv |-> uv, body |-> NoText]

\* Deletes the rows outside kept; the trigger deletes their index entries.
KeepOnly(kept) == fts' = {e \in fts : e.id \notin IdsOf(rows \ kept)}

FetchHeaders(w) ==
    /\ w \in Batchers /\ job[w].at = "idle"
    /\ job' = [job EXCEPT ![w] = [NoJob EXCEPT !.at = "apply", !.uv = suv, !.uids = mbox]]
    /\ latest' = w
    /\ UNCHANGED <<suv, mbox, rows, fts, bounds>>

\* apply_snapshot: wipe on a new UIDVALIDITY, upsert, prune, in one transaction.
\* A superseded snapshot is dropped.
ApplySnapshot(w) ==
    LET sn == job[w]
        kept == {r \in rows : r.uv = sn.uv /\ r.uid \in sn.uids}
        new == {u \in sn.uids : \A r \in kept : r.uid # u}
        same == {r \in rows : r.uv = sn.uv}   \* rows a wipe leaves
    IN
    /\ sn.at = "apply"
    /\ IF latest = w
       THEN /\ rows' = kept \cup {NewRow(u, sn.uv, new, same) : u \in new}
            /\ KeepOnly(kept)
            /\ job' = [job EXCEPT ![w] = IF w \in WithBodies
                                         THEN [sn EXCEPT !.at = "list", !.uids = {}]
                                         ELSE NoJob]
       ELSE /\ job' = [job EXCEPT ![w] = NoJob]
            /\ UNCHANGED <<rows, fts>>
    /\ UNCHANGED <<suv, mbox, latest, bounds>>

\* delete_messages and purge_deleted of a user command.
Drop(w) ==
    /\ w \in Users \cap Present
    /\ drops < MaxDrops
    /\ drops' = drops + 1
    /\ \E r \in rows : rows' = rows \ {r} /\ KeepOnly(rows \ {r})
    /\ UNCHANGED <<suv, mbox, job, latest, changes, faults>>

----------------------------------------------------------------------------
(* Downloading. *)

\* Mutant: the test for a missing path is inverted.
ListFetched(w) ==
    LET missing == {r.uid : r \in {x \in rows : x.body # NoText}} IN
    /\ job[w].at = "list"
    /\ job' = [job EXCEPT ![w] = IF missing = {} THEN NoJob
                                 ELSE [@ EXCEPT !.at = "download", !.uids = missing]]
    /\ UNCHANGED <<suv, mbox, rows, fts, latest, bounds>>

\* list_unfetched asks for the folder's rows, whatever their UIDVALIDITY.
ListUnfetched(w) ==
    LET missing == {r.uid : r \in {x \in rows : x.body = NoText}} IN
    /\ job[w].at = "list"
    /\ job' = [job EXCEPT ![w] = IF missing = {} THEN NoJob
                                 ELSE [@ EXCEPT !.at = "download", !.uids = missing]]
    /\ UNCHANGED <<suv, mbox, rows, fts, latest, bounds>>

\* A viewer wants the row on screen, which may be gone by now.
View(w) ==
    /\ w \in Viewers /\ job[w].at = "idle"
    /\ \E r \in rows :
        /\ r.body = NoText
        /\ job' = [job EXCEPT ![w] =
              [NoJob EXCEPT !.at = "download", !.uv = r.uv, !.uids = {r.uid}]]
    /\ UNCHANGED <<suv, mbox, rows, fts, latest, bounds>>

\* The folder is selected anew: its UIDVALIDITY is the one of the moment.
FetchBodies(w) ==
    LET got == {[uid |-> u, text |-> <<u, suv>>] : u \in job[w].uids \cap mbox} IN
    /\ job[w].at = "download"
    /\ job' = [job EXCEPT ![w] = IF got = {} THEN NoJob
                                 ELSE [@ EXCEPT !.at = "body", !.uids = {}, !.got = got]]
    /\ UNCHANGED <<suv, mbox, rows, fts, latest, bounds>>

\* Mutant: the path is recorded before the text is indexed.
WriteMaildirFirst(w) ==
    /\ job[w].at = "body"
    /\ \E b \in job[w].got :
        LET target == IF b.uid \in Unparsable THEN {} ELSE RowOf(b.uid, job[w].uv) IN
        /\ job' = [job EXCEPT ![w].got = @ \ {b}, ![w].cur = b,
                              ![w].at = IF target = {} THEN "path" ELSE "delete",
                              ![w].id = IF target = {} THEN 0 ELSE (CHOOSE r \in target : TRUE).id]
        /\ rows' = (rows \ target) \cup {[r EXCEPT !.body = b.text] : r \in target}
    /\ UNCHANGED <<suv, mbox, fts, latest, bounds>>

\* write_maildir, and the SELECT of index_for_search.  Unparsable bytes and
\* missing rows are not indexed.
WriteMaildir(w) ==
    /\ job[w].at = "body"
    /\ \E b \in job[w].got :
        LET target == IF b.uid \in Unparsable THEN {} ELSE RowOf(b.uid, job[w].uv) IN
        job' = [job EXCEPT ![w].got = @ \ {b}, ![w].cur = b,
                           ![w].at = IF target = {} THEN "path" ELSE "delete",
                           ![w].id = IF target = {} THEN 0 ELSE (CHOOSE r \in target : TRUE).id]
    /\ UNCHANGED <<suv, mbox, rows, fts, latest, bounds>>

DeleteEntry(w) ==
    /\ job[w].at = "delete"
    /\ fts' = {e \in fts : e.id # job[w].id}
    /\ job' = [job EXCEPT ![w].at = "insert"]
    /\ UNCHANGED <<suv, mbox, rows, latest, bounds>>

\* A second entry with the same rowid is a constraint error, which ends the job.
InsertEntry(w) ==
    /\ job[w].at = "insert"
    /\ IF job[w].id \in IdsOf(fts)
       THEN /\ job' = [job EXCEPT ![w] = NoJob]
            /\ UNCHANGED fts
       ELSE /\ fts' = fts \cup {[id |-> job[w].id, text |-> job[w].cur.text]}
            /\ job' = [job EXCEPT ![w].at = "path"]
    /\ UNCHANGED <<suv, mbox, rows, latest, bounds>>

\* The job of w once cur is done with.
NextBody(w) ==
    IF job[w].got = {} THEN NoJob ELSE [job[w] EXCEPT !.at = "body", !.cur = NoBody, !.id = 0]

\* Mutant: by folder and UID alone.
SetPathByUid(w) ==
    LET target == {r \in rows : r.uid = job[w].cur.uid} IN
    /\ job[w].at = "path"
    /\ rows' = (rows \ target) \cup {[r EXCEPT !.body = job[w].cur.text] : r \in target}
    /\ job' = [job EXCEPT ![w] = NextBody(w)]
    /\ UNCHANGED <<suv, mbox, fts, latest, bounds>>

\* set_maildir_path: by folder, UID and UIDVALIDITY.
SetMaildirPath(w) ==
    LET target == RowOf(job[w].cur.uid, job[w].uv) IN
    /\ job[w].at = "path"
    /\ rows' = (rows \ target) \cup {[r EXCEPT !.body = job[w].cur.text] : r \in target}
    /\ job' = [job EXCEPT ![w] = NextBody(w)]
    /\ UNCHANGED <<suv, mbox, fts, latest, bounds>>

\* A network or database error, or the process dies.
Fail(w) ==
    /\ w \in Present /\ job[w].at # "idle"
    /\ faults < MaxFaults
    /\ faults' = faults + 1
    /\ job' = [job EXCEPT ![w] = NoJob]
    /\ UNCHANGED <<suv, mbox, rows, fts, latest, changes, drops>>

----------------------------------------------------------------------------
Init ==
    /\ suv = 1 /\ mbox = {}
    /\ rows = {} /\ fts = {}
    /\ \E cast \in Casts : job = [w \in Workers |-> IF w \in cast THEN NoJob ELSE Away]
    /\ latest \in Batchers
    /\ changes = 0 /\ drops = 0 /\ faults = 0

ServerStep == Deliver \/ Remove \/ ResetUidvalidity

Work(w) ==
    \/ FetchHeaders(w)
    \/ ApplySnapshot(w)
    \/ ListUnfetched(w)
    \/ View(w)
    \/ FetchBodies(w)
    \/ WriteMaildir(w)
    \/ DeleteEntry(w)
    \/ InsertEntry(w)
    \/ SetMaildirPath(w)

Next ==
    \/ ServerStep
    \/ \E w \in Workers : Work(w) \/ Drop(w) \/ Fail(w)

Spec == Init /\ [][Next]_vars

\* The daemon starts a cycle again and again, and each task that began runs on.
Fairness == \A w \in WithBodies : WF_vars(Work(w))

FairSpec == Spec /\ Fairness

----------------------------------------------------------------------------
(* Properties *)

TypeOK ==
    /\ suv \in Nat \ {0} /\ mbox \subseteq Uids
    /\ rows \subseteq Rows
    /\ \A r, q \in rows : r.id = q.id \/ (r.uid = q.uid /\ r.uv = q.uv) => r = q
    /\ fts \subseteq Entries
    /\ \A d, e \in fts : d.id = e.id => d = e
    /\ job \in [Workers -> Jobs]
    /\ latest \in Batchers
    /\ changes \in 0..MaxChanges /\ drops \in 0..MaxDrops /\ faults \in 0..MaxFaults

FiniteInv == IsFiniteSet(mbox) /\ IsFiniteSet(rows) /\ \A w \in Workers : IsFiniteSet(job[w].uids)

\* The text of message uid, downloaded at UIDVALIDITY uv or later.
Genuine(text, uid, uv) == text[1] = uid /\ uv <= text[2] /\ text[2] <= suv

\* Whatever UIDVALIDITY a job works under, the bytes it holds are at least as recent:
\* so are those of the rows it writes them to.
SourceInv ==
    /\ \A r \in rows : r.uv <= suv /\ (r.body # NoText => Genuine(r.body, r.uid, r.uv))
    /\ \A w \in Workers :
          /\ job[w].uv <= suv
          /\ \A b \in job[w].got \cup ({job[w].cur} \ {NoBody}) : Genuine(b.text, b.uid, job[w].uv)

\* Messages that a job of w has yet to finish have no body in their rows.
Unfinished(w) ==
    LET j == job[w] IN
    /\ \A r \in rows : r.uv = j.uv
    /\ \A b, c \in j.got \cup {j.cur} : b.uid = c.uid => b = c
    /\ \A r \in rows : r.uid \in j.uids \cup {b.uid : b \in j.got \cup {j.cur}} => r.body = NoText
    /\ j.cur \notin j.got

\* A batcher at work alone: it indexes the row that it is about to write, and a row
\* that has a body is indexed.
SoloInv(w) ==
    LET j == job[w] IN
    /\ w \notin Batchers => rows = {} /\ fts = {} /\ j = NoJob
    /\ \A r \in rows :
          r.body # NoText /\ r.uid \notin Unparsable => [id |-> r.id, text |-> r.body] \in fts
    /\ IdsOf(fts) \subseteq IdsOf(rows)
    /\ j.at \in {"apply", "list", "download"} => j.got = {} /\ j.cur = NoBody
    /\ j.at = "body" => j.cur = NoBody
    /\ j.at \in {"body", "delete", "insert", "path"} => j.uids = {}
    /\ j.at = "list" => \A r \in rows : r.uv = j.uv
    /\ j.at \in {"download", "body", "delete", "insert", "path"} => Unfinished(w)
    /\ j.at \in {"delete", "insert"} =>
          j.cur.uid \notin Unparsable /\ \E r \in rows : r.uid = j.cur.uid /\ r.id = j.id
    /\ j.at = "path" /\ j.cur.uid \notin Unparsable =>
          \A r \in rows : r.uid = j.cur.uid => [id |-> r.id, text |-> j.cur.text] \in fts

AloneInv == \A w \in Workers : Present = {w} => SoloInv(w)

\* A row that carries the server's present UIDVALIDITY never has another
\* message's body, although bodies are downloaded by UID alone, in a session
\* that may see a newer UIDVALIDITY than the row, by several processes.
CurrentBodiesAreRight ==
    \A r \in rows : r.uv = suv /\ r.body # NoText => r.body = <<r.uid, r.uv>>

\* One process alone.  The guarantee below needs it: deleting and inserting an
\* index entry are two statements, and another worker's may come in between.
Alone == Cardinality(Present) = 1

\* Indexing comes before the path is recorded, so that a failure in between cannot
\* leave a message that counts as fetched and cannot be found; and deleting a
\* message deletes what search knows of it: between jobs the index has no entry of
\* a row that is gone, whose rowid a later message would get.
IndexFollowsRows ==
    Alone =>
        /\ \A r \in rows :
              r.body # NoText /\ r.uid \notin Unparsable => [id |-> r.id, text |-> r.body] \in fts
        /\ (\A w \in Present : job[w].at = "idle") => IdsOf(fts) \subseteq IdsOf(rows)

\* Once the server is quiet and the faults are over, every body is downloaded,
\* as long as a single process syncs: two of them can supersede each other's
\* snapshots again and again, and a superseded one downloads nothing.
EventuallyFetched ==
    \A u \in Uids :
        (Cardinality(Present \cap Batchers) = 1 /\ \E r \in rows : r.uid = u) ~>
            (\A r \in rows : r.uid = u => r.body # NoText)
================================================================================
