---------------------------- MODULE OpaqueIndex ----------------------------
(***************************************************************************)
(* How one folder of a JMAP or Graph account is copied into the index.     *)
(*                                                                         *)
(* These servers name a message by an opaque id.  The index keeps the id   *)
(* in provider_id and a hash of it as the uid, the canonical uid.  Rows    *)
(* without an id come from older releases, whose uids were the hash cut to *)
(* 32 bits or the hash XOR the message's place in the listing, and from    *)
(* `inbx import`; apply_snapshot adopts such a row for a listed message    *)
(* when exactly one row fits.                                              *)
(*                                                                         *)
(* The folder is listed in pages while other clients change it.  JMAP      *)
(* lists ids and reads their headers in batches afterwards; every page     *)
(* carries the query's state, and must carry the number of messages, which *)
(* the query does not ask for and a server need not give.  Graph's pages   *)
(* carry the headers, and nothing that tells whether the folder changed    *)
(* between two of them.                                                    *)
(*                                                                         *)
(* The counters that let only the latest reservation apply are in          *)
(* SnapshotStore, which implements LastReservation; here the right to      *)
(* publish is the variable holder.                                         *)
(***************************************************************************)
EXTENDS Naturals, FiniteSets, SequencesExt

CONSTANTS
    Ids,          \* provider ids
    NoId,         \* SQL NULL
    MidMaps,      \* the assignments of Message-IDs to ids to examine
    Legacy,       \* the sets of rows an older release may have left
    Providers,    \* the providers to examine: "jmap", "graph"
    Daemon,       \* the sync daemon
    Manual,       \* a sync that a user starts
    NoOne,        \* nobody holds the right to publish
    PageSize,     \* messages per page and per Email/get batch
    MaxEvents     \* bound: changes on the server, syncs the user starts,
                  \* commands, and syncs ended half-way, together

ASSUME ProvidersAssumption == Providers \subseteq {"jmap", "graph"}
ASSUME IdsAssumption == IsFiniteSet(Ids) /\ NoId \notin Ids
ASSUME PageAssumption == PageSize \in Nat \ {0}
ASSUME BoundAssumption == MaxEvents \in Nat
ASSUME SyncersAssumption == Daemon # Manual /\ NoOne \notin {Daemon, Manual}

Syncers == {Daemon, Manual}
Keywords == {"flagged", "deleted"}

VARIABLES
    provider,  \* the transport of the account
    totals,    \* whether the server gives the total of a query unasked
    midOf,     \* midOf[id]: the Message-ID header of id
    mailbox,   \* the folder on the server, newest message first
    kw,        \* kw[id]: the keywords of id on the server
    gone,      \* ids that name nothing any more
    changes,   \* number of changes so far; the query state
    rows,      \* the folder's messages rows
    holder,    \* the syncer whose reservation is the latest
    proc,      \* proc[s]: a syncer at work
    cmd,       \* the user's command
    events,    \* number of events so far
    \* Ghosts.
    steady,    \* steady[s]: ids in the folder ever since s reserved
    told,      \* told[id]: times id was reported as new since it arrived
    undone     \* ids whose row a command removed although a listing holds them

server == <<provider, totals, midOf, mailbox, kw, gone, changes>>
user   == <<cmd, events>>
vars   == <<server, rows, holder, proc, user, steady, told, undone>>

----------------------------------------------------------------------------
(* Uids and rows *)

Canon(id)  == <<"canon", id, 0>>
Low(id)    == <<"low", id, 0>>
Xor(id, i) == IF i = 0 THEN Canon(id) ELSE <<"xor", id, i>>
NextUid    == <<"next", NoId, 0>>

\* A row stands for the message `of`; `body` is the message whose body its
\* Maildir file holds.
Row(uid, pid, of, body, flags) ==
    [uid |-> uid, pid |-> pid, of |-> of, body |-> body, flags |-> flags]

Uids == {"canon", "low", "xor", "next"} \X (Ids \cup {NoId}) \X Nat
Rows == [uid : Uids, pid : Ids \cup {NoId}, of : Ids, body : Ids \cup {NoId}, flags : SUBSET Keywords]

\* A row of an older release is named by its own message's id, and has its body or none.
ASSUME LegacyAssumption ==
    \A rs \in Legacy :
        /\ rs \subseteq Rows
        /\ \A r \in rs : r.uid[2] = r.of /\ {r.pid, r.body} \subseteq {r.of, NoId}
        /\ \A r, x \in rs : r.uid = x.uid => r = x

Listed == ToSet(mailbox)
IdsOf(heads) == {heads[i].id : i \in DOMAIN heads}
Named(rs) == {r.pid : r \in rs} \ {NoId}

\* What a listing reports of a message's keywords.
ReadBack(id) == IF provider = "jmap" THEN kw[id] ELSE {}

Idle == [at |-> "idle", ids |-> <<>>, heads |-> <<>>, state |-> 0]
NoCommand == [at |-> "idle", op |-> "none", uid |-> NextUid]

Init ==
    /\ provider \in Providers
    /\ totals \in BOOLEAN /\ (provider = "graph" => totals)
    /\ midOf \in MidMaps
    /\ \E ids \in SUBSET Ids : mailbox \in SetToSeqs(ids)
    /\ kw = [id \in Ids |-> {}]
    /\ gone = {}
    /\ changes = 0
    /\ rows \in Legacy
    /\ holder = NoOne
    /\ proc = [s \in Syncers |-> Idle]
    /\ cmd = NoCommand
    /\ events = 0
    /\ steady = [s \in Syncers |-> {}]
    /\ told = [id \in Ids |-> 0]
    /\ undone = {}

----------------------------------------------------------------------------
(* The server: delivery, and other clients that move and destroy. *)

Event == events < MaxEvents /\ events' = events + 1

Arrives(id) ==
    /\ mailbox' = <<id>> \o mailbox
    /\ told' = [told EXCEPT ![id] = 0]
    /\ undone' = undone \ {id}
    /\ UNCHANGED <<gone, steady>>

\* The messages of s that are not in S, in their order.
Without(s, S) ==
    LET kept[i \in 0..Len(s)] ==
            IF i = 0 THEN <<>> ELSE IF s[i] \in S THEN kept[i - 1] ELSE Append(kept[i - 1], s[i])
    IN  kept[Len(s)]

\* A moved message keeps its JMAP id and gets another Graph id.
Leaves(id, destroyed) ==
    /\ mailbox' = Without(mailbox, {id})
    /\ gone' = IF destroyed \/ provider = "graph" THEN gone \cup {id} ELSE gone
    /\ steady' = [s \in Syncers |-> steady[s] \ {id}]
    /\ UNCHANGED <<told, undone>>

OthersChange ==
    /\ Event
    /\ changes' = changes + 1
    /\ \/ \E id \in Ids \ (Listed \cup gone) : Arrives(id)
       \/ \E id \in Listed, destroyed \in BOOLEAN : Leaves(id, destroyed)
    /\ UNCHANGED <<provider, totals, midOf, kw, rows, holder, proc, cmd>>

----------------------------------------------------------------------------
(* Listing the folder *)

Reserve(s) ==
    /\ proc[s].at = "idle"
    /\ IF s = Manual THEN Event ELSE UNCHANGED events
    /\ holder' = s
    /\ proc' = [proc EXCEPT ![s] = [Idle EXCEPT !.at = "page"]]
    /\ steady' = [steady EXCEPT ![s] = Listed]
    /\ UNCHANGED <<server, rows, cmd, told, undone>>

\* The PageSize elements of s that follow the first n.
PageOf(s, n) == SubSeq(s, n + 1, Min({n + PageSize, Len(s)}))
PageFrom(n) == PageOf(mailbox, n)

\* Mutant: the query's state is not compared.
ValidPageAnyState(p, page) == totals /\ ToSet(page) \cap ToSet(p.ids) = {}

\* Every page must show the total, ids that no page showed before and, after the
\* first, the state the first one showed.
ValidPage(p, page) ==
    /\ totals
    /\ p.ids # <<>> => p.state = changes
    /\ ToSet(page) \cap ToSet(p.ids) = {}

Failed(s) == proc' = [proc EXCEPT ![s] = Idle]

QueryPage(s) ==
    /\ provider = "jmap" /\ proc[s].at = "page"
    /\ LET p    == proc[s]
           page == PageFrom(Len(p.ids))
           all  == p.ids \o page
       IN  IF ~ValidPage(p, page) \/ (page = <<>> /\ Len(all) < Len(mailbox))
           THEN Failed(s)
           ELSE proc' = [proc EXCEPT ![s] =
                    [p EXCEPT !.ids = all, !.state = changes,
                              !.at = IF Len(all) < Len(mailbox) THEN "page" ELSE "get"]]
    /\ UNCHANGED <<server, rows, holder, user, steady, told, undone>>

HeadsOf(ids) == [i \in DOMAIN ids |-> [id |-> ids[i], flags |-> ReadBack(ids[i])]]

\* The answer must hold every id of the batch.
GetHeaders(s) ==
    /\ provider = "jmap" /\ proc[s].at = "get"
    /\ LET p     == proc[s]
           done  == Len(p.heads)
           batch == PageOf(p.ids, done)
       IN  IF done = Len(p.ids) THEN proc' = [proc EXCEPT ![s].at = "apply"]
           ELSE IF ToSet(batch) \cap gone # {} THEN Failed(s)
           ELSE proc' = [proc EXCEPT ![s].heads = @ \o HeadsOf(batch)]
    /\ UNCHANGED <<server, rows, holder, user, steady, told, undone>>

ListPage(s) ==
    /\ provider = "graph" /\ proc[s].at = "page"
    /\ LET got == Len(proc[s].heads)
       IN  proc' = [proc EXCEPT ![s].heads = @ \o HeadsOf(PageFrom(got)),
                        ![s].at = IF got + PageSize < Len(mailbox) THEN "page" ELSE "apply"]
    /\ UNCHANGED <<server, rows, holder, user, steady, told, undone>>

\* The network fails, or the process ends.
Abandon(s) ==
    /\ proc[s].at \in {"page", "get", "apply", "bodies"}
    /\ Event
    /\ Failed(s)
    /\ UNCHANGED <<server, rows, holder, cmd, steady, told, undone>>

----------------------------------------------------------------------------
(* Applying a listing: one transaction *)

\* A listing that names a message twice.
InvalidSnapshot(heads) == \E i, j \in DOMAIN heads : i # j /\ heads[i].id = heads[j].id

MidIsUnique(heads, id) == \A x \in IdsOf(heads) : midOf[x] = midOf[id] => x = id

\* The rows without an id that agree with heads[i] in a stable identity.
Candidates(rs, heads, i) ==
    LET id == heads[i].id
    IN  {r \in rs : /\ r.pid = NoId
                    /\ \/ MidIsUnique(heads, id) /\ midOf[r.of] = midOf[id]
                       \/ r.uid \in {Canon(id), Low(id), Xor(id, i - 1)}}

Richest(rs) == CHOOSE r \in rs : r.body # NoId \/ \A x \in rs : x.body = NoId

\* The state of the transaction: the rows, the ids whose row was adopted, and
\* whether UNIQUE(folder, uid, uidvalidity) has failed.
Adopt(t, heads, i) ==
    LET id   == heads[i].id
        fits == Candidates(t.rows, heads, i)
    IN  IF \A r \in fits : fits # {r} THEN t
        ELSE LET r == CHOOSE r \in fits : TRUE
             IN  [t EXCEPT !.rows = {x \in @ \ fits : x.pid # id}
                                        \cup {[r EXCEPT !.uid = Canon(id), !.pid = id]},
                           !.adopted = @ \cup {id}]

Collapse(t, id) ==
    LET own   == {r \in t.rows : r.pid = id}
        keep  == Richest(own)
        other == t.rows \ own
    IN  IF own = {} THEN t
        ELSE [t EXCEPT !.rows = other \cup {[keep EXCEPT !.uid = Canon(id)]},
                       !.clash = @ \/ \E r \in other : r.uid = Canon(id)]

\* The transaction after each of the listed messages in turn.
Reconciled(rs, heads) ==
    LET state[i \in 0..Len(heads)] ==
            IF i = 0 THEN [rows |-> rs, adopted |-> {}, clash |-> FALSE]
            ELSE Collapse(Adopt(state[i - 1], heads, i), heads[i].id)
    IN  state[Len(heads)]

Upserted(rs, heads) ==
    {r \in rs : \A id \in IdsOf(heads) : r.uid # Canon(id)} \cup
    {LET id  == heads[i].id
         old == {r \in rs : r.uid = Canon(id)}
     IN  Row(Canon(id), id, id,
             IF old = {} THEN NoId ELSE (CHOOSE r \in old : TRUE).body, heads[i].flags)
        : i \in DOMAIN heads}

\* Mutant: nothing is pruned.
PrunedNothing(rs, old, heads) == rs

Pruned(rs, old, heads) == {r \in rs : r.pid \notin old \ IdsOf(heads)}

\* Mutant: rows the index had already are new.
NewRowsAlways(old, adopted, heads) == IdsOf(heads) \ adopted

NewRows(old, adopted, heads) == IdsOf(heads) \ (old \cup adopted)

Announce(ids) == told' = [id \in Ids |-> told[id] + (IF id \in ids THEN 1 ELSE 0)]

After(s) == proc' = [proc EXCEPT ![s] =
                [Idle EXCEPT !.at = IF s = Daemon THEN "bodies" ELSE "idle"]]

ApplySnapshot(s) ==
    /\ proc[s].at = "apply"
    /\ ~InvalidSnapshot(proc[s].heads)
    /\ holder = s
    /\ LET heads == proc[s].heads
           t     == Reconciled(rows, heads)
       IN  /\ ~t.clash
           /\ rows' = Pruned(Upserted(t.rows, heads), Named(rows), heads)
           /\ Announce(NewRows(Named(rows), t.adopted, heads))
    /\ holder' = NoOne
    /\ After(s)
    /\ UNCHANGED <<server, user, steady, undone>>

\* The listing is invalid, superseded, or its transaction fails.
RejectSnapshot(s) ==
    /\ proc[s].at = "apply"
    /\ \/ InvalidSnapshot(proc[s].heads)
       \/ holder # s
       \/ Reconciled(rows, proc[s].heads).clash
    /\ Failed(s)
    /\ UNCHANGED <<server, rows, holder, user, steady, told, undone>>

----------------------------------------------------------------------------
(* From a uid back to the provider's id *)

ProviderIdFor(uid) == {r.pid : r \in {x \in rows : x.uid = uid}} \ {NoId}

\* Mutant: the first message of the scan, whatever its hash.
ResolveFirst(uid) ==
    IF ProviderIdFor(uid) # {} THEN ProviderIdFor(uid) ELSE Ids \ gone

\* The id in the index, else the message of the account whose hash is the uid.
ResolveJmapId(uid) ==
    IF ProviderIdFor(uid) # {} THEN ProviderIdFor(uid)
    ELSE {id \in Ids \ gone : Canon(id) = uid}

\* The id in the index, else the message of the folder whose hash is the uid.
ResolveGraphId(uid) ==
    IF ProviderIdFor(uid) # {} THEN ProviderIdFor(uid)
    ELSE {id \in Listed : Canon(id) = uid}

Resolve(uid) == IF provider = "jmap" THEN ResolveJmapId(uid) ELSE ResolveGraphId(uid)

\* The server answers for a message that exists, and reports it in the answer.
Answering(ids) == ids \ gone

FetchBody(uid) == Answering(Resolve(uid))

\* The daemon asks for the missing bodies in one call, which fails as a whole.
FetchBodies ==
    /\ proc[Daemon].at = "bodies"
    /\ LET missing == {r \in rows : r.body = NoId}
       IN  rows' = IF \E r \in missing : FetchBody(r.uid) = {} THEN rows
                   ELSE (rows \ missing) \cup
                        {[r EXCEPT !.body = CHOOSE id \in FetchBody(r.uid) : TRUE] : r \in missing}
    /\ Failed(Daemon)
    /\ UNCHANGED <<server, holder, user, steady, told, undone>>

----------------------------------------------------------------------------
(* The user's commands: the server first, then the index. *)

BeginCommand ==
    /\ cmd = NoCommand /\ Event
    /\ \E op \in {"star", "trash", "move", "expunge"}, r \in rows :
          cmd' = [at |-> "request", op |-> op, uid |-> r.uid]
    /\ UNCHANGED <<server, rows, holder, proc, steady, told, undone>>

SetEmailFlags(id) ==
    /\ kw' = [kw EXCEPT ![id] = @ \cup {IF cmd.op = "star" THEN "flagged" ELSE "deleted"}]
    /\ UNCHANGED <<provider, totals, midOf, mailbox, gone, changes, steady, told, undone>>

\* Graph knows \Seen and \Flagged, and ignores the other flags.
SetGraphFlags(id) ==
    /\ kw' = IF cmd.op = "star" THEN [kw EXCEPT ![id] = @ \cup {"flagged"}] ELSE kw
    /\ UNCHANGED <<provider, totals, midOf, mailbox, gone, changes, steady, told, undone>>

SetFlags(id) == IF provider = "jmap" THEN SetEmailFlags(id) ELSE SetGraphFlags(id)

MoveMessage(id) ==
    /\ Leaves(id, FALSE)
    /\ changes' = changes + 1
    /\ UNCHANGED <<provider, totals, midOf, kw>>

\* Email/query for $deleted and Email/set destroy, until none is left.
ExpungeEmails ==
    LET dead == {id \in Listed : "deleted" \in kw[id]}
    IN  /\ mailbox' = Without(mailbox, dead)
        /\ gone' = gone \cup dead
        /\ steady' = [s \in Syncers |-> steady[s] \ dead]
        /\ changes' = IF dead = {} THEN changes ELSE changes + 1
        /\ UNCHANGED <<provider, totals, midOf, kw, told, undone>>

\* Graph has no flag for a message that is to be expunged.
ExpungeNothing == UNCHANGED <<server, steady, told, undone>>

Request ==
    /\ cmd.at = "request"
    /\ IF cmd.op = "expunge"
       THEN /\ IF provider = "jmap" THEN ExpungeEmails ELSE ExpungeNothing
            /\ cmd' = [cmd EXCEPT !.at = "echo"]
       ELSE IF FetchBody(cmd.uid) = {}
       THEN cmd' = NoCommand /\ UNCHANGED <<server, steady, told, undone>>
       ELSE LET id == CHOOSE id \in FetchBody(cmd.uid) : TRUE
            IN  /\ IF cmd.op = "move" THEN MoveMessage(id) ELSE SetFlags(id)
                /\ cmd' = [cmd EXCEPT !.at = "echo"]
    /\ UNCHANGED <<rows, holder, proc, events>>

Flagged(r) == [r EXCEPT !.flags = @ \cup {IF cmd.op = "star" THEN "flagged" ELSE "deleted"}]

\* The rows an echo deletes: the moved uid, or every row marked \Deleted.
Dropped ==
    CASE cmd.op = "move" -> {r \in rows : r.uid = cmd.uid}
      [] cmd.op = "expunge" -> {r \in rows : "deleted" \in r.flags}
      [] OTHER -> {}

InFlight(id) == id \in Listed \/ \E s \in Syncers : id \in IdsOf(proc[s].heads) \cup ToSet(proc[s].ids)

Echo ==
    /\ cmd.at = "echo"
    /\ rows' = IF cmd.op \in {"star", "trash"}
               THEN {IF r.uid = cmd.uid THEN Flagged(r) ELSE r : r \in rows}
               ELSE rows \ Dropped
    /\ undone' = undone \cup {id \in Named(Dropped) : InFlight(id)}
    /\ cmd' = NoCommand
    /\ UNCHANGED <<server, holder, proc, events, steady, told>>

\* `inbx import`: a copy of a message from an mbox file, under the next uid.
Import ==
    /\ Event
    /\ \A r \in rows : r.uid # NextUid
    /\ \E id \in Ids : rows' = rows \cup {Row(NextUid, NoId, id, id, {})}
    /\ UNCHANGED <<server, holder, proc, cmd, steady, told, undone>>

\* `inbx jmap fetch`: the newest messages, of which only \Seen is read.
Newest == LET page == PageFrom(0)
          IN  [i \in DOMAIN page |-> [id |-> page[i], flags |-> {}]]

\* They are upserted without a reservation.
FetchNewest ==
    /\ provider = "jmap" /\ Event
    /\ rows' = Upserted(rows, Newest)
    /\ UNCHANGED <<server, holder, proc, cmd, steady, told, undone>>

List(s) == Reserve(s) \/ QueryPage(s) \/ GetHeaders(s) \/ ListPage(s)

Sync(s) == List(s) \/ ApplySnapshot(s) \/ RejectSnapshot(s)

Commands == BeginCommand \/ Request \/ Echo \/ Import \/ FetchNewest

Next ==
    \/ OthersChange
    \/ \E s \in Syncers : Sync(s) \/ Abandon(s)
    \/ FetchBodies
    \/ Commands

\* The transaction of s answers, one way or the other.
Answered(s) == proc[s].at = "apply" /\ \E at \in {"idle", "bodies"} :
                   proc' = [proc EXCEPT ![s] = [Idle EXCEPT !.at = at]]

\* Only the daemon's loop must run on: whoever else hangs half-way.
Fairness == WF_vars(List(Daemon)) /\ WF_proc(Answered(Daemon)) /\ WF_vars(FetchBodies)

Spec == Init /\ [][Next]_vars /\ Fairness

----------------------------------------------------------------------------
(* Properties *)

Heads == [id : Ids, flags : SUBSET Keywords]
Jobs == [at : {"idle", "page", "get", "apply", "bodies"}, ids : Seq(Ids), heads : Seq(Heads),
         state : Nat]

\* The variables have their types; nothing that is gone is listed, and what was in
\* the folder all the time still is.
TypeOK ==
    /\ provider \in Providers /\ totals \in BOOLEAN /\ midOf \in MidMaps
    /\ mailbox \in Seq(Ids) /\ kw \in [Ids -> SUBSET Keywords] /\ gone \subseteq Ids
    /\ changes \in Nat
    /\ rows \subseteq Rows
    /\ holder \in Syncers \cup {NoOne}
    /\ proc \in [Syncers -> Jobs]
    /\ cmd \in [at : {"idle", "request", "echo"}, op : {"none", "star", "trash", "move", "expunge"},
               uid : Uids]
    /\ events \in 0..MaxEvents
    /\ steady \in [Syncers -> SUBSET Listed]
    /\ told \in [Ids -> Nat] /\ undone \subseteq Ids
    /\ Listed \cap gone = {}

\* UNIQUE(folder, uid, uidvalidity) holds whatever rows are adopted, collapsed
\* and upserted, and no row is given the body of a message with another
\* Message-ID; and every value has its type.
RowsAreSound ==
    /\ \A r, x \in rows : r.uid = x.uid => r = x
    /\ \A r \in rows : r.body # NoId => midOf[r.body] = midOf[r.of]
    /\ \A r \in rows : r.pid \in Ids \cup {NoId} /\ r.flags \subseteq Keywords
    /\ Listed \cap gone = {} /\ holder \in Syncers \cup {NoOne}

Applies(s) == proc[s].at = "apply" /\ holder = s /\ holder' = NoOne

\* Once a listing is applied each of its messages has one row, at its
\* canonical uid, whatever legacy rows and duplicates there were before, and
\* none was given the body of another listed message.  And a JMAP listing
\* prunes no message that was in the folder all the time the sync took, however
\* its pages and batches interleave with changes.
ListingIsPublished ==
    [][\A s \in Syncers : Applies(s) =>
          /\ \A id \in IdsOf(proc[s].heads) :
                {r.uid : r \in {x \in rows' : x.pid = id}} = {Canon(id)}
          /\ \A r \in rows' : r.body \in IdsOf(proc[s].heads) =>
                r.body = r.of \/ \E x \in rows : x.of = r.of /\ x.body = r.body
          /\ provider = "jmap" => steady[s] \subseteq Named(rows')]_vars

\* No JMAP message is reported as new twice while it stays in the folder, unless
\* a command removed its row while a listing under way still held it.
AnnouncedOnce == provider = "jmap" => \A id \in Ids : told[id] > 1 => id \in undone

\* Why the rows are sound: except within a transaction, a row's uid and id, if it has
\* them, name its own message.
OfItsOwn(r) == r.pid \in {NoId, r.of} /\ (r.uid = NextUid \/ r.uid[2] = r.of)
SameMid(r) == r.body # NoId => midOf[r.body] = midOf[r.of]
UniqueUids(rs) == \A r, x \in rs : r.uid = x.uid => r = x

RowInv == UniqueUids(rows) /\ \A r \in rows : OfItsOwn(r) /\ SameMid(r)

\* What a JMAP sync knows: while the query's state is unchanged its pages are the
\* beginning of the folder; the whole listing has what was there all the time.
ListingInv == provider = "jmap" =>
    \A s \in Syncers : LET p == proc[s] IN
        /\ p.at \in {"idle", "bodies"} => p.ids = <<>>
        /\ p.at = "page" /\ p.ids # <<>> =>
              /\ p.state <= changes
              /\ p.state = changes =>
                    Len(p.ids) <= Len(mailbox) /\ \A i \in 1..Len(p.ids) : p.ids[i] = mailbox[i]
        /\ p.at # "get" /\ p.at # "apply" => p.heads = <<>>
        /\ Len(p.heads) <= Len(p.ids)
        /\ \A i \in 1..Len(p.heads) : p.heads[i].id = p.ids[i]
        /\ p.at = "apply" => Len(p.heads) = Len(p.ids)
        /\ p.at \in {"get", "apply"} => steady[s] \subseteq ToSet(p.ids)

\* Why nothing is announced twice: what was reported has its row, as long as it may be
\* reported again; what came too late for the listing that may be applied was not reported.
MayAnnounce(id) == id \in Listed \/ \E s \in Syncers : holder = s /\ id \in ToSet(proc[s].ids)
ReportInv == provider = "jmap" =>
    /\ AnnouncedOnce
    /\ \A id \in Ids \ undone : told[id] > 0 /\ MayAnnounce(id) => id \in Named(rows)
    /\ \A s \in Syncers : holder = s /\ proc[s].at \in {"get", "apply"} =>
          \A id \in Listed \ ToSet(proc[s].ids) : told[id] = 0

\* The index lists exactly the folder's messages, and has the body of each: unless a
\* row that nothing resolves fails every download.
Stranded == \E r \in rows : r.body = NoId /\ Resolve(r.uid) = {}
Exact == Named(rows) = Listed /\ (Stranded \/ \A r \in rows : r.body # NoId)

\* Two rows of an older release claim one canonical uid and fail every transaction.
Stuck == Reconciled(rows, HeadsOf(mailbox)).clash
=============================================================================
