------------------------------ MODULE DeltaLink ------------------------------
(***************************************************************************)
(* How the programs of a Graph or JMAP account learn that a folder has     *)
(* changed, and who may move the folder's delta link.                      *)
(*                                                                         *)
(* Graph answers a delta link with the changes since that link and a new   *)
(* link.  One column of the folder's row holds the link, and four programs *)
(* share it.  `inbx graph fetch` copies the changes into the index and     *)
(* then stores the link.  The sync daemon, `inbx watch` and the TUI's      *)
(* watch only ask whether anything changed, store the link at once, and    *)
(* leave the copying to a full sync.  JMAP pushes an event instead, while  *)
(* a stream is open.                                                       *)
(*                                                                         *)
(* A sync is two steps here, the listing and its application; OpaqueIndex  *)
(* has the rest.                                                           *)
(***************************************************************************)
EXTENDS Naturals, FiniteSets, SequencesExt

CONSTANTS
    Ids,        \* message ids
    Casts,      \* the sets of Programs to examine
    Starts,     \* the first contents of the folder to examine
    Transports, \* the transports to examine: "graph", "jmap"
    MaxEvents   \* bound: changes, expired links and failed syncs, together

Programs == {"daemon", "watch", "tui", "manual", "fetch"}

VARIABLES
    transport,  \* the account's transport
    cast,       \* the programs that run
    log,        \* the folder's history: what arrived, changed or left
    oldest,     \* links before this one have expired
    index,      \* the ids that the index lists
    link,       \* folders.delta_link, a position in log; 0 is NULL
    proc,       \* proc[p]: a program at work
    events,     \* number of events so far
    orphans     \* ghost: rows there when a fetch started without a link

server == <<transport, cast, log, oldest>>
vars   == <<server, index, link, proc, events, orphans>>

----------------------------------------------------------------------------

\* The last entry of l for id, or 0.
LastOf(l, id) == Max({0} \cup {i \in DOMAIN l : l[i].id = id})
LiveIn(l) == {id \in Ids : LET i == LastOf(l, id) IN i > 0 /\ ~l[i].removed}
Mailbox == LiveIn(log)

Idle == [at |-> "idle", seen |-> {}, removed |-> {}, link |-> 0, changed |-> FALSE]

Init ==
    /\ transport \in Transports
    /\ cast \in Casts
    /\ transport = "jmap" => cast \subseteq {"daemon", "tui", "manual"}
    /\ \E ids \in Starts :
          log = SetToSeq({[id |-> id, removed |-> FALSE] : id \in ids})
    /\ oldest = 0
    /\ index = {}
    /\ link = 0
    /\ proc = [p \in Programs |-> [Idle EXCEPT !.at =
                  IF p \in cast /\ p \in {"daemon", "watch"} THEN "list"
                  ELSE IF p \in cast /\ p = "tui" THEN "wait" ELSE "idle"]]
    /\ events = 0
    /\ orphans = {}

Event == events < MaxEvents /\ events' = events + 1

Goes(p, at) == proc' = [proc EXCEPT ![p] = [Idle EXCEPT !.at = at]]

----------------------------------------------------------------------------
(* The server *)

Change ==
    /\ Event
    /\ \E id \in Ids, removed \in BOOLEAN :
          /\ removed => id \in Mailbox
          /\ log' = Append(log, [id |-> id, removed |-> removed])
    /\ UNCHANGED <<transport, cast, oldest, index, link, proc, orphans>>

Expire ==
    /\ transport = "graph" /\ Event
    /\ oldest' = Len(log)
    /\ UNCHANGED <<transport, cast, log, index, link, proc, orphans>>

\* The changes since a link, each occurrence of a message in its turn; and
\* without a link the messages that are in the folder.
Since(from) ==
    IF from = 0 THEN SetToSeq({[id |-> id, removed |-> FALSE] : id \in Mailbox})
    ELSE SubSeq(log, from + 1, Len(log))

----------------------------------------------------------------------------
(* A full sync *)

Syncing(p) == proc[p].at \in {"list", "apply"}

List(p) ==
    /\ proc[p].at = "list"
    /\ proc' = [proc EXCEPT ![p].at = "apply", ![p].seen = Mailbox]
    /\ UNCHANGED <<server, index, link, events, orphans>>

Apply(p) ==
    /\ proc[p].at = "apply"
    /\ index' = proc[p].seen
    /\ Goes(p, IF p = "manual" THEN "idle" ELSE "wait")
    /\ UNCHANGED <<server, link, events, orphans>>

\* The sync fails, or a later one supersedes it.  `inbx watch` and the daemon's
\* discovery try again; a daemon with a list of folders waits first.
SyncFails(p) ==
    /\ Syncing(p) /\ Event
    /\ \/ p = "manual" /\ Goes(p, "idle")
       \/ p \in {"daemon", "watch"} /\ Goes(p, "list")
       \/ p = "daemon" /\ Goes(p, "wait")
    /\ UNCHANGED <<server, index, link, orphans>>

\* The user asks for a sync.
ManualSync ==
    /\ "manual" \in cast /\ proc["manual"].at = "idle"
    /\ Goes("manual", "list")
    /\ UNCHANGED <<server, index, link, events, orphans>>

----------------------------------------------------------------------------
(* Waiting for a change *)

\* The wait of the daemon and of `inbx watch` returns to a sync, whatever it
\* found.  The TUI's watch waits again; its signal starts a manual sync, unless
\* one runs or the TUI is busy.
Wakes(p, changed) ==
    IF p # "tui" THEN Goes(p, "list")
    ELSE \/ Goes(p, "wait")
         \/ /\ changed /\ proc["manual"].at = "idle"
            /\ proc' = [proc EXCEPT !["tui"] = [Idle EXCEPT !.at = "wait"],
                                    !["manual"].at = "list"]

GetDeltaLink(p) ==
    /\ transport = "graph" /\ proc[p].at = "wait"
    /\ proc' = [proc EXCEPT ![p].at = "ask", ![p].link = link]
    /\ UNCHANGED <<server, index, link, events, orphans>>

Expired(from) == from # 0 /\ from < oldest

DeltaMessages(p) ==
    /\ p # "fetch" /\ proc[p].at = "ask"
    /\ IF Expired(proc[p].link) THEN Wakes(p, FALSE)
       ELSE proc' = [proc EXCEPT ![p] = [Idle EXCEPT
                        !.at = "store", !.link = Len(log),
                        !.changed = Since(proc[p].link) # <<>>]]
    /\ UNCHANGED <<server, index, link, events, orphans>>

\* The link is stored before anything of what it covers; a failure to store it
\* is ignored.
StoreDeltaLink(p) ==
    /\ p # "fetch" /\ proc[p].at = "store"
    /\ link' \in {proc[p].link, link}
    /\ Wakes(p, proc[p].changed)
    /\ UNCHANGED <<server, index, events, orphans>>

OpenEventSource(p) ==
    /\ transport = "jmap" /\ proc[p].at = "wait"
    /\ proc' = [proc EXCEPT ![p].at = "stream", ![p].link = Len(log)]
    /\ UNCHANGED <<server, index, link, events, orphans>>

\* An event of a change since the stream was opened.
NextEvent(p) ==
    /\ proc[p].at = "stream" /\ Len(log) > proc[p].link
    /\ Wakes(p, TRUE)
    /\ UNCHANGED <<server, index, link, events, orphans>>

\* The wait fails; or the stream ends, which counts as a signal.
WaitFails(p) ==
    /\ p # "fetch" /\ proc[p].at \in {"wait", "ask", "stream"}
    /\ Wakes(p, proc[p].at = "stream")
    /\ UNCHANGED <<server, index, link, events, orphans>>

\* The daemon's timer drops the wait, wherever it is.
PollTimer ==
    /\ proc["daemon"].at \in {"wait", "ask", "store", "stream"}
    /\ Goes("daemon", "list")
    /\ UNCHANGED <<server, index, link, events, orphans>>

----------------------------------------------------------------------------
(* `inbx graph fetch` *)

StartFetch ==
    /\ transport = "graph" /\ "fetch" \in cast
    /\ proc["fetch"].at = "idle"
    /\ proc' = [proc EXCEPT !["fetch"].at = "ask", !["fetch"].link = link]
    /\ orphans' = IF link = 0 THEN orphans \cup index ELSE orphans
    /\ UNCHANGED <<server, index, link, events>>

\* Mutant: the first occurrence of a message counts.
PartitionByFirst(messages) ==
    LET ids == {messages[i].id : i \in DOMAIN messages}
        First(id) == messages[CHOOSE i \in DOMAIN messages :
                        messages[i].id = id /\ \A j \in 1 .. i - 1 : messages[j].id # id]
    IN  [live |-> {id \in ids : ~First(id).removed}, removed |-> {id \in ids : First(id).removed}]

\* The last occurrence of a message counts.
PartitionGraphDelta(messages) ==
    [live |-> LiveIn(messages),
     removed |-> {messages[i].id : i \in DOMAIN messages} \ LiveIn(messages)]

FetchDelta ==
    /\ proc["fetch"].at = "ask"
    /\ IF Expired(proc["fetch"].link) THEN Goes("fetch", "idle")
       ELSE LET parts == PartitionGraphDelta(Since(proc["fetch"].link))
            IN  proc' = [proc EXCEPT !["fetch"] = [Idle EXCEPT
                    !.at = "upsert", !.link = Len(log),
                    !.seen = parts.live, !.removed = parts.removed]]
    /\ UNCHANGED <<server, index, link, events, orphans>>

\* Message by message; the order tells nothing apart.
UpsertMessage ==
    /\ proc["fetch"].at = "upsert"
    /\ \E id \in proc["fetch"].seen :
          /\ index' = index \cup {id}
          /\ proc' = [proc EXCEPT !["fetch"].seen = @ \ {id}]
    /\ UNCHANGED <<server, link, events, orphans>>

DeleteRemoved ==
    /\ proc["fetch"].at = "upsert" /\ proc["fetch"].seen = {}
    /\ index' = index \ proc["fetch"].removed
    /\ proc' = [proc EXCEPT !["fetch"].at = "persist"]
    /\ UNCHANGED <<server, link, events, orphans>>

PersistDeltaLink ==
    /\ proc["fetch"].at = "persist"
    /\ link' = proc["fetch"].link
    /\ Goes("fetch", "idle")
    /\ UNCHANGED <<server, index, events, orphans>>

\* An error or a crash: what was upserted stays, the link is not stored.
FetchFails ==
    /\ proc["fetch"].at # "idle"
    /\ Goes("fetch", "idle")
    /\ UNCHANGED <<server, index, link, events, orphans>>

----------------------------------------------------------------------------

Sync(p) == List(p) \/ Apply(p)

Wait(p) ==
    \/ GetDeltaLink(p) \/ DeltaMessages(p) \/ StoreDeltaLink(p)
    \/ OpenEventSource(p) \/ NextEvent(p)

Fetch == StartFetch \/ FetchDelta \/ UpsertMessage \/ DeleteRemoved \/ PersistDeltaLink \/ FetchFails

Next ==
    \/ Change \/ Expire
    \/ \E p \in Programs : Sync(p) \/ SyncFails(p) \/ Wait(p) \/ WaitFails(p)
    \/ ManualSync \/ PollTimer
    \/ Fetch

\* The daemon and `inbx watch` run on, and the daemon's timer fires.
Fairness ==
    /\ \A p \in {"daemon", "watch"} : WF_vars(Sync(p)) /\ WF_vars(Wait(p))
    /\ WF_vars(PollTimer)

Spec == Init /\ [][Next]_vars /\ Fairness

----------------------------------------------------------------------------
(* Properties *)

\* Where only `inbx graph fetch` moves the link, the index agrees with the
\* server about every message that has not changed since the link: a fetch that
\* fails half-way is made up by the next one, and a message that came and went
\* between two links leaves no row.  Only the rows that were there before the
\* folder had a link may outlive their message, since no delta reports it.
Covered(id) == LastOf(log, id) \in 1 .. link
LinkCovers ==
    \A id \in Ids : Covered(id) =>
        /\ id \in Mailbox => id \in index
        /\ id \in index => id \in Mailbox \cup orphans
LinkCoversIndex == cast = {"fetch"} => LinkCovers

\* Whoever moves the link, and whatever a fetch that failed or was late left in
\* the index, a daemon or an `inbx watch` brings the index to what the folder
\* holds: although both store the link before they sync.
EventuallyCaughtUp ==
    cast \cap {"daemon", "watch"} # {} => <>[](index = Mailbox)

----------------------------------------------------------------------------
(* The invariants behind them *)

Entries == [id : Ids, removed : BOOLEAN]
Jobs ==
    [at : {"idle", "list", "apply", "wait", "ask", "store", "stream", "upsert", "persist"},
     seen : SUBSET Ids, removed : SUBSET Ids, link : Nat, changed : BOOLEAN]

\* The type of every variable.
TypeOK ==
    /\ transport \in Transports /\ cast \in Casts
    /\ log \in Seq(Entries) /\ oldest \in 0 .. Len(log)
    /\ index \subseteq Ids /\ orphans \subseteq Ids
    /\ link \in 0 .. Len(log)
    /\ proc \in [Programs -> Jobs] /\ \A p \in Programs : proc[p].link <= Len(log)
    /\ events \in 0 .. MaxEvents

\* Of the messages that last changed up to the link `to`: those in the folder are in
\* `listed`, and what is in `kept` is in the folder or an orphan.
Agrees(to, listed, kept) ==
    \A id \in Ids : LastOf(log, id) \in 1 .. to =>
        /\ id \in Mailbox => id \in listed
        /\ id \in kept => id \in Mailbox \cup orphans

\* Where only a fetch moves the link, it is the only one at work.  The index agrees
\* with the server up to the link; while changes are copied, what the index will be
\* agrees up to the next link; and a message that has not changed since that one
\* was is live or removed as the changes say.
FetchInv ==
    cast = {"fetch"} =>
        LET f == proc["fetch"] IN
        /\ \A p \in Programs \ {"fetch"} : proc[p].at = "idle"
        /\ f.at \in {"idle", "ask", "upsert", "persist"}
        /\ Agrees(link, index, index)
        /\ f.at = "ask" => f.link = link /\ (link = 0 => index \subseteq orphans)
        /\ f.at \in {"upsert", "persist"} => link <= f.link
        /\ f.at = "upsert" =>
              /\ Agrees(f.link, index \cup f.seen, (index \cup f.seen) \ f.removed)
              /\ \A id \in Ids : LastOf(log, id) \in 1 .. f.link =>
                    /\ id \in f.seen => id \in Mailbox
                    /\ id \in f.removed => id \notin Mailbox
        /\ f.at = "persist" => Agrees(f.link, index, index)
=============================================================================
