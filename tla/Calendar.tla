------------------------------ MODULE Calendar ------------------------------
(***************************************************************************)
(* The CalDAV mirror of one account: a directory of .ics files, its        *)
(* `_index.toml`, and the commands that work on them -- `inbx cal caldav   *)
(* pull`, `cal put`, `cal delete`, `cal rsvp`.  Each is a process; all but *)
(* the last read the whole index when they start and write the whole index *)
(* when they end.  Other programs edit the same collections.               *)
(*                                                                         *)
(* An event is known by its href; its UID and its file name go with it     *)
(* (servers keep one UID per resource).  The version of an event stands    *)
(* for its content and for the etag the server gives that content: a       *)
(* server never reuses an etag.  Version 0 is "no such resource", "no such *)
(* file", "no entry".  External: the CalDAV server.                        *)
(***************************************************************************)
EXTENDS Integers, Sequences, FiniteSets, Dav

CONSTANTS
    Events,       \* the events of the user's calendar, collection "cal"
    Stray,        \* the resource of the other collection of the home set
    DavServers,   \* servers: what discovery meets, and whether "other" is a calendar
    Processes,    \* commands that may run at the same time
    MaxVersion,   \* bound: versions an event goes through
    MaxFaults     \* bound: commands that fail or are killed half-way

ASSUME CalendarAssumption == /\ Stray \notin Events
                             /\ MaxVersion \in Nat \ {0}
                             /\ MaxFaults \in Nat

VARIABLES
    dav,       \* what the server's PROPFINDs answer
    server,    \* server[e]: the version of e on the server
    issued,    \* issued[e]: the last version issued for e
    file,      \* file[e]: the version in <store_dir>/<uid>.ics
    index,     \* index[e]: the etag in _index.toml
    job,       \* job[p]: what process p is doing
    seen,      \* history: seen[e], the versions the file has held
    mishaps,   \* history: what the user did or suffered
    faults

vars == <<dav, server, issued, file, index, job, seen, mishaps, faults>>

Resources == Events \cup {Stray}

\* The etag recorded when the server's answer to a PUT carries none.
Blank == -1

Collection(e) == IF e = Stray THEN "other" ELSE "cal"

Nothing == [e \in Resources |-> 0]

Idle == [pc |-> "idle", of |-> Stray, if_match |-> 0, etags |-> Nothing, changed |-> {}, got |-> Nothing, mine |-> Nothing]

\* What is left of a command when it comes to save the index.
Saving(mine) == [Idle EXCEPT !.pc = "save", !.mine = mine]

Init ==
    /\ dav \in DavServers
    /\ server = [e \in Resources |-> 1]
    /\ issued = server
    /\ file = Nothing /\ index = Nothing
    /\ job = [p \in Processes |-> Idle]
    /\ seen = [e \in Events |-> {}]
    /\ mishaps = {} /\ faults = 0

\* The files of some events become those versions; version 0 removes a file.
WriteTo(events, versions) ==
    /\ file' = [e \in Resources |-> IF e \in events THEN versions[e] ELSE file[e]]
    /\ seen' = [e \in Events |-> IF e \in events THEN seen[e] \cup ({versions[e]} \ {0}) ELSE seen[e]]

\* Command p starts: it reads the index (load_index; none is an empty one).
Begin(p, doing) ==
    /\ job[p].pc = "idle"
    /\ job' = [job EXCEPT ![p] = doing]

\* What starting a command now does to the history.
Overlap(p) == IF \E q \in Processes \ {p} : job[q].pc \notin {"idle", "answer"} THEN {"overlap"} ELSE {}

-----------------------------------------------------------------------------
(* inbx cal caldav pull                                                    *)

\* The collection to mirror: the --url, or the first that discover returns.
Target(discover) ==
    IF ~discover THEN "cal"
    ELSE IF Discover(dav.answers) = <<>> THEN "none" ELSE Head(Discover(dav.answers)).url

StartPull(p, discover) ==
    /\ Target(discover) # "none"   \* no calendars discovered: bail
    /\ Begin(p, [Idle EXCEPT !.pc = "list", !.of = Target(discover), !.mine = index])
    /\ mishaps' = mishaps \cup Overlap(p) \cup (IF Target(discover) = "cal" THEN {} ELSE {"mixed"})
    /\ UNCHANGED <<dav, server, issued, file, index, seen, faults>>

\* compute_diff on the etags just listed and the index as it was read.
Changed(etags, mine) == {e \in Resources : etags[e] # 0 /\ etags[e] # mine[e]}
Removed(etags, mine) == {e \in Resources : mine[e] # 0 /\ etags[e] = 0}

\* list_etags: one PROPFIND of the collection; what ends in a slash, as the
\* collections of a home set do, is left out.
Listed(from) == [e \in Resources |-> IF Collection(e) = from THEN server[e] ELSE 0]

List(p) ==
    /\ job[p].pc = "list"
    /\ job' = [job EXCEPT ![p].etags = Listed(job[p].of), ![p].pc = "remove"]
    /\ UNCHANGED <<dav, server, issued, file, index, seen, mishaps, faults>>

\* The files of hrefs the server no longer lists go, and their entries.
RemoveGone(p) ==
    /\ job[p].pc = "remove"
    /\ LET etags == job[p].etags
           gone == Removed(etags, job[p].mine)
           changed == Changed(etags, job[p].mine)
       IN /\ WriteTo(gone, Nothing)
          /\ LET left == [e \in Resources |-> IF e \in gone THEN 0 ELSE job[p].mine[e]] IN
             job' = [job EXCEPT ![p] = IF changed = {} THEN Saving(left)
                                       ELSE [@ EXCEPT !.mine = left, !.changed = changed, !.pc = "multiget"]]
    /\ UNCHANGED <<dav, server, issued, index, mishaps, faults>>

\* multiget: the bodies of the changed hrefs, as they are now.  A resource that
\* went since the listing has no calendar-data in the answer; a collection that
\* is no calendar refuses the REPORT.
Multiget(p) ==
    /\ job[p].pc = "multiget"
    /\ LET j == job[p]
           here == {e \in j.changed : server[e] # 0}
       IN IF Stray \in j.changed /\ ~dav.other_is_calendar
          THEN job' = [job EXCEPT ![p] = Idle]
          ELSE job' = [job EXCEPT ![p] = IF here = {} THEN Saving(j.mine)
                                         ELSE [j EXCEPT !.changed = here, !.pc = "write",
                                                        !.got = [e \in Resources |-> IF e \in here THEN server[e] ELSE 0]]]
    /\ UNCHANGED <<dav, server, issued, file, index, seen, mishaps, faults>>

\* Mutant: the etag recorded is the one a PROPFIND gives after the bodies.
WriteFileListingLast(p) ==
    /\ job[p].pc = "write"
    /\ \E e \in job[p].changed :
         LET j == job[p]
             mine == [j.mine EXCEPT ![e] = server[e]]
         IN /\ WriteTo({e}, j.got)
            /\ job' = [job EXCEPT ![p] = IF j.changed = {e} THEN Saving(mine)
                                         ELSE [j EXCEPT !.mine = mine, !.changed = j.changed \ {e}]]
    /\ UNCHANGED <<dav, server, issued, index, mishaps, faults>>

\* One response of the multistatus, in the server's order: the file is written
\* and the entry gets the etag that the *listing* gave the href.
WriteFile(p) ==
    /\ job[p].pc = "write"
    /\ \E e \in job[p].changed :
         LET j == job[p]
             mine == [j.mine EXCEPT ![e] = j.etags[e]]
         IN /\ WriteTo({e}, j.got)
            /\ job' = [job EXCEPT ![p] = IF j.changed = {e} THEN Saving(mine)
                                         ELSE [j EXCEPT !.mine = mine, !.changed = j.changed \ {e}]]
    /\ UNCHANGED <<dav, server, issued, index, mishaps, faults>>

\* save_index: fs::write truncates the file, then writes the whole index.
Truncate(p) ==
    /\ job[p].pc = "save"
    /\ index' = Nothing
    /\ job' = [job EXCEPT ![p].pc = "saving"]
    /\ UNCHANGED <<dav, server, issued, file, seen, mishaps, faults>>

Save(p) ==
    /\ job[p].pc = "saving"
    /\ index' = job[p].mine
    /\ job' = [job EXCEPT ![p] = Idle]
    /\ UNCHANGED <<dav, server, issued, file, seen, mishaps, faults>>

-----------------------------------------------------------------------------
(* inbx cal put, cal delete, cal rsvp                                      *)

\* Put an event: an entry in the index makes it an update of that etag, none a create.
StartPut(p, e) ==
    /\ e # Stray
    /\ Begin(p, [Idle EXCEPT !.pc = "put", !.of = e, !.if_match = index[e], !.mine = index])
    /\ mishaps' = mishaps \cup Overlap(p)
    /\ UNCHANGED <<dav, server, issued, file, index, seen, faults>>

\* put_event: If-Match the entry's etag, or If-None-Match: * to create; the
\* server refuses when the condition fails.  An empty etag matches nothing.
Accepts(e, if_match) == server[e] = if_match

Put(p) ==
    /\ job[p].pc = "put"
    /\ LET j == job[p]
           new == issued[j.of] + 1
       IN \/ /\ ~Accepts(j.of, j.if_match)
             /\ job' = [job EXCEPT ![p] = Idle]
             /\ UNCHANGED <<server, issued>>
          \/ /\ Accepts(j.of, j.if_match)
             /\ new <= MaxVersion
             /\ server' = [server EXCEPT ![j.of] = new]
             /\ issued' = [issued EXCEPT ![j.of] = new]
             /\ \E etag \in {new, Blank} :
                  job' = [job EXCEPT ![p].pc = "store", ![p].got[j.of] = new, ![p].etags[j.of] = etag]
    /\ UNCHANGED <<dav, file, index, seen, mishaps, faults>>

\* The local file follows the server, then the entry takes the new etag.
StorePut(p) ==
    /\ job[p].pc = "store"
    /\ LET j == job[p] IN
         /\ WriteTo({j.of}, j.got)
         /\ job' = [job EXCEPT ![p] = Saving([j.mine EXCEPT ![j.of] = j.etags[j.of]])]
    /\ UNCHANGED <<dav, server, issued, index, mishaps, faults>>

\* Delete needs an entry; --force sends no If-Match.
StartDelete(p, e, force) ==
    /\ index[e] # 0
    /\ Begin(p, [Idle EXCEPT !.pc = IF force THEN "delete by force" ELSE "delete",
                             !.of = e, !.if_match = index[e], !.mine = index])
    /\ mishaps' = mishaps \cup Overlap(p)
    /\ UNCHANGED <<dav, server, issued, file, index, seen, faults>>

\* delete_event: 404 is success, a version other than If-Match names is refused.
Delete(p) ==
    /\ job[p].pc \in {"delete", "delete by force"}
    /\ LET e == job[p].of IN
         IF job[p].pc = "delete by force" \/ server[e] = 0 \/ Accepts(e, job[p].if_match)
         THEN /\ server' = [server EXCEPT ![e] = 0]
              /\ job' = [job EXCEPT ![p].pc = "forget"]
         ELSE /\ job' = [job EXCEPT ![p] = Idle]
              /\ UNCHANGED server
    /\ UNCHANGED <<dav, issued, file, index, seen, mishaps, faults>>

Forget(p) ==
    /\ job[p].pc = "forget"
    /\ LET e == job[p].of IN
         /\ WriteTo({e}, Nothing)
         /\ job' = [job EXCEPT ![p] = Saving([@.mine EXCEPT ![e] = 0])]
    /\ UNCHANGED <<dav, server, issued, index, mishaps, faults>>

\* RSVP: the stored file is read, and the reply to that version is sent by SMTP
\* (not through the outbox); index and server play no part.
StartRsvp(p, e) ==
    /\ file[e] # 0
    /\ Begin(p, [Idle EXCEPT !.pc = "answer", !.of = e])
    /\ UNCHANGED <<dav, server, issued, file, index, seen, mishaps, faults>>

Answer(p) ==
    /\ job[p].pc = "answer"
    /\ job' = [job EXCEPT ![p] = Idle]
    /\ UNCHANGED <<dav, server, issued, file, index, seen, mishaps, faults>>

-----------------------------------------------------------------------------
(* The world                                                               *)

\* Another program creates, changes or deletes an event of the calendar.
RemoteEdit(e) ==
    /\ e # Stray
    /\ issued[e] < MaxVersion
    /\ server' = [server EXCEPT ![e] = issued[e] + 1]
    /\ issued' = [issued EXCEPT ![e] = @ + 1]
    /\ UNCHANGED <<dav, file, index, job, seen, mishaps, faults>>

RemoteDelete(e) ==
    /\ e # Stray /\ server[e] # 0
    /\ server' = [server EXCEPT ![e] = 0]
    /\ UNCHANGED <<dav, issued, file, index, job, seen, mishaps, faults>>

\* A request fails, and the command returns through `?` with the index unsaved.
Fail(p) ==
    /\ job[p].pc \in {"list", "multiget", "put", "delete", "delete by force"}
    /\ faults < MaxFaults
    /\ job' = [job EXCEPT ![p] = Idle]
    /\ faults' = faults + 1
    /\ UNCHANGED <<dav, server, issued, file, index, seen, mishaps>>

\* The process is killed between two steps.
Crash(p) ==
    /\ job[p].pc \in {"remove", "write", "store", "forget", "save", "saving"}
    /\ faults < MaxFaults
    /\ job' = [job EXCEPT ![p] = Idle]
    /\ faults' = faults + 1
    /\ mishaps' = mishaps \cup {"crash"}
    /\ UNCHANGED <<dav, server, issued, file, index, seen>>

Work(p) == \/ List(p) \/ RemoveGone(p) \/ Multiget(p) \/ WriteFile(p)
           \/ Put(p) \/ StorePut(p) \/ Delete(p) \/ Forget(p) \/ Answer(p)
           \/ Truncate(p) \/ Save(p)

Next ==
    \/ \E p \in Processes :
         \/ Work(p) \/ Fail(p) \/ Crash(p)
         \/ \E discover \in BOOLEAN : StartPull(p, discover)
         \/ \E e \in Resources : \/ StartPut(p, e) \/ StartRsvp(p, e)
                                 \/ \E force \in BOOLEAN : StartDelete(p, e, force)
    \/ \E e \in Resources : RemoteEdit(e) \/ RemoteDelete(e)

\* A command that runs goes on, and the user pulls the calendar now and then.
Fairness ==
    /\ \A p \in Processes : WF_vars(Work(p))
    /\ SF_vars(\E p \in Processes : StartPull(p, FALSE))

Spec == Init /\ [][Next]_vars /\ Fairness

-----------------------------------------------------------------------------
(* Properties                                                              *)

\* What an update or a plain `cal delete` takes off the server is a version
\* this machine has had in the event's file: somebody else's edit is never
\* lost unseen, whatever overlaps, fails or dies.  If-Match gives that only
\* because an etag enters the index after a file that is no older: the listing
\* is asked for before the bodies, and the index is written after the files.
\* (That the file *still* holds the version is more than commands that overlap
\* can promise: each writes back the index it read.)
ReplacesOnlyWhatWasSeen ==
    [][\A p \in Processes : LET e == job[p].of IN
          job[p].pc \in {"put", "delete"} /\ job'[p].pc \in {"store", "forget"} /\ e \in Events /\ server[e] # 0
          => server[e] \in seen[e]]_vars

\* While commands run one at a time on one calendar, every event of the server
\* ends up in its file, whatever fails or dies on the way; and without a kill
\* in the middle of a command no file of a deleted event stays (rsvp would
\* answer it).
Mirrored ==
    /\ mishaps \cap {"overlap", "mixed"} # {}
       \/ \A e \in Events : server[e] # 0 => file[e] = server[e]
    /\ mishaps # {} \/ \A e \in Events : file[e] = server[e]
-----------------------------------------------------------------------------
(* Why an update replaces only what was seen                               *)

Etags == Nat \cup {Blank}

JobTypes(j) ==
    /\ j \in [pc : {j.pc}, of : {j.of}, if_match : Etags, etags : [Resources -> Etags],
              changed : SUBSET Resources, got : [Resources -> Nat], mine : [Resources -> Etags]]
    /\ j.pc \in {"put", "store"} => j.of \in Events
    /\ j.pc \in {"delete", "delete by force", "forget"} => j.of \in Resources

CalendarTypes ==
    /\ server \in [Resources -> Nat] /\ issued \in [Resources -> Nat]
    /\ \A e \in Resources : server[e] <= issued[e]
    /\ index \in [Resources -> Etags]
    /\ DOMAIN job = Processes /\ \A p \in Processes : JobTypes(job[p])
    /\ DOMAIN seen = Events

\* A version that the server has left behind for good: it reuses no etag.
Superseded(e, etag) == etag \in 1 .. issued[e] /\ server[e] # etag

\* An etag that matches nothing, or only what this machine has had.
Known(e, etag) == etag \in {0, Blank} \/ etag \in seen[e] \/ Superseded(e, etag)

\* Every etag on record is known; what is about to be recorded will be, once
\* the file it goes with is written.
EtagsInv ==
    /\ \A e \in Events : Known(e, index[e])
    /\ \A p \in Processes : LET j == job[p] IN
          /\ \A e \in Events : Known(e, j.mine[e])
          /\ j.pc \in {"put", "delete"} /\ j.of \in Events => Known(j.of, j.if_match)
          /\ j.pc \in {"remove", "multiget", "write"} => \A e \in Events : j.etags[e] \in 0 .. issued[e]
          /\ j.pc = "write" => \A e \in j.changed \cap Events :
                j.got[e] # 0 /\ (j.etags[e] \in {0, j.got[e]} \/ Superseded(e, j.etags[e]))
          /\ j.pc = "store" => j.got[j.of] # 0 /\ j.etags[j.of] \in {j.got[j.of], Blank}
=============================================================================
