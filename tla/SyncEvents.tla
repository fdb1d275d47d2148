------------------------------ MODULE SyncEvents ------------------------------
(***************************************************************************)
(* From the server to the screen: the sync loop, the events it broadcasts  *)
(* over the Unix socket, and the TUI that reloads its view on them.        *)
(*                                                                         *)
(* inbx-sync runs one loop per account: discover, sync every folder, emit  *)
(* FolderUpdated after each, wait for a push or the poll timer.  A client  *)
(* receives events through a broadcast ring that drops the oldest when it  *)
(* is full, a socket and a task queue.  When no daemon answers, or the     *)
(* connection ends, the TUI runs the same loop in its own process for its  *)
(* account.  Without a daemon it also watches the open folder, and each    *)
(* signal starts a manual sync unless an operation is pending.             *)
(*                                                                         *)
(* Heartbeats only record a time and are left out.                         *)
(*                                                                         *)
(* The contents of a folder are a version number; stored snapshots never   *)
(* go back, which is SnapshotStore's IndexNeverGoesBack.                   *)
(***************************************************************************)
EXTENDS Naturals, Sequences

CONSTANTS
    Accounts, Me,    \* accounts, and the TUI's
    Services,        \* sets of accounts that a daemon may be started for
    Folders,         \* folders of each account
    Idle,            \* the idle folder: discovery and push
    Open,            \* the folder the TUI shows
    Cap,             \* slots of the broadcast ring (64)
    MaxChanges,      \* bound: changes on the server
    MaxFaults,       \* bound: failed syncs and daemon crashes
    MaxQueue         \* bound: entries of the task queue

ASSUME AccountsAssumption == Me \in Accounts
ASSUME ServicesAssumption == Services \subseteq {s \in SUBSET Accounts : Me \in s}
ASSUME FoldersAssumption == {Idle, Open} \subseteq Folders
ASSUME BoundsAssumption ==
    /\ Cap \in Nat \ {0} /\ MaxQueue \in Nat \ {0}
    /\ MaxChanges \in Nat /\ MaxFaults \in Nat

VARIABLES
    remote,    \* remote[a][f]: version on the server
    stored,    \* stored[a][f]: version in the account's store
    daemon,    \* whether inbx-sync runs
    loop,      \* loop[t]: the sync loops
    conn,      \* the TUI's connection to the daemon
    ring,      \* broadcast events not yet written to the socket
    skipped,   \* ghost: events the ring has dropped
    queue,     \* the TUI's task queue, with what is on the way to it
    tui,       \* where the TUI is
    shown,     \* version of the open folder on the screen
    op,        \* the manual sync: what it does, and what it fetched
    changes, faults   \* ghosts: counters for the bounds

daemonVars == <<daemon, loop, stored>>
linkVars == <<conn, ring, skipped>>
vars == <<remote, daemonVars, linkVars, queue, tui, shown, op, changes, faults>>

----------------------------------------------------------------------------
(* Values. *)

DaemonTasks == {"daemon"} \X Accounts
LocalTask == <<"local", Me>>
Tasks == DaemonTasks \cup {LocalTask}

Versions == 0..MaxChanges
Events == [type : {"updated"}, account : Accounts]
Updated(a) == [type |-> "updated", account |-> a]
Signals == {[type |-> s] : s \in {"hello", "eof", "watch", "synced"}}
Signal(s) == [type |-> s]

Away == [at |-> "away", cur |-> Idle, todo |-> {}, got |-> 0]
Off == [at |-> "off", cur |-> Idle, todo |-> {}, got |-> 0]
NewCycle == [at |-> "fetch", cur |-> Idle, todo |-> Folders \ {Idle}, got |-> 0]
\* The accounts that the daemon serves, whenever it runs.
Served == {a \in Accounts : loop[<<"daemon", a>>].at # "away"}

NoOp == [at |-> "none", got |-> 0]

Later(v, w) == IF v > w THEN v ELSE w

----------------------------------------------------------------------------
(* The server. *)

ServerChange ==
    /\ changes < MaxChanges
    /\ changes' = changes + 1
    /\ \E a \in Served, f \in Folders : remote' = [remote EXCEPT ![a][f] = @ + 1]
    /\ UNCHANGED <<daemonVars, linkVars, queue, tui, shown, op, faults>>

----------------------------------------------------------------------------
(* The sync loop.  The rest of a cycle after the current folder: the next   *)
(* folder the store lists, or waiting.                                      *)

Advance(l) ==
    IF l.todo = {} THEN {[l EXCEPT !.at = "wait"]}
    ELSE {[l EXCEPT !.at = "fetch", !.cur = f, !.todo = @ \ {f}] : f \in l.todo}

FetchFolder(t) ==
    /\ loop[t].at = "fetch"
    /\ loop' = [loop EXCEPT ![t].at = "apply", ![t].got = remote[t[2]][loop[t].cur]]
    /\ UNCHANGED <<remote, daemon, stored, linkVars, queue, tui, shown, op, changes, faults>>

ApplyFolder(t) ==
    /\ loop[t].at = "apply"
    /\ stored' = [stored EXCEPT ![t[2]][loop[t].cur] = Later(@, loop[t].got)]
    /\ loop' = [loop EXCEPT ![t].at = "emit"]
    /\ UNCHANGED <<remote, daemon, linkVars, queue, tui, shown, op, changes, faults>>

\* Mutant: an error ends the loop.
SyncFailsForGood(t) ==
    /\ loop[t].at \in {"fetch", "apply"}
    /\ faults < MaxFaults
    /\ faults' = faults + 1
    /\ loop' = [loop EXCEPT ![t] = Off]
    /\ UNCHANGED <<remote, daemon, stored, linkVars, queue, tui, shown, op, changes>>

\* sync_once fails: discovery sleeps and starts over, another folder is passed by.
SyncFails(t) ==
    /\ loop[t].at \in {"fetch", "apply"}
    /\ faults < MaxFaults
    /\ faults' = faults + 1
    /\ \E l \in IF loop[t].cur = Idle THEN {NewCycle} ELSE Advance(loop[t]) :
        loop' = [loop EXCEPT ![t] = l]
    /\ UNCHANGED <<remote, daemon, stored, linkVars, queue, tui, shown, op, changes>>

\* Every subscribed client gets the event, in place of its oldest if it lags.
Broadcast(e) ==
    /\ IF conn \in {"subscribed", "live"}
       THEN LET full == Len(ring) = Cap IN
            /\ ring' = Append(IF full THEN Tail(ring) ELSE ring, e)
            /\ skipped' = (skipped \/ full)
       ELSE UNCHANGED <<ring, skipped>>
    /\ UNCHANGED <<conn, queue>>

\* emit_folder_updated, to the socket or, in the TUI's process, to its queue.
Emit(t) ==
    /\ loop[t].at = "emit"
    /\ \E l \in Advance(loop[t]) : loop' = [loop EXCEPT ![t] = l]
    /\ IF t = LocalTask
       THEN /\ Len(queue) < MaxQueue
            /\ queue' = Append(queue, Updated(t[2]))
            /\ UNCHANGED linkVars
       ELSE Broadcast(Updated(t[2]))
    /\ UNCHANGED <<remote, daemon, stored, tui, shown, op, changes, faults>>

\* A push on the idle folder or the poll timer, whichever is first.
Wake(t) ==
    /\ loop[t].at = "wait"
    /\ loop' = [loop EXCEPT ![t] = NewCycle]
    /\ UNCHANGED <<remote, daemon, stored, linkVars, queue, tui, shown, op, changes, faults>>

----------------------------------------------------------------------------
(* The daemon's process and its socket. *)

DaemonStarts ==
    /\ ~daemon
    /\ daemon' = TRUE
    /\ loop' = [t \in Tasks |-> IF t[1] = "daemon" /\ t[2] \in Served THEN NewCycle ELSE loop[t]]
    /\ UNCHANGED <<remote, stored, linkVars, queue, tui, shown, op, changes, faults>>

\* The client's pump reads what was written, then the end of the stream.
DaemonStops ==
    /\ daemon
    /\ faults < MaxFaults
    /\ faults' = faults + 1
    /\ daemon' = FALSE
    /\ loop' = [t \in Tasks |-> IF t[1] = "daemon" /\ t[2] \in Served THEN Off ELSE loop[t]]
    /\ IF conn \in {"pending", "subscribed", "live"}
       THEN conn' = "gone" /\ ring' = <<>> /\ queue' = Append(queue, Signal("eof"))
       ELSE UNCHANGED <<conn, ring, queue>>
    /\ UNCHANGED <<remote, stored, skipped, tui, shown, op, changes>>

\* The accept loop takes the connection and subscribes, then says hello.
Subscribe ==
    /\ conn = "pending"
    /\ conn' = "subscribed"
    /\ UNCHANGED <<remote, daemonVars, ring, skipped, queue, tui, shown, op, changes, faults>>

Greet ==
    /\ conn = "subscribed"
    /\ conn' = "live"
    /\ queue' = Append(queue, Signal("hello"))
    /\ UNCHANGED <<remote, daemonVars, ring, skipped, tui, shown, op, changes, faults>>

Forward ==
    /\ conn = "live" /\ ring # <<>>
    /\ Len(queue) < MaxQueue
    /\ queue' = Append(queue, Head(ring))
    /\ ring' = Tail(ring)
    /\ UNCHANGED <<remote, daemonVars, conn, skipped, tui, shown, op, changes, faults>>

----------------------------------------------------------------------------
(* The TUI. *)

StartLocalSync == loop' = [loop EXCEPT ![LocalTask] = IF @.at = "off" THEN NewCycle ELSE @]

\* App::new connects, unless nobody answers within the timeout.
Connect ==
    /\ tui = "start"
    /\ tui' = "load"
    /\ \/ daemon /\ conn' = "pending" /\ UNCHANGED loop
       \/ conn' = "none" /\ StartLocalSync
    /\ UNCHANGED <<remote, stored, daemon, ring, skipped, queue, shown, op, changes, faults>>

Reload == shown' = stored[Me][Open]

Load ==
    /\ tui = "load"
    /\ tui' = "run"
    /\ Reload
    /\ UNCHANGED <<remote, daemonVars, linkVars, queue, op, changes, faults>>

\* A manual sync by key or by the watch; refused while one is pending.
ManualSync == op' = IF op = NoOp THEN [at |-> "fetch", got |-> 0] ELSE op

\* Mutant: hello is only a version check.
HandleUpdates ==
    /\ tui = "run" /\ queue # <<>>
    /\ queue' = Tail(queue)
    /\ LET e == Head(queue) IN
       CASE e.type = "updated" /\ e.account = Me -> Reload /\ UNCHANGED <<loop, op>>
         [] e.type = "eof" -> StartLocalSync /\ UNCHANGED <<shown, op>>
         [] e.type = "watch" -> ManualSync /\ UNCHANGED <<loop, shown>>
         [] e.type = "synced" -> Reload /\ op' = NoOp /\ UNCHANGED loop
         [] OTHER -> UNCHANGED <<loop, shown, op>>
    /\ UNCHANGED <<remote, stored, daemon, linkVars, tui, changes, faults>>

HandleTask ==
    /\ tui = "run" /\ queue # <<>>
    /\ queue' = Tail(queue)
    /\ LET e == Head(queue) IN
       CASE e.type = "hello" -> Reload /\ UNCHANGED <<loop, op>>
         [] e.type = "updated" /\ e.account = Me -> Reload /\ UNCHANGED <<loop, op>>
         [] e.type = "updated" /\ e.account # Me -> UNCHANGED <<loop, shown, op>>
         [] e.type = "eof" -> StartLocalSync /\ UNCHANGED <<shown, op>>
         [] e.type = "watch" -> ManualSync /\ UNCHANGED <<loop, shown>>
         [] e.type = "synced" -> Reload /\ op' = NoOp /\ UNCHANGED loop
    /\ UNCHANGED <<remote, stored, daemon, linkVars, tui, changes, faults>>

\* The watch of the open folder runs only without a daemon connection.
WatchSignals ==
    /\ tui = "run" /\ conn \in {"none", "gone"} /\ Signal("eof") \notin {queue[i] : i \in DOMAIN queue}
    /\ remote[Me][Open] > stored[Me][Open]
    /\ Len(queue) < MaxQueue
    /\ queue' = Append(queue, Signal("watch"))
    /\ UNCHANGED <<remote, daemonVars, linkVars, tui, shown, op, changes, faults>>

\* The sync key.
UserSyncs ==
    /\ tui = "run" /\ op = NoOp
    /\ ManualSync
    /\ UNCHANGED <<remote, daemonVars, linkVars, queue, tui, shown, changes, faults>>

ManualFetch ==
    /\ op.at = "fetch"
    /\ op' = [at |-> "apply", got |-> remote[Me][Open]]
    /\ UNCHANGED <<remote, daemonVars, linkVars, queue, tui, shown, changes, faults>>

\* do_manual_sync applies and posts SyncDone.
ManualApply ==
    /\ op.at = "apply"
    /\ stored' = [stored EXCEPT ![Me][Open] = Later(@, op.got)]
    /\ op' = [op EXCEPT !.at = "done"]
    /\ queue' = Append(queue, Signal("synced"))
    /\ UNCHANGED <<remote, daemon, loop, linkVars, tui, shown, changes, faults>>

\* An error, or a snapshot superseded before it could be applied, is posted too.
ManualFails ==
    /\ op.at \in {"fetch", "apply"}
    /\ faults < MaxFaults
    /\ faults' = faults + 1
    /\ op' = [op EXCEPT !.at = "done"]
    /\ queue' = Append(queue, Signal("synced"))
    /\ UNCHANGED <<remote, daemonVars, linkVars, tui, shown, changes>>

----------------------------------------------------------------------------
Init ==
    /\ remote = [a \in Accounts |-> [f \in Folders |-> 0]]
    /\ stored = remote
    /\ daemon \in BOOLEAN
    /\ \E served \in Services :
        loop = [t \in Tasks |->
                  CASE t \in DaemonTasks /\ t[2] \notin served -> Away
                    [] t \in DaemonTasks /\ t[2] \in served /\ daemon -> NewCycle
                    [] OTHER -> Off]
    /\ conn = "none" /\ ring = <<>> /\ skipped = FALSE
    /\ queue = <<>>
    /\ tui = "start" /\ shown = 0 /\ op = NoOp
    /\ changes = 0 /\ faults = 0

LoopStep(t) == FetchFolder(t) \/ ApplyFolder(t) \/ Emit(t) \/ Wake(t)
LinkStep == Subscribe \/ Greet \/ Forward
TuiStep == Connect \/ Load \/ HandleTask \/ ManualFetch \/ ManualApply

Next ==
    \/ ServerChange
    \/ \E t \in Tasks : LoopStep(t) \/ SyncFails(t)
    \/ DaemonStarts \/ DaemonStops
    \/ LinkStep
    \/ TuiStep
    \/ WatchSignals \/ UserSyncs \/ ManualFails

Spec == Init /\ [][Next]_vars

\* Tokio runs every task that is ready; the poll timer always fires; a network
\* request ends.  Strong where the bound of the model's queue, which the code does
\* not have, can stop a step.  Nobody promises to start a daemon, or that a watch
\* signals.
Fairness ==
    /\ \A t \in Tasks : SF_vars(LoopStep(t))
    /\ SF_vars(LinkStep)
    /\ WF_vars(Connect) /\ WF_vars(Load) /\ WF_vars(HandleTask)
    /\ WF_vars(ManualFetch) /\ WF_vars(ManualApply)

FairSpec == Spec /\ Fairness

----------------------------------------------------------------------------
(* Properties *)

TypeOK ==
    /\ remote \in [Accounts -> [Folders -> Versions]]
    /\ stored \in [Accounts -> [Folders -> Versions]]
    /\ daemon \in BOOLEAN
    /\ loop \in [Tasks -> [at : {"away", "off", "fetch", "apply", "emit", "wait"}, cur : Folders,
                           todo : SUBSET Folders, got : Versions]]
    /\ conn \in {"none", "pending", "subscribed", "live", "gone"}
    /\ ring \in Seq(Events) /\ Len(ring) <= Cap
    /\ skipped \in BOOLEAN
    /\ queue \in Seq(Events \cup Signals)
    /\ tui \in {"start", "load", "run"} /\ shown \in Versions
    /\ op \in [at : {"none", "fetch", "apply", "done"}, got : Versions]
    /\ changes \in 0..MaxChanges /\ faults \in 0..MaxFaults

\* Once a connected TUI has nothing left to read, its screen shows what the
\* store has, although it loads before the daemon has subscribed it, and, when
\* the daemon has one account, although a lagging client loses events: the
\* newest survives.  (Another account's events can push it out.)
ConnectedViewIsFresh ==
    /\ Served = {Me} \/ ~skipped
    /\ tui = "run" /\ conn = "live" /\ ring = <<>> /\ queue = <<>>
    /\ loop[<<"daemon", Me>>].at # "emit"
    => shown = stored[Me][Open]

\* Why the versions stay in their range: the server's count its changes.
VersionInv == \A a \in Accounts, f \in Folders : remote[a][f] <= changes

\* What a connection to the daemon says: the daemon runs; and the TUI's own loop does
\* not, and has not been told to, so that one process syncs the account.
Connected == conn \in {"pending", "subscribed", "live"}

LinkInv ==
    /\ tui = "start" => conn = "none"
    /\ Connected => daemon
    /\ tui = "start" \/ Connected =>
          /\ loop[LocalTask] = Off
          /\ \A i \in DOMAIN queue : queue[i] # Signal("eof")

\* Why the screen catches up: what it does not show yet is about to be announced,
\* or an event that makes it reload is in the ring or in the queue.
Reloads(e) == e \in {Signal("hello"), Signal("synced"), Updated(Me)}

OnTheWay ==
    \/ loop[<<"daemon", Me>>].at = "emit"
    \/ \E i \in DOMAIN ring : ring[i] = Updated(Me)
    \/ \E i \in DOMAIN queue : Reloads(queue[i])

FreshInv ==
    /\ Served = {Me} \/ ~skipped
    /\ tui = "run" /\ conn = "live"
    => shown = stored[Me][Open] \/ OnTheWay

\* What changes on the server reaches the screen, whatever process syncs it,
\* whenever the daemon stops and however often a sync fails, as long as the
\* daemon has one account: infinitely often the screen has all that the server has.
\* (The events of another account may push out this one's from the ring every time.)
EventuallyShown == []<>(Served = {Me} => shown >= remote[Me][Open])
================================================================================
