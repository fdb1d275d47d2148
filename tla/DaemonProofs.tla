----------------------------- MODULE DaemonProofs -----------------------------
(* Theorems about SyncEvents, for any accounts, folders, services and ring:   *)
(* the type invariant, the connection that keeps the account's loop in one    *)
(* process, and the screen that shows what the store has once there is        *)
(* nothing left to read.  Then those about DaemonSocket, where one daemon     *)
(* serves at a time.  The two share no state.                                 *)
EXTENDS SyncEvents, DaemonSocket, TLAPS

Loops == [at : {"away", "off", "fetch", "apply", "emit", "wait"}, cur : Folders,
          todo : SUBSET Folders, got : Versions]
Messages == Events \cup Signals
ManualOps == [at : {"none", "fetch", "apply", "done"}, got : Versions]

\* The tasks are the daemon's, one for each account, and the TUI's.
LEMMA TaskFacts ==
    /\ LocalTask \in Tasks /\ LocalTask[2] = Me /\ LocalTask \notin DaemonTasks
    /\ \A a \in Accounts : <<"daemon", a>> \in DaemonTasks /\ <<"daemon", a>> \in Tasks
    /\ \A t \in Tasks : t[2] \in Accounts /\ (t # LocalTask => t = <<"daemon", t[2]>>)
BY AccountsAssumption DEF Tasks, DaemonTasks, LocalTask

\* The messages there are.
LEMMA MessageFacts ==
    /\ \A a \in Accounts : Updated(a) \in Events /\ Updated(a) \in Messages
    /\ \A s \in {"hello", "eof", "watch", "synced"} : Signal(s) \in Messages
    /\ \A a \in Accounts : Updated(a).account = a /\ Updated(a) # Signal("eof")
    /\ \A e \in Events : e = Updated(e.account) /\ e.account \in Accounts
BY DEF Messages, Events, Signals, Updated, Signal

\* The later of two versions is one of them.
LEMMA LaterFacts ==
    ASSUME NEW v \in Versions, NEW w \in Versions
    PROVE  Later(v, w) \in Versions
BY DEF Later

\* The constant states of a loop.
LEMMA LoopFacts ==
    /\ Away \in Loops /\ Off \in Loops /\ NewCycle \in Loops
    /\ Away.at = "away" /\ Off.at = "off" /\ NewCycle.at = "fetch"
BY FoldersAssumption, BoundsAssumption DEF Away, Off, NewCycle, Loops, Versions

\* After a folder the loop fetches the next, or waits.
LEMMA AdvanceFacts ==
    ASSUME NEW l \in Loops, NEW m \in Advance(l)
    PROVE  m \in Loops /\ m.at \in {"fetch", "wait"}
<1>1. CASE l.todo = {}
  BY <1>1 DEF Advance, Loops
<1>2. CASE l.todo # {}
  <2>1. PICK f \in l.todo : m = [l EXCEPT !.at = "fetch", !.cur = f, !.todo = @ \ {f}]
    BY <1>2 DEF Advance
  <2>2. f \in Folders /\ l.todo \ {f} \in SUBSET Folders
    BY DEF Loops
  <2>3. QED
    BY <2>1, <2>2 DEF Loops
<1>3. QED
  BY <1>1, <1>2

----------------------------------------------------------------------------
(* What a step does to the loops. *)

\* A step of a loop that runs: it goes on running, and leaves "emit" by emitting.
RunsOn(t) == \E l \in Loops :
    /\ loop' = [loop EXCEPT ![t] = l]
    /\ l.at \notin {"away", "off"} /\ loop[t].at \notin {"away", "off"}
    /\ loop[t].at = "emit" => Emit(t)
    /\ ApplyFolder(t) => l.at = "emit"

LEMMA LoopRunsOn ==
    ASSUME TypeOK, NEW t \in Tasks, LoopStep(t) \/ SyncFails(t)
    PROVE  RunsOn(t)
<1>0. loop \in [Tasks -> Loops] /\ loop[t] \in Loops
  BY DEF TypeOK, Loops
<1>1. CASE FetchFolder(t)
  <2> DEFINE l == [loop[t] EXCEPT !.at = "apply", !.got = remote[t[2]][loop[t].cur]]
  <2>1. remote[t[2]][loop[t].cur] \in Versions
    BY <1>0, TaskFacts DEF TypeOK, Loops
  <2>2. l \in Loops /\ l.at = "apply"
    BY <1>0, <2>1 DEF Loops
  <2>3. loop' = [loop EXCEPT ![t] = l]
    BY <1>1 DEF FetchFolder
  <2>4. loop[t].at = "fetch"
    BY <1>1 DEF FetchFolder
  <2>5. ~ApplyFolder(t)
    BY <2>4 DEF ApplyFolder
  <2>6. QED
    BY <2>2, <2>3, <2>4, <2>5 DEF RunsOn
<1>2. CASE ApplyFolder(t)
  <2> DEFINE l == [loop[t] EXCEPT !.at = "emit"]
  <2>1. l \in Loops /\ l.at = "emit"
    BY <1>0 DEF Loops
  <2>2. loop' = [loop EXCEPT ![t] = l] /\ loop[t].at = "apply"
    BY <1>2 DEF ApplyFolder
  <2>3. QED
    BY <2>1, <2>2 DEF RunsOn
<1>3. CASE Emit(t)
  <2>1. PICK l \in Advance(loop[t]) : loop' = [loop EXCEPT ![t] = l]
    BY <1>3 DEF Emit
  <2>2. l \in Loops /\ l.at \in {"fetch", "wait"}
    BY <1>0, <2>1, AdvanceFacts
  <2>3. loop[t].at = "emit" /\ ~ApplyFolder(t)
    BY <1>3 DEF Emit, ApplyFolder
  <2>4. QED
    BY <1>3, <2>1, <2>2, <2>3 DEF RunsOn
<1>4. CASE Wake(t)
  <2>1. loop' = [loop EXCEPT ![t] = NewCycle] /\ loop[t].at = "wait" /\ ~ApplyFolder(t)
    BY <1>4 DEF Wake, ApplyFolder
  <2>2. QED
    BY <2>1, LoopFacts DEF RunsOn
<1>5. CASE SyncFails(t)
  <2>1. PICK l \in (IF loop[t].cur = Idle THEN {NewCycle} ELSE Advance(loop[t])) :
          loop' = [loop EXCEPT ![t] = l]
    BY <1>5 DEF SyncFails
  <2>2. l \in Loops /\ l.at \in {"fetch", "wait"}
    BY <1>0, <2>1, AdvanceFacts, LoopFacts
  <2>3. loop[t].at \in {"fetch", "apply"} /\ faults' = faults + 1
    BY <1>5 DEF SyncFails
  <2>4. ~ApplyFolder(t)
    BY <2>3 DEF ApplyFolder, TypeOK
  <2>5. QED
    BY <2>1, <2>2, <2>3, <2>4 DEF RunsOn
<1>6. QED
  BY <1>1, <1>2, <1>3, <1>4, <1>5 DEF LoopStep

\* The TUI's loop starts if it is off, and no other changes.
LEMMA LocalStarts ==
    ASSUME TypeOK, StartLocalSync
    PROVE  /\ loop' \in [Tasks -> Loops]
           /\ \A t \in Tasks : t # LocalTask => loop'[t] = loop[t]
BY TaskFacts, LoopFacts DEF StartLocalSync, TypeOK, Loops

\* The daemon's loops start and stop together; the TUI's does not.
LEMMA DaemonLoops ==
    ASSUME TypeOK, DaemonStarts \/ DaemonStops
    PROVE  /\ loop' \in [Tasks -> Loops]
           /\ loop'[LocalTask] = loop[LocalTask]
           /\ \A a \in Accounts :
                loop'[<<"daemon", a>>].at = "away" <=> loop[<<"daemon", a>>].at = "away"
<1>1. PICK l \in {NewCycle, Off} :
        loop' = [t \in Tasks |-> IF t[1] = "daemon" /\ t[2] \in Served THEN l ELSE loop[t]]
  BY DEF DaemonStarts, DaemonStops
<1>2. l \in Loops /\ l.at # "away"
  BY LoopFacts
<1>3. loop' \in [Tasks -> Loops]
  BY <1>1, <1>2 DEF TypeOK, Loops
<1>4. loop'[LocalTask] = loop[LocalTask]
  BY <1>1, TaskFacts DEF LocalTask
<1>5. ASSUME NEW a \in Accounts
      PROVE  loop'[<<"daemon", a>>].at = "away" <=> loop[<<"daemon", a>>].at = "away"
  BY <1>1, <1>2, TaskFacts DEF Served
<1>6. QED
  BY <1>3, <1>4, <1>5

\* The TUI handles a message: it reloads, starts its own loop, or does neither.
LEMMA HandleForms ==
    ASSUME TypeOK, HandleTask
    PROVE  /\ op' = op \/ op' = NoOp \/ ManualSync
           /\ \/ Reloads(Head(queue)) /\ Reload /\ UNCHANGED loop
              \/ Head(queue) = Signal("eof") /\ StartLocalSync /\ UNCHANGED shown
              \/ ~Reloads(Head(queue)) /\ UNCHANGED <<loop, shown>>
<1> DEFINE e == Head(queue)
<1>1. e \in Messages
  BY DEF TypeOK, HandleTask, Messages
<1>2. CASE e \in Events
  <2>1. e.type = "updated" /\ e = Updated(e.account)
    BY <1>2, MessageFacts DEF Events
  <2>2. CASE e.account = Me
    <3>1. Reload /\ UNCHANGED <<loop, op>>
      BY <2>1, <2>2 DEF HandleTask
    <3>2. QED
      BY <2>1, <2>2, <3>1 DEF Reloads
  <2>3. CASE e.account # Me
    <3>1. UNCHANGED <<loop, shown, op>>
      BY <2>1, <2>3 DEF HandleTask
    <3>2. e # Updated(Me) /\ e # Signal("hello") /\ e # Signal("synced")
      BY <2>1, <2>3 DEF Updated, Signal
    <3>3. QED
      BY <3>1, <3>2 DEF Reloads
  <2>4. QED
    BY <2>2, <2>3
<1>3. CASE e \in Signals
  <2>1. PICK s \in {"hello", "eof", "watch", "synced"} : e = Signal(s)
    BY <1>3 DEF Signals, Signal
  <2>2. e.type = s
    BY <2>1 DEF Signal
  <2>3. CASE s = "hello"
    <3>1. Reload /\ UNCHANGED <<loop, op>>
      BY <2>2, <2>3 DEF HandleTask
    <3>2. QED
      BY <2>1, <2>3, <3>1 DEF Reloads
  <2>4. CASE s = "eof"
    <3>1. StartLocalSync /\ UNCHANGED <<shown, op>>
      BY <2>2, <2>4 DEF HandleTask
    <3>2. QED
      BY <2>1, <2>4, <3>1
  <2>5. CASE s = "watch"
    <3>1. ManualSync /\ UNCHANGED <<loop, shown>>
      BY <2>2, <2>5 DEF HandleTask
    <3>2. e # Signal("hello") /\ e # Signal("synced") /\ e # Updated(Me)
      BY <2>2, <2>5 DEF Signal, Updated
    <3>3. QED
      BY <3>1, <3>2 DEF Reloads
  <2>6. CASE s = "synced"
    <3>1. Reload /\ op' = NoOp /\ UNCHANGED loop
      BY <2>2, <2>6 DEF HandleTask
    <3>2. QED
      BY <2>1, <2>6, <3>1 DEF Reloads
  <2>7. QED
    BY <2>3, <2>4, <2>5, <2>6
<1>4. QED
  BY <1>1, <1>2, <1>3 DEF Messages

\* Every other step leaves the loops alone.
LEMMA LoopForms ==
    ASSUME TypeOK, [Next]_vars
    PROVE  \/ \E t \in Tasks : (LoopStep(t) \/ SyncFails(t)) /\ RunsOn(t)
           \/ DaemonStarts \/ DaemonStops
           \/ StartLocalSync /\ (Connect \/ HandleTask)
           \/ UNCHANGED loop
<1>1. ASSUME NEW t \in Tasks, LoopStep(t) \/ SyncFails(t) PROVE RunsOn(t)
  BY <1>1, LoopRunsOn
<1>2. CASE ServerChange \/ WatchSignals \/ UserSyncs \/ ManualFails \/ UNCHANGED vars
  BY <1>2 DEF ServerChange, WatchSignals, UserSyncs, ManualFails, vars, daemonVars
<1>3. CASE LinkStep
  BY <1>3 DEF LinkStep, Subscribe, Greet, Forward, daemonVars
<1>4. CASE Connect
  BY <1>4 DEF Connect
<1>5. CASE HandleTask
  BY <1>5, HandleForms
<1>6. CASE Load \/ ManualFetch \/ ManualApply
  BY <1>6 DEF Load, ManualFetch, ManualApply, daemonVars
<1>7. QED
  BY <1>1, <1>2, <1>3, <1>4, <1>5, <1>6 DEF Next, TuiStep

\* The loops keep their type, and the daemon serves the same accounts for ever.
LEMMA LoopsKept ==
    ASSUME TypeOK, [Next]_vars
    PROVE  loop' \in [Tasks -> Loops] /\ Served' = Served
<1>0. loop \in [Tasks -> Loops]
  BY DEF TypeOK, Loops
<1> SUFFICES /\ loop' \in [Tasks -> Loops]
             /\ \A a \in Accounts :
                  loop'[<<"daemon", a>>].at = "away" <=> loop[<<"daemon", a>>].at = "away"
  BY DEF Served
<1>1. ASSUME NEW t \in Tasks, RunsOn(t)
      PROVE  /\ loop' \in [Tasks -> Loops]
             /\ \A a \in Accounts :
                  loop'[<<"daemon", a>>].at = "away" <=> loop[<<"daemon", a>>].at = "away"
  BY <1>0, <1>1, TaskFacts DEF RunsOn
<1>2. CASE StartLocalSync
  BY <1>2, LocalStarts, TaskFacts
<1>3. QED
  BY <1>0, <1>1, <1>2, DaemonLoops, LoopForms
----------------------------------------------------------------------------
(* Types. *)

RestOK ==
    /\ remote \in [Accounts -> [Folders -> Versions]] /\ VersionInv
    /\ stored \in [Accounts -> [Folders -> Versions]]
    /\ daemon \in BOOLEAN
    /\ conn \in {"none", "pending", "subscribed", "live", "gone"}
    /\ ring \in Seq(Events) /\ Len(ring) <= Cap
    /\ skipped \in BOOLEAN
    /\ queue \in Seq(Messages)
    /\ tui \in {"start", "load", "run"} /\ shown \in Versions
    /\ op \in ManualOps
    /\ changes \in 0..MaxChanges /\ faults \in 0..MaxFaults

\* The type invariant, loops and the rest.
LEMMA TypeParts == TypeOK /\ VersionInv <=> RestOK /\ loop \in [Tasks -> Loops]
BY DEF TypeOK, RestOK, Loops, ManualOps, Messages

\* The ring takes an event, in place of its oldest if it is full.
LEMMA BroadcastKeeps ==
    ASSUME RestOK, NEW e \in Events, Broadcast(e)
    PROVE  /\ ring' \in Seq(Events) /\ Len(ring') <= Cap
           /\ skipped' \in BOOLEAN /\ conn' = conn /\ queue' = queue
           /\ skipped => skipped'
<1>0. ring \in Seq(Events) /\ Len(ring) <= Cap /\ Cap \in Nat \ {0} /\ skipped \in BOOLEAN
  BY BoundsAssumption DEF RestOK
<1>1. CASE conn \in {"subscribed", "live"} /\ Len(ring) = Cap
  <2>1. ring' = Append(Tail(ring), e) /\ skipped' = TRUE
    BY <1>1 DEF Broadcast
  <2>2. ring # <<>> /\ Tail(ring) \in Seq(Events) /\ Len(Tail(ring)) = Len(ring) - 1
    BY <1>0, <1>1
  <2>3. QED
    BY <1>0, <1>1, <2>1, <2>2 DEF Broadcast
<1>2. CASE conn \in {"subscribed", "live"} /\ Len(ring) # Cap
  <2>1. ring' = Append(ring, e) /\ skipped' = (skipped \/ FALSE)
    BY <1>2 DEF Broadcast
  <2>2. QED
    BY <1>0, <1>2, <2>1 DEF Broadcast
<1>3. CASE conn \notin {"subscribed", "live"}
  BY <1>0, <1>3 DEF Broadcast
<1>4. QED
  BY <1>1, <1>2, <1>3

\* The server's versions count its changes.
LEMMA ServerKeeps == RestOK /\ ServerChange => RestOK'
<1> SUFFICES ASSUME RestOK, ServerChange PROVE RestOK'
  OBVIOUS
<1>1. PICK a \in Served, f \in Folders : remote' = [remote EXCEPT ![a][f] = @ + 1]
  BY DEF ServerChange
<1>2. a \in Accounts /\ changes' = changes + 1 /\ changes' \in 0..MaxChanges
  BY BoundsAssumption DEF Served, ServerChange, RestOK
<1>3. /\ remote' \in [Accounts -> [Folders -> Nat]]
      /\ \A b \in Accounts, g \in Folders : remote'[b][g] <= remote[b][g] + 1
  BY <1>1, <1>2 DEF RestOK, Versions
<1>4. \A b \in Accounts, g \in Folders :
        remote[b][g] \in Nat /\ remote'[b][g] \in Nat /\ remote[b][g] <= changes
  BY <1>3 DEF RestOK, VersionInv, Versions
<1>5. \A b \in Accounts, g \in Folders : remote'[b][g] <= changes'
  BY <1>2, <1>3, <1>4 DEF RestOK
<1>6. \A b \in Accounts, g \in Folders : remote'[b][g] \in Versions
  BY <1>2, <1>4, <1>5, BoundsAssumption DEF Versions
<1>7. remote' \in [Accounts -> [Folders -> Versions]]
  BY <1>3, <1>6
<1>8. QED
  BY <1>2, <1>5, <1>7 DEF ServerChange, RestOK, VersionInv, daemonVars, linkVars

\* The steps of the loops.
LEMMA LoopStepKeeps ==
    ASSUME RestOK, loop \in [Tasks -> Loops], NEW t \in Tasks, LoopStep(t) \/ SyncFails(t)
    PROVE  RestOK'
<1>0. loop[t] \in Loops /\ loop[t].cur \in Folders /\ loop[t].got \in Versions
  BY DEF Loops
<1>1. CASE FetchFolder(t) \/ Wake(t)
  BY <1>1 DEF FetchFolder, Wake, RestOK, VersionInv, linkVars
<1>2. CASE ApplyFolder(t)
  <2>1. Later(stored[t[2]][loop[t].cur], loop[t].got) \in Versions
    BY <1>0, TaskFacts, LaterFacts DEF RestOK
  <2>2. stored' \in [Accounts -> [Folders -> Versions]]
    BY <1>2, <2>1 DEF ApplyFolder, RestOK
  <2>3. QED
    BY <1>2, <2>2 DEF ApplyFolder, RestOK, VersionInv, linkVars
<1>3. CASE Emit(t)
  <2>1. Updated(t[2]) \in Events /\ Updated(t[2]) \in Messages
    BY TaskFacts, MessageFacts
  <2>2. CASE t = LocalTask
    <3>0. queue' = Append(queue, Updated(t[2]))
      BY <1>3, <2>2 DEF Emit
    <3>1. queue' \in Seq(Messages)
      BY <2>1, <3>0 DEF RestOK
    <3>2. QED
      BY <1>3, <2>2, <3>1 DEF Emit, RestOK, VersionInv, linkVars
  <2>3. CASE t # LocalTask
    <3>1. Broadcast(Updated(t[2]))
      BY <1>3, <2>3 DEF Emit
    <3>2. QED
      BY <1>3, <2>1, <3>1, BroadcastKeeps DEF Emit, RestOK, VersionInv
  <2>4. QED
    BY <2>2, <2>3
<1>4. CASE SyncFails(t)
  <2>1. faults' \in 0..MaxFaults
    BY <1>4, BoundsAssumption DEF SyncFails, RestOK
  <2>2. QED
    BY <1>4, <2>1 DEF SyncFails, RestOK, VersionInv, linkVars
<1>5. QED
  BY <1>1, <1>2, <1>3, <1>4 DEF LoopStep

\* The steps of the daemon and of its connection.
LEMMA LinkKeeps ==
    ASSUME RestOK, DaemonStarts \/ DaemonStops \/ LinkStep
    PROVE  RestOK'
<1>1. CASE DaemonStarts
  BY <1>1 DEF DaemonStarts, RestOK, VersionInv, linkVars
<1>2. CASE DaemonStops
  <2>1. faults' \in 0..MaxFaults
    BY <1>2, BoundsAssumption DEF DaemonStops, RestOK
  <2>0. \/ conn' = "gone" /\ ring' = <<>> /\ queue' = Append(queue, Signal("eof"))
        \/ UNCHANGED <<conn, ring, queue>>
    BY <1>2 DEF DaemonStops
  <2>2. queue' \in Seq(Messages)
    <3>1. Append(queue, Signal("eof")) \in Seq(Messages)
      BY MessageFacts DEF RestOK
    <3>2. QED
      BY <2>0, <3>1 DEF RestOK
  <2>3. /\ conn' \in {"none", "pending", "subscribed", "live", "gone"}
        /\ ring' \in Seq(Events) /\ Len(ring') <= Cap
    <3>1. Len(<<>>) <= Cap /\ <<>> \in Seq(Events)
      BY BoundsAssumption
    <3>2. QED
      BY <2>0, <3>1 DEF RestOK
  <2>4. QED
    BY <1>2, <2>1, <2>2, <2>3 DEF DaemonStops, RestOK, VersionInv
<1>3. CASE Subscribe
  BY <1>3 DEF Subscribe, RestOK, VersionInv, daemonVars
<1>4. CASE Greet
  <2>1. queue' \in Seq(Messages)
    BY <1>4, MessageFacts DEF Greet, RestOK
  <2>2. QED
    BY <1>4, <2>1 DEF Greet, RestOK, VersionInv, daemonVars
<1>5. CASE Forward
  <2>1. ring \in Seq(Events) /\ ring # <<>> /\ Len(ring) <= Cap /\ Cap \in Nat
    BY <1>5, BoundsAssumption DEF Forward, RestOK
  <2>2. Head(ring) \in Messages /\ ring' \in Seq(Events) /\ Len(ring') <= Cap
    BY <1>5, <2>1 DEF Forward, Messages
  <2>3. queue' \in Seq(Messages)
    BY <1>5, <2>2 DEF Forward, RestOK
  <2>4. QED
    BY <1>5, <2>2, <2>3 DEF Forward, RestOK, VersionInv, daemonVars
<1>6. QED
  BY <1>1, <1>2, <1>3, <1>4, <1>5 DEF LinkStep

\* The steps of the TUI.
LEMMA TuiKeeps ==
    ASSUME TypeOK, RestOK, TuiStep \/ WatchSignals \/ UserSyncs \/ ManualFails
    PROVE  RestOK'
<1>0. /\ stored[Me][Open] \in Versions /\ remote[Me][Open] \in Versions
      /\ op.got \in Versions /\ 0 \in Versions
  BY AccountsAssumption, FoldersAssumption, BoundsAssumption DEF RestOK, ManualOps, Versions
<1>1. ManualSync => op' \in ManualOps
  BY <1>0 DEF ManualSync, ManualOps, RestOK
<1>2. NoOp \in ManualOps
  BY <1>0 DEF NoOp, ManualOps
<1>3. CASE Connect
  BY <1>3 DEF Connect, RestOK, VersionInv
<1>4. CASE Load
  BY <1>0, <1>4 DEF Load, Reload, RestOK, VersionInv, daemonVars, linkVars
<1>5. CASE HandleTask
  <2>1. queue' \in Seq(Messages)
    BY <1>5 DEF HandleTask, RestOK
  <2>2. op' \in ManualOps
    BY <1>1, <1>2, <1>5, HandleForms DEF RestOK
  <2>3. shown' \in Versions
    BY <1>0, <1>5, HandleForms DEF Reload, RestOK
  <2>4. QED
    BY <1>5, <2>1, <2>2, <2>3 DEF HandleTask, RestOK, VersionInv, linkVars
<1>6. CASE ManualFetch
  BY <1>0, <1>6 DEF ManualFetch, ManualOps, RestOK, VersionInv, daemonVars, linkVars
<1>7. op' = [op EXCEPT !.at = "done"] => op' \in ManualOps
  BY DEF RestOK, ManualOps
<1>8. CASE ManualApply
  <2>1. Later(stored[Me][Open], op.got) \in Versions
    BY <1>0, LaterFacts
  <2>2. stored' \in [Accounts -> [Folders -> Versions]]
    BY <1>8, <2>1 DEF ManualApply, RestOK
  <2>3. queue' \in Seq(Messages)
    BY <1>8, MessageFacts DEF ManualApply, RestOK
  <2>4. QED
    BY <1>7, <1>8, <2>2, <2>3 DEF ManualApply, RestOK, VersionInv, linkVars
<1>9. CASE WatchSignals
  <2>1. queue' \in Seq(Messages)
    BY <1>9, MessageFacts DEF WatchSignals, RestOK
  <2>2. QED
    BY <1>9, <2>1 DEF WatchSignals, RestOK, VersionInv, daemonVars, linkVars
<1>10. CASE UserSyncs
  BY <1>1, <1>10 DEF UserSyncs, RestOK, VersionInv, daemonVars, linkVars
<1>11. CASE ManualFails
  <2>1. queue' \in Seq(Messages) /\ faults' \in 0..MaxFaults
    BY <1>11, MessageFacts, BoundsAssumption DEF ManualFails, RestOK
  <2>2. QED
    BY <1>7, <1>11, <2>1 DEF ManualFails, RestOK, VersionInv, daemonVars, linkVars
<1>12. QED
  BY <1>3, <1>4, <1>5, <1>6, <1>8, <1>9, <1>10, <1>11 DEF TuiStep

\* Every step keeps the types.
LEMMA TypesKept == TypeOK /\ VersionInv /\ [Next]_vars => TypeOK' /\ VersionInv'
<1> SUFFICES ASSUME TypeOK, VersionInv, [Next]_vars PROVE RestOK'
  BY LoopsKept DEF TypeOK, RestOK, Loops, ManualOps, Messages
<1>1. RestOK /\ loop \in [Tasks -> Loops]
  BY TypeParts
<1>2. CASE UNCHANGED vars
  BY <1>1, <1>2 DEF vars, RestOK, VersionInv, daemonVars, linkVars
<1>3. CASE \E t \in Tasks : LoopStep(t) \/ SyncFails(t)
  BY <1>1, <1>3, LoopStepKeeps
<1>4. QED
  BY <1>1, <1>2, <1>3, ServerKeeps, LinkKeeps, TuiKeeps DEF Next

\* A daemon that runs starts its cycles, the TUI has not connected.
LEMMA Initially == Init => TypeOK /\ VersionInv
<1> SUFFICES ASSUME Init PROVE RestOK /\ loop \in [Tasks -> Loops]
  BY TypeParts
<1>1. loop \in [Tasks -> Loops]
  <2>1. PICK served \in Services :
          loop = [t \in Tasks |->
                    CASE t \in DaemonTasks /\ t[2] \notin served -> Away
                      [] t \in DaemonTasks /\ t[2] \in served /\ daemon -> NewCycle
                      [] OTHER -> Off]
    BY DEF Init
  <2>2. QED
    BY <2>1, LoopFacts
<1>2. 0 \in Versions /\ 0 \in 0..MaxFaults /\ 0 \in 0..MaxChanges
  BY BoundsAssumption DEF Versions
<1>3. NoOp \in ManualOps
  BY <1>2 DEF NoOp, ManualOps
<1>4. <<>> \in Seq(Events) /\ <<>> \in Seq(Messages) /\ Len(<<>>) = 0
  OBVIOUS
<1>5. \A a \in Accounts, f \in Folders : remote[a][f] = 0
  BY DEF Init
<1>6. remote \in [Accounts -> [Folders -> Versions]] /\ stored = remote
  BY <1>2 DEF Init
<1>7. Len(ring) <= Cap
  BY <1>4, BoundsAssumption DEF Init
<1>8. VersionInv
  BY <1>5 DEF Init, VersionInv
<1>9. QED
  BY <1>1, <1>2, <1>3, <1>4, <1>6, <1>7, <1>8 DEF Init, RestOK

\* Every variable keeps its type: the ring never holds more than its slots, and no
\* version goes beyond the server's changes.
THEOREM TypeCorrect == Spec => []TypeOK
BY Initially, TypesKept, PTL DEF Spec
----------------------------------------------------------------------------
(* Sequences: what is in them after an element is put at the end, or taken off *)
(* the front.                                                                  *)

\* After Append there is what was there, and the element.
LEMMA AppendIn ==
    ASSUME NEW S, NEW s \in Seq(S), NEW e \in S
    PROVE  /\ \A i \in DOMAIN s : i \in DOMAIN Append(s, e) /\ Append(s, e)[i] = s[i]
           /\ \E i \in DOMAIN Append(s, e) : Append(s, e)[i] = e
           /\ \A i \in DOMAIN Append(s, e) :
                Append(s, e)[i] = e \/ (i \in DOMAIN s /\ Append(s, e)[i] = s[i])
<1>1. /\ Append(s, e) \in Seq(S) /\ Len(Append(s, e)) = Len(s) + 1 /\ Len(s) \in Nat
      /\ DOMAIN s = 1..Len(s) /\ DOMAIN Append(s, e) = 1..(Len(s) + 1)
  OBVIOUS
<1>2. /\ \A i \in 1..Len(s) : Append(s, e)[i] = s[i]
      /\ Append(s, e)[Len(s) + 1] = e
  OBVIOUS
<1>3. 1..(Len(s) + 1) = (1..Len(s)) \cup {Len(s) + 1}
  BY <1>1
<1>4. QED
  BY <1>1, <1>2, <1>3, Zenon

\* After Tail there is what was there, but for the head.
LEMMA TailIn ==
    ASSUME NEW S, NEW s \in Seq(S), s # <<>>
    PROVE  /\ \A i \in DOMAIN Tail(s) : \E j \in DOMAIN s : Tail(s)[i] = s[j]
           /\ \A i \in DOMAIN s : s[i] = Head(s) \/ \E j \in DOMAIN Tail(s) : Tail(s)[j] = s[i]
           /\ \E i \in DOMAIN s : s[i] = Head(s)
<1>1. /\ Len(s) \in Nat \ {0} /\ DOMAIN s = 1..Len(s) /\ DOMAIN Tail(s) = 1..(Len(s) - 1)
      /\ Head(s) = s[1]
  OBVIOUS
<1>2. \A i \in 1..(Len(s) - 1) : Tail(s)[i] = s[i + 1]
  OBVIOUS
<1>3. ASSUME NEW i \in DOMAIN Tail(s) PROVE \E j \in DOMAIN s : Tail(s)[i] = s[j]
  <2>1. i + 1 \in DOMAIN s /\ Tail(s)[i] = s[i + 1]
    BY <1>1, <1>2
  <2>2. QED
    BY <2>1
<1>4. ASSUME NEW i \in DOMAIN s, i # 1 PROVE \E j \in DOMAIN Tail(s) : Tail(s)[j] = s[i]
  <2>1. i - 1 \in DOMAIN Tail(s) /\ Tail(s)[i - 1] = s[(i - 1) + 1] /\ (i - 1) + 1 = i
    BY <1>1, <1>2, <1>4
  <2>2. QED
    BY <2>1
<1>5. QED
  BY <1>1, <1>3, <1>4

\* How a step changes the TUI's queue: it handles the first message, or puts one at
\* the end, the end of the stream only when the connection goes.
Queued(e) == queue' = Append(queue, e)

LEMMA QueueForms ==
    ASSUME TypeOK, [Next]_vars
    PROVE  \/ UNCHANGED queue
           \/ HandleTask
           \/ Queued(Signal("eof")) /\ DaemonStops /\ Connected
           \/ \E e \in Messages \ {Signal("eof")} : Queued(e)
<1>1. ASSUME NEW t \in Tasks, LoopStep(t) \/ SyncFails(t)
      PROVE  UNCHANGED queue \/ \E e \in Messages \ {Signal("eof")} : Queued(e)
  <2>1. CASE Emit(t)
    <3>1. Updated(t[2]) \in Messages \ {Signal("eof")}
      BY TaskFacts, MessageFacts
    <3>2. queue' = queue \/ queue' = Append(queue, Updated(t[2]))
      BY <2>1 DEF Emit, Broadcast
    <3>3. QED
      BY <3>1, <3>2 DEF Queued
  <2>2. QED
    BY <1>1, <2>1 DEF LoopStep, FetchFolder, ApplyFolder, Wake, SyncFails
<1>2. CASE ServerChange \/ DaemonStarts \/ Subscribe \/ UserSyncs \/ UNCHANGED vars
  BY <1>2 DEF ServerChange, DaemonStarts, Subscribe, UserSyncs, vars
<1>3. CASE DaemonStops
  BY <1>3 DEF DaemonStops, Queued, Connected
<1>4. Signal("hello") # Signal("eof") /\ Signal("watch") # Signal("eof") /\ Signal("synced") # Signal("eof")
  BY DEF Signal
<1>5. CASE Greet \/ WatchSignals \/ ManualApply \/ ManualFails
  BY <1>4, <1>5, MessageFacts DEF Greet, WatchSignals, ManualApply, ManualFails, Queued
<1>6. CASE Forward
  <2>1. Head(ring) \in Events
    BY <1>6 DEF Forward, TypeOK
  <2>2. Head(ring) \in Messages \ {Signal("eof")}
    BY <2>1, MessageFacts DEF Messages
  <2>3. QED
    BY <1>6, <2>2 DEF Forward, Queued
<1>7. CASE Connect \/ Load \/ ManualFetch
  BY <1>7 DEF Connect, Load, ManualFetch
<1>8. QED
  BY <1>1, <1>2, <1>3, <1>5, <1>6, <1>7 DEF Next, LinkStep, TuiStep

----------------------------------------------------------------------------
(* The connection. *)

NoEof == \A i \in DOMAIN queue : queue[i] # Signal("eof")

\* The end of the stream is queued only when the connection goes.
LEMMA NoEofKept ==
    ASSUME TypeOK, NoEof, [Next]_vars, ~(DaemonStops /\ Connected)
    PROVE  NoEof'
<1>0. queue \in Seq(Messages)
  BY DEF TypeOK, Messages
<1>1. CASE UNCHANGED queue
  BY <1>1 DEF NoEof
<1>2. CASE HandleTask
  <2>1. queue # <<>> /\ queue' = Tail(queue)
    BY <1>2 DEF HandleTask
  <2>2. \A i \in DOMAIN queue' : \E j \in DOMAIN queue : queue'[i] = queue[j]
    BY <1>0, <2>1, TailIn
  <2>3. QED
    BY <2>2 DEF NoEof
<1>3. ASSUME NEW e \in Messages \ {Signal("eof")}, Queued(e) PROVE NoEof'
  BY <1>0, <1>3, AppendIn DEF NoEof, Queued
<1>4. QED
  BY <1>1, <1>2, <1>3, QueueForms

\* The TUI's own loop starts when nobody answers, or at the end of the stream.
LEMMA LocalStaysOff ==
    ASSUME TypeOK, NoEof, loop[LocalTask] = Off, [Next]_vars
    PROVE  loop'[LocalTask] = Off \/ (Connect /\ conn' = "none")
<1>1. ASSUME NEW t \in Tasks, RunsOn(t) PROVE loop'[LocalTask] = Off
  <2>1. t # LocalTask
    BY <1>1, LoopFacts DEF RunsOn
  <2>2. QED
    BY <1>1, <2>1, TaskFacts DEF RunsOn, TypeOK
<1>2. CASE DaemonStarts \/ DaemonStops
  BY <1>2, DaemonLoops
<1>3. CASE Connect
  BY <1>3 DEF Connect
<1>4. CASE HandleTask
  <2>1. Head(queue) # Signal("eof")
    BY <1>4, TailIn DEF NoEof, HandleTask, TypeOK
  <2>2. UNCHANGED loop
    BY <1>4, <2>1, HandleForms DEF Reloads
  <2>3. QED
    BY <2>2
<1>5. QED
  BY <1>1, <1>2, <1>3, <1>4, LoopForms

\* How the connection and the TUI's phase change.
LEMMA ConnForms ==
    ASSUME TypeOK, [Next]_vars
    PROVE  \/ UNCHANGED <<conn, tui, daemon>>
           \/ DaemonStarts /\ UNCHANGED <<conn, tui>> /\ daemon'
           \/ DaemonStops /\ Connected /\ conn' = "gone" /\ tui' = tui
           \/ DaemonStops /\ ~Connected /\ UNCHANGED <<conn, tui>>
           \/ (Subscribe \/ Greet) /\ Connected /\ Connected' /\ UNCHANGED <<tui, daemon>>
           \/ Connect /\ tui = "start" /\ tui' = "load" /\ daemon /\ daemon'
           \/ Connect /\ tui = "start" /\ tui' = "load" /\ conn' = "none"
           \/ Load /\ tui # "start" /\ tui' = "run" /\ UNCHANGED <<conn, daemon>>
<1>1. ASSUME NEW t \in Tasks, LoopStep(t) \/ SyncFails(t) PROVE UNCHANGED <<conn, tui, daemon>>
  BY <1>1 DEF LoopStep, FetchFolder, ApplyFolder, Emit, Wake, SyncFails, Broadcast, linkVars
<1>2. CASE ServerChange \/ Forward \/ HandleTask \/ WatchSignals \/ UserSyncs \/ UNCHANGED vars
  BY <1>2 DEF ServerChange, Forward, HandleTask, WatchSignals, UserSyncs, vars, daemonVars, linkVars
<1>3. CASE ManualFetch \/ ManualApply \/ ManualFails
  BY <1>3 DEF ManualFetch, ManualApply, ManualFails, daemonVars, linkVars
<1>4. CASE DaemonStarts
  BY <1>4 DEF DaemonStarts, linkVars
<1>5. CASE DaemonStops
  BY <1>5 DEF DaemonStops, Connected
<1>6. CASE Subscribe \/ Greet
  BY <1>6 DEF Subscribe, Greet, Connected, daemonVars
<1>7. CASE Connect
  BY <1>7 DEF Connect
<1>8. CASE Load
  BY <1>8 DEF Load, linkVars, daemonVars
<1>9. QED
  BY <1>1, <1>2, <1>3, <1>4, <1>5, <1>6, <1>7, <1>8 DEF Next, LinkStep, TuiStep

\* Every step keeps what a connection says.
LEMMA LinkKept == TypeOK /\ LinkInv /\ [Next]_vars => LinkInv'
<1> SUFFICES ASSUME TypeOK, LinkInv, [Next]_vars PROVE LinkInv'
  OBVIOUS
<1>1. ASSUME tui = "start" \/ Connected, ~(DaemonStops /\ Connected), ~(Connect /\ conn' = "none")
      PROVE  loop'[LocalTask] = Off /\ NoEof'
  BY <1>1, NoEofKept, LocalStaysOff DEF LinkInv, NoEof
<1>2. tui' = "start" => tui = "start" /\ conn' = "none"
  BY ConnForms DEF LinkInv, Connected
<1>3. Connected' => daemon'
  BY ConnForms DEF LinkInv, Connected
<1>4. tui' = "start" \/ Connected' =>
         /\ tui = "start" \/ Connected
         /\ ~(DaemonStops /\ Connected) /\ ~(Connect /\ conn' = "none")
  <2>1. DaemonStops /\ Connected => conn' = "gone" /\ tui # "start" /\ tui' = tui
    BY DEF DaemonStops, LinkInv, Connected
  <2>2. Connect => tui' = "load"
    BY DEF Connect
  <2>3. QED
    BY <2>1, <2>2, ConnForms DEF Connected
<1>5. QED
  BY <1>1, <1>2, <1>3, <1>4 DEF LinkInv, NoEof

\* While the TUI is connected to the daemon its own sync loop is off, and nothing in
\* its queue will start it: one process syncs the account.
THEOREM OneProcessSyncs == Spec => []LinkInv
<1>1. Init => LinkInv
  <2> SUFFICES ASSUME Init PROVE LinkInv
    OBVIOUS
  <2>1. PICK served \in Services :
          loop = [t \in Tasks |->
                    CASE t \in DaemonTasks /\ t[2] \notin served -> Away
                      [] t \in DaemonTasks /\ t[2] \in served /\ daemon -> NewCycle
                      [] OTHER -> Off]
    BY DEF Init
  <2>2. loop[LocalTask] = Off
    BY <2>1, TaskFacts
  <2>3. DOMAIN queue = {} /\ conn = "none"
    BY DEF Init
  <2>4. QED
    BY <2>2, <2>3 DEF LinkInv, Connected
<1>2. TypeOK /\ LinkInv /\ [Next]_vars => LinkInv'
  BY LinkKept
<1>3. QED
  BY <1>1, <1>2, TypeCorrect, PTL DEF Spec
----------------------------------------------------------------------------
(* The screen. *)

InRing == \E i \in DOMAIN ring : ring[i] = Updated(Me)
InQueue == \E i \in DOMAIN queue : Reloads(queue[i])
AboutToEmit == loop[<<"daemon", Me>>].at = "emit"
Screen == <<stored[Me][Open], shown>>

\* A message put at the end of the queue leaves the others there.
LEMMA QueuedKeeps ==
    ASSUME TypeOK, NEW e \in Messages, Queued(e)
    PROVE  /\ InQueue => InQueue'
           /\ Reloads(e) => InQueue'
<1>1. queue \in Seq(Messages) /\ queue' = Append(queue, e)
  BY DEF TypeOK, Messages, Queued
<1>2. QED
  BY <1>1, AppendIn DEF InQueue, Reloads

\* A lagging client loses its oldest event to a newer one: this account's is there
\* if the event is, and stays if none was dropped.
LEMMA RingKept ==
    ASSUME TypeOK, NEW a \in Accounts, conn = "live", Broadcast(Updated(a))
    PROVE  /\ a = Me => InRing'
           /\ ~skipped' => (InRing => InRing')
           /\ skipped => skipped'
<1>0. ring \in Seq(Events) /\ Updated(a) \in Events /\ Len(ring) <= Cap /\ Cap \in Nat \ {0}
  BY MessageFacts, BoundsAssumption DEF TypeOK
<1>1. CASE Len(ring) = Cap
  <2>1. ring' = Append(Tail(ring), Updated(a)) /\ skipped' = TRUE
    BY <1>1 DEF Broadcast
  <2>2. Tail(ring) \in Seq(Events)
    <3>1. ring # <<>>
      BY <1>0, <1>1
    <3>2. QED
      BY <1>0, <3>1
  <2>3. \E i \in DOMAIN ring' : ring'[i] = Updated(a)
    BY <1>0, <2>1, <2>2, AppendIn
  <2>4. QED
    BY <2>1, <2>3 DEF InRing
<1>2. CASE Len(ring) # Cap
  <2>1. ring' = Append(ring, Updated(a)) /\ skipped' = (skipped \/ FALSE)
    BY <1>2 DEF Broadcast
  <2>2. /\ \A i \in DOMAIN ring : i \in DOMAIN ring' /\ ring'[i] = ring[i]
        /\ \E i \in DOMAIN ring' : ring'[i] = Updated(a)
    BY <1>0, <2>1, AppendIn
  <2>3. QED
    BY <2>1, <2>2 DEF InRing
<1>3. QED
  BY <1>1, <1>2

\* A step of one of the daemon's loops: what it stores it is about to announce, and
\* what it announces is in the ring.
LEMMA LoopAnnounces ==
    ASSUME TypeOK, LinkInv, conn = "live", Served = {Me} \/ ~skipped',
           shown = stored[Me][Open] \/ OnTheWay,
           NEW t \in Tasks, LoopStep(t) \/ SyncFails(t), RunsOn(t)
    PROVE  shown' = stored'[Me][Open] \/ OnTheWay'
<1>1. t # LocalTask
  BY LoopFacts DEF RunsOn, LinkInv, Connected
<1>2. PICK a \in Accounts : t = <<"daemon", a>> /\ t[2] = a
  BY <1>1, TaskFacts
<1>3. a \in Served
  BY <1>2 DEF RunsOn, Served
<1>4. PICK l \in Loops : /\ loop' = [loop EXCEPT ![t] = l]
                         /\ loop[t].at = "emit" => Emit(t)
                         /\ ApplyFolder(t) => l.at = "emit"
  BY DEF RunsOn
<1>5. /\ a = Me => loop'[<<"daemon", Me>>] = l
      /\ a # Me => loop'[<<"daemon", Me>>] = loop[<<"daemon", Me>>]
  <2>1. DOMAIN loop = Tasks /\ <<"daemon", Me>> \in Tasks
    BY TaskFacts, AccountsAssumption DEF TypeOK
  <2>2. QED
    BY <1>2, <1>4, <2>1
<1>6. CASE Emit(t)
  <2>1. /\ Broadcast(Updated(a)) /\ loop[t].at = "emit"
        /\ queue' = queue /\ Screen' = Screen
    BY <1>1, <1>2, <1>6 DEF Emit, Broadcast, Screen
  <2>2. CASE a = Me
    BY <2>1, <2>2, RingKept DEF OnTheWay, InRing
  <2>3. CASE a # Me
    <3>1. ~skipped'
      BY <1>3, <2>3
    <3>2. InRing => InRing'
      BY <2>1, <3>1, RingKept
    <3>3. AboutToEmit' <=> AboutToEmit
      BY <1>5, <2>3 DEF AboutToEmit
    <3>4. InQueue => InQueue'
      BY <2>1 DEF InQueue
    <3>5. QED
      BY <2>1, <3>2, <3>3, <3>4 DEF OnTheWay, InRing, InQueue, AboutToEmit, Screen
  <2>4. QED
    BY <2>2, <2>3
<1>7. CASE ApplyFolder(t)
  <2>1. /\ stored' = [stored EXCEPT ![a][loop[t].cur] = Later(@, loop[t].got)]
        /\ ring' = ring /\ queue' = queue /\ shown' = shown
    BY <1>2, <1>7 DEF ApplyFolder, linkVars
  <2>2. CASE a = Me
    BY <1>4, <1>5, <1>7, <2>2 DEF OnTheWay
  <2>3. CASE a # Me
    <3>1. stored'[Me][Open] = stored[Me][Open]
      BY <2>1, <2>3, AccountsAssumption DEF TypeOK
    <3>2. QED
      BY <1>5, <2>1, <2>3, <3>1 DEF OnTheWay
  <2>4. QED
    BY <2>2, <2>3
<1>8. CASE FetchFolder(t) \/ Wake(t) \/ SyncFails(t)
  <2>1. /\ ring' = ring /\ queue' = queue /\ shown' = shown /\ stored' = stored
        /\ loop[t].at # "emit"
    BY <1>8 DEF FetchFolder, Wake, SyncFails, linkVars
  <2>2. AboutToEmit => AboutToEmit'
    BY <1>2, <1>5, <2>1 DEF AboutToEmit
  <2>3. QED
    BY <2>1, <2>2 DEF OnTheWay, AboutToEmit
<1>9. QED
  BY <1>6, <1>7, <1>8 DEF LoopStep

\* An event goes from the ring to the end of the queue.
LEMMA ForwardKeeps ==
    ASSUME TypeOK, Forward, shown = stored[Me][Open] \/ OnTheWay
    PROVE  shown' = stored'[Me][Open] \/ OnTheWay'
<1>1. /\ ring \in Seq(Events) /\ ring # <<>> /\ ring' = Tail(ring)
      /\ Queued(Head(ring)) /\ UNCHANGED <<loop, stored, shown>>
  BY DEF Forward, TypeOK, Queued, daemonVars
<1>2. Head(ring) \in Messages
  BY <1>1 DEF Messages
<1>3. InQueue => InQueue'
  BY <1>1, <1>2, QueuedKeeps
<1>4. InRing => InRing' \/ InQueue'
  <2>1. \A i \in DOMAIN ring : ring[i] = Head(ring) \/ \E j \in DOMAIN ring' : ring'[j] = ring[i]
    BY <1>1, TailIn
  <2>2. Head(ring) = Updated(Me) => InQueue'
    BY <1>1, <1>2, QueuedKeeps DEF Reloads
  <2>3. QED
    BY <2>1, <2>2 DEF InRing
<1>5. QED
  BY <1>1, <1>3, <1>4 DEF OnTheWay, InRing, InQueue

\* A message that is handled and does not reload leaves the one that will.
LEMMA HandleKeeps ==
    ASSUME TypeOK, HandleTask, shown = stored[Me][Open] \/ OnTheWay
    PROVE  shown' = stored'[Me][Open] \/ OnTheWay'
<1>1. /\ queue \in Seq(Messages) /\ queue # <<>> /\ queue' = Tail(queue)
      /\ UNCHANGED <<stored, ring>>
  BY DEF HandleTask, TypeOK, Messages, linkVars
<1>2. CASE Reloads(Head(queue)) /\ Reload
  BY <1>1, <1>2 DEF Reload
<1>3. CASE ~Reloads(Head(queue)) /\ UNCHANGED shown /\ (UNCHANGED loop \/ StartLocalSync)
  <2>1. \A i \in DOMAIN queue :
          queue[i] = Head(queue) \/ \E j \in DOMAIN queue' : queue'[j] = queue[i]
    BY <1>1, TailIn
  <2>2. InQueue => InQueue'
    <3> SUFFICES ASSUME NEW i \in DOMAIN queue, Reloads(queue[i]) PROVE InQueue'
      BY DEF InQueue
    <3>1. PICK j \in DOMAIN queue' : queue'[j] = queue[i]
      BY <1>3, <2>1
    <3>2. Reloads(queue'[j])
      BY <3>1
    <3>3. QED
      BY <3>2 DEF InQueue, Reloads
  <2>3. AboutToEmit' <=> AboutToEmit
    BY <1>3, LocalStarts, TaskFacts, AccountsAssumption DEF AboutToEmit
  <2>4. QED
    BY <1>1, <1>3, <2>2, <2>3 DEF OnTheWay, InRing, InQueue, AboutToEmit
<1>4. Signal("eof") # Signal("hello") /\ Signal("eof") # Signal("synced") /\ Updated(Me) # Signal("eof")
  BY DEF Signal, Updated
<1>5. QED
  BY <1>2, <1>3, <1>4, HandleForms DEF Reloads

\* Every step keeps a reload on the way to a screen that is behind.
LEMMA FreshKept == TypeOK /\ LinkInv /\ FreshInv /\ [Next]_vars => FreshInv'
<1> SUFFICES ASSUME TypeOK, LinkInv, FreshInv, [Next]_vars,
                    Served = {Me} \/ ~skipped', tui' = "run", conn' = "live"
             PROVE  shown' = stored'[Me][Open] \/ OnTheWay'
  BY LoopsKept DEF FreshInv
<1>1. CASE Load
  BY <1>1 DEF Load, Reload, daemonVars
<1>2. CASE Greet
  <2>1. Queued(Signal("hello")) /\ Reloads(Signal("hello")) /\ Signal("hello") \in Messages
    BY <1>2, MessageFacts DEF Greet, Queued, Reloads
  <2>2. QED
    BY <2>1, QueuedKeeps DEF OnTheWay, InQueue
<1>3. CASE ManualApply \/ ManualFails
  <2>1. Queued(Signal("synced")) /\ Reloads(Signal("synced")) /\ Signal("synced") \in Messages
    BY <1>3, MessageFacts DEF ManualApply, ManualFails, Queued, Reloads
  <2>2. QED
    BY <2>1, QueuedKeeps DEF OnTheWay, InQueue
<1>4. CASE ~Load /\ ~Greet /\ ~ManualApply /\ ~ManualFails
  <2>1. tui = "run" /\ conn = "live" /\ Connected /\ daemon
    <3>1. tui = "run" /\ conn = "live"
      BY <1>4, ConnForms DEF Subscribe
    <3>2. QED
      BY <3>1 DEF LinkInv, Connected
  <2>2. ~DaemonStarts /\ ~DaemonStops /\ ~Connect /\ ~Subscribe
    BY <2>1 DEF DaemonStarts, DaemonStops, Connect, Subscribe
  <2>3. skipped => skipped'
    <3>1. ASSUME NEW t \in Tasks, LoopStep(t) \/ SyncFails(t) PROVE skipped => skipped'
      <4>1. CASE Emit(t)
        <5>1. CASE t = LocalTask
          BY <4>1, <5>1 DEF Emit, linkVars
        <5>2. CASE t # LocalTask
          <6>1. Broadcast(Updated(t[2])) /\ t[2] \in Accounts
            BY <4>1, <5>2, TaskFacts DEF Emit
          <6>2. QED
            BY <2>1, <6>1, RingKept
        <5>3. QED
          BY <5>1, <5>2
      <4>2. QED
        BY <3>1, <4>1 DEF LoopStep, FetchFolder, ApplyFolder, Wake, SyncFails, linkVars
    <3>2. CASE ServerChange \/ LinkStep \/ UNCHANGED vars
      BY <3>2 DEF ServerChange, LinkStep, Subscribe, Greet, Forward, vars, linkVars
    <3>3. CASE TuiStep \/ WatchSignals \/ UserSyncs
      BY <2>2, <3>3 DEF TuiStep, Load, HandleTask, ManualFetch, ManualApply, WatchSignals,
                        UserSyncs, linkVars
    <3>4. QED
      BY <1>4, <2>2, <3>1, <3>2, <3>3 DEF Next
  <2>4. shown = stored[Me][Open] \/ OnTheWay
    BY <2>1, <2>3 DEF FreshInv
  <2>5. ASSUME NEW t \in Tasks, LoopStep(t) \/ SyncFails(t)
        PROVE  shown' = stored'[Me][Open] \/ OnTheWay'
    BY <2>1, <2>4, <2>5, LoopRunsOn, LoopAnnounces
  <2>6. CASE Forward
    BY <2>4, <2>6, ForwardKeeps
  <2>7. CASE HandleTask
    BY <2>4, <2>7, HandleKeeps
  <2>8. CASE ServerChange \/ UserSyncs \/ ManualFetch \/ UNCHANGED vars
    BY <2>4, <2>8 DEF ServerChange, UserSyncs, ManualFetch, vars, daemonVars, linkVars, OnTheWay
  <2>9. CASE WatchSignals
    <3>1. Queued(Signal("watch")) /\ Signal("watch") \in Messages
      BY <2>9, MessageFacts DEF WatchSignals, Queued
    <3>2. InQueue => InQueue'
      BY <3>1, QueuedKeeps
    <3>3. UNCHANGED <<loop, stored, ring, shown>>
      BY <2>9 DEF WatchSignals, daemonVars, linkVars
    <3>4. QED
      BY <2>4, <3>2, <3>3 DEF OnTheWay, InQueue
  <2>10. QED
    BY <1>4, <2>2, <2>5, <2>6, <2>7, <2>8, <2>9 DEF Next, LinkStep, TuiStep
<1>5. QED
  BY <1>1, <1>2, <1>3, <1>4

\* A connected TUI with nothing left to read shows what the store has: the events it
\* missed while it loaded, and those a lagging client lost, had one after them.
THEOREM ViewCatchesUp == Spec => []ConnectedViewIsFresh
<1>1. Init => FreshInv
  BY DEF Init, FreshInv
<1>2. FreshInv => ConnectedViewIsFresh
  BY DEF FreshInv, ConnectedViewIsFresh, OnTheWay
<1>3. TypeOK /\ LinkInv /\ FreshInv /\ [Next]_vars => FreshInv'
  BY FreshKept
<1>4. QED
  BY <1>1, <1>2, <1>3, TypeCorrect, OneProcessSyncs, PTL DEF Spec

-----------------------------------------------------------------------------
(* The socket, for any number of daemons, crashes and unanswered probes.   *)
(* The argument: as long as no start or stop overlaps with another, what   *)
(* a daemon saw of the path is still so when it acts on it (TurnInv), and  *)
(* from that alone an attempt to start fails only where somebody else      *)
(* runs.  If live daemons answer as well, whoever has got past its probe   *)
(* knows that nobody listens (ServerInv).                                  *)

SocketInv == SocketTypeOK /\ TurnInv /\ ServerInv

Occupied(d) == Starting(d) \/ Stopping(d)

-----------------------------------------------------------------------------
(* Types *)

LEMMA SocketTypesInitially == SocketInit => SocketTypeOK
<1> SUFFICES ASSUME SocketInit PROVE SocketTypeOK
  OBVIOUS
<1>1. file \in Daemons \cup {Nobody} /\ pc \in [Daemons -> Labels]
  BY DEF SocketInit, Labels
<1>2. crashes \in 0..MaxCrashes /\ silent \in 0..MaxSilent
  BY CrashesAssumption DEF SocketInit
<1>3. raced \in BOOLEAN
  BY DEF SocketInit
<1> QED
  BY <1>1, <1>2, <1>3 DEF SocketTypeOK

LEMMA SocketTypesKept == SocketTypeOK /\ [SocketNext]_socketVars => SocketTypeOK'
<1> SUFFICES ASSUME SocketTypeOK, [SocketNext]_socketVars PROVE SocketTypeOK'
  OBVIOUS
<1> USE CrashesAssumption DEF SocketTypeOK, Labels
<1>1. CASE UNCHANGED socketVars
  BY <1>1 DEF socketVars, counters
<1>2. ASSUME NEW d \in Daemons, Start(d) PROVE SocketTypeOK'
  BY <1>2 DEF Start, Begin, Goto, Alone
<1>3. ASSUME NEW d \in Daemons, StartStep(d) PROVE SocketTypeOK'
  <2>1. CASE Probe(d)
    BY <2>1 DEF Probe, Goto, counters
  <2>2. CASE Check(d)
    BY <2>2 DEF Check, Goto, counters
  <2>3. CASE Unlink(d)
    BY <2>3 DEF Unlink, Goto, counters
  <2>4. CASE Bind(d)
    BY <2>4 DEF Bind, Goto, counters
  <2>5. CASE Listen(d)
    BY <2>5 DEF Listen, Goto, counters
  <2> QED
    BY <1>3, <2>1, <2>2, <2>3, <2>4, <2>5 DEF StartStep
<1>4. ASSUME NEW d \in Daemons, ProbeUnanswered(d) PROVE SocketTypeOK'
  BY <1>4 DEF ProbeUnanswered, Goto
<1>5. ASSUME NEW d \in Daemons, Stop(d) PROVE SocketTypeOK'
  BY <1>5 DEF Stop, Begin, Goto, Alone
<1>6. ASSUME NEW d \in Daemons, StopStep(d) PROVE SocketTypeOK'
  BY <1>6 DEF StopStep, Close, Cleanup, Goto, counters
<1>7. ASSUME NEW d \in Daemons, Crash(d) PROVE SocketTypeOK'
  BY <1>7 DEF Crash, Goto
<1> QED
  BY <1>1, <1>2, <1>3, <1>4, <1>5, <1>6, <1>7 DEF SocketNext

\* Every variable keeps its type.
THEOREM SocketTypeCorrect == SocketSpec => []SocketTypeOK
BY SocketTypesInitially, SocketTypesKept, PTL DEF SocketSpec

-----------------------------------------------------------------------------
(* The inductive invariant *)

\* Which steps begin something, and which go on with it.
LEMMA Turns ==
  ASSUME SocketTypeOK, TurnInv, NEW d \in Daemons,
         Start(d) \/ Stop(d) \/ StartStep(d) \/ ProbeUnanswered(d) \/ StopStep(d) \/ Crash(d)
  PROVE  /\ raced => raced'
         /\ silent' = 0 => silent = 0
         /\ \A o \in Daemons \ {d} : pc'[o] = pc[o]
         /\ ~raced' /\ Occupied(d)' => Alone(d)
<1> USE DEF SocketTypeOK
<1>1. CASE Start(d) \/ Stop(d)
  BY <1>1 DEF Start, Stop, Begin, Goto, Labels
<1>2. CASE StartStep(d)
  BY <1>2 DEF StartStep, Probe, Check, Unlink, Bind, Listen, Goto, counters, TurnInv, Occupied,
              Starting, Stopping, Labels
<1>3. CASE ProbeUnanswered(d)
  BY <1>3 DEF ProbeUnanswered, Goto, TurnInv, Starting, Labels
<1>4. CASE StopStep(d)
  BY <1>4 DEF StopStep, Close, Cleanup, Goto, counters, TurnInv, Stopping, Labels
<1>5. CASE Crash(d)
  BY <1>5 DEF Crash, Goto, Occupied, Starting, Stopping, Labels
<1> QED
  BY <1>1, <1>2, <1>3, <1>4, <1>5

LEMMA TurnKept == SocketTypeOK /\ TurnInv /\ [SocketNext]_socketVars => TurnInv'
<1> SUFFICES ASSUME SocketTypeOK, TurnInv, [SocketNext]_socketVars PROVE TurnInv'
  OBVIOUS
<1>1. CASE UNCHANGED socketVars
  BY <1>1 DEF socketVars, counters, TurnInv, Starting, Stopping, Alone
<1>2. ASSUME NEW d \in Daemons,
             Start(d) \/ Stop(d) \/ StartStep(d) \/ ProbeUnanswered(d) \/ StopStep(d) \/ Crash(d)
      PROVE  TurnInv'
  <2> SUFFICES ASSUME ~raced' PROVE TurnInv!2'
    BY DEF TurnInv
  <2>1. /\ ~raced
        /\ \A o \in Daemons \ {d} : pc'[o] = pc[o]
        /\ Occupied(d)' => Alone(d)
    BY <1>2, Turns
  <2>2. \A e \in Daemons : Occupied(e)' => Alone(e)'
    BY <2>1 DEF TurnInv, Occupied, Starting, Stopping, Alone
  <2>3. ASSUME NEW e \in Daemons, Occupied(e)'
        PROVE  /\ pc'[e] = "unlink" => file' # Nobody
               /\ pc'[e] = "bind" => file' = Nobody
               /\ pc'[e] = "listen" => file' = e
    <3>1. CASE e # d
      <4>1. Occupied(e) /\ ~Occupied(d) /\ pc'[e] = pc[e]
        BY <2>1, <2>3, <3>1 DEF TurnInv, Occupied, Starting, Stopping, Alone
      <4>2. ~Occupied(d)'
        BY <2>1, <2>2, <2>3, <3>1 DEF Alone, Occupied, Starting, Stopping
      <4>3. file' = file
        BY <1>2, <4>1 DEF Start, Stop, StartStep, Probe, Check, Unlink, Bind, Listen,
           ProbeUnanswered, StopStep, Close, Cleanup, Crash, Occupied, Starting, Stopping
      <4> QED
        BY <2>1, <4>1, <4>3 DEF TurnInv
    <3>2. CASE e = d
      <4> USE <2>1, <3>2 DEF SocketTypeOK, TurnInv
      <4>1. CASE Start(d) \/ Stop(d) \/ ProbeUnanswered(d) \/ StopStep(d) \/ Crash(d)
        BY <4>1 DEF Start, Stop, ProbeUnanswered, StopStep, Close, Cleanup, Crash, Goto
      <4>2. CASE StartStep(d)
        BY <4>2 DEF StartStep, Probe, Check, Unlink, Bind, Listen, Goto
      <4> QED
        BY <1>2, <4>1, <4>2
    <3> QED
      BY <3>1, <3>2
  <2> QED
    BY <2>2, <2>3 DEF Occupied, Starting
<1> QED
  BY <1>1, <1>2 DEF SocketNext

\* Whoever is alone and gets past its probe, answered, is the only one to listen.
LEMMA ServerKept ==
  SocketTypeOK /\ TurnInv /\ TurnInv' /\ ServerInv /\ [SocketNext]_socketVars => ServerInv'
<1> SUFFICES ASSUME SocketTypeOK, TurnInv, TurnInv', ServerInv, [SocketNext]_socketVars
             PROVE  ServerInv'
  OBVIOUS
<1>1. CASE UNCHANGED socketVars
  BY <1>1 DEF socketVars, counters, ServerInv, Listening
<1>2. ASSUME NEW d \in Daemons,
             Start(d) \/ Stop(d) \/ StartStep(d) \/ ProbeUnanswered(d) \/ StopStep(d) \/ Crash(d)
      PROVE  ServerInv'
  <2> SUFFICES ASSUME silent' = 0, ~raced' PROVE ServerInv!2'
    BY DEF ServerInv
  <2>1. /\ ~raced /\ silent = 0
        /\ \A o \in Daemons \ {d} : pc'[o] = pc[o]
        /\ Occupied(d)' => Alone(d)
    BY <1>2, Turns
  <2> DEFINE Past(x) == pc[x] \notin {"off", "probe"}
             OnlyOne(x) == \A o \in Daemons \ {x} : ~Listening(o)
  <2>2. /\ \A x \in Daemons : pc[x] = "serve" => file = x
        /\ \A x \in Daemons : Past(x) => OnlyOne(x)
    BY <2>1 DEF ServerInv
  \* It suffices that d, if it gets past its probe, is the only one to listen.
  <2>3. ASSUME Past(d)' => OnlyOne(d), Listening(d)' => Past(d) /\ (Listening(d) \/ Occupied(d))
        PROVE  \A x \in Daemons : Past(x)' => OnlyOne(x)'
    <3> SUFFICES ASSUME NEW x \in Daemons, Past(x)', NEW o \in Daemons \ {x}, Listening(o)'
                 PROVE  FALSE
      OBVIOUS
    <3>1. CASE x = d
      BY <2>1, <2>3, <3>1 DEF Listening
    <3>2. CASE o = d
      <4>1. Past(x) /\ pc'[x] = pc[x]
        BY <2>1, <3>2
      <4>2. ~Listening(d) /\ Past(d)
        BY <2>2, <2>3, <3>2, <4>1
      <4>3. Alone(d)
        BY <2>3, <3>2, <4>2, <2>1 DEF TurnInv, Occupied
      <4>4. ~Listening(x) /\ ~Occupied(x)
        BY <2>2, <3>2, <4>2, <4>3 DEF Alone, Occupied
      <4> QED
        BY <4>1, <4>4 DEF SocketTypeOK, Labels, Listening, Occupied, Starting, Stopping
    <3>3. CASE x # d /\ o # d
      BY <2>1, <2>2, <3>3 DEF Listening
    <3> QED
      BY <3>1, <3>2, <3>3
  <2>4. CASE Start(d) \/ Stop(d) \/ Crash(d)
    <3>1. file' = file /\ (pc'[d] = "off" \/ pc'[d] = "probe" \/ (pc[d] = "serve" /\ pc'[d] = "stop"))
      BY <2>4 DEF Start, Stop, Crash, Goto, SocketTypeOK
    <3>2. \A x \in Daemons : pc'[x] = "serve" => file' = x
      BY <2>1, <2>2, <3>1
    <3> QED
      BY <2>2, <2>3, <3>1, <3>2 DEF Listening
  <2>5. CASE Probe(d)
    <3>1. file' = file /\ (pc'[d] = "off" \/ (pc'[d] = "check" /\ ~(file # Nobody /\ Listening(file))))
      BY <2>5 DEF Probe, Goto, SocketTypeOK
    <3>2. pc[d] = "probe" /\ Alone(d)
      BY <2>1, <2>5 DEF Probe, TurnInv, Starting
    <3>3. pc'[d] = "check" => OnlyOne(d)
      BY <2>2, <3>1, <3>2, NobodyAssumption DEF Alone, Listening, Stopping
    <3> QED
      BY <2>1, <2>2, <2>3, <3>1, <3>3 DEF Listening
  <2>6. CASE Check(d)
    BY <2>1, <2>2, <2>3, <2>6 DEF Check, Goto, SocketTypeOK, Listening
  <2>7. CASE Unlink(d) \/ Bind(d)
    <3>1. Past(d) /\ pc'[d] \in {"off", "bind", "listen"}
      BY <2>7 DEF Unlink, Bind, Goto, SocketTypeOK
    <3>2. \A x \in Daemons : pc'[x] # "serve"
      BY <2>1, <2>2, <3>1 DEF Listening
    <3> QED
      BY <2>2, <2>3, <3>1, <3>2 DEF Listening
  <2>8. CASE Listen(d)
    <3>1. /\ pc[d] = "listen" /\ pc'[d] \in {"off", "serve"}
          /\ file' = file /\ file = d
      BY <2>1, <2>8 DEF Listen, Goto, SocketTypeOK, TurnInv
    <3>2. \A x \in Daemons : pc'[x] = "serve" => file' = x
      BY <2>1, <2>2, <3>1 DEF Listening
    <3> QED
      BY <2>2, <2>3, <3>1, <3>2 DEF Listening, Occupied, Starting
  <2>9. CASE ProbeUnanswered(d)
    BY <2>1, <2>9 DEF ProbeUnanswered, SocketTypeOK
  <2>10. CASE StopStep(d)
    <3>1. Past(d) /\ pc'[d] \in {"off", "cleanup"}
      BY <2>10 DEF StopStep, Close, Cleanup, Goto, SocketTypeOK
    <3>2. \A x \in Daemons : pc'[x] # "serve"
      BY <2>1, <2>2, <3>1 DEF Listening
    <3> QED
      BY <2>2, <2>3, <3>1, <3>2 DEF Listening
  <2> QED
    BY <1>2, <2>4, <2>5, <2>6, <2>7, <2>8, <2>9, <2>10 DEF StartStep
<1> QED
  BY <1>1, <1>2 DEF SocketNext

\* The inductive invariant.
THEOREM Turnwise == SocketSpec => []SocketInv
<1>1. SocketInit => SocketInv
  BY SocketTypesInitially DEF SocketInv, SocketInit, TurnInv, ServerInv, Starting, Stopping, Listening
<1>2. SocketInv /\ [SocketNext]_socketVars => SocketInv'
  BY SocketTypesKept, TurnKept, ServerKept DEF SocketInv
<1> QED
  BY <1>1, <1>2, PTL DEF SocketSpec

-----------------------------------------------------------------------------
(* What it is for *)

\* As long as no start or stop overlaps with another and live daemons answer, one
\* daemon listens at a time and the path names the one that serves: Server::bind_at
\* and Drop for Server, with crashes anywhere between their system calls.
THEOREM OneServerIsReached == SocketSpec => []OneReachableServer
<1>1. SocketInv => OneReachableServer
  BY DEF SocketInv, ServerInv, OneReachableServer, Listening
<1> QED
  BY <1>1, Turnwise, PTL

\* A stale socket file keeps nobody from starting, though a live daemon may fail to
\* answer: an attempt fails only where another daemon runs or starts have overlapped.
THEOREM StartsSucceed == SocketSpec => StartSucceeds
<1> DEFINE Step == \A d \in Daemons : Starting(d) /\ pc'[d] = "off" /\ crashes' = crashes
                      => raced \/ \E o \in Daemons \ {d} : pc[o] # "off"
<1>1. SocketInv /\ [SocketNext]_socketVars => [Step]_socketVars
  <2> SUFFICES ASSUME SocketInv, SocketNext, NEW d \in Daemons, Starting(d), pc'[d] = "off",
                      crashes' = crashes, ~raced
               PROVE  \E o \in Daemons \ {d} : pc[o] # "off"
    OBVIOUS
  <2> USE DEF SocketInv, SocketTypeOK
  <2>1. PICK e \in Daemons : \/ Start(e) \/ Stop(e) \/ StartStep(e) \/ ProbeUnanswered(e)
                             \/ StopStep(e) \/ Crash(e)
    BY DEF SocketNext
  <2>2. CASE e # d
    BY <2>1, <2>2, Turns DEF Starting
  <2>3. CASE e = d
    <3>1. StartStep(d)
      BY <2>1, <2>3 DEF Start, Stop, ProbeUnanswered, StopStep, Close, Cleanup, Crash, Goto,
                        Starting
    <3>2. CASE Probe(d)
      BY <3>2 DEF Probe, Goto, Listening
    <3>3. CASE Check(d) \/ Unlink(d) \/ Bind(d) \/ Listen(d)
      BY <3>3, NobodyAssumption DEF Check, Unlink, Bind, Listen, Goto, TurnInv
    <3> QED
      BY <3>1, <3>2, <3>3 DEF StartStep
  <2> QED
    BY <2>2, <2>3
<1> QED
  BY <1>1, Turnwise, PTL DEF SocketSpec, StartSucceeds
==============================================================================
