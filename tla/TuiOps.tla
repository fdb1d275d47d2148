-------------------------------- MODULE TuiOps --------------------------------
(***************************************************************************)
(* The TUI's background operations: the pending counter that admits one at *)
(* a time, the draft in the composer, and the cached ManageSieve session.  *)
(*                                                                         *)
(* The event loop runs one handler at a time.  An operation is a task that *)
(* posts its result to a queue; handling it clears the counter.  The user  *)
(* keeps typing meanwhile.  The session is behind a fair mutex, which a    *)
(* sieve operation takes twice, to connect and to ask, and which a task    *)
(* that drops the session takes, too.                                      *)
(***************************************************************************)
EXTENDS Naturals, Sequences

CONSTANTS
    Accounts, Boot,   \* accounts, and the one the TUI starts with
    Drafts,           \* what the user may write
    Nothing,          \* no draft, no session
    Users,            \* kinds of user: a "patient" one waits for an operation,
                      \* and for the session to be dropped, before the next step
    MaxWaiting        \* bound: tasks that want the session, at one time

ASSUME BootAssumption == Boot \in Accounts
ASSUME NothingAssumption == Nothing \notin Accounts \cup Drafts
ASSUME UsersAssumption == Users \subseteq {"patient", "hasty"}
ASSUME MaxWaitingAssumption == MaxWaiting \in Nat \ {0}

VARIABLES
    user,      \* the kind of user at the keys
    account,   \* the open account
    pending,   \* pending_op_count
    op,        \* the operation's task
    results,   \* results posted and not handled
    composer,  \* the draft in the composer
    fate,      \* fate[d]: what became of draft d
    session,   \* the account whose session is cached
    lock,      \* the mutex: its holder, then those who wait
    drops,     \* tasks spawned to drop the session that have not asked for it
    overlay    \* the sieve picker or wizard

opVars == <<pending, op, results>>
draftVars == <<composer, fate>>
sessionVars == <<session, lock, drops>>
sieveVars == <<sessionVars, overlay>>
vars == <<user, account, opVars, draftVars, sieveVars>>

SieveKinds == {"list", "get", "put"}
Kinds == SieveKinds \cup {"send", "other"}
NoOp == [kind |-> "other", at |-> "none", account |-> Boot, draft |-> Nothing]
Result(ok) == [kind |-> op.kind, draft |-> op.draft, ok |-> ok]

Patient == user = "patient"

InFlight == (IF op = NoOp THEN 0 ELSE 1) + Len(results)

----------------------------------------------------------------------------
(* Spawning and ending an operation. *)

\* spawn_pending, then the task; refused while one is pending.
Spawn(kind, draft) ==
    /\ pending = 0
    /\ pending' = 1
    /\ op' = [kind |-> kind, at |-> "run", account |-> account, draft |-> draft]
    /\ UNCHANGED results

\* The task's last step posts its result.
Post(ok) ==
    /\ results' = Append(results, Result(ok))
    /\ op' = NoOp
    /\ UNCHANGED pending

\* A sync, a body, a folder operation: by key, or by the watch at any time.
StartOther ==
    /\ Spawn("other", Nothing)
    /\ UNCHANGED <<user, account, draftVars, sieveVars>>

\* Mutant: an error is only logged.
EndOtherQuietly ==
    /\ op.kind = "other" /\ op.at = "run"
    /\ \/ Post(TRUE)
       \/ op' = NoOp /\ UNCHANGED <<pending, results>>
    /\ UNCHANGED <<user, account, draftVars, sieveVars>>

EndOther ==
    /\ op.kind = "other" /\ op.at = "run"
    /\ \E ok \in BOOLEAN : Post(ok)
    /\ UNCHANGED <<user, account, draftVars, sieveVars>>

----------------------------------------------------------------------------
(* The composer. *)

Sending ==
    \/ op.kind = "send"
    \/ \E i \in DOMAIN results : results[i].kind = "send"

\* Keys go to the picker first, then to the composer, the wizard, the lists.
KeysTo(pane) ==
    CASE pane = "picker" -> overlay = "picker"
      [] pane = "composer" -> overlay # "picker" /\ composer # Nothing
      [] pane = "wizard" -> overlay = "wizard" /\ composer = Nothing
      [] pane = "lists" -> overlay = "none" /\ composer = Nothing

\* A new draft, a reply, a template.
Compose(d) ==
    /\ KeysTo("lists") /\ fate[d] = "new"
    /\ Patient => ~Sending
    /\ composer' = d
    /\ fate' = [fate EXCEPT ![d] = "open"]
    /\ UNCHANGED <<user, account, opVars, sieveVars>>

\* close_composer, or save_draft when the server took it.
Close ==
    /\ KeysTo("composer")
    /\ composer' = Nothing
    /\ \E how \in {"discarded", "saved"} : fate' = [fate EXCEPT ![composer] = how]
    /\ UNCHANGED <<user, account, opVars, sieveVars>>

\* Mutant: a draft that cannot be sent now is dropped.
SendComposerIfIdle ==
    /\ KeysTo("composer")
    /\ composer' = Nothing
    /\ IF pending = 0
       THEN Spawn("send", composer) /\ fate' = [fate EXCEPT ![composer] = "sending"]
       ELSE UNCHANGED <<fate, opVars>>
    /\ UNCHANGED <<user, account, sieveVars>>

\* send_composer: the outbox takes the message while another operation is pending.
SendComposer ==
    /\ KeysTo("composer")
    /\ composer' = Nothing
    /\ IF pending = 0
       THEN Spawn("send", composer) /\ fate' = [fate EXCEPT ![composer] = "sending"]
       ELSE fate' = [fate EXCEPT ![composer] = "queued"] /\ UNCHANGED opVars
    /\ UNCHANGED <<user, account, sieveVars>>

\* do_smtp_send: a refused message goes to the outbox.
EndSend ==
    /\ op.kind = "send"
    /\ \E ok \in BOOLEAN :
        /\ Post(ok)
        /\ fate' = [fate EXCEPT ![op.draft] = IF ok THEN "sent" ELSE "queued"]
    /\ UNCHANGED <<user, account, composer, sieveVars>>

----------------------------------------------------------------------------
(* The sieve session. *)

\* Tasks that have, or are going to ask for, the mutex.
Waiting == drops + Len(lock)

Ready == Patient => Waiting = 0

List ==
    /\ KeysTo("lists") /\ Ready
    /\ Spawn("list", Nothing)
    /\ UNCHANGED <<user, account, draftVars, sieveVars>>

\* A script is picked; the picker closes, also when the operation is refused.
Get ==
    /\ KeysTo("picker") /\ Ready
    /\ overlay' = "none"
    /\ \/ Spawn("get", Nothing)
       \/ pending > 0 /\ UNCHANGED opVars
    /\ UNCHANGED <<user, account, draftVars, sessionVars>>

\* The wizard is saved; it stays when the operation is refused.
Put ==
    /\ KeysTo("wizard") /\ Ready
    /\ overlay' = "none"
    /\ Spawn("put", Nothing)
    /\ UNCHANGED <<user, account, draftVars, sessionVars>>

\* drop_sieve_session spawns a task.
SpawnDrop == Waiting < MaxWaiting /\ drops' = drops + 1 /\ UNCHANGED <<session, lock>>

\* Escape in the picker or the wizard.
Cancel ==
    /\ KeysTo("picker") \/ KeysTo("wizard")
    /\ overlay' = "none"
    /\ SpawnDrop
    /\ UNCHANGED <<user, account, opVars, draftVars>>

Holds(who) == lock # <<>> /\ Head(lock) = who

\* ensure_sieve_connected asks for the mutex, ...
AskToConnect ==
    /\ op.kind \in SieveKinds /\ op.at = "run"
    /\ lock' = Append(lock, "op")
    /\ op' = [op EXCEPT !.at = "connect"]
    /\ UNCHANGED <<user, account, pending, results, draftVars, session, drops, overlay>>

\* Mutant: a connection that fails is tried again.
ConnectAgain ==
    /\ op.at = "connect" /\ Holds("op")
    /\ lock' = Tail(lock)
    /\ \/ /\ session' = IF session = Nothing THEN op.account ELSE session
          /\ op' = [op EXCEPT !.at = "connected"]
       \/ /\ session = Nothing
          /\ op' = [op EXCEPT !.at = "run"]
          /\ UNCHANGED session
    /\ UNCHANGED <<user, account, pending, results, draftVars, drops, overlay>>

\* ... connects if no session is cached, and releases it.
Connect ==
    /\ op.at = "connect" /\ Holds("op")
    /\ lock' = Tail(lock)
    /\ \/ /\ session' = IF session = Nothing THEN op.account ELSE session
          /\ op' = [op EXCEPT !.at = "connected"]
          /\ UNCHANGED <<pending, results>>
       \/ /\ session = Nothing
          /\ Post(FALSE)
          /\ UNCHANGED session
    /\ UNCHANGED <<user, account, draftVars, drops, overlay>>

AskToUse ==
    /\ op.at = "connected"
    /\ lock' = Append(lock, "op")
    /\ op' = [op EXCEPT !.at = "use"]
    /\ UNCHANGED <<user, account, pending, results, draftVars, session, drops, overlay>>

\* The request, on the cached session; an error clears it.
Use ==
    /\ op.at = "use" /\ Holds("op") /\ session # Nothing
    /\ lock' = Tail(lock)
    /\ \E ok \in BOOLEAN : Post(ok) /\ session' = IF ok THEN session ELSE Nothing
    /\ UNCHANGED <<user, account, draftVars, drops, overlay>>

\* expect("just connected"): the task panics, and posts nothing.
Panic ==
    /\ op.at = "use" /\ Holds("op") /\ session = Nothing
    /\ lock' = Tail(lock)
    /\ op' = [op EXCEPT !.at = "dead"]
    /\ UNCHANGED <<user, account, pending, results, draftVars, session, drops, overlay>>

\* The task of drop_sieve_session asks for the mutex, takes the session, logs out.
AskToDrop ==
    /\ drops > 0
    /\ drops' = drops - 1
    /\ lock' = Append(lock, "drop")
    /\ UNCHANGED <<user, account, opVars, draftVars, session, overlay>>

Drop ==
    /\ Holds("drop")
    /\ lock' = Tail(lock)
    /\ session' = Nothing
    /\ UNCHANGED <<user, account, opVars, draftVars, drops, overlay>>

\* Mutant: the cached session is kept across accounts.
SwitchKeepingSession ==
    /\ KeysTo("lists")
    /\ Patient => pending = 0
    /\ account' \in Accounts \ {account}
    /\ UNCHANGED <<user, opVars, draftVars, sieveVars>>

SwitchAccount ==
    /\ KeysTo("lists")
    /\ Patient => pending = 0
    /\ account' \in Accounts \ {account}
    /\ SpawnDrop
    /\ UNCHANGED <<user, opVars, draftVars, overlay>>

----------------------------------------------------------------------------
(* Handling a result: complete_pending, and what follows for each kind.  *)

Complete == results # <<>> /\ results' = Tail(results) /\ pending' = pending - 1 /\ UNCHANGED op

\* A message that was sent closes the composer.
HandleSent ==
    /\ Complete
    /\ Head(results).kind = "send"
    /\ composer' = IF Head(results).ok THEN Nothing ELSE composer
    /\ UNCHANGED <<user, account, fate, sieveVars>>

\* Scripts open the picker, a script or a failed save the wizard.
HandleShown ==
    /\ Complete
    /\ LET r == Head(results) IN
        \/ r.kind = "list" /\ r.ok /\ overlay' \in {"picker", overlay}
        \/ r.kind = "get" /\ overlay' = IF r.ok THEN "wizard" ELSE overlay
        \/ r.kind = "put" /\ ~r.ok /\ overlay' = "wizard"
        \/ r.kind = "other" /\ UNCHANGED overlay
    /\ UNCHANGED <<user, account, draftVars, sessionVars>>

\* A list that failed and a script that was saved drop the session.
HandleDropped ==
    /\ Complete
    /\ <<Head(results).kind, Head(results).ok>> \in {<<"list", FALSE>>, <<"put", TRUE>>}
    /\ SpawnDrop
    /\ UNCHANGED <<user, account, draftVars, overlay>>

Handle == HandleSent \/ HandleShown \/ HandleDropped

----------------------------------------------------------------------------
Init ==
    /\ user \in Users
    /\ account = Boot
    /\ pending = 0 /\ op = NoOp /\ results = <<>>
    /\ composer = Nothing /\ fate = [d \in Drafts |-> "new"]
    /\ session = Nothing /\ lock = <<>> /\ drops = 0 /\ overlay = "none"

User ==
    \/ StartOther
    \/ List \/ Get \/ Put \/ Cancel
    \/ \E d \in Drafts : Compose(d)
    \/ Close \/ SendComposer
    \/ SwitchAccount

OpTask == EndOther \/ EndSend \/ AskToConnect \/ Connect \/ AskToUse \/ Use \/ Panic
DropTask == AskToDrop \/ Drop

Next == User \/ OpTask \/ DropTask \/ Handle

Spec == Init /\ [][Next]_vars

\* The runtime runs what is ready, requests end, and the event loop takes results.
FairSpec == Spec /\ WF_vars(OpTask) /\ WF_vars(DropTask) /\ SF_vars(Handle)

----------------------------------------------------------------------------
(* Properties *)

Fates == {"new", "open", "sending", "sent", "queued", "saved", "discarded"}

TypeOK ==
    /\ user \in Users
    /\ account \in Accounts
    /\ pending \in {0, 1}
    /\ op \in [kind : Kinds, account : Accounts, draft : Drafts \cup {Nothing},
               at : {"none", "run", "connect", "connected", "use", "dead"}]
    /\ results \in Seq([kind : Kinds, draft : Drafts \cup {Nothing}, ok : BOOLEAN])
    /\ composer \in Drafts \cup {Nothing}
    /\ fate \in [Drafts -> Fates]
    /\ session \in Accounts \cup {Nothing}
    /\ lock \in Seq({"op", "drop"})
    /\ drops \in 0..MaxWaiting
    /\ overlay \in {"none", "picker", "wizard"}

\* "Refuse when busy": the counter is the operations in flight, spawned and not
\* yet handled, and there is at most one, whatever the user does meanwhile.
OneAtATime == pending = InFlight /\ InFlight <= 1

\* The text a user who waits is writing is in the composer: nothing but the
\* user's own command takes it away.
OpenDraftIsKept == Patient => \A d \in Drafts : fate[d] = "open" => composer = d

\* expect("just connected"), and "different account = different credentials": for
\* a user who waits, an operation that comes to use the session finds one, and
\* the one of the account that the operation was started for.
FindsItsSession ==
    Patient /\ op.at = "use" /\ Holds("op") => session = op.account

\* Why the draft is kept: a user who waits opens no composer while a message is
\* being sent or its result waits, so the result that closes one finds none.
DraftInv == Patient => OpenDraftIsKept /\ (Sending => composer = Nothing)

\* Why the session is found: while a sieve operation of a user who waits runs, it
\* alone wants the mutex and no overlay can be left; and a session of another
\* account has a task that is going to drop it.
SieveOp == op.kind \in SieveKinds
WantsLock == op.at \in {"connect", "use"}

SessionInv == Patient =>
    /\ op = NoOp \/ op.account = account
    /\ SieveOp \/ op.at \in {"none", "run"}
    /\ SieveOp => overlay = "none" /\ drops = 0 /\ session \in {Nothing, account}
    /\ SieveOp => lock = IF WantsLock THEN <<"op">> ELSE <<>>
    /\ ~SieveOp => lock \in Seq({"drop"})
    /\ session \in {Nothing, account} \/ Waiting > 0
    /\ op.at \in {"connected", "use"} => session = account

\* No operation of a user who waits keeps the TUI busy for ever.
BusyEnds == []<>(Patient => pending = 0)
================================================================================
