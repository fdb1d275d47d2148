----------------------------- MODULE TuiOpsProofs -----------------------------
(* Theorems about TuiOps, for any accounts, drafts and bound, and for a user  *)
(* who waits as for one who does not; about TuiView as MCTui runs it, for any *)
(* folders, uids and habits; about ManageSieve there, for any scripts and any *)
(* limit of an answer; and about TuiKeys there: the keys of a user who waits  *)
(* go to the one overlay there is.                                            *)
EXTENDS MCTui, FiniteFacts, SequenceTheorems, TLAPS

Draft == Drafts \cup {Nothing}
Ops == [kind : Kinds, account : Accounts, draft : Draft,
        at : {"none", "run", "connect", "connected", "use", "dead"}]
ResultSet == [kind : Kinds, draft : Draft, ok : BOOLEAN]

\* The counter's part of the state: an operation runs, or its result waits, or
\* neither, and the counter says which.
CountInv ==
    /\ op \in Ops
    /\ results \in Seq(ResultSet)
    /\ \/ pending = 0 /\ op = NoOp /\ results = <<>>
       \/ pending = 1 /\ op # NoOp /\ results = <<>>
       \/ pending = 1 /\ op = NoOp /\ Len(results) = 1

\* Spawning is refused unless nothing is in flight.
LEMMA SpawnKeeps ==
    ASSUME CountInv, account \in Accounts,
           NEW kind \in Kinds, NEW draft \in Draft, Spawn(kind, draft)
    PROVE  CountInv'
BY Zenon, SMT DEF CountInv, Spawn, Ops, NoOp

\* A running operation that posts leaves exactly its result behind.
LEMMA PostKeeps ==
    ASSUME CountInv, op # NoOp, NEW ok \in BOOLEAN, Post(ok)
    PROVE  CountInv'
<1>1. Result(ok) \in ResultSet
  BY DEF CountInv, Result, ResultSet, Ops
<1>2. pending = 1 /\ results = <<>>
  BY DEF CountInv
<1>3. results' = <<Result(ok)>> /\ op' = NoOp /\ pending' = 1
  BY <1>2 DEF Post
<1>4. results' \in Seq(ResultSet) /\ Len(results') = 1
  BY <1>1, <1>3
<1>5. NoOp \in Ops
  BY BootAssumption DEF NoOp, Ops, Draft, Kinds
<1>6. QED
  BY <1>3, <1>4, <1>5 DEF CountInv

\* A step of a running operation that does not end it.
LEMMA RunningKeeps ==
    ASSUME CountInv, op # NoOp,
           NEW at \in {"connect", "connected", "use", "dead"},
           op' = [op EXCEPT !.at = at], UNCHANGED <<pending, results>>
    PROVE  CountInv'
<1>1. op' \in Ops /\ op'.at = at
  BY DEF CountInv, Ops
<1>2. op' # NoOp
  BY <1>1 DEF NoOp
<1>3. QED
  BY <1>1, <1>2 DEF CountInv

\* Handling the result that waits leaves nothing in flight.
LEMMA CompleteKeeps ==
    ASSUME CountInv, Complete
    PROVE  CountInv'
<1>1. pending = 1 /\ op = NoOp /\ Len(results) = 1
  BY DEF CountInv, Complete
<1>2. results' \in Seq(ResultSet) /\ Len(results') = 0
  BY <1>1 DEF Complete, CountInv
<1>3. results' = <<>>
  BY <1>2
<1>4. pending' = 0 /\ op' = NoOp /\ op' \in Ops
  BY <1>1 DEF Complete, CountInv
<1>5. QED
  BY <1>2, <1>3, <1>4 DEF CountInv

\* The types of what the counter does not depend on.
RestInv ==
    /\ user \in Users
    /\ account \in Accounts
    /\ composer \in Draft
    /\ fate \in [Drafts -> Fates]
    /\ session \in Accounts \cup {Nothing}
    /\ lock \in Seq({"op", "drop"})
    /\ drops \in 0..MaxWaiting
    /\ overlay \in {"none", "picker", "wizard"}

IInv == CountInv /\ RestInv

\* At the start nothing is pending, and every variable has its type.
LEMMA Initially == Init => IInv
BY BootAssumption, MaxWaitingAssumption
DEF Init, IInv, CountInv, RestInv, Ops, NoOp, Draft, Kinds, Fates

\* A task that drops the session is spawned within the bound, and does nothing yet.
LEMMA SpawnDropKeeps ==
    ASSUME RestInv, SpawnDrop
    PROVE  /\ drops' \in 0..MaxWaiting
           /\ session' = session /\ lock' = lock
BY MaxWaitingAssumption DEF RestInv, SpawnDrop, Waiting

\* The user's steps.
LEMMA UserKeeps == IInv /\ User => IInv'
<1> SUFFICES ASSUME CountInv, RestInv, User PROVE CountInv' /\ RestInv'
  BY DEF IInv
<1>1. CASE StartOther
  <2>1. CountInv'
    BY <1>1, SpawnKeeps DEF StartOther, RestInv, Kinds, Draft
  <2>2. QED
    BY <1>1, <2>1 DEF StartOther, RestInv, draftVars, sieveVars, sessionVars
<1>2. CASE List
  <2>1. CountInv'
    BY <1>2, SpawnKeeps DEF List, RestInv, Kinds, SieveKinds, Draft
  <2>2. QED
    BY <1>2, <2>1 DEF List, RestInv, draftVars, sieveVars, sessionVars
<1>3. CASE Get
  <2>1. CountInv'
    <3>1. CASE Spawn("get", Nothing)
      BY <3>1, SpawnKeeps DEF RestInv, Kinds, SieveKinds, Draft
    <3>2. CASE UNCHANGED opVars
      BY <3>2 DEF opVars, CountInv
    <3>3. QED
      BY <1>3, <3>1, <3>2 DEF Get
  <2>2. QED
    BY <1>3, <2>1 DEF Get, RestInv, draftVars, sessionVars
<1>4. CASE Put
  <2>1. CountInv'
    BY <1>4, SpawnKeeps DEF Put, RestInv, Kinds, SieveKinds, Draft
  <2>2. QED
    BY <1>4, <2>1 DEF Put, RestInv, draftVars, sessionVars
<1>5. CASE Cancel
  BY <1>5, SpawnDropKeeps DEF Cancel, CountInv, RestInv, opVars, draftVars
<1>6. ASSUME NEW d \in Drafts, Compose(d) PROVE CountInv' /\ RestInv'
  BY <1>6 DEF Compose, CountInv, RestInv, opVars, sieveVars, sessionVars, Draft, Fates
<1>7. CASE Close
  BY <1>7 DEF Close, CountInv, RestInv, opVars, sieveVars, sessionVars, Draft, Fates
<1>8. CASE SendComposer
  <2>1. CountInv'
    <3>1. CASE pending = 0
      BY <1>8, <3>1, SpawnKeeps DEF SendComposer, RestInv, Kinds
    <3>2. CASE pending # 0
      BY <1>8, <3>2 DEF SendComposer, opVars, CountInv
    <3>3. QED
      BY <3>1, <3>2
  <2>2. composer' \in Draft /\ fate' \in [Drafts -> Fates]
    BY <1>8 DEF SendComposer, RestInv, Draft, Fates
  <2>3. QED
    BY <1>8, <2>1, <2>2 DEF SendComposer, RestInv, sieveVars, sessionVars
<1>9. CASE SwitchAccount
  BY <1>9, SpawnDropKeeps DEF SwitchAccount, CountInv, RestInv, opVars, draftVars
<1>10. QED
  BY <1>1, <1>2, <1>3, <1>4, <1>5, <1>6, <1>7, <1>8, <1>9 DEF User

\* The operation's steps.
LEMMA OpTaskKeeps == IInv /\ OpTask => IInv'
<1> SUFFICES ASSUME CountInv, RestInv, OpTask PROVE CountInv' /\ RestInv'
  BY DEF IInv
<1>1. CASE EndOther
  <2>1. op # NoOp
    BY <1>1 DEF EndOther, NoOp
  <2>2. CountInv'
    BY <1>1, <2>1, PostKeeps DEF EndOther
  <2>3. QED
    BY <1>1, <2>2 DEF EndOther, RestInv, draftVars, sieveVars, sessionVars
<1>2. CASE EndSend
  <2>1. op # NoOp
    BY <1>2 DEF EndSend, NoOp
  <2>2. CountInv'
    BY <1>2, <2>1, PostKeeps DEF EndSend
  <2>3. fate' \in [Drafts -> Fates]
    BY <1>2 DEF EndSend, RestInv, Fates
  <2>4. QED
    BY <1>2, <2>2, <2>3 DEF EndSend, RestInv, sieveVars, sessionVars
<1>3. CASE AskToConnect
  <2>1. op # NoOp
    BY <1>3 DEF AskToConnect, NoOp
  <2>2. CountInv'
    BY <1>3, <2>1, RunningKeeps DEF AskToConnect
  <2>3. QED
    BY <1>3, <2>2 DEF AskToConnect, RestInv, draftVars
<1>4. CASE Connect
  <2>1. op # NoOp
    BY <1>4 DEF Connect, NoOp
  <2>2. CountInv' /\ session' \in Accounts \cup {Nothing}
    <3>1. CASE Post(FALSE) /\ UNCHANGED session
      BY <2>1, <3>1, PostKeeps DEF RestInv
    <3>2. CASE /\ session' = IF session = Nothing THEN op.account ELSE session
               /\ op' = [op EXCEPT !.at = "connected"]
               /\ UNCHANGED <<pending, results>>
      <4>1. CountInv'
        BY <2>1, <3>2, RunningKeeps
      <4>2. op.account \in Accounts
        BY DEF CountInv, Ops
      <4>3. QED
        BY <3>2, <4>1, <4>2 DEF RestInv
    <3>3. QED
      BY <1>4, <3>1, <3>2 DEF Connect
  <2>3. lock' \in Seq({"op", "drop"})
    BY <1>4 DEF Connect, RestInv, Holds
  <2>4. QED
    BY <1>4, <2>2, <2>3 DEF Connect, RestInv, draftVars
<1>5. CASE AskToUse
  <2>1. op # NoOp
    BY <1>5 DEF AskToUse, NoOp
  <2>2. CountInv'
    BY <1>5, <2>1, RunningKeeps DEF AskToUse
  <2>3. QED
    BY <1>5, <2>2 DEF AskToUse, RestInv, draftVars
<1>6. CASE Use
  <2>1. op # NoOp
    BY <1>6 DEF Use, NoOp
  <2>2. CountInv'
    BY <1>6, <2>1, PostKeeps DEF Use
  <2>3. lock' \in Seq({"op", "drop"}) /\ session' \in Accounts \cup {Nothing}
    BY <1>6 DEF Use, RestInv, Holds
  <2>4. QED
    BY <1>6, <2>2, <2>3 DEF Use, RestInv, draftVars
<1>7. CASE Panic
  <2>1. op # NoOp
    BY <1>7 DEF Panic, NoOp
  <2>2. CountInv'
    BY <1>7, <2>1, RunningKeeps DEF Panic
  <2>3. lock' \in Seq({"op", "drop"})
    BY <1>7 DEF Panic, RestInv, Holds
  <2>4. QED
    BY <1>7, <2>2, <2>3 DEF Panic, RestInv, draftVars
<1>8. QED
  BY <1>1, <1>2, <1>3, <1>4, <1>5, <1>6, <1>7 DEF OpTask

\* The steps of the tasks that drop the session, and of the event loop.
LEMMA OthersKeep == IInv /\ (DropTask \/ Handle) => IInv'
<1> SUFFICES ASSUME CountInv, RestInv, DropTask \/ Handle PROVE CountInv' /\ RestInv'
  BY DEF IInv
<1>1. CASE AskToDrop
  BY <1>1, MaxWaitingAssumption DEF AskToDrop, CountInv, RestInv, opVars, draftVars
<1>2. CASE Drop
  <2>1. lock' \in Seq({"op", "drop"})
    BY <1>2 DEF Drop, RestInv, Holds
  <2>2. QED
    BY <1>2, <2>1 DEF Drop, CountInv, RestInv, opVars, draftVars
<1>3. CASE HandleSent
  <2>1. CountInv'
    BY <1>3, CompleteKeeps DEF HandleSent
  <2>2. QED
    BY <1>3, <2>1 DEF HandleSent, RestInv, Draft, sieveVars, sessionVars
<1>4. CASE HandleShown
  <2>1. CountInv'
    BY <1>4, CompleteKeeps DEF HandleShown
  <2>2. overlay' \in {"none", "picker", "wizard"}
    BY <1>4 DEF HandleShown, RestInv
  <2>3. QED
    BY <1>4, <2>1, <2>2 DEF HandleShown, RestInv, draftVars, sessionVars
<1>5. CASE HandleDropped
  <2>1. CountInv'
    BY <1>5, CompleteKeeps DEF HandleDropped
  <2>2. QED
    BY <1>5, <2>1, SpawnDropKeeps DEF HandleDropped, RestInv, draftVars
<1>6. QED
  BY <1>1, <1>2, <1>3, <1>4, <1>5 DEF DropTask, Handle

\* The counter and the types are an inductive invariant.
THEOREM Counting == Spec => []IInv
<1>1. IInv /\ UNCHANGED vars => IInv'
  BY DEF IInv, CountInv, RestInv, vars, opVars, draftVars, sieveVars, sessionVars
<1>2. IInv /\ [Next]_vars => IInv'
  BY <1>1, UserKeeps, OpTaskKeeps, OthersKeep DEF Next
<1>3. QED
  BY <1>2, Initially, PTL DEF Spec

\* Every variable keeps its type.
THEOREM TypeCorrect == Spec => []TypeOK
<1>1. IInv => TypeOK
  BY DEF IInv, CountInv, RestInv, TypeOK, Ops, ResultSet, Draft
<1>2. QED
  BY <1>1, Counting, PTL

\* Refuse when busy: whatever the user, the watch and the tasks do, a panicking
\* one included, the counter is the operations in flight and at most one is.
THEOREM OneOperationAtATime == Spec => []OneAtATime
<1>1. IInv => OneAtATime
  <2> SUFFICES ASSUME CountInv PROVE OneAtATime
    BY DEF IInv
  <2>1. Len(<<>>) = 0
    OBVIOUS
  <2>2. CASE pending = 0 /\ op = NoOp /\ results = <<>>
    BY <2>1, <2>2 DEF OneAtATime, InFlight
  <2>3. CASE pending = 1 /\ op # NoOp /\ results = <<>>
    BY <2>1, <2>3 DEF OneAtATime, InFlight
  <2>4. CASE pending = 1 /\ op = NoOp /\ Len(results) = 1
    BY <2>4 DEF OneAtATime, InFlight
  <2>5. QED
    BY <2>2, <2>3, <2>4 DEF CountInv
<1>2. QED
  BY <1>1, Counting, PTL

------------------------------------------------------------------------------
(* The draft in the composer. *)

\* A step that leaves the draft alone, and starts no send, keeps it.
LEMMA DraftAlone ==
    ASSUME DraftInv, Sending' => Sending, UNCHANGED <<user, composer, fate>>
    PROVE  DraftInv'
BY DEF DraftInv, Patient, OpenDraftIsKept

\* An operation that is not a send starts none.
LEMMA NoSendSpawned ==
    ASSUME NEW kind \in {"list", "get", "put", "other"}, Spawn(kind, Nothing)
    PROVE  Sending' => Sending
BY DEF Spawn, Sending

\* The result of an operation is a send's only if the operation is one.
LEMMA NoSendPosted ==
    ASSUME IInv, op # NoOp, NEW ok \in BOOLEAN, Post(ok)
    PROVE  Sending' => Sending
<1>1. results = <<>>
  BY DEF IInv, CountInv
<1>2. op' = NoOp /\ results' = <<Result(ok)>>
  BY <1>1 DEF Post
<1>3. DOMAIN results' = {1} /\ results'[1].kind = op.kind
  BY <1>2 DEF Result
<1>4. QED
  BY <1>2, <1>3 DEF Sending, NoOp

\* Handling the result that waits leaves nothing of a send.
LEMMA NoSendLeft ==
    ASSUME IInv, Complete
    PROVE  /\ ~Sending'
           /\ Head(results).kind = "send" => Sending
<1>1. op = NoOp /\ Len(results) = 1 /\ results \in Seq(ResultSet)
  BY DEF IInv, CountInv, Complete
<1>2. op' = NoOp /\ results' = <<>>
  BY <1>1, CompleteKeeps DEF Complete
<1>3. DOMAIN results = {1} /\ Head(results) = results[1]
  BY <1>1
<1>4. QED
  BY <1>2, <1>3 DEF Sending, NoOp

\* The user's steps keep the draft.
LEMMA UserKeepsDraft == IInv /\ DraftInv /\ User => DraftInv'
<1> SUFFICES ASSUME IInv, DraftInv, User PROVE DraftInv'
  OBVIOUS
<1>1. CASE StartOther
  BY <1>1, NoSendSpawned, DraftAlone DEF StartOther, draftVars
<1>2. CASE List
  BY <1>2, NoSendSpawned, DraftAlone DEF List, draftVars
<1>3. CASE Get
  <2>1. Sending' => Sending
    BY <1>3, NoSendSpawned DEF Get, opVars, Sending
  <2>2. QED
    BY <1>3, <2>1, DraftAlone DEF Get, draftVars
<1>4. CASE Put
  BY <1>4, NoSendSpawned, DraftAlone DEF Put, draftVars
<1>5. CASE Cancel
  <2>1. Sending' => Sending
    BY <1>5 DEF Cancel, opVars, Sending
  <2>2. QED
    BY <1>5, <2>1, DraftAlone DEF Cancel, draftVars
<1>6. ASSUME NEW d \in Drafts, Compose(d) PROVE DraftInv'
  <2> SUFFICES ASSUME Patient' PROVE OpenDraftIsKept' /\ ~Sending'
    BY DEF DraftInv
  <2>1. Patient /\ ~Sending' /\ composer = Nothing
    BY <1>6 DEF Compose, Patient, opVars, Sending, KeysTo
  <2>2. \A e \in Drafts : fate[e] # "open"
    BY <2>1, NothingAssumption DEF DraftInv, OpenDraftIsKept
  <2>3. composer' = d /\ fate' = [fate EXCEPT ![d] = "open"]
    BY <1>6 DEF Compose
  <2>4. \A e \in Drafts : fate'[e] = "open" => e = d
    BY <2>2, <2>3 DEF IInv, RestInv
  <2>5. QED
    BY <2>1, <2>3, <2>4 DEF OpenDraftIsKept
<1>7. CASE Close
  <2> SUFFICES ASSUME Patient' PROVE OpenDraftIsKept' /\ composer' = Nothing
    BY DEF DraftInv
  <2>1. Patient /\ composer' = Nothing
    BY <1>7 DEF Close, Patient
  <2>2. PICK how \in {"discarded", "saved"} : fate' = [fate EXCEPT ![composer] = how]
    BY <1>7 DEF Close
  <2>3. \A e \in Drafts : fate'[e] # "open"
    BY <2>1, <2>2 DEF DraftInv, OpenDraftIsKept, IInv, RestInv
  <2>4. QED
    BY <2>1, <2>3 DEF OpenDraftIsKept
<1>8. CASE SendComposer
  <2> SUFFICES ASSUME Patient' PROVE OpenDraftIsKept' /\ composer' = Nothing
    BY DEF DraftInv
  <2>1. Patient /\ composer' = Nothing
    BY <1>8 DEF SendComposer, Patient
  <2>2. PICK how \in {"sending", "queued"} : fate' = [fate EXCEPT ![composer] = how]
    BY <1>8 DEF SendComposer
  <2>3. \A e \in Drafts : fate'[e] # "open"
    BY <2>1, <2>2 DEF DraftInv, OpenDraftIsKept, IInv, RestInv
  <2>4. QED
    BY <2>1, <2>3 DEF OpenDraftIsKept
<1>9. CASE SwitchAccount
  <2>1. Sending' => Sending
    BY <1>9 DEF SwitchAccount, opVars, Sending
  <2>2. QED
    BY <1>9, <2>1, DraftAlone DEF SwitchAccount, draftVars
<1>10. QED
  BY <1>1, <1>2, <1>3, <1>4, <1>5, <1>6, <1>7, <1>8, <1>9 DEF User

\* The operation's steps keep the draft.
LEMMA OpTaskKeepsDraft == IInv /\ DraftInv /\ OpTask => DraftInv'
<1> SUFFICES ASSUME IInv, DraftInv, OpTask PROVE DraftInv'
  OBVIOUS
<1>1. CASE EndOther
  <2>1. op # NoOp
    BY <1>1 DEF EndOther, NoOp
  <2>2. QED
    BY <1>1, <2>1, NoSendPosted, DraftAlone DEF EndOther, draftVars
<1>2. CASE EndSend
  <2>1. op # NoOp
    BY <1>2 DEF EndSend, NoOp
  <2>2. Sending' => Sending
    BY <1>2, <2>1, NoSendPosted DEF EndSend
  <2>3. \A d \in Drafts : fate'[d] = "open" => fate[d] = "open"
    BY <1>2 DEF EndSend, IInv, RestInv
  <2>4. user' = user /\ composer' = composer
    BY <1>2 DEF EndSend
  <2>5. QED
    BY <2>2, <2>3, <2>4 DEF DraftInv, OpenDraftIsKept, Patient
<1>3. CASE AskToConnect \/ AskToUse \/ Panic
  <2>1. op' = [op EXCEPT !.at = op'.at] /\ results' = results
    BY <1>3 DEF AskToConnect, AskToUse, Panic, IInv, CountInv, Ops
  <2>2. Sending' => Sending
    BY <2>1 DEF Sending, IInv, CountInv, Ops
  <2>3. QED
    BY <1>3, <2>2, DraftAlone DEF AskToConnect, AskToUse, Panic, draftVars
<1>4. CASE Connect
  <2>1. op # NoOp
    BY <1>4 DEF Connect, NoOp
  <2>2. Sending' => Sending
    <3>1. CASE Post(FALSE)
      BY <2>1, <3>1, NoSendPosted
    <3>2. CASE op' = [op EXCEPT !.at = "connected"] /\ UNCHANGED <<pending, results>>
      BY <3>2 DEF Sending, IInv, CountInv, Ops
    <3>3. QED
      BY <1>4, <3>1, <3>2 DEF Connect
  <2>3. QED
    BY <1>4, <2>2, DraftAlone DEF Connect, draftVars
<1>5. CASE Use
  <2>1. op # NoOp
    BY <1>5 DEF Use, NoOp
  <2>2. QED
    BY <1>5, <2>1, NoSendPosted, DraftAlone DEF Use, draftVars
<1>6. QED
  BY <1>1, <1>2, <1>3, <1>4, <1>5 DEF OpTask

\* So do the tasks that drop the session, and the event loop: the result that
\* closes a composer finds none.
LEMMA OthersKeepDraft == IInv /\ DraftInv /\ (DropTask \/ Handle) => DraftInv'
<1> SUFFICES ASSUME IInv, DraftInv, DropTask \/ Handle PROVE DraftInv'
  OBVIOUS
<1>1. CASE DropTask
  <2>1. Sending' => Sending
    BY <1>1 DEF DropTask, AskToDrop, Drop, opVars, Sending
  <2>2. QED
    BY <1>1, <2>1, DraftAlone DEF DropTask, AskToDrop, Drop, draftVars
<1>2. CASE HandleSent
  <2> SUFFICES ASSUME Patient' PROVE OpenDraftIsKept' /\ ~Sending'
    BY DEF DraftInv
  <2>1. ~Sending' /\ Sending
    BY <1>2, NoSendLeft DEF HandleSent
  <2>2. Patient /\ composer' \in {Nothing, composer} /\ fate' = fate
    BY <1>2 DEF HandleSent, Patient
  <2>3. composer = Nothing /\ OpenDraftIsKept
    BY <2>1, <2>2 DEF DraftInv
  <2>4. QED
    BY <2>1, <2>2, <2>3 DEF OpenDraftIsKept
<1>3. CASE HandleShown
  <2>1. ~Sending'
    BY <1>3, NoSendLeft DEF HandleShown
  <2>2. QED
    BY <1>3, <2>1, DraftAlone DEF HandleShown, draftVars
<1>4. CASE HandleDropped
  <2>1. ~Sending'
    BY <1>4, NoSendLeft DEF HandleDropped
  <2>2. QED
    BY <1>4, <2>1, DraftAlone DEF HandleDropped, draftVars
<1>5. QED
  BY <1>1, <1>2, <1>3, <1>4 DEF Handle

\* The text a user who waits is writing is in the composer until a command of the
\* user takes it: no result, no task and no switch of accounts does.
THEOREM DraftIsKept == Spec => []OpenDraftIsKept
<1>1. Init => DraftInv
  BY DEF Init, DraftInv, OpenDraftIsKept, Patient
<1>2. IInv /\ DraftInv /\ UNCHANGED vars => DraftInv'
  <2> SUFFICES ASSUME DraftInv, UNCHANGED vars PROVE DraftInv'
    OBVIOUS
  <2>1. Sending' => Sending
    BY DEF vars, opVars, Sending
  <2>2. QED
    BY <2>1, DraftAlone DEF vars, draftVars
<1>3. IInv /\ DraftInv /\ [Next]_vars => DraftInv'
  BY <1>2, UserKeepsDraft, OpTaskKeepsDraft, OthersKeepDraft DEF Next
<1>4. DraftInv => OpenDraftIsKept
  BY DEF DraftInv, OpenDraftIsKept
<1>5. QED
  BY <1>1, <1>3, <1>4, Counting, PTL DEF Spec

------------------------------------------------------------------------------
(* The cached session. *)

\* When nothing is pending nothing runs; when a result waits neither.
LEMMA IdleRunsNothing ==
    ASSUME IInv
    PROVE  /\ pending = 0 => op = NoOp
           /\ Complete => op = NoOp /\ op' = NoOp
BY DEF IInv, CountInv, Complete

\* What a free mutex and no task that wants it come to.
LEMMA NoneWaiting ==
    ASSUME IInv
    PROVE  /\ Waiting = 0 => drops = 0 /\ lock = <<>>
           /\ Waiting \in Nat
<1>1. lock \in Seq({"op", "drop"}) /\ drops \in Nat
  BY MaxWaitingAssumption DEF IInv, RestInv
<1>2. Len(lock) \in Nat /\ (Len(lock) = 0 => lock = <<>>)
  BY <1>1
<1>3. QED
  BY <1>1, <1>2 DEF Waiting

\* A step that neither starts a sieve operation nor ends one, nor touches the
\* session.
LEMMA SessionAlone ==
    ASSUME SessionInv, ~SieveOp \/ overlay' = overlay, UNCHANGED <<user, account, sessionVars>>,
           SieveOp' <=> SieveOp, op'.at = op.at,
           op' = op \/ op' = NoOp \/ op'.account = account
    PROVE  SessionInv'
BY DEF SessionInv, Patient, WantsLock, Waiting, sessionVars, SieveOp, NoOp

\* A sieve operation of a user who waits starts when no task wants the mutex.
LEMMA SieveOpStarts ==
    ASSUME IInv, SessionInv, Ready, overlay' = "none", UNCHANGED <<user, account, sessionVars>>,
           NEW kind \in SieveKinds, Spawn(kind, Nothing)
    PROVE  SessionInv'
<1> SUFFICES ASSUME Patient' PROVE SessionInv'
  BY DEF SessionInv
<1>1. Patient
  BY DEF Patient
<1>2. drops = 0 /\ lock = <<>> /\ session \in {Nothing, account}
  BY <1>1, NoneWaiting DEF Ready, SessionInv
<1>3. op'.kind \in SieveKinds /\ op'.at = "run" /\ op'.account = account
  BY DEF Spawn
<1>4. drops' = 0 /\ lock' = <<>> /\ session' = session /\ account' = account
  BY <1>2 DEF sessionVars
<1>5. QED
  BY <1>2, <1>3, <1>4 DEF SessionInv, SieveOp, WantsLock

\* An operation of another kind starts: nothing changes for the session.
LEMMA OtherStarts ==
    ASSUME IInv, SessionInv, UNCHANGED <<user, account, sieveVars>>,
           NEW kind \in {"send", "other"}, NEW draft \in Draft, Spawn(kind, draft)
    PROVE  SessionInv'
<1> SUFFICES ASSUME Patient' PROVE SessionInv'
  BY DEF SessionInv
<1>1. Patient
  BY DEF Patient
<1>2. op = NoOp
  BY IdleRunsNothing DEF Spawn
<1>3. ~SieveOp /\ ~SieveOp' /\ op'.at = "run" /\ op'.account = account
  BY <1>2 DEF SieveOp, SieveKinds, NoOp, Spawn
<1>4. QED
  BY <1>1, <1>3 DEF SessionInv, Waiting, sieveVars, sessionVars

\* A task is spawned to drop the session, no sieve operation running.
LEMMA DropSpawned ==
    ASSUME IInv, SessionInv, SpawnDrop, Patient => ~SieveOp /\ (op = NoOp \/ account' = account),
           UNCHANGED <<user, op>>
    PROVE  SessionInv'
<1> SUFFICES ASSUME Patient' PROVE SessionInv'
  BY DEF SessionInv
<1>1. Patient /\ ~SieveOp /\ ~SieveOp'
  BY DEF Patient, SieveOp
<1>2. drops \in Nat /\ Len(lock) \in Nat
  BY MaxWaitingAssumption DEF IInv, RestInv
<1>3. Waiting' > 0
  BY <1>2 DEF SpawnDrop, Waiting
<1>4. lock' = lock /\ lock \in Seq({"drop"}) /\ op.at \in {"none", "run"}
  BY <1>1 DEF SessionInv, SpawnDrop
<1>5. op' = NoOp \/ op'.account = account'
  BY <1>1 DEF SessionInv, NoOp
<1>6. QED
  BY <1>1, <1>3, <1>4, <1>5 DEF SessionInv

\* The user's steps keep the session right.
LEMMA UserKeepsSession == IInv /\ SessionInv /\ User => SessionInv'
<1> SUFFICES ASSUME IInv, SessionInv, User PROVE SessionInv'
  OBVIOUS
<1>1. CASE StartOther
  BY <1>1, OtherStarts DEF StartOther, Draft
<1>2. CASE List
  BY <1>2, SieveOpStarts DEF List, SieveKinds, KeysTo, sieveVars
<1>3. CASE Get
  <2>1. CASE Spawn("get", Nothing)
    BY <1>3, <2>1, SieveOpStarts DEF Get, SieveKinds
  <2>2. CASE UNCHANGED opVars
    <3>1. Patient => ~SieveOp
      BY <1>3 DEF Get, KeysTo, SessionInv
    <3>2. QED
      BY <1>3, <2>2, <3>1 DEF Get, SessionInv, Patient, sessionVars, opVars, SieveOp, Waiting
  <2>3. QED
    BY <1>3, <2>1, <2>2 DEF Get
<1>4. CASE Put
  BY <1>4, SieveOpStarts DEF Put, SieveKinds
<1>5. CASE Cancel
  <2>1. Patient => ~SieveOp
    BY <1>5 DEF Cancel, KeysTo, SessionInv
  <2>2. QED
    BY <1>5, <2>1, DropSpawned DEF Cancel, opVars
<1>6. CASE (\E d \in Drafts : Compose(d)) \/ Close
  BY <1>6, SessionAlone DEF Compose, Close, opVars, sieveVars, SieveOp
<1>7. CASE SendComposer
  <2>1. CASE pending = 0
    BY <1>7, <2>1, OtherStarts DEF SendComposer, Draft, IInv, RestInv
  <2>2. CASE pending # 0
    BY <1>7, <2>2, SessionAlone DEF SendComposer, opVars, sieveVars, SieveOp
  <2>3. QED
    BY <2>1, <2>2
<1>8. CASE SwitchAccount
  <2>1. Patient => op = NoOp
    BY <1>8, IdleRunsNothing DEF SwitchAccount
  <2>2. Patient => ~SieveOp
    BY <2>1 DEF SieveOp, SieveKinds, NoOp
  <2>3. QED
    BY <1>8, <2>1, <2>2, DropSpawned DEF SwitchAccount, opVars
<1>9. QED
  BY <1>1, <1>2, <1>3, <1>4, <1>5, <1>6, <1>7, <1>8 DEF User

\* An operation that posts its result has nothing of the session left.
LEMMA SieveOpEnds ==
    ASSUME IInv, SessionInv, SieveOp, NEW ok \in BOOLEAN, Post(ok),
           UNCHANGED <<user, account, drops, overlay>>,
           Patient => lock' = <<>> /\ session' \in {Nothing, session}
    PROVE  SessionInv'
<1> SUFFICES ASSUME Patient' PROVE SessionInv'
  BY DEF SessionInv
<1>1. Patient
  BY DEF Patient
<1>2. ~SieveOp' /\ op' = NoOp /\ op'.at = "none"
  BY DEF Post, NoOp, SieveOp, SieveKinds
<1>3. session' \in {Nothing, account'} /\ lock' \in Seq({"drop"})
  BY <1>1 DEF SessionInv
<1>4. QED
  BY <1>2, <1>3 DEF SessionInv

\* A sieve operation goes on, alone with the mutex.
LEMMA SieveOpGoesOn ==
    ASSUME IInv, SessionInv, SieveOp, NEW at \in {"connect", "connected", "use", "dead"},
           op' = [op EXCEPT !.at = at],
           UNCHANGED <<user, account, drops, overlay>>,
           Patient => /\ lock' = IF at \in {"connect", "use"} THEN <<"op">> ELSE <<>>
                      /\ session' \in {session, account}
                      /\ at \in {"connected", "use"} => session' = account
    PROVE  SessionInv'
<1> SUFFICES ASSUME Patient' PROVE SessionInv'
  BY DEF SessionInv
<1>1. Patient
  BY DEF Patient
<1>2. op'.at = at /\ op'.kind = op.kind /\ op'.account = op.account
  BY DEF IInv, CountInv, Ops
<1>3. SieveOp' /\ (WantsLock' <=> at \in {"connect", "use"})
  BY <1>2 DEF SieveOp, WantsLock
<1>4. op # NoOp
  BY DEF SieveOp, SieveKinds, NoOp
<1>5. op'.account = account' /\ drops' = 0 /\ overlay' = "none" /\ session' \in {Nothing, account'}
  BY <1>1, <1>2, <1>4 DEF SessionInv
<1>6. QED
  BY <1>1, <1>2, <1>3, <1>5 DEF SessionInv

\* An operation that comes to use the session finds it.
LEMMA SessionFound == IInv /\ SessionInv => FindsItsSession
<1> SUFFICES ASSUME IInv, SessionInv, Patient, op.at = "use" PROVE session = op.account
  BY DEF FindsItsSession
<1>1. op # NoOp
  BY DEF NoOp
<1>2. QED
  BY <1>1 DEF SessionInv

\* The operation's steps keep the session right; for a user who waits Panic is
\* none of them.
LEMMA OpTaskKeepsSession == IInv /\ SessionInv /\ OpTask => SessionInv'
<1> SUFFICES ASSUME IInv, SessionInv, OpTask PROVE SessionInv'
  OBVIOUS
<1>0. op.at \in {"connect", "connected", "use"} => (Patient => SieveOp)
  BY DEF SessionInv
<1>1. CASE EndOther \/ EndSend
  <2>1. ~SieveOp /\ op' = NoOp /\ UNCHANGED <<user, account, sieveVars>>
    BY <1>1 DEF EndOther, EndSend, Post, SieveOp, SieveKinds
  <2>2. ~SieveOp' /\ op'.at = "none"
    BY <2>1 DEF NoOp, SieveOp, SieveKinds
  <2>3. QED
    BY <2>1, <2>2 DEF SessionInv, Patient, Waiting, sieveVars, sessionVars
<1>2. CASE AskToConnect
  <2>1. Patient => lock = <<>>
    BY <1>2 DEF AskToConnect, SessionInv, SieveOp, WantsLock
  <2>2. Patient => lock' = <<"op">>
    BY <1>2, <2>1 DEF AskToConnect
  <2>3. QED
    BY <1>2, <2>2, SieveOpGoesOn DEF AskToConnect, SieveOp
<1>3. CASE Connect
  <2> SUFFICES ASSUME Patient PROVE SessionInv'
    BY <1>3 DEF SessionInv, Patient, Connect
  <2>1. SieveOp /\ op.at = "connect" /\ op # NoOp
    BY <1>0, <1>3 DEF Connect, NoOp
  <2>2. lock = <<"op">> /\ session \in {Nothing, account} /\ op.account = account
    BY <2>1 DEF SessionInv, WantsLock
  <2>3. lock' = <<>>
    BY <1>3, <2>2 DEF Connect
  <2>4. CASE Post(FALSE) /\ UNCHANGED session
    BY <1>3, <2>1, <2>3, <2>4, SieveOpEnds DEF Connect
  <2>5. CASE /\ session' = IF session = Nothing THEN op.account ELSE session
             /\ op' = [op EXCEPT !.at = "connected"]
    BY <1>3, <2>1, <2>2, <2>3, <2>5, SieveOpGoesOn DEF Connect
  <2>6. QED
    BY <1>3, <2>4, <2>5 DEF Connect
<1>4. CASE AskToUse
  <2> SUFFICES ASSUME Patient PROVE SessionInv'
    BY <1>4 DEF SessionInv, Patient, AskToUse
  <2>1. SieveOp /\ op.at = "connected"
    BY <1>0, <1>4 DEF AskToUse
  <2>2. lock = <<>> /\ session = account
    BY <2>1 DEF SessionInv, WantsLock
  <2>3. lock' = <<"op">>
    BY <1>4, <2>2 DEF AskToUse
  <2>4. QED
    BY <1>4, <2>1, <2>2, <2>3, SieveOpGoesOn DEF AskToUse
<1>5. CASE Use
  <2> SUFFICES ASSUME Patient PROVE SessionInv'
    BY <1>5 DEF SessionInv, Patient, Use
  <2>1. SieveOp /\ op.at = "use"
    BY <1>0, <1>5 DEF Use
  <2>2. lock = <<"op">>
    BY <2>1 DEF SessionInv, WantsLock
  <2>3. lock' = <<>>
    BY <1>5, <2>2 DEF Use
  <2>4. PICK ok \in BOOLEAN : Post(ok) /\ session' = IF ok THEN session ELSE Nothing
    BY <1>5 DEF Use
  <2>5. QED
    BY <1>5, <2>1, <2>3, <2>4, SieveOpEnds DEF Use
<1>6. CASE Panic
  <2>1. ~Patient
    <3> SUFFICES ASSUME Patient PROVE FALSE
      OBVIOUS
    <3>1. session = op.account /\ session = Nothing
      BY <1>6, SessionFound DEF Panic, FindsItsSession
    <3>2. op.account \in Accounts
      BY DEF IInv, CountInv, Ops
    <3>3. QED
      BY <3>1, <3>2, NothingAssumption
  <2>2. QED
    BY <1>6, <2>1 DEF Panic, Patient, SessionInv
<1>7. QED
  BY <1>1, <1>2, <1>3, <1>4, <1>5, <1>6 DEF OpTask

\* So do the tasks that drop the session, which run when no operation needs it,
\* and the event loop.
LEMMA OthersKeepSession == IInv /\ SessionInv /\ (DropTask \/ Handle) => SessionInv'
<1> SUFFICES ASSUME IInv, SessionInv, DropTask \/ Handle PROVE SessionInv'
  OBVIOUS
<1>1. CASE AskToDrop
  <2> SUFFICES ASSUME Patient PROVE SessionInv'
    BY <1>1 DEF SessionInv, Patient, AskToDrop
  <2>1. ~SieveOp /\ ~SieveOp' /\ op' = op
    BY <1>1 DEF AskToDrop, SessionInv, SieveOp, opVars
  <2>2. lock \in Seq({"drop"}) /\ drops \in Nat
    BY <2>1, MaxWaitingAssumption DEF SessionInv, IInv, RestInv
  <2>3. lock' \in Seq({"drop"}) /\ Len(lock') = Len(lock) + 1
    BY <1>1, <2>2 DEF AskToDrop
  <2>4. Waiting' = Waiting
    BY <1>1, <2>2, <2>3 DEF AskToDrop, Waiting
  <2>5. QED
    BY <1>1, <2>1, <2>3, <2>4 DEF AskToDrop, SessionInv, Patient
<1>2. CASE Drop
  <2> SUFFICES ASSUME Patient PROVE SessionInv'
    BY <1>2 DEF SessionInv, Patient, Drop
  <2>1. Head(lock) = "drop" /\ lock # <<>> /\ op' = op
    BY <1>2 DEF Drop, Holds, opVars
  <2>2. ~SieveOp
    <3>1. ASSUME SieveOp PROVE FALSE
      <4>1. lock = <<"op">>
        BY <2>1, <3>1 DEF SessionInv
      <4>2. QED
        BY <2>1, <4>1
    <3>2. QED
      BY <3>1
  <2>3. ~SieveOp'
    BY <2>1, <2>2 DEF SieveOp
  <2>4. lock \in Seq({"drop"}) /\ op.at \in {"none", "run"}
    BY <2>2 DEF SessionInv
  <2>5. lock' \in Seq({"drop"}) /\ session' = Nothing
    BY <1>2, <2>1, <2>4 DEF Drop
  <2>6. QED
    BY <1>2, <2>1, <2>3, <2>4, <2>5 DEF Drop, SessionInv, Patient
<1>3. CASE HandleSent \/ HandleShown
  <2>1. op = NoOp /\ op' = NoOp /\ UNCHANGED <<user, account, sessionVars>>
    BY <1>3, IdleRunsNothing DEF HandleSent, HandleShown, sieveVars
  <2>2. ~SieveOp /\ ~SieveOp'
    BY <2>1 DEF NoOp, SieveOp, SieveKinds
  <2>3. QED
    BY <2>1, <2>2, SessionAlone
<1>4. CASE HandleDropped
  <2>1. op = NoOp /\ op' = op
    BY <1>4, IdleRunsNothing DEF HandleDropped
  <2>2. ~SieveOp
    BY <2>1 DEF NoOp, SieveOp, SieveKinds
  <2>3. QED
    BY <1>4, <2>1, <2>2, DropSpawned DEF HandleDropped
<1>5. QED
  BY <1>1, <1>2, <1>3, <1>4 DEF DropTask, Handle

\* expect("just connected") holds for a user who waits, and the session that a sieve
\* operation uses is that of the account it was started for.
THEOREM SessionIsItsOwn == Spec => []FindsItsSession
<1>1. Init => SessionInv
  BY DEF Init, SessionInv, SieveOp, SieveKinds, NoOp, Waiting
<1>2. IInv /\ SessionInv /\ UNCHANGED vars => SessionInv'
  BY SessionAlone DEF vars, sieveVars, opVars, SieveOp
<1>3. IInv /\ SessionInv /\ [Next]_vars => SessionInv'
  BY <1>2, UserKeepsSession, OpTaskKeepsSession, OthersKeepSession DEF Next
<1>4. QED
  BY <1>1, <1>3, SessionFound, Counting, PTL DEF Spec


----------------------------------------------------------------------------
(* The folder list and the message list *)

LEMMA ViewCardinality == \A S : View!Cardinality(S) = Cardinality(S)
  BY DEF View!Cardinality, Cardinality

\* A list in order has each member once.
LEMMA Lists ==
  ASSUME NEW S, S \subseteq Nat, IsFiniteSet(S)
  PROVE  \A s \in {View!Ascending(S), View!Descending(S)} :
            /\ s \in Seq(S) /\ Len(s) = Cardinality(S) /\ Len(s) \in Nat /\ DOMAIN s = 1..Len(s)
            /\ \A x \in S : \E i \in 1..Len(s) : s[i] = x
<1> DEFINE n == Cardinality(S)
<1>1. n \in Nat /\ View!Cardinality(S) = n
  BY Sortable, ViewCardinality
<1>2. PICK s \in [1..n -> S] : Increases(s, n)
  BY Sortable
<1>3. \A i \in 1..n : s[i] \in Nat
  BY <1>2
<1>4. View!Ascending(S) \in [1..n -> S] /\ \A i, j \in 1..n : i < j => View!Ascending(S)[i] < View!Ascending(S)[j]
  <2>1. View!Ascending(S) = CHOOSE t \in [1..n -> S] : \A i, j \in DOMAIN t : i < j => t[i] < t[j]
    BY <1>1 DEF View!Ascending, View!InOrder
  <2>2. \A i, j \in DOMAIN s : i < j => s[i] < s[j]
    BY <1>2 DEF Increases
  <2> HIDE DEF n
  <2>3. /\ View!Ascending(S) \in [1..n -> S]
        /\ \A i, j \in DOMAIN View!Ascending(S) : i < j => View!Ascending(S)[i] < View!Ascending(S)[j]
    BY <2>1, <2>2
  <2>4. QED
    BY <2>3
<1>5. View!Descending(S) \in [1..n -> S] /\ \A i, j \in 1..n : i < j => View!Descending(S)[i] > View!Descending(S)[j]
  <2>1. View!Descending(S) = CHOOSE t \in [1..n -> S] : \A i, j \in DOMAIN t : i < j => t[i] > t[j]
    BY <1>1 DEF View!Descending, View!InOrder
  <2> DEFINE d == [i \in 1..n |-> s[n + 1 - i]]
  <2>2. \A i \in 1..n : n + 1 - i \in 1..n
    BY <1>1
  <2> HIDE DEF n
  <2>3. d \in [1..n -> S]
    BY <1>2, <2>2
  <2>4. ASSUME NEW i \in 1..n, NEW j \in 1..n, i < j PROVE d[i] > d[j]
    <3>1. n + 1 - j < n + 1 - i
      BY <1>1, <2>4
    <3>2. s[n + 1 - j] < s[n + 1 - i]
      BY <1>2, <2>2, <3>1 DEF Increases
    <3>3. s[n + 1 - j] \in Nat /\ s[n + 1 - i] \in Nat
      BY <1>3, <2>2
    <3>4. QED
      BY <3>2, <3>3
  <2> HIDE DEF d
  <2>5. \A i, j \in DOMAIN d : i < j => d[i] > d[j]
    BY <2>3, <2>4
  <2>6. /\ View!Descending(S) \in [1..n -> S]
        /\ \A i, j \in DOMAIN View!Descending(S) : i < j => View!Descending(S)[i] > View!Descending(S)[j]
    BY <2>1, <2>3, <2>5
  <2>7. QED
    BY <2>6
<1>6. ASSUME NEW t \in [1..n -> S], \A i, j \in 1..n : i < j => t[i] < t[j] \/ t[i] > t[j]
      PROVE  /\ t \in Seq(S) /\ Len(t) = n /\ Len(t) \in Nat /\ DOMAIN t = 1..Len(t)
             /\ \A x \in S : \E i \in 1..Len(t) : t[i] = x
  <2>1. \A i \in 1..n : t[i] \in Nat
    OBVIOUS
  <2>2. \A i, j \in 1..n : i < j => t[i] # t[j]
    <3> HIDE DEF n
    <3>1. QED
      BY <1>6, <2>1
  <2>3. QED
    BY <1>1, <2>2, Reaches
<1> HIDE DEF n
<1>7. QED
  BY <1>4, <1>5, <1>6 DEF n

Messages == [account : Accounts, folder : Folders, uid : Uids]
Folder == Folders \cup {0}

\* The messages of a list are those of the uids it is made of.
LEMMA MessagesInOrder ==
  ASSUME NEW a \in Accounts, NEW f \in Folders, NEW S \in SUBSET Uids
  PROVE  LET uids == View!Descending(S)
             list == [i \in DOMAIN uids |-> [account |-> a, folder |-> f, uid |-> uids[i]]]
         IN /\ list \in Seq(Messages)
            /\ \A i \in DOMAIN list : list[i].account = a /\ list[i].folder = f
            /\ \A u \in S : \E i \in DOMAIN list : list[i] = [account |-> a, folder |-> f, uid |-> u]
<1> DEFINE uids == View!Descending(S)
           list == [i \in DOMAIN uids |-> [account |-> a, folder |-> f, uid |-> uids[i]]]
<1>1. IsFiniteSet(S) /\ S \subseteq Nat
  BY UidsAssumption, FS_Subset
<1>2. /\ uids \in Seq(S) /\ Len(uids) \in Nat /\ DOMAIN uids = 1..Len(uids)
      /\ \A u \in S : \E i \in 1..Len(uids) : uids[i] = u
  BY <1>1, Lists
<1> HIDE DEF uids
<1>3. \A i \in 1..Len(uids) : uids[i] \in Uids
  BY <1>2
<1>4. /\ DOMAIN list = 1..Len(uids)
      /\ \A i \in 1..Len(uids) : list[i] = [account |-> a, folder |-> f, uid |-> uids[i]]
  BY <1>2
<1>5. \A i \in 1..Len(uids) : list[i] \in Messages /\ list[i].account = a /\ list[i].folder = f
  BY <1>3, <1>4 DEF Messages
<1>6. list \in Seq(Messages)
  <2>1. list \in [1..Len(uids) -> Messages]
    BY <1>2, <1>5
  <2> HIDE DEF list
  <2>2. QED
    BY <1>2, <2>1
<1> HIDE DEF list
<1>7. \A u \in S : \E i \in DOMAIN list : list[i] = [account |-> a, folder |-> f, uid |-> u]
  BY <1>2, <1>4
<1>8. /\ list \in Seq(Messages)
      /\ \A i \in DOMAIN list : list[i].account = a /\ list[i].folder = f
      /\ \A u \in S : \E i \in DOMAIN list : list[i] = [account |-> a, folder |-> f, uid |-> u]
  BY <1>4, <1>5, <1>6, <1>7
<1>9. QED
  BY <1>8 DEF list, uids

\* The messages of a folder are its rows, and of that folder and account.
LEMMA MessagesListed ==
  ASSUME rows \in [Accounts -> [Folders -> SUBSET Uids]], NEW a \in Accounts, NEW f \in Folder
  PROVE  /\ View!ListMessages(a, f) \in Seq(Messages)
         /\ \A i \in DOMAIN View!ListMessages(a, f) :
               View!ListMessages(a, f)[i].account = a /\ View!ListMessages(a, f)[i].folder = f
         /\ f # 0 => \A u \in rows[a][f] : \E i \in DOMAIN View!ListMessages(a, f) :
               View!ListMessages(a, f)[i] = [account |-> a, folder |-> f, uid |-> u]
<1>1. CASE f = 0
  <2>1. View!ListMessages(a, f) = <<>>
    BY <1>1 DEF View!ListMessages, View!None
  <2>2. <<>> \in Seq(Messages) /\ \A i \in DOMAIN <<>> : FALSE
    OBVIOUS
  <2>3. QED
    BY <1>1, <2>1, <2>2
<1>2. CASE f # 0
  <2> DEFINE uids == View!Descending(rows[a][f])
             list == [i \in DOMAIN uids |-> [account |-> a, folder |-> f, uid |-> uids[i]]]
  <2>1. f \in Folders /\ rows[a][f] \in SUBSET Uids
    BY <1>2 DEF Folder
  <2>2. View!ListMessages(a, f) = list
    BY <1>2 DEF View!ListMessages, View!None, View!Row
  <2>3. /\ list \in Seq(Messages)
        /\ \A i \in DOMAIN list : list[i].account = a /\ list[i].folder = f
        /\ \A u \in rows[a][f] : \E i \in DOMAIN list : list[i] = [account |-> a, folder |-> f, uid |-> u]
    BY <2>1, MessagesInOrder
  <2> HIDE DEF list
  <2>4. QED
    BY <2>2, <2>3
<1>3. QED
  BY <1>1, <1>2

\* Something is selected in a list that has something; what was selected, if it is there.
LEMMA Resolved ==
  ASSUME NEW T, NEW list \in Seq(T), NEW x
  PROVE  /\ View!Resolve(list, x) \in 0..Len(list) /\ Len(list) \in Nat /\ DOMAIN list = 1..Len(list)
         /\ list # <<>> => View!Resolve(list, x) \in DOMAIN list
         /\ list = <<>> => View!Resolve(list, x) = 0
         /\ (\E i \in DOMAIN list : list[i] = x) =>
               View!Resolve(list, x) \in DOMAIN list /\ list[View!Resolve(list, x)] = x
<1>1. Len(list) \in Nat /\ DOMAIN list = 1..Len(list) /\ (list = <<>> => Len(list) = 0)
      /\ (list # <<>> => 1 \in 1..Len(list))
  BY EmptySeq
<1>2. CASE list = <<>>
  BY <1>1, <1>2 DEF View!Resolve, View!None
<1>3. CASE list # <<>> /\ \E i \in DOMAIN list : list[i] = x
  <2>1. View!Resolve(list, x) = CHOOSE i \in DOMAIN list : list[i] = x
    BY <1>1, <1>3 DEF View!Resolve, View!Contains
  <2>2. QED
    BY <1>1, <1>3, <2>1
<1>4. CASE list # <<>> /\ ~\E i \in DOMAIN list : list[i] = x
  <2>1. View!Resolve(list, x) = 1
    BY <1>1, <1>4 DEF View!Resolve, View!Contains
  <2>2. QED
    BY <1>1, <1>4, <2>1
<1>5. QED
  BY <1>2, <1>3, <1>4

\* The message pane has its type; its messages are of an account and a folder.
PaneOf(a, f) ==
    /\ shown' \in Seq(Messages)
    /\ msel' \in 0..Len(shown') /\ (shown' # <<>> => msel' # 0)
    /\ watch' \in [account : Accounts, folder : Folder, uid : {0}]
    /\ \A i \in DOMAIN shown' : shown'[i].account = a /\ shown'[i].folder = f

LEMMA Loaded ==
  ASSUME View!TypeOK, NEW a \in Accounts, NEW f \in Folder, NEW was, View!Load(a, f, was)
  PROVE  /\ PaneOf(a, f)
         /\ f # 0 => \A u \in rows[a][f] :
               was = [account |-> a, folder |-> f, uid |-> u] => msel' \in DOMAIN shown' /\ shown'[msel'] = was
<1>1. shown' = View!ListMessages(a, f) /\ msel' = View!Resolve(shown', was)
  BY DEF View!Load
<1>2. watch' \in [account : Accounts, folder : Folder, uid : {0}]
  <2>1. watch \in [account : Accounts, folder : Folder, uid : {0}]
    BY DEF View!TypeOK, Folder, View!None
  <2>2. [account |-> a, folder |-> f, uid |-> 0] \in [account : Accounts, folder : Folder, uid : {0}]
    OBVIOUS
  <2>3. QED
    BY <2>1, <2>2 DEF View!Load, View!Row, View!None
<1>3. /\ shown' \in Seq(Messages)
      /\ \A i \in DOMAIN shown' : shown'[i].account = a /\ shown'[i].folder = f
      /\ f # 0 => \A u \in rows[a][f] : \E i \in DOMAIN shown' :
            shown'[i] = [account |-> a, folder |-> f, uid |-> u]
  BY <1>1, MessagesListed DEF View!TypeOK
<1>4. /\ msel' \in 0..Len(shown') /\ Len(shown') \in Nat /\ DOMAIN shown' = 1..Len(shown')
      /\ shown' # <<>> => msel' \in DOMAIN shown'
      /\ (\E i \in DOMAIN shown' : shown'[i] = was) => msel' \in DOMAIN shown' /\ shown'[msel'] = was
  BY <1>1, <1>3, Resolved
<1>5. PaneOf(a, f)
  BY <1>2, <1>3, <1>4 DEF PaneOf
<1>6. QED
  BY <1>3, <1>4, <1>5

LEMMA CurrentFolder ==
  ASSUME View!TypeOK
  PROVE  /\ View!Current \in Folder
         /\ Len(listed) \in Nat /\ DOMAIN listed = 1..Len(listed)
         /\ fsel \in DOMAIN listed => View!Current = listed[fsel] /\ View!Current \in Folders
         /\ fsel \notin DOMAIN listed => View!Current = 0
<1>1. listed \in Seq(Folders) /\ Len(listed) \in Nat /\ DOMAIN listed = 1..Len(listed)
  BY DEF View!TypeOK
<1>2. QED
  BY <1>1 DEF View!Current, View!None, Folder

\* The folders that are listed, each once.
LEMMA FoldersListed ==
  ASSUME NEW S \in SUBSET Folders
  PROVE  LET l == View!Ascending(S) IN
         /\ l \in Seq(Folders) /\ Len(l) \in Nat /\ DOMAIN l = 1..Len(l)
         /\ Len(l) <= Cardinality(Folders)
         /\ \A f \in S : \E i \in DOMAIN l : l[i] = f
<1> DEFINE l == View!Ascending(S)
<1>1. IsFiniteSet(S) /\ S \subseteq Nat /\ S \subseteq Folders
  BY FoldersAssumption, FS_Subset
<1>2. /\ l \in Seq(S) /\ Len(l) = Cardinality(S) /\ Len(l) \in Nat /\ DOMAIN l = 1..Len(l)
      /\ \A f \in S : \E i \in 1..Len(l) : l[i] = f
  BY <1>1, Lists
<1>3. Cardinality(S) <= Cardinality(Folders)
  BY <1>1, FoldersAssumption, FS_Subset
<1> HIDE DEF l
<1>4. l \in Seq(Folders)
  <2>1. \A i \in 1..Len(l) : l[i] \in S
    BY <1>2
  <2>2. l \in [1..Len(l) -> S]
    BY <1>2
  <2>3. l \in [1..Len(l) -> Folders]
    BY <1>1, <2>2
  <2>4. QED
    BY <1>2, <2>3
<1>5. QED
  BY <1>2, <1>3, <1>4 DEF l

\* j and k wrap at the ends.
LEMMA Wraps ==
  ASSUME NEW i \in Nat, NEW n \in Nat \ {0}, NEW k \in View!Neighbours(i, n)
  PROVE  k \in 1..n
<1> DEFINE at == IF i = View!None THEN 0 ELSE i - 1
<1>1. at \in Nat
  BY DEF View!None
<1>2. k \in {((at + 1) % n) + 1, ((at + n - 1) % n) + 1}
  BY DEF View!Neighbours
<1> HIDE DEF at
<1>3. at + 1 \in Nat /\ at + n - 1 \in Nat
  BY <1>1
<1>4. \A x \in Nat : x % n \in 0..(n - 1)
  OBVIOUS
<1>5. (at + 1) % n \in 0..(n - 1) /\ (at + n - 1) % n \in 0..(n - 1)
  BY <1>3, <1>4
<1>6. QED
  BY <1>2, <1>5

LEMMA CountedFolders == Cardinality(Folders) \in Nat
  BY FoldersAssumption, FS_CardinalityType

\* The store and the folder pane have their types after a step.
StoreOK ==
    /\ exists' \in [Accounts -> SUBSET Folders] /\ rows' \in [Accounts -> [Folders -> SUBSET Uids]]
    /\ habits' = habits /\ changes' \in 0..MaxChanges
FoldersOK ==
    /\ open_account' \in Accounts
    /\ listed' \in Seq(Folders) /\ Len(listed') <= Cardinality(Folders)
    /\ fsel' \in 0..Cardinality(Folders)

\* Where the message list is loaded for the current folder, the lists agree.
LEMMA PanesAgree ==
  ASSUME View!TypeOK, StoreOK, FoldersOK, PaneOf(open_account', View!Current')
  PROVE  View!TypeOK' /\ View!ListsInv' /\ View!ListsAgree'
<1>1. View!TypeOK'
  BY ViewCardinality DEF View!TypeOK, View!None, StoreOK, FoldersOK, PaneOf, Messages, Folder
<1>2. View!ListsInv' /\ View!ListsAgree'
  BY ViewCardinality DEF View!ListsInv, View!ListsAgree, FoldersOK, PaneOf
<1>3. QED
  BY <1>1, <1>2

\* Where the message list stays, it agrees as it did, unless the current folder moves.
LEMMA PanesStay ==
  ASSUME View!TypeOK, View!ListsInv, StoreOK, FoldersOK, open_account' = open_account,
         shown' = shown, watch' = watch, msel' \in 0..Len(shown), shown # <<>> => msel' # 0,
         habits \subseteq {"account"} => View!Current' = View!Current
  PROVE  View!TypeOK' /\ View!ListsInv'
<1>1. View!TypeOK'
  BY ViewCardinality DEF View!TypeOK, View!None, StoreOK, FoldersOK
<1>2. View!ListsInv'
  BY ViewCardinality DEF View!ListsInv, StoreOK, FoldersOK
<1>3. QED
  BY <1>1, <1>2

LEMMA ViewInit ==
  ASSUME View!Init
  PROVE  View!TypeOK /\ View!ListsInv
<1> DEFINE S == exists[Boot] \ NoSelect
<1>1. /\ exists \in [Accounts -> SUBSET Folders] /\ rows \in [Accounts -> [Folders -> SUBSET Uids]]
      /\ Boot \in Accounts /\ open_account = Boot /\ habits \in Habits /\ changes \in 0..MaxChanges
  BY BootAssumption, ChangesAssumption DEF View!Init
<1>2. /\ listed \in Seq(Folders) /\ Len(listed) \in Nat /\ DOMAIN listed = 1..Len(listed)
      /\ Len(listed) <= Cardinality(Folders)
  <2>1. S \in SUBSET Folders
    BY <1>1
  <2>2. listed = View!Ascending(S)
    BY DEF View!Init, View!ListSelectable
  <2> HIDE DEF S
  <2>3. QED
    BY <2>1, <2>2, FoldersListed
<1>3. fsel \in 0..Cardinality(Folders)
  <2>1. listed # <<>> => Len(listed) \in Nat \ {0}
    BY <1>2, EmptySeq
  <2>2. QED
    BY <1>2, <2>1, CountedFolders DEF View!Init, View!None
<1>4. View!Current \in Folder
  BY <1>2 DEF View!Current, View!None, Folder
<1>5. /\ shown \in Seq(Messages)
      /\ \A i \in DOMAIN shown : shown[i].account = Boot /\ shown[i].folder = View!Current
  BY <1>1, <1>4, MessagesListed DEF View!Init
<1>6. msel \in 0..Len(shown) /\ (shown # <<>> => msel # 0)
  <2>1. (shown # <<>> => Len(shown) \in Nat \ {0}) /\ Len(shown) \in Nat
    BY <1>5, EmptySeq
  <2>2. QED
    BY <2>1 DEF View!Init, View!None
<1>7. watch \in [account : Accounts, folder : Folder, uid : {0}]
  BY <1>1, <1>4 DEF View!Init, View!Row, View!None
<1>8. View!TypeOK
  BY <1>1, <1>2, <1>3, <1>5, <1>6, <1>7, ViewCardinality DEF View!TypeOK, View!None, Messages, Folder
<1>9. View!ListsInv
  BY <1>1, <1>2, <1>5, ViewCardinality DEF View!ListsInv
<1>10. QED
  BY <1>8, <1>9

\* An update lists the folders, keeps the current one if it is there, and loads its messages.
LEMMA UpdatedLists ==
  ASSUME View!TypeOK, View!Updated
  PROVE  /\ FoldersOK /\ open_account' = open_account /\ UNCHANGED <<exists, rows, habits, changes>>
         /\ View!Current' \in Folder /\ View!Load(open_account, View!Current', View!Selected)
         /\ View!Current \in exists[open_account] \ NoSelect => View!Current' = View!Current
<1> DEFINE S == exists[open_account] \ NoSelect
           f == IF fsel' = 0 THEN 0 ELSE listed'[fsel']
<1>1. /\ listed' = View!Ascending(S) /\ fsel' = View!Resolve(listed', View!Current)
      /\ View!Load(open_account, f, View!Selected) /\ open_account' = open_account
      /\ UNCHANGED <<exists, rows, habits, changes>>
  BY DEF View!Updated, View!ListSelectable, View!None, View!store
<1>2. S \in SUBSET Folders /\ open_account \in Accounts
  BY DEF View!TypeOK
<1> HIDE DEF S
<1>3. /\ listed' \in Seq(Folders) /\ Len(listed') \in Nat /\ DOMAIN listed' = 1..Len(listed')
      /\ Len(listed') <= Cardinality(Folders)
      /\ \A x \in S : \E i \in DOMAIN listed' : listed'[i] = x
  BY <1>1, <1>2, FoldersListed
<1>4. /\ fsel' \in 0..Len(listed')
      /\ View!Current \in S => fsel' \in DOMAIN listed' /\ listed'[fsel'] = View!Current
  BY <1>1, <1>3, Resolved
<1>5. fsel' # 0 <=> fsel' \in DOMAIN listed'
  BY <1>3, <1>4
<1>6. f \in Folder /\ View!Current' = f
  BY <1>3, <1>5 DEF View!Current, View!None, Folder
<1>7. View!Current \in S => f = View!Current
  BY <1>4, <1>5
<1> HIDE DEF f
<1>8. fsel' \in 0..Cardinality(Folders)
  BY <1>3, <1>4, CountedFolders
<1>9. FoldersOK
  BY <1>1, <1>2, <1>3, <1>8 DEF FoldersOK
<1>10. QED
  BY <1>1, <1>6, <1>7, <1>9 DEF S

\* A step keeps the types and the lists; and an update lets the lists agree.
LEMMA ViewNext ==
  ASSUME View!TypeOK, View!ListsInv, [View!Next]_(View!vars)
  PROVE  View!TypeOK' /\ View!ListsInv' /\ (View!Updated => View!ListsAgree')
<1> DEFINE Kept == View!TypeOK' /\ View!ListsInv'
<1>1. /\ exists \in [Accounts -> SUBSET Folders] /\ rows \in [Accounts -> [Folders -> SUBSET Uids]]
      /\ open_account \in Accounts /\ changes \in 0..MaxChanges
      /\ listed \in Seq(Folders) /\ fsel \in 0..Cardinality(Folders)
      /\ shown \in Seq(Messages) /\ msel \in 0..Len(shown) /\ (shown # <<>> => msel # 0)
      /\ watch \in [account : Accounts, folder : Folder, uid : {0}]
      /\ Len(listed) <= Cardinality(Folders)
  BY ViewCardinality DEF View!TypeOK, View!ListsInv, View!None, Messages, Folder
<1>2. /\ Len(listed) \in Nat /\ DOMAIN listed = 1..Len(listed) /\ Cardinality(Folders) \in Nat
      /\ Len(shown) \in Nat /\ DOMAIN shown = 1..Len(shown) /\ MaxChanges \in Nat
      /\ (listed # <<>> => Len(listed) \in Nat \ {0})
  BY <1>1, CountedFolders, EmptySeq, ChangesAssumption
<1>3. ASSUME UNCHANGED <<exists, rows, habits, changes>> PROVE StoreOK
  BY <1>1, <1>3 DEF StoreOK
<1>4. ASSUME open_account' = open_account, listed' = listed, fsel' \in 0..Cardinality(Folders) PROVE FoldersOK
  BY <1>1, <1>4 DEF FoldersOK
\* A folder that is opened from the list as it is.
<1>5. ASSUME NEW i \in DOMAIN listed, fsel' = i, listed' = listed, open_account' = open_account,
             View!Load(open_account, listed[i], View!Selected), UNCHANGED <<exists, rows, habits, changes>>
      PROVE  Kept
  <2>1. listed[i] \in Folder
    BY <1>1, <1>2 DEF Folder
  <2>2. PaneOf(open_account, listed[i])
    BY <1>1, <1>5, <2>1, Loaded
  <2>3. View!Current' = listed[i]
    BY <1>5 DEF View!Current
  <2>4. fsel' \in 0..Cardinality(Folders)
    BY <1>1, <1>2, <1>5
  <2>5. StoreOK /\ FoldersOK
    BY <1>3, <1>4, <1>5, <2>4
  <2>6. PaneOf(open_account', View!Current')
    BY <1>5, <2>2, <2>3
  <2>7. QED
    BY <2>5, <2>6, PanesAgree
<1>6. ASSUME UNCHANGED View!vars PROVE Kept
  <2>1. UNCHANGED <<exists, rows, habits, changes, open_account, listed, fsel, shown, msel, watch>>
    BY <1>6 DEF View!vars, View!store, View!folderPane, View!messagePane
  <2>2. View!Current' = View!Current
    BY <2>1 DEF View!Current
  <2>3. StoreOK /\ FoldersOK
    BY <1>1, <1>3, <1>4, <2>1
  <2>4. msel' \in 0..Len(shown) /\ (shown # <<>> => msel' # 0) /\ open_account' = open_account
        /\ shown' = shown /\ watch' = watch
    BY <1>1, <2>1
  <2>5. QED
    BY <2>2, <2>3, <2>4, PanesStay
<1>7. ASSUME View!StoreChange PROVE Kept
  <2>1. View!Current' = View!Current
    BY <1>7 DEF View!StoreChange, View!folderPane, View!Current
  <2>2. StoreOK
    <3>1. changes' \in 0..MaxChanges /\ habits' = habits
      BY <1>1, <1>2, <1>7 DEF View!StoreChange
    <3>2. PICK a \in Accounts, f \in Folders :
              \/ (\E S \in SUBSET Uids : rows' = [rows EXCEPT ![a][f] = S]) /\ exists' = exists
              \/ exists' = [exists EXCEPT ![a] = @ \cup {f}] /\ rows' = rows
              \/ exists' = [exists EXCEPT ![a] = @ \ {f}] /\ rows' = [rows EXCEPT ![a][f] = {}]
      BY <1>7 DEF View!StoreChange
    <3>3. ASSUME NEW S \in SUBSET Uids, rows' = [rows EXCEPT ![a][f] = S]
          PROVE  rows' \in [Accounts -> [Folders -> SUBSET Uids]]
      <4>1. [rows[a] EXCEPT ![f] = S] \in [Folders -> SUBSET Uids]
        BY <1>1
      <4>2. rows' = [rows EXCEPT ![a] = [rows[a] EXCEPT ![f] = S]]
        BY <3>3
      <4>3. QED
        BY <1>1, <4>1, <4>2
    <3>4. rows' \in [Accounts -> [Folders -> SUBSET Uids]]
      <4>1. {} \in SUBSET Uids
        OBVIOUS
      <4>2. CASE rows' = rows
        BY <1>1, <4>2
      <4>3. CASE rows' # rows
        BY <3>2, <3>3, <4>1, <4>3
      <4>4. QED
        BY <4>2, <4>3
    <3>5. exists' \in [Accounts -> SUBSET Folders]
      BY <1>1, <3>2
    <3>6. QED
      BY <3>1, <3>4, <3>5 DEF StoreOK
  <2>3. UNCHANGED <<open_account, listed, fsel, shown, msel, watch>>
    BY <1>7 DEF View!StoreChange, View!folderPane, View!messagePane
  <2>4. FoldersOK
    BY <1>1, <1>4, <2>3
  <2>5. msel' \in 0..Len(shown) /\ (shown # <<>> => msel' # 0) /\ open_account' = open_account
        /\ shown' = shown /\ watch' = watch
    BY <1>1, <2>3
  <2>6. QED
    BY <2>1, <2>2, <2>4, <2>5, PanesStay
<1>8. ASSUME View!Updated PROVE Kept /\ View!ListsAgree'
  <2>1. /\ View!Current' \in Folder /\ View!Load(open_account, View!Current', View!Selected)
        /\ FoldersOK /\ open_account' = open_account /\ UNCHANGED <<exists, rows, habits, changes>>
    BY <1>8, UpdatedLists
  <2>2. PaneOf(open_account, View!Current')
    BY <1>1, <2>1, Loaded
  <2>3. StoreOK /\ PaneOf(open_account', View!Current')
    BY <1>3, <2>1, <2>2
  <2>4. QED
    BY <2>1, <2>3, PanesAgree
<1>9. ASSUME View!ReloadMessages PROVE Kept
  <2>1. View!Current' = View!Current /\ View!Current \in Folder
    BY <1>9, CurrentFolder DEF View!ReloadMessages, View!folderPane, View!Current
  <2>2. PaneOf(open_account, View!Current)
    BY <1>1, <1>9, <2>1, Loaded DEF View!ReloadMessages
  <2>3. UNCHANGED <<exists, rows, habits, changes, open_account, listed, fsel>>
    BY <1>9 DEF View!ReloadMessages, View!folderPane, View!store
  <2>4. StoreOK /\ FoldersOK
    BY <1>1, <1>3, <1>4, <2>3
  <2>5. PaneOf(open_account', View!Current')
    BY <2>1, <2>2, <2>3
  <2>6. QED
    BY <2>4, <2>5, PanesAgree
<1>10. ASSUME View!FolderOpDone PROVE Kept
  <2>1. /\ "folderop" \in habits /\ listed' = View!Ascending(exists[open_account])
        /\ fsel' = IF listed' # <<>> /\ fsel = 0 THEN 1 ELSE fsel
        /\ open_account' = open_account /\ UNCHANGED <<exists, rows, habits, changes, shown, msel, watch>>
    BY <1>10 DEF View!FolderOpDone, View!None, View!store, View!messagePane
  <2>2. exists[open_account] \in SUBSET Folders
    BY <1>1
  <2>3. /\ listed' \in Seq(Folders) /\ Len(listed') \in Nat /\ DOMAIN listed' = 1..Len(listed')
        /\ Len(listed') <= Cardinality(Folders)
    BY <2>1, <2>2, FoldersListed
  <2>4. listed' # <<>> => Len(listed') \in Nat \ {0}
    BY <2>3, EmptySeq
  <2>5. FoldersOK
    BY <1>1, <1>2, <2>1, <2>3, <2>4 DEF FoldersOK
  <2>6. StoreOK
    BY <1>3, <2>1
  <2>7. msel' \in 0..Len(shown) /\ (shown # <<>> => msel' # 0) /\ ~(habits \subseteq {"account"})
        /\ open_account' = open_account /\ shown' = shown /\ watch' = watch
    BY <1>1, <2>1
  <2>8. QED
    BY <2>5, <2>6, <2>7, PanesStay
<1>11. ASSUME View!StepFolder PROVE Kept
  <2>1. /\ listed # <<>> /\ fsel' \in View!Neighbours(fsel, Len(listed))
        /\ View!Load(open_account, listed[fsel'], View!Selected)
        /\ listed' = listed /\ open_account' = open_account /\ UNCHANGED <<exists, rows, habits, changes>>
    BY <1>11 DEF View!StepFolder, View!store
  <2>2. fsel' \in DOMAIN listed
    BY <1>1, <1>2, <2>1, Wraps
  <2>3. QED
    <3>1. PICK i \in DOMAIN listed : fsel' = i
      BY <2>2
    <3>2. View!Load(open_account, listed[i], View!Selected)
      BY <2>1, <3>1
    <3>3. listed' = listed /\ open_account' = open_account /\ UNCHANGED <<exists, rows, habits, changes>>
      BY <2>1
    <3>4. QED
      BY <1>5, <3>1, <3>2, <3>3
<1>12. ASSUME View!JumpFolder PROVE Kept
  <2>1. /\ "jump" \in habits /\ listed # <<>> /\ fsel' \in {1, Len(listed)} /\ listed' = listed
        /\ open_account' = open_account /\ UNCHANGED <<exists, rows, habits, changes, shown, msel, watch>>
    BY <1>12 DEF View!JumpFolder, View!store, View!messagePane
  <2>2. fsel' \in 0..Cardinality(Folders)
    BY <1>1, <1>2, <2>1
  <2>3. StoreOK /\ FoldersOK
    BY <1>3, <1>4, <2>1, <2>2
  <2>4. msel' \in 0..Len(shown) /\ (shown # <<>> => msel' # 0) /\ ~(habits \subseteq {"account"})
        /\ open_account' = open_account /\ shown' = shown /\ watch' = watch
    BY <1>1, <2>1
  <2>5. QED
    BY <2>3, <2>4, PanesStay
<1>13. ASSUME View!SwitchFolder PROVE Kept
  <2>1. PICK i \in DOMAIN listed : fsel' = i /\ View!Load(open_account, listed[i], View!Selected)
    BY <1>13 DEF View!SwitchFolder
  <2>2. listed' = listed /\ open_account' = open_account /\ UNCHANGED <<exists, rows, habits, changes>>
    BY <1>13 DEF View!SwitchFolder, View!store
  <2>3. QED
    BY <1>5, <2>1, <2>2
<1>14. ASSUME View!StepMessage PROVE Kept
  <2>1. View!Current' = View!Current /\ msel' \in 0..Len(shown) /\ (shown # <<>> => msel' # 0)
    BY <1>2, <1>14 DEF View!StepMessage, View!folderPane, View!Current
  <2>2. /\ UNCHANGED <<exists, rows, habits, changes>>
        /\ open_account' = open_account /\ listed' = listed /\ fsel' = fsel /\ shown' = shown /\ watch' = watch
    BY <1>14 DEF View!StepMessage, View!folderPane, View!store
  <2>3. StoreOK /\ FoldersOK
    BY <1>1, <1>3, <1>4, <2>2
  <2>4. QED
    BY <2>1, <2>2, <2>3, PanesStay
\* The folder that is current loses a message, and is shown without it.
<1>15. ASSUME View!RemoveMessage PROVE Kept
  <2> DEFINE c == View!Current
             left == rows[open_account][c] \ {View!Selected.uid}
             uids == View!Descending(left)
             list == [i \in DOMAIN uids |-> [account |-> open_account, folder |-> c, uid |-> uids[i]]]
  <2>1. /\ c # 0 /\ rows' = [rows EXCEPT ![open_account][c] = left]
        /\ watch' = IF watch.folder = c THEN watch ELSE [account |-> open_account, folder |-> c, uid |-> 0]
        /\ UNCHANGED <<habits, exists, open_account, listed, fsel, changes>>
    BY <1>15 DEF View!RemoveMessage, View!None, View!Row, View!folderPane
  <2>2. c \in Folders
    BY <2>1, CurrentFolder DEF Folder
  <2>3. left \in SUBSET Uids
    BY <1>1, <2>2
  <2>4. View!Current' = c
    BY <2>1 DEF View!Current
  <2> HIDE DEF c
  <2>5. rows'[open_account][c] = left /\ rows' \in [Accounts -> [Folders -> SUBSET Uids]]
    <3>1. [rows[open_account] EXCEPT ![c] = left] \in [Folders -> SUBSET Uids]
      BY <1>1, <2>2, <2>3
    <3>2. rows' = [rows EXCEPT ![open_account] = [rows[open_account] EXCEPT ![c] = left]]
      BY <2>1
    <3> HIDE DEF left
    <3>3. QED
      BY <1>1, <2>2, <3>1, <3>2
  <2>6. shown' = list /\ msel' = View!Resolve(shown', View!Selected)
    BY <1>15, <2>5 DEF View!RemoveMessage, View!Row, c
  <2> HIDE DEF left
  <2>7. /\ shown' \in Seq(Messages)
        /\ \A i \in DOMAIN shown' : shown'[i].account = open_account /\ shown'[i].folder = c
    <3>1. /\ list \in Seq(Messages)
          /\ \A i \in DOMAIN list : list[i].account = open_account /\ list[i].folder = c
      BY <1>1, <2>2, <2>3, MessagesInOrder
    <3> HIDE DEF list
    <3>2. QED
      BY <2>6, <3>1
  <2> HIDE DEF list
  <2>8. msel' \in 0..Len(shown') /\ (shown' # <<>> => msel' # 0)
    BY <2>6, <2>7, Resolved
  <2>9. watch' \in [account : Accounts, folder : Folder, uid : {0}]
    BY <1>1, <2>1, <2>2 DEF Folder
  <2>10. PaneOf(open_account', View!Current')
    BY <2>1, <2>4, <2>7, <2>8, <2>9 DEF PaneOf
  <2>11. StoreOK
    BY <1>1, <2>1, <2>5 DEF StoreOK
  <2>12. FoldersOK
    BY <1>1, <1>4, <2>1
  <2>13. QED
    BY <2>10, <2>11, <2>12, PanesAgree
<1>16. ASSUME View!SwitchAccount PROVE Kept
  <2>1. PICK a \in Accounts :
          /\ open_account' = a
          /\ listed' = View!Ascending(exists[a] \ NoSelect)
          /\ fsel' = IF listed' = <<>> THEN 0 ELSE 1
          /\ View!Load(a, IF listed' = <<>> THEN 0 ELSE listed'[1], View!NoRow)
    BY <1>16 DEF View!SwitchAccount, View!ListSelectable, View!None
  <2>2. UNCHANGED <<exists, rows, habits, changes>>
    BY <1>16 DEF View!SwitchAccount, View!store
  <2>3. exists[a] \ NoSelect \in SUBSET Folders
    BY <1>1
  <2>4. /\ listed' \in Seq(Folders) /\ Len(listed') \in Nat /\ DOMAIN listed' = 1..Len(listed')
        /\ Len(listed') <= Cardinality(Folders)
    BY <2>1, <2>3, FoldersListed
  <2>5. /\ listed' # <<>> => Len(listed') \in Nat \ {0} /\ 1 \in DOMAIN listed'
        /\ listed' = <<>> => DOMAIN listed' = {}
    BY <2>4, EmptySeq
  <2> DEFINE f == IF listed' = <<>> THEN 0 ELSE listed'[1]
  <2>6. f \in Folder
    BY <2>4, <2>5 DEF Folder
  <2>7. View!Current' = f
    BY <2>1, <2>5 DEF View!Current, View!None
  <2>8. PaneOf(a, f)
    BY <2>1, <2>6, Loaded
  <2> HIDE DEF f
  <2>9. PaneOf(open_account', View!Current')
    BY <2>1, <2>7, <2>8
  <2>10. fsel' \in 0..Cardinality(Folders)
    BY <1>2, <2>1, <2>4, <2>5
  <2>11. StoreOK /\ FoldersOK
    BY <1>3, <2>1, <2>2, <2>4, <2>10 DEF FoldersOK
  <2>12. QED
    BY <2>9, <2>11, PanesAgree
<1>17. QED
  BY <1>6, <1>7, <1>8, <1>9, <1>10, <1>11, <1>12, <1>13, <1>14, <1>15, <1>16 DEF View!Next

\* The selected message, if there is one, is of the open account.
LEMMA SelectedMessage ==
  ASSUME View!TypeOK, View!ListsInv, View!Selected # View!NoRow
  PROVE  View!Selected = [account |-> open_account, folder |-> View!Selected.folder, uid |-> View!Selected.uid]
         /\ View!Selected.folder \in Folders
<1>1. msel \in DOMAIN shown /\ View!Selected = shown[msel]
  BY DEF View!Selected
<1>2. View!Selected \in Messages
  <2>1. shown \in Seq(Messages)
    BY DEF View!TypeOK, Messages
  <2>2. QED
    BY <1>1, <2>1
<1>3. View!Selected.account = open_account
  BY <1>1 DEF View!ListsInv
<1>4. QED
  BY <1>2, <1>3 DEF Messages

\* What the background does keeps the current folder and the selected message while they are there.
LEMMA BackgroundStep ==
  ASSUME View!TypeOK, View!ListsInv, View!Updated \/ View!ReloadMessages \/ View!FolderOpDone
  PROVE  /\ "folderop" \notin habits /\ View!Current \in exists[open_account] \ NoSelect =>
               View!Current' = View!Current
         /\ View!Selected # View!NoRow /\ View!Selected.folder = View!Current /\ View!Current' = View!Current
              /\ View!Selected.uid \in rows[open_account][View!Current] => View!Selected' = View!Selected
<1> DEFINE Stays == View!Selected # View!NoRow /\ View!Selected.folder = View!Current /\ View!Current' = View!Current
                      /\ View!Selected.uid \in rows[open_account][View!Current] => View!Selected' = View!Selected
<1>1. ASSUME View!Load(open_account, View!Current, View!Selected) PROVE Stays
  <2>1. SUFFICES ASSUME View!Selected # View!NoRow, View!Selected.folder = View!Current,
                        View!Selected.uid \in rows[open_account][View!Current]
                 PROVE  View!Selected' = View!Selected
    OBVIOUS
  <2>2. /\ View!Selected = [account |-> open_account, folder |-> View!Current, uid |-> View!Selected.uid]
        /\ View!Current \in Folders
    BY <2>1, SelectedMessage
  <2>3. View!Current \in Folder /\ View!Current # 0 /\ open_account \in Accounts
    BY <2>2, FoldersAssumption DEF Folder, View!TypeOK
  <2>4. \A u \in rows[open_account][View!Current] :
           View!Selected = [account |-> open_account, folder |-> View!Current, uid |-> u] =>
              msel' \in DOMAIN shown' /\ shown'[msel'] = View!Selected
    BY <1>1, <2>3, Loaded
  <2>5. msel' \in DOMAIN shown' /\ shown'[msel'] = View!Selected
    BY <2>1, <2>2, <2>4
  <2>6. QED
    BY <2>5 DEF View!Selected
<1>2. CASE View!Updated
  <2>1. /\ View!Load(open_account, View!Current', View!Selected)
        /\ View!Current \in exists[open_account] \ NoSelect => View!Current' = View!Current
    BY <1>2, UpdatedLists
  <2>2. View!Current' = View!Current => View!Load(open_account, View!Current, View!Selected)
    BY <2>1
  <2>3. QED
    BY <1>1, <2>1, <2>2
<1>3. CASE View!ReloadMessages
  <2>1. View!Load(open_account, View!Current, View!Selected) /\ View!Current' = View!Current
    BY <1>3 DEF View!ReloadMessages, View!folderPane, View!Current
  <2>2. QED
    BY <1>1, <2>1
<1>4. CASE View!FolderOpDone
  <2>1. "folderop" \in habits /\ shown' = shown /\ msel' = msel
    BY <1>4 DEF View!FolderOpDone, View!messagePane
  <2>2. View!Selected' = View!Selected
    BY <2>1 DEF View!Selected, View!NoRow, View!Row, View!None
  <2>3. QED
    BY <2>1, <2>2
<1>5. QED
  BY <1>2, <1>3, <1>4

LEMMA ViewStep ==
  ASSUME [TuiNext]_allVars
  PROVE  [View!Next]_(View!vars)
<1>1. ASSUME viewVars' = viewVars PROVE UNCHANGED View!vars
  BY <1>1 DEF viewVars, View!vars, View!store, View!folderPane, View!messagePane
<1>2. CASE allVars' = allVars
  BY <1>1, <1>2 DEF allVars
<1>3. CASE TuiNext
  BY <1>1, <1>3 DEF TuiNext
<1>4. QED
  BY <1>2, <1>3

\* The folder list and the message list have their types, and the message list is
\* of the open account, at every moment of the TUI.
THEOREM ViewTypeCorrect == TuiSpec => [](View!TypeOK /\ View!ListsInv)
<1>1. TuiInit => View!TypeOK /\ View!ListsInv
  BY ViewInit DEF TuiInit
<1>2. View!TypeOK /\ View!ListsInv /\ [TuiNext]_allVars => View!TypeOK' /\ View!ListsInv'
  BY ViewStep, ViewNext
<1>3. QED
  BY <1>1, <1>2, PTL DEF TuiSpec

\* For a user who moves between folders with j and k and the pickers, and who may
\* switch accounts, every message shown is of the current folder, at every moment:
\* a command, which sends the current folder with the uid of the selected message,
\* acts on the message that the user sees.
THEOREM ShownAlwaysCurrent == TuiSpec => []ShownIsCurrent
<1>1. View!TypeOK /\ View!ListsInv => ShownIsCurrent
  BY DEF View!ListsInv, View!ListsAgree, View!ShownIsCurrent, ShownIsCurrent
<1>2. QED
  BY <1>1, ViewTypeCorrect, PTL

\* What arrives in the background moves neither selection while the folder and the
\* message are there, and an update lets the two lists agree, whatever the user did.
THEOREM PlaceIsKept == TuiSpec => BackgroundKeepsThePlace
<1> DEFINE Step ==
      /\ View!Updated \/ View!ReloadMessages \/ View!FolderOpDone =>
           /\ "folderop" \notin habits /\ View!Current \in exists[open_account] \ NoSelect =>
                 View!Current' = View!Current
           /\ View!Selected # View!NoRow /\ View!Selected.folder = View!Current /\ View!Current' = View!Current
                /\ View!Selected.uid \in rows[open_account][View!Current] => View!Selected' = View!Selected
      /\ View!Updated => View!ListsAgree'
<1>1. View!TypeOK /\ View!ListsInv /\ [TuiNext]_allVars => [Step]_(View!vars)
  BY ViewStep, ViewNext, BackgroundStep
<1>2. TuiSpec => [][Step]_(View!vars)
  BY <1>1, ViewTypeCorrect, PTL DEF TuiSpec
<1>3. QED
  BY <1>2 DEF BackgroundKeepsThePlace, View!BackgroundKeepsThePlace

----------------------------------------------------------------------------
(* The ManageSieve connection *)

Records == [kind : {"line", "literal", "tag"},
            what : Scripts \cup Nat \cup {"capability", "remark", "OK", "NO", "no"}, alone : BOOLEAN]
Verbs == {"greeting", "authenticate", "list", "get", "put", "activate", "delete", "logout"}
Requests == [verb : Verbs, name : Scripts \cup {"none"}]
Untagged(s) == \A i \in 1..Len(s) : s[i].kind # "tag"

SieveTypes ==
    /\ scripts \in [Scripts -> Nat] /\ edits \in Nat
    /\ todo \in Seq(Requests) /\ wire \in Seq(Records)
    /\ answer \in [ok : BOOLEAN, data : Seq(Records), how : {"nothing", "ok", "refused"}]
    /\ Untagged(answer.data)
    /\ asked => todo # <<>>

\* The scripts are listed in some order.
LEMMA InSomeOrder ==
  ASSUME NEW S, IsFiniteSet(S)
  PROVE  Sieve!SetToSeq(S) \in [1..Cardinality(S) -> S] /\ Cardinality(S) \in Nat
<1>1. Cardinality(S) \in Nat /\ ExistsBijection(1..Cardinality(S), S)
  BY FS_CardinalityType
<1>2. PICK f \in Bijection(1..Cardinality(S), S) : TRUE
  BY <1>1 DEF ExistsBijection
<1>3. f \in [1..Cardinality(S) -> S] /\ Sieve!IsInjective(f)
  BY <1>2 DEF Bijection, Injection, IsInjective, Sieve!IsInjective
<1>4. Sieve!Cardinality(S) = Cardinality(S)
  BY DEF Sieve!Cardinality, Cardinality
<1>5. QED
  BY <1>1, <1>3, <1>4 DEF Sieve!SetToSeq

\* The data of an answer are lines and literals, and only three requests have any.
LEMMA DataSent ==
  ASSUME SieveTypes, NEW r \in Requests, Sieve!Can(r)
  PROVE  /\ Sieve!Data(r) \in Seq(Records) /\ Untagged(Sieve!Data(r))
         /\ Sieve!Data(r) # <<>> => r.verb \in {"greeting", "list", "get"}
<1>1. CASE r.verb = "greeting"
  <2>1. Sieve!Data(r) = <<[kind |-> "line", what |-> "capability", alone |-> TRUE]>>
    BY <1>1 DEF Sieve!Data, Sieve!Line, Sieve!Record
  <2>2. QED
    BY <1>1, <2>1 DEF Records, Untagged
<1>2. CASE r.verb = "list"
  <2> DEFINE S == {Sieve!Listed(n) : n \in Sieve!Stored}
  <2>1. Sieve!Data(r) = Sieve!SetToSeq(S)
    BY <1>2 DEF Sieve!Data
  <2>2. IsFiniteSet(S)
    <3>1. IsFiniteSet(Sieve!Stored)
      BY ScriptsAssumption, FS_Subset DEF Sieve!Stored
    <3> DEFINE f == [n \in Sieve!Stored |-> Sieve!Listed(n)]
    <3>2. DOMAIN f = Sieve!Stored /\ S = {f[n] : n \in Sieve!Stored}
      OBVIOUS
    <3> HIDE DEF f, S
    <3>3. QED
      BY <3>1, <3>2, ImageFinite
  <2>3. \A x \in S : x \in Records /\ x.kind # "tag"
    <3>1. SUFFICES ASSUME NEW n \in Sieve!Stored
                   PROVE  Sieve!Listed(n) \in Records /\ Sieve!Listed(n).kind # "tag"
      OBVIOUS
    <3>2. n \in Scripts
      BY DEF Sieve!Stored
    <3>3. QED
      BY <3>2 DEF Sieve!Listed, Sieve!Line, Sieve!Record, Records
  <2> HIDE DEF S
  <2>4. Sieve!Data(r) \in [1..Cardinality(S) -> S] /\ Cardinality(S) \in Nat
    BY <2>1, <2>2, InSomeOrder
  <2> DEFINE d == Sieve!Data(r)
  <2> HIDE DEF d
  <2>5. d \in [1..Cardinality(S) -> Records] /\ \A i \in 1..Cardinality(S) : d[i].kind # "tag"
    BY <2>3, <2>4 DEF d
  <2>6. d \in Seq(Records) /\ Len(d) = Cardinality(S)
    BY <2>4, <2>5
  <2>7. QED
    BY <1>2, <2>5, <2>6 DEF d, Untagged
<1>3. CASE r.verb = "get"
  <2>1. Sieve!Data(r) = <<[kind |-> "literal", what |-> scripts[r.name], alone |-> TRUE]>>
    BY <1>3 DEF Sieve!Data, Sieve!Record
  <2>2. scripts[r.name] \in Nat
    BY <1>3 DEF Sieve!Can, Sieve!Stored, SieveTypes
  <2>3. QED
    BY <1>3, <2>1, <2>2 DEF Records, Untagged
<1>4. CASE r.verb \notin {"greeting", "list", "get"}
  <2>1. Sieve!Data(r) = <<>>
    BY <1>4 DEF Sieve!Data
  <2>2. QED
    BY <2>1 DEF Untagged
<1>5. QED
  BY <1>1, <1>2, <1>3, <1>4

\* What may follow an OK.
LEMMA Remarks ==
  ASSUME NEW r
  PROVE  /\ Sieve!Remark(r) \in {<<>>, <<Sieve!Line("remark")>>, <<Sieve!Tag("no")>>}
         /\ Sieve!Remark(r) # <<>> => r.verb = "put" /\ (Sieve!Remark(r) = <<Sieve!Tag("no")>> => warning = "tag")
  BY DEF Sieve!Remark, Sieve!Line, Sieve!Tag, Sieve!Record

LEMMA SmallRecords ==
  /\ <<>> \in Seq(Records) /\ <<Sieve!Line("remark")>> \in Seq(Records) /\ <<Sieve!Tag("no")>> \in Seq(Records)
  /\ Sieve!Tag("OK") \in Records /\ Sieve!Tag("NO") \in Records
  /\ Sieve!Tag("OK").kind = "tag" /\ Sieve!Tag("NO").kind = "tag" /\ Sieve!Tag("OK") # Sieve!Tag("NO")
  /\ Untagged(<<>>) /\ Untagged(<<Sieve!Line("remark")>>)
  BY DEF Records, Sieve!Line, Sieve!Tag, Sieve!Record, Untagged

\* The reading ends at the first place where it can.
LEMMA EndFound ==
  ASSUME wire \in Seq(Records), Sieve!Ends # {}
  PROVE  /\ Sieve!End \in Sieve!Ends /\ \A i \in Sieve!Ends : Sieve!End <= i
         /\ Sieve!Ends \subseteq 1..Len(wire) /\ Len(wire) \in Nat
<1>1. Sieve!Ends \subseteq 1..Len(wire) /\ Len(wire) \in Nat
  BY DEF Sieve!Ends
<1>2. Sieve!Ends \subseteq Nat
  BY <1>1
<1>3. \E i \in Sieve!Ends : \A j \in Sieve!Ends : i <= j
  BY <1>2, LeastExists
<1>4. QED
  BY <1>1, <1>3 DEF Sieve!End, Sieve!Min

\* What is behind a place in a sequence.
LEMMA Behind ==
  ASSUME NEW w \in Seq(Records), NEW k \in Nat, NEW rest \in Seq(Records),
         Len(w) = k + Len(rest), \A i \in 1..Len(rest) : w[k + i] = rest[i]
  PROVE  SubSeq(w, k + 1, Len(w)) = rest
<1> DEFINE u == SubSeq(w, k + 1, Len(w))
<1>1. Len(w) \in Nat /\ Len(rest) \in Nat /\ \A i \in 1..Len(w) : w[i] \in Records
  OBVIOUS
<1>2. k + 1 \in Int /\ Len(w) \in Int /\ \A i \in (k + 1)..Len(w) : w[i] \in Records
  BY <1>1
<1>3. /\ u \in Seq(Records) /\ Len(u) = IF k + 1 <= Len(w) THEN Len(w) - (k + 1) + 1 ELSE 0
      /\ \A i \in 1..(Len(w) - (k + 1) + 1) : u[i] = w[k + 1 + i - 1]
  BY <1>2, SubSeqProperties
<1> HIDE DEF u
<1>4. Len(u) = Len(rest) /\ Len(w) - (k + 1) + 1 = Len(rest)
  BY <1>1, <1>3
<1>5. \A i \in 1..Len(rest) : k + 1 + i - 1 = k + i
  BY <1>1
<1>6. \A i \in 1..Len(u) : u[i] = rest[i]
  BY <1>3, <1>4, <1>5
<1>7. u = rest
  BY <1>3, <1>4, <1>6, SeqEqual
<1>8. QED
  BY <1>7 DEF u

\* Behind what is left unread comes the answer, up to its tag: the first one.
LEMMA AnswerOnWire ==
  ASSUME NEW left \in Seq(Records), NEW data \in Seq(Records), NEW tag \in Records, NEW rest \in Seq(Records),
         Untagged(left), Untagged(data), tag.kind = "tag", wire = left \o data \o <<tag>> \o rest
  PROVE  /\ Sieve!Ends # {}
         /\ wire[Sieve!End].kind = "tag" =>
              /\ wire[Sieve!End] = tag
              /\ SubSeq(wire, 1, Sieve!End - 1) = left \o data
              /\ SubSeq(wire, Sieve!End + 1, Len(wire)) = rest
<1> DEFINE s == left \o data
           t == s \o <<tag>>
           k == Len(s) + 1
<1>1. /\ Len(left) \in Nat /\ Len(data) \in Nat /\ Len(rest) \in Nat
      /\ s \in Seq(Records) /\ Len(s) = Len(left) + Len(data) /\ Untagged(s)
  <2>1. s \in Seq(Records) /\ Len(s) = Len(left) + Len(data)
        /\ \A i \in 1..Len(left) + Len(data) : s[i] = IF i <= Len(left) THEN left[i] ELSE data[i - Len(left)]
    BY ConcatProperties
  <2>2. Len(left) \in Nat /\ Len(data) \in Nat /\ Len(rest) \in Nat
    OBVIOUS
  <2> HIDE DEF s
  <2>3. ASSUME NEW i \in 1..Len(s) PROVE s[i].kind # "tag"
    <3>1. CASE i <= Len(left)
      <4>1. i \in 1..Len(left) /\ s[i] = left[i]
        BY <2>1, <2>2, <3>1
      <4>2. QED
        BY <4>1 DEF Untagged
    <3>2. CASE ~(i <= Len(left))
      <4>1. i - Len(left) \in 1..Len(data)
        BY <2>1, <2>2, <3>2
      <4>2. QED
        BY <2>1, <2>2, <3>2, <4>1 DEF Untagged
    <3>3. QED
      BY <3>1, <3>2
  <2>4. QED
    BY <2>1, <2>2, <2>3 DEF Untagged
<1> HIDE DEF s
<1>2. t \in Seq(Records) /\ Len(t) = k /\ t[k] = tag /\ k \in Nat /\ \A i \in 1..Len(s) : t[i] = s[i]
  BY <1>1
<1> HIDE DEF k
<1>0. k = Len(s) + 1
  BY DEF k
<1>3. wire = t \o rest
  BY DEF s
<1> HIDE DEF t
<1>4. /\ wire \in Seq(Records) /\ Len(wire) = k + Len(rest) /\ wire[k] = tag
      /\ \A i \in 1..Len(s) : wire[i] = s[i]
      /\ \A i \in 1..Len(rest) : wire[k + i] = rest[i]
  <2>1. wire \in Seq(Records) /\ Len(wire) = k + Len(rest)
        /\ \A i \in 1..(k + Len(rest)) : wire[i] = IF i <= k THEN t[i] ELSE rest[i - k]
    BY <1>2, <1>3, ConcatProperties
  <2>2. ASSUME NEW i \in 1..Len(rest) PROVE wire[k + i] = rest[i]
    <3>1. k + i \in 1..(k + Len(rest)) /\ ~(k + i <= k) /\ (k + i) - k = i
      BY <1>1, <1>2
    <3>2. QED
      BY <2>1, <3>1
  <2>3. k \in 1..(k + Len(rest)) /\ \A i \in 1..Len(s) : i \in 1..(k + Len(rest)) /\ i <= k
    BY <1>0, <1>1, <1>2
  <2>4. wire[k] = t[k]
    BY <1>2, <2>1, <2>3
  <2>5. \A i \in 1..Len(s) : wire[i] = t[i]
    BY <2>1, <2>3
  <2>6. QED
    BY <1>2, <2>1, <2>2, <2>4, <2>5
<1>5. k \in Sieve!Ends
  BY <1>0, <1>1, <1>2, <1>4 DEF Sieve!Ends
<1>6. Sieve!End \in 1..Len(wire) /\ Sieve!End <= k
  BY <1>4, <1>5, EndFound
<1>7. ASSUME wire[Sieve!End].kind = "tag"
      PROVE  /\ wire[Sieve!End] = tag
             /\ SubSeq(wire, 1, Sieve!End - 1) = s
             /\ SubSeq(wire, Sieve!End + 1, Len(wire)) = rest
  <2>1. Sieve!End = k
    <3>1. ASSUME Sieve!End # k PROVE FALSE
      <4>1. Sieve!End \in 1..Len(s)
        <5> DEFINE e == Sieve!End
        <5>1. e \in 1..Len(wire) /\ e <= k /\ e # k
          BY <1>6, <3>1
        <5> HIDE DEF e
        <5>2. k = Len(s) + 1 /\ Len(s) \in Nat /\ e \in Int /\ 1 <= e
          BY <1>0, <1>1, <5>1
        <5>3. e \in 1..Len(s)
          BY <5>1, <5>2
        <5>4. QED
          BY <5>3 DEF e
      <4>2. QED
        BY <1>1, <1>4, <1>7, <4>1 DEF Untagged
    <3>2. QED
      BY <3>1
  <2>2. SubSeq(wire, 1, Len(s)) = s
    <3> DEFINE u == SubSeq(wire, 1, Len(s))
    <3>1. \A i \in 1..Len(s) : wire[i] \in Records
      BY <1>1, <1>4
    <3>2. u \in Seq(Records) /\ Len(u) = Len(s) /\ \A i \in 1..Len(s) : u[i] = wire[i]
      BY <1>1, <3>1
    <3> HIDE DEF u
    <3>3. u = s
      BY <1>1, <1>4, <3>2, SeqEqual
    <3>4. QED
      BY <3>3 DEF u
  <2>3. SubSeq(wire, k + 1, Len(wire)) = rest
    BY <1>2, <1>4, Behind
  <2>4. Sieve!End - 1 = Len(s) /\ Len(wire) = k + Len(rest)
    BY <1>0, <1>1, <1>4, <2>1
  <2>5. QED
    BY <1>4, <2>1, <2>2, <2>3, <2>4
<1>8. QED
  BY <1>5, <1>7 DEF s

LEMMA EffectTyped ==
  ASSUME SieveTypes, NEW r, Sieve!Effect(r)
  PROVE  scripts' \in [Scripts -> Nat] /\ edits' \in Nat
<1>1. scripts \in [Scripts -> Nat] /\ edits \in Nat /\ edits + 1 \in Nat
  BY DEF SieveTypes
<1>2. CASE r.verb = "put"
  BY <1>1, <1>2 DEF Sieve!Effect
<1>3. CASE r.verb = "activate"
  BY <1>1, <1>3 DEF Sieve!Effect
<1>4. CASE r.verb = "delete"
  BY <1>1, <1>4 DEF Sieve!Effect
<1>5. CASE r.verb \notin {"put", "activate", "delete"}
  BY <1>1, <1>5 DEF Sieve!Effect, Sieve!serverVars
<1>6. QED
  BY <1>2, <1>3, <1>4, <1>5

\* A sequence without uploads before an orderly one.
LEMMA OrderlyBehind ==
  ASSUME NEW p \in Seq(Requests), NEW q \in Seq(Requests),
         \A i \in 1..Len(p) : p[i].verb # "put", Sieve!Orderly(q)
  PROVE  p \o q \in Seq(Requests) /\ Sieve!Orderly(p \o q)
<1> DEFINE s == p \o q
           MayFollow(v) == v \in (IF warning = "tag" THEN {"logout"} ELSE {"activate", "logout"})
<1>1. /\ Len(p) \in Nat /\ Len(q) \in Nat /\ s \in Seq(Requests) /\ Len(s) = Len(p) + Len(q)
      /\ \A i \in 1..Len(p) + Len(q) : s[i] = IF i <= Len(p) THEN p[i] ELSE q[i - Len(p)]
  BY ConcatProperties
<1>2. \A i \in 1..Len(q) : q[i].verb = "put" => i < Len(q) /\ MayFollow(q[i + 1].verb)
  <2>1. DOMAIN q = 1..Len(q)
    OBVIOUS
  <2>2. QED
    BY <2>1 DEF Sieve!Orderly
<1> HIDE DEF s, MayFollow
<1>3. ASSUME NEW i \in 1..Len(s), s[i].verb = "put" PROVE i < Len(s) /\ MayFollow(s[i + 1].verb)
  <2>1. ~(i <= Len(p))
    <3>1. ASSUME i <= Len(p) PROVE FALSE
      <4>1. i \in 1..Len(p) /\ s[i] = p[i]
        BY <1>1, <3>1
      <4>2. QED
        BY <1>3, <4>1
    <3>2. QED
      BY <3>1
  <2> DEFINE j == i - Len(p)
  <2>2. j \in 1..Len(q) /\ s[i] = q[j]
    BY <1>1, <2>1
  <2>3. j < Len(q) /\ MayFollow(q[j + 1].verb)
    BY <1>2, <1>3, <2>2
  <2>4. i + 1 \in 1..Len(p) + Len(q) /\ ~(i + 1 <= Len(p)) /\ i + 1 - Len(p) = j + 1 /\ i < Len(s)
    BY <1>1, <2>1, <2>3
  <2>5. s[i + 1] = q[j + 1]
    BY <1>1, <2>4
  <2>6. QED
    BY <2>3, <2>4, <2>5
<1>4. DOMAIN s = 1..Len(s)
  BY <1>1
<1>5. \A i \in DOMAIN s : s[i].verb = "put" => i < Len(s) /\ MayFollow(s[i + 1].verb)
  BY <1>3, <1>4
<1>6. Sieve!Orderly(s)
  BY <1>5 DEF Sieve!Orderly, MayFollow
<1>7. QED
  BY <1>1, <1>6 DEF s

\* One request, and another one behind it, are orderly if the first is no upload or
\* the second may follow one.
LEMMA OrderlyPair ==
  ASSUME NEW x \in Requests, NEW y \in Requests, y.verb # "put",
         x.verb = "put" => y.verb \in (IF warning = "tag" THEN {"logout"} ELSE {"activate", "logout"})
  PROVE  <<x, y>> \in Seq(Requests) /\ Sieve!Orderly(<<x, y>>)
<1>1. <<x, y>> \in Seq(Requests) /\ Len(<<x, y>>) = 2 /\ DOMAIN <<x, y>> = 1..2
      /\ <<x, y>>[1] = x /\ <<x, y>>[2] = y
  OBVIOUS
<1>2. \A i \in 1..2 : i = 1 \/ i = 2
  OBVIOUS
<1>3. QED
  BY <1>1, <1>2 DEF Sieve!Orderly

LEMMA OrderlyOne ==
  ASSUME NEW x \in Requests, x.verb # "put"
  PROVE  <<x>> \in Seq(Requests) /\ Sieve!Orderly(<<x>>)
<1>1. <<x>> \in Seq(Requests) /\ Len(<<x>>) = 1 /\ DOMAIN <<x>> = {1} /\ <<x>>[1] = x
  OBVIOUS
<1>2. QED
  BY <1>1 DEF Sieve!Orderly

LEMMA Together ==
  ASSUME NEW x \in Requests, NEW y \in Requests
  PROVE  /\ <<x>> \in Seq(Requests) /\ <<x>> \o <<y>> = <<x, y>>
         /\ \A z \in Requests : <<x, y>> \in Seq(Requests) /\ <<x, y>> \o <<z>> = <<x, y, z>>
<1>1. <<x>> \in Seq(Requests) /\ <<y>> \in Seq(Requests) /\ Len(<<x>>) = 1 /\ Len(<<y>>) = 1
  OBVIOUS
<1>2. <<x>> \o <<y>> = <<x, y>>
  <2> DEFINE s == <<x>> \o <<y>>
             t == <<x, y>>
  <2>1. s \in Seq(Requests) /\ Len(s) = 2 /\ s[1] = x /\ s[2] = y
    BY <1>1, ConcatProperties
  <2>2. t \in Seq(Requests) /\ Len(t) = 2 /\ t[1] = x /\ t[2] = y
    OBVIOUS
  <2> HIDE DEF s, t
  <2>3. \A i \in 1..2 : i = 1 \/ i = 2
    OBVIOUS
  <2>4. \A i \in 1..Len(s) : s[i] = t[i]
    BY <2>1, <2>2, <2>3
  <2>5. s = t
    BY <2>1, <2>2, <2>4, SeqEqual
  <2>6. QED
    BY <2>5 DEF s, t
<1>3. ASSUME NEW z \in Requests PROVE <<x, y>> \in Seq(Requests) /\ <<x, y>> \o <<z>> = <<x, y, z>>
  <2> DEFINE p == <<x, y>>
             q == <<z>>
             s == p \o q
             t == <<x, y, z>>
  <2>1. p \in Seq(Requests) /\ Len(p) = 2 /\ p[1] = x /\ p[2] = y
        /\ q \in Seq(Requests) /\ Len(q) = 1 /\ q[1] = z
    OBVIOUS
  <2>2. t \in Seq(Requests) /\ Len(t) = 3 /\ t[1] = x /\ t[2] = y /\ t[3] = z
    OBVIOUS
  <2> HIDE DEF p, q, t
  <2>3. s \in Seq(Requests) /\ Len(s) = 3 /\ s[1] = x /\ s[2] = y /\ s[3] = z
    <3>1. s \in Seq(Requests) /\ Len(s) = Len(p) + Len(q)
          /\ \A i \in 1..Len(p) + Len(q) : s[i] = IF i <= Len(p) THEN p[i] ELSE q[i - Len(p)]
      BY <2>1, ConcatProperties
    <3> HIDE DEF s
    <3>2. QED
      BY <2>1, <3>1
  <2> HIDE DEF s
  <2>4. \A i \in 1..3 : i = 1 \/ i = 2 \/ i = 3
    OBVIOUS
  <2>5. \A i \in 1..Len(s) : s[i] = t[i]
    BY <2>2, <2>3, <2>4
  <2>6. s = t
    BY <2>2, <2>3, <2>5, SeqEqual
  <2>7. QED
    BY <2>1, <2>6 DEF s, p, q, t
<1>4. QED
  BY <1>1, <1>2, <1>3

\* A command's requests are in order.
LEMMA StartOrderly ==
  ASSUME Sieve!Start
  PROVE  todo' \in Seq(Requests) /\ (who = "tui" \/ warning # "tag" => Sieve!Orderly(todo')) /\ todo' # <<>>
<1> DEFINE P == IF connection THEN <<>> ELSE <<Sieve!Simple("greeting"), Sieve!Simple("authenticate")>>
           S == IF who = "cli" THEN <<Sieve!Simple("logout")>> ELSE <<>>
<1>0. PICK n \in Scripts : \E requests \in Sieve!Commands(n) : todo' = (P \o requests) \o S
  BY DEF Sieve!Start
<1>1. PICK requests \in Sieve!Commands(n) : todo' = (P \o requests) \o S
  BY <1>0
<1>2. \A v \in Verbs : Sieve!Request(v, n) \in Requests /\ Sieve!Simple(v) \in Requests
        /\ Sieve!Request(v, n).verb = v /\ Sieve!Simple(v).verb = v
  BY DEF Sieve!Request, Sieve!Simple, Requests
<1>3. P \in Seq(Requests) /\ S \in Seq(Requests) /\ \A i \in 1..Len(P) : P[i].verb # "put"
  <2>1. Sieve!Simple("greeting") \in Requests /\ Sieve!Simple("authenticate") \in Requests
        /\ Sieve!Simple("logout") \in Requests
        /\ Sieve!Simple("greeting").verb = "greeting" /\ Sieve!Simple("authenticate").verb = "authenticate"
    BY <1>2 DEF Verbs
  <2>2. S \in Seq(Requests)
    BY <2>1
  <2>3. CASE connection
    BY <2>2, <2>3
  <2>4. CASE ~connection
    <3>1. P = <<Sieve!Simple("greeting"), Sieve!Simple("authenticate")>>
      BY <2>4
    <3>2. QED
      BY <2>1, <2>2, <3>1
  <2>5. QED
    BY <2>3, <2>4
<1>4. /\ requests \in Seq(Requests) /\ requests \o S \in Seq(Requests) /\ requests # <<>>
      /\ who = "tui" \/ warning # "tag" => Sieve!Orderly(requests \o S)
  <2> DEFINE list == Sieve!Simple("list")
             logout == Sieve!Simple("logout")
             get == Sieve!Request("get", n)
             put == Sieve!Request("put", n)
             activate == Sieve!Request("activate", n)
             delete == Sieve!Request("delete", n)
  <2>1. /\ list \in Requests /\ logout \in Requests /\ get \in Requests /\ put \in Requests
        /\ activate \in Requests /\ delete \in Requests
        /\ list.verb = "list" /\ logout.verb = "logout" /\ get.verb = "get" /\ put.verb = "put"
        /\ activate.verb = "activate" /\ delete.verb = "delete"
    BY <1>2 DEF Verbs
  <2>2. CASE who = "cli"
    <3>1. requests \in {<<list>>, <<get>>, <<put>>, <<activate>>, <<delete>>, <<put, activate>>}
      BY <1>1, <2>2 DEF Sieve!Commands
    <3>2. S = <<logout>>
      BY <2>2
    <3> HIDE DEF list, logout, get, put, activate, delete, S
    <3>3. ASSUME NEW x \in {list, get, put, activate, delete}, requests = <<x>>
          PROVE  requests \in Seq(Requests) /\ requests \o S = <<x, logout>> /\ x \in Requests
      <4>1. x \in Requests
        BY <2>1
      <4>2. QED
        BY <2>1, <3>2, <3>3, <4>1, Together
    <3>4. CASE requests # <<put, activate>>
      <4>1. PICK x \in {list, get, put, activate, delete} : requests = <<x>>
        BY <3>1, <3>4
      <4>2. requests \in Seq(Requests) /\ requests \o S = <<x, logout>> /\ x \in Requests
        BY <3>3, <4>1
      <4>3. <<x, logout>> \in Seq(Requests) /\ Sieve!Orderly(<<x, logout>>)
        BY <2>1, <4>2, OrderlyPair
      <4>4. QED
        BY <4>1, <4>2, <4>3
    <3>5. CASE requests = <<put, activate>>
      <4>1. requests \in Seq(Requests) /\ requests \o S = <<put, activate, logout>>
        BY <2>1, <3>2, <3>5, Together
      <4> DEFINE q == <<put, activate, logout>>
      <4>2. q \in Seq(Requests) /\ Len(q) = 3 /\ DOMAIN q = 1..3 /\ q[1] = put /\ q[2] = activate /\ q[3] = logout
        BY <2>1
      <4> HIDE DEF q
      <4>3. \A i \in 1..3 : i = 1 \/ i = 2 \/ i = 3
        OBVIOUS
      <4>4. warning # "tag" => Sieve!Orderly(q)
        BY <2>1, <4>2, <4>3 DEF Sieve!Orderly
      <4>5. QED
        BY <2>2, <3>5, <4>1, <4>2, <4>4 DEF q
    <3>6. QED
      BY <3>4, <3>5
  <2>3. CASE who # "cli"
    <3>1. requests \in {<<list>>, <<put, logout>>, <<get>>, <<logout>>}
      BY <1>1, <2>3 DEF Sieve!Commands
    <3>2. S = <<>>
      BY <2>3
    <3> HIDE DEF list, logout, get, put, activate, delete, S
    <3>3. requests \in Seq(Requests) /\ Sieve!Orderly(requests) /\ requests # <<>>
      <4>1. CASE requests = <<put, logout>>
        BY <2>1, <4>1, OrderlyPair
      <4>2. CASE requests # <<put, logout>>
        <5>1. PICK x \in {list, get, logout} : requests = <<x>>
          BY <3>1, <4>2
        <5>2. QED
          BY <2>1, <5>1, OrderlyOne
      <4>3. QED
        BY <4>1, <4>2
    <3>4. requests \o S = requests
      BY <3>2, <3>3, ConcatEmptySeq
    <3>5. QED
      BY <3>3, <3>4
  <2>4. QED
    BY <2>2, <2>3
<1> HIDE DEF P, S
<1>5. todo' = P \o (requests \o S)
  BY <1>1, <1>3, <1>4, ConcatAssociative
<1>6. todo' \in Seq(Requests) /\ (who = "tui" \/ warning # "tag" => Sieve!Orderly(todo'))
  <2>1. todo' \in Seq(Requests)
    BY <1>3, <1>4, <1>5, ConcatProperties
  <2>2. ASSUME who = "tui" \/ warning # "tag" PROVE Sieve!Orderly(todo')
    BY <1>3, <1>4, <1>5, <2>2, OrderlyBehind
  <2>3. QED
    BY <2>1, <2>2
<1>7. todo' # <<>>
  <2>1. Len(todo') = Len(P) + Len(requests \o S) /\ Len(requests \o S) = Len(requests) + Len(S)
    BY <1>3, <1>4, <1>5, ConcatProperties
  <2>2. Len(requests) \in Nat \ {0} /\ Len(S) \in Nat /\ Len(P) \in Nat
    BY <1>3, <1>4, EmptySeq
  <2>3. Len(todo') # 0
    BY <2>1, <2>2
  <2>4. QED
    BY <2>3
<1>8. QED
  BY <1>6, <1>7

SieveOwn == who = "tui" \/ warning # "tag"
SieveIInv == SieveTypes /\ Sieve!AnswerInv

\* What is read of an answer on a session in order: its tag, its data, and nothing behind it.
LEMMA AnswerRead ==
  ASSUME SieveTypes, Sieve!WireInv, asked, Head(todo).verb # "logout"
  PROVE  /\ Sieve!Ends # {}
         /\ Sieve!Accepted =>
              /\ answer.ok
              /\ answer.data # <<>> => SubSeq(wire, 1, Sieve!End - 1) = answer.data
              /\ SubSeq(wire, Sieve!End + 1, Len(wire)) = Sieve!Remark(Head(todo))
         /\ ~Sieve!Accepted /\ wire[Sieve!End].kind = "tag" => ~answer.ok
<1> DEFINE tag == Sieve!Tag(IF answer.ok THEN "OK" ELSE "NO")
           rest == IF answer.ok THEN Sieve!Remark(Head(todo)) ELSE <<>>
<1>1. PICK left \in Sieve!Leftovers(Head(todo)) : wire = left \o answer.data \o <<tag>> \o rest
  BY DEF Sieve!WireInv
<1>2. left \in {<<>>, <<Sieve!Line("remark")>>} /\ (left # <<>> => Head(todo).verb = "activate")
  BY DEF Sieve!Leftovers
<1>3. /\ left \in Seq(Records) /\ Untagged(left) /\ rest \in Seq(Records)
      /\ tag \in Records /\ tag.kind = "tag" /\ (tag = Sieve!Tag("OK") <=> answer.ok)
      /\ answer.data \in Seq(Records) /\ Untagged(answer.data) /\ answer.ok \in BOOLEAN
  <2>1. answer.data \in Seq(Records) /\ Untagged(answer.data) /\ answer.ok \in BOOLEAN
    BY DEF SieveTypes
  <2>2. left \in Seq(Records) /\ Untagged(left)
    BY <1>2, SmallRecords
  <2>3. Sieve!Remark(Head(todo)) \in Seq(Records)
    BY Remarks, SmallRecords
  <2>4. rest \in Seq(Records)
    BY <2>3, SmallRecords
  <2>5. tag \in Records /\ tag.kind = "tag" /\ (tag = Sieve!Tag("OK") <=> answer.ok)
    BY <2>1, SmallRecords
  <2>6. QED
    BY <2>1, <2>2, <2>4, <2>5
<1> HIDE DEF tag, rest
<1>4. /\ Sieve!Ends # {}
      /\ wire[Sieve!End].kind = "tag" =>
           /\ wire[Sieve!End] = tag
           /\ SubSeq(wire, 1, Sieve!End - 1) = left \o answer.data
           /\ SubSeq(wire, Sieve!End + 1, Len(wire)) = rest
  BY <1>1, <1>3, AnswerOnWire
<1>5. ASSUME Sieve!Accepted
      PROVE  /\ answer.ok
             /\ answer.data # <<>> => SubSeq(wire, 1, Sieve!End - 1) = answer.data
             /\ SubSeq(wire, Sieve!End + 1, Len(wire)) = Sieve!Remark(Head(todo))
  <2>1. wire[Sieve!End] = Sieve!Tag("OK") /\ wire[Sieve!End].kind = "tag"
    BY <1>5, SmallRecords DEF Sieve!Accepted
  <2>2. answer.ok
    BY <1>3, <1>4, <2>1
  <2>3. ASSUME answer.data # <<>> PROVE SubSeq(wire, 1, Sieve!End - 1) = answer.data
    <3>1. Head(todo).verb \in {"greeting", "list", "get"}
      BY <2>3 DEF Sieve!WireInv
    <3>2. left = <<>>
      BY <1>2, <3>1
    <3>3. left \o answer.data = answer.data
      BY <1>3, <3>2, ConcatEmptySeq
    <3>4. QED
      BY <1>4, <2>1, <3>3
  <2>4. rest = Sieve!Remark(Head(todo))
    BY <2>2 DEF rest
  <2>5. QED
    BY <1>4, <2>1, <2>2, <2>3, <2>4
<1>6. ASSUME ~Sieve!Accepted, wire[Sieve!End].kind = "tag" PROVE ~answer.ok
  BY <1>3, <1>4, <1>6 DEF Sieve!Accepted
<1>7. QED
  BY <1>4, <1>5, <1>6

LEMMA SieveInit ==
  ASSUME Sieve!Init
  PROVE  SieveIInv
<1>1. /\ scripts = [n \in Scripts |-> 0] /\ edits = 0 /\ todo = <<>> /\ wire = <<>> /\ ~asked
      /\ answer = [ok |-> FALSE, data |-> <<>>, how |-> "nothing"]
      /\ told = [ok |-> FALSE, data |-> <<>>, how |-> "nothing"]
  BY DEF Sieve!Init, Sieve!NoAnswer
<1>2. SieveTypes
  BY <1>1 DEF SieveTypes, Untagged
<1>3. Sieve!Orderly(todo)
  BY <1>1 DEF Sieve!Orderly
<1>4. Sieve!WireInv /\ Sieve!AnswersAreOwn
  BY <1>1 DEF Sieve!WireInv, Sieve!AnswersAreOwn
<1>5. QED
  BY <1>2, <1>3, <1>4 DEF SieveIInv, Sieve!AnswerInv

\* A session that ends, or is idle, has nothing unread.
LEMMA SessionEnds ==
  ASSUME SieveTypes', todo' = <<>>, wire' = <<>>, ~asked', ~told'.ok, who' = who, warning' = warning,
         SieveOwn /\ told'.how = "refused" => ~answer'.ok
  PROVE  SieveIInv'
<1>1. Sieve!Orderly(todo)'
  BY DEF Sieve!Orderly
<1>2. Sieve!WireInv'
  BY DEF Sieve!WireInv
<1>3. QED
  BY <1>1, <1>2 DEF SieveIInv, Sieve!AnswerInv, Sieve!AnswersAreOwn, SieveOwn

\* What is left of the requests when the first is answered.
LEMMA OrderlyTail ==
  ASSUME todo \in Seq(Requests), todo # <<>>, Sieve!Orderly(todo)
  PROVE  /\ Tail(todo) \in Seq(Requests) /\ Sieve!Orderly(Tail(todo)) /\ Head(todo) \in Requests
         /\ Head(todo).verb = "put" =>
              /\ Tail(todo) # <<>>
              /\ Head(Tail(todo)).verb \in (IF warning = "tag" THEN {"logout"} ELSE {"activate", "logout"})
<1> DEFINE t == Tail(todo)
           MayFollow(v) == v \in (IF warning = "tag" THEN {"logout"} ELSE {"activate", "logout"})
<1>1. /\ Len(todo) \in Nat \ {0} /\ DOMAIN todo = 1..Len(todo) /\ Head(todo) = todo[1] /\ Head(todo) \in Requests
      /\ t \in Seq(Requests) /\ Len(t) = Len(todo) - 1 /\ DOMAIN t = 1..Len(t)
      /\ \A i \in 1..Len(t) : t[i] = todo[i + 1]
  <2>1. Len(todo) \in Nat \ {0} /\ DOMAIN todo = 1..Len(todo) /\ Head(todo) = todo[1]
    BY EmptySeq
  <2>2. /\ Head(todo) \in Requests /\ t \in Seq(Requests) /\ Len(t) = Len(todo) - 1
        /\ \A i \in 1..Len(t) : t[i] = todo[i + 1]
    BY HeadTailProperties
  <2> HIDE DEF t
  <2>3. DOMAIN t = 1..Len(t)
    BY <2>2
  <2>4. QED
    BY <2>1, <2>2, <2>3
<1> HIDE DEF t
<1>2. \A i \in 1..Len(todo) : todo[i].verb = "put" => i < Len(todo) /\ MayFollow(todo[i + 1].verb)
  BY <1>1 DEF Sieve!Orderly
<1> HIDE DEF MayFollow
<1>3. ASSUME NEW i \in 1..Len(t), t[i].verb = "put" PROVE i < Len(t) /\ MayFollow(t[i + 1].verb)
  <2>1. i + 1 \in 1..Len(todo) /\ t[i] = todo[i + 1] /\ i \in Nat
    BY <1>1
  <2>2. i + 1 < Len(todo) /\ MayFollow(todo[i + 1 + 1].verb)
    BY <1>2, <1>3, <2>1
  <2>3. i < Len(t) /\ i + 1 \in 1..Len(t)
    BY <1>1, <2>1, <2>2
  <2>4. t[i + 1] = todo[i + 1 + 1]
    BY <1>1, <2>3
  <2>5. QED
    BY <2>2, <2>3, <2>4
<1>4. Sieve!Orderly(t)
  BY <1>1, <1>3 DEF Sieve!Orderly, MayFollow
<1>5. ASSUME Head(todo).verb = "put" PROVE t # <<>> /\ MayFollow(Head(t).verb)
  <2>1. 1 \in 1..Len(todo) /\ todo[1].verb = "put"
    BY <1>1, <1>5
  <2>2. 1 < Len(todo) /\ MayFollow(todo[1 + 1].verb)
    BY <1>2, <2>1
  <2>3. 1 \in 1..Len(t) /\ t # <<>>
    BY <1>1, <2>2
  <2>4. Head(t) = t[1] /\ t[1] = todo[1 + 1]
    BY <1>1, <2>3
  <2>5. QED
    BY <2>2, <2>3, <2>4
<1>6. QED
  BY <1>1, <1>4, <1>5 DEF t, MayFollow

\* Every step keeps the types: what is sent and what is left are sequences of records.
LEMMA SieveTyped ==
  ASSUME SieveTypes, [Sieve!Next]_(Sieve!vars)
  PROVE  SieveTypes'
<1>1. /\ scripts \in [Scripts -> Nat] /\ edits \in Nat /\ todo \in Seq(Requests) /\ wire \in Seq(Records)
      /\ answer \in [ok : BOOLEAN, data : Seq(Records), how : {"nothing", "ok", "refused"}]
      /\ Untagged(answer.data) /\ (asked => todo # <<>>)
  BY DEF SieveTypes
<1>2. ASSUME UNCHANGED <<scripts, edits, answer>>, todo' \in Seq(Requests), wire' \in Seq(Records), asked' => todo' # <<>>
      PROVE  SieveTypes'
  BY <1>1, <1>2 DEF SieveTypes, Untagged
<1>3. <<>> \in Seq(Requests) /\ <<>> \in Seq(Records)
  OBVIOUS
<1>4. CASE UNCHANGED Sieve!vars
  <2>1. UNCHANGED <<scripts, edits, answer, todo, wire, asked>>
    BY <1>4 DEF Sieve!vars, Sieve!serverVars
  <2>2. QED
    BY <1>1, <1>2, <2>1
<1>5. CASE Sieve!Start
  <2>1. UNCHANGED <<scripts, edits, answer, wire>>
    BY <1>5 DEF Sieve!Start, Sieve!serverVars
  <2>2. QED
    BY <1>1, <1>2, <1>5, <2>1, StartOrderly
<1>6. CASE Sieve!Ask
  <2> DEFINE r == Head(todo)
  <2>1. r \in Requests /\ todo' = todo /\ todo # <<>>
    <3>1. todo # <<>> /\ todo' = todo
      BY <1>6 DEF Sieve!Ask
    <3>2. QED
      BY <1>1, <3>1, HeadTailProperties
  <2>2. CASE /\ Sieve!Can(r) /\ Sieve!Effect(r)
             /\ answer' = [ok |-> TRUE, data |-> Sieve!Data(r), how |-> "ok"]
             /\ wire' = wire \o Sieve!Data(r) \o <<Sieve!Tag("OK")>> \o Sieve!Remark(r)
    <3>1. Sieve!Data(r) \in Seq(Records) /\ Untagged(Sieve!Data(r))
      BY <2>1, <2>2, DataSent
    <3>2. <<Sieve!Tag("OK")>> \in Seq(Records) /\ Sieve!Remark(r) \in Seq(Records)
      <4>1. Sieve!Tag("OK") \in Records
        BY SmallRecords
      <4>2. Sieve!Remark(r) \in Seq(Records)
        BY SmallRecords, Remarks
      <4>3. QED
        BY <4>1, <4>2
    <3>3. wire' \in Seq(Records)
      <4>1. wire \o Sieve!Data(r) \in Seq(Records)
        BY <1>1, <3>1, ConcatProperties
      <4>2. wire \o Sieve!Data(r) \o <<Sieve!Tag("OK")>> \in Seq(Records)
        BY <3>2, <4>1, ConcatProperties
      <4>3. wire \o Sieve!Data(r) \o <<Sieve!Tag("OK")>> \o Sieve!Remark(r) \in Seq(Records)
        BY <3>2, <4>2, ConcatProperties
      <4>4. QED
        BY <2>2, <4>3
    <3>4. scripts' \in [Scripts -> Nat] /\ edits' \in Nat
      BY <2>2, EffectTyped
    <3>5. answer' \in [ok : BOOLEAN, data : Seq(Records), how : {"nothing", "ok", "refused"}]
          /\ answer'.data = Sieve!Data(r)
      BY <2>2, <3>1
    <3>6. QED
      BY <1>1, <2>1, <3>1, <3>3, <3>4, <3>5 DEF SieveTypes, Untagged
  <2>3. CASE /\ answer' = [ok |-> FALSE, data |-> <<>>, how |-> "refused"]
             /\ wire' = Append(wire, Sieve!Tag("NO")) /\ UNCHANGED Sieve!serverVars
    <3>1. wire' \in Seq(Records)
      BY <1>1, <2>3, SmallRecords
    <3>2. scripts' = scripts /\ edits' = edits
      BY <2>3 DEF Sieve!serverVars
    <3>3. answer' \in [ok : BOOLEAN, data : Seq(Records), how : {"nothing", "ok", "refused"}]
          /\ answer'.data = <<>>
      BY <2>3
    <3>4. QED
      BY <1>1, <2>1, <3>1, <3>2, <3>3 DEF SieveTypes, Untagged
  <2>4. QED
    BY <1>6, <2>2, <2>3 DEF Sieve!Ask
<1>7. CASE Sieve!ReadOk
  <2>1. /\ UNCHANGED <<scripts, edits, answer>> /\ todo' = Tail(todo) /\ Sieve!Ends # {} /\ asked /\ ~asked'
        /\ wire' = SubSeq(wire, Sieve!End + 1, Len(wire))
    BY <1>7 DEF Sieve!ReadOk, Sieve!serverVars
  <2>2. wire' \in Seq(Records)
    <3> DEFINE e == Sieve!End
    <3>1. e \in Nat /\ Len(wire) \in Nat /\ e + 1 \in Int /\ Len(wire) \in Int
      BY <1>1, <2>1, EndFound
    <3>2. \A i \in (e + 1)..Len(wire) : wire[i] \in Records
      <4> HIDE DEF e
      <4>1. QED
        BY <1>1, <3>1
    <3> HIDE DEF e
    <3>3. SubSeq(wire, e + 1, Len(wire)) \in Seq(Records)
      BY <3>1, <3>2, SubSeqProperties
    <3>4. QED
      BY <2>1, <3>3 DEF e
  <2>3. Tail(todo) \in Seq(Requests)
    BY <1>1, <2>1, HeadTailProperties
  <2>4. QED
    BY <1>2, <2>1, <2>2, <2>3
<1>8. CASE Sieve!ReadError
  <2>1. UNCHANGED <<scripts, edits, answer>> /\ todo' = <<>> /\ wire' = <<>> /\ ~asked'
    BY <1>8 DEF Sieve!ReadError, Sieve!Failures, Sieve!Failure, Sieve!serverVars
  <2>2. QED
    BY <1>2, <1>3, <2>1
<1>9. CASE Sieve!ReadLogout
  <2>1. UNCHANGED <<scripts, edits, answer>> /\ todo' = <<>> /\ wire' = <<>> /\ ~asked'
    BY <1>9 DEF Sieve!ReadLogout, Sieve!Failure, Sieve!serverVars
  <2>2. QED
    BY <1>2, <1>3, <2>1
<1>10. CASE Sieve!Other
  <2>1. UNCHANGED <<answer, todo, wire, asked>>
    BY <1>10 DEF Sieve!Other
  <2>2. scripts' \in [Scripts -> Nat] /\ edits' \in Nat
    BY <1>10, EffectTyped DEF Sieve!Other
  <2>3. QED
    BY <1>1, <2>1, <2>2 DEF SieveTypes, Untagged
<1>11. QED
  BY <1>4, <1>5, <1>6, <1>7, <1>8, <1>9, <1>10 DEF Sieve!Next

\* The types, the order of the requests and the answers' places hold in every step.
LEMMA SieveKept ==
  ASSUME SieveIInv, [Sieve!Next]_(Sieve!vars)
  PROVE  SieveIInv'
<1>1. SieveTypes /\ SieveTypes'
  BY SieveTyped DEF SieveIInv, Sieve!AnswerInv
<1>2. who' = who /\ warning' = warning
  BY DEF Sieve!Next, Sieve!vars, Sieve!settingVars, Sieve!Start, Sieve!Ask, Sieve!ReadOk, Sieve!ReadError,
         Sieve!ReadLogout, Sieve!Failures, Sieve!Failure, Sieve!Other
<1>3. SUFFICES ASSUME SieveOwn PROVE Sieve!Orderly(todo)' /\ Sieve!WireInv' /\ Sieve!AnswersAreOwn'
  <2>1. Sieve!AnswerInv' <=>
          (SieveOwn' => Sieve!Orderly(todo)' /\ Sieve!WireInv' /\ Sieve!AnswersAreOwn')
    BY DEF Sieve!AnswerInv, SieveOwn
  <2>2. SieveOwn' => SieveOwn
    BY <1>2 DEF SieveOwn
  <2>3. QED
    BY <1>1, <2>1, <2>2 DEF SieveIInv
<1>4. Sieve!Orderly(todo) /\ Sieve!WireInv /\ Sieve!AnswersAreOwn
  BY <1>3 DEF SieveIInv, Sieve!AnswerInv, SieveOwn
<1>5. ASSUME UNCHANGED <<todo, wire, asked, answer, told>>
      PROVE  Sieve!Orderly(todo)' /\ Sieve!WireInv' /\ Sieve!AnswersAreOwn'
  BY <1>2, <1>4, <1>5 DEF Sieve!Orderly, Sieve!WireInv, Sieve!AnswersAreOwn, Sieve!Remark
<1>6. ASSUME SieveIInv' PROVE Sieve!Orderly(todo)' /\ Sieve!WireInv' /\ Sieve!AnswersAreOwn'
  BY <1>2, <1>3, <1>6 DEF SieveIInv, Sieve!AnswerInv, SieveOwn
<1>7. CASE UNCHANGED Sieve!vars
  BY <1>5, <1>7 DEF Sieve!vars
<1>8. CASE Sieve!Start
  <2>1. todo = <<>> /\ UNCHANGED <<wire, asked, answer, told>>
    BY <1>8 DEF Sieve!Start
  <2>2. wire = <<>> /\ ~asked
    BY <1>4, <2>1 DEF Sieve!WireInv
  <2>3. todo' # <<>> /\ Sieve!Orderly(todo')
    BY <1>3, <1>8, StartOrderly DEF SieveOwn
  <2>4. Sieve!Orderly(todo)'
    BY <1>2, <2>3 DEF Sieve!Orderly
  <2>5. Sieve!WireInv'
    BY <2>1, <2>2, <2>3 DEF Sieve!WireInv, Sieve!Leftovers
  <2>6. Sieve!AnswersAreOwn'
    BY <1>2, <1>4, <2>1 DEF Sieve!AnswersAreOwn
  <2>7. QED
    BY <2>4, <2>5, <2>6
<1>9. CASE Sieve!Ask
  <2> DEFINE r == Head(todo)
  <2>1. todo # <<>> /\ ~asked /\ asked' /\ todo' = todo /\ r \in Requests
    <3>1. todo # <<>> /\ ~asked /\ asked' /\ todo' = todo
      BY <1>9 DEF Sieve!Ask
    <3>2. todo \in Seq(Requests)
      BY <1>1 DEF SieveTypes
    <3>3. QED
      BY <3>1, <3>2, HeadTailProperties
  <2>2. wire \in Sieve!Leftovers(r) /\ wire \in Seq(Records)
    BY <1>1, <1>4, <2>1 DEF Sieve!WireInv, SieveTypes
  <2>3. /\ wire' = wire \o answer'.data \o <<Sieve!Tag(IF answer'.ok THEN "OK" ELSE "NO")>>
                         \o (IF answer'.ok THEN Sieve!Remark(r) ELSE <<>>)
        /\ answer'.data # <<>> => r.verb \in {"greeting", "list", "get"}
    <3>1. CASE /\ Sieve!Can(r)
               /\ answer' = [ok |-> TRUE, data |-> Sieve!Data(r), how |-> "ok"]
               /\ wire' = wire \o Sieve!Data(r) \o <<Sieve!Tag("OK")>> \o Sieve!Remark(r)
      <4>1. answer'.data = Sieve!Data(r) /\ answer'.ok = TRUE
        BY <3>1
      <4>2. Sieve!Data(r) # <<>> => r.verb \in {"greeting", "list", "get"}
        BY <1>1, <2>1, <3>1, DataSent
      <4>3. QED
        BY <3>1, <4>1, <4>2
    <3>2. CASE /\ answer' = [ok |-> FALSE, data |-> <<>>, how |-> "refused"]
               /\ wire' = Append(wire, Sieve!Tag("NO"))
      <4>1. answer'.data = <<>> /\ answer'.ok = FALSE
        BY <3>2
      <4>2. Sieve!Tag("NO") \in Records
        BY SmallRecords
      <4>3. wire' = wire \o <<Sieve!Tag("NO")>>
        BY <2>2, <3>2, <4>2, AppendIsConcat
      <4>4. wire \o <<>> = wire
        BY <2>2, ConcatEmptySeq
      <4>5. wire \o <<Sieve!Tag("NO")>> \in Seq(Records)
        <5>1. <<Sieve!Tag("NO")>> \in Seq(Records)
          BY <4>2
        <5>2. QED
          BY <2>2, <5>1, ConcatProperties
      <4>6. wire \o <<Sieve!Tag("NO")>> \o <<>> = wire \o <<Sieve!Tag("NO")>>
        BY <4>5, ConcatEmptySeq
      <4>7. QED
        BY <4>1, <4>3, <4>4, <4>6
    <3>3. QED
      BY <1>9, <3>1, <3>2 DEF Sieve!Ask
  <2>4. Sieve!WireInv'
    <3>1. Sieve!Remark(r)' = Sieve!Remark(r)
      BY <1>2, <2>1 DEF Sieve!Remark
    <3>2. Sieve!Leftovers(r)' = Sieve!Leftovers(r)
      BY <2>1
    <3>3. r' = r
      BY <2>1
    <3>4. QED
      BY <2>1, <2>2, <2>3, <3>1, <3>2, <3>3 DEF Sieve!WireInv
  <2>5. Sieve!Orderly(todo)'
    BY <1>2, <1>4, <2>1 DEF Sieve!Orderly
  <2>6. Sieve!AnswersAreOwn'
    BY <2>1 DEF Sieve!AnswersAreOwn
  <2>7. QED
    BY <2>4, <2>5, <2>6
<1>10. CASE Sieve!ReadOk
  <2>1. /\ asked /\ Sieve!Accepted /\ Head(todo).verb # "logout"
        /\ ~asked' /\ todo' = Tail(todo) /\ answer' = answer
        /\ told' = [ok |-> TRUE, data |-> SubSeq(wire, 1, Sieve!End - 1), how |-> "ok"]
        /\ wire' = SubSeq(wire, Sieve!End + 1, Len(wire))
    BY <1>10 DEF Sieve!ReadOk
  <2>2. /\ answer.ok /\ wire' = Sieve!Remark(Head(todo))
        /\ answer.data # <<>> => SubSeq(wire, 1, Sieve!End - 1) = answer.data
    BY <1>1, <1>4, <2>1, AnswerRead
  <2>3. todo \in Seq(Requests) /\ todo # <<>>
    BY <1>1, <2>1 DEF SieveTypes
  <2>4. /\ Sieve!Orderly(todo')
        /\ Head(todo).verb = "put" =>
             /\ todo' # <<>>
             /\ Head(todo').verb \in (IF warning = "tag" THEN {"logout"} ELSE {"activate", "logout"})
    BY <1>4, <2>1, <2>3, OrderlyTail
  <2>5. /\ wire' \in {<<>>, <<Sieve!Line("remark")>>, <<Sieve!Tag("no")>>}
        /\ wire' # <<>> => Head(todo).verb = "put" /\ (wire' = <<Sieve!Tag("no")>> => warning = "tag")
    BY <2>2, Remarks
  <2>6. Sieve!WireInv'
    <3>1. todo' = <<>> => wire' = <<>>
      BY <2>4, <2>5
    <3>2. todo' # <<>> => wire' \in Sieve!Leftovers(Head(todo'))
      <4>1. CASE wire' = <<>>
        BY <4>1 DEF Sieve!Leftovers
      <4>2. CASE wire' = <<Sieve!Tag("no")>> /\ wire' # <<>>
        <5>1. Head(todo').verb = "logout"
          BY <2>4, <2>5, <4>2
        <5>2. QED
          BY <4>2, <5>1 DEF Sieve!Leftovers
      <4>3. CASE wire' = <<Sieve!Line("remark")>> /\ wire' # <<>>
        <5>1. Head(todo').verb \in {"activate", "logout"}
          BY <2>4, <2>5, <4>3
        <5>2. QED
          BY <4>3, <5>1 DEF Sieve!Leftovers
      <4>4. QED
        BY <2>5, <4>1, <4>2, <4>3
    <3>3. QED
      BY <2>1, <3>1, <3>2 DEF Sieve!WireInv
  <2>7. Sieve!Orderly(todo)'
    BY <1>2, <2>4 DEF Sieve!Orderly
  <2>8. Sieve!AnswersAreOwn'
    BY <2>1, <2>2 DEF Sieve!AnswersAreOwn
  <2>9. QED
    BY <2>6, <2>7, <2>8
<1>11. CASE Sieve!ReadError
  <2>1. /\ asked /\ Head(todo).verb # "logout" /\ ~asked' /\ todo' = <<>> /\ wire' = <<>>
        /\ answer' = answer /\ ~told'.ok
        /\ told'.how = "refused" => ~Sieve!Accepted /\ wire[Sieve!End].kind = "tag"
    BY <1>11 DEF Sieve!ReadError, Sieve!Failures, Sieve!Failure
  <2>2. told'.how = "refused" => ~answer'.ok
    BY <1>1, <1>4, <2>1, AnswerRead
  <2>3. SieveIInv'
    BY <1>1, <1>2, <2>1, <2>2, SessionEnds
  <2>4. QED
    BY <1>6, <2>3
<1>12. CASE Sieve!ReadLogout
  <2>1. ~asked' /\ todo' = <<>> /\ wire' = <<>> /\ ~told'.ok /\ told'.how = "nothing"
    BY <1>12 DEF Sieve!ReadLogout, Sieve!Failure
  <2>2. SieveIInv'
    BY <1>1, <1>2, <2>1, SessionEnds
  <2>3. QED
    BY <1>6, <2>2
<1>13. CASE Sieve!Other
  BY <1>5, <1>13 DEF Sieve!Other
<1>14. QED
  BY <1>7, <1>8, <1>9, <1>10, <1>11, <1>12, <1>13 DEF Sieve!Next

LEMMA SieveStep ==
  ASSUME [TuiNext]_allVars
  PROVE  [Sieve!Next]_(Sieve!vars)
<1>1. ASSUME scriptVars' = scriptVars PROVE UNCHANGED Sieve!vars
  BY <1>1 DEF scriptVars, Sieve!vars, Sieve!settingVars, Sieve!serverVars
<1>2. CASE allVars' = allVars
  BY <1>1, <1>2 DEF allVars
<1>3. CASE TuiNext
  BY <1>1, <1>3 DEF TuiNext
<1>4. QED
  BY <1>2, <1>3

\* On the ManageSieve connection, too, what is unread before a request is the remark
\* on an upload at most, and behind it comes the answer, for any scripts and limits.
THEOREM AnswersInTheirPlace == TuiSpec => [](SieveTypes /\ Sieve!AnswerInv)
<1>1. TuiInit => SieveIInv
  BY SieveInit DEF TuiInit
<1>2. SieveIInv /\ [TuiNext]_allVars => SieveIInv'
  BY SieveStep, SieveKept
<1>3. SieveIInv => SieveTypes /\ Sieve!AnswerInv
  BY DEF SieveIInv
<1>4. QED
  BY <1>1, <1>2, <1>3, PTL DEF TuiSpec

\* A sieve operation of a user who waits finds the session of its own account, and
\* what its request reads there is the server's answer to it.
THEOREM SessionAlwaysAnswers == TuiSpec => []SessionAnswersItsOwner
<1>1. TuiInit => Init
  BY DEF TuiInit
<1>2. [TuiNext]_allVars => [Next]_vars
  BY DEF TuiNext, allVars
<1>3. TuiSpec => Spec
  BY <1>1, <1>2, PTL DEF TuiSpec, Spec
<1>4. Sieve!AnswerInv => Sieve!AnswersAreOwn
  BY DEF Sieve!AnswerInv, Sieve!AnswersAreOwn
<1>5. FindsItsSession /\ Sieve!AnswerInv => SessionAnswersItsOwner
  BY <1>4 DEF SessionAnswersItsOwner
<1>6. QED
  BY <1>3, <1>5, SessionIsItsOwn, AnswersInTheirPlace, PTL

-----------------------------------------------------------------------------
(* TuiKeys: the table *)

\* The overlays that ask the table, and what they may find there: nothing that
\* opens another overlay, but for the contact that is written to.
Contexts == {"Outbox", "Thread", "MovePicker", "AccountPicker", "Contacts", "Ical"}
InPlace == {"MoveDown", "MoveUp", "Scroll", "ReadReceiptDecline",
    "OutboxDrainAll", "OutboxDrainOne", "OutboxDeleteOne", "OutboxClose",
    "MovePickerClose", "MovePickerConfirm", "AccountPickerClose", "AccountPickerConfirm",
    "ContactsClose", "IcalClose", "IcalReply", "ThreadClose", "ThreadConfirm"}
StaysInPlace(row) ==
    \/ row.contexts # {} /\ row.contexts \cap Contexts = {}
    \/ row.action \in InPlace
    \/ row.contexts = {"Contacts"} /\ row.action = "ContactsConfirm"

RowsIn(list) == {list[i] : i \in DOMAIN list}
TableRows == UNION {RowsIn(Typing!NavigationRows),
    RowsIn(Typing!PreviewRows),
    RowsIn(Typing!MessageRows),
    RowsIn(Typing!ComposeRows),
    RowsIn(Typing!OverlayRows),
    RowsIn(Typing!PickerRows),
    RowsIn(Typing!DialogRows)}
PlacedRows == {row \in TableRows : StaysInPlace(row)}

LEMMA RowsArePlaced == Typing!Binds \in Seq(PlacedRows)
<1>1. Typing!NavigationRows \in Seq(PlacedRows)
  <2>1. ASSUME NEW i \in DOMAIN Typing!NavigationRows PROVE StaysInPlace(Typing!NavigationRows[i])
    BY DEF Typing!NavigationRows, StaysInPlace, InPlace, Contexts, Typing!BindRow, Typing!Plain,
           Typing!Gated, Typing!Hidden, Typing!Led, Typing!WithNav
  <2>2. \A i \in DOMAIN Typing!NavigationRows : Typing!NavigationRows[i] \in PlacedRows
    BY <2>1 DEF PlacedRows, TableRows, RowsIn
  <2>3. QED
    BY <2>2 DEF Typing!NavigationRows
<1>2. Typing!PreviewRows \in Seq(PlacedRows)
  <2>1. ASSUME NEW i \in DOMAIN Typing!PreviewRows PROVE StaysInPlace(Typing!PreviewRows[i])
    BY DEF Typing!PreviewRows, StaysInPlace, InPlace, Contexts, Typing!BindRow, Typing!Plain,
           Typing!Gated, Typing!Hidden, Typing!Led, Typing!WithNav
  <2>2. \A i \in DOMAIN Typing!PreviewRows : Typing!PreviewRows[i] \in PlacedRows
    BY <2>1 DEF PlacedRows, TableRows, RowsIn
  <2>3. QED
    BY <2>2 DEF Typing!PreviewRows
<1>3. Typing!MessageRows \in Seq(PlacedRows)
  <2>1. ASSUME NEW i \in DOMAIN Typing!MessageRows PROVE StaysInPlace(Typing!MessageRows[i])
    BY DEF Typing!MessageRows, StaysInPlace, InPlace, Contexts, Typing!BindRow, Typing!Plain,
           Typing!Gated, Typing!Hidden, Typing!Led, Typing!WithNav
  <2>2. \A i \in DOMAIN Typing!MessageRows : Typing!MessageRows[i] \in PlacedRows
    BY <2>1 DEF PlacedRows, TableRows, RowsIn
  <2>3. QED
    BY <2>2 DEF Typing!MessageRows
<1>4. Typing!ComposeRows \in Seq(PlacedRows)
  <2>1. ASSUME NEW i \in DOMAIN Typing!ComposeRows PROVE StaysInPlace(Typing!ComposeRows[i])
    BY DEF Typing!ComposeRows, StaysInPlace, InPlace, Contexts, Typing!BindRow, Typing!Plain,
           Typing!Gated, Typing!Hidden, Typing!Led, Typing!WithNav
  <2>2. \A i \in DOMAIN Typing!ComposeRows : Typing!ComposeRows[i] \in PlacedRows
    BY <2>1 DEF PlacedRows, TableRows, RowsIn
  <2>3. QED
    BY <2>2 DEF Typing!ComposeRows
<1>5. Typing!OverlayRows \in Seq(PlacedRows)
  <2>1. ASSUME NEW i \in DOMAIN Typing!OverlayRows PROVE StaysInPlace(Typing!OverlayRows[i])
    BY DEF Typing!OverlayRows, StaysInPlace, InPlace, Contexts, Typing!BindRow, Typing!Plain,
           Typing!Gated, Typing!Hidden, Typing!Led, Typing!WithNav
  <2>2. \A i \in DOMAIN Typing!OverlayRows : Typing!OverlayRows[i] \in PlacedRows
    BY <2>1 DEF PlacedRows, TableRows, RowsIn
  <2>3. QED
    BY <2>2 DEF Typing!OverlayRows
<1>6. Typing!PickerRows \in Seq(PlacedRows)
  <2>1. ASSUME NEW i \in DOMAIN Typing!PickerRows PROVE StaysInPlace(Typing!PickerRows[i])
    BY DEF Typing!PickerRows, StaysInPlace, InPlace, Contexts, Typing!BindRow, Typing!Plain,
           Typing!Gated, Typing!Hidden, Typing!Led, Typing!WithNav
  <2>2. \A i \in DOMAIN Typing!PickerRows : Typing!PickerRows[i] \in PlacedRows
    BY <2>1 DEF PlacedRows, TableRows, RowsIn
  <2>3. QED
    BY <2>2 DEF Typing!PickerRows
<1>7. Typing!DialogRows \in Seq(PlacedRows)
  <2>1. ASSUME NEW i \in DOMAIN Typing!DialogRows PROVE StaysInPlace(Typing!DialogRows[i])
    BY DEF Typing!DialogRows, StaysInPlace, InPlace, Contexts, Typing!BindRow, Typing!Plain,
           Typing!Gated, Typing!Hidden, Typing!Led, Typing!WithNav
  <2>2. \A i \in DOMAIN Typing!DialogRows : Typing!DialogRows[i] \in PlacedRows
    BY <2>1 DEF PlacedRows, TableRows, RowsIn
  <2>3. QED
    BY <2>2 DEF Typing!DialogRows
<1>8. ASSUME NEW s \in Seq(PlacedRows), NEW t \in Seq(PlacedRows)
      PROVE  s \o t \in Seq(PlacedRows)
  BY ConcatProperties
<1> DEFINE first == Typing!NavigationRows \o Typing!PreviewRows
           second == first \o Typing!MessageRows
           third == second \o Typing!ComposeRows
           fourth == third \o Typing!OverlayRows
           fifth == fourth \o Typing!PickerRows
<1>9. first \in Seq(PlacedRows)
  BY <1>1, <1>2, <1>8
<1>10. second \in Seq(PlacedRows)
  <2> HIDE DEF first
  <2>1. QED
    BY <1>9, <1>3, <1>8
<1>11. third \in Seq(PlacedRows)
  <2> HIDE DEF second
  <2>1. QED
    BY <1>10, <1>4, <1>8
<1>12. fourth \in Seq(PlacedRows)
  <2> HIDE DEF third
  <2>1. QED
    BY <1>11, <1>5, <1>8
<1>13. fifth \in Seq(PlacedRows)
  <2> HIDE DEF fourth
  <2>1. QED
    BY <1>12, <1>6, <1>8
<1>14. fifth \o Typing!DialogRows \in Seq(PlacedRows)
  <2> HIDE DEF fifth
  <2>1. QED
    BY <1>13, <1>7, <1>8
<1>15. QED
  BY <1>14 DEF Typing!Binds

\* What a key may do in an overlay that asks the table about it.
LEMMA FromKeyStays ==
  ASSUME NEW context \in Contexts, NEW key
  PROVE  LET action == Typing!FromKey(context, key, FALSE, FALSE, FALSE)
         IN action \in InPlace \cup {"none"} \/ (context = "Contacts" /\ action = "ContactsConfirm")
<1> DEFINE Hit(row) == /\ row.contexts = {} \/ context \in row.contexts
                       /\ Typing!Prefixed(row.prefix, FALSE, FALSE, FALSE)
                       /\ Typing!Passes(row.gate)
           hits == IF key \in DOMAIN Typing!RowsOn
                   THEN {i \in Typing!RowsOn[key] : Hit(Typing!Binds[i])} ELSE {}
<1>1. Typing!FromKey(context, key, FALSE, FALSE, FALSE)
        = IF hits = {} THEN "none" ELSE Typing!Binds[Typing!Min(hits)].action
  BY DEF Typing!FromKey
<1>2. hits \subseteq DOMAIN Typing!Binds
  BY DEF Typing!RowsOn
<1>3. hits \subseteq {i \in DOMAIN Typing!Binds : Hit(Typing!Binds[i])}
  BY DEF Typing!RowsOn
<1> HIDE DEF hits
<1>4. ASSUME hits # {} PROVE Typing!Min(hits) \in hits
  <2>1. hits \subseteq Nat
    <3>1. DOMAIN Typing!Binds = 1..Len(Typing!Binds) /\ Len(Typing!Binds) \in Nat
      BY RowsArePlaced, LenProperties
    <3>2. QED
      BY <1>2, <3>1
  <2>2. \E k \in hits : \A l \in hits : k <= l
    BY <1>4, <2>1, LeastExists
  <2>3. QED
    BY <2>2 DEF Typing!Min
<1>5. ASSUME NEW i \in DOMAIN Typing!Binds, Hit(Typing!Binds[i])
      PROVE  \/ Typing!Binds[i].action \in InPlace
             \/ context = "Contacts" /\ Typing!Binds[i].action = "ContactsConfirm"
  <2>1. Typing!Binds[i] \in PlacedRows
    BY RowsArePlaced
  <2>2. StaysInPlace(Typing!Binds[i])
    BY <2>1 DEF PlacedRows
  <2>3. QED
    BY <1>5, <2>2 DEF StaysInPlace
<1>6. QED
  BY <1>1, <1>3, <1>4, <1>5

-----------------------------------------------------------------------------
(* TuiKeys: the two orders, with one overlay open at most *)

LEMMA OneOpen ==
  ASSUME NEW n \in Nat, NEW order, DOMAIN order = 1..n,
         NEW layer, \E i \in DOMAIN order : order[i] = layer, open = {layer}
  PROVE  Typing!FirstOpen(order) = layer /\ Typing!LastOpen(order) = layer
<1> DEFINE at == {i \in DOMAIN order : order[i] \in open}
<1>1. at # {} /\ at \subseteq Nat /\ at \subseteq 1..n
  OBVIOUS
<1>2. \A i \in at : order[i] = layer
  OBVIOUS
<1>3. Typing!FirstOpen(order) = (IF at = {} THEN "list" ELSE order[Typing!Min(at)])
  BY DEF Typing!FirstOpen
<1>4. Typing!LastOpen(order) = (IF at = {} THEN "list" ELSE order[Typing!Max(at)])
  BY DEF Typing!LastOpen
<1> HIDE DEF at
<1>5. Typing!Min(at) \in at
  <2>1. \E k \in at : \A l \in at : k <= l
    BY <1>1, LeastExists
  <2>2. QED
    BY <2>1 DEF Typing!Min
<1>6. Typing!Max(at) \in at
  <2>1. IsFiniteSet(at)
    <3>1. IsFiniteSet(1..n)
      BY FS_Interval
    <3>2. QED
      BY <1>1, <3>1, FS_Subset
  <2>2. PICK m \in at : \A k \in at : k <= m
    BY <1>1, <2>1, MaxExists
  <2>3. \A k \in at : m >= k
    BY <1>1, <2>2
  <2>4. QED
    BY <2>3 DEF Typing!Max
<1>7. QED
  BY <1>1, <1>2, <1>3, <1>4, <1>5, <1>6

LEMMA NoneOpen ==
  ASSUME open = {}, NEW order
  PROVE  Typing!FirstOpen(order) = "list" /\ Typing!LastOpen(order) = "list"
BY DEF Typing!FirstOpen, Typing!LastOpen

\* With one overlay open at most, the keys go to it, and it is on top.
LEMMA RouteIsSeen ==
  ASSUME Typing!OneLayer
  PROVE  /\ open = {} => Typing!Route = "list"
         /\ open # {} => open = {Typing!Route} /\ Typing!Route \in Typing!Overlays /\ ~help
         /\ Typing!TakesKeys = Typing!OnTop
<1>1. CASE open = {}
  BY <1>1, NoneOpen DEF Typing!Route, Typing!TakesKeys, Typing!OnTop
<1>2. CASE open # {}
  <2>1. PICK layer \in Typing!Overlays : open = {layer}
    BY <1>2 DEF Typing!OneLayer
  <2>2. ~help /\ layer # "list"
    BY <1>2, <2>1 DEF Typing!OneLayer, Typing!Overlays, Typing!RouteOrder
  <2>3. Typing!FirstOpen(Typing!RouteOrder) = layer
    <3>1. DOMAIN Typing!RouteOrder = 1..13
      BY DEF Typing!RouteOrder
    <3>2. \E i \in DOMAIN Typing!RouteOrder : Typing!RouteOrder[i] = layer
      BY DEF Typing!Overlays
    <3>3. QED
      BY <2>1, <3>1, <3>2, OneOpen
  <2>4. ASSUME layer # "composer" PROVE Typing!LastOpen(Typing!DrawOrder) = layer
    <3>1. DOMAIN Typing!DrawOrder = 1..12
      BY DEF Typing!DrawOrder
    <3>2. layer \in {"active_picker", "outbox", "search", "thread", "move_picker", "account_picker",
                     "contacts", "ical", "folder_crud", "prompt", "wizard", "sieve_wizard"}
      BY <2>4 DEF Typing!Overlays, Typing!RouteOrder
    <3>3. \E i \in DOMAIN Typing!DrawOrder : Typing!DrawOrder[i] = layer
      BY <3>1, <3>2 DEF Typing!DrawOrder
    <3>4. QED
      BY <2>1, <3>1, <3>3, OneOpen
  <2>5. QED
    BY <2>1, <2>2, <2>3, <2>4 DEF Typing!Route, Typing!TakesKeys, Typing!OnTop
<1>3. QED
  BY <1>1, <1>2

-----------------------------------------------------------------------------
(* TuiKeys: what an action of the table does to the overlays *)

Stays == open' \subseteq open /\ help' = help /\ (running_op' = running_op \/ running_op' \notin Typing!Surprising)

Invoked(action) ==
    \/ running' # "yes"
    \/ Stays
    \/ /\ action \notin InPlace \cup Typing!ComposerActions \cup {"ContactsConfirm", "ComposerPgpSign", "ComposerPgpEncrypt"}
       /\ help' = help /\ running_op' = running_op
       /\ \E layer \in Typing!Overlays : open' = open \cup {layer}
    \/ /\ action = "ToggleHelp" /\ open' = open /\ help' = TRUE /\ running_op' = running_op
    \/ /\ action = "LeaderOpenSievePicker"
       /\ open' = open /\ help' = help /\ running_op' = "list"
    \/ /\ action = "ComposerSend"
       /\ open' = open \ {"composer"} /\ help' = help /\ running_op' = "send"
    \/ /\ action = "ContactsConfirm"
       /\ open' = (open \ {"contacts"}) \cup {"composer"} /\ help' = help /\ running_op' = running_op

LEMMA OverlayNames ==
  Typing!Overlays = {"active_picker", "composer", "outbox", "search", "thread", "move_picker", "account_picker",
                     "contacts", "ical", "folder_crud", "prompt", "wizard", "sieve_wizard"}
BY DEF Typing!Overlays, Typing!RouteOrder

LEMMA Kept == ASSUME Typing!Keep PROVE Stays
BY DEF Typing!Keep, Typing!listVars, Typing!layers, Typing!searching, Stays

LEMMA Reselected == ASSUME NEW p, Typing!Reselect(p) PROVE Stays
BY DEF Typing!Reselect, Typing!layers, Stays

LEMMA Started == ASSUME NEW kind, Typing!Starts(kind) 
  PROVE /\ open' = open /\ help' = help
        /\ running_op' \in {running_op, kind}
BY DEF Typing!Starts, Typing!Spawn, Typing!listVars, Typing!layers

LEMMA Showed == ASSUME NEW layer, Typing!Shows(layer)
  PROVE open' = open \cup {layer} /\ help' = help /\ running_op' = running_op
BY DEF Typing!Shows, Typing!listVars

LEMMA HiddenLayer == ASSUME NEW layer, Typing!Hides(layer) PROVE Stays /\ open' = open \ {layer}
BY DEF Typing!Hides, Typing!Dropped, Typing!listVars, Stays

LEMMA Jumped == ASSUME NEW dropped, Typing!JumpFrom(dropped) PROVE Stays /\ open' = open \ dropped
BY DEF Typing!JumpFrom, Typing!Dropped, Stays

LEMMA Switched == ASSUME NEW dropped, Typing!SwitchAccount(dropped) PROVE Stays /\ open' = open \ dropped
BY DEF Typing!SwitchAccount, Typing!Dropped, Stays

LEMMA InvokeEffect ==
  ASSUME NEW action, Typing!Invoke(action)
  PROVE  Invoked(action)
<1> USE DEF Invoked
<1>1. ASSUME Typing!Fails PROVE Invoked(action)
  BY <1>1 DEF Typing!Fails
<1>2. CASE Typing!Navigate(action)
  <2>1. CASE action = "Quit"
    BY <1>2, <2>1 DEF Typing!Navigate
  <2>2. CASE action = "ToggleHelp"
    <3>1. open' = open /\ help' = TRUE /\ running_op' = running_op
      BY <1>2, <2>2 DEF Typing!Navigate, Typing!layers
    <3>2. QED
      BY <2>2, <3>1
  <2>3. CASE action \in {"MoveDown", "MoveUp"}
    <3>1. (\E p : Typing!Reselect(p)) \/ Typing!Fails \/ Typing!Keep
      BY <1>2, <2>3 DEF Typing!Navigate
    <3>2. QED
      BY <1>1, <3>1, Reselected, Kept
  <2>4. CASE action \in {"JumpTop", "JumpBottom", "Scroll"}
    <3>1. Typing!Keep
      BY <1>2, <2>4 DEF Typing!Navigate
    <3>2. QED
      BY <3>1, Kept
  <2>5. CASE action \in {"PaneCycleForward", "PaneCycleBackward"}
    <3>1. open' = open /\ help' = help /\ running_op' = running_op
      BY <1>2, <2>5 DEF Typing!Navigate, Typing!layers
    <3>2. QED
      BY <3>1 DEF Stays
  <2>6. CASE action = "Confirm"
    <3>1. \/ \E p : Typing!Reselect(p)
          \/ Typing!Fails
          \/ (Typing!Spawn("reload") \/ UNCHANGED running_op) /\ UNCHANGED <<help, Typing!layers>>
      BY <1>2, <2>6 DEF Typing!Navigate
    <3>2. CASE (Typing!Spawn("reload") \/ UNCHANGED running_op) /\ UNCHANGED <<help, Typing!layers>>
      BY <3>2 DEF Typing!Spawn, Typing!layers, Stays, Typing!Surprising
    <3>3. QED
      BY <1>1, <3>1, <3>2, Reselected
  <2>7. QED
    BY <1>2, <2>1, <2>2, <2>3, <2>4, <2>5, <2>6 DEF Typing!Navigate
<1>3. CASE Typing!OnMessage(action)
  <2>1. CASE action \in {"Expunge", "MarkFolderRead", "ManualSync"}
    <3>1. Typing!Starts("reload")
      BY <1>3, <2>1 DEF Typing!OnMessage
    <3>2. QED
      BY <3>1, Started DEF Stays, Typing!Surprising
  <2>2. CASE action \in {"ListUnsubscribe", "OAuthLogin"}
    <3>1. Typing!Starts("other")
      BY <1>3, <2>2 DEF Typing!OnMessage
    <3>2. QED
      BY <3>1, Started DEF Stays, Typing!Surprising
  <2>3. CASE action \in {"MoveMessage", "CopyMessage", "OpenThread", "OpenIcal"}
    <3>1. (\E layer \in Typing!Overlays : Typing!Shows(layer)) \/ Typing!Keep \/ Typing!Fails
      BY <1>3, <2>3, OverlayNames DEF Typing!OnMessage
    <3>2. action \notin InPlace \cup Typing!ComposerActions
                       \cup {"ContactsConfirm", "ComposerPgpSign", "ComposerPgpEncrypt"}
      BY <2>3 DEF InPlace, Typing!ComposerActions
    <3>3. QED
      BY <1>1, <3>1, <3>2, Showed, Kept
  <2>4. CASE action \in {"ToggleSeen", "ToggleFlagged", "ToggleDeleted", "ToggleRawHeaders"}
    <3>1. Typing!Reselect(pane) \/ Typing!Fails
      BY <1>3, <2>4 DEF Typing!OnMessage
    <3>2. QED
      BY <1>1, <3>1, Reselected
  <2>5. CASE action = "ReadReceiptSend"
    <3>1. (Typing!Spawn("other") \/ UNCHANGED running_op) /\ UNCHANGED <<help, Typing!layers>>
      BY <1>3, <2>5 DEF Typing!OnMessage
    <3>2. QED
      BY <3>1 DEF Typing!Spawn, Typing!layers, Stays, Typing!Surprising
  <2>6. CASE action = "ReadReceiptDecline"
    <3>1. UNCHANGED <<help, Typing!layers, running_op>>
      BY <1>3, <2>6 DEF Typing!OnMessage
    <3>2. QED
      BY <3>1 DEF Typing!layers, Stays
  <2>7. QED
    BY <1>3, <2>1, <2>2, <2>3, <2>4, <2>5, <2>6 DEF Typing!OnMessage
<1>4. CASE Typing!Compose(action)
  <2>1. CASE action \in {"OpenBlankCompose", "OpenReply", "OpenReplyAll", "OpenForward"}
    <3>1. Typing!Shows("composer") \/ Typing!Keep \/ Typing!Fails
      BY <1>4, <2>1 DEF Typing!Compose
    <3>2. action \notin InPlace \cup Typing!ComposerActions
                       \cup {"ContactsConfirm", "ComposerPgpSign", "ComposerPgpEncrypt"}
      BY <2>1 DEF InPlace, Typing!ComposerActions
    <3>3. "composer" \in Typing!Overlays
      BY OverlayNames
    <3>4. QED
      BY <1>1, <3>1, <3>2, <3>3, Showed, Kept
  <2>2. CASE action \in {"ComposerDiscard", "ComposerSaveDraft"}
    <3>1. Typing!Hides("composer") \/ Typing!Keep \/ Typing!Fails
      BY <1>4, <2>2 DEF Typing!Compose
    <3>2. QED
      BY <1>1, <3>1, HiddenLayer, Kept
  <2>3. CASE action = "ComposerSend"
    <3>1. \/ Typing!Keep \/ Typing!Hides("composer") \/ Typing!Fails
          \/ running_op' = "send" /\ Typing!Dropped({"composer"}) /\ UNCHANGED Typing!listVars
      BY <1>4, <2>3 DEF Typing!Compose
    <3>2. CASE running_op' = "send" /\ Typing!Dropped({"composer"}) /\ UNCHANGED Typing!listVars
      <4>1. open' = open \ {"composer"} /\ help' = help
        BY <3>2 DEF Typing!Dropped, Typing!listVars
      <4>2. QED
        BY <2>3, <3>2, <4>1
    <3>3. QED
      BY <1>1, <3>1, <3>2, HiddenLayer, Kept
  <2>4. CASE action \in {"ComposerFocusNext", "ComposerFocusPrev", "ComposerPgpArm",
                         "ComposerPgpSign", "ComposerPgpEncrypt", "ComposerYank", "ComposerPaste"}
    <3>1. Typing!Keep
      BY <1>4, <2>4 DEF Typing!Compose
    <3>2. QED
      BY <3>1, Kept
  <2>5. QED
    BY <1>4, <2>1, <2>2, <2>3, <2>4 DEF Typing!Compose
<1>5. CASE Typing!OpenOverlay(action)
  <2> DEFINE Opener == action \notin InPlace \cup Typing!ComposerActions
                         \cup {"ContactsConfirm", "ComposerPgpSign", "ComposerPgpEncrypt"}
  <2>1. Opener
    BY <1>5 DEF Typing!OpenOverlay, InPlace, Typing!ComposerActions
  <2>2. ASSUME NEW layer \in Typing!Overlays, open' = open \cup {layer}, help' = help, running_op' = running_op
        PROVE  Invoked(action)
    BY <2>1, <2>2
  <2> HIDE DEF Opener
  <2>3. CASE action = "OpenSearch"
    <3>1. Typing!OpenSearch
      BY <1>5, <2>3 DEF Typing!OpenOverlay
    <3>2. open' = open \cup {"search"} /\ help' = help /\ running_op' = running_op
      BY <3>1 DEF Typing!OpenSearch, Typing!listVars
    <3>3. QED
      BY <2>2, <3>2, OverlayNames
  <2>4. CASE action \in {"SearchStepForward", "SearchStepBackward"}
    <3>1. \E step : Typing!StepLastSearch(step)
      BY <1>5, <2>4 DEF Typing!OpenOverlay
    <3>2. Typing!Keep \/ Typing!JumpFrom({})
      BY <3>1 DEF Typing!StepLastSearch
    <3>3. QED
      BY <3>2, Kept, Jumped
  <2>5. CASE action \in {"OpenAccountPicker", "OpenContacts", "OpenOutbox", "LeaderOpenFolderCrud"}
    <3>1. (\E layer \in Typing!Overlays : Typing!Shows(layer)) \/ Typing!Keep \/ Typing!Fails
      BY <1>5, <2>5, OverlayNames DEF Typing!OpenOverlay
    <3>2. QED
      BY <1>1, <2>2, <3>1, Showed, Kept
  <2>6. CASE action \in {"LeaderOpenFolderPicker", "LeaderOpenAccountPicker", "LeaderOpenMessagePicker",
                         "LeaderOpenAttachmentPicker", "OpenTemplatePicker"}
    <3>1. (\E kind : Typing!ShowsPicker(kind)) \/ Typing!Keep \/ Typing!Fails
      BY <1>5, <2>6 DEF Typing!OpenOverlay
    <3>2. ASSUME NEW kind, Typing!ShowsPicker(kind) PROVE Invoked(action)
      <4>1. open' = open \cup {"active_picker"} /\ help' = help /\ running_op' = running_op
        BY <3>2 DEF Typing!ShowsPicker, Typing!listVars
      <4>2. QED
        BY <2>2, <4>1, OverlayNames
    <3>3. QED
      BY <1>1, <3>1, <3>2, Kept
  <2>7. CASE action = "LeaderNewAccountWizard"
    <3>1. Typing!ShowsWizard("wizard")
      BY <1>5, <2>7 DEF Typing!OpenOverlay
    <3>2. open' = open \cup {"wizard"} /\ help' = help /\ running_op' = running_op
      BY <3>1 DEF Typing!ShowsWizard, Typing!listVars
    <3>3. QED
      BY <2>2, <3>2, OverlayNames
  <2>8. CASE action = "LeaderOpenSievePicker"
    <3>1. Typing!Starts("list")
      BY <1>5, <2>8 DEF Typing!OpenOverlay
    <3>2. open' = open /\ help' = help /\ running_op' \in {running_op, "list"}
      BY <3>1, Started
    <3>3. QED
      BY <2>8, <3>2 DEF Stays
  <2>9. QED
    BY <1>5, <2>3, <2>4, <2>5, <2>6, <2>7, <2>8 DEF Typing!OpenOverlay
<1>6. CASE Typing!InOverlay(action)
  <2>1. CASE action = "OutboxDrainAll"
    <3>1. Typing!Starts("reload")
      BY <1>6, <2>1 DEF Typing!InOverlay
    <3>2. QED
      BY <3>1, Started DEF Stays, Typing!Surprising
  <2>2. CASE action \in {"OutboxDrainOne", "OutboxDeleteOne"}
    <3>1. Typing!Keep \/ Typing!Fails
      BY <1>6, <2>2 DEF Typing!InOverlay
    <3>2. QED
      BY <1>1, <3>1, Kept
  <2>3. CASE action \in {"OutboxClose", "MovePickerClose", "AccountPickerClose", "ContactsClose",
                         "IcalClose", "IcalReply", "ThreadClose"}
    <3>1. \E layer : Typing!Hides(layer)
      BY <1>6, <2>3 DEF Typing!InOverlay
    <3>2. QED
      BY <3>1, HiddenLayer
  <2>4. CASE action = "MovePickerConfirm"
    <3>1. Typing!Keep \/ (Typing!Dropped({"move_picker"}) /\ UNCHANGED <<help, running_op>>)
      BY <1>6, <2>4 DEF Typing!InOverlay
    <3>2. CASE Typing!Dropped({"move_picker"}) /\ UNCHANGED <<help, running_op>>
      BY <3>2 DEF Typing!Dropped, Stays
    <3>3. QED
      BY <3>1, <3>2, Kept
  <2>5. CASE action = "AccountPickerConfirm"
    <3>1. Typing!SwitchAccount({"account_picker"})
      BY <1>6, <2>5 DEF Typing!InOverlay
    <3>2. QED
      BY <3>1, Switched
  <2>6. CASE action = "ContactsConfirm"
    <3>1. \/ Typing!Keep
          \/ /\ open' = (open \ {"contacts"}) \cup {"composer"}
             /\ UNCHANGED <<Typing!listVars, running_op>>
      BY <1>6, <2>6 DEF Typing!InOverlay
    <3>2. QED
      BY <2>6, <3>1, Kept DEF Typing!listVars
  <2>7. CASE action = "ThreadConfirm"
    <3>1. Typing!Keep \/ Typing!JumpFrom({"thread"})
      BY <1>6, <2>7 DEF Typing!InOverlay
    <3>2. QED
      BY <3>1, Kept, Jumped
  <2>8. QED
    BY <1>6, <2>1, <2>2, <2>3, <2>4, <2>5, <2>6, <2>7 DEF Typing!InOverlay
<1>7. QED
  BY <1>2, <1>3, <1>4, <1>5, <1>6 DEF Typing!Invoke

-----------------------------------------------------------------------------
(* TuiKeys: one overlay at most, whatever key is pressed *)

Settled == Typing!OneLayer /\ (running_op \in Typing!Surprising => open = {} /\ ~help)
Typable == Typing!OneLayer /\ running_op \notin Typing!Surprising

LEMMA StaysSettled == ASSUME Typable, Stays PROVE Settled'
<1>1. open' = {} \/ \E layer \in Typing!Overlays : open' = {layer}
  BY DEF Typable, Stays, Typing!OneLayer
<1>2. help' \in BOOLEAN /\ (help' => open' = {})
  BY DEF Typable, Stays, Typing!OneLayer
<1>3. running_op' \notin Typing!Surprising
  BY DEF Typable, Stays
<1>4. QED
  BY <1>1, <1>2, <1>3 DEF Settled, Typing!OneLayer, Typing!Overlays, Typing!RouteOrder, Typing!Surprising

\* Another overlay, in the place of the one that was open.
LEMMA ReplacedSettled ==
  ASSUME Typable, NEW layer \in Typing!Overlays, open' = {layer}, ~help, help' = help,
         running_op' = running_op
  PROVE  Settled'
BY DEF Typable, Settled, Typing!OneLayer, Typing!Overlays, Typing!RouteOrder, Typing!Surprising

LEMMA ClosedSettled ==
  ASSUME Typable, open' = {}, ~help, help' = help
  PROVE  Settled'
BY DEF Typable, Settled, Typing!OneLayer

LEMMA PickerSettled == ASSUME Typable, NEW key, Typing!PickerKey(key) PROVE Settled'
<1>1. open = {"active_picker"} /\ ~help
  BY RouteIsSeen DEF Typable, Typing!PickerKey
<1>2. Typing!Hides("active_picker") \/ Typing!Chosen \/ Typing!Keep
  BY DEF Typing!PickerKey
<1>3. CASE Typing!Chosen
  <2>1. CASE Typing!JumpFrom({"active_picker"}) \/ Typing!SwitchAccount({"active_picker"})
    BY <2>1, Jumped, Switched, StaysSettled
  <2>2. CASE Typing!Dropped({"active_picker"}) /\ UNCHANGED Typing!listVars
    <3>1. open' = {} /\ help' = help
      BY <1>1, <2>2 DEF Typing!Dropped, Typing!listVars
    <3>2. QED
      BY <1>1, <3>1, ClosedSettled
  <2>3. CASE Typing!Hides("active_picker")
    BY <2>3, HiddenLayer, StaysSettled
  <2>4. CASE Typing!OpensTemplate
    <3>1. open' = {"composer"} /\ help' = help /\ running_op' = running_op
      BY <1>1, <2>4 DEF Typing!OpensTemplate, Typing!listVars
    <3>2. QED
      BY <1>1, <3>1, OverlayNames, ReplacedSettled
  <2>5. QED
    BY <1>3, <2>1, <2>2, <2>3, <2>4 DEF Typing!Chosen
<1>4. QED
  BY <1>2, <1>3, HiddenLayer, Kept, StaysSettled

LEMMA ComposerSettled ==
  ASSUME Typable, NEW key, Typing!ComposerKey(key), running' = "yes"
  PROVE  Settled'
<1>1. open = {"composer"} /\ ~help
  BY RouteIsSeen DEF Typable, Typing!ComposerKey
<1>2. Typing!Keep \/ \E action \in Typing!ComposerActions \cup {"ComposerPgpSign", "ComposerPgpEncrypt"} :
                        Typing!Invoke(action)
  BY DEF Typing!ComposerKey, Typing!PgpChord, Typing!ComposerTakes
<1>3. ASSUME NEW action \in Typing!ComposerActions \cup {"ComposerPgpSign", "ComposerPgpEncrypt"},
             Typing!Invoke(action)
      PROVE  Settled'
  <2>1. Invoked(action)
    BY <1>3, InvokeEffect
  <2>2. action \notin {"ToggleHelp", "LeaderOpenSievePicker", "ContactsConfirm"}
    BY DEF Typing!ComposerActions
  <2>3. Stays \/ (open' = open \ {"composer"} /\ help' = help)
    BY <2>1, <2>2 DEF Invoked
  <2>4. QED
    BY <1>1, <2>3, StaysSettled, ClosedSettled
<1>4. QED
  BY <1>2, <1>3, Kept, StaysSettled

LEMMA OverlaySettled ==
  ASSUME Typable, NEW key, Typing!OverlayKey(key), running' = "yes"
  PROVE  Settled'
<1>1. open = {Typing!Route} /\ ~help
  <2>1. Typing!Route # "list"
    BY DEF Typing!OverlayKey, Typing!ContextOf
  <2>2. QED
    BY <2>1, RouteIsSeen DEF Typable
<1> DEFINE context == Typing!ContextOf[Typing!Route]
           action == Typing!FromKey(context, key, FALSE, FALSE, FALSE)
<1>2. context \in Contexts /\ (context = "Contacts" => Typing!Route = "contacts")
  BY DEF Typing!OverlayKey, Typing!ContextOf, Contexts
<1>3. Typing!Keep \/ (Typing!Invoke(action) /\ action # "none")
  BY DEF Typing!OverlayKey
<1>4. action \in InPlace \cup {"none"} \/ (context = "Contacts" /\ action = "ContactsConfirm")
  BY <1>2, FromKeyStays
<1> HIDE DEF context, action
<1>5. CASE Typing!Invoke(action) /\ action # "none"
  <2>1. Invoked(action)
    BY <1>5, InvokeEffect
  <2>2. CASE action \in InPlace
    <3>1. action \notin {"ToggleHelp", "LeaderOpenSievePicker", "ComposerSend", "ContactsConfirm"}
      BY <2>2 DEF InPlace
    <3>2. Stays
      BY <2>1, <2>2, <3>1 DEF Invoked
    <3>3. QED
      BY <3>2, StaysSettled
  <2>3. CASE context = "Contacts" /\ action = "ContactsConfirm"
    <3>1. open = {"contacts"}
      BY <1>1, <1>2, <2>3
    <3>2. Stays \/ (open' = {"composer"} /\ help' = help /\ running_op' = running_op)
      BY <2>1, <2>3, <3>1 DEF Invoked
    <3>3. QED
      BY <1>1, <3>2, OverlayNames, StaysSettled, ReplacedSettled
  <2>4. QED
    BY <1>4, <1>5, <2>2, <2>3
<1>6. QED
  BY <1>3, <1>5, Kept, StaysSettled

LEMMA SearchSettled == ASSUME Typable, NEW key, Typing!SearchKey(key) PROVE Settled'
<1>1. \/ Typing!Hides("search") \/ Typing!Keep \/ Typing!GoToResult \/ Typing!RunSearch
      \/ \E to : Typing!MoveInResults(to)
      \/ \E query : Typing!EditQuery(query)
  BY DEF Typing!SearchKey
<1>2. ASSUME Typing!GoToResult PROVE Stays
  BY <1>2, Jumped DEF Typing!GoToResult
<1>3. ASSUME Typing!RunSearch PROVE Stays
  BY <1>3 DEF Typing!RunSearch, Typing!listVars, Typing!layers, Stays
<1>4. ASSUME NEW to, Typing!MoveInResults(to) PROVE Stays
  BY <1>4 DEF Typing!MoveInResults, Typing!listVars, Typing!layers, Stays
<1>5. ASSUME NEW query, Typing!EditQuery(query) PROVE Stays
  BY <1>5 DEF Typing!EditQuery, Typing!listVars, Typing!layers, Stays
<1>6. QED
  BY <1>1, <1>2, <1>3, <1>4, <1>5, HiddenLayer, Kept, StaysSettled

LEMMA FolderCrudSettled == ASSUME Typable, NEW key, Typing!FolderCrudKey(key) PROVE Settled'
<1>1. open = {"folder_crud"} /\ ~help
  BY RouteIsSeen DEF Typable, Typing!FolderCrudKey
<1>2. Typing!Hides("folder_crud") \/ Typing!Keep \/ \E kind : Typing!ConfirmFolderCrud(kind)
  BY DEF Typing!FolderCrudKey
<1>3. ASSUME NEW kind, Typing!ConfirmFolderCrud(kind) PROVE Settled'
  <2>1. (open' = {"prompt"} \/ open' = {}) /\ help' = help /\ running_op' = running_op
    BY <1>1, <1>3 DEF Typing!ConfirmFolderCrud, Typing!listVars
  <2>2. QED
    BY <1>1, <2>1, OverlayNames, ClosedSettled, ReplacedSettled
<1>4. QED
  BY <1>2, <1>3, HiddenLayer, Kept, StaysSettled

LEMMA PromptSettled == ASSUME Typable, NEW key, Typing!PromptKey(key) PROVE Settled'
<1>1. \/ Typing!Hides("prompt") \/ Typing!Keep \/ Typing!ApplyPrompt
      \/ \E text : Typing!EditPrompt(text)
  BY DEF Typing!PromptKey
<1>2. ASSUME Typing!ApplyPrompt PROVE Stays
  BY <1>2 DEF Typing!ApplyPrompt, Typing!Dropped, Typing!Spawn, Typing!listVars, Stays, Typing!Surprising
<1>3. ASSUME NEW text, Typing!EditPrompt(text) PROVE Stays
  BY <1>3 DEF Typing!EditPrompt, Typing!listVars, Stays
<1>4. QED
  BY <1>1, <1>2, <1>3, HiddenLayer, Kept, StaysSettled

LEMMA FormSettled == ASSUME Typable, NEW key, Typing!FormKey(key) PROVE Settled'
<1>1. (\E layer : Typing!Hides(layer)) \/ Typing!Keep \/ \E wizard : Typing!FormInput(wizard, key)
  BY DEF Typing!FormKey
<1>2. ASSUME NEW wizard, Typing!FormInput(wizard, key) PROVE Stays
  BY <1>2 DEF Typing!FormInput, Typing!listVars, Stays
<1>3. QED
  BY <1>1, <1>2, HiddenLayer, Kept, StaysSettled

LEMMA WizardSettled == ASSUME Typable, NEW key, Typing!WizardKey(key) PROVE Settled'
<1>1. Typing!FormKey(key) \/ Typing!Hides("wizard")
  BY DEF Typing!WizardKey
<1>2. QED
  BY <1>1, FormSettled, HiddenLayer, StaysSettled

LEMMA SieveWizardSettled == ASSUME Typable, NEW key, Typing!SieveWizardKey(key) PROVE Settled'
<1>1. open = {"sieve_wizard"} /\ ~help
  BY RouteIsSeen DEF Typable, Typing!SieveWizardKey
<1>2. Typing!FormKey(key) \/ Typing!SaveSieve
  BY DEF Typing!SieveWizardKey
<1>3. CASE Typing!SaveSieve
  <2>1. CASE Typing!Keep
    BY <2>1, Kept, StaysSettled
  <2>2. CASE Typing!ShowsWizard("sieve_wizard")
    <3>1. open' = {"sieve_wizard"} /\ help' = help /\ running_op' = running_op
      BY <1>1, <2>2 DEF Typing!ShowsWizard, Typing!listVars
    <3>2. QED
      BY <1>1, <3>1, OverlayNames, ReplacedSettled
  <2>3. CASE Typing!Dropped({"sieve_wizard"}) /\ UNCHANGED Typing!listVars
    <3>1. open' = {} /\ help' = help
      BY <1>1, <2>3 DEF Typing!Dropped, Typing!listVars
    <3>2. QED
      BY <1>1, <3>1, ClosedSettled
  <2>4. QED
    BY <1>3, <2>1, <2>2, <2>3 DEF Typing!SaveSieve
<1>4. QED
  BY <1>2, <1>3, FormSettled

LEMMA ListSettled ==
  ASSUME Typable, NEW key, Typing!ListKey(key), running' = "yes"
  PROVE  Settled'
<1>1. open = {}
  <2>1. "list" \notin Typing!Overlays
    BY OverlayNames
  <2>2. QED
    BY <2>1, RouteIsSeen DEF Typable, Typing!ListKey
<1>2. ASSUME NEW action, Typing!Invoke(action), ~help PROVE Settled'
  <2>1. Invoked(action)
    BY <1>2, InvokeEffect
  <2>2. CASE Stays
    BY <2>2, StaysSettled
  <2>3. CASE help' = help /\ running_op' = running_op /\ \E layer \in Typing!Overlays : open' = open \cup {layer}
    BY <1>1, <1>2, <2>3, ReplacedSettled
  <2>4. CASE open' = open /\ help' = TRUE /\ running_op' = running_op
    BY <1>1, <2>4 DEF Typable, Settled, Typing!OneLayer, Typing!Surprising
  <2>5. CASE open' \subseteq open /\ help' = help
    BY <1>1, <1>2, <2>5, ClosedSettled
  <2>6. CASE /\ open' = (open \ {"contacts"}) \cup {"composer"}
             /\ help' = help /\ running_op' = running_op
    BY <1>1, <1>2, <2>6, OverlayNames, ReplacedSettled
  <2>7. QED
    BY <2>1, <2>2, <2>3, <2>4, <2>5, <2>6 DEF Invoked
<1>3. CASE Typing!DismissHelp
  <2>1. open' = {} /\ help' = FALSE
    BY <1>1, <1>3 DEF Typing!DismissHelp, Typing!layers
  <2>2. QED
    BY <2>1 DEF Settled, Typing!OneLayer
<1>4. \/ Typing!DismissHelp \/ Typing!Keep
      \/ ~help /\ \E action : Typing!Invoke(action)
  BY DEF Typing!ListKey, Typing!LeaderChord, Typing!ArmLeader, Typing!ArmG, Typing!PlainKey, Typing!NoChord
<1>5. QED
  BY <1>2, <1>3, <1>4, Kept, StaysSettled

LEMMA DispatchSettled ==
  ASSUME Typable, NEW key, Typing!Dispatch(key), running' = "yes"
  PROVE  Settled'
<1>1. \/ Typing!PickerKey(key) \/ Typing!ComposerKey(key) \/ Typing!OverlayKey(key) \/ Typing!SearchKey(key)
      \/ Typing!FolderCrudKey(key) \/ Typing!PromptKey(key) \/ Typing!WizardKey(key)
      \/ Typing!SieveWizardKey(key) \/ Typing!ListKey(key)
  BY DEF Typing!Dispatch
<1>2. QED
  BY <1>1, PickerSettled, ComposerSettled, OverlaySettled, SearchSettled, FolderCrudSettled,
     PromptSettled, WizardSettled, SieveWizardSettled, ListSettled

LEMMA TypingInit == ASSUME Typing!Init PROVE Typing!LayersInv
BY DEF Typing!Init, Typing!LayersInv, Typing!OneLayer, Typing!Surprising

LEMMA TypingNext ==
  ASSUME Typing!LayersInv, [Typing!Next]_(Typing!vars)
  PROVE  Typing!LayersInv'
<1> SUFFICES ASSUME typist' = "patient", running' = "yes" PROVE Settled'
  BY DEF Typing!LayersInv, Settled
<1>1. CASE UNCHANGED Typing!vars
  BY <1>1 DEF Typing!LayersInv, Settled, Typing!OneLayer, Typing!vars, Typing!layers, Typing!listVars,
      Typing!Overlays, Typing!RouteOrder, Typing!Surprising
<1>2. CASE \E key \in Typing!Keys : Typing!Press(key)
  <2>1. PICK key : Typing!Press(key)
    BY <1>2
  <2>2. Typing!Dispatch(key) /\ typist = "patient" /\ running = "yes"
    BY <2>1 DEF Typing!Press, Typing!Dispatch
  <2>3. Typable
    BY <2>1, <2>2 DEF Typing!Press, Typing!LayersInv, Typable
  <2>4. QED
    BY <2>2, <2>3, DispatchSettled
<1>3. CASE Typing!GiveUp
  BY <1>3 DEF Typing!GiveUp
<1>4. CASE Typing!Escape
  BY <1>4 DEF Typing!Escape, Typing!Dispatch
<1>5. CASE Typing!Result
  <2>1. running = "yes" /\ typist = "patient" /\ running_op' = "none"
    BY <1>5 DEF Typing!Result
  <2>2. Settled
    BY <2>1 DEF Typing!LayersInv, Settled
  <2>3. help' = help
    BY <1>5 DEF Typing!Result, Typing!listVars
  <2>4. CASE running_op \in Typing!Surprising
    <3>1. open = {} /\ ~help
      BY <2>2, <2>4 DEF Settled
    <3>2. open' \in {{}, {"active_picker"}, {"sieve_wizard"}}
      BY <1>5, <2>4, <3>1 DEF Typing!Result, Typing!Surprising, Typing!layers
    <3>3. \A layer \in {"active_picker", "sieve_wizard"} : layer \in Typing!Overlays
      BY OverlayNames
    <3>4. QED
      BY <2>1, <2>2, <2>3, <3>1, <3>2, <3>3
      DEF Settled, Typing!OneLayer, Typing!Surprising, Typing!Overlays, Typing!RouteOrder
  <2>5. CASE running_op \notin Typing!Surprising
    <3>1. open' = open
      BY <1>5, <2>5 DEF Typing!Result, Typing!Surprising, Typing!layers
    <3>2. Typable /\ Stays
      BY <2>1, <2>2, <2>3, <2>5, <3>1 DEF Typable, Settled, Stays, Typing!Surprising
    <3>3. QED
      BY <3>2, StaysSettled
  <2>6. QED
    BY <2>4, <2>5
<1>6. CASE Typing!Background
  <2>1. running = "yes" /\ typist = "patient"
    BY <1>6 DEF Typing!Background
  <2>2. Settled
    BY <2>1 DEF Typing!LayersInv, Settled
  <2>3. open' = open /\ help' = help
    <3>1. Typing!Starts("reload") \/ Typing!Reselect(pane)
      BY <1>6 DEF Typing!Background, Typing!Fails
    <3>2. QED
      BY <3>1, Started DEF Typing!Reselect, Typing!layers
  <2>4. running_op' = running_op \/ (running_op' = "reload")
    BY <1>6 DEF Typing!Background, Typing!Fails, Typing!Starts, Typing!Spawn, Typing!Reselect
  <2>5. QED
    BY <2>2, <2>3, <2>4 DEF Settled, Typing!OneLayer, Typing!Surprising, Typing!Overlays, Typing!RouteOrder
<1>7. CASE Typing!Ended
  BY <1>1, <1>7 DEF Typing!Ended
<1>8. QED
  BY <1>1, <1>2, <1>3, <1>4, <1>5, <1>6, <1>7 DEF Typing!Next

LEMMA TypingStep ==
  ASSUME [TuiNext]_allVars
  PROVE  [Typing!Next]_(Typing!vars)
<1>1. ASSUME typingVars' = typingVars PROVE UNCHANGED Typing!vars
  BY <1>1 DEF typingVars, Typing!vars, Typing!listVars, Typing!chords, Typing!layers, Typing!searching
<1>2. CASE allVars' = allVars
  BY <1>1, <1>2 DEF allVars
<1>3. CASE TuiNext
  BY <1>1, <1>3 DEF TuiNext
<1>4. QED
  BY <1>2, <1>3

\* One overlay is open at most, for a user who lets operations finish, at every
\* moment of the TUI: so the keys go to the one that is drawn on top.
THEOREM KeysAlwaysGoToWhatIsSeen == TuiSpec => []KeysGoToWhatIsSeen
<1>1. TuiInit => Typing!LayersInv
  BY TypingInit DEF TuiInit
<1>2. Typing!LayersInv /\ [TuiNext]_allVars => Typing!LayersInv'
  BY TypingStep, TypingNext
<1>3. Typing!LayersInv => KeysGoToWhatIsSeen
  BY RouteIsSeen DEF Typing!LayersInv, Typing!KeysGoToWhatIsSeen, KeysGoToWhatIsSeen
<1>4. QED
  BY <1>1, <1>2, <1>3, PTL DEF TuiSpec
==============================================================================
