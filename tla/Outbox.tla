------------------------------- MODULE Outbox -------------------------------
(***************************************************************************)
(* Sending mail: an SMTP attempt first, the outbox table when it fails,    *)
(* and the processes that drain the table: the daemon's sync_once and the  *)
(* `inbx watch` / `inbx outbox drain` loops (due rows only), the TUI's     *)
(* drain task (every row) and the TUI's outbox overlay (one row, taken     *)
(* from the list the overlay loaded when it was opened).  They all share   *)
(* the table and none of them locks a row while it sends it.               *)
(*                                                                         *)
(* Time is abstracted to whether a row's next_retry_unix has been reached. *)
(***************************************************************************)
EXTENDS Naturals, Sequences, FiniteSets

CONSTANTS
    Msgs,          \* the messages users write, all different
    Queued,        \* those that may be in the table at the start, in order
    Senders,       \* cmd_send processes and do_smtp_send tasks
    DueDrainers,   \* sync_once, drain_outbox_silent, `inbx outbox drain`
    ListDrainers,  \* do_drain_outbox
    Overlays,      \* the TUI outbox overlay
    Casts,         \* sets of these processes that may be at work together
    MaxFaults,     \* bound: crashes, database errors and lost SMTP replies
    MaxAttempts    \* bound: where the attempts counter saturates

Drainers == DueDrainers \cup ListDrainers
Processes == Senders \cup Drainers \cup Overlays

ASSUME QueuedAssumption ==
    /\ Queued \in Seq(Msgs)
    /\ \A i, j \in 1..Len(Queued) : Queued[i] = Queued[j] => i = j
ASSUME MsgsAssumption == Msgs # {}
ASSUME CastsAssumption == Casts \subseteq SUBSET Processes
ASSUME ProcessesAssumption ==
    /\ IsFiniteSet(Processes)
    /\ Senders \cap Drainers = {} /\ Senders \cap Overlays = {} /\ Drainers \cap Overlays = {}
ASSUME BoundsAssumption == MaxFaults \in Nat /\ MaxAttempts \in Nat \ {0}

VARIABLES
    rows,       \* the outbox table
    sender,     \* sender[p]: the send in progress
    drainer,    \* drainer[d]: the drain in progress
    entries,    \* entries[o]: the rows the overlay shows
    overlay,    \* overlay[o]: what the overlay is doing
    unwritten,  \* messages not written yet
    delivered,  \* ghost: delivered[m] is 0, 1 or 2 (twice or more)
    discarded,  \* ghost: messages the user deleted from the overlay
    faults      \* ghost: faults so far

vars == <<rows, sender, drainer, entries, overlay, unwritten, delivered, discarded, faults>>

----------------------------------------------------------------------------
(* The table. *)

Rows == [id : Nat \ {0}, msg : Msgs, attempts : 0..MaxAttempts, due : BOOLEAN]

RowIds == {r.id : r \in rows}

Stored(m) == \E r \in rows : r.msg = m

\* id is INTEGER PRIMARY KEY without AUTOINCREMENT: one more than the largest
\* id in the table, so the id of a deleted last row is issued again.
FreshId == CHOOSE i \in {1} \cup {j + 1 : j \in RowIds} : \A j \in RowIds : j < i

Enqueue(m) ==
    rows' = rows \cup {[id |-> FreshId, msg |-> m, attempts |-> 0, due |-> TRUE]}

Without(id) == {r \in rows : r.id # id}

\* outbox_record_failure is a SELECT and an UPDATE: the first reads attempts,
\* 0 when the row is gone; the second writes one more and a retry time ahead.
AttemptsOf(id) ==
    IF id \in RowIds THEN (CHOOSE r \in rows : r.id = id).attempts ELSE 0

PutOff(id, read) ==
    {IF r.id = id
     THEN [r EXCEPT !.attempts = IF read < MaxAttempts THEN read + 1 ELSE read, !.due = FALSE]
     ELSE r : r \in rows}

\* The next_retry_unix of a row with message m is reached.
Elapse(m) ==
    /\ \E r \in rows :
        r.msg = m /\ ~r.due /\ rows' = (rows \ {r}) \cup {[r EXCEPT !.due = TRUE]}
    /\ UNCHANGED <<sender, drainer, entries, overlay, unwritten, delivered, discarded, faults>>

Accepted(m) == delivered' = [delivered EXCEPT ![m] = IF @ < 2 THEN @ + 1 ELSE @]
Fault == faults < MaxFaults /\ faults' = faults + 1

\* The three things that can come of an SMTP attempt: accepted, refused (or no
\* connection), accepted but the reply is lost.  ok is what the sender learns.
SmtpAttempt(m, ok) ==
    \/ ok /\ Accepted(m) /\ UNCHANGED faults
    \/ ~ok /\ UNCHANGED <<delivered, faults>>
    \/ ~ok /\ Accepted(m) /\ Fault

----------------------------------------------------------------------------
(* Sending a new message. *)

NoSend == [at |-> "idle", msg |-> CHOOSE m \in Msgs : TRUE, id |-> 0, read |-> 0]

\* The processes that take part.  The others are away for the whole behaviour.
AtWork ==
    {p \in Senders : sender[p].at # "away"}
        \cup {d \in Drainers : drainer[d].at # "away"}
        \cup {o \in Overlays : overlay[o].at # "away"}

\* cmd_send and do_smtp_send try SMTP first; send_composer queues at once when
\* another task is in flight.
Submit(p) ==
    /\ sender[p].at = "idle"
    /\ \E m \in unwritten, busy \in BOOLEAN :
        /\ sender' = [sender EXCEPT ![p].msg = m,
                                    ![p].at = IF busy THEN "queue" ELSE "send"]
        /\ unwritten' = unwritten \ {m}
    /\ UNCHANGED <<rows, drainer, entries, overlay, delivered, discarded, faults>>

SendFirst(p) ==
    /\ sender[p].at = "send"
    /\ \E ok \in BOOLEAN :
        /\ SmtpAttempt(sender[p].msg, ok)
        /\ sender' = [sender EXCEPT ![p] =
                          IF ok THEN NoSend ELSE [@ EXCEPT !.at = "enqueue"]]
    /\ UNCHANGED <<rows, drainer, entries, overlay, unwritten, discarded>>

\* The message queued while busy carries no failure; one queued after a failed
\* attempt is due until the failure is recorded.
SenderEnqueue(p) ==
    /\ sender[p].at \in {"queue", "enqueue"}
    /\ Enqueue(sender[p].msg)
    /\ sender' = [sender EXCEPT ![p] =
                      IF @.at = "queue" THEN NoSend
                      ELSE [@ EXCEPT !.at = "read", !.id = FreshId]]
    /\ UNCHANGED <<drainer, entries, overlay, unwritten, delivered, discarded, faults>>

SenderRead(p) ==
    /\ sender[p].at = "read"
    /\ sender' = [sender EXCEPT ![p].at = "update", ![p].read = AttemptsOf(sender[p].id)]
    /\ UNCHANGED <<rows, drainer, entries, overlay, unwritten, delivered, discarded, faults>>

SenderUpdate(p) ==
    /\ sender[p].at = "update"
    /\ rows' = PutOff(sender[p].id, sender[p].read)
    /\ sender' = [sender EXCEPT ![p] = NoSend]
    /\ UNCHANGED <<drainer, entries, overlay, unwritten, delivered, discarded, faults>>

\* The sending process dies or the database fails it.  A message not queued
\* yet lives only in that process.
SenderCrash(p) ==
    /\ sender[p].at \notin {"idle", "away"}
    /\ Fault
    /\ sender' = [sender EXCEPT ![p] = NoSend]
    /\ UNCHANGED <<rows, drainer, entries, overlay, unwritten, delivered, discarded>>

----------------------------------------------------------------------------
(* Draining.  A drain works through the rows it read at its start. *)

NoDrain == [at |-> "idle", todo |-> {}, id |-> 0, read |-> 0]

StartDrain(d) ==
    /\ drainer[d].at = "idle"
    /\ LET todo == IF d \in DueDrainers THEN {r \in rows : r.due} ELSE rows
       IN  /\ todo # {}
           /\ drainer' = [drainer EXCEPT ![d].at = "send", ![d].todo = todo]
    /\ UNCHANGED <<rows, sender, entries, overlay, unwritten, delivered, discarded, faults>>

DrainSend(d, r, ok) ==
    /\ drainer[d].at = "send"
    /\ r \in drainer[d].todo
    /\ SmtpAttempt(r.msg, ok)
    /\ drainer' = [drainer EXCEPT ![d].todo = @ \ {r}, ![d].id = r.id,
                                  ![d].at = IF ok THEN "delete" ELSE "read"]
    /\ UNCHANGED <<rows, sender, entries, overlay, unwritten, discarded>>

\* The record of drain d after it has dealt with one row.
NextRow(d) ==
    IF drainer[d].todo = {} THEN NoDrain
    ELSE [drainer[d] EXCEPT !.at = "send", !.id = 0, !.read = 0]

\* Mutant: the row of an accepted message stays.
DrainKeep(d) ==
    /\ drainer[d].at = "delete"
    /\ drainer' = [drainer EXCEPT ![d] = NextRow(d)]
    /\ UNCHANGED <<rows, sender, entries, overlay, unwritten, delivered, discarded, faults>>

DrainDelete(d) ==
    /\ drainer[d].at = "delete"
    /\ rows' = Without(drainer[d].id)
    /\ drainer' = [drainer EXCEPT ![d] = NextRow(d)]
    /\ UNCHANGED <<sender, entries, overlay, unwritten, delivered, discarded, faults>>

DrainRead(d) ==
    /\ drainer[d].at = "read"
    /\ drainer' = [drainer EXCEPT ![d].at = "update", ![d].read = AttemptsOf(drainer[d].id)]
    /\ UNCHANGED <<rows, sender, entries, overlay, unwritten, delivered, discarded, faults>>

\* Mutant: a row is given up after its last attempt.
DrainGiveUp(d) ==
    /\ drainer[d].at = "update"
    /\ rows' = IF drainer[d].read + 1 >= MaxAttempts THEN Without(drainer[d].id)
                ELSE PutOff(drainer[d].id, drainer[d].read)
    /\ drainer' = [drainer EXCEPT ![d] = NextRow(d)]
    /\ UNCHANGED <<sender, entries, overlay, unwritten, delivered, discarded, faults>>

DrainUpdate(d) ==
    /\ drainer[d].at = "update"
    /\ rows' = PutOff(drainer[d].id, drainer[d].read)
    /\ drainer' = [drainer EXCEPT ![d] = NextRow(d)]
    /\ UNCHANGED <<sender, entries, overlay, unwritten, delivered, discarded, faults>>

\* The process dies at any point, or the database fails.  A due drain stops at
\* a database error; the TUI's drain ignores it and goes on with its next row.
DrainFault(d) ==
    /\ drainer[d].at \notin {"idle", "away"}
    /\ Fault
    /\ \/ drainer' = [drainer EXCEPT ![d] = NoDrain]
       \/ /\ d \in ListDrainers /\ drainer[d].at # "send"
          /\ drainer' = [drainer EXCEPT ![d] = NextRow(d)]
    /\ UNCHANGED <<rows, sender, entries, overlay, unwritten, delivered, discarded>>

----------------------------------------------------------------------------
(* The overlay acts on the row it shows, which was read some time ago. *)

NoOverlay == [at |-> "idle", id |-> 0, read |-> 0]

\* open_outbox, and reload_outbox after every action of the overlay.
Reload(o) == entries' = [entries EXCEPT ![o] = rows]

OpenOutbox(o) ==
    /\ overlay[o].at = "idle"
    /\ entries[o] # rows
    /\ Reload(o)
    /\ UNCHANGED <<rows, sender, drainer, overlay, unwritten, delivered, discarded, faults>>

OverlayDelete(o, r) ==
    /\ overlay[o].at = "idle"
    /\ r \in entries[o]
    /\ rows' = Without(r.id)
    /\ discarded' = discarded \cup {r.msg}
    /\ overlay' = [overlay EXCEPT ![o].at = "reload"]
    /\ UNCHANGED <<sender, drainer, entries, unwritten, delivered, faults>>

OverlaySend(o, r, ok) ==
    /\ overlay[o].at = "idle"
    /\ r \in entries[o]
    /\ SmtpAttempt(r.msg, ok)
    /\ overlay' = [overlay EXCEPT ![o].id = r.id, ![o].at = IF ok THEN "delete" ELSE "read"]
    /\ UNCHANGED <<rows, sender, drainer, entries, unwritten, discarded>>

OverlaySent(o) ==
    /\ overlay[o].at = "delete"
    /\ rows' = Without(overlay[o].id)
    /\ overlay' = [overlay EXCEPT ![o].at = "reload"]
    /\ UNCHANGED <<sender, drainer, entries, unwritten, delivered, discarded, faults>>

OverlayRead(o) ==
    /\ overlay[o].at = "read"
    /\ overlay' = [overlay EXCEPT ![o].at = "update", ![o].read = AttemptsOf(overlay[o].id)]
    /\ UNCHANGED <<rows, sender, drainer, entries, unwritten, delivered, discarded, faults>>

\* Mutant: the overlay drops the row whatever came of the attempt.
OverlayDrop(o) ==
    /\ overlay[o].at = "update"
    /\ rows' = Without(overlay[o].id)
    /\ overlay' = [overlay EXCEPT ![o].at = "reload"]
    /\ UNCHANGED <<sender, drainer, entries, unwritten, delivered, discarded, faults>>

OverlayUpdate(o) ==
    /\ overlay[o].at = "update"
    /\ rows' = PutOff(overlay[o].id, overlay[o].read)
    /\ overlay' = [overlay EXCEPT ![o].at = "reload"]
    /\ UNCHANGED <<sender, drainer, entries, unwritten, delivered, discarded, faults>>

OverlayReload(o) ==
    /\ overlay[o].at = "reload"
    /\ Reload(o)
    /\ overlay' = [overlay EXCEPT ![o] = NoOverlay]
    /\ UNCHANGED <<rows, sender, drainer, unwritten, delivered, discarded, faults>>

\* The TUI exits (a database error in an overlay action ends the event loop).
OverlayFault(o) ==
    /\ overlay[o].at \notin {"idle", "away"}
    /\ Fault
    /\ overlay' = [overlay EXCEPT ![o] = NoOverlay]
    /\ entries' = [entries EXCEPT ![o] = {}]
    /\ UNCHANGED <<rows, sender, drainer, unwritten, delivered, discarded>>

----------------------------------------------------------------------------
Init ==
    /\ \E n \in 0..Len(Queued) :
        /\ rows = {[id |-> i, msg |-> Queued[i], attempts |-> 0, due |-> TRUE] : i \in 1..n}
        /\ unwritten = {m \in Msgs : \A i \in 1..n : Queued[i] # m}
    /\ \E cast \in Casts :
        /\ sender = [p \in Senders |->
                         IF p \in cast THEN NoSend ELSE [NoSend EXCEPT !.at = "away"]]
        /\ drainer = [d \in Drainers |->
                         IF d \in cast THEN NoDrain ELSE [NoDrain EXCEPT !.at = "away"]]
        /\ overlay = [o \in Overlays |->
                         IF o \in cast THEN NoOverlay ELSE [NoOverlay EXCEPT !.at = "away"]]
    /\ entries = [o \in Overlays |-> {}]
    /\ delivered = [m \in Msgs |-> 0]
    /\ discarded = {}
    /\ faults = 0

SenderStep(p) ==
    \/ Submit(p)
    \/ SendFirst(p)
    \/ SenderEnqueue(p)
    \/ SenderRead(p)
    \/ SenderUpdate(p)
    \/ SenderCrash(p)

DrainStep(d) ==
    \/ StartDrain(d)
    \/ \E r \in drainer[d].todo, ok \in BOOLEAN : DrainSend(d, r, ok)
    \/ DrainDelete(d)
    \/ DrainRead(d)
    \/ DrainUpdate(d)
    \/ DrainFault(d)

OverlayStep(o) ==
    \/ OpenOutbox(o)
    \/ \E r \in entries[o] : OverlayDelete(o, r) \/ \E ok \in BOOLEAN : OverlaySend(o, r, ok)
    \/ OverlaySent(o)
    \/ OverlayRead(o)
    \/ OverlayUpdate(o)
    \/ OverlayReload(o)
    \/ OverlayFault(o)

\* Nothing is left to write or to send.
Finished ==
    /\ rows = {}
    /\ AtWork \cap Senders = {} \/ unwritten = {}
    /\ \A p \in AtWork \cap Senders : sender[p].at = "idle"
    /\ \A d \in AtWork \cap Drainers : drainer[d].at = "idle"
    /\ \A o \in AtWork \cap Overlays : overlay[o].at = "idle"

Next ==
    \/ \E m \in Msgs : Elapse(m)
    \/ \E p \in Senders : SenderStep(p)
    \/ \E d \in Drainers : DrainStep(d)
    \/ \E o \in Overlays : OverlayStep(o)
    \/ Finished /\ UNCHANGED vars

Spec == Init /\ [][Next]_vars

\* The daemon drains in every cycle, its steps are not suspended for ever, the
\* clock advances, and the SMTP server does not refuse the same message on
\* every one of infinitely many attempts.
Fairness ==
    /\ \A p \in Senders :
          WF_vars(SendFirst(p) \/ SenderEnqueue(p) \/ SenderRead(p) \/ SenderUpdate(p))
    /\ \A d \in DueDrainers :
          /\ WF_vars(StartDrain(d))
          /\ WF_vars(\E r \in drainer[d].todo, ok \in BOOLEAN : DrainSend(d, r, ok))
          /\ WF_vars(DrainDelete(d) \/ DrainRead(d) \/ DrainUpdate(d))
    /\ \A m \in Msgs :
          /\ WF_vars(Elapse(m))
          /\ SF_vars(\E d \in Drainers : \E r \in drainer[d].todo :
                        r.msg = m /\ DrainSend(d, r, TRUE))

FairSpec == Spec /\ Fairness

----------------------------------------------------------------------------
(* Properties *)

Sends ==
    [at : {"away", "idle", "send", "queue", "enqueue", "read", "update"},
     msg : Msgs, id : Nat, read : 0..MaxAttempts]
Drains ==
    [at : {"away", "idle", "send", "delete", "read", "update"},
     todo : SUBSET Rows, id : Nat, read : 0..MaxAttempts]
OverlayStates ==
    [at : {"away", "idle", "delete", "read", "update", "reload"}, id : Nat, read : 0..MaxAttempts]

TypeOK ==
    /\ rows \subseteq Rows
    /\ sender \in [Senders -> Sends]
    /\ drainer \in [Drainers -> Drains]
    /\ overlay \in [Overlays -> OverlayStates]
    /\ entries \in [Overlays -> SUBSET Rows]
    /\ unwritten \subseteq Msgs /\ discarded \subseteq Msgs
    /\ delivered \in [Msgs -> 0..2]
    /\ faults \in 0..MaxFaults

\* The table is finite and its ids are distinct.
TableInv == IsFiniteSet(rows) /\ \A r, q \in rows : r.id = q.id => r = q

\* While nobody adds a row, an id means one message to all who have read it; the id
\* that is about to be deleted is that of an accepted message.
Agrees(read) == \A t \in read, r \in rows : r.id = t.id => r.msg = t.msg
SentIfThere(id) == \A r \in rows : r.id = id => delivered[r.msg] > 0
QuietInv ==
    AtWork \cap Senders = {} =>
        /\ \A d \in Drainers :
              /\ Agrees(drainer[d].todo)
              /\ drainer[d].at = "delete" => SentIfThere(drainer[d].id)
        /\ \A o \in Overlays :
              /\ Agrees(entries[o])
              /\ overlay[o].at = "delete" => SentIfThere(overlay[o].id)

\* While one process alone takes rows out, those it has yet to deal with are still
\* there, so that their ids are not issued again.
Held(read) == \A t \in read : \E r \in rows : r.id = t.id /\ r.msg = t.msg
SentAndThere(id) == \E r \in rows : r.id = id /\ delivered[r.msg] > 0
SoloDrain(d) ==
    LET w == drainer[d] IN
    /\ Held(w.todo)
    /\ \A t, u \in w.todo : t.id = u.id => t = u
    /\ w.at \in {"delete", "read", "update"} => \A t \in w.todo : t.id # w.id
    /\ w.at = "delete" => SentAndThere(w.id)
SoloOverlay(o) ==
    /\ overlay[o].at = "idle" => Held(entries[o])
    /\ overlay[o].at = "delete" => SentAndThere(overlay[o].id)
OnlyDrain(x) == AtWork \ Senders = {x}
SoloInv ==
    /\ \A d \in Drainers : OnlyDrain(d) => SoloDrain(d)
    /\ \A o \in Overlays : OnlyDrain(o) => SoloOverlay(o)

\* Then, and without a fault, a message is in one place: not written yet, with the
\* sender that has not queued it, or in one row; an accepted one is at most in the
\* row that is about to be deleted.
Holds(p, m) == sender[p].at \in {"send", "queue", "enqueue"} /\ sender[p].msg = m
Deletes(x, id) ==
    \/ x \in Drainers /\ drainer[x].at = "delete" /\ drainer[x].id = id
    \/ x \in Overlays /\ overlay[x].at = "delete" /\ overlay[x].id = id
InOnePlace(m) ==
    /\ m \in unwritten =>
          delivered[m] = 0 /\ (\A p \in Senders : ~Holds(p, m)) /\ ~Stored(m)
    /\ \A p \in Senders : Holds(p, m) =>
          delivered[m] = 0 /\ (\A q \in Senders : Holds(q, m) => q = p) /\ ~Stored(m)
    /\ \A r, q \in rows : r.msg = m /\ q.msg = m => r = q
    /\ delivered[m] \in {0, 1}
OnceInv ==
    \A x \in Drainers \cup Overlays : faults = 0 /\ OnlyDrain(x) =>
        /\ \A m \in Msgs : InOnePlace(m)
        /\ \A r \in rows : delivered[r.msg] > 0 => Deletes(x, r.id)

\* A message that reached the outbox table stays in it until an SMTP server has
\* accepted it or the user deletes it there: no crash, database error, refused
\* attempt or concurrent drain takes it out.  Without AUTOINCREMENT this needs
\* one drain alone, or no new messages: a second drain's DELETE may hit the id
\* of a row it has sent after that id was issued again.
OneDrain == Cardinality(AtWork \ Senders) = 1
StoredUntilSent ==
    [][(OneDrain \/ AtWork \cap Senders = {}) =>
         \A m \in Msgs : Stored(m) /\ ~Stored(m)' => delivered[m] > 0 \/ m \in discarded']_vars

\* The promise do_smtp_send's comment makes: a message whose sending failed is
\* in the outbox so that it can be sent again, whoever else is at work.
FailedSendStaysQueued ==
    [][\A r \in rows : r.attempts > 0 /\ ~Stored(r.msg)' =>
            delivered[r.msg] > 0 \/ r.msg \in discarded']_vars

\* With a single drain at work a message is delivered twice only if a process
\* died, the database failed or an SMTP reply was lost: refused attempts,
\* retries and the sender's late failure record never duplicate it.
DuplicateNeedsFault ==
    OneDrain => \A m \in Msgs : delivered[m] > 1 => faults > 0

\* A message in the table is delivered eventually, whatever was refused before
\* and whoever else drains the table.  (Not with the overlay open: a user who
\* retries a refused message by hand again and again also keeps putting it off.)
EventuallyDelivered ==
    \A m \in Msgs : (Stored(m) /\ AtWork \cap Overlays = {}) ~> delivered[m] > 0
=============================================================================
