------------------------------ MODULE MailProofs ------------------------------
(* Theorems about what a message goes through. About Outbox: for any          *)
(* messages, processes and faults. About Threading, for any mailboxes,        *)
(* Message-IDs and processes: one process alone never closes a cycle,         *)
(* whatever References say and wherever its ingests break off; its caches     *)
(* agree between ingests; and References that name the whole path lead to one *)
(* thread, whoever ingests. About Submission, for any people and any number   *)
(* of messages: who is reached, and what References say. The three share no   *)
(* state.                                                                     *)
(*                                                                            *)
(* The ancestors of a container are computed by a recursion that is as long   *)
(* as there are Message-IDs; by then it has ended (AncestorsFacts). So they   *)
(* are the least set that has the container and, with a container, its        *)
(* parent; what a new parent does to them is a matter of sets (LinkedForest). *)
EXTENDS Outbox, Threading, Submission, FiniteFacts, SequenceTheorems

Types == TypeOK /\ TableInv

-----------------------------------------------------------------------------
(* The table *)

\* An id that is issued is above all ids of the table.
LEMMA FreshIdAbove ==
  ASSUME rows \subseteq Rows, IsFiniteSet(rows)
  PROVE  FreshId \in Nat \ {0} /\ \A r \in rows : r.id < FreshId
<1> DEFINE above == {1} \cup {j + 1 : j \in RowIds}
           next == [r \in rows |-> r.id + 1]
<1>1. above = {next[r] : r \in rows} \cup {1}
  BY DEF RowIds
<1>2. IsFiniteSet(above)
  <2>1. DOMAIN next = rows
    OBVIOUS
  <2> HIDE DEF next, above
  <2>2. IsFiniteSet({next[r] : r \in rows})
    BY <2>1, ImageFinite
  <2> QED
    BY <1>1, <2>2, FS_AddElement
<1>3. above \subseteq Nat \ {0} /\ 1 \in above
  BY DEF RowIds, Rows
<1>4. PICK top \in above : \A n \in above : n <= top
  <2> HIDE DEF above
  <2> QED
    BY <1>2, <1>3, MaxExists
<1>5. \A j \in RowIds : j \in Nat /\ j < top
  BY <1>3, <1>4 DEF RowIds, Rows
<1>6. FreshId \in above /\ \A j \in RowIds : j < FreshId
  <2>1. \E i \in above : \A j \in RowIds : j < i
    BY <1>5
  <2>2. FreshId = CHOOSE i \in above : \A j \in RowIds : j < i
    BY DEF FreshId
  <2> HIDE DEF above
  <2> QED
    BY <2>1, <2>2
<1> HIDE DEF above
<1> QED
  BY <1>3, <1>6 DEF RowIds

\* Tables with the same ids and messages.
SameRow(r, q) == r.id = q.id /\ r.msg = q.msg
Shrinks(table) == \A r \in table : \E q \in rows : SameRow(r, q)
Grows(table) == \A q \in rows : \E r \in table : SameRow(r, q)
Distinct(table) == IsFiniteSet(table) /\ \A r, q \in table : r.id = q.id => r = q

LEMMA EnqueuedRows ==
  ASSUME Types, NEW m \in Msgs, Enqueue(m)
  PROVE  /\ rows' \subseteq Rows /\ Distinct(rows') /\ Grows(rows')
         /\ \E new \in Rows : rows' = rows \cup {new} /\ new.msg = m /\ new.id = FreshId
<1> DEFINE new == [id |-> FreshId, msg |-> m, attempts |-> 0, due |-> TRUE]
<1> USE DEF Types, TypeOK, TableInv
<1>1. FreshId \in Nat \ {0} /\ \A r \in rows : r.id < FreshId /\ r.id \in Nat
  BY FreshIdAbove DEF Rows
<1>2. rows' = rows \cup {new}
  BY DEF Enqueue
<1>3. new \in Rows /\ new.msg = m /\ new.id = FreshId
  BY <1>1, BoundsAssumption DEF Rows
<1> HIDE DEF new
<1>4. IsFiniteSet(rows')
  BY <1>2, FS_AddElement
<1>5. \A r, q \in rows' : r.id = q.id => r = q
  BY <1>1, <1>2, <1>3
<1> QED
  BY <1>2, <1>3, <1>4, <1>5 DEF Distinct, Grows, SameRow

\* A table whose rows are rewritten one by one, keeping their ids and messages.
LEMMA RewrittenRows ==
  ASSUME Types, NEW f, DOMAIN f = rows,
         \A r \in rows : f[r] \in Rows /\ SameRow(f[r], r)
  PROVE  LET table == {f[r] : r \in rows}
         IN  table \subseteq Rows /\ Distinct(table) /\ Shrinks(table) /\ Grows(table)
<1> DEFINE table == {f[r] : r \in rows}
<1>1. IsFiniteSet(table)
  BY ImageFinite DEF Types, TableInv
<1>2. \A r, q \in table : r.id = q.id => r = q
  BY DEF Types, TableInv, SameRow
<1> QED
  BY <1>1, <1>2 DEF Distinct, Shrinks, Grows

LEMMA PutOffRows ==
  ASSUME Types, NEW id, NEW read \in 0..MaxAttempts, rows' = PutOff(id, read)
  PROVE  rows' \subseteq Rows /\ Distinct(rows') /\ Shrinks(rows') /\ Grows(rows')
<1> DEFINE more == IF read < MaxAttempts THEN read + 1 ELSE read
           put(r) == IF r.id = id THEN [r EXCEPT !.attempts = more, !.due = FALSE] ELSE r
           f == [r \in rows |-> put(r)]
<1>1. ASSUME NEW r \in Rows PROVE put(r) \in Rows /\ SameRow(put(r), r)
  <2>1. more \in 0..MaxAttempts
    BY BoundsAssumption
  <2> HIDE DEF more
  <2> QED
    BY <2>1 DEF Rows, SameRow
<1>2. rows' = {f[r] : r \in rows}
  BY DEF PutOff
<1>3. DOMAIN f = rows /\ \A r \in rows : f[r] \in Rows /\ SameRow(f[r], r)
  <2> HIDE DEF put
  <2> QED
    BY <1>1 DEF Types, TypeOK
<1> HIDE DEF f
<1> QED
  BY <1>2, <1>3, RewrittenRows

LEMMA ElapsedRows ==
  ASSUME Types, NEW m, Elapse(m)
  PROVE  rows' \subseteq Rows /\ Distinct(rows') /\ Shrinks(rows') /\ Grows(rows')
<1>1. PICK r \in rows : rows' = (rows \ {r}) \cup {[r EXCEPT !.due = TRUE]}
  BY DEF Elapse
<1> DEFINE new == [r EXCEPT !.due = TRUE]
           f == [q \in rows |-> IF q = r THEN new ELSE q]
<1>2. new \in Rows /\ SameRow(new, r)
  BY DEF Types, TypeOK, Rows, SameRow
<1> HIDE DEF new
<1>3. rows' = {f[q] : q \in rows}
  BY <1>1 DEF new
<1>4. DOMAIN f = rows /\ \A q \in rows : f[q] \in Rows /\ SameRow(f[q], q)
  BY <1>2 DEF Types, TypeOK, SameRow
<1> HIDE DEF f
<1> QED
  BY <1>3, <1>4, RewrittenRows

LEMMA WithoutRows ==
  ASSUME Types, NEW id, rows' = Without(id)
  PROVE  rows' \subseteq Rows /\ Distinct(rows') /\ Shrinks(rows') /\ rows' \subseteq rows
BY FS_Subset DEF Types, TypeOK, TableInv, Without, Distinct, Shrinks, SameRow

LEMMA SameTable ==
  ASSUME Types, UNCHANGED rows
  PROVE  rows' \subseteq Rows /\ Distinct(rows') /\ Shrinks(rows') /\ Grows(rows')
BY DEF Types, TypeOK, TableInv, Distinct, Shrinks, Grows, SameRow

\* attempts of a row, 0 when it is gone.
LEMMA AttemptsAreNumbers ==
  ASSUME TypeOK, NEW id
  PROVE  AttemptsOf(id) \in 0..MaxAttempts
<1>1. id \in RowIds => (CHOOSE r \in rows : r.id = id) \in rows
  BY DEF RowIds
<1>2. \A r \in rows : r.attempts \in 0..MaxAttempts
  BY DEF TypeOK, Rows
<1> QED
  BY <1>1, <1>2, BoundsAssumption DEF AttemptsOf

-----------------------------------------------------------------------------
(* Types *)

LEMMA NoTypes ==
  /\ NoSend \in Sends /\ NoSend.at = "idle" /\ [NoSend EXCEPT !.at = "away"] \in Sends
  /\ [NoSend EXCEPT !.at = "away"].at = "away"
  /\ NoDrain \in Drains /\ NoDrain.at = "idle" /\ NoDrain.todo = {}
  /\ [NoDrain EXCEPT !.at = "away"] \in Drains
  /\ [NoDrain EXCEPT !.at = "away"].at = "away" /\ [NoDrain EXCEPT !.at = "away"].todo = {}
  /\ NoOverlay \in OverlayStates /\ NoOverlay.at = "idle"
  /\ [NoOverlay EXCEPT !.at = "away"] \in OverlayStates
  /\ [NoOverlay EXCEPT !.at = "away"].at = "away"
<1>1. (CHOOSE m \in Msgs : TRUE) \in Msgs
  BY MsgsAssumption
<1>2. 0 \in 0..MaxAttempts
  BY BoundsAssumption
<1>3. /\ NoSend \in Sends /\ NoSend.at = "idle" /\ [NoSend EXCEPT !.at = "away"] \in Sends
      /\ [NoSend EXCEPT !.at = "away"].at = "away"
  BY <1>1, <1>2 DEF NoSend, Sends
<1>4. /\ NoDrain \in Drains /\ NoDrain.at = "idle" /\ NoDrain.todo = {}
      /\ [NoDrain EXCEPT !.at = "away"] \in Drains
      /\ [NoDrain EXCEPT !.at = "away"].at = "away" /\ [NoDrain EXCEPT !.at = "away"].todo = {}
  BY <1>2 DEF NoDrain, Drains
<1>5. /\ NoOverlay \in OverlayStates /\ NoOverlay.at = "idle"
      /\ [NoOverlay EXCEPT !.at = "away"] \in OverlayStates
      /\ [NoOverlay EXCEPT !.at = "away"].at = "away"
  BY <1>2 DEF NoOverlay, OverlayStates
<1> QED
  BY <1>3, <1>4, <1>5

\* The first rows of the table: one for each queued message.
LEMMA QueuedRows ==
  ASSUME NEW n \in 0..Len(Queued),
         NEW table, table = {[id |-> i, msg |-> Queued[i], attempts |-> 0, due |-> TRUE] : i \in 1..n}
  PROVE  /\ table \subseteq Rows /\ Distinct(table)
         /\ \A r \in table : r.id \in 1..n /\ r.msg = Queued[r.id]
<1> DEFINE f == [i \in 1..n |-> [id |-> i, msg |-> Queued[i], attempts |-> 0, due |-> TRUE]]
<1>1. n \in Nat /\ 1..n \subseteq 1..Len(Queued) /\ \A i \in 1..n : Queued[i] \in Msgs
  BY QueuedAssumption
<1>2. IsFiniteSet(1..n)
  BY <1>1, FS_Interval
<1>3. table = {f[i] : i \in 1..n}
  OBVIOUS
<1>4. IsFiniteSet(table)
  <2>1. DOMAIN f = 1..n
    OBVIOUS
  <2> HIDE DEF f
  <2> QED
    BY <1>2, <1>3, <2>1, ImageFinite
<1>5. table \subseteq Rows
  <2>1. 0 \in 0..MaxAttempts /\ 1..n \subseteq Nat \ {0}
    BY BoundsAssumption
  <2>2. \A i \in 1..n : [id |-> i, msg |-> Queued[i], attempts |-> 0, due |-> TRUE] \in Rows
    BY <1>1, <2>1 DEF Rows
  <2> QED
    BY <2>2
<1>6. \A r \in table : /\ r.id \in 1..n /\ r.msg = Queued[r.id]
                       /\ r = [id |-> r.id, msg |-> r.msg, attempts |-> 0, due |-> TRUE]
  OBVIOUS
<1>7. \A r, q \in table : r.id = q.id => r = q
  <2> SUFFICES ASSUME NEW r \in table, NEW q \in table, r.id = q.id PROVE r = q
    OBVIOUS
  <2> HIDE DEF f
  <2> QED
    BY <1>6
<1> QED
  BY <1>4, <1>5, <1>6, <1>7 DEF Distinct

LEMMA TypesInitially == Init => Types
<1> SUFFICES ASSUME Init PROVE Types
  OBVIOUS
<1>1. PICK n \in 0..Len(Queued) :
        /\ rows = {[id |-> i, msg |-> Queued[i], attempts |-> 0, due |-> TRUE] : i \in 1..n}
        /\ unwritten = {m \in Msgs : \A i \in 1..n : Queued[i] # m}
  BY DEF Init
<1>2. rows \subseteq Rows /\ Distinct(rows)
  BY <1>1, QueuedRows
<1>3. PICK cast \in Casts :
        /\ sender = [p \in Senders |-> IF p \in cast THEN NoSend ELSE [NoSend EXCEPT !.at = "away"]]
        /\ drainer = [d \in Drainers |-> IF d \in cast THEN NoDrain ELSE [NoDrain EXCEPT !.at = "away"]]
        /\ overlay = [o \in Overlays |-> IF o \in cast THEN NoOverlay ELSE [NoOverlay EXCEPT !.at = "away"]]
  BY DEF Init
<1>4. sender \in [Senders -> Sends] /\ drainer \in [Drainers -> Drains]
      /\ overlay \in [Overlays -> OverlayStates]
  BY <1>3, NoTypes
<1>5. faults \in 0..MaxFaults /\ delivered \in [Msgs -> 0..2]
      /\ entries \in [Overlays -> SUBSET Rows] /\ discarded \subseteq Msgs /\ unwritten \subseteq Msgs
  BY <1>1, BoundsAssumption DEF Init
<1> QED
  BY <1>1, <1>2, <1>4, <1>5 DEF Init, Types, TypeOK, TableInv, Distinct

\* What an attempt to send changes.
LEMMA AttemptTypes ==
  ASSUME TypeOK, NEW m \in Msgs, NEW ok \in BOOLEAN, SmtpAttempt(m, ok)
  PROVE  /\ delivered' \in [Msgs -> 0..2] /\ faults' \in 0..MaxFaults
         /\ \A n \in Msgs : delivered[n] <= delivered'[n]
         /\ \A n \in Msgs \ {m} : delivered'[n] = delivered[n]
         /\ faults' = 0 => faults = 0 /\ (~ok => UNCHANGED delivered)
         /\ ok => delivered'[m] > 0
         /\ delivered'[m] <= delivered[m] + 1
<1>1. delivered \in [Msgs -> 0..2] /\ faults \in 0..MaxFaults
  BY DEF TypeOK
<1>2. CASE Accepted(m)
  <2>1. /\ delivered' \in [Msgs -> 0..2]
        /\ \A n \in Msgs : delivered[n] <= delivered'[n]
        /\ \A n \in Msgs \ {m} : delivered'[n] = delivered[n]
        /\ delivered'[m] > 0
        /\ delivered'[m] <= delivered[m] + 1
    BY <1>1, <1>2 DEF Accepted
  <2>2. /\ faults' \in 0..MaxFaults
        /\ faults' = 0 => faults = 0 /\ (~ok => UNCHANGED delivered)
    BY <1>1, BoundsAssumption DEF SmtpAttempt, Fault
  <2> QED
    BY <2>1, <2>2
<1>3. CASE ~ok /\ UNCHANGED <<delivered, faults>>
  BY <1>1, <1>3
<1> QED
  BY <1>2, <1>3 DEF SmtpAttempt

\* What each step of a sender assigns.
LEMMA SenderTypes ==
  ASSUME Types, NEW p \in Senders, SenderStep(p)
  PROVE  Types'
<1> USE DEF Types, TypeOK
<1>1. sender[p] \in Sends
  OBVIOUS
<1>2. ASSUME NEW s \in Sends, sender' = [sender EXCEPT ![p] = s]
      PROVE  sender' \in [Senders -> Sends]
  BY <1>2
<1>3. CASE Submit(p)
  <2>1. PICK m \in unwritten, busy \in BOOLEAN :
           /\ sender' = [sender EXCEPT ![p].msg = m, ![p].at = IF busy THEN "queue" ELSE "send"]
           /\ unwritten' = unwritten \ {m}
    BY <1>3 DEF Submit
  <2> DEFINE s == [sender[p] EXCEPT !.msg = m, !.at = IF busy THEN "queue" ELSE "send"]
  <2>2. s \in Sends
    BY <1>1 DEF Sends
  <2>3. sender' = [sender EXCEPT ![p] = s]
    BY <2>1
  <2> HIDE DEF s
  <2> QED
    BY <1>2, <1>3, <2>1, <2>2, <2>3, SameTable DEF Submit, TableInv
<1>4. CASE SendFirst(p)
  <2>1. PICK ok \in BOOLEAN :
           /\ SmtpAttempt(sender[p].msg, ok)
           /\ sender' = [sender EXCEPT ![p] = IF ok THEN NoSend ELSE [@ EXCEPT !.at = "enqueue"]]
    BY <1>4 DEF SendFirst
  <2>2. [sender[p] EXCEPT !.at = "enqueue"] \in Sends /\ sender[p].msg \in Msgs
    BY <1>1 DEF Sends
  <2>3. sender' \in [Senders -> Sends]
    BY <1>2, <2>1, <2>2, NoTypes
  <2>4. delivered' \in [Msgs -> 0..2] /\ faults' \in 0..MaxFaults
    BY <2>1, <2>2, AttemptTypes
  <2> QED
    BY <1>4, <2>3, <2>4 DEF SendFirst, TableInv
<1>5. CASE SenderEnqueue(p)
  <2> DEFINE s == [sender[p] EXCEPT !.at = "read", !.id = FreshId]
  <2>1. sender[p].msg \in Msgs /\ FreshId \in Nat
    BY <1>1, FreshIdAbove DEF Sends, TableInv
  <2>2. s \in Sends
    BY <1>1, <2>1 DEF Sends
  <2>3. sender' = [sender EXCEPT ![p] = NoSend] \/ sender' = [sender EXCEPT ![p] = s]
    BY <1>5 DEF SenderEnqueue
  <2>4. sender' \in [Senders -> Sends]
    BY <1>2, <2>2, <2>3, NoTypes
  <2>5. rows' \subseteq Rows /\ Distinct(rows')
    BY <1>5, <2>1, EnqueuedRows DEF SenderEnqueue
  <2> QED
    BY <1>5, <2>4, <2>5 DEF SenderEnqueue, TableInv, Distinct
<1>6. CASE SenderRead(p)
  <2> DEFINE s == [sender[p] EXCEPT !.at = "update", !.read = AttemptsOf(sender[p].id)]
  <2>1. s \in Sends
    BY <1>1, AttemptsAreNumbers DEF Sends
  <2>2. sender' = [sender EXCEPT ![p] = s]
    BY <1>6 DEF SenderRead
  <2> HIDE DEF s
  <2> QED
    BY <1>2, <1>6, <2>1, <2>2 DEF SenderRead, TableInv
<1>7. CASE SenderUpdate(p)
  <2>1. rows' \subseteq Rows /\ Distinct(rows')
    BY <1>1, <1>7, PutOffRows DEF SenderUpdate, Sends
  <2> QED
    BY <1>2, <1>7, <2>1, NoTypes DEF SenderUpdate, TableInv, Distinct
<1>8. CASE SenderCrash(p)
  <2>1. faults' \in 0..MaxFaults
    BY <1>8, BoundsAssumption DEF SenderCrash, Fault
  <2> QED
    BY <1>2, <1>8, <2>1, NoTypes DEF SenderCrash, TableInv
<1> QED
  BY <1>3, <1>4, <1>5, <1>6, <1>7, <1>8 DEF SenderStep

\* The record of a drain after a row.
LEMMA NextRowIs ==
  ASSUME TypeOK, NEW d \in Drainers, drainer[d].at \notin {"idle", "away"}
  PROVE  /\ NextRow(d) \in Drains /\ NextRow(d).todo = drainer[d].todo
         /\ NextRow(d).at \in {"idle", "send"}
<1>1. drainer[d] \in Drains
  BY DEF TypeOK
<1>2. 0 \in 0..MaxAttempts
  BY BoundsAssumption
<1> DEFINE w == [drainer[d] EXCEPT !.at = "send", !.id = 0, !.read = 0]
<1>3. w \in Drains /\ w.todo = drainer[d].todo /\ w.at = "send"
  BY <1>1, <1>2 DEF Drains
<1> HIDE DEF w
<1> QED
  BY <1>3, NoTypes DEF NextRow, w

\* What a step of a drain assigns: its record w, and the rows.
LEMMA DrainTypes ==
  ASSUME Types, NEW d \in Drainers, DrainStep(d)
  PROVE  Types'
<1> USE DEF Types, TypeOK
<1>1. drainer[d] \in Drains
  OBVIOUS
<1>2. ASSUME NEW w \in Drains, drainer' = [drainer EXCEPT ![d] = w]
      PROVE  drainer' \in [Drainers -> Drains]
  BY <1>2
<1>3. CASE StartDrain(d)
  <2> DEFINE todo == IF d \in DueDrainers THEN {r \in rows : r.due} ELSE rows
             w == [drainer[d] EXCEPT !.at = "send", !.todo = todo]
  <2>1. w \in Drains
    BY <1>1 DEF Drains
  <2>2. drainer' = [drainer EXCEPT ![d] = w]
    BY <1>3 DEF StartDrain
  <2> HIDE DEF w
  <2> QED
    BY <1>2, <1>3, <2>1, <2>2 DEF StartDrain, TableInv
<1>4. ASSUME NEW r \in drainer[d].todo, NEW ok \in BOOLEAN, DrainSend(d, r, ok) PROVE Types'
  <2> DEFINE w == [drainer[d] EXCEPT !.todo = @ \ {r}, !.id = r.id, !.at = IF ok THEN "delete" ELSE "read"]
  <2>1. r \in Rows
    BY <1>1 DEF Drains
  <2>2. r.id \in Nat /\ r.msg \in Msgs
    BY <2>1 DEF Rows
  <2>3. w \in Drains
    BY <1>1, <2>2 DEF Drains
  <2>4. drainer' = [drainer EXCEPT ![d] = w]
    BY <1>4 DEF DrainSend
  <2>5. delivered' \in [Msgs -> 0..2] /\ faults' \in 0..MaxFaults
    BY <1>4, <2>2, AttemptTypes DEF DrainSend
  <2> HIDE DEF w
  <2> QED
    BY <1>2, <1>4, <2>3, <2>4, <2>5 DEF DrainSend, TableInv
<1>5. CASE DrainDelete(d)
  <2>1. rows' \subseteq Rows /\ Distinct(rows')
    BY <1>5, WithoutRows DEF DrainDelete
  <2>2. drainer' \in [Drainers -> Drains]
    BY <1>2, <1>5, NextRowIs DEF DrainDelete
  <2> QED
    BY <1>5, <2>1, <2>2 DEF DrainDelete, TableInv, Distinct
<1>6. CASE DrainRead(d)
  <2> DEFINE w == [drainer[d] EXCEPT !.at = "update", !.read = AttemptsOf(drainer[d].id)]
  <2>1. w \in Drains
    BY <1>1, AttemptsAreNumbers DEF Drains
  <2>2. drainer' = [drainer EXCEPT ![d] = w]
    BY <1>6 DEF DrainRead
  <2> HIDE DEF w
  <2> QED
    BY <1>2, <1>6, <2>1, <2>2 DEF DrainRead, TableInv
<1>7. CASE DrainUpdate(d)
  <2>1. rows' \subseteq Rows /\ Distinct(rows')
    BY <1>1, <1>7, PutOffRows DEF DrainUpdate, Drains
  <2>2. drainer' \in [Drainers -> Drains]
    BY <1>2, <1>7, NextRowIs DEF DrainUpdate
  <2> QED
    BY <1>7, <2>1, <2>2 DEF DrainUpdate, TableInv, Distinct
<1>8. CASE DrainFault(d)
  <2>1. faults' \in 0..MaxFaults
    BY <1>8, BoundsAssumption DEF DrainFault, Fault
  <2>2. drainer' \in [Drainers -> Drains]
    BY <1>2, <1>8, NextRowIs, NoTypes DEF DrainFault
  <2> QED
    BY <1>8, <2>1, <2>2 DEF DrainFault, TableInv
<1> QED
  BY <1>3, <1>4, <1>5, <1>6, <1>7, <1>8 DEF DrainStep

LEMMA OverlayTypes ==
  ASSUME Types, NEW o \in Overlays, OverlayStep(o)
  PROVE  Types'
<1> USE DEF Types, TypeOK
<1>1. overlay[o] \in OverlayStates /\ entries[o] \subseteq Rows
  OBVIOUS
<1>2. ASSUME NEW v \in OverlayStates, overlay' = [overlay EXCEPT ![o] = v]
      PROVE  overlay' \in [Overlays -> OverlayStates]
  BY <1>2
<1>3. ASSUME NEW at \in {"reload"}, overlay' = [overlay EXCEPT ![o].at = at]
      PROVE  overlay' \in [Overlays -> OverlayStates]
  <2> DEFINE v == [overlay[o] EXCEPT !.at = at]
  <2>1. v \in OverlayStates
    BY <1>1 DEF OverlayStates
  <2>2. overlay' = [overlay EXCEPT ![o] = v]
    BY <1>3
  <2> HIDE DEF v
  <2> QED
    BY <1>2, <2>1, <2>2
<1>4. CASE OpenOutbox(o)
  BY <1>4 DEF OpenOutbox, Reload, TableInv
<1>5. ASSUME NEW r \in entries[o], OverlayDelete(o, r) PROVE Types'
  <2>1. rows' \subseteq Rows /\ Distinct(rows')
    BY <1>5, WithoutRows DEF OverlayDelete
  <2>2. r.msg \in Msgs
    BY <1>1 DEF Rows
  <2> QED
    BY <1>3, <1>5, <2>1, <2>2 DEF OverlayDelete, TableInv, Distinct
<1>6. ASSUME NEW r \in entries[o], NEW ok \in BOOLEAN, OverlaySend(o, r, ok) PROVE Types'
  <2> DEFINE v == [overlay[o] EXCEPT !.id = r.id, !.at = IF ok THEN "delete" ELSE "read"]
  <2>1. r.id \in Nat /\ r.msg \in Msgs
    BY <1>1 DEF Rows
  <2>2. v \in OverlayStates
    BY <1>1, <2>1 DEF OverlayStates
  <2>3. overlay' = [overlay EXCEPT ![o] = v]
    BY <1>6 DEF OverlaySend
  <2>4. delivered' \in [Msgs -> 0..2] /\ faults' \in 0..MaxFaults
    BY <1>6, <2>1, AttemptTypes DEF OverlaySend
  <2> HIDE DEF v
  <2> QED
    BY <1>2, <1>6, <2>2, <2>3, <2>4 DEF OverlaySend, TableInv
<1>7. CASE OverlaySent(o)
  <2>1. rows' \subseteq Rows /\ Distinct(rows')
    BY <1>7, WithoutRows DEF OverlaySent
  <2> QED
    BY <1>3, <1>7, <2>1 DEF OverlaySent, TableInv, Distinct
<1>8. CASE OverlayRead(o)
  <2> DEFINE v == [overlay[o] EXCEPT !.at = "update", !.read = AttemptsOf(overlay[o].id)]
  <2>1. v \in OverlayStates
    BY <1>1, AttemptsAreNumbers DEF OverlayStates
  <2>2. overlay' = [overlay EXCEPT ![o] = v]
    BY <1>8 DEF OverlayRead
  <2> HIDE DEF v
  <2> QED
    BY <1>2, <1>8, <2>1, <2>2 DEF OverlayRead, TableInv
<1>9. CASE OverlayUpdate(o)
  <2>1. rows' \subseteq Rows /\ Distinct(rows')
    BY <1>1, <1>9, PutOffRows DEF OverlayUpdate, OverlayStates
  <2> QED
    BY <1>3, <1>9, <2>1 DEF OverlayUpdate, TableInv, Distinct
<1>10. CASE OverlayReload(o)
  BY <1>2, <1>10, NoTypes DEF OverlayReload, Reload, TableInv
<1>11. CASE OverlayFault(o)
  <2>1. faults' \in 0..MaxFaults
    BY <1>11, BoundsAssumption DEF OverlayFault, Fault
  <2> QED
    BY <1>2, <1>11, <2>1, NoTypes DEF OverlayFault, TableInv
<1> QED
  BY <1>4, <1>5, <1>6, <1>7, <1>8, <1>9, <1>10, <1>11 DEF OverlayStep

LEMMA TypesKept == Types /\ [Next]_vars => Types'
<1> SUFFICES ASSUME Types, [Next]_vars PROVE Types'
  OBVIOUS
<1>1. CASE UNCHANGED vars
  BY <1>1 DEF vars, Types, TypeOK, TableInv
<1>2. ASSUME NEW m \in Msgs, Elapse(m) PROVE Types'
  <2>1. rows' \subseteq Rows /\ Distinct(rows')
    BY <1>2, ElapsedRows
  <2> QED
    BY <1>2, <2>1 DEF Elapse, Types, TypeOK, TableInv, Distinct
<1> QED
  BY <1>1, <1>2, SenderTypes, DrainTypes, OverlayTypes DEF Next

\* Every variable keeps its type, and the ids of the table stay distinct.
THEOREM TypeCorrect == Spec => []TypeOK
<1>1. Spec => []Types
  BY TypesInitially, TypesKept, PTL DEF Spec
<1> QED
  BY <1>1, PTL DEF Types

-----------------------------------------------------------------------------
(* What the steps of an actor come to *)

\* s: the record of sender p after its step.
SenderOutcome(p, s) ==
  /\ sender[p].at # "away" /\ s.at # "away" /\ sender' = [sender EXCEPT ![p] = s]
  /\ UNCHANGED <<drainer, entries, overlay, discarded>>
  /\ \/ /\ sender[p].at = "idle"
        /\ \E m \in unwritten : s.msg = m /\ unwritten' = unwritten \ {m}
        /\ UNCHANGED <<rows, delivered, faults>>
     \/ /\ sender[p].at = "send"
        /\ \E ok \in BOOLEAN :
              /\ SmtpAttempt(sender[p].msg, ok)
              /\ ok => s.at = "idle"
              /\ ~ok => s.at = "enqueue" /\ s.msg = sender[p].msg
        /\ UNCHANGED <<rows, unwritten>>
     \/ /\ sender[p].at \in {"queue", "enqueue"} /\ s.at \in {"idle", "read"}
        /\ \E new \in Rows :
              rows' = rows \cup {new} /\ new.msg = sender[p].msg /\ new.id = FreshId
        /\ UNCHANGED <<unwritten, delivered, faults>>
     \/ /\ sender[p].at \in {"read", "update"} /\ s.at \in {"update", "idle"}
        /\ Shrinks(rows') /\ Grows(rows')
        /\ UNCHANGED <<unwritten, delivered, faults>>
     \/ /\ s.at = "idle" /\ faults' # 0
        /\ UNCHANGED <<rows, unwritten, delivered>>

LEMMA SenderForms ==
  ASSUME Types, NEW p \in Senders, SenderStep(p)
  PROVE  \E s \in Sends : SenderOutcome(p, s)
<1> USE DEF Types, TypeOK
<1>1. sender[p] \in Sends
  OBVIOUS
<1>2. CASE Submit(p)
  <2>1. PICK m \in unwritten, busy \in BOOLEAN :
           /\ sender' = [sender EXCEPT ![p].msg = m, ![p].at = IF busy THEN "queue" ELSE "send"]
           /\ unwritten' = unwritten \ {m}
    BY <1>2 DEF Submit
  <2> DEFINE s == [sender[p] EXCEPT !.msg = m, !.at = IF busy THEN "queue" ELSE "send"]
  <2>2. s \in Sends /\ s.msg = m /\ s.at # "away"
    BY <1>1 DEF Sends
  <2>3. sender' = [sender EXCEPT ![p] = s]
    BY <2>1
  <2> HIDE DEF s
  <2> QED
    BY <1>2, <2>1, <2>2, <2>3 DEF Submit, SenderOutcome
<1>3. CASE SendFirst(p)
  <2> DEFINE s == [sender[p] EXCEPT !.at = "enqueue"]
  <2>1. PICK ok \in BOOLEAN :
           /\ SmtpAttempt(sender[p].msg, ok)
           /\ sender' = [sender EXCEPT ![p] = IF ok THEN NoSend ELSE s]
    BY <1>3 DEF SendFirst
  <2>2. s \in Sends /\ s.at = "enqueue" /\ s.msg = sender[p].msg
    BY <1>1 DEF Sends
  <2> HIDE DEF s
  <2>3. (IF ok THEN NoSend ELSE s) \in Sends
    BY <2>2, NoTypes
  <2>4. SenderOutcome(p, IF ok THEN NoSend ELSE s)
    BY <1>3, <2>1, <2>2, NoTypes DEF SendFirst, SenderOutcome
  <2> QED
    BY <2>3, <2>4
<1>4. CASE SenderEnqueue(p)
  <2> DEFINE t == [sender[p] EXCEPT !.at = "read", !.id = FreshId]
             s == IF sender[p].at = "queue" THEN NoSend ELSE t
  <2>1. sender[p].msg \in Msgs /\ FreshId \in Nat
    BY <1>1, FreshIdAbove DEF Sends, TableInv
  <2>2. t \in Sends /\ t.at = "read"
    BY <1>1, <2>1 DEF Sends
  <2>3. sender' = [sender EXCEPT ![p] = s]
    BY <1>4 DEF SenderEnqueue
  <2>4. \E new \in Rows : rows' = rows \cup {new} /\ new.msg = sender[p].msg /\ new.id = FreshId
    BY <1>4, <2>1, EnqueuedRows DEF SenderEnqueue
  <2> HIDE DEF t
  <2>5. s \in Sends /\ s.at \in {"idle", "read"}
    BY <2>2, NoTypes
  <2> HIDE DEF s
  <2> QED
    BY <1>4, <2>3, <2>4, <2>5 DEF SenderEnqueue, SenderOutcome
<1>5. CASE SenderRead(p)
  <2> DEFINE s == [sender[p] EXCEPT !.at = "update", !.read = AttemptsOf(sender[p].id)]
  <2>1. s \in Sends /\ s.at = "update"
    BY <1>1, AttemptsAreNumbers DEF Sends
  <2>2. sender' = [sender EXCEPT ![p] = s]
    BY <1>5 DEF SenderRead
  <2>3. Shrinks(rows') /\ Grows(rows')
    BY <1>5, SameTable DEF SenderRead
  <2> HIDE DEF s
  <2> QED
    BY <1>5, <2>1, <2>2, <2>3 DEF SenderRead, SenderOutcome
<1>6. CASE SenderUpdate(p)
  <2>1. Shrinks(rows') /\ Grows(rows')
    BY <1>1, <1>6, PutOffRows DEF SenderUpdate, Sends
  <2> QED
    BY <1>6, <2>1, NoTypes DEF SenderUpdate, SenderOutcome
<1>7. CASE SenderCrash(p)
  <2>1. faults' # 0
    BY <1>7 DEF SenderCrash, Fault
  <2> QED
    BY <1>7, <2>1, NoTypes DEF SenderCrash, SenderOutcome
<1> QED
  BY <1>2, <1>3, <1>4, <1>5, <1>6, <1>7 DEF SenderStep

\* w: the record of drain d after its step.
DrainOutcome(d, w) ==
  LET old == drainer[d] IN
  /\ old.at # "away" /\ w.at # "away" /\ drainer' = [drainer EXCEPT ![d] = w]
  /\ UNCHANGED <<sender, entries, overlay, unwritten, discarded>>
  /\ \/ /\ old.at = "idle" /\ w.todo \subseteq rows /\ w.at = "send"
        /\ UNCHANGED <<rows, delivered, faults>>
     \/ /\ old.at = "send"
        /\ \E r \in old.todo, ok \in BOOLEAN :
              /\ SmtpAttempt(r.msg, ok)
              /\ w.todo = old.todo \ {r} /\ w.id = r.id
              /\ w.at = IF ok THEN "delete" ELSE "read"
        /\ UNCHANGED rows
     \/ /\ old.at = "delete" /\ w.at \in {"idle", "send"} /\ w.todo = old.todo
        /\ rows' = Without(old.id)
        /\ UNCHANGED <<delivered, faults>>
     \/ /\ old.at = "read" /\ w.at = "update" /\ w.todo = old.todo /\ w.id = old.id
        /\ UNCHANGED <<rows, delivered, faults>>
     \/ /\ old.at = "update" /\ w.at \in {"idle", "send"} /\ w.todo = old.todo
        /\ Shrinks(rows') /\ Grows(rows')
        /\ UNCHANGED <<delivered, faults>>
     \/ /\ w.at \in {"idle", "send"} /\ w.todo \subseteq old.todo /\ faults' # 0
        /\ UNCHANGED <<rows, delivered>>

LEMMA DrainForms ==
  ASSUME Types, NEW d \in Drainers, DrainStep(d)
  PROVE  \E w \in Drains : DrainOutcome(d, w)
<1> USE DEF Types, TypeOK
<1>1. drainer[d] \in Drains
  OBVIOUS
<1>2. CASE StartDrain(d)
  <2> DEFINE todo == IF d \in DueDrainers THEN {r \in rows : r.due} ELSE rows
             w == [drainer[d] EXCEPT !.at = "send", !.todo = todo]
  <2>1. w \in Drains /\ w.at = "send" /\ w.todo \subseteq rows
    BY <1>1 DEF Drains
  <2>2. drainer' = [drainer EXCEPT ![d] = w]
    BY <1>2 DEF StartDrain
  <2> HIDE DEF w
  <2> QED
    BY <1>2, <2>1, <2>2 DEF StartDrain, DrainOutcome
<1>3. ASSUME NEW r \in drainer[d].todo, NEW ok \in BOOLEAN, DrainSend(d, r, ok)
      PROVE  \E w \in Drains : DrainOutcome(d, w)
  <2> DEFINE w == [drainer[d] EXCEPT !.todo = @ \ {r}, !.id = r.id, !.at = IF ok THEN "delete" ELSE "read"]
  <2>1. r.id \in Nat
    BY <1>1 DEF Drains, Rows
  <2>2. /\ w \in Drains /\ w.todo = drainer[d].todo \ {r} /\ w.id = r.id
        /\ w.at = IF ok THEN "delete" ELSE "read"
    BY <1>1, <2>1 DEF Drains
  <2>3. drainer' = [drainer EXCEPT ![d] = w]
    BY <1>3 DEF DrainSend
  <2> HIDE DEF w
  <2>4. /\ drainer[d].at = "send" /\ SmtpAttempt(r.msg, ok) /\ w.at # "away"
        /\ UNCHANGED <<sender, entries, overlay, unwritten, discarded, rows>>
    BY <1>3, <2>2 DEF DrainSend
  <2>5. DrainOutcome(d, w)
    BY <2>2, <2>3, <2>4 DEF DrainOutcome
  <2> QED
    BY <2>2, <2>5
<1>4. CASE DrainDelete(d)
  <2>1. /\ NextRow(d) \in Drains /\ NextRow(d).todo = drainer[d].todo
        /\ NextRow(d).at \in {"idle", "send"}
    BY <1>4, NextRowIs DEF DrainDelete
  <2> QED
    BY <1>4, <2>1 DEF DrainDelete, DrainOutcome
<1>5. CASE DrainRead(d)
  <2> DEFINE w == [drainer[d] EXCEPT !.at = "update", !.read = AttemptsOf(drainer[d].id)]
  <2>1. w \in Drains /\ w.at = "update" /\ w.todo = drainer[d].todo /\ w.id = drainer[d].id
    BY <1>1, AttemptsAreNumbers DEF Drains
  <2>2. drainer' = [drainer EXCEPT ![d] = w]
    BY <1>5 DEF DrainRead
  <2> HIDE DEF w
  <2> QED
    BY <1>5, <2>1, <2>2 DEF DrainRead, DrainOutcome
<1>6. CASE DrainUpdate(d)
  <2>1. /\ NextRow(d) \in Drains /\ NextRow(d).todo = drainer[d].todo
        /\ NextRow(d).at \in {"idle", "send"}
    BY <1>6, NextRowIs DEF DrainUpdate
  <2>2. Shrinks(rows') /\ Grows(rows')
    BY <1>1, <1>6, PutOffRows DEF DrainUpdate, Drains
  <2> QED
    BY <1>6, <2>1, <2>2 DEF DrainUpdate, DrainOutcome
<1>7. CASE DrainFault(d)
  <2>1. faults' # 0 /\ drainer[d].at \notin {"idle", "away"}
    BY <1>7 DEF DrainFault, Fault
  <2>2. CASE drainer' = [drainer EXCEPT ![d] = NoDrain]
    BY <1>7, <2>1, <2>2, NoTypes DEF DrainFault, DrainOutcome
  <2>3. CASE drainer' = [drainer EXCEPT ![d] = NextRow(d)]
    <3>1. /\ NextRow(d) \in Drains /\ NextRow(d).todo = drainer[d].todo
          /\ NextRow(d).at \in {"idle", "send"}
      BY <2>1, NextRowIs
    <3> QED
      BY <1>7, <2>1, <2>3, <3>1 DEF DrainFault, DrainOutcome
  <2> QED
    BY <1>7, <2>2, <2>3 DEF DrainFault
<1> QED
  BY <1>2, <1>3, <1>4, <1>5, <1>6, <1>7 DEF DrainStep

\* v and shown: the state of overlay o and the rows it shows after its step.
OverlayOutcome(o, v, shown) ==
  LET old == overlay[o] IN
  /\ old.at # "away" /\ v.at # "away" /\ overlay' = [overlay EXCEPT ![o] = v]
  /\ entries' = [entries EXCEPT ![o] = shown]
  /\ UNCHANGED <<sender, drainer, unwritten>>
  /\ \/ /\ old.at \in {"idle", "reload"} /\ v.at = "idle" /\ shown = rows
        /\ UNCHANGED <<rows, delivered, discarded, faults>>
     \/ /\ old.at = "idle" /\ v.at = "reload" /\ shown = entries[o]
        /\ \E r \in entries[o] : rows' = Without(r.id) /\ discarded' = discarded \cup {r.msg}
        /\ UNCHANGED <<delivered, faults>>
     \/ /\ old.at = "idle" /\ shown = entries[o]
        /\ \E r \in entries[o], ok \in BOOLEAN :
              /\ SmtpAttempt(r.msg, ok)
              /\ v.id = r.id /\ v.at = IF ok THEN "delete" ELSE "read"
        /\ UNCHANGED <<rows, discarded>>
     \/ /\ old.at = "delete" /\ v.at = "reload" /\ shown = entries[o]
        /\ rows' = Without(old.id)
        /\ UNCHANGED <<delivered, discarded, faults>>
     \/ /\ old.at \in {"read", "update"} /\ v.at \in {"update", "reload"} /\ shown = entries[o]
        /\ Shrinks(rows') /\ Grows(rows')
        /\ UNCHANGED <<delivered, discarded, faults>>
     \/ /\ v.at = "idle" /\ shown = {} /\ faults' # 0
        /\ UNCHANGED <<rows, delivered, discarded>>

LEMMA OverlayForms ==
  ASSUME Types, NEW o \in Overlays, OverlayStep(o)
  PROVE  \E v \in OverlayStates, shown \in SUBSET Rows : OverlayOutcome(o, v, shown)
<1> USE DEF Types, TypeOK
<1>1. overlay[o] \in OverlayStates /\ entries[o] \in SUBSET Rows /\ rows \in SUBSET Rows
      /\ {} \in SUBSET Rows
  OBVIOUS
<1>2. entries = [entries EXCEPT ![o] = entries[o]] /\ overlay = [overlay EXCEPT ![o] = overlay[o]]
  OBVIOUS
<1>3. ASSUME NEW at \in {"reload"}, overlay' = [overlay EXCEPT ![o].at = at]
      PROVE  \E v \in OverlayStates : v.at = at /\ overlay' = [overlay EXCEPT ![o] = v]
  <2> DEFINE v == [overlay[o] EXCEPT !.at = at]
  <2>1. v \in OverlayStates /\ v.at = at
    BY <1>1 DEF OverlayStates
  <2>2. overlay' = [overlay EXCEPT ![o] = v]
    BY <1>3
  <2> HIDE DEF v
  <2> QED
    BY <2>1, <2>2
<1>4. CASE OpenOutbox(o)
  <2>1. OverlayOutcome(o, overlay[o], rows)
    BY <1>2, <1>4 DEF OpenOutbox, Reload, OverlayOutcome
  <2> QED
    BY <1>1, <2>1
<1>5. ASSUME NEW r \in entries[o], OverlayDelete(o, r)
      PROVE  \E v \in OverlayStates, shown \in SUBSET Rows : OverlayOutcome(o, v, shown)
  <2>1. PICK v \in OverlayStates : v.at = "reload" /\ overlay' = [overlay EXCEPT ![o] = v]
    BY <1>3, <1>5 DEF OverlayDelete
  <2>2. OverlayOutcome(o, v, entries[o])
    BY <1>2, <1>5, <2>1 DEF OverlayDelete, OverlayOutcome
  <2> QED
    BY <1>1, <2>2
<1>6. ASSUME NEW r \in entries[o], NEW ok \in BOOLEAN, OverlaySend(o, r, ok)
      PROVE  \E v \in OverlayStates, shown \in SUBSET Rows : OverlayOutcome(o, v, shown)
  <2> DEFINE v == [overlay[o] EXCEPT !.id = r.id, !.at = IF ok THEN "delete" ELSE "read"]
  <2>1. r.id \in Nat
    BY <1>1 DEF Rows
  <2>2. v \in OverlayStates /\ v.id = r.id /\ v.at = IF ok THEN "delete" ELSE "read"
    BY <1>1, <2>1 DEF OverlayStates
  <2>3. overlay' = [overlay EXCEPT ![o] = v]
    BY <1>6 DEF OverlaySend
  <2> HIDE DEF v
  <2>4. OverlayOutcome(o, v, entries[o])
    BY <1>2, <1>6, <2>2, <2>3 DEF OverlaySend, OverlayOutcome
  <2> QED
    BY <1>1, <2>2, <2>4
<1>7. CASE OverlaySent(o)
  <2>1. PICK v \in OverlayStates : v.at = "reload" /\ overlay' = [overlay EXCEPT ![o] = v]
    BY <1>3, <1>7 DEF OverlaySent
  <2>2. OverlayOutcome(o, v, entries[o])
    BY <1>2, <1>7, <2>1 DEF OverlaySent, OverlayOutcome
  <2> QED
    BY <1>1, <2>2
<1>8. CASE OverlayRead(o)
  <2> DEFINE v == [overlay[o] EXCEPT !.at = "update", !.read = AttemptsOf(overlay[o].id)]
  <2>1. v \in OverlayStates /\ v.at = "update"
    BY <1>1, AttemptsAreNumbers DEF OverlayStates
  <2>2. overlay' = [overlay EXCEPT ![o] = v]
    BY <1>8 DEF OverlayRead
  <2>3. Shrinks(rows') /\ Grows(rows')
    BY <1>8, SameTable DEF OverlayRead
  <2> HIDE DEF v
  <2>4. OverlayOutcome(o, v, entries[o])
    BY <1>2, <1>8, <2>1, <2>2, <2>3 DEF OverlayRead, OverlayOutcome
  <2> QED
    BY <1>1, <2>1, <2>4
<1>9. CASE OverlayUpdate(o)
  <2>1. PICK v \in OverlayStates : v.at = "reload" /\ overlay' = [overlay EXCEPT ![o] = v]
    BY <1>3, <1>9 DEF OverlayUpdate
  <2>2. Shrinks(rows') /\ Grows(rows')
    BY <1>1, <1>9, PutOffRows DEF OverlayUpdate, OverlayStates
  <2>3. OverlayOutcome(o, v, entries[o])
    BY <1>2, <1>9, <2>1, <2>2 DEF OverlayUpdate, OverlayOutcome
  <2> QED
    BY <1>1, <2>3
<1>10. CASE OverlayReload(o)
  <2>1. OverlayOutcome(o, NoOverlay, rows)
    BY <1>10, NoTypes DEF OverlayReload, Reload, OverlayOutcome
  <2> QED
    BY <1>1, <2>1, NoTypes
<1>11. CASE OverlayFault(o)
  <2>1. faults' # 0
    BY <1>11 DEF OverlayFault, Fault
  <2>2. OverlayOutcome(o, NoOverlay, {})
    BY <1>11, <2>1, NoTypes DEF OverlayFault, OverlayOutcome
  <2> QED
    BY <1>1, <2>2, NoTypes
<1> QED
  BY <1>4, <1>5, <1>6, <1>7, <1>8, <1>9, <1>10, <1>11 DEF OverlayStep

\* The four kinds of steps.
LEMMA StepForms ==
  ASSUME Types, [Next]_vars
  PROVE  \/ UNCHANGED vars
         \/ \E m \in Msgs : Elapse(m)
         \/ \E p \in Senders : \E s \in Sends : SenderOutcome(p, s)
         \/ \E d \in Drainers : \E w \in Drains : DrainOutcome(d, w)
         \/ \E o \in Overlays : \E v \in OverlayStates, shown \in SUBSET Rows :
               OverlayOutcome(o, v, shown)
BY SenderForms, DrainForms, OverlayForms DEF Next

\* Nobody comes or goes during a behaviour.
LEMMA PresentKept == ASSUME Types, [Next]_vars PROVE AtWork' = AtWork
<1> USE DEF Types, TypeOK, AtWork
<1>1. CASE UNCHANGED <<sender, drainer, overlay>>
  BY <1>1
<1>2. ASSUME NEW p \in Senders, NEW s \in Sends, SenderOutcome(p, s) PROVE AtWork' = AtWork
  BY <1>2 DEF SenderOutcome
<1>3. ASSUME NEW d \in Drainers, NEW w \in Drains, DrainOutcome(d, w) PROVE AtWork' = AtWork
  BY <1>3 DEF DrainOutcome
<1>4. ASSUME NEW o \in Overlays, NEW v \in OverlayStates, NEW shown \in SUBSET Rows,
             OverlayOutcome(o, v, shown)
      PROVE  AtWork' = AtWork
  BY <1>4 DEF OverlayOutcome
<1> QED
  BY <1>1, <1>2, <1>3, <1>4, StepForms DEF vars, Elapse

-----------------------------------------------------------------------------
(* Without new messages, an id means one message *)

AgreesIn(table, read) == \A t \in read, r \in table : r.id = t.id => r.msg = t.msg

LEMMA QuietInitially == Init => QuietInv
<1> SUFFICES ASSUME Init PROVE QuietInv
  OBVIOUS
<1>1. /\ \A d \in Drainers : drainer[d].todo = {} /\ drainer[d].at \in {"idle", "away"}
      /\ \A o \in Overlays : entries[o] = {} /\ overlay[o].at \in {"idle", "away"}
  BY NoTypes DEF Init
<1> QED
  BY <1>1 DEF QuietInv, Agrees

LEMMA QuietKept == ASSUME Types, QuietInv, [Next]_vars PROVE QuietInv'
<1> SUFFICES ASSUME AtWork \cap Senders = {} PROVE QuietInv'
  BY PresentKept DEF QuietInv
<1> USE DEF Types, TypeOK
<1>1. /\ \A d \in Drainers :
            /\ AgreesIn(rows, drainer[d].todo)
            /\ drainer[d].at = "delete" => SentIfThere(drainer[d].id)
      /\ \A o \in Overlays :
            /\ AgreesIn(rows, entries[o])
            /\ overlay[o].at = "delete" => SentIfThere(overlay[o].id)
  BY DEF QuietInv, Agrees, AgreesIn
<1>2. ASSUME NEW read, AgreesIn(rows, read), Shrinks(rows') PROVE AgreesIn(rows', read)
  BY <1>2 DEF AgreesIn, Shrinks, SameRow
<1>3. ASSUME NEW id, SentIfThere(id), Shrinks(rows'), \A m \in Msgs : delivered[m] <= delivered'[m],
             delivered' \in [Msgs -> 0..2]
      PROVE  \A r \in rows' : r.id = id => delivered'[r.msg] > 0
  <2> SUFFICES ASSUME NEW r \in rows', r.id = id PROVE delivered'[r.msg] > 0
    OBVIOUS
  <2>1. PICK q \in rows : r.id = q.id /\ r.msg = q.msg
    BY <1>3 DEF Shrinks, SameRow
  <2>2. q.msg \in Msgs /\ delivered[q.msg] > 0
    BY <1>3, <2>1 DEF SentIfThere, Rows
  <2> QED
    BY <1>3, <2>1, <2>2
<1>4. ASSUME \A d \in Drainers :
                /\ AgreesIn(rows', drainer'[d].todo)
                /\ drainer'[d].at = "delete" =>
                      \A r \in rows' : r.id = drainer'[d].id => delivered'[r.msg] > 0,
             \A o \in Overlays :
                /\ AgreesIn(rows', entries'[o])
                /\ overlay'[o].at = "delete" =>
                      \A r \in rows' : r.id = overlay'[o].id => delivered'[r.msg] > 0
      PROVE  QuietInv'
  <2>1. ASSUME NEW d \in Drainers
        PROVE  Agrees(drainer[d].todo)' /\ (drainer'[d].at = "delete" => SentIfThere(drainer[d].id)')
    BY <1>4 DEF AgreesIn, Agrees, SentIfThere
  <2>2. ASSUME NEW o \in Overlays
        PROVE  Agrees(entries[o])' /\ (overlay'[o].at = "delete" => SentIfThere(overlay[o].id)')
    BY <1>4 DEF AgreesIn, Agrees, SentIfThere
  <2> QED
    BY <2>1, <2>2 DEF QuietInv
<1>5. CASE UNCHANGED vars
  BY <1>5 DEF vars, QuietInv, Agrees, SentIfThere, AtWork
<1>6. ASSUME NEW m \in Msgs, Elapse(m) PROVE QuietInv'
  <2>1. Shrinks(rows') /\ UNCHANGED <<drainer, entries, overlay, delivered>>
    BY <1>6, ElapsedRows DEF Elapse
  <2>2. \A n \in Msgs : delivered[n] <= delivered'[n] /\ delivered' \in [Msgs -> 0..2]
    BY <2>1
  <2> QED
    BY <1>1, <1>2, <1>3, <2>1, <2>2 DEF QuietInv, Agrees, AgreesIn, SentIfThere
<1>7. ASSUME NEW p \in Senders, NEW s \in Sends, SenderOutcome(p, s) PROVE FALSE
  BY <1>7 DEF SenderOutcome, AtWork
<1>8. ASSUME NEW d \in Drainers, NEW w \in Drains, DrainOutcome(d, w) PROVE QuietInv'
  <2>1. /\ drainer[d] \in Drains /\ drainer' = [drainer EXCEPT ![d] = w]
        /\ UNCHANGED <<entries, overlay>>
    BY <1>8 DEF DrainOutcome
  <2>2. Shrinks(rows')
    BY <1>8, SameTable, WithoutRows DEF DrainOutcome
  <2>3. (\A m \in Msgs : delivered[m] <= delivered'[m]) /\ delivered' \in [Msgs -> 0..2]
    <3>1. CASE UNCHANGED delivered
      BY <3>1
    <3>2. ASSUME NEW r \in drainer[d].todo, NEW ok \in BOOLEAN, SmtpAttempt(r.msg, ok)
          PROVE  (\A m \in Msgs : delivered[m] <= delivered'[m]) /\ delivered' \in [Msgs -> 0..2]
      BY <2>1, <3>2, AttemptTypes DEF Drains, Rows
    <3> QED
      BY <1>8, <3>1, <3>2 DEF DrainOutcome
  <2>4. AgreesIn(rows', w.todo)
    <3>1. CASE w.todo \subseteq drainer[d].todo
      BY <1>1, <1>2, <2>2, <3>1 DEF AgreesIn
    <3>2. CASE w.todo \subseteq rows /\ UNCHANGED rows
      BY <3>2 DEF AgreesIn, TableInv
    <3> QED
      BY <1>8, <3>1, <3>2 DEF DrainOutcome
  <2>5. ASSUME w.at = "delete", NEW q \in rows', q.id = w.id PROVE delivered'[q.msg] > 0
    <3>1. PICK r \in drainer[d].todo, ok \in BOOLEAN :
             /\ SmtpAttempt(r.msg, ok) /\ w.id = r.id /\ UNCHANGED rows
             /\ w.at = IF ok THEN "delete" ELSE "read"
      BY <1>8, <2>5 DEF DrainOutcome
    <3>2. ok /\ r.msg \in Msgs /\ q.msg = r.msg
      BY <1>1, <2>1, <2>5, <3>1 DEF AgreesIn, Drains, Rows
    <3> QED
      BY <3>1, <3>2, AttemptTypes
  <2>6. \A e \in Drainers : /\ AgreesIn(rows', drainer'[e].todo)
                            /\ drainer'[e].at = "delete" =>
                                  \A r \in rows' : r.id = drainer'[e].id => delivered'[r.msg] > 0
    BY <1>1, <1>2, <1>3, <2>1, <2>2, <2>3, <2>4, <2>5
  <2>7. \A o \in Overlays : /\ AgreesIn(rows', entries'[o])
                            /\ overlay'[o].at = "delete" =>
                                  \A r \in rows' : r.id = overlay'[o].id => delivered'[r.msg] > 0
    BY <1>1, <1>2, <1>3, <2>1, <2>2, <2>3
  <2> QED
    BY <1>4, <2>6, <2>7
<1>9. ASSUME NEW o \in Overlays, NEW v \in OverlayStates, NEW shown \in SUBSET Rows,
             OverlayOutcome(o, v, shown)
      PROVE  QuietInv'
  <2>1. /\ overlay' = [overlay EXCEPT ![o] = v] /\ entries' = [entries EXCEPT ![o] = shown]
        /\ UNCHANGED drainer
    BY <1>9 DEF OverlayOutcome
  <2>2. Shrinks(rows')
    BY <1>9, SameTable, WithoutRows DEF OverlayOutcome
  <2>3. (\A m \in Msgs : delivered[m] <= delivered'[m]) /\ delivered' \in [Msgs -> 0..2]
    <3>1. CASE UNCHANGED delivered
      BY <3>1
    <3>2. ASSUME NEW r \in entries[o], NEW ok \in BOOLEAN, SmtpAttempt(r.msg, ok)
          PROVE  (\A m \in Msgs : delivered[m] <= delivered'[m]) /\ delivered' \in [Msgs -> 0..2]
      BY <3>2, AttemptTypes DEF Rows
    <3> QED
      BY <1>9, <3>1, <3>2 DEF OverlayOutcome
  <2>4. AgreesIn(rows', shown)
    <3>1. CASE shown \subseteq entries[o]
      BY <1>1, <1>2, <2>2, <3>1 DEF AgreesIn
    <3>2. CASE shown = rows /\ UNCHANGED rows
      BY <3>2 DEF AgreesIn, TableInv
    <3> QED
      BY <1>9, <3>1, <3>2 DEF OverlayOutcome
  <2>5. ASSUME v.at = "delete", NEW q \in rows', q.id = v.id PROVE delivered'[q.msg] > 0
    <3>1. PICK r \in entries[o], ok \in BOOLEAN :
             /\ SmtpAttempt(r.msg, ok) /\ v.id = r.id /\ UNCHANGED rows
             /\ v.at = IF ok THEN "delete" ELSE "read"
      BY <1>9, <2>5 DEF OverlayOutcome
    <3>2. ok /\ r.msg \in Msgs /\ q.msg = r.msg
      BY <1>1, <2>5, <3>1 DEF AgreesIn, Rows
    <3> QED
      BY <3>1, <3>2, AttemptTypes
  <2>6. \A e \in Overlays : /\ AgreesIn(rows', entries'[e])
                            /\ overlay'[e].at = "delete" =>
                                  \A r \in rows' : r.id = overlay'[e].id => delivered'[r.msg] > 0
    BY <1>1, <1>2, <1>3, <2>1, <2>2, <2>3, <2>4, <2>5
  <2>7. \A d \in Drainers : /\ AgreesIn(rows', drainer'[d].todo)
                            /\ drainer'[d].at = "delete" =>
                                  \A r \in rows' : r.id = drainer'[d].id => delivered'[r.msg] > 0
    BY <1>1, <1>2, <1>3, <2>1, <2>2, <2>3
  <2> QED
    BY <1>4, <2>6, <2>7
<1> QED
  BY <1>5, <1>6, <1>7, <1>8, <1>9, StepForms

-----------------------------------------------------------------------------
(* One process alone that takes rows out *)

\* Nobody else drains.
LEMMA OnlyOneDrains ==
  ASSUME NEW x, OnlyDrain(x)
  PROVE  /\ x \in Drainers \cup Overlays
         /\ \A d \in Drainers : drainer[d].at # "away" => d = x
         /\ \A o \in Overlays : overlay[o].at # "away" => o = x
BY ProcessesAssumption DEF OnlyDrain, AtWork

LEMMA SoloInitially == Init => SoloInv
<1> SUFFICES ASSUME Init PROVE SoloInv
  OBVIOUS
<1>1. /\ \A d \in Drainers : drainer[d].todo = {} /\ drainer[d].at \in {"idle", "away"}
      /\ \A o \in Overlays : entries[o] = {} /\ overlay[o].at \in {"idle", "away"}
  BY NoTypes DEF Init
<1> QED
  BY <1>1 DEF SoloInv, SoloDrain, SoloOverlay, Held

HeldIn(table, read) == \A t \in read : \E r \in table : r.id = t.id /\ r.msg = t.msg

LEMMA SoloKept == ASSUME Types, SoloInv, [Next]_vars PROVE SoloInv'
<1> USE DEF Types, TypeOK
<1>1. ASSUME NEW read, HeldIn(rows, read), Grows(rows') PROVE HeldIn(rows', read)
  BY <1>1 DEF HeldIn, Grows, SameRow
<1>2. ASSUME NEW id, SentAndThere(id), Grows(rows'), \A m \in Msgs : delivered[m] <= delivered'[m],
             delivered' \in [Msgs -> 0..2]
      PROVE  \E r \in rows' : r.id = id /\ delivered'[r.msg] > 0
  <2>1. PICK q \in rows : q.id = id /\ delivered[q.msg] > 0
    BY <1>2 DEF SentAndThere
  <2>2. PICK r \in rows' : r.id = q.id /\ r.msg = q.msg
    BY <1>2 DEF Grows, SameRow
  <2>3. q.msg \in Msgs
    BY DEF Rows
  <2>4. delivered'[r.msg] > 0
    BY <1>2, <2>1, <2>2, <2>3
  <2> QED
    BY <2>1, <2>2, <2>4
<1>3. CASE UNCHANGED vars
  BY <1>3 DEF vars, SoloInv, SoloDrain, SoloOverlay, Held, SentAndThere, OnlyDrain, AtWork
\* A step of somebody else.
<1>4. ASSUME Grows(rows'), \A m \in Msgs : delivered[m] <= delivered'[m],
             delivered' \in [Msgs -> 0..2], UNCHANGED <<drainer, entries, overlay>>
      PROVE  SoloInv'
  <2>1. ASSUME NEW d \in Drainers, OnlyDrain(d) PROVE SoloDrain(d)'
    <3>1. SoloDrain(d)
      BY <2>1 DEF SoloInv
    <3> QED
      BY <1>1, <1>2, <1>4, <3>1 DEF SoloDrain, Held, HeldIn, SentAndThere
  <2>2. ASSUME NEW o \in Overlays, OnlyDrain(o) PROVE SoloOverlay(o)'
    <3>1. SoloOverlay(o)
      BY <2>2 DEF SoloInv
    <3> QED
      BY <1>1, <1>2, <1>4, <3>1 DEF SoloOverlay, Held, HeldIn, SentAndThere
  <2> QED
    BY <2>1, <2>2, PresentKept DEF SoloInv, OnlyDrain
<1>5. ASSUME NEW m \in Msgs, Elapse(m) PROVE SoloInv'
  <2>1. Grows(rows') /\ UNCHANGED <<drainer, entries, overlay, delivered>>
    BY <1>5, ElapsedRows DEF Elapse
  <2>2. \A n \in Msgs : delivered[n] <= delivered'[n] /\ delivered' \in [Msgs -> 0..2]
    BY <2>1
  <2> QED
    BY <1>4, <2>1, <2>2
<1>6. ASSUME NEW p \in Senders, NEW s \in Sends, SenderOutcome(p, s) PROVE SoloInv'
  <2>1. UNCHANGED <<drainer, entries, overlay>>
    BY <1>6 DEF SenderOutcome
  <2>2. Grows(rows')
    <3>1. ASSUME NEW new, rows' = rows \cup {new} PROVE Grows(rows')
      BY <3>1 DEF Grows, SameRow
    <3> QED
      BY <1>6, <3>1, SameTable DEF SenderOutcome
  <2>3. (\A m \in Msgs : delivered[m] <= delivered'[m]) /\ delivered' \in [Msgs -> 0..2]
    <3>1. CASE UNCHANGED delivered
      BY <3>1
    <3>2. ASSUME NEW ok \in BOOLEAN, SmtpAttempt(sender[p].msg, ok)
          PROVE  (\A m \in Msgs : delivered[m] <= delivered'[m]) /\ delivered' \in [Msgs -> 0..2]
      BY <3>2, AttemptTypes DEF Sends
    <3> QED
      BY <1>6, <3>1, <3>2 DEF SenderOutcome
  <2> QED
    BY <1>4, <2>1, <2>2, <2>3
<1>7. ASSUME NEW d \in Drainers, NEW w \in Drains, DrainOutcome(d, w) PROVE SoloInv'
  <2> SUFFICES ASSUME OnlyDrain(d), SoloDrain(d) PROVE SoloDrain(d)'
    BY <1>7, OnlyOneDrains, PresentKept, ProcessesAssumption DEF SoloInv, OnlyDrain, DrainOutcome
  <2>1. /\ drainer[d] \in Drains /\ drainer'[d] = w
        /\ HeldIn(rows, drainer[d].todo)
        /\ \A t, u \in drainer[d].todo : t.id = u.id => t = u
    BY <1>7 DEF DrainOutcome, SoloDrain, Held, HeldIn
  <2>2. HeldIn(rows', w.todo)
    <3>1. CASE w.todo \subseteq drainer[d].todo /\ Grows(rows')
      BY <1>1, <2>1, <3>1 DEF HeldIn
    <3>2. CASE w.todo \subseteq rows /\ UNCHANGED rows
      BY <3>2 DEF HeldIn
    <3>3. CASE /\ drainer[d].at = "delete" /\ w.todo = drainer[d].todo
               /\ rows' = Without(drainer[d].id)
      BY <2>1, <3>3 DEF SoloDrain, HeldIn, Without
    <3> QED
      BY <1>7, <3>1, <3>2, <3>3, SameTable DEF DrainOutcome
  <2>3. \A t, u \in w.todo : t.id = u.id => t = u
    <3>1. CASE w.todo \subseteq drainer[d].todo
      BY <2>1, <3>1
    <3>2. CASE w.todo \subseteq rows
      BY <3>2 DEF TableInv
    <3> QED
      BY <1>7, <3>1, <3>2 DEF DrainOutcome
  <2>4. CASE w.at \in {"idle", "send"}
    BY <2>1, <2>2, <2>3, <2>4 DEF SoloDrain, Held, HeldIn
  <2>5. CASE /\ w.at = "update" /\ drainer[d].at = "read"
             /\ w.todo = drainer[d].todo /\ w.id = drainer[d].id
    BY <2>1, <2>2, <2>3, <2>5 DEF SoloDrain, Held, HeldIn
  <2>6. ASSUME NEW r \in drainer[d].todo, NEW ok \in BOOLEAN, SmtpAttempt(r.msg, ok),
               w.todo = drainer[d].todo \ {r}, w.id = r.id, w.at = IF ok THEN "delete" ELSE "read",
               UNCHANGED rows
        PROVE  SoloDrain(d)'
    <3>1. \A t \in w.todo : t.id # w.id
      BY <2>1, <2>6
    <3>2. ok => \E q \in rows' : q.id = w.id /\ delivered'[q.msg] > 0
      <4>1. PICK q \in rows : q.id = r.id /\ q.msg = r.msg
        BY <2>1 DEF HeldIn
      <4>2. r.msg \in Msgs
        BY <2>1 DEF Drains, Rows
      <4>3. ok => delivered'[r.msg] > 0
        BY <2>6, <4>2, AttemptTypes
      <4> QED
        BY <2>6, <4>1, <4>3
    <3> QED
      BY <2>1, <2>2, <2>3, <2>6, <3>1, <3>2 DEF SoloDrain, Held, HeldIn, SentAndThere
  <2> QED
    BY <1>7, <2>4, <2>5, <2>6 DEF DrainOutcome
<1>8. ASSUME NEW o \in Overlays, NEW v \in OverlayStates, NEW shown \in SUBSET Rows,
             OverlayOutcome(o, v, shown)
      PROVE  SoloInv'
  <2> SUFFICES ASSUME OnlyDrain(o), SoloOverlay(o) PROVE SoloOverlay(o)'
    BY <1>8, OnlyOneDrains, PresentKept, ProcessesAssumption DEF SoloInv, OnlyDrain, OverlayOutcome
  <2>1. overlay'[o] = v /\ entries'[o] = shown
    BY <1>8 DEF OverlayOutcome
  <2>2. CASE v.at \in {"reload", "update", "read"}
    BY <2>1, <2>2 DEF SoloOverlay
  <2>3. CASE v.at = "idle" /\ (shown = {} \/ (shown = rows /\ UNCHANGED rows))
    BY <2>1, <2>3 DEF SoloOverlay, Held
  <2>4. ASSUME NEW r \in entries[o], NEW ok \in BOOLEAN, SmtpAttempt(r.msg, ok),
               v.id = r.id, v.at = IF ok THEN "delete" ELSE "read", UNCHANGED rows,
               overlay[o].at = "idle"
        PROVE  SoloOverlay(o)'
    <3>1. PICK q \in rows : q.id = r.id /\ q.msg = r.msg
      BY <2>4 DEF SoloOverlay, Held
    <3>2. r.msg \in Msgs
      BY <2>4 DEF Rows
    <3>3. ok => delivered'[r.msg] > 0
      BY <2>4, <3>2, AttemptTypes
    <3> QED
      BY <2>1, <2>4, <3>1, <3>3 DEF SoloOverlay, SentAndThere
  <2> QED
    BY <1>8, <2>2, <2>3, <2>4 DEF OverlayOutcome
<1> QED
  BY <1>3, <1>5, <1>6, <1>7, <1>8, StepForms

-----------------------------------------------------------------------------
(* Stored until sent *)

\* Rows go only with the id that a process deletes.
LEMMA RowsGo ==
  ASSUME Types, [Next]_vars, NEW m \in Msgs, Stored(m), ~Stored(m)'
  PROVE  \/ \E d \in Drainers :
               /\ drainer[d].at = "delete" /\ rows' = Without(drainer[d].id)
               /\ drainer[d].at # "away"
         \/ \E o \in Overlays :
               /\ overlay[o].at = "delete" /\ rows' = Without(overlay[o].id)
         \/ \E o \in Overlays : \E r \in entries[o] :
               /\ overlay[o].at = "idle" /\ rows' = Without(r.id)
               /\ discarded' = discarded \cup {r.msg}
<1>1. ~ Grows(rows')
  BY DEF Stored, Grows, SameRow
<1>2. ~ UNCHANGED rows
  BY DEF Stored
<1>3. ~ \E n \in Msgs : Elapse(n)
  BY <1>1, ElapsedRows
<1>4. \A p \in Senders : \A s \in Sends : ~ SenderOutcome(p, s)
  <2> SUFFICES ASSUME NEW p \in Senders, NEW s \in Sends, SenderOutcome(p, s) PROVE FALSE
    OBVIOUS
  <2>1. ASSUME NEW new, rows' = rows \cup {new} PROVE Grows(rows')
    BY <2>1 DEF Grows, SameRow
  <2> QED
    BY <1>1, <1>2, <2>1 DEF SenderOutcome
<1>5. ASSUME NEW d \in Drainers, NEW w \in Drains, DrainOutcome(d, w)
      PROVE  drainer[d].at = "delete" /\ rows' = Without(drainer[d].id)
  BY <1>1, <1>2, <1>5 DEF DrainOutcome
<1>6. ASSUME NEW o \in Overlays, NEW v \in OverlayStates, NEW shown \in SUBSET Rows,
             OverlayOutcome(o, v, shown)
      PROVE  \/ overlay[o].at = "delete" /\ rows' = Without(overlay[o].id)
             \/ \E r \in entries[o] :
                   /\ overlay[o].at = "idle" /\ rows' = Without(r.id)
                   /\ discarded' = discarded \cup {r.msg}
  BY <1>1, <1>2, <1>6 DEF OverlayOutcome
<1> QED
  BY <1>2, <1>3, <1>4, <1>5, <1>6, StepForms DEF vars

\* The step of StoredUntilSent.
StoredStep ==
  (OneDrain \/ AtWork \cap Senders = {}) =>
     \A m \in Msgs : Stored(m) /\ ~Stored(m)' => delivered[m] > 0 \/ m \in discarded'

\* A message that reached the outbox table stays in it until an SMTP server has accepted
\* it or the user deletes it there, whatever fails, crashes or runs beside: with one
\* process that takes rows out, because its rows keep their ids; with any number of them
\* and no new messages, because no id is issued again.
THEOREM MailIsKept == Spec => StoredUntilSent
<1>1. Spec => [](Types /\ QuietInv /\ SoloInv)
  <2>1. Types /\ QuietInv /\ SoloInv /\ [Next]_vars => (Types /\ QuietInv /\ SoloInv)'
    BY TypesKept, QuietKept, SoloKept
  <2> QED
    BY <2>1, TypesInitially, QuietInitially, SoloInitially, PTL DEF Spec
<1>2. Types /\ QuietInv /\ SoloInv /\ [Next]_vars => StoredStep
  <2> SUFFICES ASSUME Types, QuietInv, SoloInv, [Next]_vars,
                      OneDrain \/ AtWork \cap Senders = {},
                      NEW m \in Msgs, Stored(m), ~Stored(m)'
               PROVE  delivered[m] > 0 \/ m \in discarded'
    BY DEF StoredStep
  <2> USE DEF Types, TypeOK
  <2>1. PICK q \in rows : q.msg = m
    BY DEF Stored
  <2>2. ASSUME NEW id, rows' = Without(id) PROVE q.id = id
    BY <2>1, <2>2 DEF Stored, Without
  <2>3. ASSUME OneDrain PROVE \E x : OnlyDrain(x)
    <3>1. IsFiniteSet(AtWork \ Senders)
      BY FS_Subset, ProcessesAssumption DEF AtWork, Processes
    <3> QED
      BY <2>3, <3>1, FS_Singleton DEF OneDrain, OnlyDrain
  <2>4. ASSUME NEW d \in Drainers, drainer[d].at = "delete", rows' = Without(drainer[d].id)
        PROVE  delivered[m] > 0
    <3>1. CASE OneDrain
      <4>1. OnlyDrain(d)
        BY <2>3, <2>4, <3>1, OnlyOneDrains
      <4>2. PICK r \in rows : r.id = drainer[d].id /\ delivered[r.msg] > 0
        BY <2>4, <4>1 DEF SoloInv, SoloDrain, SentAndThere
      <4> QED
        BY <2>1, <2>2, <2>4, <4>2 DEF TableInv
    <3>2. CASE AtWork \cap Senders = {}
      BY <2>1, <2>2, <2>4, <3>2 DEF QuietInv, SentIfThere
    <3> QED
      BY <3>1, <3>2
  <2>5. ASSUME NEW o \in Overlays, overlay[o].at = "delete", rows' = Without(overlay[o].id)
        PROVE  delivered[m] > 0
    <3>1. CASE OneDrain
      <4>1. OnlyDrain(o)
        BY <2>3, <2>5, <3>1, OnlyOneDrains
      <4>2. PICK r \in rows : r.id = overlay[o].id /\ delivered[r.msg] > 0
        BY <2>5, <4>1 DEF SoloInv, SoloOverlay, SentAndThere
      <4> QED
        BY <2>1, <2>2, <2>5, <4>2 DEF TableInv
    <3>2. CASE AtWork \cap Senders = {}
      BY <2>1, <2>2, <2>5, <3>2 DEF QuietInv, SentIfThere
    <3> QED
      BY <3>1, <3>2
  <2>6. ASSUME NEW o \in Overlays, NEW r \in entries[o], overlay[o].at = "idle",
               rows' = Without(r.id), discarded' = discarded \cup {r.msg}
        PROVE  m \in discarded'
    <3>1. q.id = r.id
      BY <2>2, <2>6
    <3>2. CASE OneDrain
      <4>1. OnlyDrain(o)
        BY <2>3, <2>6, <3>2, OnlyOneDrains
      <4>2. PICK k \in rows : k.id = r.id /\ k.msg = r.msg
        BY <2>6, <4>1 DEF SoloInv, SoloOverlay, Held
      <4> QED
        BY <2>1, <2>6, <3>1, <4>2 DEF TableInv
    <3>3. CASE AtWork \cap Senders = {}
      BY <2>1, <2>6, <3>1, <3>3 DEF QuietInv, Agrees
    <3> QED
      BY <3>2, <3>3
  <2> QED
    BY <2>4, <2>5, <2>6, RowsGo
<1>3. StoredStep => [(OneDrain \/ AtWork \cap Senders = {}) =>
         \A m \in Msgs : Stored(m) /\ ~Stored(m)' => delivered[m] > 0 \/ m \in discarded']_vars
  BY DEF StoredStep
<1> QED
  BY <1>1, <1>2, <1>3, PTL DEF Spec, StoredUntilSent

-----------------------------------------------------------------------------
(* No duplicates without a fault *)

LEMMA OnceInitially == Init => OnceInv
<1> SUFFICES ASSUME Init PROVE OnceInv
  OBVIOUS
<1>1. PICK n \in 0..Len(Queued) :
        /\ rows = {[id |-> i, msg |-> Queued[i], attempts |-> 0, due |-> TRUE] : i \in 1..n}
        /\ unwritten = {m \in Msgs : \A i \in 1..n : Queued[i] # m}
  BY DEF Init
<1>2. \A r \in rows : r.id \in 1..n /\ r.msg = Queued[r.id]
  BY <1>1, QueuedRows
<1>3. \A r, q \in rows : r.id = q.id => r = q
  BY TypesInitially DEF Types, TableInv
<1>4. \A r, q \in rows : r.msg = q.msg => r = q
  <2>1. 1..n \subseteq 1..Len(Queued)
    BY QueuedAssumption
  <2> QED
    BY <1>2, <1>3, <2>1, QueuedAssumption
<1>5. \A m \in unwritten : ~Stored(m)
  BY <1>1, <1>2 DEF Stored
<1>6. \A p \in Senders : sender[p].at \in {"idle", "away"}
  BY NoTypes DEF Init
<1>7. \A m \in Msgs : delivered[m] = 0
  BY DEF Init
<1>8. \A r \in rows : r.msg \in Msgs
  BY TypesInitially DEF Types, TypeOK, Rows
<1> QED
  BY <1>4, <1>5, <1>6, <1>7, <1>8 DEF OnceInv, InOnePlace, Holds

\* A table with the same ids and messages.
LEMMA SamePlaces ==
  ASSUME Types, NEW table, Distinct(table), Shrinks(table), Grows(table)
  PROVE  /\ \A m : (\E r \in table : r.msg = m) <=> Stored(m)
         /\ (\A m \in Msgs : \A r, q \in rows : r.msg = m /\ q.msg = m => r = q) =>
               \A m \in Msgs : \A r, q \in table : r.msg = m /\ q.msg = m => r = q
<1>1. \A m : (\E r \in table : r.msg = m) <=> Stored(m)
  BY DEF Shrinks, Grows, SameRow, Stored
<1>2. ASSUME \A m \in Msgs : \A r, q \in rows : r.msg = m /\ q.msg = m => r = q,
             NEW m \in Msgs, NEW r \in table, NEW q \in table, r.msg = m, q.msg = m
      PROVE  r = q
  <2>1. PICK a \in rows : r.id = a.id /\ r.msg = a.msg
    BY DEF Shrinks, SameRow
  <2>2. PICK b \in rows : q.id = b.id /\ q.msg = b.msg
    BY DEF Shrinks, SameRow
  <2>3. a = b
    BY <1>2, <2>1, <2>2
  <2> QED
    BY <2>1, <2>2, <2>3 DEF Distinct
<1> QED
  BY <1>1, <1>2

OnePlaceEach == \A m \in Msgs : InOnePlace(m)
Once(x) == OnePlaceEach /\ \A r \in rows : delivered[r.msg] > 0 => Deletes(x, r.id)

\* A step that neither sends nor queues.
LEMMA PlacesKept ==
  ASSUME Types, OnePlaceEach, UNCHANGED <<sender, unwritten, delivered>>,
         rows' \subseteq rows \/ (Distinct(rows') /\ Shrinks(rows') /\ Grows(rows'))
  PROVE  OnePlaceEach'
<1>1. \A m \in Msgs : \A r, q \in rows : r.msg = m /\ q.msg = m => r = q
  BY DEF OnePlaceEach, InOnePlace
<1>2. \A m \in Msgs : \A r, q \in rows' : r.msg = m /\ q.msg = m => r = q
  BY <1>1, SamePlaces
<1>3. \A m \in Msgs : Stored(m)' => Stored(m)
  BY SamePlaces DEF Stored
<1> QED
  BY <1>2, <1>3 DEF OnePlaceEach, InOnePlace, Holds

\* An accepted attempt for a row of the table.
LEMMA PlacesSent ==
  ASSUME Types, OnePlaceEach, NEW q \in rows, delivered[q.msg] = 0,
         UNCHANGED <<sender, unwritten, rows>>, delivered' \in [Msgs -> 0..2],
         \A n \in Msgs \ {q.msg} : delivered'[n] = delivered[n], delivered'[q.msg] <= 1
  PROVE  OnePlaceEach'
<1>1. q.msg \in Msgs /\ Stored(q.msg)
  BY DEF Types, TypeOK, Rows, Stored
<1>2. ASSUME NEW m \in Msgs PROVE InOnePlace(m)'
  <2>1. InOnePlace(m)
    BY DEF OnePlaceEach
  <2>2. delivered'[m] \in {0, 1} /\ (m # q.msg => delivered'[m] = delivered[m])
    BY <1>1, <2>1 DEF InOnePlace
  <2>3. m = q.msg => m \notin unwritten /\ \A p \in Senders : ~Holds(p, m)
    BY <1>1, <2>1 DEF InOnePlace
  <2> QED
    BY <2>1, <2>2, <2>3 DEF InOnePlace, Holds, Stored
<1> QED
  BY <1>2 DEF OnePlaceEach

LEMMA OnceSender ==
  ASSUME Types, NEW x, Once(x), NEW p \in Senders, NEW s \in Sends, SenderOutcome(p, s),
         Types', faults' = 0
  PROVE  Once(x)'
<1> USE DEF Types, TypeOK
<1>1. /\ sender' = [sender EXCEPT ![p] = s] /\ sender'[p] = s
      /\ \A q \in Senders \ {p} : sender'[q] = sender[q]
      /\ UNCHANGED <<drainer, overlay>>
      /\ sender[p].msg \in Msgs
  BY DEF SenderOutcome, Sends
<1>2. \A id : Deletes(x, id)' = Deletes(x, id)
  BY <1>1 DEF Deletes
<1>3. \A m \in Msgs : InOnePlace(m)
  BY DEF Once, OnePlaceEach
\* Only rows and messages that were there count as delivered.
<1>4. ASSUME UNCHANGED <<rows, delivered>>, OnePlaceEach' PROVE Once(x)'
  BY <1>2, <1>4 DEF Once, Deletes
<1>5. ASSUME sender[p].at = "idle", NEW m \in unwritten, s.msg = m, unwritten' = unwritten \ {m},
             UNCHANGED <<rows, delivered, faults>>
      PROVE  Once(x)'
  <2>1. m \in Msgs /\ InOnePlace(m)
    BY <1>3
  <2>2. ASSUME NEW n \in Msgs, n # m PROVE InOnePlace(n)'
    <3>1. InOnePlace(n) /\ \A q \in Senders : Holds(q, n)' => Holds(q, n)
      BY <1>1, <1>3, <1>5, <2>2 DEF Holds
    <3> QED
      BY <1>5, <3>1 DEF InOnePlace, Stored
  <2>3. InOnePlace(m)'
    <3>1. \A q \in Senders : Holds(q, m)' => q = p
      BY <1>1, <1>5, <2>1 DEF InOnePlace, Holds
    <3> QED
      BY <1>5, <2>1, <3>1 DEF InOnePlace, Stored
  <2> QED
    BY <1>4, <1>5, <2>2, <2>3 DEF OnePlaceEach
<1>6. ASSUME sender[p].at = "send", NEW ok \in BOOLEAN, SmtpAttempt(sender[p].msg, ok),
             ok => s.at = "idle", ~ok => s.at = "enqueue" /\ s.msg = sender[p].msg,
             UNCHANGED <<rows, unwritten>>
      PROVE  Once(x)'
  <2>0. PICK m \in Msgs : m = sender[p].msg
    BY <1>1
  <2>1. InOnePlace(m) /\ Holds(p, m)
    BY <1>3, <1>6, <2>0 DEF Holds
  <2>2. /\ delivered[m] = 0 /\ ~Stored(m) /\ m \notin unwritten
        /\ \A q \in Senders : Holds(q, m) => q = p
    BY <1>1, <2>1 DEF InOnePlace
  <2>3. /\ \A n \in Msgs \ {m} : delivered'[n] = delivered[n]
        /\ ~ok => UNCHANGED delivered
        /\ delivered'[m] \in {0, 1}
    <3>1. /\ delivered' \in [Msgs -> 0..2]
          /\ \A n \in Msgs \ {m} : delivered'[n] = delivered[n]
          /\ ~ok => UNCHANGED delivered
          /\ delivered'[m] <= delivered[m] + 1
      BY <1>6, <2>0, AttemptTypes
    <3>2. delivered'[m] \in 0..2
      BY <1>1, <3>1
    <3> QED
      BY <2>2, <3>1, <3>2
  <2>4. ASSUME NEW n \in Msgs, n # m PROVE InOnePlace(n)'
    <3>1. InOnePlace(n) /\ \A q \in Senders : Holds(q, n)' => Holds(q, n)
      BY <1>1, <1>3, <1>6, <2>0, <2>4 DEF Holds
    <3>2. delivered'[n] = delivered[n]
      BY <2>3, <2>4
    <3> QED
      BY <1>6, <3>1, <3>2 DEF InOnePlace, Stored
  <2>5. InOnePlace(m)'
    <3>1. \A q \in Senders : Holds(q, m)' => q = p /\ ~ok
      BY <1>1, <1>6, <2>0, <2>2 DEF Holds
    <3>2. ~ok => delivered'[m] = 0
      BY <2>2, <2>3
    <3> QED
      BY <1>6, <2>1, <2>2, <2>3, <3>1, <3>2 DEF InOnePlace, Stored
  <2>6. \A r \in rows : r.msg # m /\ r.msg \in Msgs
    BY <2>2 DEF Stored, Rows
  <2>7. OnePlaceEach'
    BY <2>4, <2>5 DEF OnePlaceEach
  <2> QED
    BY <1>2, <1>6, <2>3, <2>6, <2>7 DEF Once
<1>7. ASSUME sender[p].at \in {"queue", "enqueue"}, s.at \in {"idle", "read"},
             NEW new \in Rows, rows' = rows \cup {new}, new.msg = sender[p].msg,
             UNCHANGED <<unwritten, delivered, faults>>
      PROVE  Once(x)'
  <2>0. PICK m \in Msgs : m = sender[p].msg
    BY <1>1
  <2>1. InOnePlace(m) /\ Holds(p, m)
    BY <1>3, <1>7, <2>0 DEF Holds
  <2>2. /\ delivered[m] = 0 /\ ~Stored(m) /\ m \notin unwritten
        /\ \A q \in Senders : Holds(q, m) => q = p
    BY <1>1, <2>1 DEF InOnePlace
  <2>3. ASSUME NEW n \in Msgs, n # m PROVE InOnePlace(n)'
    <3>1. InOnePlace(n) /\ \A q \in Senders : Holds(q, n)' => Holds(q, n)
      BY <1>1, <1>3, <1>7, <2>0, <2>3 DEF Holds
    <3>2. \A r \in rows' : r.msg = n => r \in rows
      BY <1>7, <2>0, <2>3
    <3> QED
      BY <1>7, <3>1, <3>2 DEF InOnePlace, Stored
  <2>4. InOnePlace(m)'
    <3>1. \A q \in Senders : ~Holds(q, m)'
      BY <1>1, <1>7, <2>0, <2>2 DEF Holds
    <3>2. \A r \in rows' : r.msg = m => r = new
      BY <1>7, <2>0, <2>2 DEF Stored
    <3> QED
      BY <1>7, <2>2, <3>1, <3>2 DEF InOnePlace
  <2>5. \A r \in rows' : delivered'[r.msg] > 0 => r \in rows
    BY <1>7, <2>0, <2>2
  <2>6. OnePlaceEach'
    BY <2>3, <2>4 DEF OnePlaceEach
  <2> QED
    BY <1>2, <1>7, <2>5, <2>6 DEF Once
<1>8. ASSUME sender[p].at \in {"read", "update"}, s.at \in {"update", "idle"},
             Shrinks(rows'), Grows(rows'), UNCHANGED <<unwritten, delivered, faults>>
      PROVE  Once(x)'
  <2>1. \A q \in Senders : \A m \in Msgs : Holds(q, m)' <=> Holds(q, m)
    BY <1>1, <1>8 DEF Holds
  <2>2. Distinct(rows')
    BY DEF TableInv, Distinct
  <2>3. \A m \in Msgs : Stored(m)' <=> Stored(m)
    BY <1>8, <2>2, SamePlaces DEF Stored
  <2>4. \A m \in Msgs : \A r, q \in rows' : r.msg = m /\ q.msg = m => r = q
    BY <1>3, <1>8, <2>2, SamePlaces DEF InOnePlace
  <2>5. OnePlaceEach'
    BY <1>3, <1>8, <2>1, <2>3, <2>4 DEF OnePlaceEach, InOnePlace
  <2>6. \A r \in rows' : \E q \in rows : r.id = q.id /\ r.msg = q.msg
    BY <1>8 DEF Shrinks, SameRow
  <2> QED
    BY <1>2, <1>8, <2>5, <2>6 DEF Once
<1> QED
  BY <1>5, <1>6, <1>7, <1>8 DEF SenderOutcome

\* An attempt of the process that drains, for a row that it read and that is still there.
LEMMA AttemptPlaces ==
  ASSUME Types, OnePlaceEach, NEW q \in rows, delivered[q.msg] = 0, NEW ok \in BOOLEAN,
         SmtpAttempt(q.msg, ok), faults' = 0, UNCHANGED <<sender, unwritten, rows>>
  PROVE  /\ OnePlaceEach' /\ (~ok => UNCHANGED delivered)
         /\ \A r \in rows : delivered'[r.msg] > 0 => delivered[r.msg] > 0 \/ r = q
<1>1. q.msg \in Msgs
  BY DEF Types, TypeOK, Rows
<1>2. /\ delivered' \in [Msgs -> 0..2]
      /\ \A n \in Msgs \ {q.msg} : delivered'[n] = delivered[n]
      /\ ~ok => UNCHANGED delivered
      /\ delivered'[q.msg] <= 1
  BY <1>1, AttemptTypes DEF Types
<1>3. \A r \in rows : r.msg \in Msgs /\ (r.msg = q.msg => r = q)
  BY <1>1 DEF OnePlaceEach, InOnePlace, Types, TypeOK, Rows
<1> QED
  BY <1>2, <1>3, PlacesSent

LEMMA OnceDrain ==
  ASSUME Types, Types', NEW d \in Drainers, SoloDrain(d), Once(d), NEW w \in Drains,
         DrainOutcome(d, w), faults' = 0
  PROVE  Once(d)'
<1> USE DEF Types, TypeOK
<1>1. /\ drainer'[d] = w /\ drainer[d] \in Drains /\ UNCHANGED <<sender, overlay, unwritten>>
      /\ d \notin Overlays
  BY ProcessesAssumption DEF DrainOutcome
<1>2. /\ \A id : Deletes(d, id) <=> drainer[d].at = "delete" /\ drainer[d].id = id
      /\ \A id : Deletes(d, id)' <=> w.at = "delete" /\ w.id = id
  BY <1>1 DEF Deletes
<1>3. OnePlaceEach /\ \A r \in rows :
         delivered[r.msg] > 0 => drainer[d].at = "delete" /\ drainer[d].id = r.id
  BY <1>2 DEF Once
\* Nothing is delivered but what is about to be deleted.
<1>4. ASSUME drainer[d].at # "delete", UNCHANGED delivered,
             rows' = rows \/ (Shrinks(rows') /\ Grows(rows'))
      PROVE  Once(d)'
  <2>1. Distinct(rows')
    BY DEF TableInv, Distinct
  <2>2. OnePlaceEach'
    BY <1>1, <1>3, <1>4, <2>1, PlacesKept
  <2>3. \A r \in rows' : \E q \in rows : r.msg = q.msg
    BY <1>4 DEF Shrinks, SameRow
  <2>4. \A r \in rows' : ~ (delivered'[r.msg] > 0)
    BY <1>3, <1>4, <2>3
  <2> QED
    BY <2>2, <2>4 DEF Once
<1>5. ASSUME drainer[d].at = "delete", rows' = Without(drainer[d].id), UNCHANGED delivered
      PROVE  Once(d)'
  <2>1. rows' \subseteq rows /\ \A r \in rows' : r.id # drainer[d].id
    BY <1>5 DEF Without
  <2>2. OnePlaceEach'
    BY <1>1, <1>3, <1>5, <2>1, PlacesKept
  <2> QED
    BY <1>3, <1>5, <2>1, <2>2 DEF Once
<1>6. ASSUME drainer[d].at = "send", NEW r \in drainer[d].todo, NEW ok \in BOOLEAN,
             SmtpAttempt(r.msg, ok), w.id = r.id, w.at = IF ok THEN "delete" ELSE "read",
             UNCHANGED rows
      PROVE  Once(d)'
  <2>1. PICK q \in rows : q.id = r.id /\ q.msg = r.msg
    BY <1>6 DEF SoloDrain, Held
  <2>2. q.msg \in Msgs /\ delivered[q.msg] = 0
    <3>1. q.msg \in Msgs
      BY DEF Rows
    <3>2. delivered[q.msg] \in 0..2
      BY <3>1
    <3> QED
      BY <1>3, <1>6, <3>1, <3>2
  <2>3. /\ OnePlaceEach' /\ (~ok => UNCHANGED delivered)
        /\ \A k \in rows : delivered'[k.msg] > 0 => delivered[k.msg] > 0 \/ k = q
    BY <1>1, <1>3, <1>6, <2>1, <2>2, AttemptPlaces
  <2>4. \A k \in rows' : delivered'[k.msg] > 0 => w.at = "delete" /\ w.id = k.id
    BY <1>3, <1>6, <2>1, <2>3
  <2> QED
    BY <1>2, <2>3, <2>4 DEF Once
<1> QED
  BY <1>4, <1>5, <1>6 DEF DrainOutcome

LEMMA OnceOverlay ==
  ASSUME Types, Types', NEW o \in Overlays, SoloOverlay(o), Once(o), NEW v \in OverlayStates,
         NEW shown \in SUBSET Rows, OverlayOutcome(o, v, shown), faults' = 0
  PROVE  Once(o)'
<1> USE DEF Types, TypeOK
<1>1. overlay'[o] = v /\ UNCHANGED <<sender, drainer, unwritten>> /\ o \notin Drainers
  BY ProcessesAssumption DEF OverlayOutcome
<1>2. /\ \A id : Deletes(o, id) <=> overlay[o].at = "delete" /\ overlay[o].id = id
      /\ \A id : Deletes(o, id)' <=> v.at = "delete" /\ v.id = id
  BY <1>1 DEF Deletes
<1>3. OnePlaceEach /\ \A r \in rows :
         delivered[r.msg] > 0 => overlay[o].at = "delete" /\ overlay[o].id = r.id
  BY <1>2 DEF Once
<1>4. ASSUME overlay[o].at # "delete", UNCHANGED delivered,
             rows' \subseteq rows \/ (Shrinks(rows') /\ Grows(rows'))
      PROVE  Once(o)'
  <2>1. Distinct(rows')
    BY DEF TableInv, Distinct
  <2>2. OnePlaceEach'
    BY <1>1, <1>3, <1>4, <2>1, PlacesKept
  <2>3. \A r \in rows' : \E q \in rows : r.msg = q.msg
    BY <1>4 DEF Shrinks, SameRow
  <2>4. \A r \in rows' : ~ (delivered'[r.msg] > 0)
    BY <1>3, <1>4, <2>3
  <2> QED
    BY <2>2, <2>4 DEF Once
<1>5. ASSUME overlay[o].at = "delete", rows' = Without(overlay[o].id), UNCHANGED delivered
      PROVE  Once(o)'
  <2>1. rows' \subseteq rows /\ \A r \in rows' : r.id # overlay[o].id
    BY <1>5 DEF Without
  <2>2. OnePlaceEach'
    BY <1>1, <1>3, <1>5, <2>1, PlacesKept
  <2> QED
    BY <1>3, <1>5, <2>1, <2>2 DEF Once
<1>6. ASSUME overlay[o].at = "idle", NEW r \in entries[o], NEW ok \in BOOLEAN,
             SmtpAttempt(r.msg, ok), v.id = r.id, v.at = IF ok THEN "delete" ELSE "read",
             UNCHANGED rows
      PROVE  Once(o)'
  <2>1. PICK q \in rows : q.id = r.id /\ q.msg = r.msg
    BY <1>6 DEF SoloOverlay, Held
  <2>2. q.msg \in Msgs /\ delivered[q.msg] = 0
    <3>1. q.msg \in Msgs
      BY DEF Rows
    <3>2. delivered[q.msg] \in 0..2
      BY <3>1
    <3> QED
      BY <1>3, <1>6, <3>1, <3>2
  <2>3. /\ OnePlaceEach' /\ (~ok => UNCHANGED delivered)
        /\ \A k \in rows : delivered'[k.msg] > 0 => delivered[k.msg] > 0 \/ k = q
    BY <1>1, <1>3, <1>6, <2>1, <2>2, AttemptPlaces
  <2>4. \A k \in rows' : delivered'[k.msg] > 0 => v.at = "delete" /\ v.id = k.id
    BY <1>3, <1>6, <2>1, <2>3
  <2> QED
    BY <1>2, <2>3, <2>4 DEF Once
<1>7. ASSUME NEW id, rows' = Without(id) PROVE rows' \subseteq rows
  BY <1>7 DEF Without
<1> QED
  BY <1>4, <1>5, <1>6, <1>7 DEF OverlayOutcome

\* Without a fault now there was none before.
LEMMA FaultsStay == ASSUME Types, [Next]_vars, faults' = 0 PROVE faults = 0
<1> USE DEF Types, TypeOK
<1>1. ASSUME NEW m \in Msgs, NEW ok \in BOOLEAN, SmtpAttempt(m, ok) PROVE faults = 0
  BY <1>1, AttemptTypes
<1>2. \A m \in Msgs : Elapse(m) => faults = 0
  BY DEF Elapse
<1>3. ASSUME NEW p \in Senders, NEW s \in Sends, SenderOutcome(p, s) PROVE faults = 0
  BY <1>1, <1>3 DEF SenderOutcome, Sends
<1>4. ASSUME NEW d \in Drainers, NEW w \in Drains, DrainOutcome(d, w) PROVE faults = 0
  <2>1. drainer[d] \in Drains
    OBVIOUS
  <2>2. \A r \in drainer[d].todo : r.msg \in Msgs
    BY <2>1 DEF Drains, Rows
  <2> QED
    BY <1>1, <1>4, <2>2 DEF DrainOutcome
<1>5. ASSUME NEW o \in Overlays, NEW v \in OverlayStates, NEW shown \in SUBSET Rows,
             OverlayOutcome(o, v, shown)
      PROVE  faults = 0
  <2>1. \A r \in entries[o] : r.msg \in Msgs
    BY DEF Rows
  <2> QED
    BY <1>1, <1>5, <2>1 DEF OverlayOutcome
<1> QED
  BY <1>2, <1>3, <1>4, <1>5, StepForms DEF vars

LEMMA OnceKept == ASSUME Types, SoloInv, OnceInv, [Next]_vars PROVE OnceInv'
<1>1. Types' /\ AtWork' = AtWork
  BY TypesKept, PresentKept
<1> SUFFICES ASSUME NEW x \in Drainers \cup Overlays, faults' = 0, OnlyDrain(x)
             PROVE  Once(x)'
  BY <1>1 DEF OnceInv, OnlyDrain, Once, OnePlaceEach
<1>2. faults = 0 /\ Once(x)
  BY FaultsStay DEF OnceInv, Once, OnePlaceEach
<1>3. CASE UNCHANGED vars
  BY <1>2, <1>3 DEF vars, Once, OnePlaceEach, InOnePlace, Holds, Stored, Deletes
<1>4. ASSUME NEW m \in Msgs, Elapse(m) PROVE Once(x)'
  <2>1. /\ Distinct(rows') /\ Shrinks(rows') /\ Grows(rows')
        /\ UNCHANGED <<sender, drainer, overlay, unwritten, delivered>>
    BY <1>4, ElapsedRows DEF Elapse
  <2>2. OnePlaceEach'
    BY <1>2, <2>1, PlacesKept DEF Once
  <2>3. \A r \in rows' : \E q \in rows : r.id = q.id /\ r.msg = q.msg
    BY <2>1 DEF Shrinks, SameRow
  <2> QED
    BY <1>2, <2>1, <2>2, <2>3 DEF Once, Deletes
<1>5. ASSUME NEW p \in Senders, NEW s \in Sends, SenderOutcome(p, s) PROVE Once(x)'
  BY <1>1, <1>2, <1>5, OnceSender
<1>6. ASSUME NEW d \in Drainers, NEW w \in Drains, DrainOutcome(d, w) PROVE Once(x)'
  <2>1. d = x
    BY <1>6, OnlyOneDrains DEF DrainOutcome
  <2>2. SoloDrain(d)
    BY <2>1 DEF SoloInv
  <2> QED
    BY <1>1, <1>2, <1>6, <2>1, <2>2, OnceDrain
<1>7. ASSUME NEW o \in Overlays, NEW v \in OverlayStates, NEW shown \in SUBSET Rows,
             OverlayOutcome(o, v, shown)
      PROVE  Once(x)'
  <2>1. o = x
    BY <1>7, OnlyOneDrains DEF OverlayOutcome
  <2>2. SoloOverlay(o)
    BY <2>1 DEF SoloInv
  <2> QED
    BY <1>1, <1>2, <1>7, <2>1, <2>2, OnceOverlay
<1> QED
  BY <1>3, <1>4, <1>5, <1>6, <1>7, StepForms

\* With one process that drains, whatever number of senders and of refused attempts:
\* a message that was delivered twice takes a crash, a database error or a lost reply.
THEOREM DuplicatesNeedFaults == Spec => []DuplicateNeedsFault
<1>1. Spec => [](Types /\ SoloInv /\ OnceInv)
  <2>1. Types /\ SoloInv /\ OnceInv /\ [Next]_vars => (Types /\ SoloInv /\ OnceInv)'
    BY TypesKept, SoloKept, OnceKept
  <2> QED
    BY <2>1, TypesInitially, SoloInitially, OnceInitially, PTL DEF Spec
<1>2. Types /\ OnceInv => DuplicateNeedsFault
  <2> SUFFICES ASSUME Types, OnceInv, OneDrain, NEW m \in Msgs, delivered[m] > 1, ~ (faults > 0)
               PROVE  FALSE
    BY DEF DuplicateNeedsFault
  <2>1. IsFiniteSet(AtWork \ Senders)
    BY FS_Subset, ProcessesAssumption DEF AtWork, Processes
  <2>2. PICK x : OnlyDrain(x)
    BY <2>1, FS_Singleton DEF OneDrain, OnlyDrain
  <2>3. faults = 0
    BY DEF Types, TypeOK
  <2>4. InOnePlace(m)
    BY <2>2, <2>3, OnlyOneDrains DEF OnceInv
  <2> QED
    BY <2>4 DEF InOnePlace
<1> QED
  BY <1>1, <1>2, PTL

-----------------------------------------------------------------------------
(* Threading *)

-----------------------------------------------------------------------------
(* Ancestors *)

Parents == [Ids -> Ids \cup {None, Absent}]

\* The containers of S and their parents.
OneUp(p, S) == S \cup {p[a] : a \in {x \in S : p[x] \in Ids}}
Closed(p, S) == \A a \in S : p[a] \in Ids => p[a] \in S

\* What Ancestors(c) computes of parents p.
Above(p, c) ==
    LET up[n \in 0..Cardinality(Ids)] == IF n = 0 THEN {c} ELSE OneUp(p, up[n - 1])
    IN  up[Cardinality(Ids)]

\* The recursion of Above has a solution, whose last value Above is.
LEMMA AboveSteps ==
  ASSUME NEW p \in Parents, NEW c \in Ids
  PROVE  \E up \in [0..Cardinality(Ids) -> SUBSET Ids] :
            /\ up[0] = {c}
            /\ \A i \in 1..Cardinality(Ids) : up[i] = OneUp(p, up[i - 1])
            /\ Above(p, c) = up[Cardinality(Ids)]
<1> DEFINE n == Cardinality(Ids)
           step == [i \in 1..n |-> [t \in SUBSET Ids |-> OneUp(p, t)]]
<1>1. n \in Nat
  BY FiniteAssumption, FS_CardinalityType
<1> HIDE DEF n
<1>2. \A t \in SUBSET Ids : OneUp(p, t) \in SUBSET Ids
  BY DEF OneUp
<1>3. \A i \in 1..n, t \in SUBSET Ids : step[i][t] \in SUBSET Ids /\ step[i][t] = OneUp(p, t)
  BY <1>2
<1> HIDE DEF step
<1>4. PICK h \in [0..n -> SUBSET Ids] :
          h[0] = {c} /\ \A i \in 1..n : h[i] = step[i][h[i - 1]]
  <2>1. Solvable(n, SUBSET Ids, {c}, step)
    BY <1>1, Recursion
  <2>2. {c} \in SUBSET Ids
    OBVIOUS
  <2> QED
    BY <1>3, <2>1, <2>2 DEF Solvable
<1>5. \A i \in 1..n : h[i] = OneUp(p, h[i - 1])
  <2>1. \A i \in 1..n : i - 1 \in 0..n
    BY <1>1
  <2> QED
    BY <1>3, <1>4, <2>1
<1> DEFINE rec(g) == [i \in 0..n |-> IF i = 0 THEN {c} ELSE OneUp(p, g[i - 1])]
           up == CHOOSE g : g = rec(g)
<1>6. h = rec(h)
  <2>1. \A i \in 0..n : h[i] = IF i = 0 THEN {c} ELSE OneUp(p, h[i - 1])
    <3>1. \A i \in 0..n : i = 0 \/ i \in 1..n
      BY <1>1
    <3> QED
      BY <1>4, <1>5, <3>1
  <2> QED
    BY <2>1
<1>7. up = rec(up)
  BY <1>6
<1>8. Above(p, c) = up[n]
  BY DEF Above, n
<1> HIDE DEF up
<1>9. \A i \in 0..n : up[i] = IF i = 0 THEN {c} ELSE OneUp(p, up[i - 1])
  BY <1>7
<1>10. \A i \in 0..n : up[i] = h[i]
  <2> DEFINE Same == {i \in 0..n : up[i] = h[i]}
  <2>1. 0 \in Same
    <3>1. 0 \in 0..n
      BY <1>1
    <3>2. up[0] = {c}
      BY <1>9, <3>1
    <3> QED
      BY <1>4, <3>1, <3>2
  <2>2. \A i \in 1..n : i - 1 \in Same => i \in Same
    <3>1. \A i \in 1..n : i \in 0..n /\ i # 0
      BY <1>1
    <3> QED
      BY <1>5, <1>9, <3>1
  <2> HIDE DEF Same
  <2>3. \A i \in 0..n : i \in Same
    BY <1>1, <2>1, <2>2, UpTo
  <2> QED
    BY <2>3 DEF Same
<1>11. n \in 0..n
  BY <1>1
<1> QED
  BY <1>4, <1>5, <1>8, <1>10, <1>11 DEF n

\* They are the least set that has c and, with a container, its parent: there are
\* not more steps than Message-IDs to find a new one.
LEMMA AboveFacts ==
  ASSUME NEW p \in Parents, NEW c \in Ids
  PROVE  /\ c \in Above(p, c) /\ Above(p, c) \subseteq Ids
         /\ Closed(p, Above(p, c))
         /\ \A S \in SUBSET Ids : c \in S /\ Closed(p, S) => Above(p, c) \subseteq S
<1> DEFINE n == Cardinality(Ids)
<1>1. n \in Nat
  BY FiniteAssumption, FS_CardinalityType
<1>2. PICK up \in [0..n -> SUBSET Ids] :
          /\ up[0] = {c}
          /\ \A i \in 1..n : up[i] = OneUp(p, up[i - 1])
          /\ Above(p, c) = up[n]
  BY AboveSteps
<1>3. \A i \in 0..n : IsFiniteSet(up[i]) /\ Cardinality(up[i]) \in Nat /\ Cardinality(up[i]) <= n
  BY <1>2, FiniteAssumption, FS_Subset, FS_CardinalityType
<1> HIDE DEF n
<1>0. \A i \in 1..n : i - 1 \in 0..n /\ i \in 0..n
  BY <1>1
<1>4. c \in up[n]
  <2> DEFINE Reach == {i \in 0..n : c \in up[i]}
  <2>1. 0 \in Reach
    BY <1>1, <1>2
  <2>2. \A i \in 1..n : i - 1 \in Reach => i \in Reach
    BY <1>0, <1>2 DEF OneUp
  <2> HIDE DEF Reach
  <2>3. \A i \in 0..n : i \in Reach
    BY <1>1, <2>1, <2>2, UpTo
  <2> QED
    BY <1>1, <2>3 DEF Reach
<1>5. Closed(p, up[n])
  <2> DEFINE Grown == {i \in 0..n : Closed(p, up[i]) \/ i < Cardinality(up[i])}
  <2>1. 0 \in Grown
    <3>1. Cardinality(up[0]) = 1
      BY <1>2, FS_Singleton
    <3> QED
      BY <1>1, <3>1
  <2>2. ASSUME NEW i \in 1..n, i - 1 \in Grown
        PROVE  i \in Grown
    <3>1. up[i] = OneUp(p, up[i - 1]) /\ up[i - 1] \subseteq up[i]
      BY <1>2 DEF OneUp
    <3>2. CASE Closed(p, up[i - 1])
      <4>1. up[i] = up[i - 1]
        BY <3>1, <3>2 DEF OneUp, Closed
      <4> QED
        BY <1>0, <3>2, <4>1
    <3>3. CASE ~Closed(p, up[i - 1])
      <4>1. PICK a \in up[i - 1] : p[a] \in Ids /\ p[a] \notin up[i - 1]
        BY <3>3 DEF Closed
      <4>2. p[a] \in up[i]
        BY <3>1, <4>1 DEF OneUp
      <4>3. Cardinality(up[i - 1]) <= Cardinality(up[i]) /\ Cardinality(up[i - 1]) # Cardinality(up[i])
        BY <1>0, <1>3, <3>1, <4>1, <4>2, FS_Subset
      <4>4. i - 1 < Cardinality(up[i - 1])
        BY <2>2, <3>3
      <4>5. i < Cardinality(up[i])
        <5>1. i \in Nat /\ Cardinality(up[i - 1]) \in Nat /\ Cardinality(up[i]) \in Nat
          BY <1>0, <1>1, <1>3
        <5> HIDE DEF Grown
        <5> QED
          BY <4>3, <4>4, <5>1
      <4> QED
        BY <1>0, <4>5
    <3> QED
      BY <3>2, <3>3
  <2> HIDE DEF Grown
  <2>3. n \in Grown
    BY <1>1, <2>1, <2>2, UpTo
  <2> QED
    BY <1>1, <1>3, <2>3 DEF Grown
<1>6. ASSUME NEW S \in SUBSET Ids, c \in S, Closed(p, S)
      PROVE  up[n] \subseteq S
  <2> DEFINE In == {i \in 0..n : up[i] \subseteq S}
  <2>1. 0 \in In
    BY <1>1, <1>2, <1>6
  <2>2. \A i \in 1..n : i - 1 \in In => i \in In
    BY <1>0, <1>2, <1>6 DEF OneUp, Closed
  <2> HIDE DEF In
  <2>3. \A i \in 0..n : i \in In
    BY <1>1, <2>1, <2>2, UpTo
  <2> QED
    BY <1>1, <2>3 DEF In
<1>7. up[n] \subseteq Ids
  BY <1>1, <1>2
<1> QED
  BY <1>2, <1>4, <1>5, <1>6, <1>7

LEMMA AncestorsAbove == \A c : Ancestors(c) = Above(parent, c)
BY DEF Ancestors, Above, OneUp

\* Every container hangs below a root, of parents p.
IsForest(p) == \A c \in Ids : p[c] # Absent => \E a \in Above(p, c) : p[a] = None

LEMMA ForestAncestors ==
  IsForest(parent) <=> \A c \in Containers : RootsAbove(c) # {}
BY AncestorsAbove DEF IsForest, Containers, RootsAbove

-----------------------------------------------------------------------------
(* What the two kinds of steps that change parents do to a forest *)

\* A root n that is not above q may get q for its parent: whoever hung below n now
\* hangs below q as well, and q's ancestors are as they were.
LEMMA LinkedForest ==
  ASSUME NEW p \in Parents, NEW n \in Ids, NEW q \in Ids,
         IsForest(p), p[n] = None, p[q] # Absent, n \notin Above(p, q)
  PROVE  IsForest([p EXCEPT ![n] = q])
<1> DEFINE r == [p EXCEPT ![n] = q]
<1>1. r \in Parents /\ r[n] = q /\ \A c \in Ids \ {n} : r[c] = p[c]
  BY DEF Parents
<1>2. \A c \in Ids : r[c] # Absent => p[c] # Absent
  BY <1>1, NullsAssumption
<1> HIDE DEF r
<1> SUFFICES ASSUME NEW c \in Ids, r[c] # Absent
             PROVE  \E a \in Above(r, c) : r[a] = None
  BY DEF IsForest, r
<1> DEFINE S == Above(r, c)
<1>3. c \in S /\ S \subseteq Ids /\ Closed(r, S)
  BY <1>1, AboveFacts
<1> HIDE DEF S
<1>4. CASE n \notin S
  <2>1. Closed(p, S)
    BY <1>1, <1>3, <1>4 DEF Closed
  <2>2. Above(p, c) \subseteq S
    BY <1>3, <2>1, AboveFacts
  <2>3. PICK a \in Above(p, c) : p[a] = None
    BY <1>2 DEF IsForest
  <2>4. a \in S /\ a \in Ids \ {n}
    BY <1>3, <1>4, <2>2
  <2> QED
    BY <1>1, <2>3, <2>4 DEF S
<1>5. CASE n \in S
  <2> DEFINE A == Above(p, q)
  <2>1. q \in A /\ A \subseteq Ids /\ Closed(p, A)
    BY AboveFacts
  <2>2. q \in S
    BY <1>1, <1>3, <1>5 DEF Closed
  <2>3. n \notin A
    OBVIOUS
  <2> HIDE DEF A
  <2>4. Closed(p, A \cap S)
    BY <1>1, <1>3, <2>1, <2>3 DEF Closed
  <2>5. A \subseteq A \cap S
    BY <2>1, <2>2, <2>4, AboveFacts DEF A
  <2>6. PICK a \in A : p[a] = None
    BY DEF IsForest, A
  <2>7. a \in S /\ a \in Ids \ {n}
    BY <2>1, <2>3, <2>5
  <2> QED
    BY <1>1, <2>6, <2>7 DEF S
<1> QED
  BY <1>4, <1>5

\* New containers are roots, and nothing hung below them: parents are containers.
LEMMA InsertedForest ==
  ASSUME NEW p \in Parents, NEW r \in Parents, IsForest(p),
         \A c \in Ids : p[c] \in Ids => p[p[c]] # Absent,
         \A c \in Ids : r[c] = p[c] \/ (p[c] = Absent /\ r[c] = None)
  PROVE  IsForest(r)
<1> SUFFICES ASSUME NEW c \in Ids, r[c] # Absent
             PROVE  \E a \in Above(r, c) : r[a] = None
  BY DEF IsForest
<1> DEFINE S == Above(r, c)
<1>1. c \in S /\ S \subseteq Ids /\ Closed(r, S)
  BY AboveFacts
<1>2. CASE p[c] = Absent
  BY <1>1, <1>2
<1>3. CASE p[c] # Absent
  <2> HIDE DEF S
  <2>1. Closed(p, S)
    BY <1>1, NullsAssumption DEF Closed
  <2>2. Above(p, c) \subseteq S
    BY <1>1, <2>1, AboveFacts
  <2>3. PICK a \in Above(p, c) : p[a] = None
    BY <1>3 DEF IsForest
  <2>4. a \in S /\ r[a] = None
    BY <1>1, <2>2, <2>3, NullsAssumption
  <2> QED
    BY <2>4 DEF S
<1> QED
  BY <1>2, <1>3

-----------------------------------------------------------------------------
(* Sequences *)

LEMMA Appended ==
  ASSUME NEW S, NEW s \in Seq(S), NEW x \in S
  PROVE  /\ Append(s, x) \in Seq(S) /\ ToSet(Append(s, x)) = ToSet(s) \cup {x}
         /\ Len(Append(s, x)) = Len(s) + 1 /\ Len(s) \in Nat
<1>1. /\ Append(s, x) \in Seq(S) /\ Len(Append(s, x)) = Len(s) + 1 /\ Len(s) \in Nat
      /\ \A i \in 1..Len(s) : Append(s, x)[i] = s[i]
      /\ Append(s, x)[Len(s) + 1] = x
  OBVIOUS
<1>2. DOMAIN s = 1..Len(s) /\ DOMAIN Append(s, x) = 1..Len(s) + 1
  BY <1>1
<1>3. \A i \in 1..Len(s) + 1 : i \in 1..Len(s) \/ i = Len(s) + 1
  BY <1>1
<1>4. Len(s) + 1 \in 1..Len(s) + 1 /\ \A i \in 1..Len(s) : i \in 1..Len(s) + 1
  BY <1>1
<1> QED
  BY <1>1, <1>2, <1>3, <1>4 DEF ToSet

LEMMA Joined ==
  ASSUME NEW S, NEW s \in Seq(S), NEW t \in Seq(S)
  PROVE  s \o t \in Seq(S) /\ ToSet(s \o t) = ToSet(s) \cup ToSet(t)
<1>1. /\ s \o t \in Seq(S) /\ Len(s) \in Nat /\ Len(t) \in Nat /\ Len(s \o t) = Len(s) + Len(t)
      /\ \A i \in 1..Len(s) + Len(t) : (s \o t)[i] = IF i <= Len(s) THEN s[i] ELSE t[i - Len(s)]
  OBVIOUS
<1>2. DOMAIN s = 1..Len(s) /\ DOMAIN t = 1..Len(t) /\ DOMAIN (s \o t) = 1..Len(s) + Len(t)
  BY <1>1
<1>3. \A i \in 1..Len(s) + Len(t) : i \in 1..Len(s) \/ (i - Len(s) \in 1..Len(t) /\ ~ i <= Len(s))
  BY <1>1
<1>4. /\ \A i \in 1..Len(s) : i \in 1..Len(s) + Len(t) /\ i <= Len(s)
      /\ \A i \in 1..Len(t) : /\ Len(s) + i \in 1..Len(s) + Len(t) /\ ~ Len(s) + i <= Len(s)
                              /\ (Len(s) + i) - Len(s) = i
  BY <1>1
<1>5. ToSet(s \o t) \subseteq ToSet(s) \cup ToSet(t)
  BY <1>1, <1>2, <1>3 DEF ToSet
<1>6. ToSet(s) \subseteq ToSet(s \o t) /\ ToSet(t) \subseteq ToSet(s \o t)
  <2>1. \A i \in 1..Len(s) : i \in DOMAIN (s \o t) /\ (s \o t)[i] = s[i]
    BY <1>1, <1>2, <1>4
  <2>2. \A i \in 1..Len(t) : Len(s) + i \in DOMAIN (s \o t) /\ (s \o t)[Len(s) + i] = t[i]
    BY <1>1, <1>2, <1>4
  <2> QED
    BY <1>2, <2>1, <2>2 DEF ToSet
<1> QED
  BY <1>1, <1>5, <1>6

\* The head and the tail of a sequence that is not empty hold its members.
LEMMA Taken ==
  ASSUME NEW S, NEW s \in Seq(S), s # <<>>
  PROVE  Head(s) \in S /\ Head(s) \in ToSet(s) /\ Tail(s) \in Seq(S) /\ ToSet(Tail(s)) \subseteq ToSet(s)
<1>1. /\ Len(s) \in Nat /\ 1 \in 1..Len(s) /\ Head(s) = s[1] /\ Tail(s) \in Seq(S)
      /\ Len(Tail(s)) = Len(s) - 1
      /\ \A i \in 1..Len(s) - 1 : Tail(s)[i] = s[i + 1] /\ i + 1 \in 1..Len(s)
      /\ \A i \in 1..Len(s) : s[i] \in S
  OBVIOUS
<1>2. DOMAIN s = 1..Len(s) /\ DOMAIN Tail(s) = 1..Len(s) - 1
  BY <1>1
<1> QED
  BY <1>1, <1>2 DEF ToSet

\* What an ingest mentions and links are Message-IDs.
LEMMA ChainFacts ==
  ASSUME box \in Mailboxes, NEW m \in Ids
  PROVE  Chain(m) \in Seq(Ids) /\ m \in Mentioned(m) /\ Mentioned(m) \subseteq Ids
<1>1. box.refs[m] \in Seq(Ids) /\ box.inReplyTo[m] \in Ids \cup {None}
  BY MailboxesAssumption
<1>2. Chain(m) \in Seq(Ids)
  BY <1>1, Appended DEF Chain
<1> QED
  BY <1>2 DEF Mentioned, ToSet

LEMMA LinksFacts ==
  ASSUME box \in Mailboxes, NEW m \in Ids
  PROVE  /\ Links(m) \in Seq(Ids \X Ids)
         /\ \A link \in ToSet(Links(m)) : {link[1], link[2]} \subseteq Mentioned(m)
<1> DEFINE ids == Append(Chain(m), m)
<1>1. /\ ids \in Seq(Ids) /\ ToSet(ids) = Mentioned(m)
      /\ Len(ids) - 1 \in Nat /\ Len(ids) \in Nat
  BY ChainFacts, Appended DEF Mentioned
<1>2. Links(m) = [i \in 1..Len(ids) - 1 |-> <<ids[i], ids[i + 1]>>]
  BY DEF Links
<1> HIDE DEF ids
<1>3. DOMAIN ids = 1..Len(ids)
  BY <1>1
<1>4. \A i \in 1..Len(ids) - 1 : i \in DOMAIN ids /\ i + 1 \in DOMAIN ids
  BY <1>1, <1>3
<1>5. \A i \in DOMAIN ids : ids[i] \in ToSet(ids) /\ ids[i] \in Ids
  BY <1>1 DEF ToSet
<1>6. \A i \in 1..Len(ids) - 1 : /\ Links(m)[i] \in Ids \X Ids
                                 /\ {Links(m)[i][1], Links(m)[i][2]} \subseteq Mentioned(m)
  BY <1>1, <1>2, <1>4, <1>5
<1>7. Links(m) \in Seq(Ids \X Ids) /\ DOMAIN Links(m) = 1..Len(ids) - 1
  <2>1. DOMAIN Links(m) = 1..Len(ids) - 1
    BY <1>2
  <2>2. \A i \in 1..Len(ids) - 1 : Links(m)[i] \in Ids \X Ids
    BY <1>6
  <2>3. Links(m) \in [1..Len(ids) - 1 -> Ids \X Ids]
    BY <1>2, <2>1, <2>2
  <2> QED
    BY <1>1, <2>1, <2>3, SeqDef
<1> QED
  BY <1>6, <1>7 DEF ToSet

\* Missing(s) lists the ids of s that have no container.
LEMMA MissingFacts ==
  ASSUME NEW s \in Seq(Ids)
  PROVE  /\ Missing(s) \in Seq(Ids)
         /\ ToSet(Missing(s)) = {c \in ToSet(s) : parent[c] = Absent}
<1> DEFINE n == Len(s)
           More(k, t) == IF parent[s[k]] = Absent /\ s[k] \notin ToSet(t) THEN Append(t, s[k]) ELSE t
           step == [k \in 1..n |-> [t \in Seq(Ids) |-> More(k, t)]]
           Before(k) == {c \in {s[j] : j \in 1..k} : parent[c] = Absent}
<1>1. n \in Nat /\ DOMAIN s = 1..n /\ \A k \in 1..n : s[k] \in Ids
  OBVIOUS
<1>2. \A k \in 1..n, t \in Seq(Ids) : More(k, t) \in Seq(Ids)
  BY <1>1, Appended
<1>3. \A k \in 1..n, t \in Seq(Ids) : step[k][t] = More(k, t) /\ step[k][t] \in Seq(Ids)
  BY <1>2
<1> HIDE DEF n, More, step
<1>4. \A k \in 1..n : k - 1 \in 0..n /\ k \in 0..n /\ k # 0
  BY <1>1
<1>5. PICK h \in [0..n -> Seq(Ids)] : h[0] = <<>> /\ \A k \in 1..n : h[k] = step[k][h[k - 1]]
  <2>1. Solvable(n, Seq(Ids), <<>>, step)
    BY <1>1, Recursion
  <2> QED
    BY <1>3, <2>1 DEF Solvable
<1>6. \A k \in 1..n : h[k] = More(k, h[k - 1])
  BY <1>3, <1>4, <1>5
<1> DEFINE rec(g) == [k \in 0..n |-> IF k = 0 THEN <<>> ELSE More(k, g[k - 1])]
           new == CHOOSE g : g = rec(g)
<1>7. h = rec(h)
  <2>1. \A k \in 0..n : h[k] = IF k = 0 THEN <<>> ELSE More(k, h[k - 1])
    <3>1. \A k \in 0..n : k = 0 \/ k \in 1..n
      BY <1>1
    <3> QED
      BY <1>5, <1>6, <3>1
  <2> QED
    BY <2>1
<1>8. new = rec(new)
  BY <1>7
<1>9. Missing(s) = new[n]
  BY DEF Missing, More, n
<1> HIDE DEF new
<1>10. \A k \in 0..n : new[k] = IF k = 0 THEN <<>> ELSE More(k, new[k - 1])
  BY <1>8
<1>11. \A k \in 0..n : new[k] \in Seq(Ids) /\ ToSet(new[k]) = Before(k)
  <2> DEFINE Good == {k \in 0..n : new[k] \in Seq(Ids) /\ ToSet(new[k]) = Before(k)}
  <2>1. 0 \in Good
    <3>1. 0 \in 0..n /\ new[0] = <<>>
      BY <1>1, <1>10
    <3>2. ToSet(<<>>) = {} /\ Before(0) = {} /\ <<>> \in Seq(Ids)
      BY DEF ToSet
    <3> QED
      BY <3>1, <3>2
  <2>2. ASSUME NEW k \in 1..n, k - 1 \in Good
        PROVE  k \in Good
    <3>1. /\ new[k - 1] \in Seq(Ids) /\ ToSet(new[k - 1]) = Before(k - 1)
          /\ new[k] = More(k, new[k - 1]) /\ s[k] \in Ids /\ k \in 0..n
      BY <1>1, <1>4, <1>10, <2>2
    <3>2. Before(k) = Before(k - 1) \cup (IF parent[s[k]] = Absent THEN {s[k]} ELSE {})
      <4>1. \A j \in 1..k : j \in 1..(k - 1) \/ j = k
        BY <1>1
      <4>2. k \in 1..k /\ \A j \in 1..(k - 1) : j \in 1..k
        BY <1>1
      <4> QED
        BY <4>1, <4>2
    <3> HIDE DEF Before
    <3>3. CASE parent[s[k]] = Absent /\ s[k] \notin ToSet(new[k - 1])
      <4>1. new[k] = Append(new[k - 1], s[k])
        BY <3>1, <3>3 DEF More
      <4>2. new[k] \in Seq(Ids) /\ ToSet(new[k]) = ToSet(new[k - 1]) \cup {s[k]}
        BY <3>1, <4>1, Appended
      <4> QED
        BY <3>1, <3>2, <3>3, <4>2
    <3>4. CASE ~(parent[s[k]] = Absent /\ s[k] \notin ToSet(new[k - 1]))
      BY <3>1, <3>2, <3>4 DEF More
    <3> QED
      BY <3>3, <3>4
  <2> HIDE DEF Good
  <2>3. \A k \in 0..n : k \in Good
    BY <1>1, <2>1, <2>2, UpTo
  <2> QED
    BY <2>3 DEF Good
<1>12. n \in 0..n /\ ToSet(s) = {s[j] : j \in 1..n}
  BY <1>1 DEF ToSet
<1> QED
  BY <1>9, <1>11, <1>12

-----------------------------------------------------------------------------
(* Types, and what an ingest knows: ThreadTypeOK and ContainersInv, job by job *)

\* What they say of all but the jobs.
RestOK ==
    /\ box \in Mailboxes
    /\ parent \in Parents
    /\ \A c \in Containers : parent[c] \in Containers \cup {None}
    /\ root \in [Ids -> Ids \cup {None}] /\ \A c \in Ids : root[c] = None <=> c \notin Containers
    /\ norm \in [Ids -> Norms]
    /\ order \in Seq(Ids) /\ ToSet(order) = Containers
    /\ thread \in [Ids -> Ids \cup {None, Absent}]
    /\ ingested \subseteq Ids
    /\ crashes \in 0..box.crashes

\* What they say of a job, where C are the containers.
JobOK(j, C) ==
    /\ j \in Jobs
    /\ j.at \in {"away", "idle"} <=> j.msg = None
    /\ j.at \in {"check", "write"} => j.link # <<>> /\ {j.link[1], j.link[2]} \subseteq C
    /\ j.at \in {"old", "subtree", "oldtree", "threads", "persist"} => j.root # None
    /\ \A link \in ToSet(j.links) : {link[1], link[2]} \subseteq Mentioned(j.msg)
    /\ j.at \notin {"away", "idle", "container"} => j.msg \in C
    /\ j.at \notin {"away", "idle", "container", "placeholders"} => Mentioned(j.msg) \subseteq C

AllOK == RestOK /\ job \in [Ingesters -> Jobs] /\ \A i \in Ingesters : JobOK(job[i], Containers)

LEMMA OneByOne == ThreadTypeOK /\ ContainersInv <=> AllOK
BY DEF ThreadTypeOK, ContainersInv, AllOK, RestOK, JobOK, Parents

\* Everything that jobs are compared with stays, if the mailbox does.
LEMMA SameBox ==
  ASSUME box' = box
  PROVE  /\ Norms' = Norms /\ Jobs' = Jobs
         /\ \A m : Chain(m)' = Chain(m) /\ Mentioned(m)' = Mentioned(m) /\ Links(m)' = Links(m)
         /\ \A j, C : JobOK(j, C)' <=> JobOK(j, C)
<1>1. Norms' = Norms /\ \A m : Chain(m)' = Chain(m)
  BY DEF Norms, Chain
<1>2. Jobs' = Jobs /\ \A m : Mentioned(m)' = Mentioned(m) /\ Links(m)' = Links(m)
  BY <1>1 DEF Jobs, Mentioned, Links
<1> QED
  BY <1>1, <1>2 DEF JobOK

\* Containers are only added, so that the other jobs stay right.
LEMMA OneJobMoves ==
  ASSUME AllOK, RestOK', box' = box, Containers \subseteq Containers',
         NEW i \in Ingesters, NEW j, job' = [job EXCEPT ![i] = j], JobOK(j, Containers')
  PROVE  AllOK'
<1>1. job \in [Ingesters -> Jobs] /\ \A k \in Ingesters : JobOK(job[k], Containers)
  BY DEF AllOK
<1>2. j \in Jobs
  BY DEF JobOK
<1>3. job' \in [Ingesters -> Jobs] /\ \A k \in Ingesters : job'[k] = IF k = i THEN j ELSE job[k]
  BY <1>1, <1>2
<1>4. \A k \in Ingesters : JobOK(job[k], Containers')
  BY <1>1 DEF JobOK
<1>5. \A k \in Ingesters : JobOK(job'[k], Containers')
  BY <1>3, <1>4
<1>6. job' \in [Ingesters -> Jobs'] /\ \A k \in Ingesters : JobOK(job[k], Containers)'
  BY <1>3, <1>5, SameBox
<1> QED
  BY <1>6 DEF AllOK

\* A step that leaves the forest and the rows alone.
LEMMA JobAloneMoves ==
  ASSUME AllOK, UNCHANGED <<tree, thread, box>>, ingested' \subseteq Ids, crashes' \in 0..box.crashes,
         NEW i \in Ingesters, NEW j, job' = [job EXCEPT ![i] = j], JobOK(j, Containers)
  PROVE  AllOK'
<1>1. Containers' = Containers
  BY DEF Containers, tree
<1>2. RestOK'
  BY <1>1, SameBox DEF AllOK, RestOK, tree
<1> QED
  BY <1>1, <1>2, OneJobMoves

\* The jobs there are between two ingests.
LEMMA IdleJob ==
  ASSUME box \in Mailboxes, NEW C
  PROVE  /\ JobOK(NoJob, C) /\ JobOK(Away, C)
         /\ NoJob.at = "idle" /\ Away.at = "away"
<1>1. NoJob \in Jobs
  BY DEF NoJob, Jobs, Steps, Norms
<1>2. Away \in Jobs /\ Away.msg = None /\ Away.links = <<>> /\ Away.at = "away"
  BY <1>1 DEF Away, NoJob, Jobs, Steps
<1>3. ToSet(<<>>) = {}
  BY DEF ToSet
<1> QED
  BY <1>1, <1>2, <1>3 DEF JobOK, NoJob

\* A job that goes on to another step and knows what it needs there.
LEMMA OnTo ==
  ASSUME NEW j, NEW C, JobOK(j, C), j.at \notin {"away", "idle"}, NEW at \in Steps \ {"away", "idle"},
         at \in {"check", "write"} => j.at \in {"check", "write"},
         at \in {"old", "subtree", "oldtree", "threads", "persist"} => j.root # None,
         at # "container" => j.msg \in C,
         at \notin {"container", "placeholders"} => Mentioned(j.msg) \subseteq C
  PROVE  JobOK([j EXCEPT !.at = at], C)
<1>1. j \in Jobs
  BY DEF JobOK
<1> DEFINE k == [j EXCEPT !.at = at]
<1>2. /\ k \in Jobs /\ k.at = at
      /\ k.msg = j.msg /\ k.norm = j.norm /\ k.links = j.links /\ k.link = j.link
      /\ k.grouped = j.grouped /\ k.root = j.root /\ k.old = j.old
  BY <1>1 DEF Jobs
<1> HIDE DEF k
<1>3. JobOK(k, C)
  BY <1>2 DEF JobOK
<1> QED
  BY <1>3 DEF k

\* A single field of the record changes at a time.
LEMMA JobSteps ==
  ASSUME AllOK, NEW i \in Ingesters, NEW at, Goto(i, at)
  PROVE  job' = [job EXCEPT ![i] = [job[i] EXCEPT !.at = at]]
BY DEF AllOK, Goto

\* Statements that read, and a process that dies: only the job moves on.
LEMMA BeginKeeps ==
  ASSUME AllOK, NEW i \in Ingesters, NEW m \in Ids, Begin(i, m)
  PROVE  AllOK'
<1> DEFINE nm == IF thread[m] = Absent THEN None ELSE box.subject[m].norm
           j == [NoJob EXCEPT !.at = "container", !.msg = m, !.links = Links(m), !.norm = nm]
<1>1. job' = [job EXCEPT ![i] = j]
  BY DEF Begin
<1>0. nm \in Norms
  BY DEF Norms
<1> HIDE DEF nm
<1>3. /\ Links(m) \in Seq(Ids \X Ids)
      /\ \A link \in ToSet(Links(m)) : {link[1], link[2]} \subseteq Mentioned(m)
  BY LinksFacts DEF AllOK, RestOK
<1>2. NoJob \in Jobs
  BY IdleJob DEF AllOK, RestOK, JobOK
<1>4. j \in Jobs /\ j.at = "container" /\ j.msg = m /\ j.links = Links(m)
  BY <1>0, <1>2, <1>3 DEF Jobs, Steps
<1> HIDE DEF j
<1>5. JobOK(j, Containers)
  BY <1>3, <1>4, NullsAssumption DEF JobOK
<1>6. UNCHANGED <<tree, thread, ingested, crashes, box>>
  BY DEF Begin
<1> QED
  BY <1>1, <1>5, <1>6, JobAloneMoves DEF AllOK, RestOK

LEMMA LinkReadKeeps ==
  ASSUME AllOK, NEW i \in Ingesters, LinkRead(i)
  PROVE  AllOK'
<1> DEFINE p == job[i]
           link == Head(p.links)
           at == IF parent[link[2]] = None THEN "check" ELSE "link"
           j == [p EXCEPT !.links = Tail(@), !.link = link, !.at = at]
<1>1. p \in Jobs /\ JobOK(p, Containers) /\ p.at = "link" /\ p.links # <<>>
  BY DEF AllOK, LinkRead
<1>2. job' = [job EXCEPT ![i] = j]
  BY DEF AllOK, LinkRead
<1>3. /\ link \in Ids \X Ids /\ link \in ToSet(p.links)
      /\ Tail(p.links) \in Seq(Ids \X Ids) /\ ToSet(Tail(p.links)) \subseteq ToSet(p.links)
  <2>1. p.links \in Seq(Ids \X Ids)
    BY <1>1 DEF Jobs
  <2> QED
    BY <1>1, <2>1, Taken
<1>4. at \in {"check", "link"}
  OBVIOUS
<1> HIDE DEF at, link
<1>5. /\ j.at = at /\ j.links = Tail(p.links) /\ j.link = link
      /\ j.msg = p.msg /\ j.norm = p.norm /\ j.grouped = p.grouped /\ j.root = p.root /\ j.old = p.old
      /\ j \in Jobs
  BY <1>1, <1>3, <1>4 DEF Jobs, Steps
<1> HIDE DEF j, p
<1>6. link # <<>>
  BY <1>3
<1>7. {link[1], link[2]} \subseteq Mentioned(p.msg) /\ Mentioned(p.msg) \subseteq Containers
  BY <1>1, <1>3 DEF JobOK
<1>8. JobOK(j, Containers)
  BY <1>1, <1>3, <1>4, <1>5, <1>6, <1>7 DEF JobOK
<1>9. UNCHANGED <<tree, thread, ingested, crashes, box>>
  BY DEF LinkRead
<1> QED
  BY <1>2, <1>8, <1>9, JobAloneMoves DEF AllOK, RestOK

LEMMA LinkCheckKeeps ==
  ASSUME AllOK, NEW i \in Ingesters, LinkCheck(i)
  PROVE  AllOK'
<1> DEFINE at == IF ~WouldCreateCycle(job[i].link[2], job[i].link[1]) THEN "write"
                 ELSE IF job[i].grouped THEN "root" ELSE "link"
<1>1. Goto(i, at) /\ job[i].at = "check" /\ UNCHANGED <<tree, thread, ingested, crashes, box>>
  BY DEF LinkCheck
<1>2. at \in {"write", "root", "link"}
  OBVIOUS
<1> HIDE DEF at
<1>3. job' = [job EXCEPT ![i] = [job[i] EXCEPT !.at = at]]
  BY <1>1, JobSteps
<1>4. JobOK(job[i], Containers)
  BY DEF AllOK
<1>5. JobOK([job[i] EXCEPT !.at = at], Containers)
  BY <1>1, <1>2, <1>4, OnTo DEF Steps, JobOK
<1> QED
  BY <1>1, <1>3, <1>5, JobAloneMoves DEF AllOK, RestOK

LEMMA GroupReadKeeps ==
  ASSUME AllOK, NEW i \in Ingesters, GroupRead(i)
  PROVE  AllOK'
<1> DEFINE at == IF parent[job[i].msg] = None /\ job[i].norm # None THEN "group" ELSE "root"
<1>1. Goto(i, at) /\ job[i].at = "link" /\ UNCHANGED <<tree, thread, ingested, crashes, box>>
  BY DEF GroupRead
<1>2. at \in {"group", "root"}
  OBVIOUS
<1> HIDE DEF at
<1>3. job' = [job EXCEPT ![i] = [job[i] EXCEPT !.at = at]]
  BY <1>1, JobSteps
<1>4. JobOK(job[i], Containers)
  BY DEF AllOK
<1>5. JobOK([job[i] EXCEPT !.at = at], Containers)
  BY <1>1, <1>2, <1>4, OnTo DEF Steps, JobOK
<1> QED
  BY <1>1, <1>3, <1>5, JobAloneMoves DEF AllOK, RestOK

\* The oldest other root that GroupFind links to is a container.
LEMMA GroupForms ==
  ASSUME AllOK, NEW i \in Ingesters, GroupFind(i)
  PROVE  \/ job' = [job EXCEPT ![i].at = "root", ![i].grouped = FALSE]
         \/ \E c \in Containers :
               /\ c # job[i].msg /\ parent[c] = None /\ norm[c] = job[i].norm
               /\ job' = [job EXCEPT ![i].at = "check", ![i].grouped = TRUE,
                                     ![i].link = <<c, job[i].msg>>]
<1> DEFINE m == job[i].msg
           others == {k \in DOMAIN order :
                         order[k] # m /\ norm[order[k]] = job[i].norm /\ parent[order[k]] = None}
           first == CHOOSE k \in others : \A l \in others : k <= l
           reply(c) == c \in box.byId /\ thread[c] # Absent /\ box.subject[c].reply
           grouped == others # {} /\ (box.subject[m].reply \/ reply(order[first]))
<1>1. job' = [job EXCEPT ![i].at = IF grouped THEN "check" ELSE "root",
                         ![i].grouped = grouped,
                         ![i].link = IF grouped THEN <<order[first], m>> ELSE @]
  BY DEF GroupFind
<1>2. CASE ~grouped
  <2> HIDE DEF grouped
  <2>1. grouped = FALSE \/ grouped = TRUE
    BY DEF grouped
  <2> HIDE DEF m, first
  <2>2. job' = [job EXCEPT ![i].at = "root", ![i].grouped = FALSE, ![i].link = @]
    BY <1>1, <1>2, <2>1
  <2>3. job[i] \in Jobs /\ job \in [Ingesters -> Jobs]
    BY DEF AllOK
  <2>4. [job[i] EXCEPT !.at = "root", !.grouped = FALSE, !.link = @]
          = [job[i] EXCEPT !.at = "root", !.grouped = FALSE]
    BY <2>3 DEF Jobs
  <2> QED
    BY <2>2, <2>3, <2>4
<1>3. CASE grouped
  <2>0. DOMAIN order = 1..Len(order) /\ Len(order) \in Nat
    BY DEF AllOK, RestOK
  <2>1. others \subseteq DOMAIN order /\ others # {}
    BY <1>3
  <2>2. first \in others
    <3> HIDE DEF others
    <3>1. \E k \in others : \A l \in others : k <= l
      BY <2>0, <2>1, LeastExists
    <3> QED
      BY <3>1
  <2>3. /\ order[first] \in Containers /\ order[first] # m /\ parent[order[first]] = None
        /\ norm[order[first]] = job[i].norm
    BY <2>2 DEF AllOK, RestOK, ToSet
  <2>4. (grouped = TRUE) <=> TRUE
    BY <1>3
  <2> HIDE DEF grouped, first, m
  <2>5. job' = [job EXCEPT ![i].at = "check", ![i].grouped = TRUE, ![i].link = <<order[first], m>>]
    BY <1>1, <1>3, <2>4 DEF grouped
  <2> QED
    BY <2>3, <2>5 DEF m
<1> QED
  BY <1>2, <1>3

LEMMA GroupFindKeeps ==
  ASSUME AllOK, NEW i \in Ingesters, GroupFind(i)
  PROVE  AllOK'
<1> DEFINE p == job[i]
<1>1. p \in Jobs /\ JobOK(p, Containers) /\ p.at = "group" /\ job \in [Ingesters -> Jobs]
  BY DEF AllOK, GroupFind
<1>2. UNCHANGED <<tree, thread, ingested, crashes, box>>
  BY DEF GroupFind
<1>3. ASSUME NEW j, job' = [job EXCEPT ![i] = j], JobOK(j, Containers)
      PROVE  AllOK'
  BY <1>2, <1>3, JobAloneMoves DEF AllOK, RestOK
<1>4. CASE job' = [job EXCEPT ![i].at = "root", ![i].grouped = FALSE]
  <2> DEFINE j == [p EXCEPT !.at = "root", !.grouped = FALSE]
  <2>1. job' = [job EXCEPT ![i] = j]
    BY <1>1, <1>4
  <2>2. /\ j \in Jobs /\ j.at = "root" /\ j.msg = p.msg /\ j.links = p.links
    BY <1>1 DEF Jobs, Steps
  <2> HIDE DEF j, p
  <2>3. JobOK(j, Containers)
    BY <1>1, <2>2 DEF JobOK
  <2> QED
    BY <1>3, <2>1, <2>3
<1>5. ASSUME NEW c \in Containers,
             job' = [job EXCEPT ![i].at = "check", ![i].grouped = TRUE, ![i].link = <<c, job[i].msg>>]
      PROVE  AllOK'
  <2> DEFINE j == [p EXCEPT !.at = "check", !.grouped = TRUE, !.link = <<c, p.msg>>]
  <2>1. job' = [job EXCEPT ![i] = j]
    BY <1>1, <1>5
  <2>2. p.msg \in Containers /\ Containers \subseteq Ids
    BY <1>1 DEF JobOK, Containers
  <2>3. <<c, p.msg>> \in Ids \X Ids /\ <<c, p.msg>> # <<>>
    BY <2>2
  <2>4. /\ j \in Jobs /\ j.at = "check" /\ j.msg = p.msg /\ j.links = p.links /\ j.link = <<c, p.msg>>
    BY <1>1, <2>3 DEF Jobs, Steps
  <2> HIDE DEF j, p
  <2>5. JobOK(j, Containers)
    BY <1>1, <2>2, <2>3, <2>4 DEF JobOK
  <2> QED
    BY <1>3, <2>1, <2>5
<1> QED
  BY <1>4, <1>5, GroupForms

LEMMA FindRootKeeps ==
  ASSUME AllOK, NEW i \in Ingesters, FindRoot(i)
  PROVE  AllOK'
<1> DEFINE p == job[i]
<1>1. p \in Jobs /\ JobOK(p, Containers) /\ p.at = "root" /\ job \in [Ingesters -> Jobs]
  BY DEF AllOK, FindRoot
<1>2. UNCHANGED <<tree, thread, ingested, crashes, box>>
  BY DEF FindRoot
<1>3. ASSUME NEW j, job' = [job EXCEPT ![i] = j], JobOK(j, Containers)
      PROVE  AllOK'
  BY <1>2, <1>3, JobAloneMoves DEF AllOK, RestOK
<1>4. CASE job' = [job EXCEPT ![i] = NoJob]
  BY <1>3, <1>4, IdleJob DEF AllOK, RestOK
<1>5. ASSUME NEW r \in RootsAbove(p.msg), job' = [job EXCEPT ![i].at = "old", ![i].root = r]
      PROVE  AllOK'
  <2> DEFINE j == [p EXCEPT !.at = "old", !.root = r]
  <2>1. p.msg \in Ids
    BY <1>1 DEF JobOK, Containers
  <2>2. r \in Ids
    BY <2>1, AncestorsAbove, AboveFacts DEF RootsAbove, AllOK, RestOK
  <2>3. job' = [job EXCEPT ![i] = j]
    BY <1>1, <1>5
  <2>4. /\ j \in Jobs /\ j.at = "old" /\ j.msg = p.msg /\ j.links = p.links /\ j.root = r
    BY <1>1, <2>2 DEF Jobs, Steps
  <2> HIDE DEF j, p
  <2>5. JobOK(j, Containers)
    BY <1>1, <2>2, <2>4, NullsAssumption DEF JobOK
  <2> QED
    BY <1>3, <2>3, <2>5
<1> QED
  BY <1>4, <1>5 DEF FindRoot

LEMMA ReadOldRootKeeps ==
  ASSUME AllOK, NEW i \in Ingesters, ReadOldRoot(i)
  PROVE  AllOK'
<1> DEFINE p == job[i]
           old == root[p.msg]
           at == IF old = p.root THEN "threads" ELSE "subtree"
           j == [p EXCEPT !.old = old, !.at = at]
<1>1. p \in Jobs /\ JobOK(p, Containers) /\ p.at = "old" /\ job \in [Ingesters -> Jobs]
  BY DEF AllOK, ReadOldRoot
<1>2. job' = [job EXCEPT ![i] = j]
  BY <1>1 DEF ReadOldRoot
<1>3. at \in {"threads", "subtree"} /\ old \in Ids \cup {None}
  BY <1>1 DEF JobOK, Containers, AllOK, RestOK
<1> HIDE DEF at, old
<1>4. /\ j \in Jobs /\ j.at = at /\ j.msg = p.msg /\ j.links = p.links /\ j.root = p.root
  BY <1>1, <1>3 DEF Jobs, Steps
<1> HIDE DEF j, p
<1>5. JobOK(j, Containers)
  BY <1>1, <1>3, <1>4 DEF JobOK
<1>6. UNCHANGED <<tree, thread, ingested, crashes, box>>
  BY DEF ReadOldRoot
<1> QED
  BY <1>2, <1>5, <1>6, JobAloneMoves DEF AllOK, RestOK

LEMMA CrashKeeps ==
  ASSUME AllOK, NEW i \in Ingesters, Crash(i)
  PROVE  AllOK'
<1>1. job' = [job EXCEPT ![i] = NoJob] /\ UNCHANGED <<tree, thread, ingested, box>>
  BY DEF Crash
<1>2. JobOK(NoJob, Containers)
  BY IdleJob DEF AllOK, RestOK
<1>3. crashes' \in 0..box.crashes
  BY MailboxesAssumption DEF AllOK, RestOK, Crash
<1> QED
  BY <1>1, <1>2, <1>3, JobAloneMoves DEF AllOK, RestOK

\* The statements that insert containers.
LEMMA InsertKeeps ==
  ASSUME AllOK, NEW new \in SUBSET Ids, Insert(new)
  PROVE  /\ parent' \in Parents /\ Containers' = Containers \cup new
         /\ \A c \in Ids : parent'[c] = parent[c] \/ (parent[c] = Absent /\ parent'[c] = None)
         /\ \A c \in Containers' : parent'[c] \in Containers' \cup {None}
         /\ root' \in [Ids -> Ids \cup {None}]
         /\ \A c \in Ids : root'[c] = None <=> c \notin Containers'
<1>1. /\ parent' = [c \in Ids |-> IF c \in new /\ parent[c] = Absent THEN None ELSE parent[c]]
      /\ root' = [c \in Ids |-> IF c \in new /\ parent[c] = Absent THEN c ELSE root[c]]
  BY DEF Insert
<1>2. parent \in Parents /\ root \in [Ids -> Ids \cup {None}]
  BY DEF AllOK, RestOK
<1>3. parent' \in Parents /\ root' \in [Ids -> Ids \cup {None}]
  BY <1>1, <1>2 DEF Parents
<1>4. \A c \in Ids : /\ parent'[c] = IF c \in new /\ parent[c] = Absent THEN None ELSE parent[c]
                     /\ root'[c] = IF c \in new /\ parent[c] = Absent THEN c ELSE root[c]
  BY <1>1
<1>5. Containers' = Containers \cup new
  BY <1>4, NullsAssumption DEF Containers
<1>6. /\ \A c \in Containers : parent[c] \in Containers \cup {None}
      /\ \A c \in Ids : root[c] = None <=> c \notin Containers
  BY DEF AllOK, RestOK
<1>7. \A c \in Containers' : parent'[c] \in Containers' \cup {None}
  BY <1>4, <1>5, <1>6 DEF Containers
<1>8. \A c \in Ids : root'[c] = None <=> c \notin Containers'
  BY <1>4, <1>5, <1>6, NullsAssumption DEF Containers
<1> QED
  BY <1>3, <1>4, <1>5, <1>7, <1>8

LEMMA UpsertKeeps ==
  ASSUME AllOK, NEW i \in Ingesters, UpsertContainer(i)
  PROVE  AllOK'
<1> DEFINE p == job[i]
           j == [p EXCEPT !.at = "placeholders"]
<1>1. p \in Jobs /\ JobOK(p, Containers) /\ p.at = "container"
  BY DEF AllOK, UpsertContainer
<1>2. p.msg \in Ids
  BY <1>1, NullsAssumption DEF JobOK, Jobs
<1>3. Insert({p.msg}) /\ UNCHANGED <<thread, ingested, crashes, box>>
  BY DEF UpsertContainer
<1>4. Containers' = Containers \cup {p.msg}
  BY <1>2, <1>3, InsertKeeps
<1>5. order' \in Seq(Ids) /\ ToSet(order') = Containers'
  <2>1. order \in Seq(Ids) /\ ToSet(order) = Containers
    BY DEF AllOK, RestOK
  <2>2. order' = IF parent[p.msg] = Absent THEN Append(order, p.msg) ELSE order
    BY DEF UpsertContainer
  <2>3. parent[p.msg] # Absent => p.msg \in Containers
    BY <1>2 DEF Containers
  <2> HIDE DEF p
  <2>4. CASE parent[p.msg] = Absent
    BY <1>2, <1>4, <2>1, <2>2, <2>4, Appended
  <2>5. CASE parent[p.msg] # Absent
    BY <1>4, <2>1, <2>2, <2>3, <2>5
  <2> QED
    BY <2>4, <2>5
<1>6. norm' \in [Ids -> Norms]
  <2>1. norm \in [Ids -> Norms] /\ p.norm \in Norms
    BY <1>1 DEF AllOK, RestOK, Jobs
  <2> QED
    BY <2>1 DEF UpsertContainer
<1>7. RestOK'
  BY <1>2, <1>3, <1>5, <1>6, InsertKeeps, SameBox DEF AllOK, RestOK
<1>8. job' = [job EXCEPT ![i] = j]
  BY JobSteps DEF UpsertContainer
<1>9. JobOK(p, Containers')
  BY <1>1, <1>4 DEF JobOK
<1> HIDE DEF p
<1>10. JobOK(j, Containers')
  BY <1>1, <1>4, <1>9, OnTo DEF Steps
<1> HIDE DEF j
<1> QED
  BY <1>3, <1>4, <1>7, <1>8, <1>10, OneJobMoves

LEMMA PlaceholdersKeep ==
  ASSUME AllOK, NEW i \in Ingesters, AddPlaceholders(i)
  PROVE  AllOK'
<1> DEFINE p == job[i]
           chain == Chain(p.msg)
           j == [p EXCEPT !.at = "link"]
<1>1. p \in Jobs /\ JobOK(p, Containers) /\ p.at = "placeholders"
  BY DEF AllOK, AddPlaceholders
<1>2. p.msg \in Ids /\ p.msg \in Containers
  BY <1>1 DEF JobOK, Containers
<1>3. /\ Insert(ToSet(chain)) /\ order' = order \o Missing(chain)
      /\ UNCHANGED <<norm, thread, ingested, crashes, box>>
  BY DEF AddPlaceholders
<1>4. chain \in Seq(Ids) /\ Mentioned(p.msg) = ToSet(chain) \cup {p.msg}
  BY <1>2, ChainFacts DEF AllOK, RestOK, Mentioned
<1> HIDE DEF chain, p
<1>5. ToSet(chain) \in SUBSET Ids
  BY <1>4 DEF ToSet
<1>6. Containers' = Containers \cup ToSet(chain)
  BY <1>3, <1>5, InsertKeeps
<1>7. order' \in Seq(Ids) /\ ToSet(order') = Containers'
  <2>1. order \in Seq(Ids) /\ ToSet(order) = Containers
    BY DEF AllOK, RestOK
  <2>2. /\ Missing(chain) \in Seq(Ids)
        /\ ToSet(Missing(chain)) = {c \in ToSet(chain) : parent[c] = Absent}
    BY <1>4, MissingFacts
  <2>3. order' \in Seq(Ids) /\ ToSet(order') = ToSet(order) \cup ToSet(Missing(chain))
    BY <1>3, <2>1, <2>2, Joined
  <2>4. \A c \in ToSet(chain) : parent[c] # Absent => c \in Containers
    BY <1>5 DEF Containers
  <2> QED
    BY <1>6, <2>1, <2>2, <2>3, <2>4
<1>8. RestOK'
  BY <1>3, <1>5, <1>7, InsertKeeps, SameBox DEF AllOK, RestOK
<1>9. job' = [job EXCEPT ![i] = j]
  BY JobSteps DEF AddPlaceholders, p
<1>10. JobOK(p, Containers')
  BY <1>1, <1>6 DEF JobOK
<1>11. JobOK(j, Containers')
  BY <1>1, <1>2, <1>4, <1>6, <1>10, OnTo DEF Steps
<1> HIDE DEF j
<1> QED
  BY <1>3, <1>6, <1>8, <1>9, <1>11, OneJobMoves

LEMMA LinkWriteKeeps ==
  ASSUME AllOK, NEW i \in Ingesters, LinkWrite(i)
  PROVE  AllOK'
<1> DEFINE p == job[i]
           at == IF p.grouped THEN "root" ELSE "link"
           j == [p EXCEPT !.at = at]
<1>1. p \in Jobs /\ JobOK(p, Containers) /\ p.at = "write"
  BY DEF AllOK, LinkWrite
<1>2. p.link[1] \in Containers /\ p.link[2] \in Containers /\ Containers \subseteq Ids
  BY <1>1 DEF JobOK, Containers
<1>3. /\ parent' = [parent EXCEPT ![p.link[2]] = p.link[1]] /\ Goto(i, at)
      /\ UNCHANGED <<root, norm, order, thread, ingested, crashes, box>>
  BY DEF LinkWrite
<1>4. at \in {"root", "link"}
  OBVIOUS
<1> HIDE DEF at, p
<1>5. parent \in Parents /\ \A c \in Containers : parent[c] \in Containers \cup {None}
  BY DEF AllOK, RestOK
<1>6. parent' \in Parents /\ \A c \in Ids : parent'[c] = IF c = p.link[2] THEN p.link[1] ELSE parent[c]
  BY <1>2, <1>3, <1>5 DEF Parents
<1>7. Containers' = Containers
  BY <1>2, <1>6, NullsAssumption DEF Containers
<1>8. \A c \in Containers : parent'[c] \in Containers \cup {None}
  BY <1>2, <1>5, <1>6
<1>9. RestOK'
  BY <1>3, <1>6, <1>7, <1>8, SameBox DEF AllOK, RestOK
<1>10. job' = [job EXCEPT ![i] = j]
  BY <1>3, JobSteps DEF p
<1>11. JobOK(j, Containers')
  <2>1. p.msg \in Containers /\ Mentioned(p.msg) \subseteq Containers
    BY <1>1 DEF JobOK
  <2> QED
    BY <1>1, <1>4, <1>7, <2>1, OnTo DEF Steps
<1> HIDE DEF j
<1> QED
  BY <1>3, <1>7, <1>9, <1>10, <1>11, OneJobMoves

\* A root that was found is written to containers only.
LEMMA RewriteKeeps ==
  ASSUME AllOK, NEW i \in Ingesters, RewriteSubtree(i) \/ RewriteOldTree(i)
  PROVE  AllOK'
<1> DEFINE p == job[i]
<1>1. PICK cs \in SUBSET Containers, at \in {"oldtree", "threads"} :
          /\ SetRoot(cs, p.root) /\ Goto(i, at)
          /\ UNCHANGED <<parent, norm, order, thread, ingested, crashes, box>>
  <2>1. \A tops : Subtree(tops) \in SUBSET Containers
    BY DEF Subtree
  <2> QED
    BY <2>1 DEF RewriteSubtree, RewriteOldTree
<1>2. p \in Jobs /\ JobOK(p, Containers) /\ p.at \in {"subtree", "oldtree"}
  BY DEF AllOK, RewriteSubtree, RewriteOldTree
<1>3. p.root \in Ids /\ p.root # None /\ p.msg \in Containers /\ Mentioned(p.msg) \subseteq Containers
  BY <1>2, NullsAssumption DEF JobOK, Jobs
<1> DEFINE j == [p EXCEPT !.at = at]
<1>4. job' = [job EXCEPT ![i] = j]
  BY <1>1, JobSteps
<1> HIDE DEF p
<1>5. JobOK(j, Containers)
  BY <1>1, <1>2, <1>3, OnTo DEF Steps
<1> HIDE DEF j
<1>6. Containers' = Containers
  BY <1>1 DEF Containers
<1>7. root' \in [Ids -> Ids \cup {None}] /\ \A c \in Ids : root'[c] = None <=> c \notin Containers
  <2>1. root \in [Ids -> Ids \cup {None}] /\ \A c \in Ids : root[c] = None <=> c \notin Containers
    BY DEF AllOK, RestOK
  <2>2. root' = [c \in Ids |-> IF c \in cs THEN p.root ELSE root[c]]
    BY <1>1 DEF SetRoot
  <2> QED
    BY <1>3, <2>1, <2>2
<1>8. RestOK'
  BY <1>1, <1>6, <1>7, SameBox DEF AllOK, RestOK
<1> QED
  BY <1>1, <1>4, <1>5, <1>6, <1>8, OneJobMoves

LEMMA ThreadKeeps ==
  ASSUME AllOK, NEW i \in Ingesters, ThreadMessages(i) \/ Persist(i)
  PROVE  AllOK'
<1> DEFINE p == job[i]
<1>1. p \in Jobs /\ JobOK(p, Containers) /\ p.at \in {"threads", "persist"}
  BY DEF AllOK, ThreadMessages, Persist
<1>2. p.root \in Ids /\ p.msg \in Containers /\ p.msg \in Ids /\ Mentioned(p.msg) \subseteq Containers
  BY <1>1, NullsAssumption DEF JobOK, Jobs, Containers
<1>3. UNCHANGED <<tree, crashes, box>> /\ thread \in [Ids -> Ids \cup {None, Absent}]
  BY DEF AllOK, RestOK, ThreadMessages, Persist
<1>4. Containers' = Containers
  BY <1>3 DEF Containers, tree
<1>5. thread' \in [Ids -> Ids \cup {None, Absent}] /\ ingested' \subseteq Ids
  <2>1. CASE ThreadMessages(i)
    BY <1>2, <1>3, <2>1 DEF ThreadMessages, AllOK, RestOK
  <2>2. CASE Persist(i)
    BY <1>2, <1>3, <2>2 DEF Persist, AllOK, RestOK
  <2> QED
    BY <2>1, <2>2
<1>6. RestOK'
  BY <1>3, <1>4, <1>5, SameBox DEF AllOK, RestOK, tree
<1>7. CASE ThreadMessages(i)
  <2>1. job' = [job EXCEPT ![i] = [p EXCEPT !.at = "persist"]]
    BY <1>7, JobSteps DEF ThreadMessages
  <2> HIDE DEF p
  <2>2. JobOK([p EXCEPT !.at = "persist"], Containers)
    BY <1>1, <1>2, NullsAssumption, OnTo DEF Steps
  <2> QED
    BY <1>3, <1>4, <1>6, <2>1, <2>2, OneJobMoves
<1>8. CASE Persist(i)
  <2>1. job' = [job EXCEPT ![i] = NoJob]
    BY <1>8 DEF Persist
  <2>2. JobOK(NoJob, Containers)
    BY IdleJob DEF AllOK, RestOK
  <2> QED
    BY <1>3, <1>4, <1>6, <2>1, <2>2, OneJobMoves
<1> QED
  BY <1>7, <1>8

LEMMA RowsKeep ==
  ASSUME AllOK, NEW m \in Ids, Arrive(m) \/ Expunge(m)
  PROVE  AllOK'
<1>1. UNCHANGED <<tree, job, ingested, crashes, box>> /\ thread' \in [Ids -> Ids \cup {None, Absent}]
  BY DEF AllOK, RestOK, Arrive, Expunge
<1>2. Containers' = Containers
  BY <1>1 DEF Containers, tree
<1> QED
  BY <1>1, <1>2, SameBox DEF AllOK, RestOK, tree

LEMMA KeepsAll == AllOK /\ [ThreadNext]_threadVars => AllOK'
<1> SUFFICES ASSUME AllOK, [ThreadNext]_threadVars PROVE AllOK'
  OBVIOUS
<1>1. CASE UNCHANGED threadVars
  <2>1. Containers' = Containers
    BY <1>1 DEF Containers, threadVars, tree
  <2> QED
    BY <1>1, <2>1, SameBox DEF AllOK, RestOK, threadVars, tree
<1>2. ASSUME NEW i \in Ingesters, Step(i) PROVE AllOK'
  BY <1>2, BeginKeeps, UpsertKeeps, PlaceholdersKeep, LinkReadKeeps, LinkCheckKeeps, LinkWriteKeeps,
     GroupReadKeeps, GroupFindKeeps, FindRootKeeps, ReadOldRootKeeps, RewriteKeeps, ThreadKeeps,
     CrashKeeps DEF Step
<1> QED
  BY <1>1, <1>2, RowsKeep DEF ThreadNext

LEMMA InitiallyAll == ThreadInit => AllOK
<1> SUFFICES ASSUME ThreadInit PROVE AllOK
  OBVIOUS
<1>1. Containers = {}
  BY DEF ThreadInit, Containers
<1>2. box \in Mailboxes /\ \A i \in Ingesters : job[i] = NoJob \/ job[i] = Away
  BY DEF ThreadInit
<1>3. \A i \in Ingesters : JobOK(job[i], Containers)
  BY <1>2, IdleJob
<1>4. job \in [Ingesters -> Jobs]
  BY <1>3 DEF ThreadInit, JobOK
<1>5. ToSet(order) = {} /\ order \in Seq(Ids)
  BY DEF ThreadInit, ToSet
<1>6. crashes \in 0..box.crashes
  BY <1>2, MailboxesAssumption DEF ThreadInit
<1>7. RestOK
  BY <1>1, <1>2, <1>5, <1>6, NullsAssumption DEF ThreadInit, RestOK, Parents, Norms
<1> QED
  BY <1>3, <1>4, <1>7 DEF AllOK

LEMMA Always == ThreadSpec => []AllOK
BY InitiallyAll, KeepsAll, PTL DEF ThreadSpec

\* Every variable keeps its type, and the containers are those in rowid order: for any
\* mailboxes, processes and crashes.
THEOREM ThreadTypeCorrect == ThreadSpec => []ThreadTypeOK
BY Always, OneByOne, PTL

-----------------------------------------------------------------------------
(* One process alone *)

\* A process that takes no part takes no step, and one that does goes on taking part.
LEMMA StepIsPresent ==
  ASSUME AllOK, NEW i \in Ingesters, Step(i)
  PROVE  i \in Present /\ Present' = Present
<1>1. job \in [Ingesters -> Jobs] /\ NoJob \in Jobs /\ NoJob.at = "idle"
  BY IdleJob DEF AllOK, RestOK, JobOK
<1>2. job[i].at # "away" /\ \E j : job' = [job EXCEPT ![i] = j] /\ j.at # "away"
  <2>1. ASSUME NEW at, Goto(i, at), at # "away"
        PROVE  \E j : job' = [job EXCEPT ![i] = j] /\ j.at # "away"
    <3>1. [job[i] EXCEPT !.at = at].at = at
      BY <1>1 DEF Jobs
    <3> QED
      BY <2>1, <3>1, JobSteps
  <2>2. CASE \E m \in Ids : Begin(i, m)
    <3>1. PICK m \in Ids : Begin(i, m)
      BY <2>2
    <3> DEFINE nm == IF thread[m] = Absent THEN None ELSE box.subject[m].norm
               j == [NoJob EXCEPT !.at = "container", !.msg = m, !.links = Links(m), !.norm = nm]
    <3>2. job[i].at = "idle" /\ job' = [job EXCEPT ![i] = j]
      BY <3>1 DEF Begin
    <3>3. j.at = "container"
      BY <1>1 DEF Jobs
    <3> HIDE DEF j
    <3> QED
      BY <3>2, <3>3
  <2>3. CASE UpsertContainer(i) \/ AddPlaceholders(i) \/ LinkCheck(i) \/ LinkWrite(i)
             \/ GroupRead(i) \/ RewriteSubtree(i) \/ RewriteOldTree(i) \/ ThreadMessages(i)
    BY <2>1, <2>3 DEF UpsertContainer, AddPlaceholders, LinkCheck, LinkWrite,
       GroupRead, RewriteSubtree, RewriteOldTree, ThreadMessages
  <2>4. CASE LinkRead(i)
    <3> DEFINE at == IF parent[Head(job[i].links)[2]] = None THEN "check" ELSE "link"
               j == [job[i] EXCEPT !.links = Tail(@), !.link = Head(job[i].links), !.at = at]
    <3>1. job' = [job EXCEPT ![i] = j] /\ job[i].at = "link"
      BY <1>1, <2>4 DEF LinkRead
    <3>2. j.at = at /\ at # "away"
      BY <1>1 DEF Jobs
    <3> HIDE DEF j
    <3> QED
      BY <3>1, <3>2
  <2>5. CASE GroupFind(i)
    <3>1. job[i].at = "group" /\ job[i] \in Jobs
      BY <1>1, <2>5 DEF GroupFind
    <3>2. CASE job' = [job EXCEPT ![i].at = "root", ![i].grouped = FALSE]
      <4> DEFINE j == [job[i] EXCEPT !.at = "root", !.grouped = FALSE]
      <4>1. job' = [job EXCEPT ![i] = j] /\ j.at = "root"
        BY <1>1, <3>1, <3>2 DEF Jobs
      <4> QED
        BY <3>1, <4>1
    <3>3. ASSUME NEW c \in Containers,
                 job' = [job EXCEPT ![i].at = "check", ![i].grouped = TRUE,
                                    ![i].link = <<c, job[i].msg>>]
          PROVE  \E j : job' = [job EXCEPT ![i] = j] /\ j.at # "away"
      <4> DEFINE j == [job[i] EXCEPT !.at = "check", !.grouped = TRUE, !.link = <<c, job[i].msg>>]
      <4>1. job' = [job EXCEPT ![i] = j] /\ j.at = "check"
        BY <1>1, <3>1, <3>3 DEF Jobs
      <4> QED
        BY <4>1
    <3> QED
      BY <2>5, <3>1, <3>2, <3>3, GroupForms
  <2>6. CASE FindRoot(i)
    <3>1. job[i].at = "root" /\ job[i] \in Jobs
      BY <1>1, <2>6 DEF FindRoot
    <3>2. CASE job' = [job EXCEPT ![i] = NoJob]
      BY <1>1, <3>1, <3>2
    <3>3. ASSUME NEW r, job' = [job EXCEPT ![i].at = "old", ![i].root = r]
          PROVE  \E j : job' = [job EXCEPT ![i] = j] /\ j.at # "away"
      <4> DEFINE j == [job[i] EXCEPT !.at = "old", !.root = r]
      <4>1. job' = [job EXCEPT ![i] = j] /\ j.at = "old"
        BY <1>1, <3>1, <3>3 DEF Jobs
      <4> QED
        BY <4>1
    <3> QED
      BY <2>6, <3>1, <3>2, <3>3 DEF FindRoot
  <2>7. CASE ReadOldRoot(i)
    <3> DEFINE at == IF root[job[i].msg] = job[i].root THEN "threads" ELSE "subtree"
               j == [job[i] EXCEPT !.old = root[job[i].msg], !.at = at]
    <3>1. job' = [job EXCEPT ![i] = j] /\ job[i].at = "old"
      BY <1>1, <2>7 DEF ReadOldRoot
    <3>2. j.at = at /\ at # "away"
      BY <1>1 DEF Jobs
    <3> HIDE DEF j
    <3> QED
      BY <3>1, <3>2
  <2>8. CASE Persist(i)
    BY <1>1, <2>8 DEF Persist
  <2>9. CASE Crash(i)
    BY <1>1, <2>9 DEF Crash, Present
  <2> QED
    BY <2>2, <2>3, <2>4, <2>5, <2>6, <2>7, <2>8, <2>9 DEF Step
<1>3. \A k \in Ingesters : job'[k].at = "away" <=> job[k].at = "away"
  BY <1>1, <1>2
<1> QED
  BY <1>2, <1>3 DEF Present

\* What a process alone knows of the forest.
Knows(j) ==
    /\ j.at = "group" => parent[j.msg] = None
    /\ j.at \in {"check", "write"} => parent[j.link[2]] = None
    /\ j.at = "write" => ~WouldCreateCycle(j.link[2], j.link[1])

LEMMA ForestForms ==
  ForestInv <=> \A i \in Ingesters : Present = {i} => IsForest(parent) /\ Knows(job[i])
BY ForestAncestors DEF ForestInv, Knows

\* A step that leaves the parents alone.
LEMMA ParentsStay ==
  ASSUME parent' = parent
  PROVE  /\ IsForest(parent') <=> IsForest(parent)
         /\ \A j : Knows(j)' <=> Knows(j)
<1>1. \A c : Ancestors(c)' = Ancestors(c)
  BY AncestorsAbove DEF Ancestors
<1> QED
  BY <1>1 DEF Knows, WouldCreateCycle

LEMMA ForestStep ==
  ASSUME AllOK, AllOK', NEW i \in Ingesters, Step(i), IsForest(parent), Knows(job[i])
  PROVE  IsForest(parent') /\ Knows(job[i])'
<1>1. job \in [Ingesters -> Jobs] /\ JobOK(job[i], Containers) /\ job[i] \in Jobs
  BY DEF AllOK
<1>2. \A at : Goto(i, at) => /\ job'[i].at = at /\ job'[i].link = job[i].link
                             /\ job'[i].msg = job[i].msg
  BY <1>1 DEF Goto, Jobs
<1>3. parent \in Parents /\ parent' \in Parents
  BY DEF AllOK, RestOK
<1>4. \A c \in Ids : parent[c] \in Ids => parent[parent[c]] # Absent
  BY NullsAssumption DEF AllOK, RestOK, Containers
<1>5. ASSUME NEW new \in SUBSET Ids, Insert(new), job'[i].at \in {"placeholders", "link"}
      PROVE  IsForest(parent') /\ Knows(job[i])'
  <2>1. \A c \in Ids : parent'[c] = parent[c] \/ (parent[c] = Absent /\ parent'[c] = None)
    BY <1>5, InsertKeeps
  <2> QED
    BY <1>3, <1>4, <1>5, <2>1, InsertedForest DEF Knows
<1>6. ASSUME parent' = parent, job'[i].at \notin {"group", "check", "write"}
      PROVE  IsForest(parent') /\ Knows(job[i])'
  BY <1>6 DEF Knows
<1>7. CASE UpsertContainer(i)
  <2>1. job[i].msg \in Ids
    BY <1>1, <1>7, NullsAssumption DEF UpsertContainer, JobOK, Jobs
  <2> QED
    BY <1>2, <1>5, <1>7, <2>1 DEF UpsertContainer
<1>8. CASE AddPlaceholders(i)
  <2>1. job[i].msg \in Ids
    BY <1>1, <1>8 DEF AddPlaceholders, JobOK, Containers
  <2>2. ToSet(Chain(job[i].msg)) \in SUBSET Ids
    BY <2>1, ChainFacts DEF AllOK, RestOK, ToSet
  <2> QED
    BY <1>2, <1>5, <1>8, <2>2 DEF AddPlaceholders
<1>9. CASE LinkRead(i)
  <2> DEFINE link == Head(job[i].links)
             at == IF parent[link[2]] = None THEN "check" ELSE "link"
             j == [job[i] EXCEPT !.links = Tail(@), !.link = link, !.at = at]
  <2>1. job'[i] = j /\ parent' = parent
    BY <1>1, <1>9 DEF LinkRead, tree
  <2>2. j.at = at /\ j.link = link
    BY <1>1 DEF Jobs
  <2> HIDE DEF j, link
  <2> QED
    BY <2>1, <2>2 DEF Knows
<1>10. CASE LinkCheck(i)
  <2> DEFINE at == IF ~WouldCreateCycle(job[i].link[2], job[i].link[1]) THEN "write"
                   ELSE IF job[i].grouped THEN "root" ELSE "link"
  <2>1. Goto(i, at) /\ job[i].at = "check" /\ parent' = parent
    BY <1>10 DEF LinkCheck, tree
  <2>2. job'[i].at = at /\ job'[i].link = job[i].link
    BY <1>2, <2>1
  <2>3. parent[job[i].link[2]] = None
    BY <2>1 DEF Knows
  <2>4. Knows(job'[i])
    BY <2>2, <2>3 DEF Knows
  <2> QED
    BY <2>1, <2>4, ParentsStay DEF Knows
<1>11. CASE LinkWrite(i)
  <2> DEFINE n == job[i].link[2]
             q == job[i].link[1]
  <2>1. /\ n \in Ids /\ q \in Ids /\ parent[q] # Absent /\ parent[n] = None
        /\ n \notin Above(parent, q)
    BY <1>1, <1>11, AncestorsAbove DEF LinkWrite, JobOK, Containers, Knows, WouldCreateCycle
  <2>2. parent' = [parent EXCEPT ![n] = q]
    BY <1>11 DEF LinkWrite
  <2>3. job'[i].at \in {"root", "link"}
    BY <1>2, <1>11 DEF LinkWrite
  <2> QED
    BY <1>3, <2>1, <2>2, <2>3, LinkedForest DEF Knows
<1>12. CASE GroupRead(i)
  <2> DEFINE at == IF parent[job[i].msg] = None /\ job[i].norm # None THEN "group" ELSE "root"
  <2>1. Goto(i, at) /\ parent' = parent
    BY <1>12 DEF GroupRead, tree
  <2>2. job'[i].at = at /\ job'[i].msg = job[i].msg
    BY <1>2, <2>1
  <2> QED
    BY <2>1, <2>2 DEF Knows
<1>13. CASE GroupFind(i)
  <2>1. parent' = parent /\ parent[job[i].msg] = None
    BY <1>13 DEF GroupFind, tree, Knows
  <2>2. CASE job' = [job EXCEPT ![i].at = "root", ![i].grouped = FALSE]
    BY <1>1, <1>6, <2>1, <2>2 DEF Jobs
  <2>3. ASSUME NEW c \in Containers,
               job' = [job EXCEPT ![i].at = "check", ![i].grouped = TRUE, ![i].link = <<c, job[i].msg>>]
        PROVE  IsForest(parent') /\ Knows(job[i])'
    <3>1. job'[i].at = "check" /\ job'[i].link = <<c, job[i].msg>>
      BY <1>1, <2>3 DEF Jobs
    <3> QED
      BY <2>1, <3>1 DEF Knows
  <2> QED
    BY <1>13, <2>2, <2>3, GroupForms
<1>14. CASE \E m \in Ids : Begin(i, m)
  <2>1. job'[i].at = "container" /\ parent' = parent
    BY <1>1, <1>14 DEF Begin, NoJob, tree
  <2> QED
    BY <1>6, <2>1
<1>15. CASE RewriteSubtree(i) \/ RewriteOldTree(i) \/ ThreadMessages(i)
  <2>1. parent' = parent /\ job'[i].at \in {"oldtree", "threads", "persist"}
    BY <1>2, <1>15 DEF RewriteSubtree, RewriteOldTree, ThreadMessages, tree
  <2> QED
    BY <1>6, <2>1
<1>16. CASE FindRoot(i) \/ ReadOldRoot(i)
  <2>1. parent' = parent /\ job'[i].at \in {"idle", "old", "threads", "subtree"}
    BY <1>1, <1>16 DEF FindRoot, ReadOldRoot, tree, Jobs, NoJob
  <2> QED
    BY <1>6, <2>1
<1>17. CASE Persist(i) \/ Crash(i)
  <2>1. parent' = parent /\ job'[i].at = "idle"
    BY <1>1, <1>17 DEF Persist, Crash, tree, NoJob
  <2> QED
    BY <1>6, <2>1
<1> QED
  BY <1>7, <1>8, <1>9, <1>10, <1>11, <1>12, <1>13, <1>14, <1>15, <1>16, <1>17 DEF Step

LEMMA ForestKept == AllOK /\ AllOK' /\ ForestInv /\ [ThreadNext]_threadVars => ForestInv'
<1> SUFFICES ASSUME AllOK, AllOK', ForestInv, [ThreadNext]_threadVars, NEW i \in Ingesters, Present' = {i}
             PROVE  IsForest(parent') /\ Knows(job[i])'
  <2> DEFINE F == \A i \in Ingesters : Present = {i} => IsForest(parent) /\ Knows(job[i])
  <2>1. ForestInv' <=> F'
    BY ForestForms, PTL
  <2> QED
    BY <2>1
<1>1. ASSUME UNCHANGED <<parent, job>>
      PROVE  IsForest(parent') /\ Knows(job[i])'
  <2>1. Present' = Present
    BY <1>1 DEF Present
  <2>2. IsForest(parent) /\ Knows(job[i])
    BY <2>1, ForestForms
  <2>3. Knows(job[i])' <=> Knows(job[i])
    BY <1>1, ParentsStay DEF Knows
  <2> QED
    BY <1>1, <2>2, <2>3
<1>2. ASSUME NEW k \in Ingesters, Step(k)
      PROVE  IsForest(parent') /\ Knows(job[i])'
  <2>1. k = i /\ Present = {i}
    BY <1>2, StepIsPresent
  <2>2. IsForest(parent) /\ Knows(job[i])
    BY <2>1, ForestForms
  <2> QED
    BY <1>2, <2>1, <2>2, ForestStep
<1>3. CASE UNCHANGED threadVars
  BY <1>1, <1>3 DEF threadVars, tree
<1>4. ASSUME NEW m \in Ids, Arrive(m) \/ Expunge(m)
      PROVE  IsForest(parent') /\ Knows(job[i])'
  BY <1>1, <1>4 DEF Arrive, Expunge, tree
<1> QED
  BY <1>2, <1>3, <1>4 DEF ThreadNext

\* The inductive invariant for one process alone.
THEOREM Forest == ThreadSpec => [](AllOK /\ ForestInv)
<1>1. ThreadInit => ForestInv
  BY DEF ThreadInit, ForestInv, Containers, NoJob, Away
<1> QED
  BY <1>1, InitiallyAll, KeepsAll, ForestKept, PTL DEF ThreadSpec

\* Whatever References and subjects say and wherever its ingests break off, one process
\* alone (Threader::ingest) never closes a cycle: the check for one and the update it
\* allows see the same ancestors.
THEOREM NeverACycle == ThreadSpec => []NoCycle
<1>1. AllOK /\ ForestInv => NoCycle
  <2> SUFFICES ASSUME ForestInv, Cardinality(Present) = 1
               PROVE  \A c \in Containers : RootsAbove(c) # {}
    BY DEF NoCycle
  <2>1. IsFiniteSet(Present)
    BY FiniteAssumption, FS_Subset DEF Present
  <2>2. PICK i : Present = {i}
    BY <2>1, FS_Singleton
  <2>3. i \in Ingesters
    BY <2>2 DEF Present
  <2> QED
    BY <2>2, <2>3 DEF ForestInv
<1> QED
  BY <1>1, Forest, PTL

-----------------------------------------------------------------------------
(* The two caches of one process alone *)

\* What CachesInv says of the rows and of the job at work.
RowsFollow(j) ==
    \A m \in box.byId : thread[m] \in Ids =>
        thread[m] = root[m] \/ (j.at \in {"oldtree", "threads"} /\ root[m] = j.root)

RootFound(j) ==
    /\ j.at \in {"old", "subtree"} => j.root \in Ancestors(j.msg)
    /\ j.at \in {"oldtree", "threads", "persist"} => root[j.msg] = j.root

\* Where a job that only goes on is afterwards.
LEMMA GoneOn ==
  ASSUME AllOK, NEW i \in Ingesters, NEW at, Goto(i, at)
  PROVE  /\ job'[i].at = at /\ job'[i].msg = job[i].msg /\ job'[i].root = job[i].root
         /\ job'[i].old = job[i].old /\ job'[i].links = job[i].links /\ job'[i].link = job[i].link
         /\ job'[i].norm = job[i].norm /\ job'[i].grouped = job[i].grouped
         /\ job' = [job EXCEPT ![i] = job'[i]]
<1>1. job \in [Ingesters -> Jobs] /\ job[i] \in Jobs
  BY DEF AllOK
<1> QED
  BY <1>1 DEF Goto, Jobs

LEMMA SameAncestors == ASSUME parent' = parent PROVE \A c : Ancestors(c)' = Ancestors(c)
BY AncestorsAbove DEF Ancestors

\* No step changes the mailbox, and the rows found by their ids are messages.
LEMMA BoxStays == [ThreadNext]_threadVars => box' = box
BY DEF ThreadNext, Step, threadVars, tree, Arrive, Expunge, Begin, UpsertContainer, AddPlaceholders, LinkRead,
   LinkCheck, LinkWrite, GroupRead, GroupFind, FindRoot, ReadOldRoot, RewriteSubtree,
   RewriteOldTree, ThreadMessages, Persist, Crash

LEMMA RowsById == ASSUME AllOK PROVE box.byId \subseteq Ids
BY MailboxesAssumption DEF AllOK, RestOK

LEMMA CachesStep ==
  ASSUME AllOK, NEW i \in Ingesters, Step(i), crashes = 0, crashes' = 0,
         RowsFollow(job[i]), RootFound(job[i])
  PROVE  RowsFollow(job[i])' /\ RootFound(job[i])'
<1>1. job \in [Ingesters -> Jobs] /\ JobOK(job[i], Containers) /\ job[i] \in Jobs /\ RestOK
  BY DEF AllOK
<1>0. box' = box /\ box.byId \subseteq Ids
  BY BoxStays, RowsById DEF ThreadNext
<1> DEFINE j == job[i]
           k == job'[i]
           Early == {"idle", "container", "placeholders", "link", "check", "write", "group", "root"}
\* Up to the root found, rows and root_id agree, and nothing touches either.
<1>2. ASSUME thread' = thread, root' = root, j.at \in Early, k.at \in Early
      PROVE  RowsFollow(j)' /\ RootFound(j)'
  <2>1. \A m \in box.byId : thread[m] \in Ids => thread[m] = root[m]
    BY <1>0, <1>2 DEF RowsFollow
  <2> HIDE DEF k
  <2>2. k.at \notin {"old", "subtree", "oldtree", "threads", "persist"}
    BY <1>2
  <2> QED
    BY <1>0, <1>2, <2>1, <2>2 DEF RowsFollow, RootFound, k
<1>3. ASSUME NEW new, Insert(new), thread' = thread, j.at \in Early, k.at \in Early
      PROVE  RowsFollow(j)' /\ RootFound(j)'
  <2>1. \A m \in box.byId : thread[m] \in Ids => thread[m] = root[m]
    BY <1>0, <1>3 DEF RowsFollow
  <2>2. \A m \in Ids : root[m] # None => root'[m] = root[m]
    BY <1>1, <1>3 DEF Insert, RestOK, Containers
  <2>3. \A m \in box.byId : thread'[m] \in Ids => thread'[m] = root'[m]
    BY <1>0, <1>3, <2>1, <2>2, NullsAssumption
  <2> HIDE DEF k
  <2>4. k.at \notin {"old", "subtree", "oldtree", "threads", "persist"}
    BY <1>3
  <2> QED
    BY <1>0, <2>3, <2>4 DEF RowsFollow, RootFound, k
<1>4. CASE \E m \in Ids : Begin(i, m)
  <2>1. j.at = "idle" /\ k.at = "container" /\ thread' = thread /\ root' = root
    BY <1>1, <1>4 DEF Begin, NoJob, tree
  <2> QED
    BY <1>2, <2>1
<1>5. CASE UpsertContainer(i)
  <2>1. Insert({j.msg}) /\ j.at = "container" /\ k.at = "placeholders" /\ thread' = thread
    BY <1>5, GoneOn DEF UpsertContainer
  <2> QED
    BY <1>3, <2>1
<1>6. CASE AddPlaceholders(i)
  <2>1. Insert(ToSet(Chain(j.msg))) /\ j.at = "placeholders" /\ k.at = "link" /\ thread' = thread
    BY <1>6, GoneOn DEF AddPlaceholders
  <2> QED
    BY <1>3, <2>1
<1>7. CASE LinkRead(i)
  <2> DEFINE link == Head(j.links)
             at == IF parent[link[2]] = None THEN "check" ELSE "link"
             y == [j EXCEPT !.links = Tail(@), !.link = link, !.at = at]
  <2>1. job'[i] = y /\ thread' = thread /\ root' = root /\ j.at = "link"
    BY <1>1, <1>7 DEF LinkRead, tree
  <2>2. y.at = at
    BY <1>1 DEF Jobs
  <2> HIDE DEF y, link
  <2> QED
    BY <1>2, <2>1, <2>2
<1>8. CASE LinkCheck(i) \/ LinkWrite(i) \/ GroupRead(i)
  <2>1. thread' = thread /\ root' = root /\ j.at \in {"check", "write", "link"}
    BY <1>8 DEF LinkCheck, LinkWrite, GroupRead, tree
  <2>2. \E at \in {"write", "root", "link", "group"} : Goto(i, at)
    BY <1>8 DEF LinkCheck, LinkWrite, GroupRead
  <2>3. k.at \in {"write", "root", "link", "group"}
    BY <2>2, GoneOn
  <2>4. j.at \in Early /\ k.at \in Early
    BY <2>1, <2>3
  <2> QED
    BY <1>2, <2>1, <2>4
<1>9. CASE GroupFind(i)
  <2>1. thread' = thread /\ root' = root /\ j.at = "group"
    BY <1>9 DEF GroupFind, tree
  <2>2. CASE job' = [job EXCEPT ![i].at = "root", ![i].grouped = FALSE]
    BY <1>1, <1>2, <2>1, <2>2 DEF Jobs
  <2>3. ASSUME NEW c \in Containers,
               job' = [job EXCEPT ![i].at = "check", ![i].grouped = TRUE, ![i].link = <<c, job[i].msg>>]
        PROVE  k.at = "check"
    BY <1>1, <2>3 DEF Jobs
  <2> HIDE DEF k
  <2> QED
    BY <1>2, <1>9, <2>1, <2>2, <2>3, GroupForms
<1>10. CASE FindRoot(i)
  <2>1. thread' = thread /\ root' = root /\ j.at = "root" /\ parent' = parent
    BY <1>10 DEF FindRoot, tree
  <2>2. CASE job' = [job EXCEPT ![i] = NoJob]
    BY <1>1, <1>2, <2>1, <2>2, IdleJob DEF RestOK
  <2>3. ASSUME NEW r \in RootsAbove(j.msg), job' = [job EXCEPT ![i].at = "old", ![i].root = r]
        PROVE  RowsFollow(j)' /\ RootFound(j)'
    <3>1. k.at = "old" /\ k.root = r /\ k.msg = j.msg
      BY <1>1, <2>3 DEF Jobs
    <3>2. r \in Ancestors(j.msg)
      BY DEF RootsAbove
    <3>3. \A m \in box.byId : thread[m] \in Ids => thread[m] = root[m]
      BY <1>0, <2>1 DEF RowsFollow
    <3>4. Ancestors(j.msg)' = Ancestors(k.msg)
      BY <2>1, SameAncestors, <3>1 DEF Ancestors
    <3> QED
      BY <1>0, <2>1, <3>1, <3>2, <3>3, SameAncestors DEF RowsFollow, RootFound
  <2> QED
    BY <1>10, <2>2, <2>3 DEF FindRoot
<1>11. CASE ReadOldRoot(i)
  <2> DEFINE at == IF root[j.msg] = j.root THEN "threads" ELSE "subtree"
             y == [j EXCEPT !.old = root[j.msg], !.at = at]
  <2>1. job'[i] = y /\ thread' = thread /\ root' = root /\ j.at = "old" /\ parent' = parent
    BY <1>1, <1>11 DEF ReadOldRoot, tree
  <2>2. y.at = at /\ y.root = j.root /\ y.msg = j.msg
    BY <1>1 DEF Jobs
  <2> HIDE DEF y
  <2>3. \A m \in box.byId : thread[m] \in Ids => thread[m] = root[m]
    BY <1>0, <2>1 DEF RowsFollow
  <2>4. j.root \in Ancestors(j.msg)
    BY <2>1 DEF RootFound
  <2> QED
    BY <1>0, <2>1, <2>2, <2>3, <2>4, SameAncestors DEF RowsFollow, RootFound
<1>12. CASE RewriteSubtree(i)
  <2>1. /\ k.at = "oldtree" /\ k.root = j.root /\ k.msg = j.msg /\ j.at = "subtree"
        /\ thread' = thread /\ SetRoot(Subtree({j.root}), j.root)
    BY <1>12, GoneOn DEF RewriteSubtree
  <2>2. j.msg \in Containers /\ j.root \in Ancestors(j.msg)
    BY <1>1, <2>1 DEF RootFound, JobOK
  <2>3. j.msg \in Subtree({j.root}) /\ j.msg \in Ids
    BY <2>2 DEF Subtree, Containers
  <2>4. \A m \in Ids : root'[m] = j.root \/ root'[m] = root[m]
    BY <2>1 DEF SetRoot
  <2>5. root'[j.msg] = j.root
    BY <2>1, <2>3 DEF SetRoot
  <2>6. \A m \in box.byId : thread[m] \in Ids => thread[m] = root[m]
    BY <1>0, <2>1 DEF RowsFollow
  <2> HIDE DEF k
  <2> QED
    BY <1>0, <2>1, <2>4, <2>5, <2>6 DEF RowsFollow, RootFound, k
<1>13. CASE RewriteOldTree(i)
  <2> DEFINE tops == {c \in Containers : root[c] = j.old}
  <2>1. /\ k.at = "threads" /\ k.root = j.root /\ k.msg = j.msg /\ j.at = "oldtree"
        /\ thread' = thread /\ SetRoot(Subtree(tops), j.root)
    BY <1>13, GoneOn DEF RewriteOldTree
  <2>2. j.msg \in Ids /\ root[j.msg] = j.root
    BY <1>1, <2>1 DEF RootFound, JobOK, Containers
  <2> HIDE DEF tops
  <2>3. \A m \in Ids : root'[m] = j.root \/ root'[m] = root[m]
    BY <2>1 DEF SetRoot
  <2>4. \A m \in box.byId : thread[m] \in Ids => thread[m] = root[m] \/ root[m] = j.root
    BY <1>0, <2>1 DEF RowsFollow
  <2> HIDE DEF k
  <2> QED
    BY <1>0, <2>1, <2>2, <2>3, <2>4 DEF RowsFollow, RootFound, k
<1>14. CASE ThreadMessages(i)
  <2>1. /\ k.at = "persist" /\ k.root = j.root /\ k.msg = j.msg /\ j.at = "threads" /\ root' = root
        /\ \A m \in Ids : thread'[m] =
              IF m \in box.byId /\ thread[m] # Absent /\ root[m] = j.root THEN j.root ELSE thread[m]
    BY <1>14, GoneOn DEF ThreadMessages, tree
  <2>2. root[j.msg] = j.root
    BY <2>1 DEF RootFound
  <2>3. \A m \in box.byId : thread[m] \in Ids => thread[m] = root[m] \/ root[m] = j.root
    BY <1>0, <2>1 DEF RowsFollow
  <2>4. \A m \in box.byId : thread'[m] \in Ids => thread'[m] = root[m]
    BY <1>0, <2>1, <2>3, NullsAssumption
  <2> HIDE DEF k
  <2> QED
    BY <1>0, <2>1, <2>2, <2>4 DEF RowsFollow, RootFound, k
<1>15. CASE Persist(i)
  <2>1. /\ k.at = "idle" /\ j.at = "persist" /\ root' = root
        /\ thread' = [thread EXCEPT ![j.msg] = IF @ = Absent THEN @ ELSE j.root]
    BY <1>1, <1>15, IdleJob DEF Persist, tree, RestOK
  <2>2. root[j.msg] = j.root
    BY <2>1 DEF RootFound
  <2>3. \A m \in Ids : thread'[m] = IF m = j.msg /\ thread[m] # Absent THEN j.root ELSE thread[m]
    BY <1>1, <2>1 DEF RestOK
  <2>4. \A m \in box.byId : thread[m] \in Ids => thread[m] = root[m]
    BY <1>0, <2>1 DEF RowsFollow
  <2>5. \A m \in box.byId : thread'[m] \in Ids => thread'[m] = root[m]
    BY <1>0, <2>2, <2>3, <2>4
  <2> HIDE DEF k
  <2> QED
    BY <1>0, <2>1, <2>5 DEF RowsFollow, RootFound, k
<1>16. ~Crash(i)
  BY DEF Crash
<1> QED
  BY <1>4, <1>5, <1>6, <1>7, <1>8, <1>9, <1>10, <1>11, <1>12, <1>13, <1>14, <1>15, <1>16 DEF Step

\* The bound on crashes is a number, and no step makes them fewer.
LEMMA CrashesStay ==
  ASSUME AllOK, [ThreadNext]_threadVars, crashes' = 0 PROVE crashes = 0
<1>1. crashes \in Nat
  BY MailboxesAssumption DEF AllOK, RestOK
<1>2. crashes' = crashes \/ crashes' = crashes + 1
  BY DEF ThreadNext, Step, threadVars, tree, Arrive, Expunge, Begin, UpsertContainer, AddPlaceholders, LinkRead,
     LinkCheck, LinkWrite, GroupRead, GroupFind, FindRoot, ReadOldRoot, RewriteSubtree,
     RewriteOldTree, ThreadMessages, Persist, Crash
<1> QED
  BY <1>1, <1>2

LEMMA CachesForms ==
  CachesInv <=> (Alone /\ crashes = 0 =>
                    /\ \A m \in box.byId : thread[m] \in Ids =>
                          \/ thread[m] = root[m]
                          \/ \E i \in Present : job[i].at \in {"oldtree", "threads"} /\ root[m] = job[i].root
                    /\ \A i \in Present : RootFound(job[i]))
BY DEF CachesInv, RootFound

LEMMA CachesKept == AllOK /\ AllOK' /\ CachesInv /\ [ThreadNext]_threadVars => CachesInv'
<1> SUFFICES ASSUME AllOK, AllOK', CachesInv, [ThreadNext]_threadVars, Alone', crashes' = 0
             PROVE  /\ \A m \in box.byId : thread'[m] \in Ids =>
                          \/ thread'[m] = root'[m]
                          \/ \E i \in Present' : job'[i].at \in {"oldtree", "threads"} /\ root'[m] = job'[i].root
                    /\ \A i \in Present' : RootFound(job[i])'
  <2> DEFINE F == Alone /\ crashes = 0 =>
                    /\ \A m \in box.byId : thread[m] \in Ids =>
                          \/ thread[m] = root[m]
                          \/ \E i \in Present : job[i].at \in {"oldtree", "threads"} /\ root[m] = job[i].root
                    /\ \A i \in Present : RootFound(job[i])
  <2>1. CachesInv' <=> F'
    BY CachesForms, PTL
  <2> QED
    BY <2>1, BoxStays
<1>0. box' = box /\ box.byId \subseteq Ids
  BY BoxStays, RowsById
<1>1. crashes = 0
  BY CrashesStay
<1>2. CASE UNCHANGED <<tree, job>> /\ \A m \in box.byId : thread'[m] \in Ids => thread'[m] = thread[m]
  <2>1. Present' = Present /\ root' = root /\ parent' = parent /\ job' = job
    BY <1>2 DEF Present, tree
  <2>2. Alone
    BY <2>1 DEF Alone
  <2>3. \A m \in box.byId : thread[m] \in Ids =>
          \/ thread[m] = root[m]
          \/ \E i \in Present : job[i].at \in {"oldtree", "threads"} /\ root[m] = job[i].root
    BY <1>1, <2>2, CachesForms
  <2>4. \A i \in Present : RootFound(job[i])
    BY <1>1, <2>2, CachesForms
  <2>5. \A i \in Present : RootFound(job[i])' <=> RootFound(job[i])
    BY <2>1, SameAncestors DEF RootFound
  <2> QED
    BY <1>0, <1>2, <2>1, <2>3, <2>4, <2>5
<1>3. ASSUME NEW i \in Ingesters, Step(i)
      PROVE  /\ \A m \in box.byId : thread'[m] \in Ids =>
                  \/ thread'[m] = root'[m]
                  \/ \E k \in Present' : job'[k].at \in {"oldtree", "threads"} /\ root'[m] = job'[k].root
             /\ \A k \in Present' : RootFound(job[k])'
  <2>1. i \in Present /\ Present' = Present
    BY <1>3, StepIsPresent
  <2>2. Alone /\ \A k \in Present : k = i
    BY <2>1 DEF Alone
  <2>3. RowsFollow(job[i]) /\ RootFound(job[i])
    BY <1>1, <2>1, <2>2, CachesForms DEF RowsFollow
  <2>4. RowsFollow(job[i])' /\ RootFound(job[i])'
    BY <1>1, <1>3, <2>3, CachesStep
  <2> QED
    BY <1>0, <2>1, <2>2, <2>4 DEF RowsFollow
<1>4. ASSUME NEW m \in Ids, Arrive(m) \/ Expunge(m)
      PROVE  UNCHANGED <<tree, job>> /\ \A n \in box.byId : thread'[n] \in Ids => thread'[n] = thread[n]
  <2>1. thread' = [thread EXCEPT ![m] = None] \/ thread' = [thread EXCEPT ![m] = Absent]
    BY <1>4 DEF Arrive, Expunge
  <2>2. UNCHANGED <<tree, job>>
    BY <1>4 DEF Arrive, Expunge
  <2> QED
    BY <1>0, <2>1, <2>2, NullsAssumption DEF AllOK, RestOK
<1>5. CASE UNCHANGED threadVars
  <2>1. UNCHANGED <<tree, job>> /\ thread' = thread
    BY <1>5 DEF threadVars
  <2> QED
    BY <1>2, <2>1
<1> QED
  BY <1>2, <1>3, <1>4, <1>5 DEF ThreadNext

\* The inductive invariant for the caches of one process alone.
LEMMA Caches == ThreadSpec => [](AllOK /\ CachesInv)
<1>1. ThreadInit => CachesInv
  <2> SUFFICES ASSUME ThreadInit PROVE CachesInv
    OBVIOUS
  <2>1. box.byId \subseteq Ids /\ \A m \in Ids : thread[m] \notin Ids
    BY NullsAssumption, MailboxesAssumption DEF ThreadInit
  <2>2. \A i \in Present : job[i].at = "idle"
    BY DEF ThreadInit, Present, NoJob, Away
  <2> QED
    BY <2>1, <2>2 DEF CachesInv
<1> QED
  BY <1>1, InitiallyAll, KeepsAll, CachesKept, PTL DEF ThreadSpec

-----------------------------------------------------------------------------
(* Full References: conversations as paths *)

LEMMA PathEnds ==
  ASSUME NEW s \in Seq(Ids), NEW c \in Ids
  PROVE  /\ Head(Append(s, c)) = IF s = <<>> THEN c ELSE s[1]
         /\ Len(Append(s, c)) = 1 <=> s = <<>>
         /\ s # <<>> => Append(s, c)[Len(Append(s, c)) - 1] = s[Len(s)]
<1>1. /\ Len(s) \in Nat /\ Len(Append(s, c)) = Len(s) + 1 /\ s = <<>> <=> Len(s) = 0
      /\ Append(s, c)[Len(s) + 1] = c /\ \A k \in 1..Len(s) : Append(s, c)[k] = s[k]
  BY EmptySeq, LenProperties
<1>2. Head(Append(s, c)) = Append(s, c)[1]
  OBVIOUS
<1>3. CASE s = <<>>
  BY <1>1, <1>2, <1>3
<1>4. CASE s # <<>>
  <2>1. 1 \in 1..Len(s) /\ Len(s) \in 1..Len(s) /\ Len(Append(s, c)) - 1 = Len(s) /\ Len(Append(s, c)) # 1
    BY <1>1, <1>4
  <2> QED
    BY <1>1, <1>2, <1>4, <2>1
<1> QED
  BY <1>3, <1>4

LEMMA Prefix ==
  ASSUME NEW s \in Seq(Ids), NEW k \in 1..Len(s), NEW t, t = SubSeq(s, 1, k - 1)
  PROVE  /\ Len(t) = k - 1 /\ Len(t) < Len(s)
         /\ k = 1 => t = <<>>
         /\ k # 1 => t # <<>> /\ t[Len(t)] = s[k - 1] /\ t[1] = s[1] /\ k - 1 \in 1..Len(s)
<1>1. Len(s) \in Nat /\ k \in Nat /\ 1 <= k /\ k <= Len(s)
  OBVIOUS
<1>2. Len(t) = k - 1 /\ \A l \in 1..(k - 1) : t[l] = s[l]
  BY <1>1
<1>3. Len(t) < Len(s)
  BY <1>1, <1>2
<1>4. k = 1 => t = <<>>
  BY <1>1
<1>5. CASE k # 1
  <2>1. k - 1 \in 1..(k - 1) /\ 1 \in 1..(k - 1) /\ k - 1 \in 1..Len(s) /\ k - 1 # 0
    BY <1>1, <1>5
  <2>2. Len(<<>>) = 0
    OBVIOUS
  <2> QED
    BY <1>2, <1>3, <1>5, <2>1, <2>2
<1> QED
  BY <1>2, <1>3, <1>4, <1>5

\* How long a conversation goes back.
Depth(c) == Len(box.refs[c])

LEMMA FullChain ==
  ASSUME box \in Mailboxes, FullReferences, NEW c \in Ids
  PROVE  /\ box.refs[c] \in Seq(Ids) /\ Chain(c) = box.refs[c] /\ Depth(c) \in Nat
         /\ DOMAIN box.refs[c] = 1..Len(box.refs[c])
         /\ \A x \in Mentioned(c) : x = c \/ \E k \in 1..Len(box.refs[c]) : x = box.refs[c][k]
         /\ \A k \in 1..Len(box.refs[c]) : box.refs[c][k] \in Mentioned(c) /\ box.refs[c][k] \in Ids
         /\ c \in Mentioned(c)
         /\ First(c) = IF box.refs[c] = <<>> THEN c ELSE box.refs[c][1]
         /\ box.refs[c] # <<>> => Len(box.refs[c]) \in 1..Len(box.refs[c]) /\ 1 \in 1..Len(box.refs[c])
<1>1. box.refs[c] \in Seq(Ids)
  BY MailboxesAssumption
<1>2. Chain(c) = box.refs[c]
  BY DEF Chain, FullReferences
<1> DEFINE s == box.refs[c]
<1>3. First(c) = IF s = <<>> THEN c ELSE s[1]
  BY <1>1, PathEnds DEF First
<1>4. Mentioned(c) = ToSet(s) \cup {c}
  BY <1>2 DEF Mentioned
<1>5. Depth(c) = Len(s)
  BY DEF Depth
<1> HIDE DEF s
<1>6. s \in Seq(Ids)
  BY <1>1 DEF s
<1>7. Len(s) \in Nat /\ DOMAIN s = 1..Len(s) /\ \A k \in 1..Len(s) : s[k] \in Ids
  BY <1>6
<1>8. s # <<>> => Len(s) \in 1..Len(s) /\ 1 \in 1..Len(s)
  <2>1. s # <<>> => Len(s) # 0
    BY <1>6, EmptySeq
  <2> QED
    BY <1>7, <2>1
<1> QED
  BY <1>1, <1>2, <1>3, <1>4, <1>5, <1>7, <1>8 DEF ToSet, s

LEMMA FullBefore ==
  ASSUME box \in Mailboxes, FullReferences, NEW c \in Ids, NEW k \in 1..Len(box.refs[c]), NEW x,
         x = box.refs[c][k]
  PROVE  box.refs[x] = SubSeq(box.refs[c], 1, k - 1)
BY FullChain DEF FullReferences

\* The conversation of a message holds what comes before each, back to the first.
LEMMA FullPath ==
  ASSUME box \in Mailboxes, FullReferences, NEW c \in Ids, NEW x \in Mentioned(c)
  PROVE  /\ x \in Ids /\ First(x) = First(c)
         /\ x # c => Depth(x) < Depth(c)
         /\ \/ Preceding(x) = None /\ x = First(c)
            \/ Preceding(x) \in Mentioned(c) /\ Preceding(x) \in Ids /\ Depth(Preceding(x)) < Depth(x)
<1> DEFINE s == box.refs[c]
<1>1. CASE x = c /\ s = <<>>
  BY <1>1, FullChain DEF Preceding
<1>2. CASE x = c /\ s # <<>>
  <2>1. Len(s) \in 1..Len(s) /\ s \in Seq(Ids) /\ DOMAIN s = 1..Len(s)
    BY <1>2, FullChain
  <2>2. s[Len(s)] \in Mentioned(c) /\ s[Len(s)] \in Ids
    BY <2>1, FullChain
  <2> DEFINE y == s[Len(s)]
             t == box.refs[y]
  <2>3. t = SubSeq(s, 1, Len(s) - 1)
    BY <2>1, FullBefore
  <2> HIDE DEF t
  <2>4. Len(t) < Len(s)
    BY <2>1, <2>3, Prefix
  <2> USE DEF t
  <2>5. Preceding(x) = s[Len(s)]
    BY <1>2 DEF Preceding
  <2> QED
    BY <1>2, <2>2, <2>4, <2>5 DEF Depth
<1>3. CASE x # c
  <2>1. PICK k \in 1..Len(s) : x = s[k]
    BY <1>3, FullChain
  <2>2. s \in Seq(Ids) /\ x \in Ids /\ DOMAIN s = 1..Len(s)
    BY <2>1, FullChain
  <2> DEFINE t == box.refs[x]
  <2>3. t = SubSeq(s, 1, k - 1)
    BY <2>1, FullBefore
  <2>4. /\ Len(t) = k - 1 /\ Len(t) < Len(s)
        /\ k = 1 => t = <<>>
        /\ k # 1 => t # <<>> /\ t[Len(t)] = s[k - 1] /\ t[1] = s[1] /\ k - 1 \in 1..Len(s)
    BY <2>2, <2>3, Prefix
  <2>5. s # <<>> /\ First(c) = s[1]
    <3>1. s # <<>>
      BY <2>1
    <3> QED
      BY <3>1, FullChain
  <2>6. First(x) = IF t = <<>> THEN x ELSE t[1]
    BY <2>2, FullChain
  <2>7. Preceding(x) = IF t = <<>> THEN None ELSE t[Len(t)]
    BY DEF Preceding
  <2>8. Depth(x) < Depth(c)
    BY <2>4 DEF Depth
  <2>9. CASE k = 1
    BY <2>1, <2>2, <2>4, <2>5, <2>6, <2>7, <2>8, <2>9
  <2>10. CASE k # 1
    <3>1. Preceding(x) = s[k - 1] /\ First(x) = s[1] /\ k - 1 \in 1..Len(s)
      BY <2>4, <2>6, <2>7, <2>10
    <3>2. s[k - 1] \in Mentioned(c) /\ s[k - 1] \in Ids
      BY <3>1, FullChain
    <3>3. box.refs[s[k - 1]] = SubSeq(s, 1, (k - 1) - 1)
      BY <3>1, FullBefore
    <3>4. Len(box.refs[s[k - 1]]) = (k - 1) - 1
      BY <2>2, <3>1, <3>3, Prefix
    <3>5. Len(box.refs[s[k - 1]]) < Len(t)
      BY <2>4, <3>4
    <3> QED
      BY <2>2, <2>5, <2>8, <3>1, <3>2, <3>5 DEF Depth
  <2> QED
    BY <2>9, <2>10
<1> QED
  BY <1>1, <1>2, <1>3

\* The links of a message lead from what comes before, and there is one for each of
\* its conversation but the first.
LEMMA FullLinks ==
  ASSUME box \in Mailboxes, FullReferences, NEW c \in Ids
  PROVE  /\ \A link \in ToSet(Links(c)) : link[1] = Preceding(link[2])
         /\ \A x \in Mentioned(c) : Preceding(x) = None \/ <<Preceding(x), x>> \in ToSet(Links(c))
<1> DEFINE s == box.refs[c]
           ids == Append(s, c)
           n == Len(s)
<1>1. s \in Seq(Ids) /\ DOMAIN s = 1..n /\ Chain(c) = s /\ n \in Nat
  BY FullChain DEF Depth
<1>2. /\ Len(ids) = n + 1 /\ ids[n + 1] = c
      /\ \A k \in 1..n : ids[k] = s[k]
      /\ \A k \in 1..n : k + 1 \in 1..n \/ k + 1 = n + 1
  BY <1>1
<1>3. Links(c) = [k \in 1..n |-> <<ids[k], ids[k + 1]>>]
  <2>1. Len(ids) - 1 = n
    BY <1>1, <1>2
  <2> QED
    BY <1>1, <2>1 DEF Links
<1> HIDE DEF ids
<1>0. ASSUME NEW l \in 1..n, l # 1 PROVE Preceding(s[l]) = s[l - 1]
  <2> DEFINE t == box.refs[s[l]]
  <2>1. t = SubSeq(s, 1, l - 1)
    BY FullBefore
  <2> HIDE DEF t
  <2>2. t # <<>> /\ t[Len(t)] = s[l - 1]
    BY <1>0, <1>1, <2>1, Prefix
  <2> QED
    BY <2>2 DEF Preceding, t
<1>4. \A k \in 1..n : Preceding(ids[k + 1]) = ids[k]
  <2> SUFFICES ASSUME NEW k \in 1..n PROVE Preceding(ids[k + 1]) = s[k]
    BY <1>2
  <2>1. CASE k + 1 = n + 1
    <3>1. ids[k + 1] = c /\ k = n
      BY <1>1, <1>2, <2>1
    <3>2. s # <<>>
      BY <1>1
    <3> QED
      BY <3>1, <3>2 DEF Preceding
  <2>2. CASE k + 1 \in 1..n
    <3>1. ids[k + 1] = s[k + 1] /\ k + 1 # 1 /\ (k + 1) - 1 = k
      BY <1>1, <1>2, <2>2
    <3> QED
      BY <1>0, <2>2, <3>1
  <2> QED
    BY <1>2, <2>1, <2>2
<1>5. \A x \in Mentioned(c) : Preceding(x) = None \/ \E k \in 1..n : x = ids[k + 1]
  <2> SUFFICES ASSUME NEW x \in Mentioned(c), Preceding(x) # None PROVE \E k \in 1..n : x = ids[k + 1]
    OBVIOUS
  <2>1. CASE x = c
    <3>1. s # <<>>
      BY <2>1 DEF Preceding
    <3>2. n \in 1..n
      BY <3>1, FullChain
    <3> QED
      BY <1>2, <2>1, <3>2
  <2>2. CASE x # c
    <3>1. PICK l \in 1..n : x = s[l]
      BY <2>2, FullChain
    <3>2. box.refs[x] = SubSeq(s, 1, l - 1)
      BY <3>1, FullBefore
    <3>3. l # 1
      <4>1. l = 1 => box.refs[x] = <<>>
        BY <1>1, <3>2, Prefix
      <4> QED
        BY <4>1 DEF Preceding
    <3>4. l - 1 \in 1..n /\ (l - 1) + 1 = l
      BY <1>1, <3>3
    <3> QED
      BY <1>2, <3>1, <3>4
  <2> QED
    BY <2>1, <2>2
<1>6. DOMAIN Links(c) = 1..n /\ \A k \in 1..n : Links(c)[k] = <<ids[k], ids[k + 1]>>
  BY <1>3
<1>7. ToSet(Links(c)) = {Links(c)[k] : k \in 1..n}
  BY <1>6 DEF ToSet
<1> HIDE DEF n, s
<1>8. \A link \in ToSet(Links(c)) : link[1] = Preceding(link[2])
  BY <1>4, <1>6, <1>7
<1>9. \A k \in 1..n : <<Preceding(ids[k + 1]), ids[k + 1]>> \in ToSet(Links(c))
  BY <1>4, <1>6, <1>7
<1> QED
  BY <1>5, <1>8, <1>9

\* With full References a container never hangs below anything that does not come
\* before it, so a link never closes a cycle; and below its first message once all of
\* its conversation is linked.
LEMMA PathAbove ==
  ASSUME box \in Mailboxes, FullReferences, parent \in Parents,
         \A x \in Ids : parent[x] \in {Absent, None, Preceding(x)},
         NEW c \in Ids
  PROVE  /\ Ancestors(c) \subseteq Mentioned(c)
         /\ Preceding(c) \in Ids => ~WouldCreateCycle(c, Preceding(c))
         /\ (\A x \in Mentioned(c) : parent[x] = Preceding(x)) =>
               First(c) \in Ancestors(c) /\ \A r \in RootsAbove(c) : r = First(c)
<1>1. ASSUME NEW d \in Ids PROVE Ancestors(d) \subseteq Mentioned(d)
  <2>1. \A x \in Mentioned(d) : /\ x \in Ids
                                /\ Preceding(x) = None \/ Preceding(x) \in Mentioned(d)
    BY FullPath
  <2>2. Closed(parent, Mentioned(d))
    BY <2>1, NullsAssumption DEF Closed
  <2>3. d \in Mentioned(d) /\ Mentioned(d) \in SUBSET Ids
    BY <2>1, FullChain
  <2> QED
    BY <2>2, <2>3, AboveFacts, AncestorsAbove
<1>2. ASSUME Preceding(c) \in Ids PROVE ~WouldCreateCycle(c, Preceding(c))
  <2>1. c \in Mentioned(c) /\ Preceding(c) # None
    BY <1>2, FullChain, NullsAssumption
  <2>2. Depth(Preceding(c)) < Depth(c)
    BY <2>1, FullPath
  <2>3. c \notin Mentioned(Preceding(c))
    <3> SUFFICES ASSUME c \in Mentioned(Preceding(c)) PROVE FALSE
      OBVIOUS
    <3>1. c = Preceding(c) \/ Depth(c) < Depth(Preceding(c))
      BY <1>2, FullPath
    <3>2. Depth(c) \in Nat /\ Depth(Preceding(c)) \in Nat
      BY <1>2, FullChain
    <3> QED
      BY <2>2, <3>1, <3>2
  <2> QED
    BY <1>1, <1>2, <2>3 DEF WouldCreateCycle
<1>3. ASSUME \A x \in Mentioned(c) : parent[x] = Preceding(x)
      PROVE  First(c) \in Ancestors(c) /\ \A r \in RootsAbove(c) : r = First(c)
  <2>1. c \in Ancestors(c) /\ Closed(parent, Ancestors(c)) /\ Ancestors(c) \subseteq Mentioned(c)
    BY <1>1, AboveFacts, AncestorsAbove
  <2>2. \A x \in Mentioned(c) : /\ x \in Ids
                                /\ Preceding(x) = None => x = First(c)
                                /\ Preceding(x) # None => Preceding(x) \in Ids /\ Depth(Preceding(x)) < Depth(x)
    BY FullPath, NullsAssumption
  <2>3. \A r \in RootsAbove(c) : r = First(c)
    BY <1>3, <2>1, <2>2 DEF RootsAbove
  <2> DEFINE depths == {Depth(x) : x \in Ancestors(c)}
  <2>4. \A x \in Ancestors(c) : Depth(x) \in Nat
    BY <2>1, <2>2, FullChain
  <2>5. PICK d \in depths : \A e \in depths : d <= e
    <3>1. depths \subseteq Nat /\ depths # {}
      BY <2>1, <2>4
    <3> HIDE DEF depths
    <3> QED
      BY <3>1, LeastExists
  <2>6. PICK x \in Ancestors(c) : d = Depth(x)
    OBVIOUS
  <2>7. x \in Mentioned(c) /\ parent[x] = Preceding(x)
    BY <1>3, <2>1
  <2>8. Preceding(x) = None
    <3> SUFFICES ASSUME Preceding(x) # None PROVE FALSE
      OBVIOUS
    <3>1. Preceding(x) \in Ids /\ Depth(Preceding(x)) < Depth(x)
      BY <2>2, <2>7
    <3>2. Preceding(x) \in Ancestors(c)
      BY <2>1, <2>7, <3>1 DEF Closed
    <3>3. Depth(x) <= Depth(Preceding(x))
      BY <2>5, <2>6, <3>2
    <3>4. Depth(x) \in Nat /\ Depth(Preceding(x)) \in Nat
      BY <2>4, <3>2
    <3> QED
      BY <3>1, <3>3, <3>4
  <2> QED
    BY <2>2, <2>3, <2>6, <2>7, <2>8
<1> QED
  BY <1>1, <1>2, <1>3

\* The first message of a conversation is the first of its own.
LEMMA FirstOfFirst ==
  ASSUME box \in Mailboxes, FullReferences, NEW c \in Ids
  PROVE  First(c) \in Mentioned(c) /\ First(c) \in Ids /\ First(First(c)) = First(c)
<1>1. First(c) \in Mentioned(c)
  BY FullChain
<1> QED
  BY <1>1, FullPath

-----------------------------------------------------------------------------
(* Full References: PathInv, the tree and the rows first, then job by job *)

TreeOnPath ==
    /\ \A c \in Ids : parent[c] \in {Absent, None, Preceding(c)}
    /\ \A c \in Containers : root[c] \in Mentioned(c)
    /\ \A c \in Ids : norm[c] \in {None, box.subject[c].norm}
    /\ \A m \in Ids : thread[m] \in Ids => thread[m] = First(m) /\ root[m] = First(m)
    /\ \A m \in ingested : parent[m] = Preceding(m) /\ root[m] = First(m)

\* What PathInv says of a job, where par and roo are the columns of the tree.
JobOnPath(j, par, roo) ==
    j.at \notin {"away", "idle"} =>
        /\ j.norm \in {None, box.subject[j.msg].norm} /\ ~j.grouped
        /\ j.at = "group" => j.norm # None
        /\ \A link \in Pending(j) : link[1] = Preceding(link[2])
        /\ \A c \in Mentioned(j.msg) :
              \/ <<Preceding(c), c>> \in Pending(j)
              \/ Preceding(c) = None /\ j.at \in {"container", "placeholders"}
              \/ par[c] = Preceding(c)
        /\ j.at \notin {"container", "placeholders", "link", "check", "write"} => Pending(j) = {}
        /\ j.at \in {"old", "subtree", "oldtree", "threads", "persist"} => j.root = First(j.msg)
        /\ j.at \in {"subtree", "oldtree"} => j.old \in Mentioned(j.msg)
        /\ j.at \in {"oldtree", "threads", "persist"} => roo[j.msg] = j.root

JobsOnPath == \A i \in Ingesters : JobOnPath(job[i], parent, root)

LEMMA PathForms == PathInv <=> (FullReferences => TreeOnPath /\ JobsOnPath)
BY DEF PathInv, TreeOnPath, JobsOnPath, JobOnPath

LEMMA SamePaths ==
  ASSUME box' = box
  PROVE  /\ FullReferences' <=> FullReferences
         /\ \A c : Preceding(c)' = Preceding(c) /\ First(c)' = First(c) /\ Mentioned(c)' = Mentioned(c)
         /\ \A j, par, roo : JobOnPath(j, par, roo)' <=> JobOnPath(j, par, roo)
<1>1. \A c : Preceding(c)' = Preceding(c) /\ First(c)' = First(c) /\ Mentioned(c)' = Mentioned(c)
  BY SameBox DEF Preceding, First
<1>2. FullReferences' <=> FullReferences
  BY DEF FullReferences
<1>3. \A j : Pending(j)' = Pending(j)
  BY DEF Pending
<1> QED
  BY <1>1, <1>2, <1>3 DEF JobOnPath

\* What is as References say stays so.
Forward ==
    \A c \in Ids : /\ parent[c] = Preceding(c) => parent'[c] = Preceding(c)
                   /\ root[c] = First(c) => root'[c] = First(c)

LEMMA OthersOnPath ==
  ASSUME AllOK, FullReferences, Forward, NEW k \in Ingesters, JobOnPath(job[k], parent, root)
  PROVE  JobOnPath(job[k], parent', root')
<1>1. JobOK(job[k], Containers) /\ box \in Mailboxes
  BY DEF AllOK, RestOK
<1> DEFINE j == job[k]
<1>2. CASE j.at \in {"away", "idle"}
  BY <1>2 DEF JobOnPath
<1>3. CASE j.at \notin {"away", "idle"}
  <2>1. j.msg \in Ids
    BY <1>1, <1>3, NullsAssumption DEF JobOK, Jobs
  <2>2. \A c \in Mentioned(j.msg) : c \in Ids
    BY <1>1, <2>1, FullPath
  <2> HIDE DEF j
  <2> QED
    BY <1>3, <2>1, <2>2 DEF JobOnPath, Forward, j
<1> QED
  BY <1>2, <1>3

\* A step of ingester i, looked at for what it does itself.
LEMMA PathStep ==
  ASSUME AllOK, FullReferences, TreeOnPath, JobsOnPath, box' = box, Forward,
         NEW i \in Ingesters, NEW k, job' = [job EXCEPT ![i] = k], JobOnPath(k, parent', root'),
         \A c \in Ids : parent'[c] \in {Absent, None, Preceding(c)},
         \A c \in Containers' : root'[c] \in Mentioned(c),
         \A c \in Ids : norm'[c] \in {None, box.subject[c].norm},
         \A m \in Ids : thread'[m] \in Ids =>
            (thread'[m] = thread[m] \/ (thread'[m] = First(m) /\ root'[m] = First(m))),
         \A m \in ingested' : m \in ingested \/ (parent'[m] = Preceding(m) /\ root'[m] = First(m))
  PROVE  TreeOnPath' /\ JobsOnPath'
<1>1. job \in [Ingesters -> Jobs] /\ ingested \subseteq Ids
  BY DEF AllOK, RestOK
<1>2. \A l \in Ingesters : job'[l] = IF l = i THEN k ELSE job[l]
  BY <1>1
<1>3. \A l \in Ingesters : JobOnPath(job'[l], parent', root')
  BY <1>2, OthersOnPath DEF JobsOnPath
<1>4. JobsOnPath'
  BY <1>3, SamePaths DEF JobsOnPath
<1>5. \A m \in Ids : thread'[m] \in Ids => thread'[m] = First(m) /\ root'[m] = First(m)
  BY DEF TreeOnPath, Forward
<1>6. \A m \in ingested' : parent'[m] = Preceding(m) /\ root'[m] = First(m)
  BY <1>1 DEF TreeOnPath, Forward
<1>7. \A c : Preceding(c)' = Preceding(c) /\ First(c)' = First(c) /\ Mentioned(c)' = Mentioned(c)
  BY SamePaths
<1>8. TreeOnPath'
  BY <1>5, <1>6, <1>7 DEF TreeOnPath
<1> QED
  BY <1>4, <1>8

\* A step that only moves the job on.
LEMMA JobAloneOnPath ==
  ASSUME AllOK, FullReferences, TreeOnPath, JobsOnPath,
         UNCHANGED <<parent, root, norm, thread, ingested, box>>,
         NEW i \in Ingesters, NEW k, job' = [job EXCEPT ![i] = k], JobOnPath(k, parent, root)
  PROVE  TreeOnPath' /\ JobsOnPath'
<1>1. Forward /\ Containers' = Containers
  BY DEF Forward, Containers
<1> QED
  BY <1>1, PathStep DEF TreeOnPath

\* What a step starts from.
LEMMA PathStart ==
  ASSUME AllOK, FullReferences, TreeOnPath, JobsOnPath, NEW i \in Ingesters
  PROVE  /\ box \in Mailboxes /\ parent \in Parents /\ job[i] \in Jobs /\ job \in [Ingesters -> Jobs]
         /\ JobOK(job[i], Containers) /\ JobOnPath(job[i], parent, root)
         /\ job[i].at \notin {"away", "idle"} => job[i].msg \in Ids /\ Mentioned(job[i].msg) \subseteq Ids
<1>1. /\ box \in Mailboxes /\ parent \in Parents /\ job[i] \in Jobs /\ job \in [Ingesters -> Jobs]
      /\ JobOK(job[i], Containers) /\ JobOnPath(job[i], parent, root)
  BY DEF AllOK, RestOK, JobsOnPath
<1>2. job[i].at \notin {"away", "idle"} => job[i].msg \in Ids
  BY <1>1, NullsAssumption DEF JobOK, Jobs
<1> QED
  BY <1>1, <1>2, ChainFacts

LEMMA BeginOnPath ==
  ASSUME AllOK, FullReferences, TreeOnPath, JobsOnPath, NEW i \in Ingesters, NEW m \in Ids, Begin(i, m)
  PROVE  TreeOnPath' /\ JobsOnPath'
<1> DEFINE nm == IF thread[m] = Absent THEN None ELSE box.subject[m].norm
           at == "container"
           k == [NoJob EXCEPT !.at = at, !.msg = m, !.links = Links(m), !.norm = nm]
<1>1. job' = [job EXCEPT ![i] = k] /\ UNCHANGED <<parent, root, norm, thread, ingested, box>>
  BY DEF Begin, tree
<1>2. nm \in {None, box.subject[m].norm} /\ at = "container" /\ box \in Mailboxes
  BY DEF AllOK, RestOK
<1>3. /\ k.at = at /\ k.msg = m /\ k.links = Links(m) /\ k.norm = nm /\ ~k.grouped
  BY DEF NoJob
<1> HIDE DEF k, nm, at
<1>4. Pending(k) = ToSet(Links(m))
  BY <1>2, <1>3 DEF Pending
<1>5. JobOnPath(k, parent, root)
  BY <1>2, <1>3, <1>4, FullLinks DEF JobOnPath
<1> QED
  BY <1>1, <1>5, JobAloneOnPath

\* INSERT of containers of Message-IDs.
LEMMA InsertOnPath ==
  ASSUME AllOK, FullReferences, TreeOnPath, NEW new \in SUBSET Ids, Insert(new)
  PROVE  /\ Forward
         /\ \A c \in Ids : parent'[c] \in {Absent, None, Preceding(c)}
         /\ \A c \in Containers' : root'[c] \in Mentioned(c)
<1>1. /\ \A c \in Ids : parent'[c] = IF c \in new /\ parent[c] = Absent THEN None ELSE parent[c]
      /\ \A c \in Ids : root'[c] = IF c \in new /\ parent[c] = Absent THEN c ELSE root[c]
  BY DEF Insert
<1>2. \A c \in Ids : Preceding(c) # Absent /\ c \in Mentioned(c)
  BY FullChain, FullPath, NullsAssumption DEF AllOK, RestOK
<1>3. \A c \in Ids : parent[c] = Absent => root[c] = None /\ First(c) # None
  BY FirstOfFirst, NullsAssumption DEF AllOK, RestOK, Containers
<1>4. Forward
  BY <1>1, <1>2, <1>3 DEF Forward
<1>5. \A c \in Containers' : c \in Ids /\ (parent[c] = Absent => c \in new)
  BY <1>1 DEF Containers
<1>6. \A c \in Containers' : root'[c] \in Mentioned(c)
  BY <1>1, <1>2, <1>5 DEF TreeOnPath, Containers
<1> QED
  BY <1>1, <1>4, <1>6 DEF TreeOnPath

LEMMA UpsertOnPath ==
  ASSUME AllOK, FullReferences, TreeOnPath, JobsOnPath, NEW i \in Ingesters, UpsertContainer(i)
  PROVE  TreeOnPath' /\ JobsOnPath'
<1> DEFINE j == job[i]
           k == job'[i]
<1>1. /\ Insert({j.msg}) /\ j.at = "container" /\ thread' = thread /\ ingested' = ingested /\ box' = box
      /\ norm' = [norm EXCEPT ![j.msg] = IF j.norm # None THEN j.norm ELSE @]
      /\ Goto(i, "placeholders")
  BY DEF UpsertContainer
<1>2. /\ k.at = "placeholders" /\ k.msg = j.msg /\ k.links = j.links
      /\ k.norm = j.norm /\ k.grouped = j.grouped /\ job' = [job EXCEPT ![i] = k]
  BY <1>1, GoneOn
<1>3. j.msg \in Ids /\ Mentioned(j.msg) \subseteq Ids /\ JobOnPath(j, parent, root)
  BY <1>1, PathStart
<1>4. /\ Forward
      /\ \A c \in Ids : parent'[c] \in {Absent, None, Preceding(c)}
      /\ \A c \in Containers' : root'[c] \in Mentioned(c)
  BY <1>1, <1>3, InsertOnPath
<1> HIDE DEF k
<1>5. Pending(k) = Pending(j)
  BY <1>1, <1>2 DEF Pending
<1>6. JobOnPath(k, parent', root')
  BY <1>1, <1>2, <1>3, <1>4, <1>5 DEF JobOnPath, Forward
<1>7. \A c \in Ids : norm'[c] \in {None, box.subject[c].norm}
  <2>1. \A c \in Ids : norm'[c] = IF c = j.msg /\ j.norm # None THEN j.norm ELSE norm[c]
    BY <1>1 DEF AllOK, RestOK
  <2>2. j.norm \in {None, box.subject[j.msg].norm}
    BY <1>1, <1>3 DEF JobOnPath
  <2> QED
    BY <2>1, <2>2 DEF TreeOnPath
<1> QED
  BY <1>1, <1>2, <1>4, <1>6, <1>7, PathStep

LEMMA PlaceholdersOnPath ==
  ASSUME AllOK, AllOK', FullReferences, TreeOnPath, JobsOnPath, NEW i \in Ingesters, AddPlaceholders(i)
  PROVE  TreeOnPath' /\ JobsOnPath'
<1> DEFINE j == job[i]
           k == job'[i]
<1>1. /\ Insert(ToSet(Chain(j.msg))) /\ j.at = "placeholders"
      /\ thread' = thread /\ ingested' = ingested /\ box' = box /\ norm' = norm
      /\ Goto(i, "link")
  BY DEF AddPlaceholders
<1>2. /\ k.at = "link" /\ k.msg = j.msg /\ k.links = j.links
      /\ k.norm = j.norm /\ k.grouped = j.grouped /\ job' = [job EXCEPT ![i] = k]
  BY <1>1, GoneOn
<1>3. j.msg \in Ids /\ Mentioned(j.msg) \subseteq Ids /\ JobOnPath(j, parent, root)
  BY <1>1, PathStart
<1>4. /\ Forward
      /\ \A c \in Ids : parent'[c] \in {Absent, None, Preceding(c)}
      /\ \A c \in Containers' : root'[c] \in Mentioned(c)
  <2>1. ToSet(Chain(j.msg)) \in SUBSET Ids
    BY <1>3 DEF Mentioned
  <2> QED
    BY <1>1, <2>1, InsertOnPath
\* Everything it mentions has a container by now.
<1>5. \A c \in Mentioned(j.msg) : parent'[c] # Absent
  <2>1. JobOK(job'[i], Containers')
    <3>1. JobOK(job[i], Containers)'
      BY DEF AllOK
    <3> QED
      BY <1>1, <3>1, SameBox
  <2>2. Mentioned(j.msg) \subseteq Containers'
    BY <1>2, <2>1 DEF JobOK
  <2> QED
    BY <2>2 DEF Containers
<1> HIDE DEF k
<1>6. Pending(k) = Pending(j)
  BY <1>1, <1>2 DEF Pending
<1>7. \A c \in Mentioned(j.msg) : <<Preceding(c), c>> \in Pending(j) \/ parent'[c] = Preceding(c)
  BY <1>1, <1>3, <1>4, <1>5 DEF JobOnPath, Forward
<1>8. JobOnPath(k, parent', root')
  BY <1>1, <1>2, <1>3, <1>4, <1>6, <1>7 DEF JobOnPath, Forward
<1> QED
  BY <1>1, <1>2, <1>4, <1>8, PathStep DEF TreeOnPath

LEMMA HeadAndTail ==
  ASSUME NEW S, NEW s \in Seq(S), s # <<>>
  PROVE  ToSet(s) = {Head(s)} \cup ToSet(Tail(s))
<1>1. /\ Len(s) \in Nat /\ Len(s) # 0 /\ DOMAIN s = 1..Len(s) /\ DOMAIN Tail(s) = 1..(Len(s) - 1)
      /\ Head(s) = s[1] /\ \A k \in 1..(Len(s) - 1) : Tail(s)[k] = s[k + 1]
  BY EmptySeq, LenProperties
<1>2. ASSUME NEW l \in DOMAIN s PROVE s[l] \in {Head(s)} \cup ToSet(Tail(s))
  <2>1. CASE l = 1
    BY <1>1, <2>1
  <2>2. CASE l # 1
    <3>1. l - 1 \in 1..(Len(s) - 1) /\ (l - 1) + 1 = l
      BY <1>1, <2>2
    <3>2. Tail(s)[l - 1] = s[l] /\ l - 1 \in DOMAIN Tail(s)
      BY <1>1, <3>1
    <3> QED
      BY <3>2 DEF ToSet
  <2> QED
    BY <2>1, <2>2
<1>3. ASSUME NEW l \in DOMAIN Tail(s) PROVE Tail(s)[l] \in ToSet(s)
  <2>1. l + 1 \in DOMAIN s /\ Tail(s)[l] = s[l + 1]
    BY <1>1
  <2> QED
    BY <2>1 DEF ToSet
<1>4. 1 \in DOMAIN s
  BY <1>1
<1> QED
  BY <1>1, <1>2, <1>3, <1>4 DEF ToSet

LEMMA LinkReadOnPath ==
  ASSUME AllOK, FullReferences, TreeOnPath, JobsOnPath, NEW i \in Ingesters, LinkRead(i)
  PROVE  TreeOnPath' /\ JobsOnPath'
<1> DEFINE p == job[i]
           link == Head(p.links)
           at == IF parent[link[2]] = None THEN "check" ELSE "link"
           k == [p EXCEPT !.links = Tail(@), !.link = link, !.at = at]
<1>1. /\ p \in Jobs /\ p.at = "link" /\ p.links # <<>> /\ p.msg \in Ids
      /\ JobOK(p, Containers) /\ JobOnPath(p, parent, root)
  BY PathStart DEF LinkRead
<1>2. job' = [job EXCEPT ![i] = k] /\ UNCHANGED <<parent, root, norm, thread, ingested, box>>
  BY DEF AllOK, LinkRead, tree
<1>3. link \in Ids \X Ids /\ ToSet(p.links) = {link} \cup ToSet(Tail(p.links))
  <2>1. p.links \in Seq(Ids \X Ids)
    BY <1>1 DEF Jobs
  <2>2. link \in Ids \X Ids /\ link \in ToSet(p.links) /\ ToSet(Tail(p.links)) \subseteq ToSet(p.links)
    BY <1>1, <2>1, Taken
  <2> QED
    BY <1>1, <2>1, <2>2, HeadAndTail
<1>4. at = IF parent[link[2]] = None THEN "check" ELSE "link"
  OBVIOUS
<1> HIDE DEF at, link
<1>5. /\ k.at = at /\ k.links = Tail(p.links) /\ k.link = link
      /\ k.msg = p.msg /\ k.norm = p.norm /\ k.grouped = p.grouped
  BY <1>1 DEF Jobs
<1> HIDE DEF k, p
<1>6. Pending(p) = {link} \cup ToSet(Tail(p.links))
  BY <1>1, <1>3 DEF Pending
<1>7. Pending(k) = ToSet(Tail(p.links)) \cup (IF at = "check" THEN {link} ELSE {})
  BY <1>4, <1>5 DEF Pending
<1>8. /\ link[1] = Preceding(link[2])
      /\ parent[link[2]] # None => parent[link[2]] = Preceding(link[2])
  <2>1. link[1] = Preceding(link[2])
    BY <1>1, <1>6 DEF JobOnPath
  <2>2. link[2] \in Containers
    BY <1>1, <1>3 DEF JobOK
  <2> QED
    BY <2>1, <2>2 DEF TreeOnPath, Containers
<1>9. \A c \in Mentioned(p.msg) : <<Preceding(c), c>> \in Pending(k) \/ parent[c] = Preceding(c)
  <2> SUFFICES ASSUME NEW c \in Mentioned(p.msg), parent[c] # Preceding(c)
               PROVE  <<Preceding(c), c>> \in Pending(k)
    OBVIOUS
  <2>1. <<Preceding(c), c>> \in Pending(p)
    BY <1>1 DEF JobOnPath
  <2>2. CASE <<Preceding(c), c>> = link
    <3>1. link[2] = c
      BY <2>2
    <3> QED
      BY <1>4, <1>7, <1>8, <2>2, <3>1
  <2> QED
    BY <1>6, <1>7, <2>1, <2>2
<1>10. k.at \in {"link", "check"}
  BY <1>4, <1>5
<1>11. \A l \in Pending(k) : l[1] = Preceding(l[2])
  BY <1>1, <1>6, <1>7 DEF JobOnPath
<1>12. JobOnPath(k, parent, root)
  BY <1>1, <1>5, <1>9, <1>10, <1>11 DEF JobOnPath
<1> QED
  BY <1>2, <1>12, JobAloneOnPath DEF p

\* A job that only goes on, with the links it had.
LEMMA GoesOnOnPath ==
  ASSUME AllOK, FullReferences, TreeOnPath, JobsOnPath, NEW i \in Ingesters, NEW at, Goto(i, at),
         UNCHANGED <<parent, root, norm, thread, ingested, box>>,
         JobOnPath(job'[i], parent, root)
  PROVE  TreeOnPath' /\ JobsOnPath'
BY GoneOn, JobAloneOnPath

LEMMA LinkCheckOnPath ==
  ASSUME AllOK, FullReferences, TreeOnPath, JobsOnPath, NEW i \in Ingesters, LinkCheck(i)
  PROVE  TreeOnPath' /\ JobsOnPath'
<1> DEFINE j == job[i]
           k == job'[i]
<1>1. /\ j.at = "check" /\ j \in Jobs /\ j.msg \in Ids /\ box \in Mailboxes /\ parent \in Parents
      /\ JobOK(j, Containers) /\ JobOnPath(j, parent, root)
  BY PathStart DEF LinkCheck
<1>2. j.link[1] = Preceding(j.link[2]) /\ j.link[1] \in Ids /\ j.link[2] \in Ids
  BY <1>1 DEF JobOnPath, Pending, JobOK, Containers
<1>3. ~WouldCreateCycle(j.link[2], j.link[1])
  BY <1>1, <1>2, PathAbove DEF TreeOnPath
<1>4. Goto(i, "write") /\ UNCHANGED <<parent, root, norm, thread, ingested, box>>
  BY <1>3 DEF LinkCheck, tree
<1>5. /\ k.at = "write" /\ k.msg = j.msg /\ k.links = j.links /\ k.link = j.link
      /\ k.norm = j.norm /\ k.grouped = j.grouped
  BY <1>4, GoneOn
<1> HIDE DEF k
<1>6. Pending(k) = Pending(j)
  BY <1>1, <1>5 DEF Pending
<1>7. JobOnPath(k, parent, root)
  BY <1>1, <1>5, <1>6 DEF JobOnPath
<1> QED
  BY <1>4, <1>7, GoesOnOnPath DEF k

LEMMA LinkWriteOnPath ==
  ASSUME AllOK, FullReferences, TreeOnPath, JobsOnPath, NEW i \in Ingesters, LinkWrite(i)
  PROVE  TreeOnPath' /\ JobsOnPath'
<1> DEFINE j == job[i]
           k == job'[i]
           n == j.link[2]
<1>1. /\ j.at = "write" /\ j \in Jobs /\ j.msg \in Ids /\ box \in Mailboxes /\ parent \in Parents
      /\ JobOK(j, Containers) /\ JobOnPath(j, parent, root) /\ Mentioned(j.msg) \subseteq Ids
  BY PathStart DEF LinkWrite
<1>2. j.link[1] = Preceding(n) /\ j.link[1] \in Ids /\ n \in Containers /\ n \in Ids
  BY <1>1 DEF JobOnPath, Pending, JobOK, Containers
<1>3. /\ Goto(i, "link") /\ UNCHANGED <<root, norm, thread, ingested, box>>
      /\ parent' = [parent EXCEPT ![n] = j.link[1]]
  BY <1>1 DEF LinkWrite, JobOnPath
<1>4. /\ k.at = "link" /\ k.msg = j.msg /\ k.links = j.links /\ k.link = j.link
      /\ k.norm = j.norm /\ k.grouped = j.grouped /\ job' = [job EXCEPT ![i] = k]
  BY <1>3, GoneOn
<1>5. /\ \A c \in Ids : parent'[c] = IF c = n THEN Preceding(n) ELSE parent[c]
      /\ Preceding(n) # Absent
  BY <1>1, <1>2, <1>3, NullsAssumption DEF Parents
<1> HIDE DEF k, n
<1>6. Forward /\ Containers' = Containers
  BY <1>2, <1>3, <1>5 DEF Forward, Containers
<1>7. Pending(j) = ToSet(j.links) \cup {j.link} /\ Pending(k) = ToSet(j.links)
  BY <1>1, <1>4 DEF Pending
<1>8. \A c \in Mentioned(j.msg) : <<Preceding(c), c>> \in Pending(k) \/ parent'[c] = Preceding(c)
  <2> SUFFICES ASSUME NEW c \in Mentioned(j.msg), <<Preceding(c), c>> \notin Pending(k)
               PROVE  parent'[c] = Preceding(c)
    OBVIOUS
  <2>1. <<Preceding(c), c>> \in Pending(j) \/ parent[c] = Preceding(c)
    BY <1>1 DEF JobOnPath
  <2>2. CASE <<Preceding(c), c>> = j.link
    <3>1. c = n
      BY <2>2 DEF n
    <3> QED
      BY <1>2, <1>5, <3>1
  <2>3. CASE parent[c] = Preceding(c)
    BY <1>1, <1>5, <2>3
  <2> QED
    BY <1>7, <2>1, <2>2, <2>3
<1>9. JobOnPath(k, parent', root')
  BY <1>1, <1>4, <1>7, <1>8 DEF JobOnPath
<1>10. /\ \A c \in Ids : parent'[c] \in {Absent, None, Preceding(c)}
       /\ \A c \in Containers' : root'[c] \in Mentioned(c)
       /\ \A c \in Ids : norm'[c] \in {None, box.subject[c].norm}
  BY <1>3, <1>5, <1>6 DEF TreeOnPath
<1> QED
  BY <1>3, <1>4, <1>6, <1>9, <1>10, PathStep

LEMMA GroupReadOnPath ==
  ASSUME AllOK, FullReferences, TreeOnPath, JobsOnPath, NEW i \in Ingesters, GroupRead(i)
  PROVE  TreeOnPath' /\ JobsOnPath'
<1> DEFINE j == job[i]
           k == job'[i]
           at == IF parent[j.msg] = None /\ j.norm # None THEN "group" ELSE "root"
<1>1. /\ j.at = "link" /\ j.links = <<>> /\ j \in Jobs /\ j.msg \in Ids
      /\ JobOK(j, Containers) /\ JobOnPath(j, parent, root)
  BY PathStart DEF GroupRead
<1>2. Goto(i, at) /\ UNCHANGED <<parent, root, norm, thread, ingested, box>>
  BY DEF GroupRead, tree
<1>3. at \in {"group", "root"} /\ (at = "group" => j.norm # None)
  OBVIOUS
<1> HIDE DEF at
<1>4. /\ k.at = at /\ k.msg = j.msg /\ k.links = j.links /\ k.link = j.link
      /\ k.norm = j.norm /\ k.grouped = j.grouped
  BY <1>2, GoneOn
<1> HIDE DEF k
<1>5. Pending(j) = {} /\ Pending(k) = {}
  BY <1>1, <1>3, <1>4 DEF Pending, ToSet
<1>6. JobOnPath(k, parent, root)
  BY <1>1, <1>3, <1>4, <1>5 DEF JobOnPath
<1> QED
  BY <1>2, <1>6, GoesOnOnPath DEF k

\* No other container has the subject of a message.
LEMMA GroupFindOnPath ==
  ASSUME AllOK, FullReferences, TreeOnPath, JobsOnPath, NEW i \in Ingesters, GroupFind(i)
  PROVE  TreeOnPath' /\ JobsOnPath'
<1> DEFINE j == job[i]
           at == "root"
           k == [j EXCEPT !.at = at, !.grouped = FALSE]
<1>1. /\ j.at = "group" /\ j \in Jobs /\ j.msg \in Ids /\ box \in Mailboxes /\ job \in [Ingesters -> Jobs]
      /\ JobOK(j, Containers) /\ JobOnPath(j, parent, root)
  BY PathStart DEF GroupFind
<1>2. UNCHANGED <<parent, root, norm, thread, ingested, box>>
  BY DEF GroupFind, tree
<1>3. ASSUME NEW c \in Containers, c # j.msg, norm[c] = j.norm
      PROVE  FALSE
  <2>1. j.norm # None /\ j.norm = box.subject[j.msg].norm
    BY <1>1 DEF JobOnPath
  <2>2. norm[c] = box.subject[c].norm /\ c \in Ids
    BY <1>3, <2>1 DEF TreeOnPath, Containers
  <2> QED
    BY <1>1, <1>3, <2>1, <2>2 DEF FullReferences
<1>4. job' = [job EXCEPT ![i].at = at, ![i].grouped = FALSE]
  BY <1>3, GroupForms
<1>5. job' = [job EXCEPT ![i] = k]
  BY <1>1, <1>4
<1>6. /\ k.at = at /\ k.msg = j.msg /\ k.links = j.links /\ ~k.grouped /\ k.norm = j.norm
  BY <1>1 DEF Jobs
<1>7. at = "root"
  OBVIOUS
<1> HIDE DEF k, at
<1>8. Pending(j) = ToSet(j.links) /\ Pending(k) = ToSet(j.links) /\ Pending(j) = {}
  BY <1>1, <1>6, <1>7 DEF Pending, JobOnPath
<1>9. JobOnPath(k, parent, root)
  BY <1>1, <1>6, <1>7, <1>8 DEF JobOnPath
<1> QED
  BY <1>2, <1>5, <1>9, JobAloneOnPath

LEMMA FindRootOnPath ==
  ASSUME AllOK, FullReferences, TreeOnPath, JobsOnPath, NEW i \in Ingesters, FindRoot(i)
  PROVE  TreeOnPath' /\ JobsOnPath'
<1> DEFINE j == job[i]
<1>1. /\ j.at = "root" /\ j \in Jobs /\ j.msg \in Ids /\ box \in Mailboxes /\ parent \in Parents
      /\ job \in [Ingesters -> Jobs] /\ JobOnPath(j, parent, root)
  BY PathStart DEF FindRoot
<1>2. UNCHANGED <<parent, root, norm, thread, ingested, box>>
  BY DEF FindRoot, tree
<1>3. CASE job' = [job EXCEPT ![i] = NoJob]
  <2>1. JobOnPath(NoJob, parent, root)
    BY DEF JobOnPath, NoJob
  <2> QED
    BY <1>2, <1>3, <2>1, JobAloneOnPath
<1>4. ASSUME NEW r \in RootsAbove(j.msg), job' = [job EXCEPT ![i].at = "old", ![i].root = r]
      PROVE  TreeOnPath' /\ JobsOnPath'
  <2> DEFINE at == "old"
             k == [j EXCEPT !.at = at, !.root = r]
  <2>1. \A c \in Mentioned(j.msg) : parent[c] = Preceding(c)
    BY <1>1 DEF JobOnPath
  <2>2. r = First(j.msg)
    BY <1>1, <2>1, PathAbove DEF TreeOnPath
  <2>3. job' = [job EXCEPT ![i] = k] /\ at = "old"
    BY <1>1, <1>4
  <2>4. k.at = at /\ k.root = r /\ k.msg = j.msg /\ k.links = j.links /\ k.grouped = j.grouped /\ k.norm = j.norm
    BY <1>1 DEF Jobs
  <2> HIDE DEF k, at
  <2>5. Pending(k) = {} /\ Pending(j) = {}
    BY <1>1, <2>3, <2>4 DEF Pending, JobOnPath
  <2>6. JobOnPath(k, parent, root)
    BY <1>1, <2>1, <2>2, <2>3, <2>4, <2>5 DEF JobOnPath
  <2> QED
    BY <1>2, <2>3, <2>6, JobAloneOnPath
<1> QED
  BY <1>3, <1>4 DEF FindRoot

LEMMA ReadOldRootOnPath ==
  ASSUME AllOK, FullReferences, TreeOnPath, JobsOnPath, NEW i \in Ingesters, ReadOldRoot(i)
  PROVE  TreeOnPath' /\ JobsOnPath'
<1> DEFINE j == job[i]
           old == root[j.msg]
           at == IF old = j.root THEN "threads" ELSE "subtree"
           k == [j EXCEPT !.old = old, !.at = at]
<1>1. /\ j.at = "old" /\ j \in Jobs /\ j.msg \in Ids /\ job \in [Ingesters -> Jobs]
      /\ JobOK(j, Containers) /\ JobOnPath(j, parent, root)
  BY PathStart DEF ReadOldRoot
<1>2. job' = [job EXCEPT ![i] = k] /\ UNCHANGED <<parent, root, norm, thread, ingested, box>>
  BY <1>1 DEF ReadOldRoot, tree
<1>3. /\ at \in {"threads", "subtree"} /\ (at = "threads" => root[j.msg] = j.root)
      /\ old \in Mentioned(j.msg)
  BY <1>1 DEF TreeOnPath, JobOK
<1> HIDE DEF at, old
<1>4. /\ k.at = at /\ k.old = old /\ k.root = j.root /\ k.msg = j.msg /\ k.links = j.links
      /\ k.grouped = j.grouped /\ k.norm = j.norm
  BY <1>1 DEF Jobs
<1> HIDE DEF k
<1>5. Pending(k) = {} /\ Pending(j) = {}
  BY <1>1, <1>3, <1>4 DEF Pending, JobOnPath
<1>6. JobOnPath(k, parent, root)
  BY <1>1, <1>3, <1>4, <1>5 DEF JobOnPath
<1> QED
  BY <1>2, <1>6, JobAloneOnPath

\* Writing the first of its conversation to the root_id of containers cs of that
\* conversation.
LEMMA SetRootOnPath ==
  ASSUME AllOK, FullReferences, TreeOnPath, NEW cs, NEW r, SetRoot(cs, r), parent' = parent,
         \A c \in Ids : c \in cs => r = First(c)
  PROVE  /\ Forward /\ Containers' = Containers
         /\ \A c \in Containers' : root'[c] \in Mentioned(c)
<1>1. \A c \in Ids : root'[c] = IF c \in cs THEN r ELSE root[c]
  BY DEF SetRoot
<1>2. \A c \in Ids : First(c) \in Mentioned(c)
  BY FirstOfFirst DEF AllOK, RestOK
<1> QED
  BY <1>1, <1>2 DEF Forward, Containers, TreeOnPath

LEMMA RewriteSubtreeOnPath ==
  ASSUME AllOK, FullReferences, TreeOnPath, JobsOnPath, NEW i \in Ingesters, RewriteSubtree(i)
  PROVE  TreeOnPath' /\ JobsOnPath'
<1> DEFINE j == job[i]
           k == job'[i]
           cs == Subtree({j.root})
<1>1. /\ j.at = "subtree" /\ j \in Jobs /\ j.msg \in Ids /\ box \in Mailboxes /\ parent \in Parents
      /\ JobOK(j, Containers) /\ JobOnPath(j, parent, root)
  BY PathStart DEF RewriteSubtree
<1>2. /\ SetRoot(cs, j.root) /\ Goto(i, "oldtree") /\ UNCHANGED <<parent, norm, thread, ingested, box>>
  BY DEF RewriteSubtree
<1>3. j.root = First(j.msg) /\ Pending(j) = {} /\ \A c \in Mentioned(j.msg) : parent[c] = Preceding(c)
  BY <1>1 DEF JobOnPath
<1>4. First(j.msg) \in Ancestors(j.msg) /\ j.msg \in Containers
  BY <1>1, <1>3, PathAbove DEF TreeOnPath, JobOK
<1>5. ASSUME NEW c \in Ids, c \in cs PROVE j.root = First(c)
  <2>1. j.root \in Ancestors(c)
    BY <1>5 DEF Subtree
  <2>2. j.root \in Mentioned(c)
    BY <1>1, <2>1, PathAbove DEF TreeOnPath
  <2> QED
    BY <1>1, <1>3, <2>2, FullPath, FirstOfFirst
<1>6. j.msg \in cs
  BY <1>3, <1>4 DEF Subtree
<1>7. root'[j.msg] = j.root
  BY <1>1, <1>2, <1>6 DEF SetRoot
<1> HIDE DEF cs
<1>8. /\ Forward /\ Containers' = Containers
      /\ \A c \in Containers' : root'[c] \in Mentioned(c)
  BY <1>2, <1>5, SetRootOnPath
<1>9. /\ k.at = "oldtree" /\ k.root = j.root /\ k.msg = j.msg /\ k.links = j.links /\ k.norm = j.norm
      /\ k.grouped = j.grouped /\ k.old = j.old /\ job' = [job EXCEPT ![i] = k]
  BY <1>2, GoneOn
<1> HIDE DEF k
<1>10. Pending(k) = {}
  BY <1>1, <1>3, <1>9 DEF Pending
<1>11. JobOnPath(k, parent', root')
  BY <1>1, <1>2, <1>3, <1>7, <1>9, <1>10 DEF JobOnPath
<1> QED
  BY <1>2, <1>8, <1>9, <1>11, PathStep DEF TreeOnPath

LEMMA RewriteOldTreeOnPath ==
  ASSUME AllOK, FullReferences, TreeOnPath, JobsOnPath, NEW i \in Ingesters, RewriteOldTree(i)
  PROVE  TreeOnPath' /\ JobsOnPath'
<1> DEFINE j == job[i]
           k == job'[i]
           tops == {c \in Containers : root[c] = j.old}
           cs == Subtree(tops)
<1>1. /\ j.at = "oldtree" /\ j \in Jobs /\ j.msg \in Ids /\ box \in Mailboxes /\ parent \in Parents
      /\ JobOK(j, Containers) /\ JobOnPath(j, parent, root)
  BY PathStart DEF RewriteOldTree
<1>2. /\ SetRoot(cs, j.root) /\ Goto(i, "threads") /\ UNCHANGED <<parent, norm, thread, ingested, box>>
  BY DEF RewriteOldTree
<1>3. /\ j.root = First(j.msg) /\ Pending(j) = {} /\ root[j.msg] = j.root /\ j.old \in Mentioned(j.msg)
      /\ \A c \in Mentioned(j.msg) : parent[c] = Preceding(c)
  BY <1>1 DEF JobOnPath
<1>4. First(j.old) = First(j.msg)
  BY <1>1, <1>3, FullPath
<1>5. ASSUME NEW c \in Ids, c \in cs PROVE j.root = First(c)
  <2>1. PICK t \in Ancestors(c) : t \in Containers /\ root[t] = j.old
    BY <1>5 DEF Subtree
  <2>2. t \in Mentioned(c) /\ j.old \in Mentioned(t) /\ t \in Ids
    BY <1>1, <2>1, PathAbove DEF TreeOnPath, Containers
  <2>3. First(t) = First(c) /\ First(j.old) = First(t)
    BY <1>1, <2>2, FullPath
  <2> QED
    BY <1>3, <1>4, <2>3
<1> HIDE DEF cs
<1>6. /\ Forward /\ Containers' = Containers
      /\ \A c \in Containers' : root'[c] \in Mentioned(c)
  BY <1>2, <1>5, SetRootOnPath
<1>7. root'[j.msg] = j.root
  BY <1>1, <1>3, <1>6 DEF Forward
<1>8. /\ k.at = "threads" /\ k.root = j.root /\ k.msg = j.msg /\ k.links = j.links /\ k.norm = j.norm
      /\ k.grouped = j.grouped /\ job' = [job EXCEPT ![i] = k]
  BY <1>2, GoneOn
<1> HIDE DEF k
<1>9. Pending(k) = {}
  BY <1>1, <1>3, <1>8 DEF Pending
<1>10. JobOnPath(k, parent', root')
  BY <1>1, <1>2, <1>3, <1>7, <1>8, <1>9 DEF JobOnPath
<1> QED
  BY <1>2, <1>6, <1>8, <1>10, PathStep DEF TreeOnPath

LEMMA ThreadMessagesOnPath ==
  ASSUME AllOK, FullReferences, TreeOnPath, JobsOnPath, NEW i \in Ingesters, ThreadMessages(i)
  PROVE  TreeOnPath' /\ JobsOnPath'
<1> DEFINE j == job[i]
           k == job'[i]
<1>1. /\ j.at = "threads" /\ j \in Jobs /\ j.msg \in Ids /\ box \in Mailboxes /\ JobOnPath(j, parent, root)
  BY PathStart DEF ThreadMessages
<1>2. /\ Goto(i, "persist") /\ UNCHANGED <<parent, root, norm, ingested, box>>
      /\ \A m \in Ids : thread'[m] =
            IF m \in box.byId /\ thread[m] # Absent /\ root[m] = j.root THEN j.root ELSE thread[m]
  BY DEF ThreadMessages, tree
<1>3. j.root = First(j.msg) /\ Pending(j) = {} /\ root[j.msg] = j.root
  BY <1>1 DEF JobOnPath
\* What has this root belongs to its conversation.
<1>4. ASSUME NEW m \in Ids, root[m] = j.root PROVE j.root = First(m)
  <2>1. First(First(j.msg)) = First(j.msg) /\ j.root \in Ids
    BY <1>1, <1>3, FirstOfFirst
  <2>2. m \in Containers
    BY <1>4, <2>1, NullsAssumption DEF AllOK, RestOK
  <2>3. j.root \in Mentioned(m)
    BY <1>4, <2>2 DEF TreeOnPath
  <2> QED
    BY <1>1, <1>3, <2>1, <2>3, FullPath
<1>5. \A m \in Ids : thread'[m] = thread[m] \/ (thread'[m] = First(m) /\ root'[m] = First(m))
  BY <1>2, <1>4
<1>6. Forward /\ Containers' = Containers
  BY <1>2 DEF Forward, Containers
<1>7. /\ k.at = "persist" /\ k.root = j.root /\ k.msg = j.msg /\ k.links = j.links /\ k.norm = j.norm
      /\ k.grouped = j.grouped /\ job' = [job EXCEPT ![i] = k]
  BY <1>2, GoneOn
<1> HIDE DEF k
<1>8. Pending(k) = {}
  BY <1>1, <1>3, <1>7 DEF Pending
<1>9. JobOnPath(k, parent', root')
  BY <1>1, <1>2, <1>3, <1>7, <1>8 DEF JobOnPath
<1> QED
  BY <1>2, <1>5, <1>6, <1>7, <1>9, PathStep DEF TreeOnPath

LEMMA PersistOnPath ==
  ASSUME AllOK, FullReferences, TreeOnPath, JobsOnPath, NEW i \in Ingesters, Persist(i)
  PROVE  TreeOnPath' /\ JobsOnPath'
<1> DEFINE j == job[i]
<1>1. /\ j.at = "persist" /\ j \in Jobs /\ j.msg \in Ids /\ box \in Mailboxes /\ JobOnPath(j, parent, root)
  BY PathStart DEF Persist
<1>2. /\ job' = [job EXCEPT ![i] = NoJob] /\ UNCHANGED <<parent, root, norm, box>>
      /\ ingested' = ingested \cup {j.msg}
      /\ thread' = [thread EXCEPT ![j.msg] = IF @ = Absent THEN @ ELSE j.root]
  BY <1>1 DEF Persist, tree
<1>3. j.root = First(j.msg) /\ Pending(j) = {} /\ root[j.msg] = j.root
  BY <1>1 DEF JobOnPath
<1>4. parent[j.msg] = Preceding(j.msg)
  BY <1>1, <1>3, FullChain DEF JobOnPath
<1>5. \A m \in Ids : thread'[m] = thread[m] \/ (thread'[m] = First(m) /\ root'[m] = First(m))
  BY <1>2, <1>3 DEF AllOK, RestOK
<1>6. Forward /\ Containers' = Containers
  BY <1>2 DEF Forward, Containers
<1>7. JobOnPath(NoJob, parent', root')
  BY DEF JobOnPath, NoJob
<1>8. \A m \in ingested' : m \in ingested \/ (parent'[m] = Preceding(m) /\ root'[m] = First(m))
  BY <1>2, <1>3, <1>4
<1> QED
  BY <1>2, <1>5, <1>6, <1>7, <1>8, PathStep DEF TreeOnPath

LEMMA CrashOnPath ==
  ASSUME AllOK, FullReferences, TreeOnPath, JobsOnPath, NEW i \in Ingesters, Crash(i)
  PROVE  TreeOnPath' /\ JobsOnPath'
<1>1. job' = [job EXCEPT ![i] = NoJob] /\ UNCHANGED <<parent, root, norm, thread, ingested, box>>
  BY DEF Crash, tree
<1>2. JobOnPath(NoJob, parent, root)
  BY DEF JobOnPath, NoJob
<1> QED
  BY <1>1, <1>2, JobAloneOnPath

\* Messages come and go.
LEMMA RowsOnPath ==
  ASSUME AllOK, FullReferences, TreeOnPath, JobsOnPath,
         UNCHANGED <<parent, root, norm, job, ingested, box>>,
         \A m \in Ids : thread'[m] \in Ids => thread'[m] = thread[m]
  PROVE  TreeOnPath' /\ JobsOnPath'
<1>1. \A c : Preceding(c)' = Preceding(c) /\ First(c)' = First(c) /\ Mentioned(c)' = Mentioned(c)
  BY SamePaths
<1>2. TreeOnPath'
  BY <1>1 DEF TreeOnPath, Containers
<1>3. JobsOnPath'
  BY SamePaths DEF JobsOnPath
<1> QED
  BY <1>2, <1>3

LEMMA PathKept == AllOK /\ AllOK' /\ PathInv /\ [ThreadNext]_threadVars => PathInv'
<1> SUFFICES ASSUME AllOK, AllOK', PathInv, [ThreadNext]_threadVars, FullReferences'
             PROVE  TreeOnPath' /\ JobsOnPath'
  <2>1. PathInv' <=> (FullReferences' => TreeOnPath' /\ JobsOnPath')
    BY PathForms, PTL
  <2> QED
    BY <2>1
<1>1. box' = box
  BY DEF ThreadNext, Step, threadVars, Arrive, Expunge, Begin, UpsertContainer, AddPlaceholders, LinkRead,
     LinkCheck, LinkWrite, GroupRead, GroupFind, FindRoot, ReadOldRoot, RewriteSubtree,
     RewriteOldTree, ThreadMessages, Persist, Crash
<1>2. FullReferences /\ TreeOnPath /\ JobsOnPath
  BY <1>1, SamePaths, PathForms
<1>3. ASSUME NEW i \in Ingesters, Step(i) PROVE TreeOnPath' /\ JobsOnPath'
  BY <1>2, <1>3, BeginOnPath, UpsertOnPath, PlaceholdersOnPath, LinkReadOnPath, LinkCheckOnPath,
     LinkWriteOnPath, GroupReadOnPath, GroupFindOnPath, FindRootOnPath, ReadOldRootOnPath,
     RewriteSubtreeOnPath, RewriteOldTreeOnPath, ThreadMessagesOnPath, PersistOnPath, CrashOnPath
     DEF Step
<1>4. ASSUME NEW m \in Ids, Arrive(m) \/ Expunge(m) PROVE TreeOnPath' /\ JobsOnPath'
  <2>1. thread' = [thread EXCEPT ![m] = None] \/ thread' = [thread EXCEPT ![m] = Absent]
    BY <1>4 DEF Arrive, Expunge
  <2>2. UNCHANGED <<parent, root, norm, job, ingested, box>>
    BY <1>4 DEF Arrive, Expunge, tree
  <2>3. \A n \in Ids : thread'[n] \in Ids => thread'[n] = thread[n]
    BY <2>1, NullsAssumption DEF AllOK, RestOK
  <2> QED
    BY <1>2, <2>2, <2>3, RowsOnPath
<1>5. CASE UNCHANGED threadVars
  <2>1. UNCHANGED <<parent, root, norm, thread, job, ingested, box>>
    BY <1>5 DEF threadVars, tree
  <2> QED
    BY <1>2, <2>1, RowsOnPath
<1> QED
  BY <1>3, <1>4, <1>5 DEF ThreadNext

\* The inductive invariant for full References.
LEMMA Paths == ThreadSpec => [](AllOK /\ PathInv)
<1>1. ThreadInit => PathInv
  <2> SUFFICES ASSUME ThreadInit PROVE PathInv
    OBVIOUS
  <2>1. Containers = {} /\ ingested = {} /\ \A m \in Ids : thread[m] \notin Ids
    BY NullsAssumption DEF ThreadInit, Containers
  <2>2. \A i \in Ingesters : job[i].at \in {"away", "idle"}
    BY DEF ThreadInit, NoJob, Away
  <2>3. \A c \in Ids : parent[c] = Absent /\ norm[c] = None
    BY DEF ThreadInit
  <2>4. TreeOnPath
    BY <2>1, <2>3 DEF TreeOnPath
  <2>5. JobsOnPath
    BY <2>2 DEF JobsOnPath, JobOnPath
  <2> QED
    BY <2>4, <2>5, PathForms
<1> QED
  BY <1>1, InitiallyAll, KeepsAll, PathKept, PTL DEF ThreadSpec

\* Between ingests the cached thread and the cached root of every message whose row is
\* found by its id agree when one process ingests, and with full References every
\* ingested message, found or not, ends up where they say, however many processes ingest
\* and wherever some of them die (Threader::ingest, set_threading).
THEOREM ThreadsSettle ==
  ThreadSpec => [](Cardinality(Present) <= 1 \/ FullReferences => SettledThreads)
<1>1. ASSUME AllOK, CachesInv, PathInv, Cardinality(Present) <= 1 \/ FullReferences PROVE SettledThreads
  <2>1. ASSUME FullReferences, NEW m \in ingested
        PROVE  LET path == Append(box.refs[m], m) IN
               /\ root[m] = Head(path)
               /\ parent[m] = IF Len(path) = 1 THEN None ELSE path[Len(path) - 1]
               /\ thread[m] \in {Absent, None, Head(path)}
    <3> DEFINE s == box.refs[m]
    <3>1. TreeOnPath /\ box \in Mailboxes /\ m \in Ids /\ thread[m] \in Ids \cup {None, Absent}
      BY <1>1, <2>1, PathForms DEF AllOK, RestOK
    <3>2. /\ parent[m] = Preceding(m) /\ root[m] = First(m)
          /\ thread[m] \in {Absent, None, First(m)}
      BY <3>1 DEF TreeOnPath
    <3>3. s \in Seq(Ids)
      BY <2>1, <3>1, FullChain
    <3>4. /\ First(m) = Head(Append(s, m))
          /\ Preceding(m) = IF Len(Append(s, m)) = 1 THEN None ELSE Append(s, m)[Len(Append(s, m)) - 1]
      BY <3>1, <3>3, PathEnds DEF First, Preceding
    <3> QED
      BY <3>2, <3>4
  <2>2. ASSUME Quiet, crashes = 0, NEW m \in box.byId, thread[m] \in Ids PROVE thread[m] = root[m]
    <3>1. CASE FullReferences
      BY <1>1, <2>2, <3>1, PathForms, RowsById DEF TreeOnPath
    <3>2. CASE Cardinality(Present) <= 1
      <4>1. Alone
        <5>1. IsFiniteSet(Present)
          BY FiniteAssumption, FS_Subset DEF Present
        <5> SUFFICES ASSUME NEW i \in Present, NEW k \in Present, i # k PROVE FALSE
          BY DEF Alone
        <5>2. Cardinality({i, k}) = 2
          <6>1. IsFiniteSet({i}) /\ Cardinality({i}) = 1
            BY FS_Singleton
          <6>2. Cardinality({i} \cup {k}) = Cardinality({i}) + 1
            BY <6>1, FS_AddElement
          <6>3. {i} \cup {k} = {i, k}
            OBVIOUS
          <6> QED
            BY <6>1, <6>2, <6>3
        <5>3. {i, k} \subseteq Present
          OBVIOUS
        <5>4. Cardinality({i, k}) <= Cardinality(Present) /\ Cardinality(Present) \in Nat
          BY <5>1, <5>3, FS_Subset, FS_CardinalityType
        <5> QED
          BY <3>2, <5>2, <5>4
      <4>2. \A i \in Present : job[i].at \notin {"oldtree", "threads"}
        BY <2>2 DEF Quiet
      <4> QED
        BY <1>1, <2>2, <4>1, <4>2 DEF CachesInv
    <3> QED
      BY <1>1, <3>1, <3>2
  <2> QED
    BY <2>1, <2>2 DEF SettledThreads
<1> QED
  BY <1>1, Caches, Paths, PTL

-----------------------------------------------------------------------------
(* Submission: from a draft to its readers *)

\* An answer to message a of m, as GoesOnFrom says.
Onward(m, a, refs, shown, all, rebuilt) ==
    ~m[a].pgp =>
        /\ rebuilt \/ refs = m[a].refs \o (IF m[a].id THEN <<a>> ELSE <<>>)
        /\ all => {m[a].from} \cup m[a].to \cup m[a].cc \subseteq shown

\* A draft d on the desk, where m are the messages.
DeskOK(d, m) ==
    /\ d \in Drafts \cup {NoDraft}
    /\ d.bcc \cap (d.to \cup d.cc) = {}
    /\ d.answers \in 0..Len(m)
    /\ IF d.answers = 0 THEN d.refs = <<>>
       ELSE Onward(m, d.answers, d.refs, {d.by} \cup d.to \cup d.cc, d.all, FALSE)

\* Message x, the i-th of m.
MessageOK(m, x, i) ==
    /\ x.answers \in 0..(i - 1)
    /\ IF x.answers = 0 THEN x.refs = <<>>
       ELSE Onward(m, x.answers, x.refs, {x.from} \cup x.to \cup x.cc, x.all, x.rebuilt)
    /\ IF x.pgp THEN x.bcc = {} /\ x.to \cup x.cc = x.addressed \ x.hidden
       ELSE x.to \cup x.cc \cup x.bcc = x.addressed

\* Message x, and who has got it.
Reached(x, g) ==
    IF x.pgp THEN g \subseteq x.addressed \ x.hidden ELSE g \in {{}, x.addressed}

LettersOK ==
    /\ DeskOK(desk, mail)
    /\ mail \in Seq(Messages) /\ DOMAIN got = DOMAIN mail
    /\ \A i \in DOMAIN mail : MessageOK(mail, mail[i], i) /\ Reached(mail[i], got[i])

LEMMA LetterForms == SubmissionTypes /\ SubmissionInv <=> LettersOK
BY DEF LettersOK, DeskOK, MessageOK, Reached, Onward, SubmissionTypes, SubmissionInv,
       GoesOnFrom, Visible, References, AddressedAreReached

\* A step that leaves the messages alone, but for who has got one of them.
LEMMA DeskStep ==
  ASSUME LettersOK, mail' = mail, got' = got, DeskOK(desk', mail) PROVE LettersOK'
BY DEF LettersOK

LEMMA GotStep ==
  ASSUME LettersOK, mail' = mail, desk' = desk, NEW i \in DOMAIN mail, NEW g,
         got' = [got EXCEPT ![i] = g], Reached(mail[i], g)
  PROVE  LettersOK'
<1>1. DOMAIN got' = DOMAIN mail' /\ \A k \in DOMAIN mail : got'[k] = IF k = i THEN g ELSE got[k]
  BY DEF LettersOK
<1> QED
  BY <1>1 DEF LettersOK

LEMMA NobodyWrites == \A m \in Seq(Messages) : DeskOK(NoDraft, m)
<1> SUFFICES ASSUME NEW m \in Seq(Messages) PROVE DeskOK(NoDraft, m)
  OBVIOUS
<1> DEFINE d == NoDraft
<1>1. d = NoDraft /\ d.to = {} /\ d.cc = {} /\ d.bcc = {} /\ d.answers = 0 /\ d.refs = <<>>
  BY DEF NoDraft, Draft
<1>2. 0 \in 0..Len(m)
  OBVIOUS
<1> HIDE DEF d
<1>3. DeskOK(d, m)
  BY <1>1, <1>2 DEF DeskOK
<1> QED
  BY <1>3 DEF d

\* A message that is handed over.
LEMMA SubmitStep ==
  ASSUME LettersOK, NEW x \in Messages, NEW place, HandOver(x, place),
         MessageOK(mail, x, Len(mail) + 1)
  PROVE  LettersOK'
<1> DEFINE n == Len(mail)
<1>1. mail \in Seq(Messages) /\ DOMAIN got = DOMAIN mail /\ DOMAIN mail = 1..n /\ n \in Nat
  BY DEF LettersOK
<1>2. mail' = Append(mail, x) /\ got' = Append(got, {}) /\ desk' = NoDraft
  BY DEF HandOver
<1>3. /\ mail' \in Seq(Messages) /\ DOMAIN mail' = 1..(n + 1)
      /\ mail'[n + 1] = x /\ \A i \in 1..n : mail'[i] = mail[i]
  BY <1>1, <1>2
<1>4. DOMAIN got' = 1..(n + 1) /\ got'[n + 1] = {} /\ \A i \in 1..n : got'[i] = got[i]
  <2>1. Len(got) = n
    BY <1>1 
  <2> QED
    BY <1>1, <1>2, <2>1
<1> HIDE DEF n
<1>5. \A i \in 1..(n + 1) : i = n + 1 \/ i \in 1..n
  BY <1>1
\* What a message answers is still there.
<1>6. ASSUME NEW y, NEW i \in 1..(n + 1), MessageOK(mail, y, i)
      PROVE  MessageOK(mail', y, i)
  <2>1. y.answers = 0 \/ y.answers \in 1..n
    BY <1>1, <1>6 DEF MessageOK
  <2>2. y.answers # 0 => mail'[y.answers] = mail[y.answers]
    BY <1>3, <2>1
  <2> QED
    BY <1>6, <2>2 DEF MessageOK, Onward
<1>7. ASSUME NEW i \in 1..n
      PROVE  MessageOK(mail', mail'[i], i) /\ Reached(mail'[i], got'[i])
  <2>1. MessageOK(mail, mail[i], i) /\ Reached(mail[i], got[i]) /\ i \in 1..(n + 1)
    BY <1>1 DEF LettersOK
  <2> QED
    BY <1>3, <1>4, <1>6, <2>1
<1>8. MessageOK(mail', mail'[n + 1], n + 1) /\ Reached(mail'[n + 1], got'[n + 1])
  <2>1. n + 1 \in 1..(n + 1) /\ MessageOK(mail, x, n + 1)
    BY <1>1 DEF n
  <2>2. MessageOK(mail', x, n + 1)
    BY <1>6, <2>1
  <2> QED
    BY <1>3, <1>4, <2>2 DEF Reached
<1>9. DeskOK(desk', mail')
  BY <1>2, <1>3, NobodyWrites
<1> QED
  BY <1>3, <1>4, <1>5, <1>7, <1>8, <1>9 DEF LettersOK

LEMMA OpenStep ==
  ASSUME LettersOK, NEW d, Open(d), DeskOK(d, mail) PROVE LettersOK'
BY DeskStep DEF Open, sending

LEMMA BlankStep ==
  ASSUME LettersOK, NEW p \in People, NEW place \in Places, Open(Draft(p, place))
  PROVE  LettersOK'
<1> DEFINE d == Draft(p, place)
<1>1. d \in Drafts /\ d.bcc = {} /\ d.answers = 0 /\ d.refs = <<>>
  BY EmptySeq DEF Draft, Drafts
<1>2. Open(d) /\ 0 \in 0..Len(mail)
  BY DEF LettersOK
<1> HIDE DEF d
<1>3. DeskOK(d, mail)
  BY <1>1, <1>2 DEF DeskOK
<1> QED
  BY <1>2, <1>3, OpenStep

LEMMA ReplyStep ==
  ASSUME LettersOK, NEW p \in People, NEW i \in DOMAIN mail, NEW all \in BOOLEAN, NewReply(p, i, all)
  PROVE  LettersOK'
<1> DEFINE x == mail[i]
<1>1. PICK place \in Places, pgp \in BOOLEAN, refs \in ParsedReferences(i),
           to \in Parsed(i, x.to), cc \in Parsed(i, x.cc) :
           Open([Draft(p, place) EXCEPT
                !.to = {x.from},
                !.cc = IF all THEN Others(p, x.from, to, cc) ELSE {},
                !.refs = References(i, refs), !.pgp = pgp, !.answers = i, !.all = all])
  BY DEF NewReply
<1> DEFINE ccs == IF all THEN Others(p, x.from, to, cc) ELSE {}
           links == References(i, refs)
           d == [Draft(p, place) EXCEPT
                   !.to = {x.from}, !.cc = ccs, !.refs = links, !.pgp = pgp, !.answers = i, !.all = all]
<1>2. x \in Messages /\ i \in Nat /\ i \in 0..Len(mail) /\ i # 0
  BY DEF LettersOK
<1>3. to \in SUBSET x.to /\ cc \in SUBSET x.cc /\ (~x.pgp => to = x.to /\ cc = x.cc)
  BY DEF Parsed
<1>4. refs \in Seq(Nat) /\ (~x.pgp => refs = x.refs)
  BY <1>2, EmptySeq DEF ParsedReferences, Messages
<1>5. links \in Seq(Nat) /\ (~x.pgp => links = x.refs \o (IF x.id THEN <<i>> ELSE <<>>))
  <2>1. <<i>> \in Seq(Nat) /\ <<>> \in Seq(Nat)
    BY <1>2
  <2>2. (IF x.id THEN <<i>> ELSE <<>>) \in Seq(Nat)
    BY <2>1
  <2>3. links = refs \o (IF x.id THEN <<i>> ELSE <<>>)
    BY DEF References
  <2> QED
    BY <1>4, <2>2, <2>3, ConcatProperties
<1>6. /\ ccs \in SUBSET People
      /\ ~x.pgp /\ all => {x.from} \cup x.to \cup x.cc \subseteq {p} \cup {x.from} \cup ccs
  BY <1>2, <1>3 DEF Others, Messages
<1> HIDE DEF ccs, links
<1>7. /\ d.by = p /\ d.to = {x.from} /\ d.cc = ccs /\ d.bcc = {} /\ d.refs = links /\ d.answers = i
      /\ d.all = all
  BY DEF Draft
<1>8. d \in Drafts
  BY <1>2, <1>5, <1>6 DEF Draft, Drafts, Messages
<1>9. Open(d)
  BY <1>1 DEF ccs, links
<1> HIDE DEF d, x
<1>10. Onward(mail, i, links, {p} \cup {x.from} \cup ccs, all, FALSE)
  BY <1>5, <1>6 DEF Onward, x
<1>11. DeskOK(d, mail)
  BY <1>2, <1>7, <1>8, <1>10 DEF DeskOK
<1> QED
  BY <1>9, <1>11, OpenStep

LEMMA AddressStep ==
  ASSUME LettersOK, NEW q \in People, NEW field \in {"to", "cc", "bcc"}, Address(q, field)
  PROVE  LettersOK'
<1>1. /\ desk \in Drafts /\ q \notin desk.to \cup desk.cc \cup desk.bcc
      /\ desk' = [desk EXCEPT ![field] = @ \cup {q}] /\ mail' = mail /\ got' = got
      /\ DeskOK(desk, mail)
  BY DEF LettersOK, DeskOK, Address, sending
<1>2. /\ desk' \in Drafts /\ desk'.by = desk.by /\ desk'.refs = desk.refs
      /\ desk'.answers = desk.answers /\ desk'.all = desk.all
      /\ desk'.to = IF field = "to" THEN desk.to \cup {q} ELSE desk.to
      /\ desk'.cc = IF field = "cc" THEN desk.cc \cup {q} ELSE desk.cc
      /\ desk'.bcc = IF field = "bcc" THEN desk.bcc \cup {q} ELSE desk.bcc
  <2>1. CASE field = "to"
    BY <1>1, <2>1 DEF Drafts
  <2>2. CASE field = "cc"
    BY <1>1, <2>2 DEF Drafts
  <2>3. CASE field = "bcc"
    BY <1>1, <2>3 DEF Drafts
  <2> QED
    BY <2>1, <2>2, <2>3
<1>3. /\ {desk.by} \cup desk.to \cup desk.cc \subseteq {desk'.by} \cup desk'.to \cup desk'.cc
      /\ desk'.bcc \cap (desk'.to \cup desk'.cc) = {}
  <2>1. desk.bcc \cap (desk.to \cup desk.cc) = {}
    BY <1>1 DEF DeskOK
  <2> QED
    BY <1>1, <1>2, <2>1
<1>4. DeskOK(desk', mail)
  BY <1>1, <1>2, <1>3 DEF DeskOK, Onward
<1> QED
  BY <1>1, <1>4, DeskStep

LEMMA TogglePgpStep == ASSUME LettersOK, TogglePgp PROVE LettersOK'
<1>1. /\ desk.place = "composer" /\ desk' = [desk EXCEPT !.pgp = ~@] /\ mail' = mail /\ got' = got
      /\ DeskOK(desk, mail)
  BY DEF LettersOK, TogglePgp, sending
<1>2. NoDraft.place = "nowhere"
  BY DEF NoDraft, Draft
<1>3. desk \in Drafts
  BY <1>1, <1>2 DEF DeskOK
<1>4. /\ desk' \in Drafts /\ desk'.by = desk.by /\ desk'.refs = desk.refs
      /\ desk'.answers = desk.answers /\ desk'.all = desk.all
      /\ desk'.to = desk.to /\ desk'.cc = desk.cc /\ desk'.bcc = desk.bcc
  BY <1>1, <1>3 DEF Drafts
<1>5. DeskOK(desk', mail)
  BY <1>1, <1>4 DEF DeskOK
<1> QED
  BY <1>1, <1>5, DeskStep

LEMMA CloseStep == ASSUME LettersOK, Close PROVE LettersOK'
BY DeskStep, NobodyWrites DEF LettersOK, Close, sending

\* The bytes that a draft becomes, whichever way it is sent.
IsComposed(x) ==
    /\ x \in Messages
    /\ x.from = desk.by /\ x.to = desk.to /\ x.cc = desk.cc /\ x.answers = desk.answers /\ x.all = desk.all
    /\ x.refs = desk.refs \/ (x.rebuilt /\ x.refs = <<>>)
    /\ x.addressed = desk.to \cup desk.cc \cup desk.bcc /\ x.hidden = desk.bcc
    /\ x.bcc = IF x.pgp THEN {} ELSE desk.bcc

LEMMA ComposedStep ==
  ASSUME LettersOK, NEW x, IsComposed(x), NEW place, HandOver(x, place)
  PROVE  LettersOK'
<1>1. DeskOK(desk, mail) /\ Len(mail) \in Nat
  BY DEF LettersOK
<1>2. x.answers \in 0..((Len(mail) + 1) - 1)
  BY <1>1 DEF DeskOK, IsComposed
<1>3. IF x.answers = 0 THEN x.refs = <<>>
      ELSE Onward(mail, x.answers, x.refs, {x.from} \cup x.to \cup x.cc, x.all, x.rebuilt)
  BY <1>1 DEF DeskOK, IsComposed, Onward
<1>4. IF x.pgp THEN x.bcc = {} /\ x.to \cup x.cc = x.addressed \ x.hidden
      ELSE x.to \cup x.cc \cup x.bcc = x.addressed
  <2>1. desk.bcc \cap (desk.to \cup desk.cc) = {}
    BY <1>1 DEF DeskOK
  <2> QED
    BY <2>1 DEF IsComposed
<1>5. MessageOK(mail, x, Len(mail) + 1)
  BY <1>2, <1>3, <1>4 DEF MessageOK
<1> QED
  BY <1>5, SubmitStep DEF IsComposed

LEMMA MimeOfDraft ==
  ASSUME desk \in Drafts
  PROVE  IsComposed(ToMime(desk)) /\ IsComposed(OuterHeaders(ToMime(desk)))
<1> DEFINE x == ToMime(desk)
           y == OuterHeaders(x)
<1>1. /\ desk.by \in People /\ desk.to \in SUBSET People /\ desk.cc \in SUBSET People
      /\ desk.bcc \in SUBSET People /\ desk.refs \in Seq(Nat) /\ desk.answers \in Nat /\ desk.all \in BOOLEAN
  BY DEF Drafts
<1>2. /\ x.from = desk.by /\ x.to = desk.to /\ x.cc = desk.cc /\ x.bcc = desk.bcc /\ x.refs = desk.refs
      /\ x.answers = desk.answers /\ x.all = desk.all /\ x.hidden = desk.bcc /\ ~x.pgp
      /\ x.addressed = desk.to \cup desk.cc \cup desk.bcc
  BY DEF ToMime
<1>3. x \in Messages
  BY <1>1 DEF ToMime, Messages
<1> HIDE DEF x
<1>4. /\ y.from = desk.by /\ y.to = desk.to /\ y.cc = desk.cc /\ y.bcc = {} /\ y.refs = desk.refs
      /\ y.answers = desk.answers /\ y.all = desk.all /\ y.hidden = desk.bcc /\ y.pgp
      /\ y.addressed = desk.to \cup desk.cc \cup desk.bcc /\ y \in Messages
  BY <1>2, <1>3 DEF OuterHeaders, Messages
<1> HIDE DEF y
<1> QED
  BY <1>2, <1>3, <1>4 DEF IsComposed, x, y

LEMMA TextOfDraft ==
  ASSUME desk \in Drafts, NEW attach \in BOOLEAN, NEW save \in BOOLEAN, NEW x,
         LET raw == ToDraft(ToMime(desk)) IN
         x = [(IF attach THEN RebuildWithAttachments(raw) ELSE raw) EXCEPT !.save = save]
  PROVE  IsComposed(x)
<1> DEFINE mime == ToMime(desk)
           raw == ToDraft(mime)
           anew == RebuildWithAttachments(raw)
<1>1. IsComposed(mime) /\ ~mime.pgp
  BY MimeOfDraft DEF ToMime
<1> HIDE DEF mime
<1>2. IsComposed(raw) /\ ~raw.pgp
  BY <1>1 DEF IsComposed, ToDraft, Messages
<1> HIDE DEF raw
<1>3. IsComposed(anew) /\ ~anew.pgp
  BY <1>2, EmptySeq DEF IsComposed, RebuildWithAttachments, Messages
<1> HIDE DEF anew
<1>4. x = [(IF attach THEN anew ELSE raw) EXCEPT !.save = save]
  BY DEF anew, raw, mime
<1> DEFINE y == IF attach THEN anew ELSE raw
<1>5. IsComposed(y) /\ x = [y EXCEPT !.save = save]
  BY <1>2, <1>3, <1>4
<1> HIDE DEF y
<1> QED
  BY <1>5 DEF IsComposed, Messages

\* Only a draft is sent.
LEMMA PlacedDraft == LettersOK /\ desk.place \in Places => desk \in Drafts
BY DEF LettersOK, DeskOK, NoDraft, Draft, Places

LEMMA SendComposerStep == ASSUME LettersOK, SendComposer PROVE LettersOK'
<1> DEFINE mime == ToMime(desk)
           x == IF desk.pgp THEN OuterHeaders(mime) ELSE mime
<1>1. desk \in Drafts
  BY PlacedDraft DEF SendComposer, Places
<1>2. \E place : HandOver(x, place)
  BY DEF SendComposer
<1>3. IsComposed(x)
  BY <1>1, MimeOfDraft
<1> QED
  BY <1>2, <1>3, ComposedStep

LEMMA SendTextStep ==
  ASSUME LettersOK, NEW attach \in BOOLEAN, NEW save \in BOOLEAN, SendText(attach, save)
  PROVE  LettersOK'
<1> DEFINE raw == ToDraft(ToMime(desk))
           x == [(IF attach THEN RebuildWithAttachments(raw) ELSE raw) EXCEPT !.save = save]
<1>1. desk \in Drafts
  BY PlacedDraft DEF SendText, Places
<1>2. HandOver(x, IF transport = "imap" THEN "smtp" ELSE transport)
  BY DEF SendText
<1>3. IsComposed(x)
  BY <1>1, TextOfDraft
<1> HIDE DEF x
<1> QED
  BY <1>2, <1>3, ComposedStep

\* Whatever envelope is read from a message, it names no one else.
LEMMA EnvelopeStep ==
  ASSUME LettersOK, NEW i \in DOMAIN mail, NEW envelope \in Envelopes(i),
         got' = [got EXCEPT ![i] = envelope], mail' = mail, desk' = desk
  PROVE  LettersOK'
<1> DEFINE x == mail[i]
<1>1. MessageOK(mail, x, i)
  BY DEF LettersOK
<1>2. PICK to \in Parsed(i, x.to), cc \in Parsed(i, x.cc) : envelope = to \cup cc \cup x.bcc
  BY DEF Envelopes
<1>3. IF x.pgp THEN to \subseteq x.to /\ cc \subseteq x.cc ELSE to = x.to /\ cc = x.cc
  BY DEF Parsed
<1>4. Reached(x, envelope)
  <2>1. CASE x.pgp
    BY <1>1, <1>2, <1>3, <2>1 DEF MessageOK, Reached
  <2>2. CASE ~x.pgp
    BY <1>1, <1>2, <1>3, <2>2 DEF MessageOK, Reached
  <2> QED
    BY <2>1, <2>2
<1> QED
  BY <1>4, GotStep

LEMMA LettersStay == ASSUME LettersOK, SubmissionNext PROVE LettersOK'
<1>1. ASSUME NEW p \in People, NewBlank(p) PROVE LettersOK'
  BY <1>1, BlankStep DEF NewBlank
<1>2. ASSUME NEW p \in People, NEW i \in DOMAIN mail, NewForward(p, i) PROVE LettersOK'
  BY <1>2, BlankStep DEF NewForward
<1>3. ASSUME NEW p \in People, NEW i \in DOMAIN mail, NEW all \in BOOLEAN, NewReply(p, i, all)
      PROVE  LettersOK'
  BY <1>3, ReplyStep
<1>4. ASSUME NEW q \in People, NEW field \in Fields \cap {"to", "cc", "bcc"}, Address(q, field)
      PROVE  LettersOK'
  BY <1>4, AddressStep
<1>5. ASSUME NEW attach \in BOOLEAN, NEW save \in BOOLEAN, SendText(attach, save) PROVE LettersOK'
  BY <1>5, SendTextStep
<1>6. ASSUME NEW i \in DOMAIN mail, Accept(i) \/ Drain(i) PROVE LettersOK'
  <2>1. mail' = mail /\ desk' = desk /\ \E envelope \in Envelopes(i) : got' = [got EXCEPT ![i] = envelope]
    BY <1>6 DEF Accept, Drain
  <2> QED
    BY <2>1, EnvelopeStep
<1>7. ASSUME NEW i \in DOMAIN mail, Queue(i) \/ AppendToSent(i) PROVE LettersOK'
  <2>1. mail' = mail /\ desk' = desk /\ got' = got
    BY <1>7 DEF Queue, AppendToSent
  <2>2. DeskOK(desk', mail)
    BY <2>1 DEF LettersOK
  <2> QED
    BY <2>1, <2>2, DeskStep
<1> QED
  BY <1>1, <1>2, <1>3, <1>4, <1>5, <1>6, <1>7, TogglePgpStep, CloseStep, SendComposerStep DEF SubmissionNext, Correspondence

LEMMA LettersAlways == SubmissionSpec => []LettersOK
<1>1. SubmissionInit => LettersOK
  <2> SUFFICES ASSUME SubmissionInit PROVE LettersOK
    OBVIOUS
  <2>1. mail = <<>> /\ got = <<>> /\ desk = NoDraft
    BY DEF SubmissionInit
  <2>2. mail \in Seq(Messages) /\ DOMAIN mail = {} /\ DOMAIN got = DOMAIN mail
    BY <2>1
  <2>3. DeskOK(desk, mail)
    BY <2>1, <2>2, NobodyWrites
  <2> QED
    BY <2>2, <2>3 DEF LettersOK
<1>2. LettersOK /\ [SubmissionNext]_(submissionVars) => LettersOK'
  <2>1. LettersOK /\ UNCHANGED submissionVars => LettersOK'
    BY DEF LettersOK, submissionVars
  <2> QED
    BY <2>1, LettersStay
<1> QED
  BY <1>1, <1>2, PTL DEF SubmissionSpec

\* Whichever way a message takes, it reaches everyone its draft addressed and nobody
\* else; in a PGP envelope, none of its blind copies (to_mime, to_draft,
\* envelope_from_raw, drain_outbox_silent).
THEOREM AddressedAlwaysReached == SubmissionSpec => []AddressedAreReached
<1>1. LettersOK => AddressedAreReached
  BY DEF LettersOK, Reached, AddressedAreReached
<1> QED
  BY <1>1, LettersAlways, PTL

-----------------------------------------------------------------------------
(* What the messages of a conversation have in common: from a message to the one *)
(* it answers, which was there before                                            *)

\* The messages that those of 1..n answer, or 0.
GoesBack(n, back) == \A i \in 1..n : back[i] \in 0..(i - 1)

LEMMA ByAnswers ==
  ASSUME NEW n \in Nat, NEW back, GoesBack(n, back),
         NEW Good, \A i \in 1..n : back[i] = 0 \/ back[i] \in Good => i \in Good
  PROVE  \A i \in 1..n : i \in Good
<1> DEFINE S == {k \in 0..n : \A i \in 1..k : i \in Good}
<1>1. 0 \in S
  OBVIOUS
<1>2. ASSUME NEW k \in 1..n, k - 1 \in S PROVE k \in S
  <2>1. back[k] \in 0..(k - 1)
    BY DEF GoesBack
  <2>2. back[k] = 0 \/ back[k] \in 1..(k - 1)
    BY <2>1
  <2>3. \A i \in 1..(k - 1) : i \in Good
    BY <1>2
  <2>4. k \in Good
    BY <2>2, <2>3
  <2>5. \A i \in 1..k : i = k \/ i \in 1..(k - 1)
    OBVIOUS
  <2> QED
    BY <2>3, <2>4, <2>5
<1> HIDE DEF S
<1>3. \A k \in 0..n : k \in S
  BY <1>1, <1>2, UpTo
<1>4. n \in S
  BY <1>3
<1> QED
  BY <1>4 DEF S

\* A recursion along the answers, within a set of values, has a solution.
SolvableBack(n, back, S, base, step) ==
    (\A i \in 1..n : base[i] \in S) /\ (\A i \in 1..n, s \in S : step[i][s] \in S) =>
        \E f \in [1..n -> S] :
            \A i \in 1..n : f[i] = IF back[i] = 0 THEN base[i] ELSE step[i][f[back[i]]]

LEMMA AlongAnswers ==
  ASSUME NEW n \in Nat, NEW back, GoesBack(n, back), NEW S, NEW base, NEW step
  PROVE  SolvableBack(n, back, S, base, step)
<1> SUFFICES ASSUME \A i \in 1..n : base[i] \in S, \A i \in 1..n, s \in S : step[i][s] \in S
             PROVE  \E f \in [1..n -> S] :
                       \A i \in 1..n : f[i] = IF back[i] = 0 THEN base[i] ELSE step[i][f[back[i]]]
  BY DEF SolvableBack
<1> DEFINE Value(f, i) == IF back[i] = 0 THEN base[i] ELSE step[i][f[back[i]]]
           Solved == {k \in 0..n : \E f \in [1..k -> S] : \A i \in 1..k : f[i] = Value(f, i)}
<1>1. 0 \in Solved
  <2>1. 0 \in 0..n /\ 1..0 = {}
    OBVIOUS
  <2>2. [i \in 1..0 |-> 0] \in [1..0 -> S]
    BY <2>1
  <2> QED
    BY <2>1, <2>2
<1>2. ASSUME NEW k \in 1..n, k - 1 \in Solved PROVE k \in Solved
  <2>1. PICK f \in [1..(k - 1) -> S] : \A i \in 1..(k - 1) : f[i] = Value(f, i)
    BY <1>2
  <2> DEFINE g == [i \in 1..k |-> IF i = k THEN Value(f, k) ELSE f[i]]
  <2>2. \A i \in 1..k : i = k \/ i \in 1..(k - 1)
    OBVIOUS
  <2>3. \A i \in 1..k : i \in 1..n /\ (back[i] = 0 \/ back[i] \in 1..(i - 1))
    BY DEF GoesBack
  <2>4. \A i \in 1..k : back[i] # 0 => back[i] \in 1..(k - 1) /\ back[i] # k /\ back[i] \in 1..k
    BY <2>3
  <2>5. Value(f, k) \in S
    <3>1. k \in 1..k
      OBVIOUS
    <3>2. back[k] # 0 => f[back[k]] \in S
      BY <2>4, <3>1
    <3> QED
      BY <3>2
  <2>6. g \in [1..k -> S]
    BY <2>2, <2>5
  <2>7. \A i \in 1..k : back[i] # 0 => g[back[i]] = f[back[i]]
    BY <2>4
  <2>8. \A i \in 1..k : Value(g, i) = Value(f, i)
    BY <2>7
  <2>9. \A i \in 1..k : g[i] = Value(f, i)
    BY <2>1, <2>2
  <2>10. k \in 0..n
    OBVIOUS
  <2> HIDE DEF g, Value
  <2> QED
    BY <2>6, <2>8, <2>9, <2>10
<1> HIDE DEF Solved
<1>3. \A k \in 0..n : k \in Solved
  BY <1>1, <1>2, UpTo
<1>4. n \in Solved
  BY <1>3
<1> QED
  BY <1>4 DEF Solved

\* The messages, by what they answer.
LEMMA AnswersGoBack ==
  ASSUME LettersOK
  PROVE  /\ Len(mail) \in Nat /\ DOMAIN mail = 1..Len(mail)
         /\ GoesBack(Len(mail), [i \in DOMAIN mail |-> mail[i].answers])
         /\ \A i \in DOMAIN mail : mail[i].answers = 0 \/ mail[i].answers \in DOMAIN mail
<1>1. Len(mail) \in Nat /\ DOMAIN mail = 1..Len(mail)
  BY DEF LettersOK
<1>2. \A i \in DOMAIN mail : mail[i].answers \in 0..(i - 1)
  BY DEF LettersOK, MessageOK
<1>3. \A i \in DOMAIN mail : mail[i].answers = 0 \/ mail[i].answers \in 1..Len(mail)
  <2> SUFFICES ASSUME NEW i \in DOMAIN mail, mail[i].answers # 0 PROVE mail[i].answers \in 1..Len(mail)
    OBVIOUS
  <2>1. mail[i].answers \in 0..(i - 1) /\ i \in 1..Len(mail)
    BY <1>1, <1>2
  <2> HIDE <1>2
  <2> QED
    BY <1>1, <2>1
<1> QED
  BY <1>1, <1>2, <1>3 DEF GoesBack

LEMMA PathIs ==
  ASSUME LettersOK, NEW i \in DOMAIN mail
  PROVE  Path[i] = {i} \cup IF mail[i].answers = 0 THEN {} ELSE Path[mail[i].answers]
<1> DEFINE n == Len(mail)
           back == [k \in DOMAIN mail |-> mail[k].answers]
           base == [k \in 1..n |-> {k}]
           step == [k \in 1..n |-> [s \in SUBSET Nat |-> {k} \cup s]]
           rec(g) == [k \in DOMAIN mail |-> {k} \cup IF mail[k].answers = 0 THEN {} ELSE g[mail[k].answers]]
           path == CHOOSE g : g = rec(g)
<1>1. n \in Nat /\ DOMAIN mail = 1..n /\ GoesBack(n, back)
  BY AnswersGoBack
<1>2. (\A k \in 1..n : base[k] \in SUBSET Nat) /\ (\A k \in 1..n, s \in SUBSET Nat : step[k][s] \in SUBSET Nat)
  BY <1>1
<1> HIDE DEF n, back, base, step
<1>3. PICK f \in [1..n -> SUBSET Nat] :
         \A k \in 1..n : f[k] = IF back[k] = 0 THEN base[k] ELSE step[k][f[back[k]]]
  <2>1. SolvableBack(n, back, SUBSET Nat, base, step)
    BY <1>1, AlongAnswers
  <2> QED
    BY <1>2, <2>1 DEF SolvableBack
<1>4. \A k \in 1..n : f[k] = {k} \cup IF mail[k].answers = 0 THEN {} ELSE f[mail[k].answers]
  <2>1. \A k \in 1..n : back[k] = mail[k].answers /\ (back[k] = 0 \/ back[k] \in 1..n)
    BY <1>1, AnswersGoBack DEF back, n
  <2> QED
    BY <1>3, <2>1 DEF base, step
<1>5. f = rec(f)
  BY <1>1, <1>3, <1>4
<1>6. path = rec(path)
  BY <1>5
<1>7. Path = path
  BY DEF Path
<1> HIDE DEF path
<1> QED
  BY <1>6, <1>7

LEMMA NamedIs ==
  ASSUME LettersOK, NEW i \in DOMAIN mail
  PROVE  LET a == mail[i].answers IN
         Named[i] = IF a = 0 THEN <<>> ELSE Named[a] \o (IF mail[a].id THEN <<a>> ELSE <<>>)
<1> DEFINE n == Len(mail)
           back == [k \in DOMAIN mail |-> mail[k].answers]
           name(a) == IF mail[a].id THEN <<a>> ELSE <<>>
           base == [k \in 1..n |-> <<>>]
           step == [k \in 1..n |-> [s \in Seq(Nat) |-> s \o name(back[k])]]
           rec(g) == [k \in DOMAIN mail |->
                         LET a == mail[k].answers IN
                         IF a = 0 THEN <<>> ELSE g[a] \o (IF mail[a].id THEN <<a>> ELSE <<>>)]
           names == CHOOSE g : g = rec(g)
<1>1. n \in Nat /\ DOMAIN mail = 1..n /\ GoesBack(n, back)
  BY AnswersGoBack
<1>2. \A k \in 1..n : back[k] = mail[k].answers /\ (back[k] = 0 \/ back[k] \in 1..n) /\ back[k] \in Nat
  BY <1>1, AnswersGoBack
<1>3. \A k \in 1..n : name(back[k]) \in Seq(Nat)
  <2> SUFFICES ASSUME NEW k \in 1..n PROVE name(back[k]) \in Seq(Nat)
    OBVIOUS
  <2>1. back[k] \in Nat
    BY <1>2
  <2> HIDE DEF back
  <2> QED
    BY <2>1
<1> HIDE DEF name, back, n
<1>4. \A k \in 1..n : base[k] \in Seq(Nat)
  BY EmptySeq
<1>5. \A k \in 1..n, s \in Seq(Nat) : step[k][s] \in Seq(Nat)
  BY <1>3, ConcatProperties
<1> HIDE DEF base, step
<1>6. PICK f \in [1..n -> Seq(Nat)] :
         \A k \in 1..n : f[k] = IF back[k] = 0 THEN base[k] ELSE step[k][f[back[k]]]
  <2>1. SolvableBack(n, back, Seq(Nat), base, step)
    BY <1>1, AlongAnswers
  <2> QED
    BY <1>4, <1>5, <2>1 DEF SolvableBack
<1>7. \A k \in 1..n : f[k] = IF mail[k].answers = 0 THEN <<>>
                             ELSE f[mail[k].answers] \o name(mail[k].answers)
  BY <1>2, <1>6 DEF base, step
<1>8. f = rec(f)
  BY <1>1, <1>6, <1>7 DEF name
<1>9. names = rec(names)
  BY <1>8
<1>10. Named = names
  BY DEF Named
<1> HIDE DEF names
<1> QED
  BY <1>9, <1>10

\* A path ends with its message, and holds none that came later.
LEMMA PathGoesBack ==
  ASSUME LettersOK
  PROVE  \A i \in DOMAIN mail : i \in Path[i] /\ Path[i] \subseteq 1..i
<1> DEFINE n == Len(mail)
           back == [k \in DOMAIN mail |-> mail[k].answers]
           Good == {i \in 1..n : i \in Path[i] /\ Path[i] \subseteq 1..i}
<1>1. n \in Nat /\ DOMAIN mail = 1..n /\ GoesBack(n, back)
  BY AnswersGoBack
<1>2. ASSUME NEW i \in 1..n, back[i] = 0 \/ back[i] \in Good PROVE i \in Good
  <2>1. Path[i] = {i} \cup IF back[i] = 0 THEN {} ELSE Path[back[i]]
    BY <1>1, PathIs
  <2>2. back[i] \in 0..(i - 1)
    BY <1>1 DEF GoesBack
  <2> HIDE DEF n, back
  <2>3. CASE back[i] = 0
    BY <1>1, <2>1, <2>3
  <2>4. CASE back[i] # 0
    <3>1. Path[back[i]] \subseteq 1..back[i]
      BY <1>2, <2>4
    <3>2. 1..back[i] \subseteq 1..i
      BY <2>2
    <3> QED
      BY <2>1, <2>4, <3>1, <3>2
  <2> QED
    BY <2>3, <2>4
<1> HIDE DEF n, back, Good
<1>3. \A i \in 1..n : i \in Good
  BY <1>1, <1>2, ByAnswers
<1> QED
  BY <1>1, <1>3 DEF Good

\* Along answers to all that can be parsed, nobody is lost.
LEMMA ShownOn ==
  ASSUME LettersOK
  PROVE  \A i \in DOMAIN mail :
            (\A j \in Path[i] : ~mail[j].pgp /\ (mail[j].answers # 0 => mail[j].all))
               => \A j \in Path[i] : Visible(j) \subseteq Visible(i)
<1> DEFINE n == Len(mail)
           back == [k \in DOMAIN mail |-> mail[k].answers]
           Clear(i) == \A j \in Path[i] : ~mail[j].pgp /\ (mail[j].answers # 0 => mail[j].all)
           Good == {i \in 1..n :
                      Clear(i) => \A j \in Path[i] : Visible(j) \subseteq Visible(i)}
<1>1. n \in Nat /\ DOMAIN mail = 1..n /\ GoesBack(n, back)
  BY AnswersGoBack
<1>2. ASSUME NEW i \in 1..n, back[i] = 0 \/ back[i] \in Good PROVE i \in Good
  <2> SUFFICES ASSUME Clear(i), NEW j \in Path[i]
               PROVE  Visible(j) \subseteq Visible(i)
    OBVIOUS
  <2> DEFINE a == mail[i].answers
  <2>1. Path[i] = {i} \cup IF a = 0 THEN {} ELSE Path[a]
    BY <1>1, PathIs
  <2>2. CASE j = i
    BY <2>2
  <2>3. CASE j # i
    <3>1. a # 0 /\ j \in Path[a]
      BY <2>1, <2>3
    <3>2. a \in Good /\ Clear(a) /\ a \in DOMAIN mail
      BY <1>1, <1>2, <2>1, <3>1, AnswersGoBack
    <3>3. a \in Path[a] /\ i \in Path[i]
      BY <1>1, <3>2, PathGoesBack
    <3>4. mail[i].all /\ ~mail[a].pgp
      BY <3>1, <3>2, <3>3
    <3>5. MessageOK(mail, mail[i], i)
      BY <1>1 DEF LettersOK
    <3>6. Visible(a) \subseteq Visible(i)
      BY <3>1, <3>4, <3>5 DEF MessageOK, Onward, Visible
    <3>7. Visible(j) \subseteq Visible(a)
      BY <3>1, <3>2
    <3> QED
      BY <3>6, <3>7
  <2> QED
    BY <2>2, <2>3
<1> HIDE DEF n, back, Good
<1>3. \A i \in 1..n : i \in Good
  BY <1>1, <1>2, ByAnswers
<1> QED
  BY <1>1, <1>3 DEF Good

\* In a conversation of replies to all, none in a PGP envelope, whoever one message
\* names gets all that follow, or writes them (new_reply, to_mime, to_draft,
\* rebuild_with_attachments, envelope_from_raw).
THEOREM RepliesAlwaysReachEveryone == SubmissionSpec => []RepliesReachEveryone
<1>1. ASSUME LettersOK PROVE RepliesReachEveryone
  <2> SUFFICES ASSUME NEW i \in DOMAIN mail, got[i] # {},
                      \A j \in Path[i] : ~mail[j].pgp /\ (mail[j].answers # 0 => mail[j].all),
                      NEW j \in Path[i]
               PROVE  Visible(j) \subseteq got[i] \cup {mail[i].from}
    BY DEF RepliesReachEveryone
  <2>1. Visible(j) \subseteq Visible(i)
    BY <1>1, ShownOn
  <2>2. ~mail[i].pgp
    BY <1>1, PathGoesBack
  <2>3. MessageOK(mail, mail[i], i) /\ Reached(mail[i], got[i])
    BY <1>1 DEF LettersOK
  <2>4. got[i] = mail[i].to \cup mail[i].cc \cup mail[i].bcc
    BY <2>2, <2>3 DEF MessageOK, Reached
  <2> QED
    BY <2>1, <2>4 DEF Visible
<1> QED
  BY <1>1, LettersAlways, PTL

\* The References of a message name, in order, every message of its conversation before
\* it that has a Message-ID, unless one of them was written anew or answers one in a PGP
\* envelope (new_reply, to_mime).
THEOREM ReferencesAlwaysAncestors == SubmissionSpec => []ReferencesAreAncestors
<1> DEFINE n == Len(mail)
           back == [k \in DOMAIN mail |-> mail[k].answers]
           Plain(i) == \A j \in Path[i] : ~mail[j].rebuilt /\ (j # i => ~mail[j].pgp)
           Good == {i \in 1..n : Plain(i) => mail[i].refs = Named[i]}
<1>1. ASSUME LettersOK PROVE ReferencesAreAncestors
  <2>1. n \in Nat /\ DOMAIN mail = 1..n /\ GoesBack(n, back)
    BY <1>1, AnswersGoBack
  <2>2. ASSUME NEW i \in 1..n, back[i] = 0 \/ back[i] \in Good PROVE i \in Good
    <3> SUFFICES ASSUME Plain(i) PROVE mail[i].refs = Named[i]
      OBVIOUS
    <3> DEFINE a == mail[i].answers
    <3>1. Path[i] = {i} \cup IF a = 0 THEN {} ELSE Path[a]
      BY <1>1, <2>1, PathIs
    <3>2. Named[i] = IF a = 0 THEN <<>> ELSE Named[a] \o (IF mail[a].id THEN <<a>> ELSE <<>>)
      BY <1>1, <2>1, NamedIs
    <3>3. MessageOK(mail, mail[i], i) /\ i \in Path[i]
      BY <1>1, <2>1, PathGoesBack DEF LettersOK
    <3>4. CASE a = 0
      BY <3>2, <3>3, <3>4 DEF MessageOK
    <3>5. CASE a # 0
      <4>1. a \in Good /\ a \in DOMAIN mail /\ a \in 1..(i - 1)
        BY <1>1, <2>1, <2>2, <3>5, AnswersGoBack DEF GoesBack
      <4>2. a \in Path[a] /\ Path[a] \subseteq 1..a
        BY <1>1, <4>1, PathGoesBack
      <4>3. i \notin 1..a
        BY <4>1
      <4>4. \A j \in Path[a] : ~mail[j].rebuilt /\ ~mail[j].pgp
        BY <3>1, <3>5, <4>2, <4>3
      <4>5. mail[a].refs = Named[a]
        BY <4>1, <4>4
      <4>6. ~mail[a].pgp /\ ~mail[i].rebuilt
        BY <3>3, <4>2, <4>4
      <4>7. mail[i].refs = mail[a].refs \o (IF mail[a].id THEN <<a>> ELSE <<>>)
        BY <3>3, <3>5, <4>6 DEF MessageOK, Onward
      <4> QED
        BY <3>2, <3>5, <4>5, <4>7
    <3> QED
      BY <3>4, <3>5
  <2> HIDE DEF n, back, Good
  <2>3. \A i \in 1..n : i \in Good
    BY <2>1, <2>2, ByAnswers
  <2> QED
    BY <2>1, <2>3 DEF Good, ReferencesAreAncestors
<1> QED
  BY <1>1, LettersAlways, PTL
================================================================================
