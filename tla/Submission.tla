----------------------------- MODULE Submission -----------------------------
(***************************************************************************)
(* A message from its draft to its readers: the composer's new message,    *)
(* reply, reply to all and forward; the draft as text that `inbx draft`    *)
(* prints and `inbx send` reads, with or without --attach; the message as  *)
(* it is sent, plain or in a PGP envelope; SMTP's envelope, Graph and JMAP; *)
(* the outbox and the Sent folder.  Several people who all use inbx write  *)
(* to each other.                                                          *)
(*                                                                         *)
(* A message is a record of its headers; its Message-ID is its place in    *)
(* `mail`.  Bodies, subjects, attachments and keys are left out, and so is *)
(* In-Reply-To, which is the last of the References.  External: the        *)
(* servers, which deliver what they accept to everyone in the envelope,    *)
(* and the parser of messages, for headers it was not made for.            *)
(***************************************************************************)
EXTENDS Integers, Sequences, FiniteSets

CONSTANTS
    People,
    Transports,   \* kinds of account: "imap", "graph", "jmap"
    Fields,       \* bound: the headers that users fill in, among "to", "cc", "bcc"
    MaxMessages   \* bound: messages

VARIABLES
    transport,  \* the kind of everybody's account
    desk,       \* the draft being written; two at once do not touch each other
    mail,       \* the messages that were handed over for sending
    stage,      \* stage[i]: where message i is
    got,        \* got[i]: who has received it
    kept        \* the messages in their senders' Sent folders

submissionVars == <<transport, desk, mail, stage, got, kept>>
sending == <<mail, stage, got, kept>>

\* A draft in the composer, or as the text that a command printed.  History: the
\* message it answers, and whether to all.
Places == {"composer", "text"}
Draft(p, place) ==
    [by |-> p, place |-> place, to |-> {}, cc |-> {}, bcc |-> {}, refs |-> <<>>, pgp |-> FALSE,
     answers |-> 0, all |-> FALSE]
NoDraft == Draft(0, "nowhere")

SubmissionInit ==
    /\ transport \in Transports
    /\ desk = NoDraft
    /\ mail = <<>> /\ stage = <<>> /\ got = <<>> /\ kept = {}

-----------------------------------------------------------------------------
(* Drafts. *)

Open(draft) ==
    /\ desk = NoDraft
    /\ Len(mail) < MaxMessages
    /\ desk' = draft
    /\ UNCHANGED <<transport, sending>>

\* Who finds message i in a folder, and may answer or forward it.
Has(p, i) == p \in got[i] \/ (mail[i].from = p /\ i \in kept)

NewBlank(p) == \E place \in Places : Open(Draft(p, place))

\* Only the text and the subject of message i go into a forward.
NewForward(p, i) == Has(p, i) /\ \E place \in Places : Open(Draft(p, place))

\* What parsing message i may find among the addresses of one header.  A PGP
\* envelope repeats the header for every address, and the parser may see one line.
Parsed(i, addresses) ==
    IF mail[i].pgp THEN {some \in SUBSET addresses : some = {} <=> addresses = {}}
                   ELSE {addresses}

\* Nor does a PGP envelope put its References in angle brackets.
ParsedReferences(i) == IF mail[i].pgp THEN {mail[i].refs, <<>>} ELSE {mail[i].refs}

\* A reply to all goes on to everyone it can see, but not to the writer.
CcOnly(p, from, to, cc) == cc \ {p, from}   \* Mutant: To is not looked at.
Others(p, from, to, cc) == (to \cup cc) \ {p, from}

\* The message answered is the last of the references, if it can be named.
ReferTo(i, refs) == IF mail[i].id THEN <<i>> ELSE <<>>   \* Mutant: its own are dropped.
References(i, refs) == refs \o (IF mail[i].id THEN <<i>> ELSE <<>>)

\* In the composer, a known key of the sender's turns encryption on.
NewReply(p, i, all) ==
    /\ Has(p, i)
    /\ \E place \in Places, pgp \in BOOLEAN, refs \in ParsedReferences(i),
          to \in Parsed(i, mail[i].to), cc \in Parsed(i, mail[i].cc) :
          /\ pgp => place = "composer"
          /\ Open([Draft(p, place) EXCEPT
                !.to = {mail[i].from},
                !.cc = IF all THEN Others(p, mail[i].from, to, cc) ELSE {},
                !.refs = References(i, refs), !.pgp = pgp, !.answers = i, !.all = all])

\* The user, or a template, fills in one more address.
Address(q, field) ==
    /\ desk # NoDraft
    /\ q \notin {desk.by} \cup desk.to \cup desk.cc \cup desk.bcc
    /\ desk' = [desk EXCEPT ![field] = @ \cup {q}]
    /\ UNCHANGED <<transport, sending>>

TogglePgp ==
    /\ desk.place = "composer"
    /\ desk' = [desk EXCEPT !.pgp = ~@]
    /\ UNCHANGED <<transport, sending>>

\* close_composer, or save_draft when the server took it: inbx does not open a
\* saved draft again.
Close ==
    /\ desk # NoDraft
    /\ desk' = NoDraft
    /\ UNCHANGED <<transport, sending>>

-----------------------------------------------------------------------------
(* The bytes of a message: what its headers say, whether it has a          *)
(* Message-ID, and, as history, whom the draft addressed.                  *)

ToMime(draft) ==
    [from |-> draft.by, to |-> draft.to, cc |-> draft.cc, bcc |-> draft.bcc, refs |-> draft.refs,
     id |-> TRUE, pgp |-> FALSE, rebuilt |-> FALSE, save |-> FALSE,
     answers |-> draft.answers, all |-> draft.all,
     addressed |-> draft.to \cup draft.cc \cup draft.bcc, hidden |-> draft.bcc]

\* The outer headers of a signed or encrypted message.
OuterHeaders(mime) == [mime EXCEPT !.bcc = {}, !.id = FALSE, !.pgp = TRUE]

\* Mutant: nobody reads a Bcc line in a draft.
ToDraftOpenly(mime) == [mime EXCEPT !.id = FALSE, !.bcc = {}]

ToDraft(mime) == [mime EXCEPT !.id = FALSE]

\* --attach parses the draft and writes it anew.
RebuildWithAttachments(mime) == [mime EXCEPT !.id = TRUE, !.refs = <<>>, !.rebuilt = TRUE]

\* The envelopes that may be read from message i; Graph and JMAP make their own.
Envelopes(i) ==
    {to \cup cc \cup mail[i].bcc : to \in Parsed(i, mail[i].to), cc \in Parsed(i, mail[i].cc)}
        \ {{}}

-----------------------------------------------------------------------------
(* Sending. *)

HandOver(message, place) ==
    /\ mail' = Append(mail, message)
    /\ stage' = Append(stage, place)
    /\ got' = Append(got, {})
    /\ desk' = NoDraft
    /\ UNCHANGED <<transport, kept>>

\* The TUI sends by SMTP, or queues while it is busy; without a recipient, or
\* without keys, the composer stays as it is.
SendComposer ==
    LET mime == ToMime(desk) IN
      /\ desk.place = "composer" /\ desk.to # {}
      /\ \E place \in {"smtp", "outbox"} :
            HandOver(IF desk.pgp THEN OuterHeaders(mime) ELSE mime, place)

\* cmd_send; with --attach a draft without To is an error.  So is a server that
\* cannot be reached, for Graph and JMAP: the user still has the text.
SendText(attach, save) ==
    LET raw == ToDraft(ToMime(desk)) IN
      /\ desk.place = "text"
      /\ attach => desk.to # {}
      /\ HandOver([(IF attach THEN RebuildWithAttachments(raw) ELSE raw) EXCEPT !.save = save],
                IF transport = "imap" THEN "smtp" ELSE transport)

\* A copy is appended over IMAP; Graph keeps one itself; JMAP's submission
\* destroys the message it sent.
Accept(i) ==
    /\ stage[i] \in {"smtp", "graph", "jmap"}
    /\ \E envelope \in Envelopes(i) : got' = [got EXCEPT ![i] = envelope]
    /\ stage' = [stage EXCEPT ![i] = IF stage[i] = "smtp" /\ mail[i].save THEN "append" ELSE "sent"]
    /\ kept' = IF stage[i] = "graph" /\ mail[i].save THEN kept \cup {i} ELSE kept
    /\ UNCHANGED <<transport, desk, mail>>

\* No server, a refusal, or nobody to send to.
Queue(i) ==
    /\ stage[i] \in {"smtp", "graph", "jmap"}
    /\ stage' = [stage EXCEPT ![i] = "outbox"]
    /\ UNCHANGED <<transport, desk, mail, got, kept>>

\* The append is a connection of its own, which may fail.
AppendToSent(i) ==
    /\ stage[i] = "append"
    /\ stage' = [stage EXCEPT ![i] = "sent"]
    /\ \E copied \in BOOLEAN : kept' = IF copied THEN kept \cup {i} ELSE kept
    /\ UNCHANGED <<transport, desk, mail, got>>

\* Whatever the account is, the outbox is drained by SMTP, and no copy is kept.
Drain(i) ==
    /\ stage[i] = "outbox"
    /\ stage' = [stage EXCEPT ![i] = "drained"]
    /\ \E envelope \in Envelopes(i) : got' = [got EXCEPT ![i] = envelope]
    /\ UNCHANGED <<transport, desk, mail, kept>>

\* What these people do who fill in these headers.
Correspondence(people, fields) ==
    \/ \E p \in people :
          \/ NewBlank(p)
          \/ \E i \in DOMAIN mail :
                NewForward(p, i) \/ NewReply(p, i, TRUE) \/ NewReply(p, i, FALSE)
    \/ \E q \in people, field \in fields \cap {"to", "cc", "bcc"} : Address(q, field)
    \/ TogglePgp \/ Close \/ SendComposer
    \/ \E attach, save \in BOOLEAN : SendText(attach, save)
    \/ \E i \in DOMAIN mail : Accept(i) \/ Queue(i) \/ AppendToSent(i) \/ Drain(i)

SubmissionNext == Correspondence(People, Fields)

SubmissionSpec == SubmissionInit /\ [][SubmissionNext]_submissionVars

-----------------------------------------------------------------------------
(* Properties *)

\* Message i, and the messages that it goes back to.
Path[i \in DOMAIN mail] ==
    {i} \cup IF mail[i].answers = 0 THEN {} ELSE Path[mail[i].answers]

\* Those of them before i that can be named, the oldest first.
Named[i \in DOMAIN mail] ==
    LET before == mail[i].answers
    IN  IF before = 0 THEN <<>> ELSE Named[before] \o (IF mail[before].id THEN <<before>> ELSE <<>>)

Visible(i) == {mail[i].from} \cup mail[i].to \cup mail[i].cc

\* Whichever way a message takes, through the composer or a text file, with
\* attachments or without, at once or out of the outbox, it reaches everyone its
\* draft addressed and nobody else; in a PGP envelope, none of its blind copies.
AddressedAreReached ==
    \A i \in DOMAIN mail :
        IF mail[i].pgp THEN got[i] \subseteq mail[i].addressed \ mail[i].hidden
                       ELSE got[i] \in {{}, mail[i].addressed}

\* In a conversation of replies to all, none in a PGP envelope, whoever one message
\* names gets all that follow, or writes them.
RepliesReachEveryone ==
    \A i \in DOMAIN mail :
        (/\ got[i] # {}
         /\ \A j \in Path[i] : ~mail[j].pgp /\ (mail[j].answers # 0 => mail[j].all))
            => \A j \in Path[i] : Visible(j) \subseteq got[i] \cup {mail[i].from}

\* The References of a message lead back to the first of its conversation through
\* every message between that has a Message-ID, in their order, unless one of them
\* was written anew by --attach or answers one in a PGP envelope.
ReferencesAreAncestors ==
    \A i \in DOMAIN mail :
        (\A j \in Path[i] : ~mail[j].rebuilt /\ (j # i => ~mail[j].pgp))
            => mail[i].refs = Named[i]

-----------------------------------------------------------------------------
(* Why they hold: SubmissionInv is inductive. *)

Drafts ==
    [by : People, place : Places, to : SUBSET People, cc : SUBSET People, bcc : SUBSET People,
     refs : Seq(Nat), pgp : BOOLEAN, answers : Nat, all : BOOLEAN]
Messages ==
    [from : People, to : SUBSET People, cc : SUBSET People, bcc : SUBSET People,
     refs : Seq(Nat), id : BOOLEAN, pgp : BOOLEAN, rebuilt : BOOLEAN, save : BOOLEAN,
     answers : Nat, all : BOOLEAN, addressed : SUBSET People, hidden : SUBSET People]

SubmissionTypes ==
    /\ desk \in Drafts \cup {NoDraft}
    /\ mail \in Seq(Messages)
    /\ DOMAIN got = DOMAIN mail

\* An answer with these References that shows these people goes on from message a, if
\* that can be parsed.
GoesOnFrom(a, refs, shown, all, rebuilt) ==
    ~mail[a].pgp =>
        /\ rebuilt \/ refs = References(a, mail[a].refs)
        /\ all => Visible(a) \subseteq shown

\* Nobody is both named and hidden; an answer goes on from the message it answers; the
\* headers still say whom the draft addressed, but for the blind copies of an envelope.
SubmissionInv ==
    /\ desk.bcc \cap (desk.to \cup desk.cc) = {}
    /\ desk.answers \in 0..Len(mail)
    /\ IF desk.answers = 0 THEN desk.refs = <<>>
       ELSE GoesOnFrom(desk.answers, desk.refs, {desk.by} \cup desk.to \cup desk.cc, desk.all, FALSE)
    /\ \A i \in DOMAIN mail : LET m == mail[i] IN
          /\ m.answers \in 0..(i - 1)
          /\ IF m.answers = 0 THEN m.refs = <<>>
             ELSE GoesOnFrom(m.answers, m.refs, Visible(i), m.all, m.rebuilt)
          /\ IF m.pgp THEN m.bcc = {} /\ m.to \cup m.cc = m.addressed \ m.hidden
             ELSE m.to \cup m.cc \cup m.bcc = m.addressed
    /\ AddressedAreReached
=============================================================================
