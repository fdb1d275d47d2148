--------------------------------- MODULE Mbox ---------------------------------
(***************************************************************************)
(* `inbx export` and `inbx import`: messages of a folder written to an     *)
(* mbox file, and an mbox file read into a folder.                         *)
(*                                                                         *)
(* A raw message is the sequence of what newlines separate in it; the last *)
(* piece is empty when the message ends with a newline.  A piece is empty, *)
(* "From " behind some `>`, the Status and X-Status headers with the flags *)
(* they stand for (the five that have a letter), or any other text.  An    *)
(* mbox file is a sequence of lines.  Senders and dates of the separator   *)
(* lines are left out, and so is the choice of messages (--since, --limit).*)
(*                                                                         *)
(* Each process writes its rows one by one; processes do not know of each  *)
(* other, and any may be killed.                                           *)
(***************************************************************************)
EXTENDS Naturals, Sequences, FiniteSets, SequencesExt

CONSTANTS
    Importers,   \* processes
    Mailboxes,   \* contents of the inbox: sequences of messages
    Kept,        \* the flags that have a letter in Status or X-Status
    MaxImports   \* bound

VARIABLES
    rows,      \* rows[f][uid] for the two folders: the raw message, without a piece
               \* if it was not downloaded, and the flags
    file,      \* the mbox file
    copied,    \* history: the rows of which the file has the whole message
    job,       \* job[p]: the import of process p
    imports    \* imports started

vars == <<rows, file, copied, job, imports>>

Piece(kind, gt, flags) == [kind |-> kind, gt |-> gt, flags |-> flags]
Empty == Piece("empty", 0, {})
Text == Piece("text", 0, {})
From(gt) == Piece("from", gt, {})
Status(flags) == Piece("status", 0, flags)
Row(raw, flags) == [raw |-> raw, flags |-> flags]

-----------------------------------------------------------------------------
(* mbox.rs *)

\* Where the headers end: at the first empty piece.
HeaderEnd(raw) == SelectInSeq(raw, LAMBDA piece : piece = Empty)

NoStatus(pieces) ==
    LET kept[i \in 0..Len(pieces)] ==
          IF i = 0 THEN <<>>
          ELSE IF pieces[i].kind = "status" THEN kept[i - 1] ELSE Append(kept[i - 1], pieces[i])
    IN  kept[Len(pieces)]

\* The headers but Status and X-Status, and the rest.
Headers(raw) ==
    NoStatus(SubSeq(raw, 1, IF HeaderEnd(raw) = 0 THEN Len(raw) ELSE HeaderEnd(raw) - 1))

Body(raw) == IF HeaderEnd(raw) = 0 THEN <<>> ELSE SubSeq(raw, HeaderEnd(raw), Len(raw))

\* inject_status_headers.  Every piece is written with a newline, the last one, too.
InjectStatus(raw, flags) == Headers(raw) \o <<Status(flags \cap Kept)>> \o Body(raw)

\* Mutant: only a bare "From " is quoted.
QuoteBare(lines) ==
    [i \in DOMAIN lines |-> IF lines[i] = From(0) THEN From(1) ELSE lines[i]]

\* apply_from_quoting
Quote(lines) ==
    [i \in DOMAIN lines |->
        IF lines[i].kind = "from" THEN From(lines[i].gt + 1) ELSE lines[i]]

\* strip_from_quoting
Unquote(lines) ==
    [i \in DOMAIN lines |->
        IF lines[i].kind = "from" /\ lines[i].gt > 0 THEN From(lines[i].gt - 1) ELSE lines[i]]

\* One message of the file: the separator, the lines, and an empty line.
Written(row) == <<From(0)>> \o Quote(InjectStatus(row.raw, row.flags)) \o <<Empty>>

\* The messages read so far; the lines read of the last one become a message, too.
Ended(read) ==
    IF read.lines = <<>> THEN read.messages
    ELSE Append(read.messages, Append(Unquote(read.lines), Empty))

\* split_mbox: a bare "From " begins a message, and one without a byte is none.
\* What precedes the first separator is a message, too.
Reading(lines) ==
    LET read[i \in 0..Len(lines)] ==
          IF i = 0 THEN [messages |-> <<>>, lines |-> <<>>]
          ELSE IF lines[i] = From(0) THEN [messages |-> Ended(read[i - 1]), lines |-> <<>>]
          ELSE [messages |-> read[i - 1].messages, lines |-> Append(read[i - 1].lines, lines[i])]
    IN  read[Len(lines)]

Split(lines) == Ended(Reading(lines))

\* flags_from_status_headers
FlagsOf(raw) ==
    LET end == HeaderEnd(raw)
        status == SelectInSeq(raw, LAMBDA piece : piece.kind = "status")
    IN  IF status = 0 \/ (end # 0 /\ end < status) THEN {} ELSE raw[status].flags

-----------------------------------------------------------------------------
(* The two commands *)

Uids(f) == DOMAIN rows[f]

\* The rows with a body, in the order of the listing.
Listing(f) ==
    LET whole == {u \in Uids(f) : rows[f][u].raw # <<>>}
        uids == CHOOSE s \in [1..Cardinality(whole) -> whole] : \A i, j \in DOMAIN s : i < j => s[i] > s[j]
    IN  [n \in DOMAIN uids |-> rows[f][uids[n]]]

\* The lines of the first n rows of a list.
Lines(list, n) ==
    LET lines[i \in 0..n] == IF i = 0 THEN <<>> ELSE lines[i - 1] \o Written(list[i])
    IN  lines[n]

\* cmd_export, to its end or until it is killed.
Export(f) ==
    LET list == Listing(f) IN
    /\ \E n \in 0..Len(list) :
        /\ copied' = SubSeq(list, 1, n)
        /\ \/ n = Len(list) /\ file' = Lines(list, n)
           \/ /\ n < Len(list)
              /\ \E cut \in 1..Len(Written(list[n + 1])) :
                    file' = Lines(list, n) \o SubSeq(Written(list[n + 1]), 1, cut - 1)
    /\ UNCHANGED <<rows, job, imports>>

\* `alone`, `before` and `copied` are history: whether no other import ran at the
\* same time, the folder's rows before, and the rows the file was made of.
NoJob == [at |-> "none", messages |-> <<>>, n |-> 0, uid |-> 0,
          alone |-> TRUE, before |-> <<>>, copied |-> <<>>]

Running == {p \in Importers : job[p].at = "running"}

\* cmd_import up to folder_max_uid: the file is read and split, and the first uid
\* is the one after the largest in the folder.
StartImport(p) ==
    /\ p \notin Running /\ imports < MaxImports
    /\ imports' = imports + 1
    /\ job' = [q \in Importers |->
          IF q = p
          THEN [at |-> "running", messages |-> Split(file), n |-> 0, alone |-> Running = {},
                uid |-> Max(Uids("copy") \cup {0}) + 1, before |-> rows["copy"], copied |-> copied]
          ELSE IF q \in Running THEN [job[q] EXCEPT !.alone = FALSE] ELSE job[q]]
    /\ UNCHANGED <<rows, file, copied>>

\* write_maildir, upsert_message: a row with this uid is replaced.
ImportOne(p) ==
    /\ p \in Running
    /\ LET j == job[p] IN
        /\ j.n < Len(j.messages)
        /\ LET raw == j.messages[j.n + 1] IN
           rows' = [rows EXCEPT !["copy"] =
                      [u \in Uids("copy") \cup {j.uid} |->
                          IF u = j.uid THEN Row(raw, FlagsOf(raw)) ELSE rows["copy"][u]]]
        /\ job' = [job EXCEPT ![p] = [j EXCEPT !.n = j.n + 1, !.uid = j.uid + 1]]
    /\ UNCHANGED <<file, copied, imports>>

EndImport(p) ==
    /\ p \in Running
    /\ job[p].n = Len(job[p].messages)
    /\ job' = [job EXCEPT ![p].at = "done"]
    /\ UNCHANGED <<rows, file, copied, imports>>

Kill(p) ==
    /\ p \in Running
    /\ job' = [job EXCEPT ![p] = NoJob]
    /\ UNCHANGED <<rows, file, copied, imports>>

Init ==
    /\ \E inbox \in Mailboxes : rows = [inbox |-> inbox, copy |-> <<>>]
    /\ file = <<>> /\ copied = <<>>
    /\ job = [p \in Importers |-> NoJob]
    /\ imports = 0

Next ==
    \/ Running = {} /\ imports < MaxImports /\ \E f \in {"inbox", "copy"} : Export(f)
    \/ \E p \in Importers : StartImport(p) \/ ImportOne(p) \/ EndImport(p) \/ Kill(p)

Spec == Init /\ [][Next]_vars

-----------------------------------------------------------------------------
(* Properties *)

\* A message without the Status of its headers and the empty lines at its end.
Bare(raw) ==
    LET own == Headers(raw) \o Body(raw)
    IN  SubSeq(own, 1, Max({i \in DOMAIN own : own[i] # Empty} \cup {0}))

\* What an import that has the folder to itself has done so far: the rows that were there
\* before are there, and the messages that it took from the file follow them in their order.
ImportsAddInOrder ==
    \A p \in Importers : job[p].at # "none" /\ job[p].alone =>
        LET j == job[p] IN
        /\ \A u \in DOMAIN j.before : u \in Uids("copy") /\ rows["copy"][u] = j.before[u]
        /\ \A n \in 1..j.n :
              LET u == j.uid - j.n + n - 1
                  raw == j.messages[n]
              IN  u \in Uids("copy") /\ rows["copy"][u] = Row(raw, FlagsOf(raw))

\* The messages are those of the list, with their text and with the flags that have a
\* letter, and one more at most.
ComeBack(messages, list) ==
    /\ Len(messages) \in {Len(list), Len(list) + 1}
    /\ \A n \in DOMAIN list :
          /\ Bare(messages[n]) = Bare(list[n].raw)
          /\ FlagsOf(messages[n]) = list[n].flags \cap Kept

\* An import that came to its end took what the export had written whole.
FileComesBack ==
    \A p \in Importers : job[p].at = "done" =>
        job[p].n = Len(job[p].messages) /\ ComeBack(job[p].messages, job[p].copied)

\* An import that has the folder to itself adds every message that the export had
\* written whole, with its text and with the flags that have a letter, and leaves
\* what was in the folder as it was; whatever the text looks like, whichever export
\* or import was killed before, and if the messages were imported ones themselves.
\* (Two imports at a time begin with the same uid and replace each other's rows.)
MailboxComesBack == ImportsAddInOrder /\ FileComesBack

-----------------------------------------------------------------------------
(* Why a lone import adds: it began with the uid after the largest, and an   *)
(* import that begins later, or that others join, has larger ones.           *)

JobFields == {"at", "messages", "n", "uid", "alone", "before", "copied"}

ImportTypes ==
    /\ DOMAIN rows = {"inbox", "copy"} /\ Uids("copy") \subseteq Nat /\ IsFiniteSet(Uids("copy"))
    /\ DOMAIN job = Importers
    /\ \A p \in Importers : /\ DOMAIN job[p] = JobFields /\ job[p].at \in {"none", "running", "done"}
                           /\ job[p].n \in Nat /\ job[p].uid \in Nat

AloneInv ==
    \A p \in Importers : job[p].at # "none" /\ job[p].alone =>
        LET j == job[p] IN
        /\ j.n < j.uid /\ j.uid - 1 \in Uids("copy") \cup {0}
        /\ \A u \in DOMAIN j.before : u < j.uid - j.n
        /\ \A q \in Running \ {p} : j.at = "done" /\ j.uid <= job[q].uid
-----------------------------------------------------------------------------
(* Why the file comes back: the file, as far as it was written, is read as   *)
(* the rows that it was made of, and an import takes what it read.           *)

Pieces ==
    {piece \in [kind : {"empty", "text", "from", "status"}, gt : Nat, flags : SUBSET Kept] :
        (piece.kind # "from" => piece.gt = 0) /\ (piece.kind # "status" => piece.flags = {})}

TextTypes ==
    /\ DOMAIN rows = {"inbox", "copy"}
    /\ \A f \in DOMAIN rows :
          /\ Uids(f) \subseteq Nat /\ IsFiniteSet(Uids(f))
          /\ \A u \in Uids(f) : rows[f][u].raw \in Seq(Pieces)
    /\ file \in Seq(Pieces)
    /\ DOMAIN job = Importers
    /\ \A p \in Importers :
          DOMAIN job[p] = JobFields /\ job[p].n \in Nat /\ job[p].messages \in Seq(Seq(Pieces))

FileInv ==
    /\ ComeBack(Split(file), copied)
    /\ \A p \in Importers : job[p].at # "none" => ComeBack(job[p].messages, job[p].copied)
    /\ \A p \in Importers : job[p].at = "done" => job[p].n = Len(job[p].messages)
=============================================================================
