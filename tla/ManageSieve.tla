------------------------------ MODULE ManageSieve ------------------------------
(***************************************************************************)
(* What is said on a ManageSieve connection: the client's requests, the    *)
(* records of the server's answers, and what the user is told.             *)
(*                                                                         *)
(* An answer is data records, each a line or a literal, and a tag.  The    *)
(* client reads up to the first line that looks like a tag; a record too   *)
(* many, or a literal that is not alone on its line, ends the reading in   *)
(* the middle of an answer.  What is left unread is what the next request  *)
(* on the same session would read.  `inbx sieve` connects for every        *)
(* command; the TUI keeps its session from one to the next (TuiOps has its *)
(* mutex).  External: the server and its other clients.                    *)
(***************************************************************************)
EXTENDS Naturals, Sequences, FiniteSets, SequencesExt

CONSTANTS
    Names,        \* names of scripts
    MaxRecords,   \* MAX_RESPONSE_RECORDS
    MaxEdits      \* bound: contents that are ever uploaded

VARIABLES
    who,        \* "tui" or "cli"
    warning,    \* what the server adds, in a literal, to the OK of a PUTSCRIPT:
                \* "none", a text, or a text that begins like a tag
    literals,   \* the names that the server writes as literals
    scripts,    \* scripts[n]: its content, 0 for no script
    active,     \* the active script, or "none"
    edits,      \* contents uploaded
    open,       \* there is a connection; between two commands, a cached session
    wire,       \* what the server sent and the client has not read
    todo,       \* requests left of the present command
    asked,      \* the first of them was sent and is not answered
    listed,     \* the names shown to the user
    answer,     \* history: the server's answer to the latest request
    told        \* what came of it for the client

settingVars == <<who, warning, literals>>
serverVars == <<scripts, active, edits>>
vars == <<settingVars, serverVars, open, wire, todo, asked, listed, answer, told>>

Record(kind, what, alone) == [kind |-> kind, what |-> what, alone |-> alone]
Line(what) == Record("line", what, TRUE)
Tag(word) == Record("tag", word, TRUE)
Request(verb, name) == [verb |-> verb, name |-> name]
Simple(verb) == Request(verb, "none")
NoAnswer == [ok |-> FALSE, data |-> <<>>, how |-> "nothing"]

Stored == {n \in Names : scripts[n] # 0}

-----------------------------------------------------------------------------
(* The server. *)

\* One script in the list: its name, and ACTIVE behind it on the same line.
Listed(n) ==
    IF n \in literals THEN Record("literal", n, n # active) ELSE Line(n)

Data(r) ==
    CASE r.verb = "greeting" -> <<Line("capability")>>
      [] r.verb = "list" -> SetToSeq({Listed(n) : n \in Stored})
      [] r.verb = "get" -> <<Record("literal", scripts[r.name], TRUE)>>
      [] OTHER -> <<>>

\* A server may refuse anything, and has to refuse what it cannot do.
Can(r) ==
    /\ r.verb \in {"get", "activate", "delete"} => r.name \in Stored
    /\ r.verb = "delete" => r.name # active
    /\ r.verb = "put" => edits < MaxEdits

Effect(r) ==
    CASE r.verb = "put" ->
            scripts' = [scripts EXCEPT ![r.name] = edits + 1] /\ edits' = edits + 1 /\ UNCHANGED active
      [] r.verb = "activate" -> active' = r.name /\ UNCHANGED <<scripts, edits>>
      [] r.verb = "delete" -> scripts' = [scripts EXCEPT ![r.name] = 0] /\ UNCHANGED <<active, edits>>
      [] OTHER -> UNCHANGED serverVars

\* The text that follows OK {n} on lines of its own.
Remark(r) ==
    IF r.verb = "put" /\ warning # "none"
    THEN <<IF warning = "tag" THEN Tag("no") ELSE Line("remark")>>
    ELSE <<>>

\* write_line, and the server's answer.
Ask ==
    /\ todo # <<>> /\ ~asked
    /\ LET r == Head(todo) IN
        /\ \/ /\ Can(r) /\ Effect(r)
              /\ answer' = [ok |-> TRUE, data |-> Data(r), how |-> "ok"]
              /\ wire' = wire \o Data(r) \o <<Tag("OK")>> \o Remark(r)
           \/ /\ answer' = [ok |-> FALSE, data |-> <<>>, how |-> "refused"]
              /\ wire' = Append(wire, Tag("NO"))
              /\ UNCHANGED serverVars
    /\ asked' = TRUE
    /\ UNCHANGED <<settingVars, open, todo, listed, told>>

\* Another client uploads, activates or deletes a script.
Other ==
    /\ \E n \in Names, verb \in {"put", "activate", "delete"} :
          Can(Request(verb, n)) /\ Effect(Request(verb, n))
    /\ UNCHANGED <<settingVars, open, wire, todo, asked, listed, answer, told>>

-----------------------------------------------------------------------------
(* read_response_until_done *)

\* Where the reading ends: at a tag, at a record too many, or at a literal with
\* something behind it.
Ends == {i \in DOMAIN wire : wire[i].kind = "tag" \/ i > MaxRecords \/ ~wire[i].alone}

End == Min(Ends)

Accepted == wire[End] = Tag("OK")

\* list_scripts: of a record without quotes there is no name.
ListedNames == {wire[i].what : i \in {j \in 1..(End - 1) : wire[j].kind = "line"}}

ReadOk ==
    /\ asked /\ Ends # {} /\ Accepted /\ Head(todo).verb # "logout"
    /\ asked' = FALSE
    /\ todo' = Tail(todo)
    /\ told' = [ok |-> TRUE, data |-> SubSeq(wire, 1, End - 1), how |-> "ok"]
    /\ open' = TRUE
    /\ wire' = SubSeq(wire, End + 1, Len(wire))
    /\ listed' = IF Head(todo).verb = "list" THEN ListedNames ELSE listed
    /\ UNCHANGED <<settingVars, serverVars, answer>>

\* What is told of a failure: the server's NO, a protocol error, a broken connection.
Failure(how) ==
    /\ asked' = FALSE
    /\ todo' = <<>>
    /\ told' = [ok |-> FALSE, data |-> <<>>, how |-> how]
    /\ UNCHANGED <<settingVars, serverVars, listed, answer>>

Failures ==
    \/ Ends # {} /\ ~Accepted /\ Failure(IF wire[End].kind = "tag" THEN "refused" ELSE "protocol")
    \/ Failure("io")

\* Mutant: the TUI keeps a session on which a request failed.
ReadErrorAndStay ==
    /\ asked /\ Head(todo).verb # "logout" /\ Failures
    /\ IF who = "tui" /\ Head(todo).verb \in {"list", "get", "put"} /\ told'.how # "io"
       THEN wire' = SubSeq(wire, End + 1, Len(wire)) /\ UNCHANGED open
       ELSE wire' = <<>> /\ open' = FALSE

\* An error ends the command, and the connection with it: the TUI forgets its
\* session.
ReadError ==
    /\ asked /\ Head(todo).verb # "logout" /\ Failures
    /\ wire' = <<>> /\ open' = FALSE

\* logout: whatever is read, the connection is closed.
ReadLogout ==
    /\ asked /\ Head(todo).verb = "logout" /\ Failure("nothing")
    /\ wire' = <<>> /\ open' = FALSE

-----------------------------------------------------------------------------
(* Commands *)

Commands(n) ==
    IF who = "cli"
    THEN {<<Simple("list")>>, <<Request("get", n)>>, <<Request("put", n)>>,
          <<Request("activate", n)>>, <<Request("delete", n)>>,
          <<Request("put", n), Request("activate", n)>>}          \* vacation
    ELSE {<<Simple("list")>>, <<Request("put", n), Simple("logout")>>} \cup
         (IF n \in listed THEN {<<Request("get", n)>>} ELSE {}) \cup
         (IF open THEN {<<Simple("logout")>>} ELSE {})            \* Escape

\* A command: connect unless a session is cached, and log out if it is not kept.
Start ==
    /\ todo = <<>>
    /\ \E n \in Names : \E requests \in Commands(n) :
        todo' = (IF open THEN <<>> ELSE <<Simple("greeting"), Simple("authenticate")>>)
                \o requests \o (IF who = "cli" THEN <<Simple("logout")>> ELSE <<>>)
    /\ UNCHANGED <<settingVars, serverVars, open, wire, asked, listed, answer, told>>

Init ==
    /\ who \in {"tui", "cli"}
    /\ warning \in {"none", "text", "tag"}
    /\ literals \in SUBSET Names
    /\ scripts = [n \in Names |-> 0] /\ active = "none" /\ edits = 0
    /\ open = FALSE /\ wire = <<>> /\ todo = <<>> /\ asked = FALSE
    /\ listed = {} /\ answer = NoAnswer /\ told = NoAnswer

Next == Start \/ Ask \/ ReadOk \/ ReadError \/ ReadLogout \/ Other

Spec == Init /\ [][Next]_vars

-----------------------------------------------------------------------------
(* Properties *)

\* Whatever was asked before on the same session, however that ended: what a
\* request reads is the server's answer to it, the data of a list or a script, and
\* not the rest of an earlier answer.  (But after `inbx sieve vacation` has uploaded
\* its script, a warning that begins like a tag is taken for the answer to the
\* activation.)
AnswersAreOwn ==
    ~asked /\ (who = "tui" \/ warning # "tag") =>
        /\ told.how = "refused" => ~answer.ok
        /\ told.ok => answer.ok /\ (answer.data # <<>> => told.data = answer.data)

-----------------------------------------------------------------------------
(* The invariant behind it, but for `inbx sieve vacation` with such a warning: *)
(* an upload is followed by a request whose answer nobody looks into; what is  *)
(* unread before a request is the remark on an upload, and before such a       *)
(* request only; and behind that remark comes the answer.                      *)

Orderly(requests) ==
    \A i \in DOMAIN requests : requests[i].verb = "put" =>
        /\ i < Len(requests)
        /\ requests[i + 1].verb \in (IF warning = "tag" THEN {"logout"} ELSE {"activate", "logout"})

Leftovers(r) ==
    {<<>>} \cup (IF r.verb = "activate" THEN {<<Line("remark")>>} ELSE {})
           \cup (IF r.verb = "logout" THEN {<<Line("remark")>>, <<Tag("no")>>} ELSE {})

WireInv ==
    /\ todo = <<>> => wire = <<>> /\ ~asked
    /\ todo # <<>> /\ ~asked => wire \in Leftovers(Head(todo))
    /\ asked => \E left \in Leftovers(Head(todo)) :
          wire = left \o answer.data \o <<Tag(IF answer.ok THEN "OK" ELSE "NO")>>
                      \o (IF answer.ok THEN Remark(Head(todo)) ELSE <<>>)
    /\ asked /\ answer.data # <<>> => Head(todo).verb \in {"greeting", "list", "get"}

AnswerInv == who = "tui" \/ warning # "tag" => Orderly(todo) /\ WireInv /\ AnswersAreOwn
=============================================================================
