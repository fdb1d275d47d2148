----------------------------- MODULE FolderAdmin -----------------------------
(***************************************************************************)
(* Folder management: `inbx folder create | delete | rename | subscribe`   *)
(* and the TUI's folder overlay, for JMAP and Graph accounts, where a path *)
(* has to be turned into the id of a mailbox first.  A JMAP mailbox has a  *)
(* name and a parent; its path joins the escaped names along its ancestry  *)
(* and is what the index calls the folder.  Graph lists top-level folders  *)
(* by display name.  An IMAP server takes the path itself, so there is     *)
(* nothing to model on this side of it.                                    *)
(*                                                                         *)
(* A process is a command or a task of the TUI; between its calls other    *)
(* processes make theirs.  External: the two servers, the user who repeats *)
(* a creation that failed.                                                 *)
(***************************************************************************)
EXTENDS Integers, Sequences, FiniteSets, SequencesExt

CONSTANTS
    Process,      \* commands that may run at the same time
    Path,         \* what users type: sequences of one-character strings
    MaxCommands,  \* bound: commands started
    MaxFaults     \* bound: requests or answers lost

None == 0
NoPath == <<>>

VARIABLES
    kind,      \* "jmap" or "graph"
    boxes,     \* the server's mailboxes: id -> [name, parent, role, sub]
    issued,    \* the last id the server gave
    cmd,       \* cmd[p]: the command process p runs
    started,
    faults

vars == <<kind, boxes, issued, cmd, started, faults>>

----------------------------------------------------------------------------
(* Names and paths.  "A" stands for the letters in capitals.               *)

Lower(path) == [i \in DOMAIN path |-> IF path[i] = "A" THEN "a" ELSE path[i]]

Same(path1, path2) == Lower(path1) = Lower(path2)

Escape(name) ==
    FlattenSeq([i \in DOMAIN name |->
        IF name[i] \in {"/", "\\"} THEN <<"\\", name[i]>> ELSE <<name[i]>>])

\* mailbox_paths.  Its two errors, a missing parent and a cycle of parents, need a
\* server whose one answer to Mailbox/get is not a forest.
Paths(bx) ==
    LET path[m \in DOMAIN bx] ==
          IF bx[m].parent = None THEN Escape(bx[m].name)
          ELSE path[bx[m].parent] \o <<"/">> \o Escape(bx[m].name)
    IN  path

\* split_mailbox_path: the names of a path; none of an invalid one.
Split(path) ==
    LET Read(s, c) ==
          IF s.escaped
          THEN [s EXCEPT !.escaped = FALSE, !.name = Append(@, c), !.bad = @ \/ c \notin {"/", "\\"}]
          ELSE CASE c = "\\" -> [s EXCEPT !.escaped = TRUE]
                 [] c = "/"  -> [s EXCEPT !.names = Append(@, s.name), !.name = <<>>, !.bad = @ \/ s.name = <<>>]
                 [] OTHER    -> [s EXCEPT !.name = Append(@, c)]
        end == FoldLeft(Read, [names |-> <<>>, name |-> <<>>, escaped |-> FALSE, bad |-> FALSE], path)
    IN  IF end.bad \/ end.escaped \/ end.name = <<>> THEN <<>> ELSE Append(end.names, end.name)

\* What a listing calls mailbox m.
Listed(bx) == IF kind = "jmap" THEN Paths(bx) ELSE [m \in DOMAIN bx |-> bx[m].name]

Called(bx, path) == LET paths == Listed(bx) IN {m \in DOMAIN bx : Same(paths[m], path)}

WithRole(bx, path) ==
    LET role == SelectSeq(path, LAMBDA c : c # "\\") IN
      {m \in DOMAIN bx : bx[m].role # NoPath /\ Same(bx[m].role, role)}

Only(set) == IF Cardinality(set) = 1 THEN CHOOSE m \in set : TRUE ELSE None

\* A bug: the role is tried first.
ResolveRoleFirst(bx, path) ==
    IF WithRole(bx, path) # {} THEN Only(WithRole(bx, path)) ELSE Only(Called(bx, path))

\* resolve_mailbox: by path, else by role; ambiguity is an error.
ResolveMailbox(bx, path) ==
    IF Called(bx, path) # {} THEN Only(Called(bx, path)) ELSE Only(WithRole(bx, path))

\* resolve_folder_id: the first display name that agrees.
ResolveFolderId(bx, path) ==
    IF Called(bx, path) = {} THEN None
    ELSE CHOOSE m \in Called(bx, path) : \A n \in Called(bx, path) : m <= n

----------------------------------------------------------------------------
Idle == [step |-> "idle", op |-> "none", path |-> NoPath, to |-> NoPath,
         parent |-> None, rest |-> <<>>, target |-> None, meanwhile |-> {}]

Box(name, parent, role) == [name |-> name, parent |-> parent, role |-> role, sub |-> FALSE]

\* A mailbox "A" with the role "b": a user may call it by either.
Init ==
    /\ kind \in {"jmap", "graph"}
    /\ boxes = [m \in {1} |-> Box(<<"A">>, None, IF kind = "jmap" THEN <<"b">> ELSE NoPath)]
    /\ issued = 1
    /\ cmd = [p \in Process |-> Idle]
    /\ started = 0 /\ faults = 0

\* create_folder up to its first request.
Creation(path) ==
    [Idle EXCEPT !.op = "create", !.path = path,
                 !.rest = IF kind = "jmap" THEN Split(path) ELSE <<path>>,
                 !.step = IF kind = "jmap" /\ Len(Split(path)) > 1 THEN "list" ELSE "set"]

Begin(p, doing) ==
    /\ cmd[p].step = "idle" /\ started < MaxCommands
    /\ started' = started + 1
    /\ cmd' = [cmd EXCEPT ![p] = doing]
    /\ UNCHANGED <<kind, boxes, issued, faults>>

CreateFolder(p, path) == Creation(path).rest # <<>> /\ Begin(p, Creation(path))

DeleteFolder(p, path) == Begin(p, [Idle EXCEPT !.step = "list", !.op = "delete", !.path = path])

RenameFolder(p, path, to) ==
    Begin(p, [Idle EXCEPT !.step = "list", !.op = "rename", !.path = path, !.to = to])

\* Graph has no subscriptions: nothing is sent.
SubscribeFolder(p, path) ==
    kind = "jmap" /\ Begin(p, [Idle EXCEPT !.step = "list", !.op = "subscribe", !.path = path])

\* The user repeats a creation that failed, unless the folder is there by now.
Retry(p) ==
    /\ cmd[p].step = "failed"
    /\ cmd' = [cmd EXCEPT ![p] = IF Called(boxes, @.path) # {} THEN Idle ELSE Creation(@.path)]
    /\ UNCHANGED <<kind, boxes, issued, started, faults>>

\* The command ends with an error; the user will want to repeat a creation.
Failed(c) == IF c.op = "create" THEN [c EXCEPT !.step = "failed", !.meanwhile = {}] ELSE Idle

\* The names of the path that are there, from the root down, as the listing has them.
Descend(bx, names) ==
    LET Down(s, name) ==
          LET here == {m \in DOMAIN bx : bx[m].parent = s.parent /\ Same(bx[m].name, name)} IN
            IF s.rest = <<>> /\ here # {}
            THEN [s EXCEPT !.parent = CHOOSE m \in here : \A n \in here : m <= n]
            ELSE [s EXCEPT !.rest = Append(@, name)]
    IN  FoldLeft(Down, [parent |-> None, rest |-> <<>>], names)

\* The listing, and what the command makes of it.
List(p) ==
    LET c == cmd[p]
        found == Descend(boxes, c.rest)
        target == IF kind = "jmap" THEN ResolveMailbox(boxes, c.path) ELSE ResolveFolderId(boxes, c.path)
    IN
      /\ c.step = "list"
      /\ cmd' = [cmd EXCEPT ![p] =
            IF c.op = "create"
            THEN IF found.rest = <<>> THEN Idle
                 ELSE [@ EXCEPT !.step = "set", !.parent = found.parent, !.rest = found.rest]
            ELSE IF target = None THEN Idle
                 ELSE [@ EXCEPT !.step = "set", !.target = target]]
      /\ UNCHANGED <<kind, boxes, issued, started, faults>>

----------------------------------------------------------------------------
(* The server: siblings never have one name, and Graph ignores its case.   *)

Free(bx, name, parent) ==
    \A m \in DOMAIN bx : bx[m].parent = parent =>
        IF kind = "jmap" THEN bx[m].name # name ELSE ~Same(bx[m].name, name)

\* The segment is made below `parent`, which may have gone since the listing.
Created(c) ==
    IF (c.parent = None \/ c.parent \in DOMAIN boxes) /\ Free(boxes, Head(c.rest), c.parent)
    THEN [m \in DOMAIN boxes \cup {issued + 1} |->
            IF m \in DOMAIN boxes THEN boxes[m] ELSE Box(Head(c.rest), c.parent, NoPath)]
    ELSE boxes

Destroyed(c) ==
    IF \E m \in DOMAIN boxes : boxes[m].parent = c.target THEN boxes
    ELSE [m \in DOMAIN boxes \ {c.target} |-> boxes[m]]

\* The new name is one name, not a path, whatever characters it has.
Renamed(c) ==
    IF Free(boxes, c.to, boxes[c.target].parent) THEN [boxes EXCEPT ![c.target].name = c.to] ELSE boxes

Subscribed(c) == [boxes EXCEPT ![c.target].sub = ~@]

Served(c) ==
    IF c.op # "create" /\ c.target \notin DOMAIN boxes THEN boxes
    ELSE CASE c.op = "create" -> Created(c)
           [] c.op = "delete" -> Destroyed(c)
           [] c.op = "rename" -> Renamed(c)
           [] OTHER -> Subscribed(c)

\* What the command does with the answer (validate_email_mutation).  A creation goes on
\* below the mailbox just made: its id is in the answer.
Answered(c, ok) ==
    IF ~ok THEN Failed(c)
    ELSE IF c.op = "create" /\ Len(c.rest) > 1
         THEN [c EXCEPT !.parent = issued + 1, !.rest = Tail(@)]
         ELSE Idle

\* One Mailbox/set, or one POST, DELETE or PATCH, by which the server does (or refuses)
\* the change; the answer may be lost.
Set(p, lost) ==
    LET c == cmd[p]
        after == Served(c)
        news == IF DOMAIN boxes \subseteq DOMAIN after /\ c.op # "rename" THEN "made" ELSE "moved"
    IN
      /\ c.step = "set"
      /\ lost => faults < MaxFaults
      /\ faults' = IF lost THEN faults + 1 ELSE faults
      /\ boxes' = after
      /\ issued' = IF DOMAIN after \ DOMAIN boxes # {} THEN issued + 1 ELSE issued
      /\ cmd' = [q \in Process |->
            IF q = p THEN Answered(c, after # boxes /\ ~lost)
            ELSE IF after # boxes /\ cmd[q].step \in {"list", "set"}
                 THEN [cmd[q] EXCEPT !.meanwhile = @ \cup {news}]
                 ELSE cmd[q]]
      /\ UNCHANGED <<kind, started>>

\* The request does not reach the server, or the connection fails.
RequestLost(p) ==
    /\ cmd[p].step \in {"list", "set"} /\ faults < MaxFaults
    /\ faults' = faults + 1
    /\ cmd' = [cmd EXCEPT ![p] = Failed(@)]
    /\ UNCHANGED <<kind, boxes, issued, started>>

Next ==
    \E p \in Process :
        \/ \E path \in Path : \/ CreateFolder(p, path) \/ DeleteFolder(p, path) \/ SubscribeFolder(p, path)
                              \/ \E to \in Path : RenameFolder(p, path, to)
        \/ Retry(p) \/ List(p) \/ RequestLost(p)
        \/ \E lost \in BOOLEAN : Set(p, lost)

\* A process runs on; a user repeats a failed creation.
Fairness == \A p \in Process : WF_vars(Retry(p) \/ List(p) \/ Set(p, FALSE))

Spec == Init /\ [][Next]_vars /\ Fairness

----------------------------------------------------------------------------
(* The folder a path names.                                                *)

\* The names from the root down to mailbox m.
Ancestry(bx, m) ==
    LET names[n \in DOMAIN bx] ==
          IF bx[n].parent = None THEN <<bx[n].name>> ELSE Append(names[bx[n].parent], bx[n].name)
    IN  names[m]

\* The index keeps its rows under the path of a folder: no two mailboxes share one,
\* whatever characters their names have, and a path given back leads to the mailbox it
\* was listed for and to no other (or, where case alone tells two apart, to an error).
PathsNameOneMailbox ==
    kind = "jmap" =>
        LET paths == Paths(boxes) IN
          \A m \in DOMAIN boxes :
              /\ \A n \in DOMAIN boxes \ {m} : paths[m] # paths[n]
              /\ Split(paths[m]) = Ancestry(boxes, m)
              /\ ResolveMailbox(boxes, paths[m]) \in {m, None}

Touched == {m \in DOMAIN boxes : m \notin DOMAIN boxes' \/ boxes'[m] # boxes[m]}

\* What is called so, or, if nothing is, what has that role.
NamedBy(bx, path) == IF Called(bx, path) # {} THEN Called(bx, path) ELSE WithRole(bx, path)

TouchesTheNamed(p, m) ==
    LET c == cmd[p] IN
      /\ c.step = "set" /\ c.op # "create" /\ cmd'[p] # c
      /\ m \in NamedBy(boxes, c.path) \/ c.meanwhile # {}

Making(p) == cmd[p].op = "create"
Made(p) == Making(p) /\ cmd[p].step # "failed" /\ cmd'[p] = Idle

TouchesOnlyTheNamed == \A m \in Touched : \E p \in Process : TouchesTheNamed(p, m)
CreationsStand ==
    \A p \in Process :
        Made(p) => Called(boxes', cmd[p].path) # {} \/ "moved" \in cmd[p].meanwhile

\* Commands remove, rename or subscribe the folder that has the path the user gave; one
\* that is called so only as a role is touched if no folder has the path.  And a creation
\* that ends without an error leaves the folder there.  (Another command that comes between
\* the listing and the request may undo either.)
CommandsKeepToThePath == [][TouchesOnlyTheNamed /\ CreationsStand]_vars

\* A creation that is repeated until it succeeds comes to its end, also if another command
\* makes a part of the path at the same time, or an answer was lost after half of it was
\* made: a repetition takes up what is already there.
NoneIsMaking == \A p \in Process : ~Making(p)
EventuallyMade == <>[]NoneIsMaking
-----------------------------------------------------------------------------
(* Why a command touches what is named: it works with the mailbox that the   *)
(* listing had for the path, and whoever changes the folders in between is   *)
(* noticed in `meanwhile`.  A creation on Graph has nothing to list: the name *)
(* it sends is the path.                                                     *)

CommandFields == {"step", "op", "path", "to", "parent", "rest", "target", "meanwhile"}

FolderTypes ==
    /\ issued \in Nat /\ DOMAIN boxes \subseteq 1 .. issued
    /\ DOMAIN cmd = Process /\ \A p \in Process : DOMAIN cmd[p] = CommandFields

\* The command is about to send a request about a mailbox.
Aims(c) == c.step = "set" /\ c.op # "create"

AimInv == \A p \in Process :
    Aims(cmd[p]) /\ cmd[p].meanwhile = {} => cmd[p].target \in NamedBy(boxes, cmd[p].path)

GraphInv == \A p \in Process :
    kind = "graph" /\ Making(p) => /\ cmd[p].step \in {"set", "failed"}
                                   /\ cmd[p].parent = None /\ cmd[p].rest = <<cmd[p].path>>
=============================================================================
