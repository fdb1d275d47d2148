------------------------------- MODULE Threading -------------------------------
(***************************************************************************)
(* Message threading (JWZ): Threader::ingest and its caller set_threading. *)
(*                                                                         *)
(* Every Message-ID ever seen has a container; parent_id makes the         *)
(* containers a forest, root_id caches each container's root, and          *)
(* messages.thread_id caches root_id once more.  An ingest is a series of  *)
(* single SQLite statements with no transaction around them, and the       *)
(* daemon, the TUI and the command line may each be running one.           *)
(*                                                                         *)
(* One action is one statement.  Messages are identified by Message-ID     *)
(* and have one row; has_message, which nothing reads, is left out.        *)
(*                                                                         *)
(* A Message-ID has two forms.  Containers, References and thread_id hold  *)
(* the one that the message's own header parses to; messages.message_id    *)
(* holds what the listing said, which in an IMAP ENVELOPE and from Graph   *)
(* is still in angle brackets, and from JMAP and in an imported file is    *)
(* not.  A statement that looks rows up by Message-ID finds those alone    *)
(* whose two forms agree: byId.                                            *)
(***************************************************************************)
EXTENDS Naturals, Sequences, FiniteSets, SequencesExt

CONSTANTS
    Ids,         \* Message-IDs, of messages and of mere references
    None,        \* SQL NULL
    Absent,      \* no such row
    Ingesters,   \* processes that may ingest a message
    Mailboxes    \* the mailboxes considered, with what may happen to each:
                 \*   refs[m]: the References of m, oldest first
                 \*   inReplyTo[m]: one Message-ID or None
                 \*   byId: messages whose rows hold the Message-ID as containers do
                 \*   subject[m]: [norm |-> normalised subject, reply |-> Re: or Fwd:]
                 \*   deletable: messages whose rows may be deleted
                 \*   ingesters: how many processes ingest
                 \*   crashes: bound on how often one dies or loses the database

ASSUME MailboxesAssumption ==
    \A x \in Mailboxes :
        /\ x.refs \in [Ids -> Seq(Ids)] /\ x.inReplyTo \in [Ids -> Ids \cup {None}]
        /\ \A m \in Ids : x.subject[m].reply \in BOOLEAN
        /\ x.byId \subseteq Ids
        /\ x.deletable \subseteq Ids /\ x.ingesters \in Nat /\ x.crashes \in Nat
ASSUME FiniteAssumption == IsFiniteSet(Ids) /\ IsFiniteSet(Ingesters)
ASSUME NullsAssumption == None \notin Ids /\ Absent \notin Ids \cup {None}

VARIABLES
    box,        \* the mailbox: a member of Mailboxes
    parent,     \* parent[c]: parent_id of container c, or Absent
    root,       \* root[c]: its root_id
    norm,       \* norm[c]: its subject_norm
    order,      \* the containers in rowid order
    thread,     \* thread[m]: thread_id of the messages row of m, or Absent
    job,        \* job[i]: the ingest ingester i is carrying out
    ingested,   \* ghost: messages some ingest of which came to its end
    crashes     \* ghost: crashes so far

tree == <<parent, root, norm, order>>
threadVars == <<tree, thread, job, ingested, crashes, box>>

----------------------------------------------------------------------------
(* The forest. *)

Containers == {c \in Ids : parent[c] # Absent}

\* WITH RECURSIVE ancestors: c and everything above it; UNION ends on a cycle.
Ancestors(c) ==
    LET up[n \in 0..Cardinality(Ids)] ==
            IF n = 0 THEN {c}
            ELSE up[n - 1] \cup {parent[a] : a \in {x \in up[n - 1] : parent[x] \in Ids}}
    IN  up[Cardinality(Ids)]

WouldCreateCycle(node, proposed) == node \in Ancestors(proposed)

\* The roots find_root may return: at most one, none when c hangs below a cycle.
RootsAbove(c) == {a \in Ancestors(c) : parent[a] = None}

\* The containers of the subtrees whose tops are in the set tops.
Subtree(tops) == {c \in Containers : Ancestors(c) \cap tops # {}}

\* refs in order, then in_reply_to if it is not among them.
Chain(m) ==
    IF box.inReplyTo[m] = None \/ box.inReplyTo[m] \in ToSet(box.refs[m]) THEN box.refs[m]
    ELSE Append(box.refs[m], box.inReplyTo[m])

\* The pairs <<parent, child>> that ingest tries to link: consecutive ids of
\* the chain, then the last of them with the message.
Links(m) ==
    LET ids == Append(Chain(m), m)
    IN  [i \in 1..Len(ids) - 1 |-> <<ids[i], ids[i + 1]>>]

----------------------------------------------------------------------------
(* The messages table as threading sees it: apply_snapshot inserts rows      *)
(* with thread_id NULL and deletes them.                                     *)

Arrive(m) ==
    /\ thread[m] = Absent
    /\ thread' = [thread EXCEPT ![m] = None]
    /\ UNCHANGED <<tree, job, ingested, crashes, box>>

Expunge(m) ==
    /\ m \in box.deletable /\ thread[m] # Absent
    /\ thread' = [thread EXCEPT ![m] = Absent]
    /\ UNCHANGED <<tree, job, ingested, crashes, box>>

----------------------------------------------------------------------------
(* ingest *)

NoJob == [at |-> "idle", msg |-> None, norm |-> None, links |-> <<>>,
          link |-> <<>>, grouped |-> FALSE, root |-> None, old |-> None]

\* An ingester that takes no part in a behaviour.
Away == [NoJob EXCEPT !.at = "away"]
Present == {i \in Ingesters : job[i].at # "away"}

\* Ingester i goes on to step next.
Goto(i, next) == job' = [job EXCEPT ![i].at = next]

\* set_threading reads the subject; the row may be gone by now.
Begin(i, m) ==
    /\ job[i].at = "idle"
    /\ job' = [job EXCEPT ![i] =
            [NoJob EXCEPT !.at = "container", !.msg = m, !.links = Links(m),
                          !.norm = IF thread[m] = Absent THEN None ELSE box.subject[m].norm]]
    /\ UNCHANGED <<tree, thread, ingested, crashes, box>>

\* INSERT the containers in new that do not exist, each its own root.
Insert(new) ==
    LET fresh == {c \in new : parent[c] = Absent} IN
    /\ parent' = [c \in Ids |-> IF c \in fresh THEN None ELSE parent[c]]
    /\ root' = [c \in Ids |-> IF c \in fresh THEN c ELSE root[c]]

\* The ids of s that have no container yet, once each, in the order of s.
Missing(s) ==
    LET new[k \in 0..Len(s)] ==
            IF k = 0 THEN <<>>
            ELSE IF parent[s[k]] = Absent /\ s[k] \notin ToSet(new[k - 1])
                 THEN Append(new[k - 1], s[k]) ELSE new[k - 1]
    IN  new[Len(s)]

UpsertContainer(i) ==
    LET m == job[i].msg IN
    /\ job[i].at = "container"
    /\ Insert({m})
    /\ order' = IF parent[m] = Absent THEN Append(order, m) ELSE order
    /\ norm' = [norm EXCEPT ![m] = IF job[i].norm # None THEN job[i].norm ELSE @]
    /\ Goto(i, "placeholders")
    /\ UNCHANGED <<thread, ingested, crashes, box>>

AddPlaceholders(i) ==
    LET chain == Chain(job[i].msg) IN
    /\ job[i].at = "placeholders"
    /\ Insert(ToSet(chain))
    /\ order' = order \o Missing(chain)
    /\ Goto(i, "link")
    /\ UNCHANGED <<norm, thread, ingested, crashes, box>>

\* The next pair of the chain: only a child without a parent is linked.
LinkRead(i) ==
    /\ job[i].at = "link" /\ job[i].links # <<>>
    /\ LET link == Head(job[i].links) IN
       job' = [job EXCEPT ![i].links = Tail(@), ![i].link = link,
                          ![i].at = IF parent[link[2]] = None THEN "check" ELSE "link"]
    /\ UNCHANGED <<tree, thread, ingested, crashes, box>>

\* Mutant: no cycle check.
LinkUnchecked(i) ==
    /\ job[i].at = "check"
    /\ Goto(i, "write")
    /\ UNCHANGED <<tree, thread, ingested, crashes, box>>

LinkCheck(i) ==
    LET link == job[i].link
        go == ~WouldCreateCycle(link[2], link[1])
    IN
    /\ job[i].at = "check"
    /\ Goto(i, IF go THEN "write" ELSE IF job[i].grouped THEN "root" ELSE "link")
    /\ UNCHANGED <<tree, thread, ingested, crashes, box>>

LinkWrite(i) ==
    LET link == job[i].link IN
    /\ job[i].at = "write"
    /\ parent' = [parent EXCEPT ![link[2]] = link[1]]
    /\ Goto(i, IF job[i].grouped THEN "root" ELSE "link")
    /\ UNCHANGED <<root, norm, order, thread, ingested, crashes, box>>

\* Loose subject grouping: only for a message that still has no parent.
GroupRead(i) ==
    /\ job[i].at = "link" /\ job[i].links = <<>>
    /\ Goto(i, IF parent[job[i].msg] = None /\ job[i].norm # None THEN "group" ELSE "root")
    /\ UNCHANGED <<tree, thread, ingested, crashes, box>>

\* The oldest other root with the same subject; one of the two must be a reply.
\* The other's subject is read from its messages row, which may be gone or, as it is
\* looked up by Message-ID, not be found.
GroupFind(i) ==
    LET m == job[i].msg
        others == {k \in DOMAIN order :
                      order[k] # m /\ norm[order[k]] = job[i].norm /\ parent[order[k]] = None}
        oldest == order[CHOOSE k \in others : \A l \in others : k <= l]
        reply(c) == c \in box.byId /\ thread[c] # Absent /\ box.subject[c].reply
        grouped == others # {} /\ (box.subject[m].reply \/ reply(oldest))
    IN
    /\ job[i].at = "group"
    /\ job' = [job EXCEPT ![i].at = IF grouped THEN "check" ELSE "root",
                          ![i].grouped = grouped,
                          ![i].link = IF grouped THEN <<oldest, m>> ELSE @]
    /\ UNCHANGED <<tree, thread, ingested, crashes, box>>

\* Step 6.  Below a cycle there is no root, and ingest returns an error.
FindRoot(i) ==
    /\ job[i].at = "root"
    /\ IF RootsAbove(job[i].msg) = {}
       THEN job' = [job EXCEPT ![i] = NoJob]
       ELSE \E r \in RootsAbove(job[i].msg) :
                job' = [job EXCEPT ![i].at = "old", ![i].root = r]
    /\ UNCHANGED <<tree, thread, ingested, crashes, box>>

\* Mutant: = for #.
ReadOldRootInverted(i) ==
    LET old == root[job[i].msg] IN
    /\ job[i].at = "old"
    /\ job' = [job EXCEPT ![i].old = old,
                          ![i].at = IF old # job[i].root THEN "threads" ELSE "subtree"]
    /\ UNCHANGED <<tree, thread, ingested, crashes, box>>

\* Step 7.  The subtrees are rewritten only when the message's own root_id is
\* not the root that was found.
ReadOldRoot(i) ==
    LET old == root[job[i].msg] IN
    /\ job[i].at = "old"
    /\ job' = [job EXCEPT ![i].old = old,
                          ![i].at = IF old = job[i].root THEN "threads" ELSE "subtree"]
    /\ UNCHANGED <<tree, thread, ingested, crashes, box>>

SetRoot(cs, r) == root' = [c \in Ids |-> IF c \in cs THEN r ELSE root[c]]

RewriteSubtree(i) ==
    /\ job[i].at = "subtree"
    /\ SetRoot(Subtree({job[i].root}), job[i].root)
    /\ Goto(i, "oldtree")
    /\ UNCHANGED <<parent, norm, order, thread, ingested, crashes, box>>

RewriteOldTree(i) ==
    /\ job[i].at = "oldtree"
    /\ SetRoot(Subtree({c \in Containers : root[c] = job[i].old}), job[i].root)
    /\ Goto(i, "threads")
    /\ UNCHANGED <<parent, norm, order, thread, ingested, crashes, box>>

\* Mutant: step 8 is left out; set_threading still writes the message's own row.
ThreadNothing(i) ==
    /\ job[i].at = "threads"
    /\ Goto(i, "persist")
    /\ UNCHANGED <<tree, thread, ingested, crashes, box>>

\* Step 8: the rows, as far as they are found, of every message whose container has
\* this root_id.
ThreadMessages(i) ==
    /\ job[i].at = "threads"
    /\ thread' = [m \in Ids |->
            IF m \in box.byId /\ thread[m] # Absent /\ root[m] = job[i].root
            THEN job[i].root ELSE thread[m]]
    /\ Goto(i, "persist")
    /\ UNCHANGED <<tree, ingested, crashes, box>>

Persist(i) ==
    LET m == job[i].msg IN
    /\ job[i].at = "persist"
    /\ thread' = [thread EXCEPT ![m] = IF @ = Absent THEN @ ELSE job[i].root]
    /\ ingested' = ingested \cup {m}
    /\ job' = [job EXCEPT ![i] = NoJob]
    /\ UNCHANGED <<tree, crashes, box>>

\* The process dies or the database fails it: what was written stays.
Crash(i) ==
    /\ i \in Present /\ job[i].at # "idle"
    /\ crashes < box.crashes
    /\ crashes' = crashes + 1
    /\ job' = [job EXCEPT ![i] = NoJob]
    /\ UNCHANGED <<tree, thread, ingested, box>>

----------------------------------------------------------------------------
ThreadInit ==
    /\ box \in Mailboxes
    /\ parent = [c \in Ids |-> Absent]
    /\ root = [c \in Ids |-> None]
    /\ norm = [c \in Ids |-> None]
    /\ order = <<>>
    /\ thread = [m \in Ids |-> Absent]
    /\ \E cast \in SUBSET Ingesters :
        /\ Cardinality(cast) = box.ingesters
        /\ job = [i \in Ingesters |-> IF i \in cast THEN NoJob ELSE Away]
    /\ ingested = {}
    /\ crashes = 0

Step(i) ==
    \/ \E m \in Ids : Begin(i, m)
    \/ UpsertContainer(i)
    \/ AddPlaceholders(i)
    \/ LinkRead(i)
    \/ LinkCheck(i)
    \/ LinkWrite(i)
    \/ GroupRead(i)
    \/ GroupFind(i)
    \/ FindRoot(i)
    \/ ReadOldRoot(i)
    \/ RewriteSubtree(i)
    \/ RewriteOldTree(i)
    \/ ThreadMessages(i)
    \/ Persist(i)
    \/ Crash(i)

ThreadNext ==
    \/ \E m \in Ids : Arrive(m) \/ Expunge(m)
    \/ \E i \in Ingesters : Step(i)

ThreadSpec == ThreadInit /\ [][ThreadNext]_threadVars

----------------------------------------------------------------------------
(* Properties *)

Steps == {"away", "idle", "container", "placeholders", "link", "check", "write", "group",
          "root", "old", "subtree", "oldtree", "threads", "persist"}

Norms == {box.subject[m].norm : m \in Ids} \cup {None}
Jobs == [at : Steps, msg : Ids \cup {None}, norm : Norms, links : Seq(Ids \X Ids),
         link : (Ids \X Ids) \cup {<<>>}, grouped : BOOLEAN,
         root : Ids \cup {None}, old : Ids \cup {None}]

ThreadTypeOK ==
    /\ box \in Mailboxes
    /\ parent \in [Ids -> Ids \cup {None, Absent}]
    /\ root \in [Ids -> Ids \cup {None}] /\ \A c \in Ids : root[c] = None <=> c \notin Containers
    /\ norm \in [Ids -> Norms]
    /\ order \in Seq(Ids) /\ ToSet(order) = Containers
    /\ thread \in [Ids -> Ids \cup {None, Absent}]
    /\ job \in [Ingesters -> Jobs]
    /\ \A i \in Ingesters :
          /\ job[i].at \in {"away", "idle"} <=> job[i].msg = None
          /\ job[i].at \in {"check", "write"} => job[i].link # <<>>
          /\ job[i].at \in {"old", "subtree", "oldtree", "threads", "persist"} => job[i].root # None
    /\ ingested \subseteq Ids
    /\ crashes \in 0..box.crashes

Quiet == \A i \in Present : job[i].at = "idle"

\* Whatever References and subjects say, and wherever ingests break off,
\* parent_id never closes a cycle, so that find_root and the recursive queries
\* always find a root.  (Two processes that ingest at the same time may both
\* pass the check and close one.)
NoCycle ==
    Cardinality(Present) = 1 => \A c \in Containers : RootsAbove(c) # {}

\* References name the whole path from the first message of the conversation,
\* and no two messages look alike by their subjects.
FullReferences ==
    /\ \A m \in Ids : \A i \in DOMAIN box.refs[m] :
          box.refs[box.refs[m][i]] = SubSeq(box.refs[m], 1, i - 1)
    /\ \A m \in Ids : box.inReplyTo[m] = None
    /\ \A m, n \in Ids : box.subject[m].norm = box.subject[n].norm => m = n

\* Between ingests the two caches agree, although one ingest moves whole subtrees: a
\* message that has a thread_id, and a row that is found by its Message-ID, has the
\* root_id of its container as thread_id (a crash between the statements that move a
\* subtree breaks that).  And arrival order does not matter: with full References, the
\* parent, the root_id and the thread_id of every message that was ingested are what
\* References say, whatever the form its row's Message-ID has, even if several
\* processes ingest at the same time and some of them die.
SettledThreads ==
    /\ Quiet /\ crashes = 0 => \A m \in box.byId : thread[m] \in Ids => thread[m] = root[m]
    /\ FullReferences =>
          \A m \in ingested :
              LET path == Append(box.refs[m], m) IN
              /\ root[m] = Head(path)
              /\ parent[m] = IF Len(path) = 1 THEN None ELSE path[Len(path) - 1]
              /\ thread[m] \in {Absent, None, Head(path)}

\* As step 8 of ingest says of itself, "update messages.thread_id for every message
\* under the new root": the caches of every row agree between ingests of one process.
RowsFollowRoots ==
    Quiet /\ crashes = 0 => \A m \in Ids : thread[m] \in Ids => thread[m] = root[m]

\* Containers are never deleted, so that what an ingest has inserted is still there
\* when it links, whoever else is at work.
Mentioned(m) == ToSet(Chain(m)) \cup {m}

ContainersInv ==
    /\ \A c \in Containers : parent[c] \in Containers \cup {None}
    /\ \A i \in Ingesters : LET j == job[i] IN
          /\ \A link \in ToSet(j.links) : {link[1], link[2]} \subseteq Mentioned(j.msg)
          /\ j.at \notin {"away", "idle", "container"} => j.msg \in Containers
          /\ j.at \notin {"away", "idle", "container", "placeholders"} =>
                Mentioned(j.msg) \subseteq Containers
          /\ j.at \in {"check", "write"} => {j.link[1], j.link[2]} \subseteq Containers

\* What one process alone has read of the forest is still so when it writes.
ForestInv ==
    \A i \in Ingesters : Present = {i} => LET j == job[i] IN
        /\ \A c \in Containers : RootsAbove(c) # {}
        /\ j.at = "group" => parent[j.msg] = None
        /\ j.at \in {"check", "write"} => parent[j.link[2]] = None
        /\ j.at = "write" => ~WouldCreateCycle(j.link[2], j.link[1])

\* One process alone: a thread_id is behind only while a subtree is being moved, and
\* then it is one of those that the next statements will write.
Alone == \A i, k \in Present : i = k

CachesInv ==
    Alone /\ crashes = 0 =>
        /\ \A m \in box.byId : thread[m] \in Ids =>
              \/ thread[m] = root[m]
              \/ \E i \in Present : job[i].at \in {"oldtree", "threads"} /\ root[m] = job[i].root
        /\ \A i \in Present : LET j == job[i] IN
              /\ j.at \in {"old", "subtree"} => j.root \in Ancestors(j.msg)
              /\ j.at \in {"oldtree", "threads", "persist"} => root[j.msg] = j.root

\* Full References: the message before c in its conversation, and the first of it.
Preceding(c) == IF box.refs[c] = <<>> THEN None ELSE box.refs[c][Len(box.refs[c])]
First(c) == Head(Append(box.refs[c], c))

\* The links an ingest has yet to make.
Pending(j) == ToSet(j.links) \cup (IF j.at \in {"check", "write"} THEN {j.link} ELSE {})

\* Every link leads from the message before; a message is moved only to the first of
\* its conversation; and an ingest goes on to the roots with nothing left to link.
PathInv ==
    FullReferences =>
        /\ \A c \in Ids : parent[c] \in {Absent, None, Preceding(c)}
        /\ \A c \in Containers : root[c] \in Mentioned(c)
        /\ \A c \in Ids : norm[c] \in {None, box.subject[c].norm}
        /\ \A m \in Ids : thread[m] \in Ids => thread[m] = First(m) /\ root[m] = First(m)
        /\ \A m \in ingested : parent[m] = Preceding(m) /\ root[m] = First(m)
        /\ \A i \in Ingesters : LET j == job[i] IN j.at \notin {"away", "idle"} =>
              /\ j.norm \in {None, box.subject[j.msg].norm} /\ ~j.grouped
              /\ j.at = "group" => j.norm # None
              /\ \A link \in Pending(j) : link[1] = Preceding(link[2])
              /\ \A c \in Mentioned(j.msg) :
                    \/ <<Preceding(c), c>> \in Pending(j)
                    \/ Preceding(c) = None /\ j.at \in {"container", "placeholders"}
                    \/ parent[c] = Preceding(c)
              /\ j.at \notin {"container", "placeholders", "link", "check", "write"} => Pending(j) = {}
              /\ j.at \in {"old", "subtree", "oldtree", "threads", "persist"} => j.root = First(j.msg)
              /\ j.at \in {"subtree", "oldtree"} => j.old \in Mentioned(j.msg)
              /\ j.at \in {"oldtree", "threads", "persist"} => root[j.msg] = j.root
================================================================================
