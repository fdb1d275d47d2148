----------------------------- MODULE MCThreading -----------------------------
(***************************************************************************)
(* One run for conversations: how inbx threads what it finds in mailboxes, *)
(* and how it writes the headers that tie them together.  The two modules  *)
(* share no state, so a behaviour is one of a single part: the threading   *)
(* of a mailbox; short conversations of three people whose servers keep    *)
(* copies by themselves or not; longer ones of two, by SMTP.               *)
(***************************************************************************)
EXTENDS Threading, Submission

CONSTANTS a, b, c, daemon, tui, ann, bob, eve

TwoIngesters == {daemon, tui}
Interchangeable == Permutations(TwoIngesters) \cup Permutations({ann, bob})
ThreeIds == {a, b, c}

\* A conversation whose References name the whole path, each message with a
\* subject of its own, ingested by two processes at once; an IMAP mailbox, into which
\* b was imported.
Trail ==
    [refs |-> [m \in Ids |-> CASE m = a -> <<>> [] m = b -> <<a>> [] OTHER -> <<a, b>>],
     inReplyTo |-> [m \in Ids |-> None], byId |-> {b},
     subject |-> [m \in Ids |-> [norm |-> m, reply |-> FALSE]],
     deletable |-> {}, ingesters |-> 2, crashes |-> 0]

\* References in a circle of three; c answers a message its References leave
\* out; one subject, of which only c is marked as a reply.  A JMAP mailbox.
Circle ==
    [refs |-> [m \in Ids |-> CASE m = a -> <<b>> [] m = b -> <<c>> [] OTHER -> <<a>>],
     inReplyTo |-> [m \in Ids |-> IF m = c THEN b ELSE None], byId |-> Ids,
     subject |-> [m \in Ids |-> [norm |-> a, reply |-> m = c]],
     deletable |-> Ids, ingesters |-> 1, crashes |-> 1]

\* The same in an IMAP mailbox, into which nothing was imported.
ImapCircle == [Circle EXCEPT !.byId = {}]

TrailAndCircles == {Trail, Circle, ImapCircle}
JustImap == {ImapCircle}

\* Bound: messages among three people.  Two write up to MaxMessages.
MaxInCrowd == 2

VARIABLE part

allVars == <<part, threadVars, submissionVars>>

ConversationsInit ==
    /\ ThreadInit /\ SubmissionInit
    /\ \/ part = "threads" /\ transport = "jmap"
       \/ part = "crowd" /\ transport # "imap"
       \/ part = "pair" /\ transport = "imap"
    /\ part # "threads" => box = Trail /\ job[daemon] # Away

ConversationsNext ==
    \/ part = "threads" /\ ThreadNext /\ UNCHANGED <<part, submissionVars>>
    \/ /\ part = "crowd" /\ SubmissionNext /\ UNCHANGED <<part, threadVars>>
       /\ Len(mail) < MaxInCrowd \/ desk' = NoDraft
    \/ part = "pair" /\ Correspondence({ann, bob}, {"to"}) /\ UNCHANGED <<part, threadVars>>

ConversationsSpec == ConversationsInit /\ [][ConversationsNext]_allVars
=============================================================================
