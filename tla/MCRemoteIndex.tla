---------------------------- MODULE MCRemoteIndex ----------------------------
(***************************************************************************)
(* One run for what is particular to JMAP and Graph accounts: indexes of   *)
(* opaque ids, and Graph's delta links.  The two modules look at different *)
(* steps of a sync and share no state, so a behaviour is one of a single   *)
(* part, and the other stays in an initial state of its own.               *)
(***************************************************************************)
EXTENDS OpaqueIndex

CONSTANTS
    id1, id2, mid1, mid2,   \* the ids and Message-IDs of the run
    Casts, Starts,          \* DeltaLink's, which looks at every provider
    MaxLinkEvents           \* DeltaLink's MaxEvents

ASSUME StartsAssumption == Starts \subseteq SUBSET Ids
ASSUME LinkBoundAssumption == MaxLinkEvents \in Nat

TwoIds == {id1, id2}
SameMids == [id \in TwoIds |-> mid1]
OwnMids == [id \in TwoIds |-> IF id = id1 THEN mid1 ELSE mid2]
OwnOrSame == {OwnMids, SameMids}
Both == {"jmap", "graph"}
OneMessage == {{id1}}
FetchAloneAndOthers == {{"fetch"}, {"daemon", "tui", "manual"}, {"watch", "fetch"}}

\* Nothing; rows of one message under either old uid; a row with its id; and
\* three rows of one message that claim its canonical uid.
LegacyRows ==
    {{},
     {Row(Low(id1), NoId, id1, id1, {}), Row(Xor(id1, 1), NoId, id1, NoId, {})},
     {Row(Low(id1), id1, id1, id1, {}), Row(Xor(id2, 1), NoId, id2, id2, {})},
     {Row(Low(id1), id1, id1, id1, {}), Row(Canon(id1), NoId, id1, id1, {}), Row(Xor(id1, 1), NoId, id1, id1, {})}}

VARIABLES
    part,
    transport, cast, log, oldest, index, link, link_proc, link_events, orphans   \* DeltaLink

Delta == INSTANCE DeltaLink WITH
    Transports <- Providers, MaxEvents <- MaxLinkEvents,
    proc <- link_proc, events <- link_events

linkVars == <<transport, cast, log, oldest, index, link, link_proc, link_events, orphans>>
allVars == <<part, vars, linkVars>>

RemoteInit ==
    /\ part \in {"opaque", "delta"}
    /\ Init /\ Delta!Init
    /\ part # "opaque" => /\ provider = "jmap" /\ totals /\ midOf = SameMids
                          /\ mailbox = <<>> /\ rows = {}
    /\ part # "delta" => transport = "jmap"

RemoteNext ==
    \/ part = "opaque" /\ Next /\ UNCHANGED <<part, linkVars>>
    \/ part = "delta" /\ Delta!Next /\ UNCHANGED <<part, vars>>

\* The fairness of each part.
RemoteFairness ==
    /\ WF_vars(part = "opaque" /\ List(Daemon))
    /\ WF_proc(part = "opaque" /\ Answered(Daemon))
    /\ WF_vars(part = "opaque" /\ FetchBodies)
    /\ \A p \in {"daemon", "watch"} :
          WF_linkVars(part = "delta" /\ Delta!Sync(p)) /\ WF_linkVars(part = "delta" /\ Delta!Wait(p))
    /\ WF_linkVars(part = "delta" /\ Delta!PollTimer)

RemoteSpec == RemoteInit /\ [][RemoteNext]_allVars /\ RemoteFairness

-----------------------------------------------------------------------------
(* Properties: those of the parts, in the behaviours of the part.          *)

\* Where only `inbx graph fetch` moves the link, the index agrees with the
\* server about every message that has not changed since the link, whichever
\* fetch failed half-way.
LinkCoversIndex == part = "delta" => Delta!LinkCoversIndex

\* In the end the index lists exactly the folder's messages and has the body of
\* each: unless a row that nothing resolves fails every download, or two rows of an
\* older release claim one canonical uid and fail every transaction, or a JMAP server
\* gives no total.  And whoever moves the link, a daemon or an `inbx watch` brings the
\* index to what the folder holds: although both store the link before they sync.
IndexCatchesUp ==
    <>[](/\ part = "opaque" /\ totals => Exact \/ Stuck
         /\ part = "delta" /\ cast \cap {"daemon", "watch"} # {} => index = Delta!Mailbox)

\* "A complete snapshot walks every query page", as the JMAP transport says of itself,
\* and README.md that JMAP accounts work: the index of every account catches up, what-
\* ever its server gives unasked.
EveryAccountCatchesUp == <>[](part = "opaque" => Exact \/ Stuck)
=============================================================================
