------------------------------ MODULE MCSyncers ------------------------------
(***************************************************************************)
(* One run for four casts: all three kinds of syncer on one folder with    *)
(* two messages, without user commands; the daemon with a user, on two     *)
(* folders of which one comes and goes, the daemon syncing twice; the same *)
(* two when the user imports messages; and `inbx fetch` with a user who    *)
(* imports into a folder of two messages and moves them.  Whoever is not   *)
(* in the cast takes no step.                                              *)
(***************************************************************************)
EXTENDS MCSnapshotStore

VARIABLE cast

Together == [players |-> {daemon, tui, cli}, folders |-> {inbox}, uids |-> {1, 2},
             reserves |-> 1, ver |-> 3, ops |-> {}]
Reconciled == [players |-> {daemon, user}, folders |-> {inbox, work}, uids |-> {1},
               reserves |-> 2, ver |-> 2, ops |-> {"mark", "move", "expunge"}]
Archived == [players |-> {daemon, user}, folders |-> {inbox, work}, uids |-> {1},
             reserves |-> 2, ver |-> 1, ops |-> {"import"}]
Wiped == [players |-> {cli, user}, folders |-> {inbox}, uids |-> {1, 2},
          reserves |-> 1, ver |-> 2, ops |-> {"import", "move"}]

InCast ==
    /\ ver <= cast.ver
    /\ exists \subseteq cast.folders
    /\ \A f \in Folders : UidsOf(mbox[f]) \subseteq cast.uids /\ UidsOf(Imported(f)) \subseteq {1}
    /\ \A s \in Syncers :
          /\ s \notin cast.players => pc[s] = "idle"
          /\ fold[s] \in cast.folders /\ issued[s] <= cast.reserves
    /\ \A m \in Mutators :
          mut[m] # IdleMutator => m \in cast.players /\ mut[m].op \in cast.ops

CastInit == Init /\ cast \in {Together, Reconciled, Archived, Wiped} /\ InCast
CastNext == Next /\ UNCHANGED cast /\ InCast'
CastSpec == CastInit /\ [][CastNext]_<<vars, cast>>
==============================================================================
