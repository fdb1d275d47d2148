------------------------------- MODULE MCDaemon -------------------------------
(***************************************************************************)
(* One run for the daemon: how its events reach the TUI, for a daemon of   *)
(* the TUI's account alone or of a second one whose events share the ring; *)
(* and how three daemons start, stop and crash around one socket file.     *)
(* The two modules share no state, so a behaviour is one of a single part, *)
(* and the other stays in its initial state.                               *)
(***************************************************************************)
EXTENDS SyncEvents, DaemonSocket

VARIABLE part

allVars == <<part, vars, socketVars>>

DaemonInit ==
    /\ part \in {"events", "socket"}
    /\ Init /\ SocketInit
    /\ part = "socket" => Served = {Me}

DaemonNext ==
    \/ part = "events" /\ Next /\ UNCHANGED <<part, socketVars>>
    \/ part = "socket" /\ SocketNext /\ UNCHANGED <<part, vars>>

\* That of SyncEvents; nothing about the socket needs any.
DaemonFairness ==
    /\ \A t \in Tasks : SF_vars(part = "events" /\ LoopStep(t))
    /\ SF_vars(part = "events" /\ LinkStep)
    /\ WF_vars(part = "events" /\ Connect)
    /\ WF_vars(part = "events" /\ Load)
    /\ WF_vars(part = "events" /\ HandleTask)
    /\ WF_vars(part = "events" /\ ManualFetch)
    /\ WF_vars(part = "events" /\ ManualApply)

DaemonSpec == DaemonInit /\ [][DaemonNext]_allVars /\ DaemonFairness
=============================================================================
