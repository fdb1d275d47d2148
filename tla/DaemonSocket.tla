----------------------------- MODULE DaemonSocket -----------------------------
(***************************************************************************)
(* Starting and stopping inbx-sync: the socket file.                       *)
(*                                                                         *)
(* A daemon that starts connects to the path first.  If somebody answers   *)
(* it gives up; otherwise it unlinks what is there and binds.  A daemon    *)
(* that stops unlinks the path; one that crashes leaves its file behind.   *)
(* Between its system calls others run, and only the file system and the   *)
(* sockets are shared.  A file is named by the daemon that bound it.       *)
(***************************************************************************)
EXTENDS Naturals

CONSTANTS
    Daemons,     \* processes that may run inbx-sync
    Nobody,      \* no file: not one of Daemons
    MaxCrashes,  \* bound: crashes
    MaxSilent    \* bound: probes that a live daemon does not answer

ASSUME NobodyAssumption == Nobody \notin Daemons
ASSUME CrashesAssumption == MaxCrashes \in Nat /\ MaxSilent \in Nat

VARIABLES
    file,    \* the daemon whose socket the path names
    pc,      \* pc[d]: where d is
    crashes, silent,  \* ghosts: counters for the bounds
    raced    \* ghost: a start or stop has overlapped with another one

counters == <<crashes, silent, raced>>
socketVars == <<file, pc, counters>>

Listening(d) == pc[d] \in {"serve", "stop"}
Starting(d) == pc[d] \in {"probe", "check", "unlink", "bind", "listen"}
Stopping(d) == pc[d] \in {"stop", "cleanup"}

Alone(d) == \A o \in Daemons \ {d} : ~Starting(o) /\ ~Stopping(o)

\* A start or stop begins, perhaps while another one is under way.
Begin(d) == raced' = (raced \/ ~Alone(d)) /\ UNCHANGED <<crashes, silent>>

Goto(d, label) == pc' = [pc EXCEPT ![d] = label]

----------------------------------------------------------------------------
Start(d) ==
    /\ pc[d] = "off"
    /\ Begin(d)
    /\ Goto(d, "probe")
    /\ UNCHANGED file

\* Mutant: nobody is asked.
ProbeNobody(d) ==
    /\ pc[d] = "probe"
    /\ Goto(d, "check")
    /\ UNCHANGED <<file, counters>>

\* connect, which a listening socket's backlog answers.
Probe(d) ==
    /\ pc[d] = "probe"
    /\ Goto(d, IF file # Nobody /\ Listening(file) THEN "off" ELSE "check")
    /\ UNCHANGED <<file, counters>>

\* A live daemon whose backlog is full, or the 250 ms are over.
ProbeUnanswered(d) ==
    /\ pc[d] = "probe"
    /\ silent < MaxSilent
    /\ silent' = silent + 1
    /\ Goto(d, "check")
    /\ UNCHANGED <<file, crashes, raced>>

\* Mutant: the stale file is left to bind.
CheckNothing(d) ==
    /\ pc[d] = "check"
    /\ Goto(d, "bind")
    /\ UNCHANGED <<file, counters>>

Check(d) ==
    /\ pc[d] = "check"
    /\ Goto(d, IF file = Nobody THEN "bind" ELSE "unlink")
    /\ UNCHANGED <<file, counters>>

\* remove_file; an error ends the start.
Unlink(d) ==
    /\ pc[d] = "unlink"
    /\ file' = Nobody
    /\ Goto(d, IF file = Nobody THEN "off" ELSE "bind")
    /\ UNCHANGED counters

\* bind(2), which an existing file fails.
Bind(d) ==
    /\ pc[d] = "bind"
    /\ IF file = Nobody
       THEN file' = d /\ Goto(d, "listen")
       ELSE Goto(d, "off") /\ UNCHANGED file
    /\ UNCHANGED counters

\* listen(2), and the permissions; they fail when the path is gone.
Listen(d) ==
    /\ pc[d] = "listen"
    /\ Goto(d, IF file = Nobody THEN "off" ELSE "serve")
    /\ UNCHANGED <<file, counters>>

\* Drop for Server: the aborted accept loop closes the socket, and whatever
\* file is at the path is removed, in either order.
Stop(d) ==
    /\ pc[d] = "serve"
    /\ Begin(d)
    /\ Goto(d, "stop")
    /\ UNCHANGED file

Close(d) ==
    /\ pc[d] = "stop"
    /\ Goto(d, "cleanup")
    /\ UNCHANGED <<file, counters>>

Cleanup(d) ==
    /\ pc[d] \in {"stop", "cleanup"}
    /\ file' = Nobody
    /\ Goto(d, "off")
    /\ UNCHANGED counters

Crash(d) ==
    /\ pc[d] # "off"
    /\ crashes < MaxCrashes
    /\ crashes' = crashes + 1
    /\ Goto(d, "off")
    /\ UNCHANGED <<file, silent, raced>>

----------------------------------------------------------------------------
SocketInit ==
    /\ file = Nobody
    /\ pc = [d \in Daemons |-> "off"]
    /\ crashes = 0 /\ silent = 0 /\ raced = FALSE

StartStep(d) == Probe(d) \/ Check(d) \/ Unlink(d) \/ Bind(d) \/ Listen(d)
StopStep(d) == Close(d) \/ Cleanup(d)

SocketNext == \E d \in Daemons :
    \/ Start(d) \/ StartStep(d) \/ ProbeUnanswered(d)
    \/ Stop(d) \/ StopStep(d) \/ Crash(d)

SocketSpec == SocketInit /\ [][SocketNext]_socketVars

----------------------------------------------------------------------------
(* Properties *)

Labels == {"off", "probe", "check", "unlink", "bind", "listen", "serve", "stop", "cleanup"}

SocketTypeOK ==
    /\ file \in Daemons \cup {Nobody}
    /\ pc \in [Daemons -> Labels]
    /\ crashes \in 0..MaxCrashes /\ silent \in 0..MaxSilent
    /\ raced \in BOOLEAN

\* Without an overlap one daemon at a time starts or stops, and what it has seen of
\* the path is still so.
TurnInv ==
    ~raced =>
        /\ \A d \in Daemons : Starting(d) \/ Stopping(d) => Alone(d)
        /\ \A d \in Daemons :
              /\ pc[d] = "unlink" => file # Nobody
              /\ pc[d] = "bind" => file = Nobody
              /\ pc[d] = "listen" => file = d

\* When live daemons answer too: whoever is past the probe, or stops, is the only
\* one that may listen.
ServerInv ==
    silent = 0 /\ ~raced =>
        /\ \A d \in Daemons : pc[d] = "serve" => file = d
        /\ \A d \in Daemons :
              pc[d] \notin {"off", "probe"} => \A o \in Daemons \ {d} : ~Listening(o)

\* As long as no start or stop overlapped with another and live daemons answered,
\* one daemon serves at a time, whoever crashed wherever and left its file, and the
\* clients find it at the path.
OneReachableServer ==
    silent = 0 /\ ~raced =>
        /\ \A d, o \in Daemons : Listening(d) /\ Listening(o) => d = o
        /\ \A d \in Daemons : pc[d] = "serve" => file = d

\* The file of a crashed daemon keeps nobody from starting: no attempt fails while no
\* other daemon runs, unless overlapping starts have unlinked each other's files.
StartSucceeds ==
    [][\A d \in Daemons : Starting(d) /\ pc'[d] = "off" /\ crashes' = crashes
          => raced \/ \E o \in Daemons \ {d} : pc[o] # "off"]_socketVars
================================================================================
