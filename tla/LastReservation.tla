-------------------------- MODULE LastReservation --------------------------
(***************************************************************************)
(* What the snapshot generations promise, without generations: for each    *)
(* folder at most one worker holds the right to publish.  Claiming the     *)
(* folder takes the right from whoever held it; a worker looks at the      *)
(* server only after it claimed, and publishing what it saw uses the right *)
(* up.  view[f] is the server version the published copy of f shows.       *)
(***************************************************************************)
EXTENDS Naturals

CONSTANTS Folders, Workers, None   \* None is neither a folder nor a worker

VARIABLES
    now,      \* the server's version
    work,     \* work[w]: the folder w has claimed, or None
    looked,   \* looked[w]: whether w has looked at the server since
    seen,     \* seen[w]: the version it saw
    holder,   \* holder[f]: the worker that may publish f, or None
    view      \* view[f]: the published version

avars == <<now, work, looked, seen, holder, view>>

Init ==
    /\ now = 0
    /\ work = [w \in Workers |-> None]
    /\ looked = [w \in Workers |-> FALSE]
    /\ seen = [w \in Workers |-> 0]
    /\ holder = [f \in Folders |-> None]
    /\ view = [f \in Folders |-> 0]

Tick == now' = now + 1 /\ UNCHANGED <<work, looked, seen, holder, view>>

Claim(w, f) ==
    /\ work[w] = None
    /\ work' = [work EXCEPT ![w] = f]
    /\ holder' = [holder EXCEPT ![f] = w]
    /\ UNCHANGED <<now, looked, seen, view>>

Look(w) ==
    /\ work[w] # None /\ ~looked[w]
    /\ looked' = [looked EXCEPT ![w] = TRUE]
    /\ seen' = [seen EXCEPT ![w] = now]
    /\ UNCHANGED <<now, work, holder, view>>

Done(w) ==
    /\ work' = [work EXCEPT ![w] = None]
    /\ looked' = [looked EXCEPT ![w] = FALSE]
    /\ seen' = [seen EXCEPT ![w] = 0]
    /\ holder' = [f \in Folders |-> IF holder[f] = w THEN None ELSE holder[f]]
    /\ UNCHANGED now

Publish(w, f) ==
    /\ looked[w] /\ work[w] = f /\ holder[f] = w
    /\ view' = [view EXCEPT ![f] = seen[w]]
    /\ Done(w)

GiveUp(w) ==
    /\ work[w] # None
    /\ Done(w)
    /\ UNCHANGED view

Next ==
    \/ Tick
    \/ \E w \in Workers :
          \/ Look(w)
          \/ GiveUp(w)
          \/ \E f \in Folders : Claim(w, f) \/ Publish(w, f)

Spec == Init /\ [][Next]_avars
=============================================================================
