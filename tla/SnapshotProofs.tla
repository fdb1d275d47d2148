--------------------------- MODULE SnapshotProofs ---------------------------
(* Theorems about SnapshotStore, for every number of folders, syncers and  *)
(* mutators and every bound.                                               *)
EXTENDS SnapshotStore, TLAPS

\* Every variable keeps its type.
THEOREM TypeCorrect == Spec => []TypeOK
<1>1. Init => TypeOK
  BY PermanentAssumption, DeletedAssumption, UidsAssumption
  DEF Init, TypeOK, NoRow, FolderRows, NoSnapshot, Snapshots, IdleMutator, MutatorStates, Commands, Tokens
<1>2. TypeOK /\ [Next]_vars => TypeOK'
  <2> SUFFICES ASSUME TypeOK, [Next]_vars PROVE TypeOK'
    OBVIOUS
  <2> USE PermanentAssumption, UidsAssumption, DeletedAssumption
  <2>1. ASSUME NEW f \in Folders, Deliver(f) PROVE TypeOK'
    BY <2>1 DEF Deliver, Changed, TypeOK, Messages, store, process, ghosts
  <2>2. ASSUME NEW f \in Folders, RemoteExpunge(f) PROVE TypeOK'
    BY <2>2 DEF RemoteExpunge, Changed, TypeOK, store, process, ghosts
  <2>3. ASSUME NEW f \in Folders, ResetUidvalidity(f) PROVE TypeOK'
    BY <2>3 DEF ResetUidvalidity, Changed, TypeOK, store, process, ghosts
  <2>4. ASSUME NEW f \in Folders, RemoveFolder(f) PROVE TypeOK'
    BY <2>4 DEF RemoveFolder, Changed, TypeOK, store, process, ghosts
  <2>5. ASSUME NEW f \in Folders, CreateFolder(f) PROVE TypeOK'
    BY <2>5 DEF CreateFolder, Changed, TypeOK, store, process, ghosts
  <2>6. ASSUME NEW s \in Syncers, NEW f \in Folders, Start(s, f) PROVE TypeOK'
    BY <2>6 DEF Start, TypeOK, server, store, ghosts
  <2>7. ASSUME NEW s \in Syncers, ListFolders(s) PROVE TypeOK'
    BY <2>7 DEF ListFolders, TypeOK, server, store, ghosts
  <2>8. ASSUME NEW s \in Syncers, ReconcileFolders(s) PROVE TypeOK'
    BY <2>8 DEF ReconcileFolders, TypeOK, server, NoRow, FolderRows
  <2>9. ASSUME NEW s \in Syncers, UpsertFolder(s) PROVE TypeOK'
    <3>1. row' \in [Folders -> FolderRows]
      <4>1. CASE listing[s] = {}
        BY <2>9, <4>1 DEF UpsertFolder, TypeOK
      <4>2. CASE listing[s] # {}
        <5>1. PICK f \in listing[s] : row' = [row EXCEPT ![f].present = TRUE]
          BY <2>9, <4>2 DEF UpsertFolder
        <5>2. f \in Folders
          BY <5>1 DEF TypeOK
        <5>3. row[f] \in FolderRows
          BY <5>2 DEF TypeOK
        <5>4. [row[f] EXCEPT !.present = TRUE] \in FolderRows
          BY <5>3 DEF FolderRows
        <5>5. row' = [row EXCEPT ![f] = [row[f] EXCEPT !.present = TRUE]]
          BY <5>1
        <5>6. QED
          BY <5>2, <5>4, <5>5 DEF TypeOK
      <4>3. QED
        BY <4>1, <4>2
    <3>2. pc' \in [Syncers -> {"idle", "list", "record", "reserve", "fetch", "apply"}]
      <4>1. CASE listing[s] = {}
        BY <2>9, <4>1 DEF UpsertFolder, TypeOK
      <4>2. CASE listing[s] # {}
        BY <2>9, <4>2 DEF UpsertFolder, TypeOK
      <4>3. QED
        BY <4>1, <4>2
    <3>3. listing' \in [Syncers -> SUBSET Folders]
      BY <2>9 DEF UpsertFolder, TypeOK
    <3>4. QED
      BY <2>9, <3>1, <3>2, <3>3 DEF UpsertFolder, TypeOK, server, ghosts
  <2>10. ASSUME NEW s \in Syncers, Reserve(s) PROVE TypeOK'
    <3>1. fold[s] \in Folders /\ issued[s] + 1 \in Nat /\ row[fold[s]].reserved \in Nat
      BY DEF TypeOK, FolderRows
    <3>2. row' = [row EXCEPT ![fold[s]] =
                    [row[fold[s]] EXCEPT !.present = TRUE, !.reserved = @ + 1]]
      BY <2>10 DEF Reserve
    <3>3. row' \in [Folders -> FolderRows]
      <4>1. row[fold[s]] \in FolderRows /\ row[fold[s]].reserved + 1 \in Nat
        BY <3>1 DEF TypeOK
      <4>2. [row[fold[s]] EXCEPT !.present = TRUE, !.reserved = row[fold[s]].reserved + 1]
              \in FolderRows
        BY <4>1 DEF FolderRows
      <4>3. QED
        BY <3>1, <3>2, <4>2 DEF TypeOK
    <3>4. latest' \in [Folders -> Tokens \cup {NoToken}]
      BY <2>10, <3>1 DEF Reserve, TypeOK, Tokens
    <3>5. QED
      BY <2>10, <3>1, <3>3, <3>4 DEF Reserve, TypeOK, server
  <2>11. ASSUME NEW s \in Syncers, FetchHeaders(s) PROVE TypeOK'
    BY <2>11 DEF FetchHeaders, FetchAs, TypeOK, server, store, ghosts, Snapshots
  <2>12. ASSUME NEW s \in Syncers, FetchSince(s) PROVE TypeOK'
    BY <2>12 DEF FetchSince, FetchAs, TypeOK, server, store, ghosts, Snapshots
  <2>13. ASSUME NEW s \in Syncers, ApplySnapshot(s) PROVE TypeOK'
    <3> DEFINE f == fold[s]
               sn == snap[s]
    <3>1. f \in Folders /\ sn \in Snapshots /\ gen[s] \in Nat
      BY DEF TypeOK
    <3>2. Surviving(f, sn.uv) \in SUBSET StoredRows
      BY <3>1 DEF TypeOK, Surviving
    <3>3. {[uid |-> m.uid, uv |-> sn.uv, flags |-> m.flags] : m \in sn.msgs} \in SUBSET StoredRows
      BY <3>1 DEF Snapshots, Messages, StoredRows
    <3>4. Pruned(Upserted(Surviving(f, sn.uv), sn), sn) \in SUBSET StoredRows
      BY <3>2, <3>3 DEF Pruned, Upserted
    <3>5. rows' \in [Folders -> SUBSET StoredRows]
      BY <2>13, <3>1, <3>4 DEF ApplySnapshot, TypeOK
    <3>6. row' = [row EXCEPT ![f] =
                    [row[f] EXCEPT !.known = TRUE, !.uv = sn.uv, !.snap = gen[s]]]
      BY <2>13 DEF ApplySnapshot
    <3>7. row' \in [Folders -> FolderRows]
      <4>1. row[f] \in FolderRows /\ sn.uv \in Nat
        BY <3>1 DEF TypeOK, Snapshots
      <4>2. [row[f] EXCEPT !.known = TRUE, !.uv = sn.uv, !.snap = gen[s]] \in FolderRows
        BY <3>1, <4>1 DEF FolderRows
      <4>3. QED
        BY <3>1, <3>6, <4>2 DEF TypeOK
    <3>8. {<<sn.uv, m.uid>> : m \in NewRows(f, sn)} \in SUBSET (Nat \X Uids)
      BY <3>1 DEF NewRows, Snapshots, Messages
    <3>9. announced' \in [Folders -> SUBSET (Nat \X Uids)]
      BY <2>13, <3>1, <3>8 DEF ApplySnapshot, TypeOK
    <3>10. mirrored' \in [Folders -> Nat] /\ faithful' \in [Folders -> BOOLEAN]
      BY <2>13, <3>1 DEF ApplySnapshot, TypeOK, Snapshots
    <3>11. snap' \in [Syncers -> Snapshots]
      BY <2>13 DEF ApplySnapshot, Release, TypeOK, Snapshots, NoSnapshot
    <3>12. pc' \in [Syncers -> {"idle", "list", "record", "reserve", "fetch", "apply"}]
           /\ fold' \in [Syncers -> Folders] /\ gen' \in [Syncers -> Nat]
           /\ listing' \in [Syncers -> SUBSET Folders]
      BY <2>13 DEF ApplySnapshot, Release, TypeOK
    <3>13. QED
      BY <2>13, <3>5, <3>7, <3>9, <3>10, <3>11, <3>12 DEF ApplySnapshot, TypeOK, server
  <2>14. ASSUME NEW s \in Syncers, RejectSnapshot(s) PROVE TypeOK'
    BY <2>14 DEF RejectSnapshot, Release, TypeOK, server, store, ghosts, Snapshots, NoSnapshot
  <2>15. ASSUME NEW s \in Syncers, Fail(s) PROVE TypeOK'
    BY <2>15 DEF Fail, Release, TypeOK, server, store, ghosts, Snapshots, NoSnapshot
  <2>16. ASSUME NEW m \in Mutators, BeginCommand(m) PROVE TypeOK'
    <3>1. PICK op \in Commands, f \in Folders, us \in SUBSET Uids, flag \in Flags,
               add \in BOOLEAN : Begin(m, op, f, us, flag, add)
      <4>1. ASSUME NEW f \in Folders, NEW us \in SUBSET UidsOf(rows[f])
            PROVE  us \in SUBSET Uids
        BY <4>1 DEF TypeOK, UidsOf, StoredRows
      <4>2. Uids \in SUBSET Uids /\ {"mark", "move", "expunge"} \subseteq Commands
        BY DEF Commands
      <4>3. QED
        BY <2>16, <4>1, <4>2 DEF BeginCommand
    <3>2. QED
      BY <3>1 DEF Begin, TypeOK, server, store, process, ghosts, MutatorStates
  <2>17. ASSUME NEW m \in Mutators, ServerRequest(m) PROVE TypeOK'
    <3> DEFINE c == mut[m]
    <3>1. c \in MutatorStates
      BY DEF TypeOK
    <3>2. c.folder \in Folders /\ c.flag \in Flags
      BY <3>1 DEF MutatorStates
    <3>3. PICK u \in c.todo :
            /\ mbox' = [mbox EXCEPT ![c.folder] = ServerEffect(c, u)]
            /\ LET left == IF c.op = "expunge" THEN {} ELSE c.todo \ {u}
               IN  mut' = [mut EXCEPT ![m].todo = left,
                                      ![m].at = IF left = {} THEN "echo" ELSE "server"]
      BY <2>17 DEF ServerRequest
    <3>4. ASSUME NEW x \in Messages PROVE WithFlag(x, c.flag, c.add) \in Messages
      BY <3>2 DEF WithFlag, Messages
    <3>5. ServerEffect(c, u) \in SUBSET Messages
      <4>1. mbox[c.folder] \in SUBSET Messages
        BY <3>2 DEF TypeOK
      <4>2. {IF x.uid = u THEN WithFlag(x, c.flag, c.add) ELSE x : x \in mbox[c.folder]}
              \in SUBSET Messages
        BY <3>4, <4>1
      <4>3. QED
        BY <4>1, <4>2 DEF ServerEffect
    <3>6. mbox' \in [Folders -> SUBSET Messages]
      BY <3>2, <3>3, <3>5 DEF TypeOK
    <3>7. mut' \in [Mutators -> MutatorStates]
      <4> DEFINE left == IF c.op = "expunge" THEN {} ELSE c.todo \ {u}
      <4>1. left \in SUBSET Uids
        BY <3>1 DEF MutatorStates
      <4>2. [c EXCEPT !.todo = left, !.at = IF left = {} THEN "echo" ELSE "server"]
              \in MutatorStates
        BY <3>1, <4>1 DEF MutatorStates
      <4> HIDE DEF left
      <4>3. mut' = [mut EXCEPT ![m] =
              [c EXCEPT !.todo = left, !.at = IF left = {} THEN "echo" ELSE "server"]]
        BY <3>3 DEF left
      <4>4. QED
        BY <4>2, <4>3 DEF TypeOK
    <3>8. ver' \in Nat
      BY <2>17 DEF ServerRequest, Changed, TypeOK
    <3>9. QED
      BY <2>17, <3>6, <3>7, <3>8 DEF ServerRequest, TypeOK, store, process, ghosts
  <2>18. ASSUME NEW m \in Mutators, EchoDelete(m) PROVE TypeOK'
    <3>1. announced' \in [Folders -> SUBSET (Nat \X Uids)]
      BY <2>18 DEF EchoDelete, TypeOK
    <3>2. QED
      BY <2>18, <3>1 DEF EchoDelete, TypeOK, server, process, IdleMutator, MutatorStates, Commands
  <2>19. ASSUME NEW m \in Mutators, EchoRead(m) PROVE TypeOK'
    <3> DEFINE c == mut[m]
               got == {r \in rows[c.folder] : r.uid \in c.uids}
    <3>1. c \in MutatorStates /\ c.folder \in Folders
      BY DEF TypeOK, MutatorStates
    <3>2. got \in SUBSET StoredRows
      BY <3>1 DEF TypeOK
    <3>3. mut' = [mut EXCEPT ![m] = [c EXCEPT !.at = "write", !.read = got]]
      BY <2>19 DEF EchoRead
    <3> HIDE DEF got
    <3>4. [c EXCEPT !.at = "write", !.read = got] \in MutatorStates
      BY <3>1, <3>2 DEF MutatorStates
    <3>5. QED
      BY <2>19, <3>3, <3>4 DEF EchoRead, TypeOK, server, store, process, ghosts
  <2>20. ASSUME NEW m \in Mutators, EchoWrite(m) PROVE TypeOK'
    <3> DEFINE c == mut[m]
    <3>1. c \in MutatorStates /\ c.folder \in Folders /\ c.flag \in Flags
      BY DEF TypeOK, MutatorStates
    <3>2. CASE c.read = {}
      <4>1. IdleMutator \in MutatorStates
        BY DEF IdleMutator, MutatorStates, Commands
      <4>2. mut' = [mut EXCEPT ![m] = IdleMutator] /\ UNCHANGED <<rows, faithful>>
        BY <2>20, <3>2 DEF EchoWrite
      <4>3. QED
        BY <2>20, <4>1, <4>2 DEF EchoWrite, TypeOK, server, process
    <3>3. CASE c.read # {}
      <4>1. PICK old \in c.read :
              /\ rows' = [rows EXCEPT ![c.folder] =
                   {IF r.uid = old.uid /\ r.uv = old.uv
                    THEN WithFlag(old, c.flag, c.add) ELSE r : r \in @}]
              /\ faithful' = [faithful EXCEPT ![c.folder] = @ /\ rows' = rows]
              /\ mut' = [mut EXCEPT ![m].read = @ \ {old}]
        BY <2>20, <3>3 DEF EchoWrite
      <4>2. old \in StoredRows /\ c.read \ {old} \in SUBSET StoredRows
        BY <3>1, <4>1 DEF MutatorStates
      <4>3. WithFlag(old, c.flag, c.add) \in StoredRows
        BY <3>1, <4>2 DEF WithFlag, StoredRows
      <4>4. {IF r.uid = old.uid /\ r.uv = old.uv
             THEN WithFlag(old, c.flag, c.add) ELSE r : r \in rows[c.folder]}
               \in SUBSET StoredRows
        BY <3>1, <4>3 DEF TypeOK
      <4>5. rows' \in [Folders -> SUBSET StoredRows]
        BY <3>1, <4>1, <4>4 DEF TypeOK
      <4>6. mut' = [mut EXCEPT ![m] = [c EXCEPT !.read = c.read \ {old}]]
        BY <4>1
      <4>7. [c EXCEPT !.read = c.read \ {old}] \in MutatorStates
        BY <3>1, <4>2 DEF MutatorStates
      <4>8. mut' \in [Mutators -> MutatorStates]
        BY <4>6, <4>7 DEF TypeOK
      <4>9. faithful' \in [Folders -> BOOLEAN]
        BY <3>1, <4>1 DEF TypeOK
      <4>10. QED
        BY <2>20, <4>5, <4>8, <4>9 DEF EchoWrite, TypeOK, server, process
    <3>4. QED
      BY <3>2, <3>3
  <2>21. ASSUME NEW m \in Mutators, Interrupt(m) PROVE TypeOK'
    BY <2>21 DEF Interrupt, TypeOK, server, store, process, ghosts, IdleMutator, MutatorStates, Commands
  <2>22. ASSUME NEW m \in Mutators, ImportFolder(m) PROVE TypeOK'
    <3>1. PICK f \in Folders :
            /\ row' = [row EXCEPT ![f].present = TRUE, ![f].known = TRUE, ![f].uv = 0]
            /\ mut' = [mut EXCEPT ![m] =
                    [IdleMutator EXCEPT !.at = "number", !.op = "import", !.folder = f]]
      BY <2>22 DEF ImportFolder
    <3>2. [row[f] EXCEPT !.present = TRUE, !.known = TRUE, !.uv = 0] \in FolderRows
      <4>1. row[f] \in FolderRows
        BY DEF TypeOK
      <4>2. QED
        BY <4>1 DEF FolderRows
    <3>3. row' = [row EXCEPT ![f] = [row[f] EXCEPT !.present = TRUE, !.known = TRUE, !.uv = 0]]
      BY <3>1
    <3>4. row' \in [Folders -> FolderRows]
      BY <3>2, <3>3 DEF TypeOK
    <3>5. [IdleMutator EXCEPT !.at = "number", !.op = "import", !.folder = f] \in MutatorStates
      BY DEF IdleMutator, MutatorStates, Commands
    <3>6. mut' \in [Mutators -> MutatorStates]
      BY <3>1, <3>5 DEF TypeOK
    <3>7. QED
      BY <2>22, <3>4, <3>6 DEF ImportFolder, TypeOK, server, process, ghosts
  <2>23. ASSUME NEW m \in Mutators, ImportNumber(m) PROVE TypeOK'
    <3>1. mut[m] \in MutatorStates
      BY DEF TypeOK
    <3>2. UidsOf(Imported(mut[m].folder)) \subseteq Nat
      <4>1. rows[mut[m].folder] \subseteq StoredRows
        BY <3>1 DEF TypeOK, MutatorStates
      <4>2. QED
        BY <4>1 DEF UidsOf, Imported, StoredRows
    <3>3. PICK n \in {u + 1 : u \in UidsOf(Imported(mut[m].folder)) \cup {0}} :
            mut' = [mut EXCEPT ![m].at = "insert", ![m].next = n]
      BY <2>23 DEF ImportNumber
    <3>4. n \in Nat
      BY <3>2, <3>3
    <3>5. [mut[m] EXCEPT !.at = "insert", !.next = n] \in MutatorStates
      BY <3>1, <3>4 DEF MutatorStates
    <3>6. mut' = [mut EXCEPT ![m] = [mut[m] EXCEPT !.at = "insert", !.next = n]]
      BY <3>3
    <3>7. mut' \in [Mutators -> MutatorStates]
      BY <3>5, <3>6 DEF TypeOK
    <3>8. QED
      BY <2>23, <3>7 DEF ImportNumber, TypeOK, server, store, process, ghosts
  <2>24. ASSUME NEW m \in Mutators, ImportMessage(m) PROVE TypeOK'
    <3>1. mut[m] \in MutatorStates /\ mut[m].folder \in Folders /\ mut[m].next \in Nat
      BY DEF TypeOK, MutatorStates
    <3>2. PICK flags \in SUBSET Flags :
            rows' = [rows EXCEPT ![mut[m].folder] =
               {r \in @ : r.uv # 0 \/ r.uid # mut[m].next}
                   \cup {[uid |-> mut[m].next, uv |-> 0, flags |-> flags]}]
      BY <2>24 DEF ImportMessage
    <3>3. [uid |-> mut[m].next, uv |-> 0, flags |-> flags] \in StoredRows
      BY <2>24 DEF ImportMessage, StoredRows
    <3>4. rows' \in [Folders -> SUBSET StoredRows]
      BY <3>1, <3>2, <3>3 DEF TypeOK
    <3>5. mut' = [mut EXCEPT ![m] = [mut[m] EXCEPT !.next = mut[m].next + 1]]
      BY <2>24 DEF ImportMessage
    <3>6. [mut[m] EXCEPT !.next = mut[m].next + 1] \in MutatorStates
      BY <3>1 DEF MutatorStates
    <3>7. mut' \in [Mutators -> MutatorStates]
      BY <3>5, <3>6 DEF TypeOK
    <3>8. QED
      BY <2>24, <3>4, <3>7 DEF ImportMessage, TypeOK, server, process, ghosts
  <2>25. CASE UNCHANGED vars
    BY <2>25 DEF vars, server, store, process, ghosts, TypeOK
  <2>26. QED
    BY <2>1, <2>2, <2>3, <2>4, <2>5, <2>6, <2>7, <2>8, <2>9, <2>10, <2>11, <2>12, <2>13,
       <2>14, <2>15, <2>16, <2>17, <2>18, <2>19, <2>20, <2>21, <2>22, <2>23, <2>24, <2>25
    DEF Next, ServerStep, SyncerStep, MutatorStep, ImportStep
<1>3. QED
  BY <1>1, <1>2, PTL DEF Spec

----------------------------------------------------------------------------
(* Generations. *)

\* Steps of the server and of the user commands leave the syncers and the
\* folders rows alone, and server versions only grow.
LEMMA OtherSteps ==
    ASSUME TypeOK, ServerStep \/ MutatorStep \/ UNCHANGED vars
    PROVE  /\ UNCHANGED <<row, process, issued, latest, mirrored>>
           /\ ver' \in Nat /\ ver <= ver'
<1>1. CASE ServerStep
  BY <1>1 DEF ServerStep, Deliver, RemoteExpunge, ResetUidvalidity, RemoveFolder,
     CreateFolder, Changed, store, process, ghosts, TypeOK
<1>2. CASE MutatorStep
  <2>1. ASSUME NEW m \in Mutators, BeginCommand(m) \/ EchoRead(m) \/ Interrupt(m)
        PROVE  UNCHANGED <<server, store, process, ghosts>>
    BY <2>1 DEF BeginCommand, Begin, EchoRead, Interrupt
  <2>2. ASSUME NEW m \in Mutators, EchoDelete(m) \/ EchoWrite(m)
        PROVE  UNCHANGED <<server, row, process, issued, latest, mirrored>>
    BY <2>2 DEF EchoDelete, EchoWrite
  <2>3. ASSUME NEW m \in Mutators, ServerRequest(m)
        PROVE  UNCHANGED <<store, process, ghosts>> /\ (ver' = ver \/ ver' = ver + 1)
    BY <2>3 DEF ServerRequest, Changed
  <2>4. ver \in Nat
    BY DEF TypeOK
  <2>5. PICK m \in Mutators :
          \/ BeginCommand(m) \/ EchoRead(m) \/ Interrupt(m)
          \/ EchoDelete(m) \/ EchoWrite(m)
          \/ ServerRequest(m)
    BY <1>2 DEF MutatorStep
  <2>6. QED
    BY <2>1, <2>2, <2>3, <2>4, <2>5 DEF server, store, ghosts
<1>3. CASE UNCHANGED vars
  BY <1>3 DEF vars, server, store, ghosts, TypeOK
<1>4. QED
  BY <1>1, <1>2, <1>3

\* An import leaves the server, the syncers and the counters alone.  It may replace a
\* folder's UIDVALIDITY by 0, and adds rows to those copied from the server.
LEMMA ImportsApart ==
    ASSUME TypeOK, ImportStep
    PROVE  /\ UNCHANGED <<server, process, ghosts>>
           /\ \A f \in Folders :
                 /\ row'[f].snap = row[f].snap /\ row'[f].reserved = row[f].reserved
                 /\ row[f].present => row'[f].present
                 /\ row'[f] = row[f] \/ (row'[f].present /\ row'[f].known /\ row'[f].uv = 0)
                 /\ Copied(f)' = Copied(f)
                 /\ Keys(rows[f]) \subseteq Keys(rows'[f])
<1>1. PICK m \in Mutators : ImportFolder(m) \/ ImportNumber(m) \/ ImportMessage(m)
  BY DEF ImportStep
<1>2. UNCHANGED <<server, process, ghosts>>
  BY <1>1 DEF ImportFolder, ImportNumber, ImportMessage
<1>3. ASSUME NEW f \in Folders, row' = row
      PROVE  /\ row'[f].snap = row[f].snap /\ row'[f].reserved = row[f].reserved
             /\ row[f].present => row'[f].present
             /\ row'[f] = row[f]
  BY <1>3
<1>4. ASSUME NEW f \in Folders, rows' = rows
      PROVE  Copied(f)' = Copied(f) /\ Keys(rows[f]) \subseteq Keys(rows'[f])
  BY <1>4 DEF Copied
<1>5. CASE ImportNumber(m)
  BY <1>2, <1>3, <1>4, <1>5 DEF ImportNumber, store
<1>6. CASE ImportFolder(m)
  <2>1. PICK g \in Folders :
          row' = [row EXCEPT ![g].present = TRUE, ![g].known = TRUE, ![g].uv = 0]
    BY <1>6 DEF ImportFolder
  <2>2. row' = [row EXCEPT ![g] = [row[g] EXCEPT !.present = TRUE, !.known = TRUE, !.uv = 0]]
    BY <2>1
  <2>3. row[g] \in FolderRows
    BY DEF TypeOK
  <2>4. row'[g] = [row[g] EXCEPT !.present = TRUE, !.known = TRUE, !.uv = 0]
        /\ \A f \in Folders : f # g => row'[f] = row[f]
    BY <2>2 DEF TypeOK
  <2>5. /\ row'[g].snap = row[g].snap /\ row'[g].reserved = row[g].reserved
        /\ row'[g].present /\ row'[g].known /\ row'[g].uv = 0
    BY <2>3, <2>4 DEF FolderRows
  <2>6. rows' = rows
    BY <1>6 DEF ImportFolder
  <2>7. QED
    BY <1>2, <1>4, <2>4, <2>5, <2>6
<1>7. CASE ImportMessage(m)
  <2> DEFINE g == mut[m].folder
             n == mut[m].next
  <2>1. PICK flags \in SUBSET Flags :
          rows' = [rows EXCEPT ![g] = {r \in @ : r.uv # 0 \/ r.uid # n}
                                        \cup {[uid |-> n, uv |-> 0, flags |-> flags]}]
    BY <1>7 DEF ImportMessage
  <2>2. g \in Folders
    BY DEF TypeOK, MutatorStates
  <2> DEFINE new == [uid |-> n, uv |-> 0, flags |-> flags]
             stay == {r \in rows[g] : r.uv # 0 \/ r.uid # n}
  <2>3. rows'[g] = stay \cup {new} /\ \A f \in Folders : f # g => rows'[f] = rows[f]
    BY <2>1, <2>2 DEF TypeOK
  <2>4. new.uv = 0 /\ new.uid = n
    OBVIOUS
  <2> HIDE DEF new
  <2>5. {r \in rows'[g] : r.uv > 0} = {r \in rows[g] : r.uv > 0}
    BY <2>3, <2>4
  <2>6. Keys(rows[g]) \subseteq Keys(rows'[g])
    <3>1. ASSUME NEW r \in rows[g]
          PROVE  \E q \in rows'[g] : <<r.uv, r.uid>> = <<q.uv, q.uid>>
      <4>1. CASE r \in stay
        BY <2>3, <4>1
      <4>2. CASE r \notin stay
        <5>1. r.uv = 0 /\ r.uid = n
          BY <4>2
        <5>2. new \in rows'[g]
          BY <2>3
        <5>3. QED
          BY <2>4, <5>1, <5>2
      <4>3. QED
        BY <4>1, <4>2
    <3>2. QED
      BY <3>1 DEF Keys
  <2>7. ASSUME NEW f \in Folders
        PROVE  Copied(f)' = Copied(f) /\ Keys(rows[f]) \subseteq Keys(rows'[f])
    BY <2>3, <2>5, <2>6 DEF Copied
  <2>8. row' = row
    BY <1>7 DEF ImportMessage
  <2>9. QED
    BY <1>2, <1>3, <2>7, <2>8
<1>8. QED
  BY <1>1, <1>5, <1>6, <1>7

\* A syncer that gives up leaves the others' reservations as they were.
LEMMA ReleaseKeepsReservations ==
    ASSUME TypeOK, ReservationInv, MirrorInv, NEW s \in Syncers, Release(s),
           UNCHANGED <<row, issued, latest, mirrored, ver>>
    PROVE  ReservationInv' /\ MirrorInv'
<1>1. \A t \in Syncers : t # s =>
        /\ pc'[t] = pc[t] /\ fold'[t] = fold[t] /\ gen'[t] = gen[t]
        /\ snap'[t] = snap[t] /\ listing'[t] = listing[t]
  BY DEF Release, TypeOK
<1>2. pc'[s] = "idle"
  BY DEF Release, TypeOK
<1>3. \A t \in Syncers : Working(t)' => t # s /\ Working(t)
  BY <1>1, <1>2 DEF Working
<1>4. ReservationInv'
  BY <1>1, <1>2, <1>3 DEF ReservationInv, Token, Syncers
<1>5. MirrorInv'
  BY <1>1, <1>2 DEF MirrorInv
<1>6. QED
  BY <1>4, <1>5

\* The invariant about generations is inductive.
LEMMA ReservationInductive ==
    TypeOK /\ ReservationInv /\ MirrorInv /\ [Next]_vars
        => ReservationInv' /\ MirrorInv'
<1> SUFFICES ASSUME TypeOK, ReservationInv, MirrorInv, [Next]_vars
             PROVE  ReservationInv' /\ MirrorInv'
  OBVIOUS
<1> USE PermanentAssumption
<1>1. CASE ServerStep \/ MutatorStep \/ UNCHANGED vars
  <2>1. /\ UNCHANGED <<row, process, issued, latest, mirrored>>
        /\ ver' \in Nat /\ ver <= ver'
    BY <1>1, OtherSteps
  <2>2. ReservationInv'
    BY <2>1 DEF ReservationInv, Working, Token, process
  <2>3. MirrorInv'
    BY <2>1 DEF MirrorInv, process, TypeOK, Snapshots
  <2>4. QED
    BY <2>2, <2>3
<1>2. ASSUME NEW s \in Syncers, NEW f \in Folders, Start(s, f)
      PROVE  ReservationInv' /\ MirrorInv'
  BY <1>2 DEF Start, ReservationInv, MirrorInv, Working, Token, TypeOK, server, store, ghosts, Syncers
<1>3. ASSUME NEW s \in Syncers, ListFolders(s)
      PROVE  ReservationInv' /\ MirrorInv'
  BY <1>3 DEF ListFolders, ReservationInv, MirrorInv, Working, Token, TypeOK, server, store, ghosts, Syncers
<1>4. ASSUME NEW s \in Syncers, ReconcileFolders(s)
      PROVE  ReservationInv' /\ MirrorInv'
  BY <1>4 DEF ReconcileFolders, ReservationInv, MirrorInv, Working, Token, TypeOK, server, Syncers
<1>5. ASSUME NEW s \in Syncers, UpsertFolder(s)
      PROVE  ReservationInv' /\ MirrorInv'
  <2>1. \A f \in Folders : /\ row'[f].snap = row[f].snap
                           /\ row'[f].reserved = row[f].reserved
                           /\ row[f].present => row'[f].present
    <3>1. CASE listing[s] = {}
      BY <1>5, <3>1 DEF UpsertFolder
    <3>2. CASE listing[s] # {}
      <4>1. PICK g \in listing[s] : row' = [row EXCEPT ![g].present = TRUE]
        BY <1>5, <3>2 DEF UpsertFolder
      <4>2. g \in Folders /\ row[g] \in FolderRows
        BY <4>1 DEF TypeOK
      <4>3. row'[g] = [row[g] EXCEPT !.present = TRUE]
        BY <4>1, <4>2 DEF TypeOK
      <4>4. \A f \in Folders : f # g => row'[f] = row[f]
        BY <4>1 DEF TypeOK
      <4>5. QED
        BY <4>2, <4>3, <4>4 DEF FolderRows
    <3>3. QED
      BY <3>1, <3>2
  <2>2. \A t \in Syncers : pc'[t] # pc[t] => t = s /\ pc'[t] = "reserve"
    BY <1>5 DEF UpsertFolder, TypeOK
  <2>3. \A t \in Daemons : pc'[t] = "record" => pc[t] = "record" /\ listing'[t] = listing[t]
    <3>1. \A t \in Syncers : t # s => pc'[t] = pc[t] /\ listing'[t] = listing[t]
      <4>1. CASE listing[s] = {}
        BY <1>5, <4>1 DEF UpsertFolder, TypeOK
      <4>2. CASE listing[s] # {}
        BY <1>5, <4>2 DEF UpsertFolder, TypeOK
      <4>3. QED
        BY <4>1, <4>2
    <3>2. s \notin Daemons
      BY <1>5, KindsAssumption DEF UpsertFolder
    <3>3. QED
      BY <3>1, <3>2 DEF Syncers
  <2>4. UNCHANGED <<fold, gen, snap, issued, latest, mirrored, ver>>
    BY <1>5 DEF UpsertFolder, server, ghosts
  <2>5. \A t \in Syncers : Working(t)' => Working(t) /\ pc'[t] = pc[t]
    BY <2>2, <2>4 DEF Working
  <2>6. ReservationInv'
    <3>1. ASSUME NEW t \in Syncers, Working(t)'
          PROVE  (/\ row[fold[t]].present
                  /\ gen[t] > 0
                  /\ gen[t] <= row[fold[t]].reserved
                  /\ gen[t] = row[fold[t]].reserved <=> latest[fold[t]] = Token(t)
                  /\ gen[t] = row[fold[t]].reserved => row[fold[t]].snap < gen[t])'
      BY <2>1, <2>4, <2>5, <3>1 DEF ReservationInv, Token, TypeOK
    <3>2. \A t, u \in Syncers :
            (Working(t) /\ Working(u) /\ fold[t] = fold[u] /\ gen[t] = gen[u])' => t = u
      BY <2>4, <2>5 DEF ReservationInv
    <3>3. \A g \in Permanent : row'[g].snap <= row'[g].reserved
      BY <2>1 DEF ReservationInv
    <3>4. \A t \in Daemons : pc'[t] = "record" => Permanent \subseteq listing'[t]
      BY <2>3 DEF ReservationInv
    <3>5. QED
      BY <3>1, <3>2, <3>3, <3>4 DEF ReservationInv
  <2>7. MirrorInv'
    BY <2>1, <2>2, <2>4 DEF MirrorInv
  <2>8. QED
    BY <2>6, <2>7
<1>6. ASSUME NEW s \in Syncers, Reserve(s)
      PROVE  ReservationInv' /\ MirrorInv'
  <2> DEFINE f == fold[s]
  <2>1. f \in Folders /\ row[f] \in FolderRows /\ row[f].reserved \in Nat /\ row[f].snap \in Nat
    BY DEF TypeOK, FolderRows
  <2>2. row' = [row EXCEPT ![f] = [row[f] EXCEPT !.present = TRUE, !.reserved = @ + 1]]
    BY <1>6 DEF Reserve
  <2>3. /\ row'[f].present /\ row'[f].reserved = row[f].reserved + 1
        /\ row'[f].snap = row[f].snap
        /\ \A g \in Folders : g # f => row'[g] = row[g]
    BY <2>1, <2>2 DEF TypeOK, FolderRows
  <2>4. /\ gen'[s] = row[f].reserved + 1
        /\ latest'[f] = <<s, issued'[s]>>
        /\ pc'[s] = "fetch" /\ pc[s] = "reserve"
        /\ \A g \in Folders : g # f => latest'[g] = latest[g]
    BY <1>6, <2>1 DEF Reserve, TypeOK
  <2>5. \A t \in Syncers : t # s =>
          /\ pc'[t] = pc[t] /\ gen'[t] = gen[t] /\ issued'[t] = issued[t]
    BY <1>6 DEF Reserve, TypeOK
  <2>6. UNCHANGED <<fold, listing, snap, mirrored, ver>>
    BY <1>6 DEF Reserve, server
  <2>7. ASSUME NEW t \in Syncers, Working(t)'
        PROVE  /\ row'[fold[t]].present
               /\ gen'[t] > 0
               /\ gen'[t] <= row'[fold[t]].reserved
               /\ gen'[t] = row'[fold[t]].reserved <=> latest'[fold[t]] = Token(t)'
               /\ gen'[t] = row'[fold[t]].reserved => row'[fold[t]].snap < gen'[t]
    <3>1. CASE t = s
      <4>1. row[f].snap <= row[f].reserved
        BY <2>6, <2>7, <3>1 DEF Working, ReservationInv
      <4>2. QED
        BY <2>1, <2>3, <2>4, <3>1, <4>1 DEF Token
    <3>2. CASE t # s
      <4>1. Working(t) /\ fold[t] \in Folders /\ gen[t] \in Nat
        BY <2>5, <2>6, <2>7, <3>2 DEF Working, TypeOK
      <4>2. CASE fold[t] = f
        <5>1. latest'[f] # Token(t)'
          BY <2>4, <3>2 DEF Token
        <5>2. gen[t] <= row[f].reserved /\ gen[t] > 0
          BY <4>1, <4>2 DEF ReservationInv
        <5>3. QED
          BY <2>1, <2>3, <2>5, <3>2, <4>1, <4>2, <5>1, <5>2
      <4>3. CASE fold[t] # f
        BY <2>3, <2>4, <2>5, <3>2, <4>1, <4>3 DEF ReservationInv, Token
      <4>4. QED
        BY <4>2, <4>3
    <3>3. QED
      BY <3>1, <3>2
  <2>8. ASSUME NEW t \in Syncers, NEW u \in Syncers, Working(t)', Working(u)',
               fold[t] = fold[u], gen'[t] = gen'[u]
        PROVE  t = u
    <3>1. ASSUME NEW v \in Syncers, v # s, Working(v)', fold[v] = f
          PROVE  gen'[v] # gen'[s]
      <4>1. Working(v) /\ gen[v] \in Nat
        BY <2>5, <2>6, <3>1 DEF Working, TypeOK
      <4>2. gen[v] <= row[f].reserved
        BY <3>1, <4>1 DEF ReservationInv
      <4>3. QED
        BY <2>1, <2>4, <2>5, <3>1, <4>1, <4>2
    <3>2. CASE t # s /\ u # s
      BY <2>5, <2>6, <2>8, <3>2 DEF ReservationInv, Working
    <3>3. QED
      BY <2>8, <3>1, <3>2
  <2>9. ReservationInv'
    <3>1. \A g \in Permanent : row'[g].snap <= row'[g].reserved
      BY <2>1, <2>3 DEF ReservationInv
    <3>2. \A t \in Daemons : pc'[t] = "record" => Permanent \subseteq listing'[t]
      BY <2>4, <2>5, <2>6 DEF ReservationInv, Syncers
    <3>3. QED
      BY <2>6, <2>7, <2>8, <3>1, <3>2 DEF ReservationInv
  <2>10. MirrorInv'
    <3>1. \A t \in Syncers : pc'[t] = "apply" => t # s /\ pc[t] = "apply"
      BY <2>4, <2>5
    <3>2. ASSUME NEW t \in Syncers, pc'[t] = "apply", fold[t] \in Permanent,
                 gen'[t] = row'[fold[t]].reserved
          PROVE  mirrored[fold[t]] <= snap[t].at
      <4>1. t # s /\ pc[t] = "apply" /\ Working(t)
        BY <3>1, <3>2 DEF Working
      <4>2. gen[t] <= row[fold[t]].reserved /\ gen[t] \in Nat /\ fold[t] \in Folders
        BY <4>1 DEF ReservationInv, TypeOK
      <4>3. fold[t] # f
        BY <2>1, <2>3, <2>5, <3>2, <4>1, <4>2
      <4>4. QED
        BY <2>3, <2>5, <3>2, <4>1, <4>2, <4>3 DEF MirrorInv
    <3>3. QED
      BY <2>6, <3>1, <3>2 DEF MirrorInv
  <2>11. QED
    BY <2>9, <2>10
<1>7. ASSUME NEW s \in Syncers, NEW msgs, NEW complete, FetchAs(s, msgs, complete)
      PROVE  ReservationInv' /\ MirrorInv'
  BY <1>7 DEF FetchAs, ReservationInv, MirrorInv, Working, Token, TypeOK, server, store, ghosts, Syncers
<1>8. ASSUME NEW s \in Syncers, ApplySnapshot(s)
      PROVE  ReservationInv' /\ MirrorInv'
  <2> DEFINE f == fold[s]
  <2>1. /\ f \in Folders /\ row[f] \in FolderRows /\ row[f].reserved \in Nat
        /\ row[f].snap \in Nat /\ gen[s] \in Nat /\ snap[s] \in Snapshots
        /\ snap[s].at \in Nat /\ ver \in Nat
    BY DEF TypeOK, FolderRows, Snapshots
  <2>2. row' = [row EXCEPT ![f] =
                  [row[f] EXCEPT !.known = TRUE, !.uv = snap[s].uv, !.snap = gen[s]]]
    BY <1>8 DEF ApplySnapshot
  <2>3. /\ row'[f].present = row[f].present /\ row'[f].reserved = row[f].reserved
        /\ row'[f].snap = gen[s]
        /\ \A g \in Folders : g # f => row'[g] = row[g]
    BY <2>1, <2>2 DEF TypeOK, FolderRows
  <2>4. /\ mirrored'[f] = snap[s].at
        /\ \A g \in Folders : g # f => mirrored'[g] = mirrored[g]
        /\ UNCHANGED <<issued, latest, ver>>
    BY <1>8, <2>1 DEF ApplySnapshot, server, TypeOK
  <2>5. \A t \in Syncers : t # s =>
          /\ pc'[t] = pc[t] /\ fold'[t] = fold[t] /\ gen'[t] = gen[t]
          /\ snap'[t] = snap[t] /\ listing'[t] = listing[t]
    BY <1>8 DEF ApplySnapshot, Release, TypeOK
  <2>6. pc'[s] = "idle" /\ pc[s] = "apply"
    BY <1>8 DEF ApplySnapshot, Release, TypeOK
  <2>7. gen[s] >= row[f].reserved /\ gen[s] <= row[f].reserved
    BY <1>8, <2>1 DEF ApplySnapshot, Eligible, Superseded
  <2>8. \A t \in Syncers : Working(t)' =>
          t # s /\ Working(t) /\ (fold[t] = f => gen[t] # row[f].reserved)
    <3>1. \A t \in Syncers : Working(t)' => t # s /\ Working(t)
      BY <2>5, <2>6 DEF Working
    <3>2. ASSUME NEW t \in Syncers, t # s, Working(t), fold[t] = f
          PROVE  gen[t] # row[f].reserved
      <4>1. Working(s)
        BY <2>6, <3>2 DEF Working
      <4>2. gen[t] # gen[s]
        BY <3>2, <4>1 DEF ReservationInv
      <4>3. QED
        BY <2>1, <2>7, <4>2
    <3>3. QED
      BY <3>1, <3>2
  <2>9. ReservationInv'
    <3>1. ASSUME NEW t \in Syncers, Working(t)'
          PROVE  (/\ row[fold[t]].present
                  /\ gen[t] > 0
                  /\ gen[t] <= row[fold[t]].reserved
                  /\ gen[t] = row[fold[t]].reserved <=> latest[fold[t]] = Token(t)
                  /\ gen[t] = row[fold[t]].reserved => row[fold[t]].snap < gen[t])'
      <4>1. t # s /\ Working(t) /\ fold[t] \in Folders
        BY <2>8, <3>1 DEF TypeOK
      <4>2. /\ fold'[t] = fold[t] /\ gen'[t] = gen[t] /\ Token(t)' = Token(t)
            /\ latest'[fold[t]] = latest[fold[t]]
        BY <2>4, <2>5, <4>1 DEF Token
      <4>3. /\ row'[fold[t]].present = row[fold[t]].present
            /\ row'[fold[t]].reserved = row[fold[t]].reserved
            /\ gen[t] = row[fold[t]].reserved => row'[fold[t]].snap = row[fold[t]].snap
        BY <2>3, <2>8, <3>1, <4>1
      <4>4. QED
        BY <4>1, <4>2, <4>3 DEF ReservationInv
    <3>2. \A t, u \in Syncers :
            (Working(t) /\ Working(u) /\ fold[t] = fold[u] /\ gen[t] = gen[u])' => t = u
      BY <2>5, <2>8 DEF ReservationInv
    <3>3. \A g \in Permanent : row'[g].snap <= row'[g].reserved
      BY <2>1, <2>3, <2>7 DEF ReservationInv
    <3>4. \A t \in Daemons : pc'[t] = "record" => Permanent \subseteq listing'[t]
      BY <2>5, <2>6 DEF ReservationInv, Syncers
    <3>5. QED
      BY <3>1, <3>2, <3>3, <3>4 DEF ReservationInv
  <2>10. MirrorInv'
    <3>1. \A g \in Folders : mirrored'[g] <= ver'
      BY <2>1, <2>4, <2>6 DEF MirrorInv
    <3>2. ASSUME NEW t \in Syncers, pc'[t] = "apply"
          PROVE  /\ snap'[t].at <= ver'
                 /\ fold'[t] \in Permanent /\ gen'[t] = row'[fold'[t]].reserved =>
                        mirrored'[fold'[t]] <= snap'[t].at
      <4>1. t # s /\ pc[t] = "apply" /\ fold[t] \in Folders
        BY <2>5, <2>6, <3>2 DEF TypeOK
      <4>2. fold[t] \in Permanent => Working(t)'
        BY <2>5, <3>2, <4>1 DEF Working
      <4>3. fold[t] \in Permanent /\ fold[t] = f => gen[t] # row[f].reserved
        BY <2>8, <4>2
      <4>4. QED
        BY <2>3, <2>4, <2>5, <4>1, <4>3 DEF MirrorInv
    <3>3. QED
      BY <3>1, <3>2 DEF MirrorInv
  <2>11. QED
    BY <2>9, <2>10
<1>9. ASSUME NEW s \in Syncers, RejectSnapshot(s) \/ Fail(s)
      PROVE  ReservationInv' /\ MirrorInv'
  BY <1>9, ReleaseKeepsReservations DEF RejectSnapshot, Fail, server, store, ghosts
<1>10. CASE ImportStep
  <2>1. /\ UNCHANGED <<server, process, ghosts>>
        /\ \A f \in Folders :
              /\ row'[f].snap = row[f].snap /\ row'[f].reserved = row[f].reserved
              /\ row[f].present => row'[f].present
    BY <1>10, ImportsApart
  <2>2. UNCHANGED <<pc, fold, gen, listing, snap, issued, latest, mirrored, ver>>
    BY <2>1 DEF server, process, ghosts
  <2>3. \A s \in Syncers : fold[s] \in Folders /\ (Working(s)' <=> Working(s))
    BY <2>2 DEF Working, TypeOK
  <2>4. ReservationInv'
    <3>1. ASSUME NEW t \in Syncers, Working(t)'
          PROVE  (/\ row[fold[t]].present
                  /\ gen[t] > 0
                  /\ gen[t] <= row[fold[t]].reserved
                  /\ gen[t] = row[fold[t]].reserved <=> latest[fold[t]] = Token(t)
                  /\ gen[t] = row[fold[t]].reserved => row[fold[t]].snap < gen[t])'
      BY <2>1, <2>2, <2>3, <3>1 DEF ReservationInv, Token
    <3>2. \A t, u \in Syncers :
            (Working(t) /\ Working(u) /\ fold[t] = fold[u] /\ gen[t] = gen[u])' => t = u
      BY <2>2, <2>3 DEF ReservationInv
    <3>3. \A g \in Permanent : row'[g].snap <= row'[g].reserved
      BY <2>1 DEF ReservationInv
    <3>4. \A t \in Daemons : pc'[t] = "record" => Permanent \subseteq listing'[t]
      BY <2>2 DEF ReservationInv
    <3>5. QED
      BY <3>1, <3>2, <3>3, <3>4 DEF ReservationInv
  <2>5. MirrorInv'
    BY <2>1, <2>2, <2>3 DEF MirrorInv
  <2>6. QED
    BY <2>4, <2>5
<1>11. QED
  BY <1>1, <1>2, <1>3, <1>4, <1>5, <1>6, <1>7, <1>8, <1>9, <1>10
  DEF Next, SyncerStep, FetchHeaders, FetchSince

\* Nothing is reserved, fetched or mirrored at the start.
LEMMA ReservationInitially == Init => ReservationInv /\ MirrorInv
BY PermanentAssumption
DEF Init, ReservationInv, MirrorInv, Working, NoRow, Syncers

\* The inductive invariant: every working syncer's generation is behind or at its
\* folder's last reservation, at it only if no later one was made, and what the
\* index mirrors is no newer than what the last reserver holds or will fetch.
THEOREM Reservations == Spec => [](ReservationInv /\ MirrorInv)
<1>1. Spec => []TypeOK
  BY TypeCorrect
<1>2. QED
  BY <1>1, ReservationInitially, ReservationInductive, PTL DEF Spec

\* For every folder the server never stops listing, and any number of daemons,
\* TUI tasks and fetch commands: a fetched snapshot is applied exactly when no
\* later reservation was made for its folder.
THEOREM LatestReservationAlwaysWins == Spec => []LatestReservationWins
<1>1. TypeOK /\ ReservationInv => LatestReservationWins
  <2> SUFFICES ASSUME TypeOK, ReservationInv, NEW s \in Syncers,
                      pc[s] = "apply", fold[s] \in Permanent
               PROVE  Eligible(s) <=> latest[fold[s]] = Token(s)
    BY DEF LatestReservationWins, LatestReservationWinsFor
  <2>1. Working(s)
    BY DEF Working
  <2>2. /\ row[fold[s]].present
        /\ gen[s] > 0 /\ gen[s] <= row[fold[s]].reserved
        /\ gen[s] = row[fold[s]].reserved <=> latest[fold[s]] = Token(s)
        /\ gen[s] = row[fold[s]].reserved => row[fold[s]].snap < gen[s]
    BY <2>1 DEF ReservationInv
  <2>3. gen[s] \in Nat /\ row[fold[s]].reserved \in Nat /\ row[fold[s]].snap \in Nat
    BY PermanentAssumption DEF TypeOK, FolderRows
  <2>4. QED
    BY <2>2, <2>3 DEF Eligible, Superseded
<1>2. QED
  BY <1>1, TypeCorrect, Reservations, PTL

\* The index of such a folder never returns to an earlier server state.
THEOREM IndexNeverGoesBack == Spec => NeverGoesBack
<1>1. TypeOK /\ ReservationInv /\ MirrorInv /\ [Next]_vars =>
        [\A f \in Permanent : mirrored'[f] >= mirrored[f]]_vars
  <2> SUFFICES ASSUME TypeOK, ReservationInv, MirrorInv, Next, NEW f \in Permanent
               PROVE  mirrored'[f] >= mirrored[f]
    OBVIOUS
  <2>1. f \in Folders /\ mirrored[f] \in Nat
    BY PermanentAssumption DEF TypeOK
  <2>2. CASE \E s \in Syncers : ApplySnapshot(s)
    <3>1. PICK s \in Syncers : ApplySnapshot(s)
      BY <2>2
    <3>2. CASE fold[s] = f
      <4>1. gen[s] \in Nat /\ row[f].reserved \in Nat /\ snap[s].at \in Nat
        BY <2>1 DEF TypeOK, FolderRows, Snapshots
      <4>2. gen[s] = row[f].reserved /\ pc[s] = "apply"
        BY <3>1, <3>2, <4>1 DEF ApplySnapshot, Eligible, Superseded
      <4>3. mirrored[f] <= snap[s].at
        BY <3>2, <4>2 DEF MirrorInv
      <4>4. QED
        BY <2>1, <3>1, <3>2, <4>1, <4>3 DEF ApplySnapshot, TypeOK
    <3>3. CASE fold[s] # f
      BY <2>1, <3>1, <3>3 DEF ApplySnapshot, TypeOK
    <3>4. QED
      BY <3>2, <3>3
  <2>3. CASE ~\E s \in Syncers : ApplySnapshot(s)
    <3>1. CASE ServerStep \/ MutatorStep
      BY <2>1, <3>1, OtherSteps
    <3>2. CASE SyncerStep
      BY <2>1, <2>3, <3>2 DEF SyncerStep, Start, ListFolders, ReconcileFolders, UpsertFolder,
         Reserve, FetchHeaders, FetchSince, FetchAs, RejectSnapshot, Fail, ghosts
    <3>3. CASE ImportStep
      BY <2>1, <3>3, ImportsApart DEF ghosts
    <3>4. QED
      BY <3>1, <3>2, <3>3 DEF Next
  <2>4. QED
    BY <2>2, <2>3
<1>2. QED
  BY <1>1, TypeCorrect, Reservations, PTL DEF Spec, NeverGoesBack

----------------------------------------------------------------------------
(* The rows of a folder. *)

\* Only the server itself and a request of a user command change the server.
LEMMA ServerKept ==
    ASSUME SyncerStep \/ ImportStep \/ UNCHANGED vars
    PROVE  UNCHANGED server
BY DEF SyncerStep, Start, ListFolders, ReconcileFolders, UpsertFolder, Reserve, FetchHeaders,
   FetchSince, FetchAs, ApplySnapshot, RejectSnapshot, Fail, ImportStep, ImportFolder,
   ImportNumber, ImportMessage, vars, server

\* Apart from a request to the server, a user command leaves the server alone,
\* and every one leaves the syncers alone.
LEMMA MutatorKeeps ==
    ASSUME MutatorStep
    PROVE  /\ UNCHANGED <<exists, suv, unext, row, process>>
           /\ UNCHANGED <<mbox, ver>> \/ \E m \in Mutators : ServerRequest(m)
BY DEF MutatorStep, BeginCommand, Begin, ServerRequest, EchoDelete, EchoRead, EchoWrite,
   Interrupt, server, store

\* A request changes flags or removes messages: it adds no message.
LEMMA RequestKeepsUids ==
    ASSUME TypeOK, NEW m \in Mutators, ServerRequest(m), NEW f \in Folders
    PROVE  /\ \A x \in mbox'[f] : \E y \in mbox[f] : x.uid = y.uid
           /\ (\A x, y \in mbox[f] : x.uid = y.uid => x = y)
                => (\A x, y \in mbox'[f] : x.uid = y.uid => x = y)
           /\ mbox[f] = {} => mbox'[f] = {}
<1> DEFINE c == mut[m]
<1>1. c \in MutatorStates /\ c.folder \in Folders
  BY DEF TypeOK, MutatorStates
<1>2. PICK u \in c.todo : mbox' = [mbox EXCEPT ![c.folder] = ServerEffect(c, u)]
  BY DEF ServerRequest
<1>3. CASE f # c.folder
  <2>1. mbox'[f] = mbox[f]
    BY <1>2, <1>3 DEF TypeOK
  <2>2. QED
    BY <2>1
<1>4. CASE f = c.folder
  <2>1. mbox'[f] = ServerEffect(c, u)
    BY <1>1, <1>2, <1>4 DEF TypeOK
  <2>2. \A x \in mbox[f] : WithFlag(x, c.flag, c.add).uid = x.uid
    BY DEF TypeOK, WithFlag, Messages
  <2>3. CASE c.op = "mark"
    <3>1. mbox'[f] = {IF x.uid = u THEN WithFlag(x, c.flag, c.add) ELSE x : x \in mbox[f]}
      BY <1>4, <2>1, <2>3 DEF ServerEffect
    <3>2. QED
      BY <2>2, <3>1
  <2>4. CASE c.op # "mark"
    <3>1. mbox'[f] \subseteq mbox[f]
      BY <1>4, <2>1, <2>4 DEF ServerEffect
    <3>2. QED
      BY <3>1
  <2>5. QED
    BY <2>3, <2>4
<1>5. QED
  BY <1>3, <1>4

\* A UID keeps naming the same message of its folder, or none.
LEMMA MailboxInductive ==
    ASSUME TypeOK, MailboxInv, [Next]_vars
    PROVE  MailboxInv'
<1> USE PermanentAssumption, UidsAssumption
<1>1. ASSUME NEW f \in Folders, Deliver(f) PROVE MailboxInv'
  <2>1. unext[f] \in Nat /\ \A x \in mbox[f] : x.uid \in Nat
    <3>1. unext[f] \in Nat /\ mbox[f] \subseteq Messages
      BY DEF TypeOK
    <3>2. \A x \in Messages : x.uid \in Nat
      BY DEF Messages
    <3>3. QED
      BY <3>1, <3>2
  <2>2. mbox'[f] = mbox[f] \cup {[uid |-> unext[f], flags |-> {}]} /\ unext'[f] = unext[f] + 1
    BY <1>1 DEF Deliver, TypeOK
  <2>3. \A g \in Folders : g # f => mbox'[g] = mbox[g] /\ unext'[g] = unext[g]
    BY <1>1 DEF Deliver, TypeOK
  <2>4. f \in exists' /\ exists' = exists
    BY <1>1 DEF Deliver
  <2>5. ASSUME NEW x \in mbox'[f] PROVE x.uid < unext'[f]
    BY <2>1, <2>2 DEF MailboxInv
  <2>6. ASSUME NEW x \in mbox'[f], NEW y \in mbox'[f], x.uid = y.uid PROVE x = y
    <3>1. \A z \in mbox[f] : z.uid < unext[f]
      BY DEF MailboxInv
    <3>2. CASE x \in mbox[f] /\ y \in mbox[f]
      BY <2>6, <3>2 DEF MailboxInv
    <3>3. ASSUME NEW z \in mbox[f] PROVE z.uid # unext[f]
      BY <2>1, <3>1
    <3>4. \A z \in mbox'[f] : z \in mbox[f] \/ z = [uid |-> unext[f], flags |-> {}]
      BY <2>2
    <3>5. QED
      BY <2>6, <3>2, <3>3, <3>4
  <2>7. QED
    BY <2>3, <2>4, <2>5, <2>6 DEF MailboxInv
<1>2. ASSUME NEW f \in Folders, RemoteExpunge(f) PROVE MailboxInv'
  BY <1>2 DEF RemoteExpunge, MailboxInv, TypeOK
<1>3. ASSUME NEW f \in Folders, ResetUidvalidity(f) PROVE MailboxInv'
  BY <1>3 DEF ResetUidvalidity, MailboxInv, TypeOK
<1>4. ASSUME NEW f \in Folders, RemoveFolder(f) PROVE MailboxInv'
  BY <1>4 DEF RemoveFolder, MailboxInv, TypeOK
<1>5. ASSUME NEW f \in Folders, CreateFolder(f) PROVE MailboxInv'
  BY <1>5 DEF CreateFolder, MailboxInv, TypeOK
<1>6. ASSUME NEW m \in Mutators, ServerRequest(m) PROVE MailboxInv'
  <2>1. UNCHANGED <<exists, unext>>
    BY <1>6 DEF ServerRequest
  <2>2. ASSUME NEW f \in Folders
        PROVE  /\ f \notin exists => mbox'[f] = {}
               /\ \A x \in mbox'[f] : x.uid < unext[f]
               /\ \A x, y \in mbox'[f] : x.uid = y.uid => x = y
    BY <1>6, RequestKeepsUids DEF MailboxInv
  <2>3. QED
    BY <2>1, <2>2 DEF MailboxInv
<1>7. CASE UNCHANGED <<exists, mbox, unext>>
  BY <1>7 DEF MailboxInv
<1>8. QED
  BY <1>1, <1>2, <1>3, <1>4, <1>5, <1>6, <1>7, ServerKept, MutatorKeeps
  DEF Next, ServerStep, server

\* A snapshot is what a fetch saw in the mailbox.
LEMMA SnapshotInductive ==
    ASSUME TypeOK, MailboxInv, SnapshotInv, [Next]_vars
    PROVE  SnapshotInv'
<1>1. CASE ServerStep \/ MutatorStep \/ UNCHANGED vars
  <2>1. UNCHANGED <<pc, snap>>
    BY <1>1, OtherSteps DEF process
  <2>2. QED
    BY <2>1 DEF SnapshotInv
<1>2. ASSUME NEW s \in Syncers, NEW msgs \in SUBSET mbox[fold[s]], NEW complete \in BOOLEAN,
             FetchAs(s, msgs, complete)
      PROVE  SnapshotInv'
  <2>1. fold[s] \in Folders /\ suv[fold[s]] \in Nat \ {0}
    BY DEF TypeOK
  <2>2. \A t \in Syncers : t # s => pc'[t] = pc[t] /\ snap'[t] = snap[t]
    BY <1>2 DEF FetchAs, TypeOK
  <2>3. /\ pc'[s] = "apply"
        /\ snap'[s].uv = suv[fold[s]] /\ snap'[s].msgs = msgs
    BY <1>2 DEF FetchAs, TypeOK
  <2>4. \A m, n \in msgs : m.uid = n.uid => m = n
    BY <2>1 DEF MailboxInv
  <2>5. QED
    BY <2>1, <2>2, <2>3, <2>4 DEF SnapshotInv
<1>3. ASSUME NEW s \in Syncers, Release(s) PROVE SnapshotInv'
  BY <1>3 DEF Release, SnapshotInv, TypeOK, NoSnapshot
<1>4. ASSUME NEW s \in Syncers, NEW next \in {"list", "record", "reserve", "fetch"},
             pc[s] # "apply", pc' = [pc EXCEPT ![s] = next] \/ pc' = pc, snap' = snap
      PROVE  SnapshotInv'
  BY <1>4 DEF SnapshotInv, TypeOK
<1>5. CASE SyncerStep
  <2>1. PICK s \in Syncers :
          \/ \E f \in Folders : Start(s, f)
          \/ ListFolders(s) \/ ReconcileFolders(s) \/ UpsertFolder(s) \/ Reserve(s)
          \/ FetchHeaders(s) \/ FetchSince(s)
          \/ ApplySnapshot(s) \/ RejectSnapshot(s) \/ Fail(s)
    BY <1>5 DEF SyncerStep
  <2>2. CASE \/ \E f \in Folders : Start(s, f)
             \/ ListFolders(s) \/ ReconcileFolders(s) \/ UpsertFolder(s) \/ Reserve(s)
    <3>1. /\ pc[s] # "apply" /\ snap' = snap
          /\ \/ \E next \in {"list", "record", "reserve", "fetch"} : pc' = [pc EXCEPT ![s] = next]
             \/ pc' = pc
      BY <2>2 DEF Start, ListFolders, ReconcileFolders, UpsertFolder, Reserve
    <3>2. QED
      BY <1>4, <3>1
  <2>3. CASE FetchHeaders(s) \/ FetchSince(s)
    BY <1>2, <2>3 DEF FetchHeaders, FetchSince
  <2>4. CASE ApplySnapshot(s) \/ RejectSnapshot(s) \/ Fail(s)
    BY <1>3, <2>4 DEF ApplySnapshot, RejectSnapshot, Fail
  <2>5. QED
    BY <2>1, <2>2, <2>3, <2>4
<1>6. CASE ImportStep
  BY <1>6, ImportsApart DEF SnapshotInv, process
<1>7. QED
  BY <1>1, <1>5, <1>6 DEF Next

\* What a snapshot leaves of the copied rows it finds, and what it adds.
LEMMA AppliedRows ==
    ASSUME TypeOK, RowsBelongToFolder, SnapshotInv, NEW s \in Syncers, ApplySnapshot(s)
    PROVE  LET f == fold[s]
               sn == snap[s]
               copies == {[uid |-> m.uid, uv |-> sn.uv, flags |-> m.flags] : m \in sn.msgs}
               left == {r \in rows'[f] : r.uv > 0}
           IN  /\ \A g \in Folders : g # f => rows'[g] = rows[g] /\ row'[g] = row[g]
               /\ row'[f].uv = sn.uv /\ row'[f].present /\ row'[f].known /\ sn.uv > 0
               /\ sn.complete => left = copies
               /\ \A r \in left :
                     \/ r \in Copied(f) /\ r.uv = sn.uv /\ r.uid \notin UidsOf(sn.msgs)
                     \/ r \in copies
<1> DEFINE f == fold[s]
           sn == snap[s]
           copies == {[uid |-> m.uid, uv |-> sn.uv, flags |-> m.flags] : m \in sn.msgs}
           left == {r \in rows'[f] : r.uv > 0}
           kept == Surviving(f, sn.uv)
<1>1. /\ f \in Folders /\ sn \in Snapshots /\ row[f] \in FolderRows /\ rows[f] \subseteq StoredRows
      /\ sn.uv > 0 /\ row[f].present
  BY DEF TypeOK, SnapshotInv, ApplySnapshot, Eligible
<1>2. rows' = [rows EXCEPT ![f] = Pruned(Upserted(kept, sn), sn)]
      /\ row' = [row EXCEPT ![f] =
                   [row[f] EXCEPT !.known = TRUE, !.uv = sn.uv, !.snap = gen[s]]]
  BY DEF ApplySnapshot
<1>3. /\ \A g \in Folders : g # f => rows'[g] = rows[g] /\ row'[g] = row[g]
      /\ rows'[f] = Pruned(Upserted(kept, sn), sn)
      /\ row'[f].uv = sn.uv /\ row'[f].present /\ row'[f].known
  BY <1>1, <1>2 DEF TypeOK, FolderRows
<1>4. ASSUME NEW r \in kept, r.uv > 0 PROVE r \in Copied(f) /\ r.uv = sn.uv
  <2>1. r \in rows[f] /\ ~(row[f].known /\ row[f].uv # sn.uv)
    BY <1>4 DEF Surviving
  <2>2. r \in Copied(f)
    BY <1>4, <2>1 DEF Copied
  <2>3. row[f].known /\ row[f].uv \in {0, r.uv}
    BY <1>1, <2>2 DEF RowsBelongToFolder
  <2>4. QED
    BY <1>1, <2>1, <2>2, <2>3 DEF Snapshots
<1>5. \A c \in copies : c.uv = sn.uv /\ c.uv > 0 /\ c.uid \in UidsOf(sn.msgs)
  BY <1>1 DEF UidsOf
<1>6. Upserted(kept, sn) = {r \in kept : r.uv # sn.uv \/ r.uid \notin UidsOf(sn.msgs)} \cup copies
  BY DEF Upserted
<1> HIDE DEF copies, kept
<1>7. \A r \in left : \/ r \in kept /\ (r.uv # sn.uv \/ r.uid \notin UidsOf(sn.msgs))
                      \/ r \in copies
  BY <1>3, <1>6 DEF Pruned
<1>8. \A r \in left : \/ r \in Copied(f) /\ r.uv = sn.uv /\ r.uid \notin UidsOf(sn.msgs)
                      \/ r \in copies
  BY <1>4, <1>7
<1>9. ASSUME sn.complete PROVE left = copies
  <2>1. rows'[f] = {r \in Upserted(kept, sn) : r.uv = sn.uv => r.uid \in UidsOf(sn.msgs)}
    BY <1>3, <1>9 DEF Pruned
  <2>2. \A r \in left : r \in copies
    BY <1>8, <2>1
  <2>3. \A c \in copies : c \in left
    BY <1>5, <1>6, <2>1
  <2>4. QED
    BY <2>2, <2>3
<1>10. QED
  BY <1>1, <1>3, <1>8, <1>9 DEF copies

\* An echo deletes rows, or rewrites the flags of one.
LEMMA EchoedRows ==
    ASSUME TypeOK, NEW m \in Mutators, EchoDelete(m) \/ EchoWrite(m), NEW f \in Folders
    PROVE  /\ \A r \in rows'[f] : \E q \in rows[f] : r.uid = q.uid /\ r.uv = q.uv
           /\ (\A r, q \in rows[f] : r.uid = q.uid /\ r.uv > 0 /\ q.uv > 0 => r = q)
                => (\A r, q \in rows'[f] : r.uid = q.uid /\ r.uv > 0 /\ q.uv > 0 => r = q)
<1> DEFINE c == mut[m]
<1>1. c.folder \in Folders /\ c.read \subseteq StoredRows
  BY DEF TypeOK, MutatorStates
<1>2. CASE rows'[f] \subseteq rows[f]
  BY <1>2
<1>3. CASE EchoDelete(m)
  <2>1. rows'[f] \subseteq rows[f]
    BY <1>1, <1>3 DEF EchoDelete, TypeOK
  <2>2. QED
    BY <1>2, <2>1
<1>4. CASE EchoWrite(m) /\ c.read # {} /\ f = c.folder
  <2>1. PICK old \in c.read : rows' = [rows EXCEPT ![c.folder] =
                {IF r.uid = old.uid /\ r.uv = old.uv
                 THEN WithFlag(old, c.flag, c.add) ELSE r : r \in @}]
    BY <1>4 DEF EchoWrite
  <2>2. rows'[f] = {IF r.uid = old.uid /\ r.uv = old.uv
                    THEN WithFlag(old, c.flag, c.add) ELSE r : r \in rows[f]}
    BY <1>1, <1>4, <2>1 DEF TypeOK
  <2>3. old \in StoredRows
    BY <1>1, <2>1
  <2>4. WithFlag(old, c.flag, c.add).uid = old.uid /\ WithFlag(old, c.flag, c.add).uv = old.uv
    BY <2>3 DEF WithFlag, StoredRows
  <2>5. QED
    BY <2>2, <2>4
<1>5. CASE EchoWrite(m) /\ ~(c.read # {} /\ f = c.folder)
  <2>1. rows'[f] = rows[f]
    <3>1. CASE c.read = {}
      BY <1>5, <3>1 DEF EchoWrite
    <3>2. CASE c.read # {}
      BY <1>5, <3>2 DEF EchoWrite, TypeOK
    <3>3. QED
      BY <3>1, <3>2
  <2>2. QED
    BY <1>2, <2>1
<1>6. QED
  BY <1>3, <1>4, <1>5

\* Rows belong to their folder, whatever happens.
LEMMA RowInductive ==
    ASSUME TypeOK, SnapshotInv, RowsBelongToFolder, [Next]_vars
    PROVE  RowsBelongToFolder'
<1> USE DEF RowsBelongToFolder, Copied
<1>1. CASE UNCHANGED store
  BY <1>1 DEF store
<1>2. ASSUME NEW s \in Syncers, ReconcileFolders(s) PROVE RowsBelongToFolder'
  BY <1>2 DEF ReconcileFolders, TypeOK, FolderRows, NoRow
<1>3. ASSUME NEW s \in Syncers, UpsertFolder(s) PROVE RowsBelongToFolder'
  <2>1. rows' = rows
    BY <1>3 DEF UpsertFolder
  <2>2. \A f \in Folders : /\ row'[f].uv = row[f].uv /\ row'[f].known = row[f].known
                           /\ row[f].present => row'[f].present
    <3>1. CASE listing[s] = {}
      BY <1>3, <3>1 DEF UpsertFolder
    <3>2. CASE listing[s] # {}
      <4>1. PICK g \in listing[s] : row' = [row EXCEPT ![g] = [row[g] EXCEPT !.present = TRUE]]
        BY <1>3, <3>2 DEF UpsertFolder
      <4>2. g \in Folders /\ row[g] \in FolderRows
        BY <4>1 DEF TypeOK
      <4>3. QED
        BY <4>1, <4>2 DEF TypeOK, FolderRows
    <3>3. QED
      BY <3>1, <3>2
  <2>3. QED
    BY <2>1, <2>2
<1>4. ASSUME NEW s \in Syncers, Reserve(s) PROVE RowsBelongToFolder'
  <2>1. rows' = rows
    BY <1>4 DEF Reserve
  <2>2. row' = [row EXCEPT ![fold[s]] = [row[fold[s]] EXCEPT !.present = TRUE, !.reserved = @ + 1]]
    BY <1>4 DEF Reserve
  <2>3. \A f \in Folders : /\ row'[f].uv = row[f].uv /\ row'[f].known = row[f].known
                           /\ row[f].present => row'[f].present
    BY <2>2 DEF TypeOK, FolderRows
  <2>4. QED
    BY <2>1, <2>3
<1>5. ASSUME NEW s \in Syncers, ApplySnapshot(s) PROVE RowsBelongToFolder'
  <2> DEFINE f == fold[s]
             sn == snap[s]
             copies == {[uid |-> m.uid, uv |-> sn.uv, flags |-> m.flags] : m \in sn.msgs}
             left == {r \in rows'[f] : r.uv > 0}
  <2>1. /\ \A g \in Folders : g # f => rows'[g] = rows[g] /\ row'[g] = row[g]
        /\ row'[f].uv = sn.uv /\ row'[f].present /\ row'[f].known /\ sn.uv > 0
        /\ \A r \in left :
              \/ r \in Copied(f) /\ r.uv = sn.uv /\ r.uid \notin UidsOf(sn.msgs)
              \/ r \in copies
    BY <1>5, AppliedRows
  <2>2. \A c \in copies : c.uv = sn.uv /\ c.uid \in UidsOf(sn.msgs)
    BY DEF UidsOf
  <2>3. \A c, d \in copies : c.uid = d.uid => c = d
    BY DEF SnapshotInv
  <2> HIDE DEF copies
  <2>4. \A r \in left : r.uv = sn.uv
    BY <2>1, <2>2
  <2>5. f \in Folders
    BY DEF TypeOK
  <2>6. ASSUME NEW r \in left, NEW q \in left, r.uid = q.uid PROVE r = q
    BY <2>1, <2>2, <2>3, <2>5, <2>6
  <2>7. ASSUME NEW g \in Folders, g # f
        PROVE  /\ \A r, q \in Copied(g)' : r.uv = q.uv /\ (r.uid = q.uid => r = q)
               /\ \A r \in Copied(g)' : row'[g].present /\ row'[g].known /\ row'[g].uv \in {0, r.uv}
    BY <2>1, <2>7
  <2>8. ASSUME NEW g \in Folders, g = f
        PROVE  /\ \A r, q \in Copied(g)' : r.uv = q.uv /\ (r.uid = q.uid => r = q)
               /\ \A r \in Copied(g)' : row'[g].present /\ row'[g].known /\ row'[g].uv \in {0, r.uv}
    <3>1. Copied(g)' = left
      BY <2>8
    <3>2. QED
      BY <2>1, <2>4, <2>6, <2>8, <3>1
  <2>9. QED
    BY <2>7, <2>8
<1>6. ASSUME NEW m \in Mutators, EchoDelete(m) \/ EchoWrite(m) PROVE RowsBelongToFolder'
  <2>1. row' = row
    BY <1>6 DEF EchoDelete, EchoWrite
  <2>2. ASSUME NEW f \in Folders
        PROVE  /\ \A r \in rows'[f] : \E q \in rows[f] : r.uid = q.uid /\ r.uv = q.uv
               /\ \A r, q \in rows'[f] : r.uid = q.uid /\ r.uv > 0 /\ q.uv > 0 => r = q
    BY <1>6, EchoedRows
  <2>3. QED
    BY <2>1, <2>2
<1>7. CASE ImportStep
  <2>1. \A f \in Folders :
          /\ row'[f] = row[f] \/ (row'[f].present /\ row'[f].known /\ row'[f].uv = 0)
          /\ Copied(f)' = Copied(f)
    BY <1>7, ImportsApart
  <2> HIDE DEF Copied
  <2>2. QED
    BY <2>1
<1>8. QED
  <2> HIDE DEF RowsBelongToFolder, Copied
  <2>1. ServerStep => UNCHANGED store
    BY DEF ServerStep, Deliver, RemoteExpunge, ResetUidvalidity, RemoveFolder, CreateFolder
  <2>2. ASSUME NEW s \in Syncers,
               \/ \E f \in Folders : Start(s, f)
               \/ ListFolders(s) \/ FetchHeaders(s) \/ FetchSince(s)
               \/ RejectSnapshot(s) \/ Fail(s)
        PROVE  UNCHANGED store
    BY <2>2 DEF Start, ListFolders, FetchHeaders, FetchSince, FetchAs, RejectSnapshot, Fail
  <2>3. ASSUME NEW m \in Mutators,
               BeginCommand(m) \/ ServerRequest(m) \/ EchoRead(m) \/ Interrupt(m)
        PROVE  UNCHANGED store
    BY <2>3 DEF BeginCommand, Begin, ServerRequest, EchoRead, Interrupt
  <2>4. UNCHANGED vars => UNCHANGED store
    BY DEF vars
  <2>5. CASE SyncerStep
    <3>1. PICK s \in Syncers :
            \/ \/ \E f \in Folders : Start(s, f)
               \/ ListFolders(s) \/ FetchHeaders(s) \/ FetchSince(s)
               \/ RejectSnapshot(s) \/ Fail(s)
            \/ ReconcileFolders(s)
            \/ UpsertFolder(s)
            \/ Reserve(s)
            \/ ApplySnapshot(s)
      BY <2>5 DEF SyncerStep
    <3>2. QED
      BY <1>1, <1>2, <1>3, <1>4, <1>5, <2>2, <3>1
  <2>6. CASE MutatorStep
    <3>1. PICK m \in Mutators :
            \/ BeginCommand(m) \/ ServerRequest(m) \/ EchoRead(m) \/ Interrupt(m)
            \/ EchoDelete(m) \/ EchoWrite(m)
      BY <2>6 DEF MutatorStep
    <3>2. QED
      BY <1>1, <1>6, <2>3, <3>1
  <2>7. QED
    BY <1>1, <1>7, <2>1, <2>4, <2>5, <2>6 DEF Next

\* Mailboxes, snapshots and rows are empty at the start.
LEMMA RowsInitially == Init => MailboxInv /\ SnapshotInv /\ RowsBelongToFolder
<1> SUFFICES ASSUME Init PROVE MailboxInv /\ SnapshotInv /\ RowsBelongToFolder
  OBVIOUS
<1>1. MailboxInv
  BY DEF Init, MailboxInv
<1>2. SnapshotInv
  BY DEF Init, SnapshotInv, NoSnapshot
<1>3. RowsBelongToFolder
  BY DEF Init, RowsBelongToFolder, Copied
<1>4. QED
  BY <1>1, <1>2, <1>3

\* The inductive invariant: UIDs are unique in a mailbox, in what a syncer fetched of
\* it and among the rows copied from it, which carry one UIDVALIDITY: the folder's,
\* unless an import has overwritten that with 0.
THEOREM RowsAreInOrder == Spec => [](MailboxInv /\ SnapshotInv /\ RowsBelongToFolder)
<1>1. TypeOK /\ (MailboxInv /\ SnapshotInv /\ RowsBelongToFolder) /\ [Next]_vars
        => (MailboxInv /\ SnapshotInv /\ RowsBelongToFolder)'
  BY MailboxInductive, SnapshotInductive, RowInductive
<1>2. QED
  BY <1>1, TypeCorrect, RowsInitially, PTL DEF Spec

\* For any number of syncers, user commands and imports: an absent folders row has no
\* copied rows, and the rows copied from the server into a folder are of one
\* UIDVALIDITY, one per UID, which the folder has too or an import has overwritten.
THEOREM RowsAlwaysBelong == Spec => []RowsBelongToFolder
<1>1. MailboxInv /\ SnapshotInv /\ RowsBelongToFolder => RowsBelongToFolder
  OBVIOUS
<1>2. QED
  BY <1>1, RowsAreInOrder, PTL

----------------------------------------------------------------------------
(* A complete snapshot is authoritative. *)

\* A step either leaves the mailboxes and their UIDVALIDITY alone, or takes the
\* server to a version that no snapshot shows.
LEMMA ServerMoves ==
    ASSUME TypeOK, [Next]_vars
    PROVE  UNCHANGED <<suv, mbox, ver>> \/ ver' = ver + 1
<1>1. CASE ServerStep
  BY <1>1 DEF ServerStep, Deliver, RemoteExpunge, ResetUidvalidity, RemoveFolder, CreateFolder,
     Changed
<1>2. CASE MutatorStep
  <2>1. ASSUME NEW m \in Mutators, ServerRequest(m)
        PROVE  (mbox' = mbox /\ ver' = ver) \/ ver' = ver + 1
    BY <2>1 DEF ServerRequest, Changed
  <2>2. QED
    BY <1>2, <2>1, MutatorKeeps
<1>3. CASE SyncerStep \/ ImportStep \/ UNCHANGED vars
  BY <1>3, ServerKept DEF server
<1>4. QED
  BY <1>1, <1>2, <1>3 DEF Next

\* AuthorityInv is kept by a step of the server, of a user command or none, which
\* leaves the rows of a folder alone or makes the snapshot no longer faithful.
LEMMA OthersKeepAuthority ==
    ASSUME TypeOK, MirrorInv, AuthorityInv, ServerStep \/ MutatorStep \/ UNCHANGED vars
    PROVE  AuthorityInv'
<1>1. UNCHANGED <<pc, fold, snap, mirrored>> /\ ver' \in Nat
  BY OtherSteps DEF process
<1>2. ver \in Nat /\ \A f \in Folders : mirrored[f] \in Nat /\ mirrored[f] <= ver
  BY DEF TypeOK, MirrorInv
<1>3. ASSUME NEW s \in Syncers, pc[s] = "apply"
      PROVE  snap[s].at \in Nat /\ snap[s].at <= ver /\ fold[s] \in Folders
  BY <1>3 DEF TypeOK, MirrorInv, Snapshots
<1>4. \A f \in Folders : faithful'[f] => faithful[f] /\ rows'[f] = rows[f]
  <2>1. CASE ServerStep \/ UNCHANGED vars
    BY <2>1 DEF ServerStep, Deliver, RemoteExpunge, ResetUidvalidity, RemoveFolder, CreateFolder,
       store, ghosts, vars
  <2>2. ASSUME NEW m \in Mutators, EchoDelete(m)
        PROVE  \A f \in Folders : faithful'[f] => faithful[f] /\ rows'[f] = rows[f]
    <3> DEFINE c == mut[m]
    <3>1. c.folder \in Folders
      BY DEF TypeOK, MutatorStates
    <3>2. /\ faithful' = [faithful EXCEPT ![c.folder] = @ /\ rows' = rows]
          /\ \A f \in Folders : f # c.folder => rows'[f] = rows[f]
      BY <2>2, <3>1 DEF EchoDelete, TypeOK
    <3>3. QED
      BY <3>1, <3>2 DEF TypeOK
  <2>3. ASSUME NEW m \in Mutators, EchoWrite(m)
        PROVE  \A f \in Folders : faithful'[f] => faithful[f] /\ rows'[f] = rows[f]
    <3> DEFINE c == mut[m]
    <3>1. c.folder \in Folders
      BY DEF TypeOK, MutatorStates
    <3>2. CASE c.read = {}
      BY <2>3, <3>2 DEF EchoWrite
    <3>3. CASE c.read # {}
      <4>1. /\ faithful' = [faithful EXCEPT ![c.folder] = @ /\ rows' = rows]
            /\ \A f \in Folders : f # c.folder => rows'[f] = rows[f]
        BY <2>3, <3>1, <3>3 DEF EchoWrite, TypeOK
      <4>2. QED
        BY <3>1, <4>1 DEF TypeOK
    <3>4. QED
      BY <3>2, <3>3
  <2>4. ASSUME NEW m \in Mutators,
               BeginCommand(m) \/ ServerRequest(m) \/ EchoRead(m) \/ Interrupt(m)
        PROVE  UNCHANGED <<rows, faithful>>
    BY <2>4 DEF BeginCommand, Begin, ServerRequest, EchoRead, Interrupt, store, ghosts
  <2>5. CASE MutatorStep
    <3>1. PICK m \in Mutators :
            \/ BeginCommand(m) \/ ServerRequest(m) \/ EchoRead(m) \/ Interrupt(m)
            \/ EchoDelete(m) \/ EchoWrite(m)
      BY <2>5 DEF MutatorStep
    <3>2. QED
      BY <2>2, <2>3, <2>4, <3>1
  <2>6. QED
    BY <2>1, <2>5
<1>5. UNCHANGED <<suv, mbox, ver>> \/ ver' = ver + 1
  BY ServerMoves DEF Next
<1>6. CASE UNCHANGED <<suv, mbox, ver>>
  <2>1. \A f \in Folders : faithful'[f] => faithful[f] /\ Copied(f)' = Copied(f)
    BY <1>4 DEF Copied
  <2>2. QED
    BY <1>1, <1>6, <2>1 DEF AuthorityInv, CompleteSnapshotIsAuthoritative
<1>7. CASE ver' = ver + 1
  <2>1. \A f \in Folders : mirrored'[f] # ver'
    BY <1>1, <1>2, <1>7
  <2>2. \A s \in Syncers : pc'[s] = "apply" => snap'[s].at # ver'
    BY <1>1, <1>2, <1>3, <1>7
  <2>3. QED
    BY <2>1, <2>2 DEF AuthorityInv, CompleteSnapshotIsAuthoritative
<1>8. QED
  BY <1>5, <1>6, <1>7

\* So is it by a syncer.
LEMMA SyncersKeepAuthority ==
    ASSUME TypeOK, MirrorInv, SnapshotInv, RowsBelongToFolder, AuthorityInv,
           NEW s \in Syncers,
           \/ \E f \in Folders : Start(s, f)
           \/ ListFolders(s) \/ ReconcileFolders(s) \/ UpsertFolder(s) \/ Reserve(s)
           \/ FetchHeaders(s) \/ FetchSince(s)
           \/ ApplySnapshot(s) \/ RejectSnapshot(s) \/ Fail(s)
    PROVE  AuthorityInv'
<1>1. UNCHANGED <<suv, mbox, ver>>
  BY DEF Start, ListFolders, ReconcileFolders, UpsertFolder, Reserve, FetchHeaders,
     FetchSince, FetchAs, ApplySnapshot, RejectSnapshot, Fail, server
<1>2. ASSUME UNCHANGED <<rows, faithful, mirrored>>,
             \A t \in Syncers : pc'[t] = "apply" =>
                pc[t] = "apply" /\ snap'[t] = snap[t] /\ fold'[t] = fold[t]
      PROVE  AuthorityInv'
  BY <1>1, <1>2 DEF AuthorityInv, CompleteSnapshotIsAuthoritative, Copied
<1>3. CASE \E f \in Folders : Start(s, f)
  <2>1. \A t \in Syncers : pc'[t] = "apply" =>
           pc[t] = "apply" /\ snap'[t] = snap[t] /\ fold'[t] = fold[t]
    BY <1>3 DEF Start, TypeOK
  <2>2. QED
    BY <1>2, <1>3, <2>1 DEF Start, store, ghosts
<1>4. CASE ListFolders(s) \/ UpsertFolder(s) \/ Reserve(s)
  <2>1. UNCHANGED <<snap, fold, rows, faithful, mirrored>>
    BY <1>4 DEF ListFolders, UpsertFolder, Reserve, store, ghosts
  <2>2. \A t \in Syncers : pc'[t] = "apply" => pc[t] = "apply"
    <3>1. pc' = pc \/ \E next \in {"record", "reserve", "fetch"} : pc' = [pc EXCEPT ![s] = next]
      BY <1>4 DEF ListFolders, UpsertFolder, Reserve
    <3>2. QED
      BY <3>1 DEF TypeOK
  <2>3. QED
    BY <1>2, <2>1, <2>2
<1>5. CASE ReconcileFolders(s)
  <2>1. UNCHANGED <<snap, fold, mirrored>>
    BY <1>5 DEF ReconcileFolders
  <2>2. \A t \in Syncers : pc'[t] = "apply" => pc[t] = "apply"
    BY <1>5 DEF ReconcileFolders, TypeOK
  <2>3. \A f \in Folders : faithful'[f] => faithful[f] /\ Copied(f)' = Copied(f)
    BY <1>5 DEF ReconcileFolders, Copied
  <2>4. QED
    BY <1>1, <2>1, <2>2, <2>3 DEF AuthorityInv, CompleteSnapshotIsAuthoritative
<1>6. ASSUME NEW msgs \in SUBSET mbox[fold[s]], NEW complete \in BOOLEAN,
             FetchAs(s, msgs, complete), complete => msgs = mbox[fold[s]]
      PROVE  AuthorityInv'
  <2>1. UNCHANGED <<rows, faithful, mirrored, fold>>
    BY <1>6 DEF FetchAs, store, ghosts
  <2>2. \A t \in Syncers : t # s => pc'[t] = pc[t] /\ snap'[t] = snap[t]
    BY <1>6 DEF FetchAs, TypeOK
  <2>3. /\ snap'[s].uv = suv[fold[s]] /\ snap'[s].msgs = msgs /\ snap'[s].complete = complete
    BY <1>6 DEF FetchAs, TypeOK
  <2>4. QED
    BY <1>1, <1>6, <2>1, <2>2, <2>3 DEF AuthorityInv, CompleteSnapshotIsAuthoritative, Copied
<1>7. CASE FetchHeaders(s) \/ FetchSince(s)
  BY <1>6, <1>7 DEF FetchHeaders, FetchSince
<1>8. ASSUME Release(s)
      PROVE  \A t \in Syncers : pc'[t] = "apply" =>
                pc[t] = "apply" /\ snap'[t] = snap[t] /\ fold'[t] = fold[t]
  BY <1>8 DEF Release, TypeOK
<1>9. CASE RejectSnapshot(s) \/ Fail(s)
  BY <1>2, <1>8, <1>9 DEF RejectSnapshot, Fail, store, ghosts
<1>10. CASE ApplySnapshot(s)
  <2> DEFINE f == fold[s]
             sn == snap[s]
             copies == {[uid |-> m.uid, uv |-> sn.uv, flags |-> m.flags] : m \in sn.msgs}
  <2>1. /\ \A g \in Folders : g # f => Copied(g)' = Copied(g)
        /\ \A g \in Folders : g = f /\ sn.complete => Copied(g)' = copies
    BY <1>10, AppliedRows DEF Copied
  <2>2. f \in Folders /\ pc[s] = "apply"
    BY <1>10 DEF ApplySnapshot, TypeOK
  <2>3. /\ mirrored' = [mirrored EXCEPT ![f] = sn.at]
        /\ faithful' = [faithful EXCEPT ![f] = sn.complete]
    BY <1>10 DEF ApplySnapshot
  <2>4. ASSUME NEW g \in Folders, faithful'[g], mirrored'[g] = ver'
        PROVE  Copied(g)' = {[uid |-> m.uid, uv |-> suv'[g], flags |-> m.flags] : m \in mbox'[g]}
    <3>1. CASE g = f
      <4>1. sn.complete /\ sn.at = ver
        BY <1>1, <2>2, <2>3, <2>4, <3>1 DEF TypeOK
      <4>2. sn.msgs = mbox[f] /\ sn.uv = suv[f]
        BY <2>2, <4>1 DEF AuthorityInv
      <4>3. QED
        BY <1>1, <2>1, <3>1, <4>1, <4>2
    <3>2. CASE g # f
      <4>1. faithful[g] /\ mirrored[g] = ver
        BY <1>1, <2>2, <2>3, <2>4, <3>2 DEF TypeOK
      <4>2. QED
        BY <1>1, <2>1, <3>2, <4>1 DEF AuthorityInv, CompleteSnapshotIsAuthoritative
    <3>3. QED
      BY <3>1, <3>2
  <2>5. \A t \in Syncers : pc'[t] = "apply" =>
           pc[t] = "apply" /\ snap'[t] = snap[t] /\ fold'[t] = fold[t]
    BY <1>8, <1>10 DEF ApplySnapshot
  <2>6. QED
    BY <1>1, <2>4, <2>5 DEF AuthorityInv, CompleteSnapshotIsAuthoritative
<1>11. QED
  BY <1>3, <1>4, <1>5, <1>7, <1>9, <1>10

\* As long as no echo of a user command touched a complete snapshot, and the server
\* is as it was when the snapshot was fetched, the index holds exactly the server's
\* messages and what was imported: whatever superseded, incomplete or foreign snapshots
\* there were.
THEOREM CompleteSnapshotsAreAuthoritative == Spec => []CompleteSnapshotIsAuthoritative
<1>1. Init => AuthorityInv
  BY DEF Init, AuthorityInv, CompleteSnapshotIsAuthoritative
<1>2. TypeOK /\ MirrorInv /\ SnapshotInv /\ RowsBelongToFolder /\ AuthorityInv /\ [Next]_vars
        => AuthorityInv'
  <2> SUFFICES ASSUME TypeOK, MirrorInv, SnapshotInv, RowsBelongToFolder, AuthorityInv, [Next]_vars
               PROVE  AuthorityInv'
    OBVIOUS
  <2>1. CASE ServerStep \/ MutatorStep \/ UNCHANGED vars
    BY <2>1, OthersKeepAuthority
  <2>2. CASE SyncerStep
    <3>1. PICK s \in Syncers :
            \/ \E f \in Folders : Start(s, f)
            \/ ListFolders(s) \/ ReconcileFolders(s) \/ UpsertFolder(s) \/ Reserve(s)
            \/ FetchHeaders(s) \/ FetchSince(s)
            \/ ApplySnapshot(s) \/ RejectSnapshot(s) \/ Fail(s)
      BY <2>2 DEF SyncerStep
    <3>2. QED
      BY <3>1, SyncersKeepAuthority
  <2>3. CASE ImportStep
    <3>1. /\ UNCHANGED <<suv, mbox, ver, pc, fold, snap, mirrored, faithful>>
          /\ \A f \in Folders : Copied(f)' = Copied(f)
      BY <2>3, ImportsApart DEF server, process, ghosts
    <3>2. QED
      BY <3>1 DEF AuthorityInv, CompleteSnapshotIsAuthoritative
  <2>4. QED
    BY <2>1, <2>2, <2>3 DEF Next
<1>3. AuthorityInv => CompleteSnapshotIsAuthoritative
  BY DEF AuthorityInv
<1>4. QED
  BY <1>1, <1>2, <1>3, TypeCorrect, Reservations, RowsAreInOrder, PTL DEF Spec

----------------------------------------------------------------------------
(* Nothing is announced twice. *)

\* The UIDs and the UIDVALIDITY of a folder that lasts only grow: what is in the
\* mailbox was there before, or has a new UID.
LEMMA PermanentGrows ==
    ASSUME TypeOK, [Next]_vars, NEW f \in Permanent
    PROVE  /\ suv[f] \in Nat /\ suv'[f] \in Nat /\ suv[f] <= suv'[f]
           /\ unext[f] \in Nat /\ unext'[f] \in Nat /\ unext[f] <= unext'[f]
           /\ \A u \in UidsOf(mbox'[f]) : u \in UidsOf(mbox[f]) \/ u = unext[f]
<1>0. f \in Folders /\ f \in exists /\ suv[f] \in Nat /\ unext[f] \in Nat
  BY PermanentAssumption DEF TypeOK
<1>1. ASSUME NEW g \in Folders, Deliver(g)
      PROVE  /\ suv'[f] = suv[f] /\ unext'[f] \in {unext[f], unext[f] + 1}
             /\ \A u \in UidsOf(mbox'[f]) : u \in UidsOf(mbox[f]) \/ u = unext[f]
  <2>1. mbox'[f] \in {mbox[f], mbox[f] \cup {[uid |-> unext[f], flags |-> {}]}}
    BY <1>0, <1>1 DEF Deliver, TypeOK
  <2>2. \A x \in mbox'[f] : x \in mbox[f] \/ x.uid = unext[f]
    BY <2>1
  <2>3. suv' = suv /\ unext'[f] \in {unext[f], unext[f] + 1}
    BY <1>0, <1>1 DEF Deliver, TypeOK
  <2>4. QED
    BY <2>2, <2>3 DEF UidsOf
<1>2. ASSUME NEW g \in Folders, RemoteExpunge(g)
      PROVE  suv'[f] = suv[f] /\ unext'[f] = unext[f] /\ mbox'[f] \subseteq mbox[f]
  BY <1>0, <1>2 DEF RemoteExpunge, TypeOK
<1>3. ASSUME NEW g \in Folders, ResetUidvalidity(g)
      PROVE  /\ suv'[f] \in {suv[f], suv[f] + 1} /\ unext'[f] = unext[f]
             /\ mbox'[f] \subseteq mbox[f]
  BY <1>0, <1>3 DEF ResetUidvalidity, TypeOK
<1>4. ASSUME NEW g \in Folders, RemoveFolder(g) \/ CreateFolder(g)
      PROVE  suv'[f] = suv[f] /\ unext'[f] = unext[f] /\ mbox'[f] = mbox[f]
  BY <1>0, <1>4 DEF RemoveFolder, CreateFolder, TypeOK
<1>5. ASSUME NEW m \in Mutators, ServerRequest(m)
      PROVE  /\ suv'[f] = suv[f] /\ unext'[f] = unext[f]
             /\ \A u \in UidsOf(mbox'[f]) : u \in UidsOf(mbox[f])
  <2>1. \A x \in mbox'[f] : \E y \in mbox[f] : x.uid = y.uid
    BY <1>0, <1>5, RequestKeepsUids
  <2>2. QED
    BY <1>5, <2>1 DEF ServerRequest, UidsOf
<1>6. CASE UNCHANGED <<suv, unext, mbox>>
  BY <1>0, <1>6
<1>7. mbox'[f] \subseteq mbox[f] => \A u \in UidsOf(mbox'[f]) : u \in UidsOf(mbox[f])
  BY DEF UidsOf
<1>8. CASE ServerStep
  BY <1>0, <1>1, <1>2, <1>3, <1>4, <1>7, <1>8 DEF ServerStep
<1>9. CASE MutatorStep
  BY <1>0, <1>5, <1>6, <1>9, MutatorKeeps
<1>10. CASE SyncerStep \/ ImportStep \/ UNCHANGED vars
  BY <1>6, <1>10, ServerKept DEF server
<1>11. QED
  BY <1>8, <1>9, <1>10 DEF Next

\* A step that keeps the rows of what stays announced, and lets no other snapshot
\* become current.
LEMMA StillAnnounced ==
    ASSUME TypeOK, [Next]_vars, NEW f \in Permanent, AnnounceFor(f),
           announced'[f] \subseteq announced[f],
           \A a \in announced'[f] : Recorded(a, f) => Recorded(a, f)',
           \A s \in Syncers : Current(s, f)' => Current(s, f) /\ snap'[s] = snap[s]
    PROVE  AnnounceFor(f)'
<1>1. /\ suv[f] \in Nat /\ suv'[f] \in Nat /\ suv[f] <= suv'[f]
      /\ unext[f] \in Nat /\ unext'[f] \in Nat /\ unext[f] <= unext'[f]
      /\ \A u \in UidsOf(mbox'[f]) : u \in UidsOf(mbox[f]) \/ u = unext[f]
  BY PermanentGrows
<1>2. f \in Folders
  BY PermanentAssumption
<1>3. \A a \in announced[f] : a[1] \in Nat /\ a[2] \in Nat
  <2>1. announced[f] \subseteq Nat \X Nat
    <3>1. announced[f] \in SUBSET (Nat \X Uids)
      BY <1>2 DEF TypeOK
    <3>2. Nat \X Uids \subseteq Nat \X Nat
      BY UidsAssumption
    <3>3. QED
      BY <3>1, <3>2
  <2>2. QED
    BY <2>1
<1>4. \A a \in announced[f] : a[2] \notin UidsOf(mbox[f]) => a[2] \notin UidsOf(mbox'[f])
  BY <1>1, <1>3 DEF AnnounceFor
<1>5. ASSUME NEW a \in announced'[f]
      PROVE  /\ a[1] <= suv'[f] /\ a[2] < unext'[f]
             /\ a[1] = suv'[f] => Recorded(a, f)' \/ a[2] \notin UidsOf(mbox'[f])
  <2>1. /\ a[1] <= suv[f] /\ a[2] < unext[f]
        /\ a[1] = suv[f] => Recorded(a, f) \/ a[2] \notin UidsOf(mbox[f])
    BY DEF AnnounceFor
  <2>2. a[1] \in Nat /\ a[2] \in Nat
    BY <1>3
  <2>3. a[1] = suv'[f] => a[1] = suv[f]
    BY <1>1, <2>1, <2>2
  <2>4. QED
    BY <1>1, <1>4, <2>1, <2>2, <2>3
<1>6. ASSUME NEW s \in Syncers, Current(s, f)'
      PROVE  /\ snap'[s].uv <= suv'[f]
             /\ \A m \in snap'[s].msgs : m.uid < unext'[f]
             /\ \A a \in announced'[f] :
                   /\ a[1] <= snap'[s].uv
                   /\ a[1] = snap'[s].uv => Recorded(a, f)' \/ a[2] \notin UidsOf(snap'[s].msgs)
                   /\ snap'[s].complete /\ a[2] \notin UidsOf(snap'[s].msgs)
                         => a[2] \notin UidsOf(mbox'[f])
  <2>1. Current(s, f) /\ snap'[s] = snap[s]
    BY <1>6
  <2>2. snap[s].uv \in Nat /\ \A m \in snap[s].msgs : m.uid \in Nat
    <3>1. snap[s] \in Snapshots
      BY DEF TypeOK
    <3>2. QED
      BY <3>1, UidsAssumption DEF Snapshots, Messages
  <2>3. snap[s].uv <= suv[f] /\ \A m \in snap[s].msgs : m.uid < unext[f]
    BY <2>1 DEF AnnounceFor
  <2>4. \A a \in announced[f] :
          /\ a[1] <= snap[s].uv
          /\ a[1] = snap[s].uv => Recorded(a, f) \/ a[2] \notin UidsOf(snap[s].msgs)
          /\ snap[s].complete /\ a[2] \notin UidsOf(snap[s].msgs)
                => a[2] \notin UidsOf(mbox[f])
    BY <2>1 DEF AnnounceFor
  <2>5. snap'[s].uv <= suv'[f] /\ \A m \in snap'[s].msgs : m.uid < unext'[f]
    BY <1>1, <2>1, <2>2, <2>3
  <2>6. QED
    BY <1>4, <2>1, <2>4, <2>5
<1>7. QED
  BY <1>5, <1>6 DEF AnnounceFor

\* Only reserving makes a generation lag behind, and nothing makes one catch up.
LEMMA NoneBecomesCurrent ==
    ASSUME TypeOK, ReservationInv, NEW f \in Permanent, NEW s \in Syncers,
           row'[f].reserved \in {row[f].reserved, row[f].reserved + 1},
           pc'[s] # "apply",
           \A t \in Syncers : t # s => /\ pc'[t] = pc[t] /\ fold'[t] = fold[t]
                                       /\ gen'[t] = gen[t] /\ snap'[t] = snap[t]
    PROVE  \A t \in Syncers : Current(t, f)' => Current(t, f) /\ snap'[t] = snap[t]
<1> SUFFICES ASSUME NEW t \in Syncers, Current(t, f)'
             PROVE  Current(t, f) /\ snap'[t] = snap[t]
  OBVIOUS
<1>1. t # s /\ pc[t] = "apply" /\ fold[t] = f /\ gen[t] = row'[f].reserved /\ snap'[t] = snap[t]
  BY DEF Current
<1>2. gen[t] <= row[f].reserved
  BY <1>1 DEF ReservationInv, Working
<1>3. gen[t] \in Nat /\ row[f].reserved \in Nat
  BY PermanentAssumption DEF TypeOK, FolderRows
<1>4. QED
  BY <1>1, <1>2, <1>3 DEF Current

\* The steps of a syncer that leave the message rows of a lasting folder alone.
LEMMA PreparingKeepsRows ==
    ASSUME TypeOK, ReservationInv, NEW s \in Syncers, NEW f \in Permanent,
           \/ \E g \in Folders : Start(s, g)
           \/ ListFolders(s) \/ ReconcileFolders(s) \/ UpsertFolder(s) \/ Reserve(s)
           \/ RejectSnapshot(s) \/ Fail(s)
    PROVE  /\ rows'[f] = rows[f] /\ announced' = announced
           /\ row'[f].reserved \in {row[f].reserved, row[f].reserved + 1}
           /\ pc'[s] # "apply"
           /\ \A t \in Syncers : t # s => /\ pc'[t] = pc[t] /\ fold'[t] = fold[t]
                                          /\ gen'[t] = gen[t] /\ snap'[t] = snap[t]
<1>0. f \in Folders /\ row[f] \in FolderRows
  BY PermanentAssumption DEF TypeOK
<1>1. CASE (\E g \in Folders : Start(s, g)) \/ ListFolders(s)
  BY <1>1 DEF Start, ListFolders, TypeOK, store, ghosts
<1>2. CASE ReconcileFolders(s)
  <2>1. f \in listing[s]
    BY <1>2 DEF ReconcileFolders, ReservationInv
  <2>2. row'[f] = [row[f] EXCEPT !.present = TRUE] /\ rows'[f] = rows[f]
    BY <1>0, <1>2, <2>1 DEF ReconcileFolders
  <2>3. row'[f].reserved = row[f].reserved
    BY <1>0, <2>2 DEF FolderRows
  <2>4. QED
    BY <1>2, <2>2, <2>3 DEF ReconcileFolders, TypeOK
<1>3. CASE UpsertFolder(s)
  <2>1. row'[f].reserved = row[f].reserved
    <3>1. CASE listing[s] = {}
      BY <1>3, <3>1 DEF UpsertFolder
    <3>2. CASE listing[s] # {}
      <4>1. PICK g \in listing[s] : row' = [row EXCEPT ![g] = [row[g] EXCEPT !.present = TRUE]]
        BY <1>3, <3>2 DEF UpsertFolder
      <4>2. QED
        BY <1>0, <4>1 DEF TypeOK, FolderRows
    <3>3. QED
      BY <3>1, <3>2
  <2>2. pc'[s] # "apply" /\ \A t \in Syncers : t # s => pc'[t] = pc[t]
    BY <1>3 DEF UpsertFolder, TypeOK
  <2>3. QED
    BY <1>3, <2>1, <2>2 DEF UpsertFolder, ghosts
<1>4. CASE Reserve(s)
  <2>1. row' = [row EXCEPT ![fold[s]] = [row[fold[s]] EXCEPT !.present = TRUE,
                                                           !.reserved = row[fold[s]].reserved + 1]]
    BY <1>4 DEF Reserve
  <2>2. row'[f].reserved \in {row[f].reserved, row[f].reserved + 1}
    BY <1>0, <2>1 DEF TypeOK, FolderRows
  <2>3. QED
    BY <1>4, <2>2 DEF Reserve, TypeOK
<1>5. CASE RejectSnapshot(s) \/ Fail(s)
  BY <1>5 DEF RejectSnapshot, Fail, Release, TypeOK, store, ghosts
<1>6. QED
  BY <1>1, <1>2, <1>3, <1>4, <1>5

\* An echo deletes rows, whose messages may be announced again, or rewrites one.
LEMMA EchoKeepsAnnounced ==
    ASSUME TypeOK, NEW m \in Mutators, EchoDelete(m) \/ EchoWrite(m), NEW f \in Folders
    PROVE  /\ announced'[f] \subseteq announced[f]
           /\ \A a \in announced'[f] : Recorded(a, f) => Recorded(a, f)'
<1> DEFINE c == mut[m]
<1>0. c.folder \in Folders /\ c.read \subseteq StoredRows
  BY DEF TypeOK, MutatorStates
<1>1. CASE EchoDelete(m) /\ f = c.folder
  <2>1. announced'[f] = announced[f] \ Keys(rows[f] \ rows'[f])
    BY <1>0, <1>1 DEF EchoDelete, TypeOK
  <2>2. ASSUME NEW a \in announced'[f], Recorded(a, f) PROVE Recorded(a, f)'
    <3>1. PICK r \in rows[f] : a = <<r.uv, r.uid>>
      BY <2>2 DEF Recorded, Keys
    <3>2. r \in rows'[f]
      BY <2>1, <2>2, <3>1 DEF Keys
    <3>3. QED
      BY <3>1, <3>2 DEF Recorded, Keys
  <2>3. QED
    BY <2>1, <2>2
<1>2. CASE EchoDelete(m) /\ f # c.folder
  BY <1>0, <1>2 DEF EchoDelete, TypeOK, Recorded
<1>3. CASE EchoWrite(m)
  <2>1. announced' = announced
    BY <1>3 DEF EchoWrite
  <2>2. \A r \in rows[f] : \E q \in rows'[f] : q.uid = r.uid /\ q.uv = r.uv
    <3>1. CASE c.read = {}
      BY <1>3, <3>1 DEF EchoWrite
    <3>2. CASE c.read # {} /\ f # c.folder
      BY <1>0, <1>3, <3>2 DEF EchoWrite, TypeOK
    <3>3. CASE c.read # {} /\ f = c.folder
      <4>1. PICK old \in c.read : rows' = [rows EXCEPT ![c.folder] =
                    {IF r.uid = old.uid /\ r.uv = old.uv
                     THEN WithFlag(old, c.flag, c.add) ELSE r : r \in @}]
        BY <1>3, <3>3 DEF EchoWrite
      <4>2. rows'[f] = {IF r.uid = old.uid /\ r.uv = old.uv
                        THEN WithFlag(old, c.flag, c.add) ELSE r : r \in rows[f]}
        BY <1>0, <3>3, <4>1 DEF TypeOK
      <4>3. /\ WithFlag(old, c.flag, c.add).uid = old.uid
            /\ WithFlag(old, c.flag, c.add).uv = old.uv
        BY <1>0 DEF WithFlag, StoredRows
      <4>4. QED
        BY <4>2, <4>3
    <3>4. QED
      BY <3>1, <3>2, <3>3
  <2>3. ASSUME NEW a, Recorded(a, f) PROVE Recorded(a, f)'
    <3>1. PICK r \in rows[f] : a = <<r.uv, r.uid>>
      BY <2>3 DEF Recorded, Keys
    <3>2. PICK q \in rows'[f] : q.uid = r.uid /\ q.uv = r.uv
      BY <2>2
    <3>3. QED
      BY <3>1, <3>2 DEF Recorded, Keys
  <2>4. QED
    BY <2>1, <2>3
<1>4. QED
  BY <1>1, <1>2, <1>3

\* The server's steps, those of the commands, and stuttering.
LEMMA OthersKeepAnnounced ==
    ASSUME TypeOK, AnnounceInv, [Next]_vars, ServerStep \/ MutatorStep \/ UNCHANGED vars
    PROVE  AnnounceInv'
<1> SUFFICES ASSUME NEW f \in Permanent PROVE AnnounceFor(f)'
  BY DEF AnnounceInv
<1>1. UNCHANGED <<row, process>>
  BY OtherSteps
<1>2. \A s \in Syncers : Current(s, f)' => Current(s, f) /\ snap'[s] = snap[s]
  BY <1>1 DEF Current, process
<1>3. AnnounceFor(f) /\ f \in Folders
  BY PermanentAssumption DEF AnnounceInv
<1>4. CASE UNCHANGED <<rows, announced>>
  BY <1>1, <1>2, <1>3, <1>4, StillAnnounced DEF Recorded
<1>5. ASSUME NEW m \in Mutators, EchoDelete(m) \/ EchoWrite(m) PROVE AnnounceFor(f)'
  BY <1>1, <1>2, <1>3, <1>5, EchoKeepsAnnounced, StillAnnounced
<1>6. CASE ServerStep \/ UNCHANGED vars
  BY <1>4, <1>6 DEF ServerStep, Deliver, RemoteExpunge, ResetUidvalidity, RemoveFolder,
                    CreateFolder, store, ghosts, vars
<1>7. CASE MutatorStep
  BY <1>4, <1>5, <1>7 DEF MutatorStep, BeginCommand, Begin, ServerRequest, EchoRead, Interrupt,
                          store, ghosts
<1>8. QED
  BY <1>6, <1>7

\* A fetch sees every message that is announced and still there.
LEMMA FetchKeepsAnnounced ==
    ASSUME TypeOK, MailboxInv, ReservationInv, AnnounceInv, [Next]_vars, NEW s \in Syncers,
           NEW msgs \in SUBSET mbox[fold[s]], NEW complete \in BOOLEAN,
           complete => msgs = mbox[fold[s]], FetchAs(s, msgs, complete)
    PROVE  AnnounceInv'
<1> SUFFICES ASSUME NEW f \in Permanent PROVE AnnounceFor(f)'
  BY DEF AnnounceInv
<1>0. f \in Folders /\ AnnounceFor(f)
  BY PermanentAssumption DEF AnnounceInv
<1>1. UNCHANGED <<server, row, rows, fold, gen, announced>>
  BY DEF FetchAs, store, ghosts
<1>2. \A t \in Syncers : t # s => pc'[t] = pc[t] /\ snap'[t] = snap[t]
  BY DEF FetchAs, TypeOK
<1>3. CASE fold[s] # f
  <2>1. \A t \in Syncers : Current(t, f)' => Current(t, f) /\ snap'[t] = snap[t]
    BY <1>1, <1>2, <1>3 DEF Current
  <2>2. QED
    BY <1>0, <1>1, <2>1, StillAnnounced DEF Recorded
<1>4. CASE fold[s] = f
  <2>1. snap'[s] = [uv |-> suv[f], msgs |-> msgs, complete |-> complete, at |-> ver]
    BY <1>4 DEF FetchAs, TypeOK
  <2>2. snap'[s].uv = suv[f] /\ snap'[s].msgs = msgs /\ snap'[s].complete = complete
    BY <2>1
  <2>3. UidsOf(msgs) \subseteq UidsOf(mbox[f]) /\ (complete => msgs = mbox[f])
    BY <1>4 DEF UidsOf
  <2>4. suv[f] \in Nat /\ suv[f] <= suv[f]
    BY <1>0 DEF TypeOK
  <2>5. \A m \in msgs : m.uid < unext[f]
    BY <1>0, <1>4 DEF MailboxInv
  <2>6. \A a \in announced[f] :
          /\ a[1] <= suv[f]
          /\ a[1] = suv[f] => Recorded(a, f) \/ a[2] \notin UidsOf(mbox[f])
    BY <1>0 DEF AnnounceFor
  <2>7. \A a \in announced[f] : Recorded(a, f)' <=> Recorded(a, f)
    BY <1>1 DEF Recorded
  <2>8. /\ snap'[s].uv <= suv'[f]
        /\ \A m \in snap'[s].msgs : m.uid < unext'[f]
        /\ \A a \in announced'[f] :
              /\ a[1] <= snap'[s].uv
              /\ a[1] = snap'[s].uv => Recorded(a, f)' \/ a[2] \notin UidsOf(snap'[s].msgs)
              /\ snap'[s].complete /\ a[2] \notin UidsOf(snap'[s].msgs)
                    => a[2] \notin UidsOf(mbox'[f])
    BY <1>1, <2>2, <2>3, <2>4, <2>5, <2>6, <2>7 DEF server
  <2>9. ASSUME NEW t \in Syncers, t # s, Current(t, f)'
        PROVE  /\ snap'[t].uv <= suv'[f]
               /\ \A m \in snap'[t].msgs : m.uid < unext'[f]
               /\ \A a \in announced'[f] :
                     /\ a[1] <= snap'[t].uv
                     /\ a[1] = snap'[t].uv => Recorded(a, f)' \/ a[2] \notin UidsOf(snap'[t].msgs)
                     /\ snap'[t].complete /\ a[2] \notin UidsOf(snap'[t].msgs)
                           => a[2] \notin UidsOf(mbox'[f])
    <3>1. Current(t, f) /\ snap'[t] = snap[t]
      BY <1>1, <1>2, <2>9 DEF Current
    <3>2. QED
      BY <1>0, <1>1, <2>7, <3>1 DEF AnnounceFor, server
  <2>10. \A a \in announced'[f] :
               /\ a[1] <= suv'[f] /\ a[2] < unext'[f]
               /\ a[1] = suv'[f] => Recorded(a, f)' \/ a[2] \notin UidsOf(mbox'[f])
    BY <1>0, <1>1, <2>7 DEF AnnounceFor, server
  <2>11. QED
    BY <2>8, <2>9, <2>10 DEF AnnounceFor
<1>5. QED
  BY <1>3, <1>4

\* The rows of what a snapshot holds are there after it is applied, and, unless it is
\* complete, those that it found and did not wipe.
LEMMA AppliedRecords ==
    ASSUME TypeOK, NEW s \in Syncers, ApplySnapshot(s)
    PROVE  LET f == fold[s]
               sn == snap[s]
           IN  /\ \A m \in sn.msgs : <<sn.uv, m.uid>> \in Keys(rows'[f])
               /\ ~sn.complete => Keys(Surviving(f, sn.uv)) \subseteq Keys(rows'[f])
<1> DEFINE f == fold[s]
           sn == snap[s]
           copies == {[uid |-> m.uid, uv |-> sn.uv, flags |-> m.flags] : m \in sn.msgs}
           kept == Surviving(f, sn.uv)
<1>1. f \in Folders /\ sn.complete \in BOOLEAN
  BY DEF TypeOK, Snapshots
<1>2. rows'[f] = Pruned(Upserted(kept, sn), sn)
  BY <1>1 DEF ApplySnapshot, TypeOK
<1>3. ASSUME NEW m \in sn.msgs
      PROVE  \E c \in copies : <<sn.uv, m.uid>> = <<c.uv, c.uid>>
  <2>1. [uid |-> m.uid, uv |-> sn.uv, flags |-> m.flags] \in copies
    OBVIOUS
  <2>2. /\ [uid |-> m.uid, uv |-> sn.uv, flags |-> m.flags].uid = m.uid
        /\ [uid |-> m.uid, uv |-> sn.uv, flags |-> m.flags].uv = sn.uv
    OBVIOUS
  <2>3. QED
    BY <2>1, <2>2
<1>4. \A c \in copies : c.uid \in UidsOf(sn.msgs)
  BY DEF UidsOf
<1>5. Upserted(kept, sn) = {r \in kept : r.uv # sn.uv \/ r.uid \notin UidsOf(sn.msgs)} \cup copies
  BY DEF Upserted
<1> HIDE DEF copies, kept
<1>6. copies \subseteq rows'[f]
  BY <1>1, <1>2, <1>4, <1>5 DEF Pruned
<1>7. ASSUME NEW m \in sn.msgs PROVE <<sn.uv, m.uid>> \in Keys(rows'[f])
  BY <1>3, <1>6 DEF Keys
<1>8. ASSUME ~sn.complete, NEW r \in kept PROVE <<r.uv, r.uid>> \in Keys(rows'[f])
  <2>1. CASE r \in rows'[f]
    BY <2>1 DEF Keys
  <2>2. CASE r \notin rows'[f]
    <3>1. rows'[f] = Upserted(kept, sn)
      BY <1>2, <1>8 DEF Pruned
    <3>2. r.uv = sn.uv /\ r.uid \in UidsOf(sn.msgs)
      BY <1>5, <1>8, <2>2, <3>1
    <3>3. PICK m \in sn.msgs : r.uid = m.uid
      BY <3>2 DEF UidsOf
    <3>4. QED
      BY <1>7, <3>2, <3>3
  <2>3. QED
    BY <2>1, <2>2
<1>9. ~sn.complete => Keys(kept) \subseteq Keys(rows'[f])
  BY <1>8 DEF Keys
<1>10. QED
  BY <1>7, <1>9 DEF kept

\* Applying a snapshot announces what it holds, whose rows are then there; what it
\* lacks is gone for good, or its row survives.
LEMMA ApplyKeepsAnnounced ==
    ASSUME TypeOK, ReservationInv, AnnounceInv, [Next]_vars,
           NEW s \in Syncers, ApplySnapshot(s)
    PROVE  AnnounceInv'
<1> SUFFICES ASSUME NEW f \in Permanent PROVE AnnounceFor(f)'
  BY DEF AnnounceInv
<1>0. f \in Folders /\ AnnounceFor(f) /\ row[f] \in FolderRows /\ fold[s] \in Folders
  BY PermanentAssumption DEF AnnounceInv, TypeOK
<1>1. /\ pc'[s] # "apply"
      /\ \A t \in Syncers : t # s => /\ pc'[t] = pc[t] /\ fold'[t] = fold[t]
                                    /\ gen'[t] = gen[t] /\ snap'[t] = snap[t]
  BY DEF ApplySnapshot, Release, TypeOK
<1>2. row'[f].reserved = row[f].reserved
  <2>1. row' = [row EXCEPT ![fold[s]] =
                  [row[fold[s]] EXCEPT !.known = TRUE, !.uv = snap[s].uv, !.snap = gen[s]]]
    BY DEF ApplySnapshot
  <2>2. QED
    BY <1>0, <2>1 DEF TypeOK, FolderRows
<1>3. \A t \in Syncers : Current(t, f)' => Current(t, f) /\ snap'[t] = snap[t]
  BY <1>1, <1>2, NoneBecomesCurrent
<1>4. CASE fold[s] # f
  <2>1. rows'[f] = rows[f]
    BY <1>0, <1>4 DEF ApplySnapshot, TypeOK
  <2>2. announced'[f] = announced[f]
    BY <1>0, <1>4 DEF ApplySnapshot, TypeOK
  <2>3. QED
    BY <1>0, <1>3, <2>1, <2>2, StillAnnounced DEF Recorded
<1>5. CASE fold[s] = f
  <2> DEFINE sn == snap[s]
  <2>1. Current(s, f) /\ Working(s)
    <3>1. gen[s] \in Nat /\ row[f].reserved \in Nat
      BY <1>0 DEF TypeOK, FolderRows
    <3>2. QED
      BY <1>5, <3>1 DEF ApplySnapshot, Eligible, Superseded, Current, Working
  <2>2. ASSUME NEW t \in Syncers PROVE ~Current(t, f)'
    <3>1. SUFFICES ASSUME Current(t, f)' PROVE FALSE
      OBVIOUS
    <3>2. t # s /\ Current(t, f)
      BY <1>1, <1>3, <3>1 DEF Current
    <3>3. Working(t) /\ fold[t] = fold[s] /\ gen[t] = gen[s]
      BY <1>5, <2>1, <3>2 DEF Working, Current
    <3>4. QED
      BY <2>1, <3>2, <3>3 DEF ReservationInv
  <2>3. UNCHANGED server /\ sn.uv \in Nat /\ suv[f] \in Nat
    <3>1. sn \in Snapshots
      BY DEF TypeOK
    <3>2. QED
      BY <1>0, <3>1 DEF ApplySnapshot, Snapshots, TypeOK
  <2>4. /\ sn.uv <= suv[f]
        /\ \A m \in sn.msgs : m.uid < unext[f]
        /\ \A a \in announced[f] :
              /\ a[1] <= sn.uv
              /\ a[1] = sn.uv => Recorded(a, f) \/ a[2] \notin UidsOf(sn.msgs)
              /\ sn.complete /\ a[2] \notin UidsOf(sn.msgs) => a[2] \notin UidsOf(mbox[f])
    BY <1>0, <2>1 DEF AnnounceFor
  <2>5. \A a \in announced[f] :
          /\ a[1] \in Nat /\ a[1] <= suv[f] /\ a[2] < unext[f] /\ a = <<a[1], a[2]>>
          /\ a[1] = suv[f] => Recorded(a, f) \/ a[2] \notin UidsOf(mbox[f])
    <3>1. announced[f] \subseteq Nat \X Uids
      BY <1>0 DEF TypeOK
    <3>2. QED
      BY <1>0, <3>1 DEF AnnounceFor
  <2>6. announced'[f] = (announced[f] \ (Keys(rows[f] \ Surviving(f, sn.uv)) \ Keys(rows'[f])))
                           \cup {<<sn.uv, m.uid>> : m \in NewRows(f, sn)}
    BY <1>0, <1>5 DEF ApplySnapshot, TypeOK
  <2>7. /\ \A m \in sn.msgs : <<sn.uv, m.uid>> \in Keys(rows'[f])
        /\ ~sn.complete => Keys(Surviving(f, sn.uv)) \subseteq Keys(rows'[f])
    BY <1>5, AppliedRecords
  <2>8. ASSUME NEW m \in NewRows(f, sn)
        PROVE  m.uid < unext[f] /\ <<sn.uv, m.uid>> \in Keys(rows'[f])
    BY <2>4, <2>7 DEF NewRows
  <2>9. ASSUME NEW a \in announced[f], a[1] = suv[f],
               a \notin Keys(rows[f] \ Surviving(f, sn.uv)) \ Keys(rows'[f])
        PROVE  a \in Keys(rows'[f]) \/ a[2] \notin UidsOf(mbox[f])
    <3>1. a[1] = sn.uv
      BY <2>3, <2>4, <2>5, <2>9
    <3>2. CASE a[2] \in UidsOf(sn.msgs)
      BY <2>5, <2>7, <3>1, <3>2 DEF UidsOf
    <3>3. CASE a[2] \notin UidsOf(sn.msgs) /\ sn.complete
      BY <2>4, <3>3
    <3>4. CASE ~sn.complete /\ Recorded(a, f)
      <4>1. PICK r \in rows[f] : a = <<r.uv, r.uid>>
        BY <3>4 DEF Recorded, Keys
      <4>2. CASE r \in Surviving(f, sn.uv)
        BY <2>7, <3>4, <4>1, <4>2 DEF Keys
      <4>3. CASE r \notin Surviving(f, sn.uv)
        BY <2>9, <4>1, <4>3 DEF Keys
      <4>4. QED
        BY <4>2, <4>3
    <3>5. QED
      BY <2>5, <2>9, <3>2, <3>3, <3>4
  <2>10. ASSUME NEW a \in announced'[f]
         PROVE  /\ a[1] <= suv'[f] /\ a[2] < unext'[f]
                /\ a[1] = suv'[f] => Recorded(a, f)' \/ a[2] \notin UidsOf(mbox'[f])
    <3>1. suv' = suv /\ unext' = unext /\ mbox' = mbox
      BY <2>3 DEF server
    <3>2. CASE a \in announced[f] /\ a \notin Keys(rows[f] \ Surviving(f, sn.uv)) \ Keys(rows'[f])
      BY <2>5, <2>9, <3>1, <3>2 DEF Recorded
    <3>3. CASE \E m \in NewRows(f, sn) : a = <<sn.uv, m.uid>>
      <4>1. PICK m \in NewRows(f, sn) : a = <<sn.uv, m.uid>>
        BY <3>3
      <4>2. a[1] = sn.uv /\ a[2] = m.uid
        BY <4>1
      <4>3. QED
        BY <2>4, <2>8, <3>1, <4>1, <4>2 DEF Recorded
    <3>4. QED
      BY <2>6, <3>2, <3>3
  <2>11. QED
    BY <2>2, <2>10 DEF AnnounceFor
<1>6. QED
  BY <1>4, <1>5

\* What was reported keeps its row until it is gone from the mailbox, whatever happens.
LEMMA AnnounceInductive ==
    ASSUME TypeOK, ReservationInv, MailboxInv, AnnounceInv, [Next]_vars
    PROVE  AnnounceInv'
<1>1. CASE ServerStep \/ MutatorStep \/ UNCHANGED vars
  BY <1>1, OthersKeepAnnounced
<1>2. ASSUME NEW s \in Syncers,
             \/ \E g \in Folders : Start(s, g)
             \/ ListFolders(s) \/ ReconcileFolders(s) \/ UpsertFolder(s) \/ Reserve(s)
             \/ RejectSnapshot(s) \/ Fail(s)
      PROVE  AnnounceInv'
  <2> SUFFICES ASSUME NEW f \in Permanent PROVE AnnounceFor(f)'
    BY DEF AnnounceInv
  <2>1. /\ rows'[f] = rows[f] /\ announced' = announced
        /\ row'[f].reserved \in {row[f].reserved, row[f].reserved + 1}
        /\ pc'[s] # "apply"
        /\ \A t \in Syncers : t # s => /\ pc'[t] = pc[t] /\ fold'[t] = fold[t]
                                      /\ gen'[t] = gen[t] /\ snap'[t] = snap[t]
    BY <1>2, PreparingKeepsRows
  <2>2. \A t \in Syncers : Current(t, f)' => Current(t, f) /\ snap'[t] = snap[t]
    BY <2>1, NoneBecomesCurrent
  <2>3. AnnounceFor(f)
    BY DEF AnnounceInv
  <2>4. QED
    BY <2>1, <2>2, <2>3, StillAnnounced DEF Recorded
<1>3. ASSUME NEW s \in Syncers, FetchHeaders(s) PROVE AnnounceInv'
  BY <1>3, FetchKeepsAnnounced DEF FetchHeaders
<1>4. ASSUME NEW s \in Syncers, FetchSince(s) PROVE AnnounceInv'
  BY <1>4, FetchKeepsAnnounced DEF FetchSince
<1>5. ASSUME NEW s \in Syncers, ApplySnapshot(s) PROVE AnnounceInv'
  BY <1>5, ApplyKeepsAnnounced
<1>6. CASE ImportStep
  <2> SUFFICES ASSUME NEW f \in Permanent PROVE AnnounceFor(f)'
    BY DEF AnnounceInv
  <2>1. f \in Folders /\ AnnounceFor(f)
    BY PermanentAssumption DEF AnnounceInv
  <2>2. /\ UNCHANGED <<server, process, ghosts>>
        /\ row'[f].reserved = row[f].reserved /\ Keys(rows[f]) \subseteq Keys(rows'[f])
    BY <1>6, <2>1, ImportsApart
  <2>3. \A s \in Syncers : Current(s, f)' => Current(s, f) /\ snap'[s] = snap[s]
    BY <2>2 DEF Current, process
  <2>4. announced' = announced /\ \A a \in announced'[f] : Recorded(a, f) => Recorded(a, f)'
    BY <2>2 DEF Recorded, ghosts
  <2>5. QED
    BY <2>1, <2>3, <2>4, StillAnnounced
<1>7. QED
  BY <1>1, <1>2, <1>3, <1>4, <1>5, <1>6 DEF Next, SyncerStep

\* No message of a lasting folder is reported as new twice, unless a user command or the
\* wipe that follows an import has deleted its row in between: what a snapshot holds
\* above the highest stored UID was never reported, for what was reported and has lost
\* its row is gone from the server.
THEOREM NothingIsAnnouncedTwice == Spec => []AnnouncedOnce
<1>1. Init => AnnounceInv
  <2> SUFFICES ASSUME Init, NEW f \in Permanent PROVE AnnounceFor(f)
    BY DEF AnnounceInv
  <2>1. f \in Folders
    BY PermanentAssumption
  <2>2. announced[f] = {} /\ \A s \in Syncers : pc[s] = "idle"
    BY <2>1 DEF Init
  <2>3. QED
    BY <2>2 DEF AnnounceFor, Current
<1>2. TypeOK /\ AnnounceInv => AnnouncedOnce
  <2> SUFFICES ASSUME TypeOK, AnnounceInv, NEW s \in Syncers,
                      pc[s] = "apply", Eligible(s), fold[s] \in Permanent,
                      NEW m \in NewRows(fold[s], snap[s]),
                      <<snap[s].uv, m.uid>> \in announced[fold[s]]
               PROVE  FALSE
    BY DEF AnnouncedOnce
  <2> DEFINE f == fold[s]
             sn == snap[s]
             a == <<sn.uv, m.uid>>
  <2>1. /\ f \in Folders /\ row[f] \in FolderRows /\ sn \in Snapshots /\ gen[s] \in Nat
        /\ rows[f] \subseteq StoredRows
    BY DEF TypeOK
  <2>2. Current(s, f) /\ AnnounceFor(f)
    BY <2>1 DEF Eligible, Superseded, Current, AnnounceInv, FolderRows
  <2>3. a \in announced[f] /\ a[1] = sn.uv /\ a[2] = m.uid /\ m \in sn.msgs
    BY DEF NewRows
  <2>4. a[2] \in UidsOf(sn.msgs)
    BY <2>3 DEF UidsOf
  <2>5. Recorded(a, f)
    BY <2>2, <2>3, <2>4 DEF AnnounceFor
  <2>6. PICK r \in rows[f] : a = <<r.uv, r.uid>>
    BY <2>5 DEF Recorded, Keys
  <2>7. r.uv = sn.uv /\ r.uid = m.uid
    BY <2>6
  <2>8. r.uid < m.uid
    BY <2>7 DEF NewRows
  <2>9. r.uid \in Nat
    BY <2>1, UidsAssumption DEF StoredRows
  <2>10. QED
    BY <2>7, <2>8, <2>9
<1>3. TypeOK /\ ReservationInv /\ MailboxInv /\ AnnounceInv /\ [Next]_vars => AnnounceInv'
  BY AnnounceInductive
<1>4. QED
  BY <1>1, <1>2, <1>3, TypeCorrect, Reservations, RowsAreInOrder, PTL DEF Spec

----------------------------------------------------------------------------
(* The generations implement LastReservation.  The refinement mapping of   *)
(* SnapshotStore, variable by variable.                                    *)

Work == [s \in Syncers |-> IF Working(s) THEN fold[s] ELSE None]
Looked == [s \in Syncers |-> Working(s) /\ pc[s] = "apply"]
Seen == [s \in Syncers |-> IF Working(s) THEN snap[s].at ELSE 0]
Holders == [f \in Permanent |-> Holder(f)]
Published == [f \in Permanent |-> mirrored[f]]

\* s has made the last reservation for f, and not finished.
Last(s, f) == Working(s) /\ fold[s] = f /\ gen[s] = row[f].reserved

\* The right to publish a folder is with whoever made the last reservation.
HolderIsLast ==
    \A f \in Permanent :
        /\ Holder(f) \in Syncers \cup {None}
        /\ \A s \in Syncers : Holder(f) = s <=> Last(s, f)

LEMMA LastHolds == TypeOK /\ ReservationInv => HolderIsLast
<1> SUFFICES ASSUME TypeOK, ReservationInv, NEW f \in Permanent
             PROVE  /\ Holder(f) \in Syncers \cup {None}
                    /\ \A s \in Syncers : Holder(f) = s <=> Last(s, f)
  BY DEF HolderIsLast
<1> DEFINE H(s) == Working(s) /\ fold[s] = f /\ Eligible(s)
<1>1. ASSUME NEW s \in Syncers PROVE H(s) <=> Last(s, f)
  <2>1. ASSUME Working(s), fold[s] = f PROVE Eligible(s) <=> gen[s] = row[f].reserved
    <3>1. /\ row[f].present /\ gen[s] > 0 /\ gen[s] <= row[f].reserved
          /\ gen[s] = row[f].reserved => row[f].snap < gen[s]
      BY <2>1 DEF ReservationInv
    <3>2. gen[s] \in Nat /\ row[f].reserved \in Nat /\ row[f].snap \in Nat
      BY PermanentAssumption DEF TypeOK, FolderRows
    <3>3. QED
      BY <2>1, <3>1, <3>2 DEF Eligible, Superseded
  <2>2. QED
    BY <2>1 DEF Last
<1>2. ASSUME NEW s \in Syncers, NEW t \in Syncers, H(s), H(t) PROVE s = t
  BY <1>1, <1>2 DEF Last, ReservationInv
<1>3. Holder(f) = IF \E s \in Syncers : H(s) THEN CHOOSE s \in Syncers : H(s) ELSE None
  BY DEF Holder
<1> HIDE DEF H
<1>4. None \notin Syncers
  BY NoneAssumption
<1>5. CASE \E s \in Syncers : H(s)
  <2>1. Holder(f) \in Syncers /\ H(Holder(f))
    BY <1>3, <1>5
  <2>2. QED
    BY <1>1, <1>2, <2>1
<1>6. CASE ~\E s \in Syncers : H(s)
  BY <1>1, <1>3, <1>4, <1>6
<1>7. QED
  BY <1>5, <1>6

\* Holders agree if the last reservations do.
LEMMA SameLast ==
    ASSUME HolderIsLast, HolderIsLast', NEW f \in Permanent,
           \A s \in Syncers : Last(s, f)' <=> Last(s, f)
    PROVE  Holder(f)' = Holder(f)
<1>1. /\ Holder(f) \in Syncers \cup {None} /\ Holder(f)' \in Syncers \cup {None}
      /\ \A s \in Syncers : Holder(f)' = s <=> Holder(f) = s
  BY DEF HolderIsLast
<1>2. QED
  BY <1>1

\* What s held is free when s is done, and nothing else changes hands.
LEMMA LastGone ==
    ASSUME HolderIsLast, HolderIsLast', NEW s \in Syncers, NEW f \in Permanent,
           \A t \in Syncers : Last(t, f)' <=> t # s /\ Last(t, f)
    PROVE  Holder(f)' = IF Holder(f) = s THEN None ELSE Holder(f)
<1>1. /\ Holder(f) \in Syncers \cup {None} /\ Holder(f)' \in Syncers \cup {None}
      /\ \A t \in Syncers : Holder(f)' = t <=> t # s /\ Holder(f) = t
  BY DEF HolderIsLast
<1>2. None \notin Syncers
  BY NoneAssumption
<1>3. QED
  BY <1>1, <1>2

\* A step that moves no syncer into or out of its work, and no counter or mirror of
\* a permanent folder, is a stutter.
LEMMA Stutters ==
    ASSUME HolderIsLast, HolderIsLast', ver' = ver,
           \A s \in Syncers : Working(s)' <=> Working(s),
           \A s \in Syncers : Working(s) =>
              /\ fold'[s] = fold[s] /\ gen'[s] = gen[s] /\ snap'[s].at = snap[s].at
              /\ pc'[s] = "apply" <=> pc[s] = "apply",
           \A f \in Permanent :
              row'[f].reserved = row[f].reserved /\ mirrored'[f] = mirrored[f]
    PROVE  UNCHANGED Abstract!avars
<1>1. ASSUME NEW f \in Permanent PROVE Holder(f)' = Holder(f)
  <2>1. \A s \in Syncers : Last(s, f)' <=> Last(s, f)
    BY DEF Last
  <2>2. QED
    BY <2>1, SameLast
<1>2. Work' = Work
  BY DEF Work
<1>3. Looked' = Looked
  BY DEF Looked
<1>4. Seen' = Seen
  BY DEF Seen
<1>5. Holders' = Holders
  BY <1>1 DEF Holders
<1>6. Published' = Published
  BY DEF Published
<1>7. QED
  BY <1>2, <1>3, <1>4, <1>5, <1>6 DEF Abstract!avars, Work, Looked, Seen, Holders, Published

\* The server moves on, or nothing abstract does.
LEMMA OthersRefine ==
    ASSUME TypeOK, HolderIsLast, HolderIsLast', ServerStep \/ MutatorStep \/ UNCHANGED vars
    PROVE  Abstract!Tick \/ UNCHANGED Abstract!avars
<1>1. UNCHANGED <<row, pc, fold, gen, snap, mirrored>>
  BY OtherSteps DEF process
<1>2. \A s \in Syncers : Working(s)' <=> Working(s)
  BY <1>1 DEF Working
<1>3. CASE ver' = ver
  BY <1>1, <1>2, <1>3, Stutters
<1>4. CASE ver' = ver + 1
  <2>1. \A f \in Permanent : Holder(f)' = Holder(f)
    BY <1>1, <1>2, SameLast DEF Last
  <2>2. Work' = Work /\ Looked' = Looked /\ Seen' = Seen /\ Published' = Published
    BY <1>1, <1>2 DEF Work, Looked, Seen, Published
  <2>3. Holders' = Holders
    BY <2>1 DEF Holders
  <2>4. QED
    BY <1>4, <2>2, <2>3 DEF Abstract!Tick, Work, Looked, Seen, Holders, Published
<1>5. QED
  BY <1>3, <1>4, ServerMoves DEF Next

\* A syncer on its way to a reservation does nothing abstract.
LEMMA PreparingRefines ==
    ASSUME TypeOK, HolderIsLast, HolderIsLast', ReservationInv, NEW s \in Syncers,
           \/ \E f \in Folders : Start(s, f)
           \/ ListFolders(s) \/ ReconcileFolders(s) \/ UpsertFolder(s)
    PROVE  UNCHANGED Abstract!avars
<1>1. UNCHANGED <<gen, snap, mirrored, ver>>
  BY DEF Start, ListFolders, ReconcileFolders, UpsertFolder, server, store, ghosts
<1>2. /\ pc[s] \notin {"fetch", "apply"} /\ pc'[s] \notin {"fetch", "apply"}
      /\ \A t \in Syncers : t # s => pc'[t] = pc[t] /\ fold'[t] = fold[t]
  BY DEF Start, ListFolders, ReconcileFolders, UpsertFolder, TypeOK
<1>3. \A t \in Syncers : Working(t)' <=> Working(t)
  BY <1>2 DEF Working
<1>4. \A t \in Syncers : Working(t) => fold'[t] = fold[t] /\ pc'[t] = pc[t]
  BY <1>2 DEF Working
<1>5. \A f \in Permanent : row'[f].reserved = row[f].reserved
  <2>1. CASE ReconcileFolders(s)
    <3>1. Permanent \subseteq listing[s]
      BY <2>1 DEF ReconcileFolders, ReservationInv
    <3>2. QED
      BY <2>1, <3>1, PermanentAssumption DEF ReconcileFolders, TypeOK, FolderRows
  <2>2. CASE UpsertFolder(s)
    <3>1. CASE listing[s] = {}
      BY <2>2, <3>1 DEF UpsertFolder
    <3>2. CASE listing[s] # {}
      <4>1. PICK g \in listing[s] : row' = [row EXCEPT ![g] = [row[g] EXCEPT !.present = TRUE]]
        BY <2>2, <3>2 DEF UpsertFolder
      <4>2. g \in Folders
        BY <4>1 DEF TypeOK
      <4>3. QED
        BY <4>1, <4>2, PermanentAssumption DEF TypeOK, FolderRows
    <3>3. QED
      BY <3>1, <3>2
  <2>3. CASE (\E f \in Folders : Start(s, f)) \/ ListFolders(s)
    BY <2>3 DEF Start, ListFolders, store
  <2>4. QED
    BY <2>1, <2>2, <2>3
<1>6. QED
  BY <1>1, <1>3, <1>4, <1>5, Stutters

\* Reserving takes the right to publish.
LEMMA ReserveRefines ==
    ASSUME TypeOK, HolderIsLast, HolderIsLast', ReservationInv, SnapshotInv,
           NEW s \in Syncers, Reserve(s), NEW f \in Folders, fold[s] = f
    PROVE  (f \in Permanent /\ Abstract!Claim(s, f)) \/ UNCHANGED Abstract!avars
<1>1. row[f] \in FolderRows /\ row[f].reserved \in Nat
  BY DEF TypeOK, FolderRows
<1>2. row' = [row EXCEPT ![f] = [row[f] EXCEPT !.present = TRUE, !.reserved = @ + 1]]
  BY DEF Reserve
<1>3. /\ row'[f].reserved = row[f].reserved + 1
      /\ \A g \in Folders : g # f => row'[g] = row[g]
  BY <1>1, <1>2 DEF TypeOK, FolderRows
<1>4. /\ UNCHANGED <<fold, snap, mirrored, ver>>
      /\ pc[s] = "reserve" /\ pc'[s] = "fetch" /\ gen'[s] = row[f].reserved + 1
      /\ \A t \in Syncers : t # s => pc'[t] = pc[t] /\ gen'[t] = gen[t]
  BY DEF Reserve, server, TypeOK
<1>5. CASE f \notin Permanent
  <2>1. \A t \in Syncers : Working(t)' <=> Working(t)
    BY <1>4, <1>5 DEF Working
  <2>2. \A t \in Syncers : Working(t) => t # s
    BY <1>5 DEF Working
  <2>3. \A g \in Permanent : row'[g].reserved = row[g].reserved
    BY <1>3, <1>5, PermanentAssumption
  <2>4. QED
    BY <1>4, <2>1, <2>2, <2>3, Stutters
<1>6. CASE f \in Permanent
  <2>1. ~Working(s) /\ Working(s)' /\ \A t \in Syncers : t # s => (Working(t)' <=> Working(t))
    BY <1>4, <1>6 DEF Working
  <2>2. Last(s, f)'
    BY <1>3, <1>4, <2>1 DEF Last
  <2>3. ASSUME NEW g \in Permanent, g # f PROVE Holder(g)' = Holder(g)
    <3>1. \A t \in Syncers : Last(t, g)' <=> Last(t, g)
      BY <1>3, <1>4, <2>1, <2>3, PermanentAssumption DEF Last
    <3>2. QED
      BY <3>1, SameLast
  <2>4. Holder(f)' = s
    BY <1>6, <2>2 DEF HolderIsLast
  <2>5. Work[s] = None /\ Work' = [Work EXCEPT ![s] = f]
    BY <1>4, <2>1 DEF Work
  <2>6. Looked' = Looked
    BY <1>4, <2>1 DEF Looked
  <2>7. Seen' = Seen
    <3>1. snap'[s].at = 0
      BY <1>4 DEF SnapshotInv, NoSnapshot
    <3>2. QED
      BY <1>4, <2>1, <3>1 DEF Seen
  <2>8. Holders' = [Holders EXCEPT ![f] = s]
    BY <2>3, <2>4, <1>4 DEF Holders
  <2>9. Published' = Published
    BY <1>4 DEF Published
  <2>10. Abstract!Claim(s, f)
    BY <1>4, <2>5, <2>6, <2>7, <2>8, <2>9
    DEF Abstract!Claim, Work, Looked, Seen, Holders, Published
  <2>11. QED
    BY <1>6, <2>10
<1>7. QED
  BY <1>5, <1>6

\* Fetching is looking at the server.
LEMMA FetchRefines ==
    ASSUME TypeOK, HolderIsLast, HolderIsLast', NEW s \in Syncers, NEW msgs, NEW complete,
           FetchAs(s, msgs, complete)
    PROVE  Abstract!Look(s) \/ UNCHANGED Abstract!avars
<1>1. /\ UNCHANGED <<row, fold, gen, mirrored, ver>>
      /\ pc[s] = "fetch" /\ pc'[s] = "apply" /\ snap'[s].at = ver
      /\ \A t \in Syncers : t # s => pc'[t] = pc[t] /\ snap'[t] = snap[t]
  BY DEF FetchAs, server, store, ghosts, TypeOK
<1>2. \A t \in Syncers : Working(t)' <=> Working(t)
  BY <1>1 DEF Working
<1>3. CASE ~Working(s)
  <2>1. \A t \in Syncers : Working(t) => t # s
    BY <1>3
  <2>2. QED
    BY <1>1, <1>2, <2>1, Stutters
<1>4. CASE Working(s)
  <2>1. \A f \in Permanent : Holder(f)' = Holder(f)
    BY <1>1, <1>2, SameLast DEF Last
  <2>2. Work' = Work /\ Published' = Published
    BY <1>1, <1>2 DEF Work, Published
  <2>3. Holders' = Holders
    BY <2>1 DEF Holders
  <2>4. Work[s] # None /\ ~Looked[s]
    BY <1>1, <1>4, NoneAssumption, PermanentAssumption DEF Work, Looked, Working, TypeOK
  <2>5. Looked' = [Looked EXCEPT ![s] = TRUE]
    BY <1>1, <1>2, <1>4 DEF Looked
  <2>6. Seen' = [Seen EXCEPT ![s] = ver]
    BY <1>1, <1>2, <1>4 DEF Seen
  <2>7. QED
    BY <1>1, <2>2, <2>3, <2>4, <2>5, <2>6
    DEF Abstract!Look, Work, Looked, Seen, Holders, Published
<1>5. QED
  BY <1>3, <1>4

\* A syncer that releases its reservation is done.
LEMMA ReleaseRefines ==
    ASSUME TypeOK, HolderIsLast, HolderIsLast', NEW s \in Syncers, Working(s), Release(s),
           ver' = ver, \A f \in Permanent : row'[f].reserved = row[f].reserved
    PROVE  /\ Abstract!Done(s)
           /\ Work[s] # None
<1>1. /\ pc'[s] = "idle"
      /\ \A t \in Syncers : t # s =>
           /\ pc'[t] = pc[t] /\ fold'[t] = fold[t] /\ gen'[t] = gen[t] /\ snap'[t] = snap[t]
  BY DEF Release, TypeOK
<1>2. ~Working(s)' /\ \A t \in Syncers : t # s => (Working(t)' <=> Working(t))
  BY <1>1 DEF Working
<1>3. \A f \in Permanent : Holder(f)' = IF Holder(f) = s THEN None ELSE Holder(f)
  <2>1. ASSUME NEW f \in Permanent, NEW t \in Syncers
        PROVE  Last(t, f)' <=> t # s /\ Last(t, f)
    BY <1>1, <1>2 DEF Last
  <2>2. QED
    BY <2>1, LastGone
<1>4. Work' = [Work EXCEPT ![s] = None]
  BY <1>1, <1>2 DEF Work
<1>5. Looked' = [Looked EXCEPT ![s] = FALSE]
  BY <1>1, <1>2 DEF Looked
<1>6. Seen' = [Seen EXCEPT ![s] = 0]
  BY <1>1, <1>2 DEF Seen
<1>7. Holders' = [f \in Permanent |-> IF Holders[f] = s THEN None ELSE Holders[f]]
  BY <1>3 DEF Holders
<1>8. Abstract!Done(s)
  BY <1>4, <1>5, <1>6, <1>7 DEF Abstract!Done, Work, Looked, Seen, Holders
<1>9. Work[s] # None
  BY NoneAssumption, PermanentAssumption DEF Work, Working, TypeOK
<1>10. QED
  BY <1>8, <1>9

\* Applying a snapshot publishes it; every other end gives the right up.
LEMMA EndingRefines ==
    ASSUME TypeOK, HolderIsLast, HolderIsLast', NEW s \in Syncers,
           ApplySnapshot(s) \/ RejectSnapshot(s) \/ Fail(s), NEW f \in Folders, fold[s] = f
    PROVE  \/ Abstract!GiveUp(s)
           \/ f \in Permanent /\ Abstract!Publish(s, f)
           \/ UNCHANGED Abstract!avars
<1>1. row[f] \in FolderRows /\ snap[s] \in Snapshots /\ gen[s] \in Nat
  BY DEF TypeOK
<1>2. Release(s) /\ ver' = ver
  BY DEF ApplySnapshot, RejectSnapshot, Fail, server
<1>3. \A g \in Folders : row'[g].reserved = row[g].reserved
  <2>1. CASE ApplySnapshot(s)
    <3>1. row' = [row EXCEPT ![f] =
                    [row[f] EXCEPT !.known = TRUE, !.uv = snap[s].uv, !.snap = gen[s]]]
      BY <2>1 DEF ApplySnapshot
    <3>2. QED
      BY <1>1, <3>1 DEF TypeOK, FolderRows
  <2>2. CASE RejectSnapshot(s) \/ Fail(s)
    BY <2>2 DEF RejectSnapshot, Fail, store
  <2>3. QED
    BY <2>1, <2>2
<1>4. CASE ~Working(s)
  <2>1. \A t \in Syncers : t # s =>
          /\ pc'[t] = pc[t] /\ fold'[t] = fold[t] /\ gen'[t] = gen[t] /\ snap'[t] = snap[t]
    BY <1>2 DEF Release, TypeOK
  <2>2. pc'[s] = "idle"
    BY <1>2 DEF Release, TypeOK
  <2>3. \A t \in Syncers : Working(t)' <=> Working(t)
    BY <1>4, <2>1, <2>2 DEF Working
  <2>4. \A t \in Syncers : Working(t) => t # s
    BY <1>4
  <2>5. \A g \in Permanent : mirrored'[g] = mirrored[g]
    <3>1. CASE ApplySnapshot(s)
      <4>1. f \notin Permanent
        BY <1>4, <3>1 DEF ApplySnapshot, Working
      <4>2. QED
        BY <3>1, <4>1, PermanentAssumption DEF ApplySnapshot, TypeOK
    <3>2. CASE RejectSnapshot(s) \/ Fail(s)
      BY <3>2 DEF RejectSnapshot, Fail, ghosts
    <3>3. QED
      BY <3>1, <3>2
  <2>6. QED
    BY <1>2, <1>3, <2>1, <2>3, <2>4, <2>5, Stutters, PermanentAssumption
<1>5. CASE Working(s)
  <2>1. f \in Permanent
    BY <1>5 DEF Working
  <2>2. Abstract!Done(s) /\ Work[s] # None
    BY <1>2, <1>3, <1>5, ReleaseRefines, PermanentAssumption
  <2>3. CASE ApplySnapshot(s)
    <3>1. pc[s] = "apply" /\ gen[s] = row[f].reserved
      BY <1>1, <2>3 DEF ApplySnapshot, Eligible, Superseded, FolderRows
    <3>2. Looked[s] /\ Work[s] = f /\ Seen[s] = snap[s].at
      BY <1>5, <3>1 DEF Looked, Work, Seen
    <3>3. Holders[f] = s
      BY <1>5, <2>1, <3>1 DEF Holders, HolderIsLast, Last
    <3>4. Published' = [Published EXCEPT ![f] = Seen[s]]
      BY <2>1, <2>3, <3>2, PermanentAssumption DEF Published, ApplySnapshot, TypeOK
    <3>5. Abstract!Publish(s, f)
      BY <2>2, <3>2, <3>3, <3>4 DEF Abstract!Publish, Looked, Work, Seen, Holders, Published
    <3>6. QED
      BY <2>1, <3>5
  <2>4. CASE RejectSnapshot(s) \/ Fail(s)
    <3>1. Published' = Published
      BY <2>4 DEF RejectSnapshot, Fail, ghosts, Published
    <3>2. Abstract!GiveUp(s)
      BY <2>2, <3>1 DEF Abstract!GiveUp, Work, Published
    <3>3. QED
      BY <3>2
  <2>5. QED
    BY <2>3, <2>4
<1>6. QED
  BY <1>4, <1>5

\* On the permanent folders, the generation counters implement a revocable right to
\* publish, of which there is one per folder: every step of every process is a step
\* of LastReservation or leaves it as it is.
THEOREM GenerationsAreReservations == Spec => ImplementsLastReservation
<1>1. Init => Abstract!Init
  <2> SUFFICES ASSUME Init PROVE Abstract!Init
    OBVIOUS
  <2>1. \A s \in Syncers : ~Working(s)
    BY DEF Init, Working
  <2>2. \A f \in Permanent : Holder(f) = None
    BY <2>1 DEF Holder
  <2>3. ver = 0 /\ \A f \in Permanent : mirrored[f] = 0
    BY PermanentAssumption DEF Init
  <2>4. QED
    BY <2>1, <2>2, <2>3 DEF Abstract!Init
<1>2. HolderIsLast /\ HolderIsLast' /\ TypeOK /\ ReservationInv /\ SnapshotInv /\ [Next]_vars
        => [Abstract!Next]_(Abstract!avars)
  <2> SUFFICES ASSUME HolderIsLast, HolderIsLast', TypeOK, ReservationInv, SnapshotInv, [Next]_vars
               PROVE  Abstract!Next \/ UNCHANGED Abstract!avars
    OBVIOUS
  <2>1. CASE ServerStep \/ MutatorStep \/ UNCHANGED vars
    BY <2>1, OthersRefine DEF Abstract!Next
  <2>2. CASE SyncerStep
    <3>1. PICK s \in Syncers :
            \/ \/ \E f \in Folders : Start(s, f)
               \/ ListFolders(s) \/ ReconcileFolders(s) \/ UpsertFolder(s)
            \/ Reserve(s)
            \/ FetchHeaders(s) \/ FetchSince(s)
            \/ ApplySnapshot(s) \/ RejectSnapshot(s) \/ Fail(s)
      BY <2>2 DEF SyncerStep
    <3>2. CASE \/ \E f \in Folders : Start(s, f)
               \/ ListFolders(s) \/ ReconcileFolders(s) \/ UpsertFolder(s)
      BY <3>2, PreparingRefines
    <3>3. CASE Reserve(s)
      <4>1. PICK f \in Folders : fold[s] = f
        BY DEF TypeOK
      <4>2. QED
        BY <3>3, <4>1, ReserveRefines DEF Abstract!Next
    <3>4. CASE FetchHeaders(s) \/ FetchSince(s)
      BY <3>4, FetchRefines DEF FetchHeaders, FetchSince, Abstract!Next
    <3>5. CASE ApplySnapshot(s) \/ RejectSnapshot(s) \/ Fail(s)
      <4>1. PICK f \in Folders : fold[s] = f
        BY DEF TypeOK
      <4>2. QED
        BY <3>5, <4>1, EndingRefines DEF Abstract!Next
    <3>6. QED
      BY <3>1, <3>2, <3>3, <3>4, <3>5
  <2>3. CASE ImportStep
    <3>1. /\ UNCHANGED <<pc, fold, gen, snap, mirrored, ver>>
          /\ \A f \in Permanent : row'[f].reserved = row[f].reserved
      BY <2>3, ImportsApart, PermanentAssumption DEF server, process, ghosts
    <3>2. \A s \in Syncers : Working(s)' <=> Working(s)
      BY <3>1 DEF Working
    <3>3. QED
      BY <3>1, <3>2, Stutters
  <2>4. QED
    BY <2>1, <2>2, <2>3 DEF Next
<1>3. QED
  BY <1>1, <1>2, LastHolds, TypeCorrect, Reservations, RowsAreInOrder, PTL
  DEF Spec, ImplementsLastReservation, Abstract!Spec
=============================================================================
