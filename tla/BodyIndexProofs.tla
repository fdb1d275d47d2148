---------------------------- MODULE BodyIndexProofs ----------------------------
(***************************************************************************)
(* Theorems about BodyIndex, for any messages, processes and faults.       *)
(***************************************************************************)
EXTENDS BodyIndex, FiniteFacts

Types == TypeOK /\ FiniteInv

-----------------------------------------------------------------------------
(* Types: rows keep distinct ids and keys, and everything stays finite. *)

\* The jobs that an action assigns.
LEMMA JobTypes ==
  /\ NoJob \in Jobs /\ NoJob.uids = {} /\ NoJob.got = {} /\ NoJob.cur = NoBody
  /\ NoJob.at = "idle" /\ NoJob.uv = 0
  /\ Away \in Jobs /\ Away.uids = {} /\ Away.got = {} /\ Away.cur = NoBody
  /\ Away.at = "away" /\ Away.uv = 0
BY DEF NoJob, Away, Jobs

LEMMA UidsAreNumbers == Uids \subseteq Nat /\ 0 \notin Uids
BY UidsAssumption

\* New rows have ids above those of the table, one each.
LEMMA NewIds ==
  ASSUME NEW same, same \subseteq Rows, IsFiniteSet(same),
         NEW new, new \subseteq Uids, IsFiniteSet(new), NEW uv
  PROVE  /\ \A u \in new : NewRow(u, uv, new, same).id \in Nat \ {0}
         /\ \A u \in new : \A r \in same : r.id < NewRow(u, uv, new, same).id
         /\ \A u, v \in new : NewRow(u, uv, new, same).id = NewRow(v, uv, new, same).id => u = v
<1> DEFINE top == {0} \cup IdsOf(same)
           base == CHOOSE i \in top : \A j \in top : j <= i
           rank(u) == Cardinality({v \in new : v <= u})
<1>1. IsFiniteSet(IdsOf(same)) /\ IdsOf(same) \subseteq Nat
  <2> DEFINE f == [r \in same |-> r.id]
  <2>1. IsFiniteSet({f[r] : r \in same})
    BY ImageFinite
  <2>2. IdsOf(same) = {f[r] : r \in same}
    BY DEF IdsOf
  <2> QED
    BY <2>1, <2>2 DEF IdsOf, Rows
<1>2. top \subseteq Nat /\ IsFiniteSet(top) /\ top # {}
  <2>1. IsFiniteSet(IdsOf(same) \cup {0})
    BY <1>1, FS_AddElement
  <2>2. top = IdsOf(same) \cup {0}
    OBVIOUS
  <2> HIDE DEF top
  <2> QED
    BY <1>1, <2>1, <2>2 DEF top
<1>3. base \in top /\ \A j \in top : j <= base
  <2> HIDE DEF top
  <2> QED
    BY <1>2, MaxExists
<1>4. base \in Nat /\ \A r \in same : r.id \in Nat /\ r.id <= base
  BY <1>2, <1>3 DEF IdsOf
<1>5. \A u, v \in new : u < v => rank(u) < rank(v) /\ rank(u) \in Nat \ {0} /\ rank(v) \in Nat \ {0}
  BY RanksDiffer, UidsAreNumbers
<1>6. \A u \in new : rank(u) \in Nat \ {0}
  <2> TAKE u \in new
  <2>1. u \in {v \in new : v <= u}
    BY UidsAreNumbers
  <2> HIDE DEF rank
  <2>2. IsFiniteSet({v \in new : v <= u})
    BY FS_Subset
  <2> QED
    BY <2>1, <2>2, FS_EmptySet, FS_CardinalityType DEF rank
<1>7. \A u \in new : NewRow(u, uv, new, same).id = base + rank(u)
  BY DEF NewRow
<1> HIDE DEF base, rank
<1>8. \A u, v \in new : base + rank(u) = base + rank(v) => u = v
  <2> SUFFICES ASSUME NEW u \in new, NEW v \in new, base + rank(u) = base + rank(v), u # v
               PROVE  FALSE
    OBVIOUS
  <2>1. rank(u) = rank(v) /\ rank(u) \in Nat
    BY <1>4, <1>6
  <2>2. u < v \/ v < u
    BY UidsAreNumbers
  <2> QED
    BY <1>5, <2>1, <2>2
<1> QED
  BY <1>4, <1>6, <1>7, <1>8

FreshRows(uv, new, same) == {NewRow(u, uv, new, same) : u \in new}

LEMMA NewRows ==
  ASSUME NEW same, same \subseteq Rows, IsFiniteSet(same),
         NEW new, new \subseteq Uids, IsFiniteSet(new), NEW uv, uv \in Nat \ {0},
         NEW fresh, fresh = FreshRows(uv, new, same)
  PROVE  /\ fresh \subseteq Rows /\ IsFiniteSet(fresh)
         /\ \A r \in fresh : r.uid \in new /\ r.uv = uv /\ r.body = NoText
         /\ \A r \in fresh : \A k \in same : k.id # r.id
         /\ \A r, q \in fresh : r.id = q.id \/ r.uid = q.uid => r = q
         /\ \A u \in new : \E r \in fresh : r.uid = u
<1> DEFINE row == [u \in new |-> NewRow(u, uv, new, same)]
           image == {row[u] : u \in new}
<1>1. /\ \A u \in new : row[u].id \in Nat \ {0}
      /\ \A u \in new : \A r \in same : r.id < row[u].id
      /\ \A u, v \in new : row[u].id = row[v].id => u = v
  BY NewIds
<1>2. \A u \in new : \E i : row[u] = [id |-> i, uid |-> u, uv |-> uv, body |-> NoText]
  BY DEF NewRow
<1>3. fresh = image
  BY DEF FreshRows
<1>4. DOMAIN row = new
  OBVIOUS
<1> HIDE DEF row
<1>5. IsFiniteSet(image)
  BY <1>4, ImageFinite
<1>6. \A u \in new : /\ row[u].uid = u /\ row[u].uv = uv /\ row[u].body = NoText
                     /\ row[u] \in Rows
                     /\ \A k \in same : k.id # row[u].id
  <2> TAKE u \in new
  <2>1. PICK i : row[u] = [id |-> i, uid |-> u, uv |-> uv, body |-> NoText]
    BY <1>2
  <2>2. row[u] \in Rows
    BY <1>1, <2>1 DEF Rows
  <2>3. \A k \in same : k.id # row[u].id
    BY <1>1 DEF Rows
  <2> QED
    BY <2>1, <2>2, <2>3
<1>7. /\ image \subseteq Rows
      /\ \A r \in image : r.uid \in new /\ r.uv = uv /\ r.body = NoText
      /\ \A r \in image : \A k \in same : k.id # r.id
      /\ \A r, q \in image : r.id = q.id \/ r.uid = q.uid => r = q
      /\ \A u \in new : \E r \in image : r.uid = u
  BY <1>1, <1>6
<1> HIDE DEF image
<1> QED
  BY <1>3, <1>5, <1>7

\* The uids of some rows are finitely many.
LEMMA UidsFinite ==
  ASSUME NEW rs, IsFiniteSet(rs)
  PROVE  IsFiniteSet({r.uid : r \in rs})
<1> DEFINE f == [r \in rs |-> r.uid]
<1>1. IsFiniteSet({f[r] : r \in rs})
  BY ImageFinite
<1> QED
  BY <1>1

\* Rows that are given a body stay the same rows.
Written(target, text) == (rows \ target) \cup {[r EXCEPT !.body = text] : r \in target}

LEMMA WrittenRows ==
  ASSUME TypeOK, IsFiniteSet(rows), NEW target, target \subseteq rows, NEW text \in Texts
  PROVE  /\ Written(target, text) \subseteq Rows
         /\ IsFiniteSet(Written(target, text))
         /\ \A r \in Written(target, text) : \E q \in rows :
               /\ r.id = q.id /\ r.uid = q.uid /\ r.uv = q.uv
               /\ q \in target => r.body = text
               /\ q \notin target => r = q
         /\ \A r, q \in Written(target, text) :
               r.id = q.id \/ (r.uid = q.uid /\ r.uv = q.uv) => r = q
         /\ IdsOf(Written(target, text)) = IdsOf(rows)
<1> DEFINE f == [r \in target |-> [r EXCEPT !.body = text]]
           fresh == {[r EXCEPT !.body = text] : r \in target}
<1>1. IsFiniteSet(target) /\ IsFiniteSet(rows \ target)
  BY FS_Subset
<1>2. IsFiniteSet({f[r] : r \in target})
  <2>1. DOMAIN f = target
    OBVIOUS
  <2> HIDE DEF f
  <2> QED
    BY <1>1, <2>1, ImageFinite
<1>3. IsFiniteSet(fresh)
  BY <1>2
<1>4. \A r \in target : /\ [r EXCEPT !.body = text] \in Rows
                        /\ [r EXCEPT !.body = text].id = r.id
                        /\ [r EXCEPT !.body = text].uid = r.uid
                        /\ [r EXCEPT !.body = text].uv = r.uv
                        /\ [r EXCEPT !.body = text].body = text
  BY DEF TypeOK, Rows
<1>5. IsFiniteSet(Written(target, text))
  BY <1>1, <1>3, FS_Union DEF Written
<1>6. Written(target, text) \subseteq Rows
  BY <1>4 DEF Written, TypeOK
<1>7. \A r \in Written(target, text) : \E q \in rows :
        /\ r.id = q.id /\ r.uid = q.uid /\ r.uv = q.uv
        /\ q \in target => r = [q EXCEPT !.body = text] /\ r.body = text
        /\ q \notin target => r = q
  BY <1>4 DEF Written
<1>8. \A r, q \in Written(target, text) :
         r.id = q.id \/ (r.uid = q.uid /\ r.uv = q.uv) => r = q
  BY <1>7 DEF TypeOK
<1>9. IdsOf(Written(target, text)) = IdsOf(rows)
  BY <1>4 DEF Written, IdsOf
<1> QED
  BY <1>5, <1>6, <1>7, <1>8, <1>9

LEMMA TypesInitially == Init => Types
<1> SUFFICES ASSUME Init PROVE Types
  OBVIOUS
<1>1. job \in [Workers -> Jobs] /\ \A w \in Workers : job[w].uids = {}
  <2>1. PICK cast \in Casts : job = [w \in Workers |-> IF w \in cast THEN NoJob ELSE Away]
    BY DEF Init
  <2> QED
    BY <2>1, JobTypes
<1>2. IsFiniteSet({})
  BY FS_EmptySet
<1>3. changes \in 0..MaxChanges /\ drops \in 0..MaxDrops /\ faults \in 0..MaxFaults
  BY BoundsAssumption DEF Init
<1> QED
  BY <1>1, <1>2, <1>3 DEF Init, Types, TypeOK, FiniteInv

\* A step that changes only jobs and counters.
LEMMA JobStepTypes ==
  ASSUME Types, NEW w \in Workers, NEW j \in Jobs, IsFiniteSet(j.uids),
         job' = [job EXCEPT ![w] = j], UNCHANGED <<suv, mbox, rows, fts>>, latest' \in Batchers,
         changes' \in 0..MaxChanges, drops' \in 0..MaxDrops, faults' \in 0..MaxFaults
  PROVE  Types'
<1>1. job' \in [Workers -> Jobs] /\ \A v \in Workers : IsFiniteSet(job'[v].uids)
  BY DEF Types, TypeOK, FiniteInv
<1> QED
  BY <1>1 DEF Types, TypeOK, FiniteInv

LEMMA ServerTypes == ASSUME Types, ServerStep PROVE Types'
<1> USE DEF Types, TypeOK, FiniteInv
<1>1. CASE Deliver
  <2>1. PICK u \in Uids : mbox' = mbox \cup {u}
    BY <1>1 DEF Deliver
  <2>2. IsFiniteSet(mbox')
    BY <2>1, FS_AddElement
  <2> QED
    BY <1>1, <2>1, <2>2, BoundsAssumption DEF Deliver, Changes
<1>2. CASE Remove
  <2>1. PICK u \in mbox : mbox' = mbox \ {u}
    BY <1>2 DEF Remove
  <2>2. IsFiniteSet(mbox')
    BY <2>1, FS_RemoveElement
  <2> QED
    BY <1>2, <2>1, <2>2, BoundsAssumption DEF Remove, Changes
<1>3. CASE ResetUidvalidity
  BY <1>3, BoundsAssumption DEF ResetUidvalidity, Changes
<1> QED
  BY <1>1, <1>2, <1>3 DEF ServerStep

LEMMA KeptTypes ==
  ASSUME Types, NEW kept, kept \subseteq rows, KeepOnly(kept)
  PROVE  /\ kept \subseteq Rows /\ IsFiniteSet(kept)
         /\ fts' \subseteq fts /\ fts' \subseteq Entries
         /\ \A d, e \in fts' : d.id = e.id => d = e
BY FS_Subset DEF Types, TypeOK, FiniteInv, KeepOnly

LEMMA ApplyTypes ==
  ASSUME Types, NEW w \in Workers, ApplySnapshot(w)
  PROVE  Types'
<1> DEFINE sn == job[w]
           kept == {r \in rows : r.uv = sn.uv /\ r.uid \in sn.uids}
           new == {u \in sn.uids : \A r \in kept : r.uid # u}
           same == {r \in rows : r.uv = sn.uv}
           fresh == {NewRow(u, sn.uv, new, same) : u \in new}
<1> USE DEF Types, TypeOK, FiniteInv
<1>1. sn \in Jobs /\ sn.uids \subseteq Uids /\ IsFiniteSet(sn.uids) /\ sn.uv \in Nat
  BY DEF Jobs
<1>2. CASE latest # w
  <2>1. job' = [job EXCEPT ![w] = NoJob] /\ UNCHANGED <<rows, fts, suv, mbox, latest, bounds>>
    BY <1>2 DEF ApplySnapshot
  <2>2. IsFiniteSet(NoJob.uids)
    BY JobTypes, FS_EmptySet
  <2> QED
    BY <2>1, <2>2, JobTypes, JobStepTypes DEF bounds
<1>3. CASE latest = w
  <2>1. /\ rows' = kept \cup fresh
        /\ KeepOnly(kept)
        /\ job' = [job EXCEPT ![w] = IF w \in WithBodies THEN [sn EXCEPT !.at = "list", !.uids = {}]
                                                         ELSE NoJob]
        /\ UNCHANGED <<suv, mbox, latest, bounds>>
    BY <1>3 DEF ApplySnapshot
  <2>2. job' \in [Workers -> Jobs] /\ \A v \in Workers : IsFiniteSet(job'[v].uids)
    <3>1. [sn EXCEPT !.at = "list", !.uids = {}] \in Jobs
          /\ [sn EXCEPT !.at = "list", !.uids = {}].uids = {}
      BY <1>1 DEF Jobs
    <3> QED
      BY <2>1, <3>1, JobTypes, FS_EmptySet
  <2>3. IsFiniteSet(new) /\ new \subseteq Uids
    BY <1>1, FS_Subset
  <2>4. IsFiniteSet(same) /\ same \subseteq Rows /\ kept \subseteq same
    BY FS_Subset
  <2>5. sn.uv \in Nat \ {0}
    BY <1>1 DEF ApplySnapshot, Jobs
  <2>6. /\ fresh \subseteq Rows /\ IsFiniteSet(fresh)
        /\ \A r \in fresh : r.uid \in new /\ r.uv = sn.uv /\ r.body = NoText
        /\ \A r \in fresh : \A k \in same : k.id # r.id
        /\ \A r, q \in fresh : r.id = q.id \/ r.uid = q.uid => r = q
    <3>1. fresh = FreshRows(sn.uv, new, same)
      BY DEF FreshRows
    <3> HIDE DEF new, same, fresh, sn
    <3> QED
      BY <2>3, <2>4, <2>5, <3>1, NewRows
  <2>10. rows' \subseteq Rows /\ IsFiniteSet(rows')
    <3> HIDE DEF fresh, kept
    <3>1. IsFiniteSet(kept) /\ kept \subseteq Rows
      BY <2>4, FS_Subset
    <3> QED
      BY <2>1, <2>6, <3>1, FS_Union
  <2>11. \A r, q \in rows' : r.id = q.id \/ (r.uid = q.uid /\ r.uv = q.uv) => r = q
    <3> SUFFICES ASSUME NEW r \in rows', NEW q \in rows',
                        r.id = q.id \/ (r.uid = q.uid /\ r.uv = q.uv)
                 PROVE  r = q
      OBVIOUS
    <3>1. CASE r \in kept /\ q \in kept
      BY <3>1
    <3>2. \A k \in kept, n \in fresh : k.id # n.id /\ k.uid # n.uid
      <4>1. \A k \in kept, u \in new : k.uid # u
        OBVIOUS
      <4> HIDE DEF kept, fresh, new, same
      <4> QED
        BY <2>4, <2>6, <4>1
    <3>3. CASE r \in fresh /\ q \in fresh
      BY <2>6, <3>3
    <3> HIDE DEF kept, fresh
    <3> QED
      BY <2>1, <3>1, <3>2, <3>3
  <2>12. fts' \subseteq Entries /\ \A d, e \in fts' : d.id = e.id => d = e
    BY <2>1, KeptTypes
  <2> QED
    BY <2>1, <2>2, <2>10, <2>11, <2>12 DEF bounds
<1> QED
  BY <1>2, <1>3

\* A snapshot that applies keeps rows as they are, or makes new ones without a body.
LEMMA AppliedRows ==
  ASSUME Types, NEW w \in Workers, ApplySnapshot(w), latest = w
  PROVE  \E kept :
           /\ kept \subseteq rows /\ KeepOnly(kept) /\ kept \subseteq rows'
           /\ \A r \in rows' : /\ r.uv = job[w].uv
                               /\ r \in kept \/ r.body = NoText
<1>1. ASSUME NEW uv, NEW new, NEW same, NEW r \in FreshRows(uv, new, same)
      PROVE  r.uv = uv /\ r.body = NoText
  <2>1. PICK u \in new : r = NewRow(u, uv, new, same)
    BY <1>1 DEF FreshRows
  <2>2. PICK i : r = [id |-> i, uid |-> u, uv |-> uv, body |-> NoText]
    BY <2>1 DEF NewRow
  <2> QED
    BY <2>2
<1> DEFINE sn == job[w]
           kept == {r \in rows : r.uv = sn.uv /\ r.uid \in sn.uids}
           new == {u \in sn.uids : \A r \in kept : r.uid # u}
           same == {r \in rows : r.uv = sn.uv}
<1>2. rows' = kept \cup FreshRows(sn.uv, new, same) /\ KeepOnly(kept)
  BY DEF ApplySnapshot, FreshRows
<1>3. \A r \in FreshRows(sn.uv, new, same) : r.uv = sn.uv /\ r.body = NoText
  BY <1>1
<1> QED
  BY <1>2, <1>3

\* write_maildir picks a body and, if it can be indexed, its row.
LEMMA MaildirWritten ==
  ASSUME Types, NEW w \in Workers, WriteMaildir(w)
  PROVE  \E b \in job[w].got, at \in {"path", "delete"}, id \in Nat :
           /\ job' = [job EXCEPT ![w] = [job[w] EXCEPT !.got = @ \ {b}, !.cur = b, !.at = at, !.id = id]]
           /\ at = "delete" => \E r \in RowOf(b.uid, job[w].uv) : r.id = id
           /\ at = "delete" => b.uid \notin Unparsable
           /\ at = "path" => b.uid \in Unparsable \/ RowOf(b.uid, job[w].uv) = {}
<1>1. PICK b \in job[w].got :
        LET target == IF b.uid \in Unparsable THEN {} ELSE RowOf(b.uid, job[w].uv) IN
        job' = [job EXCEPT ![w].got = @ \ {b}, ![w].cur = b,
                           ![w].at = IF target = {} THEN "path" ELSE "delete",
                           ![w].id = IF target = {} THEN 0 ELSE (CHOOSE r \in target : TRUE).id]
  BY DEF WriteMaildir
<1> DEFINE target == IF b.uid \in Unparsable THEN {} ELSE RowOf(b.uid, job[w].uv)
           chosen == CHOOSE r \in target : TRUE
           id == IF target = {} THEN 0 ELSE chosen.id
           at == IF target = {} THEN "path" ELSE "delete"
<1>2. job' = [job EXCEPT ![w] = [job[w] EXCEPT !.got = @ \ {b}, !.cur = b, !.at = at, !.id = id]]
  BY <1>1
<1>3. target # {} => chosen \in target
  OBVIOUS
<1>4. target \subseteq Rows
  BY DEF RowOf, Types, TypeOK
<1> HIDE DEF chosen
<1>5. id \in Nat /\ at \in {"path", "delete"}
  BY <1>3, <1>4 DEF Rows
<1>6. at = "delete" => b.uid \notin Unparsable /\ \E r \in RowOf(b.uid, job[w].uv) : r.id = id
  BY <1>3
<1>7. at = "path" => b.uid \in Unparsable \/ RowOf(b.uid, job[w].uv) = {}
  OBVIOUS
<1> HIDE DEF id, at
<1> QED
  BY <1>2, <1>5, <1>6, <1>7

\* What w does with its job alone.
LEMMA OwnJobTypes ==
  ASSUME Types, NEW w \in Workers,
         FetchHeaders(w) \/ ListUnfetched(w) \/ View(w) \/ FetchBodies(w) \/ WriteMaildir(w) \/ Fail(w)
  PROVE  Types'
<1> USE DEF Types, TypeOK, FiniteInv
<1>1. CASE FetchHeaders(w)
  <2> DEFINE j == [NoJob EXCEPT !.at = "apply", !.uv = suv, !.uids = mbox]
  <2>1. j \in Jobs /\ IsFiniteSet(j.uids)
    BY JobTypes DEF Jobs, NoJob
  <2>2. job' = [job EXCEPT ![w] = j] /\ latest' \in Batchers /\ UNCHANGED <<suv, mbox, rows, fts, bounds>>
    BY <1>1 DEF FetchHeaders
  <2> HIDE DEF j
  <2> QED
    BY <2>1, <2>2, JobStepTypes DEF bounds
<1>2. CASE ListUnfetched(w)
  <2> DEFINE missing == {r.uid : r \in {x \in rows : x.body = NoText}}
             j == IF missing = {} THEN NoJob
                  ELSE [job[w] EXCEPT !.at = "download", !.uids = missing]
  <2>1. IsFiniteSet({x \in rows : x.body = NoText})
    BY FS_Subset
  <2>2. IsFiniteSet(missing) /\ missing \subseteq Uids
    BY <2>1, UidsFinite DEF Rows
  <2>3. job' = [job EXCEPT ![w] = j] /\ UNCHANGED <<suv, mbox, rows, fts, latest, bounds>>
    BY <1>2 DEF ListUnfetched
  <2> HIDE DEF missing
  <2>4. j \in Jobs /\ IsFiniteSet(j.uids)
    BY <2>2, JobTypes, FS_EmptySet DEF Jobs
  <2> HIDE DEF j
  <2> QED
    BY <2>3, <2>4, JobStepTypes DEF bounds
<1>3. CASE View(w)
  <2>1. PICK r \in rows :
           job' = [job EXCEPT ![w] = [NoJob EXCEPT !.at = "download", !.uv = r.uv, !.uids = {r.uid}]]
    BY <1>3 DEF View
  <2> DEFINE j == [NoJob EXCEPT !.at = "download", !.uv = r.uv, !.uids = {r.uid}]
  <2>2. j \in Jobs /\ j.uids = {r.uid}
    BY DEF Jobs, NoJob, Rows
  <2>3. IsFiniteSet(j.uids)
    <3>1. \A x : IsFiniteSet({x})
      BY FS_Singleton
    <3>2. IsFiniteSet({r.uid})
      BY <3>1
    <3> HIDE DEF j
    <3> QED
      BY <2>2, <3>2
  <2>4. UNCHANGED <<suv, mbox, rows, fts, latest, bounds>>
    BY <1>3 DEF View
  <2> HIDE DEF j
  <2> QED
    BY <2>1, <2>2, <2>3, <2>4, JobStepTypes DEF bounds, j
<1>4. CASE FetchBodies(w)
  <2> DEFINE got == {[uid |-> u, text |-> <<u, suv>>] : u \in job[w].uids \cap mbox}
             j == IF got = {} THEN NoJob ELSE [job[w] EXCEPT !.at = "body", !.uids = {}, !.got = got]
  <2>1. got \subseteq Bodies
    BY DEF Bodies, Texts
  <2>2. job' = [job EXCEPT ![w] = j] /\ UNCHANGED <<suv, mbox, rows, fts, latest, bounds>>
    BY <1>4 DEF FetchBodies
  <2> HIDE DEF got
  <2>3. j \in Jobs /\ IsFiniteSet(j.uids)
    BY <2>1, JobTypes, FS_EmptySet DEF Jobs
  <2> HIDE DEF j
  <2> QED
    BY <2>2, <2>3, JobStepTypes DEF bounds
<1>5. CASE WriteMaildir(w)
  <2>1. PICK b \in job[w].got, at \in {"path", "delete"}, id \in Nat :
          /\ job' = [job EXCEPT ![w] = [job[w] EXCEPT !.got = @ \ {b}, !.cur = b, !.at = at, !.id = id]]
          /\ at = "delete" => \E r \in RowOf(b.uid, job[w].uv) : r.id = id
    BY <1>5, MaildirWritten
  <2> DEFINE j == [job[w] EXCEPT !.got = @ \ {b}, !.cur = b, !.at = at, !.id = id]
  <2>2. at = "delete" => id # 0
    BY <2>1 DEF RowOf, Rows
  <2>3. job[w] \in Jobs /\ b \in Bodies
    BY DEF Jobs
  <2>4. UNCHANGED <<suv, mbox, rows, fts, latest, bounds>>
    BY <1>5 DEF WriteMaildir
  <2>5. j \in Jobs /\ j.uids = job[w].uids
    BY <2>2, <2>3 DEF Jobs
  <2> HIDE DEF j
  <2> QED
    BY <2>1, <2>4, <2>5, JobStepTypes DEF bounds, j
<1>6. CASE Fail(w)
  <2>1. faults' \in 0..MaxFaults
    BY <1>6, BoundsAssumption DEF Fail
  <2>2. IsFiniteSet(NoJob.uids)
    BY JobTypes, FS_EmptySet
  <2> QED
    BY <1>6, <2>1, <2>2, JobTypes, JobStepTypes DEF Fail
<1> QED
  BY <1>1, <1>2, <1>3, <1>4, <1>5, <1>6

\* What changes the rows or the index.
LEMMA RowStepTypes ==
  ASSUME Types, NEW w \in Workers,
         Drop(w) \/ DeleteEntry(w) \/ InsertEntry(w) \/ SetMaildirPath(w)
  PROVE  Types'
<1> USE DEF Types, TypeOK, FiniteInv
<1>1. CASE Drop(w)
  <2>1. PICK r \in rows : rows' = rows \ {r} /\ KeepOnly(rows \ {r})
    BY <1>1 DEF Drop
  <2>2. drops' \in 0..MaxDrops
    BY <1>1, BoundsAssumption DEF Drop
  <2>3. /\ rows' \subseteq rows /\ IsFiniteSet(rows')
        /\ fts' \subseteq Entries /\ \A d, e \in fts' : d.id = e.id => d = e
    BY <2>1, KeptTypes
  <2> QED
    BY <1>1, <2>2, <2>3 DEF Drop
<1>2. CASE DeleteEntry(w)
  <2> DEFINE j == [job[w] EXCEPT !.at = "insert"]
  <2>1. job' = [job EXCEPT ![w] = j] /\ j \in Jobs /\ j.uids = job[w].uids
    BY <1>2 DEF DeleteEntry, Jobs
  <2>2. job' \in [Workers -> Jobs] /\ \A v \in Workers : IsFiniteSet(job'[v].uids)
    BY <2>1
  <2> QED
    BY <1>2, <2>2 DEF DeleteEntry, bounds
<1>3. CASE InsertEntry(w)
  <2>1. CASE job[w].id \in IdsOf(fts)
    <3>1. job' = [job EXCEPT ![w] = NoJob] /\ UNCHANGED <<suv, mbox, rows, fts, latest, bounds>>
      BY <1>3, <2>1 DEF InsertEntry
    <3>2. IsFiniteSet(NoJob.uids)
      BY JobTypes, FS_EmptySet
    <3> QED
      BY <3>1, <3>2, JobTypes, JobStepTypes DEF bounds
  <2>2. CASE job[w].id \notin IdsOf(fts)
    <3> DEFINE j == [job[w] EXCEPT !.at = "path"]
               entry == [id |-> job[w].id, text |-> job[w].cur.text]
    <3>1. job' = [job EXCEPT ![w] = j] /\ j \in Jobs /\ j.uids = job[w].uids
      BY <1>3, <2>2 DEF InsertEntry, Jobs
    <3>2. job' \in [Workers -> Jobs] /\ \A v \in Workers : IsFiniteSet(job'[v].uids)
      BY <3>1
    <3>3. entry \in Entries
      BY <1>3 DEF InsertEntry, Jobs, Bodies, Entries
    <3>4. fts' = fts \cup {entry}
      BY <1>3, <2>2 DEF InsertEntry
    <3>5. \A d, e \in fts' : d.id = e.id => d = e
      BY <2>2, <3>4 DEF IdsOf
    <3> QED
      BY <1>3, <3>2, <3>3, <3>4, <3>5 DEF InsertEntry, bounds
  <2> QED
    BY <2>1, <2>2
<1>4. CASE SetMaildirPath(w)
  <2> DEFINE target == RowOf(job[w].cur.uid, job[w].uv)
             text == job[w].cur.text
  <2>1. text \in Texts /\ target \subseteq rows
    BY <1>4 DEF SetMaildirPath, Jobs, Bodies, RowOf
  <2>2. /\ rows' = Written(target, text)
        /\ job' = [job EXCEPT ![w] = NextBody(w)]
        /\ UNCHANGED <<suv, mbox, fts, latest, bounds>>
    BY <1>4 DEF SetMaildirPath, Written
  <2>3. /\ rows' \subseteq Rows /\ IsFiniteSet(rows')
        /\ \A r, q \in rows' : r.id = q.id \/ (r.uid = q.uid /\ r.uv = q.uv) => r = q
    <3> HIDE DEF target, text
    <3> QED
      BY <2>1, <2>2, WrittenRows
  <2>4. NextBody(w) \in Jobs /\ IsFiniteSet(NextBody(w).uids)
    <3>1. job[w] \in Jobs
      OBVIOUS
    <3>2. /\ [job[w] EXCEPT !.at = "body", !.cur = NoBody, !.id = 0] \in Jobs
          /\ [job[w] EXCEPT !.at = "body", !.cur = NoBody, !.id = 0].uids = job[w].uids
      BY <3>1 DEF Jobs
    <3> QED
      BY <3>2, JobTypes, FS_EmptySet DEF NextBody
  <2>5. job' \in [Workers -> Jobs] /\ \A v \in Workers : IsFiniteSet(job'[v].uids)
    BY <2>2, <2>4
  <2> QED
    BY <2>2, <2>3, <2>5 DEF bounds
<1> QED
  BY <1>1, <1>2, <1>3, <1>4

LEMMA TypesKept == Types /\ [Next]_vars => Types'
<1> SUFFICES ASSUME Types, [Next]_vars PROVE Types'
  OBVIOUS
<1>1. CASE UNCHANGED vars
  BY <1>1 DEF vars, bounds, Types, TypeOK, FiniteInv
<1>2. CASE ServerStep
  BY <1>2, ServerTypes
<1>3. ASSUME NEW w \in Workers, Work(w) \/ Drop(w) \/ Fail(w) PROVE Types'
  BY <1>3, ApplyTypes, OwnJobTypes, RowStepTypes DEF Work
<1> QED
  BY <1>1, <1>2, <1>3 DEF Next

\* Every variable keeps its type; in particular, the rows of the folder have distinct
\* ids and distinct keys, and the search index has one entry for an id.
THEOREM TypeCorrect == Spec => []TypeOK
<1>1. Spec => []Types
  BY TypesInitially, TypesKept, PTL DEF Spec
<1> QED
  BY <1>1, PTL DEF Types

-----------------------------------------------------------------------------
(* The bodies of rows that carry the present UIDVALIDITY *)

JobSource(j) ==
  /\ j.uv <= suv
  /\ \A b \in j.got \cup ({j.cur} \ {NoBody}) : Genuine(b.text, b.uid, j.uv)

LEMMA SourceInitially == Init => SourceInv
BY JobTypes DEF Init, SourceInv

LEMMA NoJobSource == TypeOK => JobSource(NoJob)
BY JobTypes DEF TypeOK, JobSource

\* A step that changes one job and no UIDVALIDITY.
LEMMA JobStepSource ==
  ASSUME TypeOK, SourceInv, NEW w \in Workers, NEW j, job' = [job EXCEPT ![w] = j],
         JobSource(j), UNCHANGED <<suv, rows>>
  PROVE  SourceInv'
BY DEF TypeOK, SourceInv, JobSource, Genuine

LEMMA OwnJobSource ==
  ASSUME Types, SourceInv, NEW w \in Workers,
         FetchHeaders(w) \/ ListUnfetched(w) \/ View(w) \/ FetchBodies(w) \/ WriteMaildir(w)
           \/ DeleteEntry(w) \/ InsertEntry(w) \/ Fail(w)
  PROVE  SourceInv'
<1> USE DEF Types, TypeOK
<1>1. JobSource(job[w]) /\ job[w] \in Jobs
  BY DEF SourceInv, JobSource
<1>2. CASE FetchHeaders(w)
  <2> DEFINE j == [NoJob EXCEPT !.at = "apply", !.uv = suv, !.uids = mbox]
  <2>1. JobSource(j)
    BY JobTypes DEF JobSource, NoJob
  <2> QED
    BY <1>2, <2>1, JobStepSource DEF FetchHeaders
<1>3. CASE ListUnfetched(w)
  <2> DEFINE missing == {r.uid : r \in {x \in rows : x.body = NoText}}
             j == [job[w] EXCEPT !.at = "download", !.uids = missing]
  <2>1. JobSource(j)
    BY <1>1 DEF JobSource, Jobs
  <2> QED
    BY <1>3, <2>1, NoJobSource, JobStepSource DEF ListUnfetched
<1>4. CASE View(w)
  <2>1. PICK r \in rows :
           job' = [job EXCEPT ![w] = [NoJob EXCEPT !.at = "download", !.uv = r.uv, !.uids = {r.uid}]]
    BY <1>4 DEF View
  <2>2. JobSource([NoJob EXCEPT !.at = "download", !.uv = r.uv, !.uids = {r.uid}])
    BY JobTypes DEF JobSource, NoJob, SourceInv
  <2> QED
    BY <1>4, <2>1, <2>2, JobStepSource DEF View
<1>5. CASE FetchBodies(w)
  <2> DEFINE got == {[uid |-> u, text |-> <<u, suv>>] : u \in job[w].uids \cap mbox}
             j == [job[w] EXCEPT !.at = "body", !.uids = {}, !.got = got]
  <2>1. \A b \in got : Genuine(b.text, b.uid, job[w].uv)
    BY <1>1 DEF JobSource, Genuine
  <2>2. job' = [job EXCEPT ![w] = IF got = {} THEN NoJob ELSE j] /\ UNCHANGED <<suv, rows>>
    BY <1>5 DEF FetchBodies
  <2> HIDE DEF got
  <2>3. JobSource(j)
    BY <1>1, <2>1 DEF JobSource, Jobs
  <2> QED
    BY <2>2, <2>3, NoJobSource, JobStepSource
<1>6. CASE WriteMaildir(w)
  <2>1. PICK b \in job[w].got, at \in {"path", "delete"}, id \in Nat :
          /\ job' = [job EXCEPT ![w] = [job[w] EXCEPT !.got = @ \ {b}, !.cur = b, !.at = at, !.id = id]]
          /\ at = "delete" => \E r \in RowOf(b.uid, job[w].uv) : r.id = id
    BY <1>6, MaildirWritten
  <2>2. JobSource([job[w] EXCEPT !.got = @ \ {b}, !.cur = b, !.at = at, !.id = id])
    BY <1>1 DEF JobSource, Jobs
  <2> QED
    BY <1>6, <2>1, <2>2, JobStepSource DEF WriteMaildir
<1>7. CASE DeleteEntry(w) \/ InsertEntry(w)
  <2>1. PICK at : job' = [job EXCEPT ![w] = [job[w] EXCEPT !.at = at]] \/ job' = [job EXCEPT ![w] = NoJob]
    BY <1>7 DEF DeleteEntry, InsertEntry
  <2>2. JobSource([job[w] EXCEPT !.at = at])
    BY <1>1 DEF JobSource, Jobs
  <2> QED
    BY <1>7, <2>1, <2>2, NoJobSource, JobStepSource DEF DeleteEntry, InsertEntry
<1>8. CASE Fail(w)
  BY <1>8, NoJobSource, JobStepSource DEF Fail
<1> QED
  BY <1>2, <1>3, <1>4, <1>5, <1>6, <1>7, <1>8

LEMMA ServerSource == ASSUME Types, SourceInv, ServerStep PROVE SourceInv'
<1> USE DEF Types, TypeOK, SourceInv, Genuine
<1>1. CASE Deliver \/ Remove
  BY <1>1 DEF Deliver, Remove
<1>2. CASE ResetUidvalidity
  <2>1. suv' = suv + 1 /\ suv \in Nat /\ UNCHANGED <<rows, job>>
    BY <1>2 DEF ResetUidvalidity
  <2>2. \A r \in rows : r.uv \in Nat /\ (r.body # NoText => r.body \in Texts)
    BY DEF Rows
  <2>3. \A w \in Workers : job[w].uv \in Nat
                          /\ \A b \in job[w].got \cup ({job[w].cur} \ {NoBody}) : b \in Bodies
    BY DEF Jobs
  <2> QED
    BY <2>1, <2>2, <2>3 DEF Texts, Bodies
<1> QED
  BY <1>1, <1>2 DEF ServerStep

LEMMA RowStepSource ==
  ASSUME Types, SourceInv, NEW w \in Workers, ApplySnapshot(w) \/ Drop(w) \/ SetMaildirPath(w)
  PROVE  SourceInv'
<1> USE DEF Types, TypeOK
<1>1. JobSource(job[w]) /\ job[w] \in Jobs
  BY DEF SourceInv, JobSource
<1>2. ASSUME NEW j, job' = [job EXCEPT ![w] = j], JobSource(j), suv' = suv,
             \A r \in rows' : r.uv <= suv /\ (r.body # NoText => Genuine(r.body, r.uid, r.uv))
      PROVE  SourceInv'
  BY <1>2 DEF SourceInv, JobSource, Genuine
<1>3. CASE ApplySnapshot(w)
  <2>1. PICK j \in {NoJob, [job[w] EXCEPT !.at = "list", !.uids = {}]} : job' = [job EXCEPT ![w] = j]
    BY <1>3 DEF ApplySnapshot
  <2>2. JobSource(j)
    BY <1>1, <2>1, NoJobSource DEF JobSource, Jobs
  <2>3. \A r \in rows' : r \in rows \/ (r.uv = job[w].uv /\ r.body = NoText)
    <3>1. CASE latest = w
      <4>1. PICK kept :
              /\ kept \subseteq rows /\ KeepOnly(kept) /\ kept \subseteq rows'
              /\ \A r \in rows' : /\ r.uv = job[w].uv
                                  /\ r \in kept \/ r.body = NoText
        BY <1>3, <3>1, AppliedRows
      <4> QED
        BY <4>1
    <3>2. CASE latest # w
      BY <1>3, <3>2 DEF ApplySnapshot
    <3> QED
      BY <3>1, <3>2
  <2>4. suv' = suv
    BY <1>3 DEF ApplySnapshot
  <2> QED
    BY <1>1, <1>2, <2>1, <2>2, <2>3, <2>4 DEF SourceInv, JobSource
<1>4. CASE Drop(w)
  BY <1>4 DEF Drop, SourceInv, Genuine
<1>5. CASE SetMaildirPath(w)
  <2> DEFINE target == RowOf(job[w].cur.uid, job[w].uv)
             text == job[w].cur.text
  <2>1. text \in Texts /\ target \subseteq rows /\ IsFiniteSet(rows)
    BY <1>5 DEF SetMaildirPath, Jobs, Bodies, RowOf, FiniteInv
  <2>2. rows' = Written(target, text) /\ job' = [job EXCEPT ![w] = NextBody(w)] /\ suv' = suv
    BY <1>5 DEF SetMaildirPath, Written
  <2>3. \A r \in rows' : \E q \in rows :
           /\ r.id = q.id /\ r.uid = q.uid /\ r.uv = q.uv
           /\ q \in target => r.body = text
           /\ q \notin target => r = q
    <3> HIDE DEF target, text
    <3> QED
      BY <2>1, <2>2, WrittenRows
  <2>4. job[w].cur # NoBody
    BY <1>5, UidsAreNumbers DEF SetMaildirPath, Jobs, Bodies, NoBody
  <2>5. Genuine(text, job[w].cur.uid, job[w].uv)
    BY <1>1, <2>4 DEF JobSource
  <2>6. \A q \in target : q.uid = job[w].cur.uid /\ q.uv = job[w].uv
    BY DEF RowOf
  <2>7. JobSource(NextBody(w))
    BY <1>1, NoJobSource DEF NextBody, JobSource, Jobs
  <2> HIDE DEF target, text
  <2>8. \A r \in rows' : r.uv <= suv /\ (r.body # NoText => Genuine(r.body, r.uid, r.uv))
    BY <2>3, <2>5, <2>6 DEF SourceInv
  <2> QED
    BY <1>2, <2>2, <2>7, <2>8
<1> QED
  BY <1>3, <1>4, <1>5

LEMMA SourceKept == Types /\ SourceInv /\ [Next]_vars => SourceInv'
<1> SUFFICES ASSUME Types, SourceInv, [Next]_vars PROVE SourceInv'
  OBVIOUS
<1>1. CASE UNCHANGED vars
  BY <1>1 DEF vars, SourceInv, Genuine
<1>2. CASE ServerStep
  BY <1>2, ServerSource
<1>3. ASSUME NEW w \in Workers, Work(w) \/ Drop(w) \/ Fail(w) PROVE SourceInv'
  BY <1>3, OwnJobSource, RowStepSource DEF Work
<1> QED
  BY <1>1, <1>2, <1>3 DEF Next

\* However many processes download, write and record bodies at once, and whenever the
\* server renumbers the folder: a row that carries the present UIDVALIDITY has its
\* own message's body or none.
THEOREM BodiesAreRight == Spec => []CurrentBodiesAreRight
<1>1. Spec => [](Types /\ SourceInv)
  BY TypesInitially, TypesKept, SourceInitially, SourceKept, PTL DEF Spec
<1>2. Types /\ SourceInv => CurrentBodiesAreRight
  <2> SUFFICES ASSUME TypeOK, SourceInv, NEW r \in rows, r.uv = suv, r.body # NoText
               PROVE  r.body = <<r.uid, r.uv>>
    BY DEF CurrentBodiesAreRight, Types
  <2>1. r.body \in Texts /\ r.uv \in Nat /\ Genuine(r.body, r.uid, r.uv)
    BY DEF TypeOK, Rows, SourceInv
  <2>2. r.body = <<r.body[1], r.body[2]>> /\ r.body[2] \in Nat
    BY <2>1 DEF Texts
  <2>3. r.body[1] = r.uid /\ r.body[2] = r.uv
    BY <2>1, <2>2 DEF Genuine
  <2> QED
    BY <2>2, <2>3
<1> QED
  BY <1>1, <1>2, PTL

-----------------------------------------------------------------------------
(* A process alone: the index and the rows *)

\* Who takes a step was there before it, and stays.
LEMMA OnlyPresentAct ==
  ASSUME Types, NEW v \in Workers, Work(v) \/ Drop(v) \/ Fail(v)
  PROVE  v \in Present /\ \E j : job' = [job EXCEPT ![v] = j] /\ j.at # "away"
<1> USE DEF Types, TypeOK
<1>0. job[v] \in Jobs /\ NoJob.at # "away"
  BY JobTypes
<1>1. CASE FetchHeaders(v)
  <2>1. [NoJob EXCEPT !.at = "apply", !.uv = suv, !.uids = mbox].at = "apply"
    BY DEF NoJob
  <2> QED
    BY <1>1, <2>1 DEF FetchHeaders, Present
<1>2. CASE ApplySnapshot(v)
  <2> DEFINE j == [job[v] EXCEPT !.at = "list", !.uids = {}]
  <2>1. job' = [job EXCEPT ![v] = NoJob] \/ job' = [job EXCEPT ![v] = j]
    BY <1>2 DEF ApplySnapshot
  <2>2. j.at = "list"
    BY <1>0 DEF Jobs
  <2> HIDE DEF j
  <2> QED
    BY <1>0, <1>2, <2>1, <2>2 DEF ApplySnapshot, Present
<1>3. CASE ListUnfetched(v)
  <2> DEFINE missing == {r.uid : r \in {x \in rows : x.body = NoText}}
             j == [job[v] EXCEPT !.at = "download", !.uids = missing]
  <2>1. job' = [job EXCEPT ![v] = NoJob] \/ job' = [job EXCEPT ![v] = j]
    BY <1>3 DEF ListUnfetched
  <2>2. j.at = "download"
    BY <1>0 DEF Jobs
  <2> HIDE DEF j
  <2> QED
    BY <1>0, <1>3, <2>1, <2>2 DEF ListUnfetched, Present
<1>4. CASE View(v)
  <2>1. PICK r \in rows :
           job' = [job EXCEPT ![v] = [NoJob EXCEPT !.at = "download", !.uv = r.uv, !.uids = {r.uid}]]
    BY <1>4 DEF View
  <2>2. [NoJob EXCEPT !.at = "download", !.uv = r.uv, !.uids = {r.uid}].at = "download"
    BY DEF NoJob
  <2> QED
    BY <1>4, <2>1, <2>2 DEF View, Present
<1>5. CASE FetchBodies(v)
  <2> DEFINE got == {[uid |-> u, text |-> <<u, suv>>] : u \in job[v].uids \cap mbox}
             j == [job[v] EXCEPT !.at = "body", !.uids = {}, !.got = got]
  <2>1. job' = [job EXCEPT ![v] = NoJob] \/ job' = [job EXCEPT ![v] = j]
    BY <1>5 DEF FetchBodies
  <2>2. j.at = "body"
    BY <1>0 DEF Jobs
  <2> HIDE DEF j
  <2> QED
    BY <1>0, <1>5, <2>1, <2>2 DEF FetchBodies, Present
<1>6. CASE WriteMaildir(v)
  <2>1. PICK b \in job[v].got, at \in {"path", "delete"}, id \in Nat :
          /\ job' = [job EXCEPT ![v] = [job[v] EXCEPT !.got = @ \ {b}, !.cur = b, !.at = at, !.id = id]]
          /\ at = "delete" => \E r \in RowOf(b.uid, job[v].uv) : r.id = id
    BY <1>6, MaildirWritten
  <2>2. [job[v] EXCEPT !.got = @ \ {b}, !.cur = b, !.at = at, !.id = id].at # "away"
    BY DEF Jobs
  <2> QED
    BY <1>6, <2>1, <2>2 DEF WriteMaildir, Present
<1>7. CASE DeleteEntry(v)
  <2>1. job' = [job EXCEPT ![v] = [job[v] EXCEPT !.at = "insert"]] /\ job[v].at = "delete"
    BY <1>7 DEF DeleteEntry
  <2>2. [job[v] EXCEPT !.at = "insert"].at = "insert"
    BY <1>0 DEF Jobs
  <2> QED
    BY <2>1, <2>2 DEF Present
<1>8. CASE InsertEntry(v)
  <2>1. /\ job[v].at = "insert"
        /\ \/ job' = [job EXCEPT ![v] = [job[v] EXCEPT !.at = "path"]]
           \/ job' = [job EXCEPT ![v] = NoJob]
    BY <1>8 DEF InsertEntry
  <2>2. [job[v] EXCEPT !.at = "path"].at = "path"
    BY <1>0 DEF Jobs
  <2> QED
    BY <1>0, <2>1, <2>2 DEF Present
<1>9. CASE SetMaildirPath(v)
  <2>1. NextBody(v).at # "away"
    BY JobTypes DEF NextBody, Jobs
  <2> QED
    BY <1>9, <2>1 DEF SetMaildirPath, Present
<1>10. CASE Drop(v)
  BY <1>10 DEF Drop, Present
<1>11. CASE Fail(v)
  BY <1>11, JobTypes DEF Fail
<1> QED
  BY <1>1, <1>2, <1>3, <1>4, <1>5, <1>6, <1>7, <1>8, <1>9, <1>10, <1>11 DEF Work

\* Nobody comes or goes during a behaviour.
LEMMA PresentKept == ASSUME Types, [Next]_vars PROVE Present' = Present
<1>1. CASE job' = job
  BY <1>1 DEF Present
<1>2. CASE ServerStep
  BY <1>2 DEF ServerStep, Deliver, Remove, ResetUidvalidity, Present
<1>3. ASSUME NEW v \in Workers, Work(v) \/ Drop(v) \/ Fail(v) PROVE Present' = Present
  BY <1>3, OnlyPresentAct DEF Present, Types, TypeOK
<1> QED
  BY <1>1, <1>2, <1>3 DEF Next, vars

LEMMA AloneInitially == Init => AloneInv
<1> SUFFICES ASSUME Init, NEW w \in Workers, Present = {w} PROVE SoloInv(w)
  BY DEF AloneInv
<1>1. job[w] = NoJob
  BY JobTypes DEF Init, Present
<1> QED
  BY <1>1, JobTypes DEF Init, SoloInv, IdsOf

\* A job that ends leaves the index as it found it.
LEMMA SoloEnds ==
  ASSUME Types, NEW w \in Workers, SoloInv(w), job' = [job EXCEPT ![w] = NoJob],
         UNCHANGED <<rows, fts>>
  PROVE  SoloInv(w)'
BY JobTypes DEF Types, TypeOK, SoloInv, IdsOf, Unfinished

\* Taking and applying a snapshot.
LEMMA SoloSnapshot ==
  ASSUME Types, NEW w \in Batchers, SoloInv(w), FetchHeaders(w) \/ ApplySnapshot(w)
  PROVE  SoloInv(w)'
<1> USE DEF Types, TypeOK
<1>1. w \in Workers
  BY DEF Workers
<1>2. CASE FetchHeaders(w)
  <2>1. /\ job'[w].at = "apply" /\ job'[w].got = {} /\ job'[w].cur = NoBody
        /\ UNCHANGED <<rows, fts>>
    BY <1>1, <1>2 DEF FetchHeaders, NoJob
  <2> QED
    BY <2>1 DEF SoloInv, IdsOf
<1>3. CASE ApplySnapshot(w) /\ latest # w
  BY <1>1, <1>3, SoloEnds DEF ApplySnapshot
<1>4. CASE ApplySnapshot(w) /\ latest = w
  <2>1. PICK kept :
          /\ kept \subseteq rows /\ KeepOnly(kept) /\ kept \subseteq rows'
          /\ \A r \in rows' : /\ r.uv = job[w].uv
                              /\ r \in kept \/ r.body = NoText
    BY <1>1, <1>4, AppliedRows
  <2>2. \A r \in rows' :
           r.body # NoText /\ r.uid \notin Unparsable => [id |-> r.id, text |-> r.body] \in fts'
    <3> SUFFICES ASSUME NEW r \in rows', r.body # NoText, r.uid \notin Unparsable
                 PROVE  [id |-> r.id, text |-> r.body] \in fts'
      OBVIOUS
    <3> DEFINE e == [id |-> r.id, text |-> r.body]
    <3>1. r \in kept /\ e \in fts
      BY <2>1 DEF SoloInv
    <3>2. r.id \notin IdsOf(rows \ kept)
      BY <2>1, <3>1 DEF IdsOf
    <3>3. e.id = r.id
      OBVIOUS
    <3> HIDE DEF e
    <3>4. e \in fts'
      BY <2>1, <3>1, <3>2, <3>3 DEF KeepOnly
    <3> QED
      BY <3>4 DEF e
  <2>3. IdsOf(fts') \subseteq IdsOf(rows')
    <3> SUFFICES ASSUME NEW e \in fts' PROVE \E r \in rows' : r.id = e.id
      BY DEF IdsOf
    <3>1. e \in fts /\ e.id \notin IdsOf(rows \ kept)
      BY <2>1 DEF KeepOnly
    <3>2. PICK r \in rows : r.id = e.id
      BY <3>1 DEF SoloInv, IdsOf
    <3>3. r \in kept
      BY <3>1, <3>2 DEF IdsOf
    <3> QED
      BY <2>1, <3>2, <3>3
  <2>4. job[w] \in Jobs /\ job[w].got = {} /\ job[w].cur = NoBody
    BY <1>1, <1>4 DEF ApplySnapshot, SoloInv
  <2>5. /\ job'[w].at \in {"idle", "list"} /\ job'[w].got = {} /\ job'[w].cur = NoBody
        /\ job'[w].at = "list" => job'[w].uv = job[w].uv
    <3> DEFINE j == [job[w] EXCEPT !.at = "list", !.uids = {}]
    <3>1. job' = [job EXCEPT ![w] = NoJob] \/ job' = [job EXCEPT ![w] = j]
      BY <1>4 DEF ApplySnapshot
    <3>2. j.at = "list" /\ j.got = {} /\ j.cur = NoBody /\ j.uv = job[w].uv
      BY <2>4 DEF Jobs
    <3> HIDE DEF j
    <3> QED
      BY <1>1, <3>1, <3>2, JobTypes
  <2>6. \A r \in rows' : r.uv = job[w].uv
    BY <2>1
  <2> QED
    BY <2>2, <2>3, <2>5, <2>6 DEF SoloInv
<1> QED
  BY <1>2, <1>3, <1>4

\* Listing what is missing and downloading it.
LEMMA SoloDownload ==
  ASSUME Types, NEW w \in Batchers, SoloInv(w), ListUnfetched(w) \/ FetchBodies(w)
  PROVE  SoloInv(w)'
<1> USE DEF Types, TypeOK
<1>1. w \in Workers /\ job[w] \in Jobs
  BY DEF Workers
<1>2. job[w].got = {} /\ job[w].cur = NoBody
  BY DEF ListUnfetched, FetchBodies, SoloInv
<1>3. CASE ListUnfetched(w)
  <2> DEFINE missing == {r.uid : r \in {x \in rows : x.body = NoText}}
             j == [job[w] EXCEPT !.at = "download", !.uids = missing]
  <2>1. CASE job' = [job EXCEPT ![w] = NoJob]
    BY <1>1, <1>3, <2>1, SoloEnds DEF ListUnfetched
  <2>2. CASE job' = [job EXCEPT ![w] = j]
    <3>1. \A r \in rows : r.uv = job[w].uv
      BY <1>3 DEF ListUnfetched, SoloInv
    <3>2. \A r \in rows : r.uid \in missing \cup {0} => r.body = NoText
      BY <3>1, UidsAreNumbers DEF Rows
    <3>3. /\ job'[w].at = "download" /\ job'[w].uids = missing /\ job'[w].uv = job[w].uv
          /\ job'[w].got = {} /\ job'[w].cur = NoBody
          /\ UNCHANGED <<rows, fts>>
      <4> HIDE DEF missing
      <4>1. j.at = "download" /\ j.uids = missing /\ j.uv = job[w].uv /\ j.got = {} /\ j.cur = NoBody
        BY <1>1, <1>2 DEF Jobs
      <4> HIDE DEF j
      <4>2. job'[w] = j
        BY <1>1, <2>2
      <4> QED
        BY <1>1, <1>2, <1>3, <4>1, <4>2 DEF ListUnfetched
    <3> HIDE DEF missing, j
    <3>4. Unfinished(w)'
      BY <3>1, <3>2, <3>3 DEF Unfinished, NoBody
    <3> QED
      BY <3>3, <3>4 DEF SoloInv, IdsOf
  <2> QED
    BY <1>3, <2>1, <2>2 DEF ListUnfetched
<1>4. CASE FetchBodies(w)
  <2> DEFINE got == {[uid |-> u, text |-> <<u, suv>>] : u \in job[w].uids \cap mbox}
             j == [job[w] EXCEPT !.at = "body", !.uids = {}, !.got = got]
  <2>1. CASE job' = [job EXCEPT ![w] = NoJob]
    BY <1>1, <1>4, <2>1, SoloEnds DEF FetchBodies
  <2>2. CASE job' = [job EXCEPT ![w] = j]
    <3>1. /\ \A b \in got : b.uid \in job[w].uids /\ b.uid \in Uids
          /\ \A b, c \in got : b.uid = c.uid => b = c
      OBVIOUS
    <3>2. /\ job'[w].at = "body" /\ job'[w].uids = {} /\ job'[w].uv = job[w].uv
          /\ job'[w].got = got /\ job'[w].cur = NoBody
          /\ UNCHANGED <<rows, fts>>
      <4> HIDE DEF got
      <4>1. j.at = "body" /\ j.uids = {} /\ j.uv = job[w].uv /\ j.got = got /\ j.cur = NoBody
        BY <1>1, <1>2 DEF Jobs
      <4> HIDE DEF j
      <4>2. job'[w] = j
        BY <1>1, <2>2
      <4> QED
        BY <1>1, <1>2, <1>4, <4>1, <4>2 DEF FetchBodies
    <3>3. Unfinished(w)
      BY <1>4 DEF FetchBodies, SoloInv
    <3> HIDE DEF got, j
    <3>4. \A b, c \in got \cup {NoBody} : b.uid = c.uid => b = c
      BY <3>1, UidsAreNumbers DEF NoBody
    <3>5. \A r \in rows : r.uid \in {b.uid : b \in got \cup {NoBody}} => r.body = NoText
      BY <3>1, <3>3, UidsAreNumbers DEF Unfinished, NoBody, Rows
    <3>6. NoBody \notin got
      BY <3>1, UidsAreNumbers DEF NoBody
    <3>7. Unfinished(w)'
      BY <3>2, <3>3, <3>4, <3>5, <3>6 DEF Unfinished
    <3> QED
      BY <3>2, <3>7 DEF SoloInv, IdsOf
  <2> QED
    BY <1>4, <2>1, <2>2 DEF FetchBodies
<1> QED
  BY <1>3, <1>4

\* Writing one body, and the three statements that index it.
LEMMA SoloIndex ==
  ASSUME Types, NEW w \in Batchers, SoloInv(w),
         WriteMaildir(w) \/ DeleteEntry(w) \/ InsertEntry(w)
  PROVE  SoloInv(w)'
<1> USE DEF Types, TypeOK
<1>1. w \in Workers /\ job[w] \in Jobs
  BY DEF Workers
<1>2. Unfinished(w) /\ UNCHANGED rows /\ job[w].uids = {}
  BY DEF WriteMaildir, DeleteEntry, InsertEntry, SoloInv
<1>3. CASE WriteMaildir(w)
  <2>1. PICK b \in job[w].got, at \in {"path", "delete"}, id \in Nat :
           /\ job' = [job EXCEPT ![w] = [job[w] EXCEPT !.got = @ \ {b}, !.cur = b, !.at = at, !.id = id]]
           /\ at = "delete" => \E r \in RowOf(b.uid, job[w].uv) : r.id = id
           /\ at = "delete" => b.uid \notin Unparsable
           /\ at = "path" => b.uid \in Unparsable \/ RowOf(b.uid, job[w].uv) = {}
    BY <1>1, <1>3, MaildirWritten
  <2>2. /\ job'[w].at = at /\ job'[w].id = id /\ job'[w].got = job[w].got \ {b}
        /\ job'[w].cur = b /\ job'[w].uids = job[w].uids /\ job'[w].uv = job[w].uv
        /\ UNCHANGED fts
    <3> DEFINE j == [job[w] EXCEPT !.got = @ \ {b}, !.cur = b, !.at = at, !.id = id]
    <3>1. /\ j.at = at /\ j.id = id /\ j.got = job[w].got \ {b}
          /\ j.cur = b /\ j.uids = job[w].uids /\ j.uv = job[w].uv
      BY <1>1 DEF Jobs
    <3> HIDE DEF j
    <3>2. job'[w] = j
      BY <1>1, <2>1 DEF j
    <3> QED
      BY <1>3, <3>1, <3>2 DEF WriteMaildir
  <2>3. Unfinished(w)'
    BY <1>2, <2>2 DEF Unfinished
  <2>4. at = "path" /\ b.uid \notin Unparsable => \A r \in rows : r.uid # b.uid
    BY <1>2, <2>1 DEF Unfinished, RowOf
  <2>5. at = "delete" => \E r \in rows : r.uid = b.uid /\ r.id = id
    BY <2>1 DEF RowOf
  <2> QED
    BY <1>2, <2>1, <2>2, <2>3, <2>4, <2>5 DEF SoloInv, IdsOf
<1>4. CASE DeleteEntry(w)
  <2>1. PICK q \in rows : q.uid = job[w].cur.uid /\ q.id = job[w].id
    BY <1>4 DEF DeleteEntry, SoloInv
  <2>2. q.body = NoText
    BY <1>2, <2>1 DEF Unfinished
  <2>3. fts' = {e \in fts : e.id # job[w].id}
    BY <1>4 DEF DeleteEntry
  <2>4. ASSUME NEW r \in rows, r.body # NoText, r.uid \notin Unparsable
        PROVE  [id |-> r.id, text |-> r.body] \in fts'
    <3> DEFINE e == [id |-> r.id, text |-> r.body]
    <3>1. e \in fts /\ e.id = r.id
      BY <2>4 DEF SoloInv
    <3>2. r.id # job[w].id
      BY <2>1, <2>2, <2>4
    <3> HIDE DEF e
    <3>3. e \in fts'
      BY <2>3, <3>1, <3>2
    <3> QED
      BY <3>3 DEF e
  <2>5. IdsOf(fts') \subseteq IdsOf(rows')
    BY <1>2, <2>3 DEF SoloInv, IdsOf
  <2>6. /\ job'[w].at = "insert" /\ job'[w].id = job[w].id /\ job'[w].got = job[w].got
        /\ job'[w].cur = job[w].cur /\ job'[w].uids = job[w].uids /\ job'[w].uv = job[w].uv
    <3> DEFINE j == [job[w] EXCEPT !.at = "insert"]
    <3>1. /\ j.at = "insert" /\ j.id = job[w].id /\ j.got = job[w].got
          /\ j.cur = job[w].cur /\ j.uids = job[w].uids /\ j.uv = job[w].uv
      BY <1>1 DEF Jobs
    <3> HIDE DEF j
    <3>2. job'[w] = j
      BY <1>1, <1>4 DEF DeleteEntry, j
    <3> QED
      BY <3>1, <3>2
  <2>7. Unfinished(w)'
    BY <1>2, <2>6 DEF Unfinished
  <2>8. job[w].cur.uid \notin Unparsable
    BY <1>4 DEF DeleteEntry, SoloInv
  <2> QED
    BY <1>2, <2>1, <2>4, <2>5, <2>6, <2>7, <2>8 DEF SoloInv
<1>5. CASE InsertEntry(w) /\ job[w].id \in IdsOf(fts)
  BY <1>1, <1>5, SoloEnds DEF InsertEntry
<1>6. CASE InsertEntry(w) /\ job[w].id \notin IdsOf(fts)
  <2> DEFINE entry == [id |-> job[w].id, text |-> job[w].cur.text]
  <2>1. PICK q \in rows : q.uid = job[w].cur.uid /\ q.id = job[w].id
    BY <1>6 DEF InsertEntry, SoloInv
  <2>2. fts' = fts \cup {entry}
    BY <1>6 DEF InsertEntry
  <2>3. /\ job'[w].at = "path" /\ job'[w].id = job[w].id /\ job'[w].got = job[w].got
        /\ job'[w].cur = job[w].cur /\ job'[w].uids = job[w].uids /\ job'[w].uv = job[w].uv
    <3> DEFINE j == [job[w] EXCEPT !.at = "path"]
    <3>1. /\ j.at = "path" /\ j.id = job[w].id /\ j.got = job[w].got
          /\ j.cur = job[w].cur /\ j.uids = job[w].uids /\ j.uv = job[w].uv
      BY <1>1 DEF Jobs
    <3> HIDE DEF j
    <3>2. job'[w] = j
      BY <1>1, <1>6 DEF InsertEntry, j
    <3> QED
      BY <3>1, <3>2
  <2>4. \A r \in rows : r.uid = job[w].cur.uid => r.id = job[w].id
    BY <1>2, <2>1 DEF Unfinished
  <2>5. IdsOf(fts') \subseteq IdsOf(rows')
    BY <1>2, <2>1, <2>2 DEF SoloInv, IdsOf
  <2>6. Unfinished(w)'
    BY <1>2, <2>3 DEF Unfinished
  <2>7. \A r \in rows : r.uid = job[w].cur.uid => [id |-> r.id, text |-> job[w].cur.text] \in fts'
    BY <2>2, <2>4
  <2>8. \A r \in rows :
          r.body # NoText /\ r.uid \notin Unparsable => [id |-> r.id, text |-> r.body] \in fts'
    BY <2>2 DEF SoloInv
  <2> QED
    BY <1>2, <2>3, <2>5, <2>6, <2>7, <2>8 DEF SoloInv
<1> QED
  BY <1>3, <1>4, <1>5, <1>6

\* Recording the path of a body that is indexed by now.
LEMMA SoloPath ==
  ASSUME Types, NEW w \in Batchers, SoloInv(w), SetMaildirPath(w)
  PROVE  SoloInv(w)'
<1> USE DEF Types, TypeOK
<1> DEFINE target == RowOf(job[w].cur.uid, job[w].uv)
           text == job[w].cur.text
<1>1. w \in Workers /\ job[w] \in Jobs /\ job[w].at = "path" /\ job[w].cur \in Bodies
  BY DEF Workers, SetMaildirPath, Jobs
<1>2. Unfinished(w) /\ UNCHANGED fts /\ job[w].uids = {}
  BY <1>1 DEF SetMaildirPath, SoloInv
<1>3. text \in Texts /\ target \subseteq rows /\ IsFiniteSet(rows)
  BY <1>1 DEF Bodies, RowOf, FiniteInv
<1>4. rows' = Written(target, text) /\ job' = [job EXCEPT ![w] = NextBody(w)]
  BY DEF SetMaildirPath, Written
<1>5. /\ \A r \in rows' : \E q \in rows :
           /\ r.id = q.id /\ r.uid = q.uid /\ r.uv = q.uv
           /\ q \in target => r.body = text
           /\ q \notin target => r = q
      /\ IdsOf(rows') = IdsOf(rows)
  <2> HIDE DEF target, text
  <2> QED
    BY <1>3, <1>4, WrittenRows
<1>6. \A q \in rows : q \in target <=> q.uid = job[w].cur.uid
  BY <1>2 DEF Unfinished, RowOf
<1> HIDE DEF target
<1>7. ASSUME NEW r \in rows', r.body # NoText, r.uid \notin Unparsable
      PROVE  [id |-> r.id, text |-> r.body] \in fts'
  <2>1. PICK q \in rows :
           /\ r.id = q.id /\ r.uid = q.uid /\ r.uv = q.uv
           /\ q \in target => r.body = text
           /\ q \notin target => r = q
    BY <1>5
  <2>2. CASE q \in target
    BY <1>1, <1>2, <1>6, <1>7, <2>1, <2>2 DEF SoloInv
  <2>3. CASE q \notin target
    BY <1>2, <1>7, <2>1, <2>3 DEF SoloInv
  <2> QED
    BY <2>2, <2>3
<1>8. CASE job[w].got = {}
  <2>1. job'[w] = NoJob
    BY <1>1, <1>4, <1>8 DEF NextBody
  <2> QED
    BY <1>2, <1>5, <1>7, <2>1, JobTypes DEF SoloInv
<1>9. CASE job[w].got # {}
  <2> DEFINE j == [job[w] EXCEPT !.at = "body", !.cur = NoBody, !.id = 0]
  <2>1. /\ j.at = "body" /\ j.cur = NoBody
        /\ j.got = job[w].got /\ j.uids = job[w].uids /\ j.uv = job[w].uv
    BY <1>1 DEF Jobs
  <2>2. job'[w] = j
    BY <1>1, <1>4, <1>9 DEF NextBody
  <2> HIDE DEF j
  <2>3. \A b \in job[w].got : b.uid \in Uids /\ b.uid # job[w].cur.uid
    BY <1>1, <1>2 DEF Unfinished, Jobs, Bodies
  <2>5. \A b, c \in j.got \cup {j.cur} : b.uid = c.uid => b = c
    BY <1>2, <2>1, <2>3, UidsAreNumbers DEF Unfinished, NoBody
  <2>6. NoBody \notin job[w].got
    BY <2>3, UidsAreNumbers DEF NoBody
  <2>7. ASSUME NEW r \in rows', r.uid \in j.uids \cup {b.uid : b \in j.got \cup {j.cur}}
        PROVE  r.body = NoText
    <3>1. PICK q \in rows :
             /\ r.id = q.id /\ r.uid = q.uid /\ r.uv = q.uv
             /\ q \in target => r.body = text
             /\ q \notin target => r = q
      BY <1>5
    <3>2. q.uid \in Uids
      BY DEF Rows
    <3>3. \E b \in job[w].got : q.uid = b.uid
      BY <1>2, <2>1, <2>7, <3>1, <3>2, UidsAreNumbers DEF NoBody
    <3>4. q.body = NoText
      BY <1>2, <3>3 DEF Unfinished
    <3> QED
      BY <1>6, <2>3, <3>1, <3>3, <3>4
  <2>8. \A r \in rows' : r.uv = j.uv
    BY <1>2, <1>5, <2>1 DEF Unfinished
  <2>9. Unfinished(w)'
    BY <2>1, <2>2, <2>5, <2>6, <2>7, <2>8 DEF Unfinished
  <2> QED
    BY <1>2, <1>5, <1>7, <2>1, <2>2, <2>9 DEF SoloInv
<1> QED
  BY <1>8, <1>9

LEMMA AloneKept == Types /\ AloneInv /\ [Next]_vars => AloneInv'
<1> SUFFICES ASSUME Types, AloneInv, [Next]_vars, NEW w \in Workers, Present = {w}
             PROVE  SoloInv(w)'
  BY PresentKept DEF AloneInv
<1>1. SoloInv(w)
  BY DEF AloneInv
<1>2. CASE UNCHANGED <<rows, fts, job>>
  BY <1>1, <1>2 DEF SoloInv, Unfinished, IdsOf
<1>3. CASE ServerStep
  BY <1>2, <1>3 DEF ServerStep, Deliver, Remove, ResetUidvalidity
<1>4. ASSUME NEW v \in Workers, Work(v) \/ Drop(v) \/ Fail(v) PROVE SoloInv(w)'
  <2>1. v = w
    BY <1>4, OnlyPresentAct
  <2>2. CASE w \in Batchers
    <3>1. ~ View(w) /\ ~ Drop(w)
      BY <2>2, WorkersAssumption DEF View, Drop
    <3>2. Fail(w) => SoloInv(w)'
      BY <1>1, SoloEnds DEF Fail
    <3> QED
      BY <1>1, <1>4, <2>1, <2>2, <3>1, <3>2, SoloSnapshot, SoloDownload, SoloIndex, SoloPath DEF Work
  <2>3. CASE w \notin Batchers
    <3>1. rows = {} /\ job[w].at = "idle"
      BY <1>1, <2>3, JobTypes DEF SoloInv
    <3> QED
      BY <1>4, <2>1, <2>3, <3>1 DEF Work, FetchHeaders, ApplySnapshot, ListUnfetched, View,
         FetchBodies, WriteMaildir, DeleteEntry, InsertEntry, SetMaildirPath, Drop, Fail
  <2> QED
    BY <2>2, <2>3
<1> QED
  BY <1>2, <1>3, <1>4 DEF Next, vars

\* A single process, whatever the server does meanwhile and whichever of its steps
\* fail: what counts as fetched is found by search, under its own text, and between
\* two jobs search knows no message that is gone.
THEOREM IndexIsKept == Spec => []IndexFollowsRows
<1>1. Spec => [](Types /\ AloneInv)
  BY TypesInitially, TypesKept, AloneInitially, AloneKept, PTL DEF Spec
<1>2. Types /\ AloneInv => IndexFollowsRows
  <2> SUFFICES ASSUME AloneInv, Alone PROVE IndexFollowsRows
    BY DEF IndexFollowsRows
  <2>1. IsFiniteSet(Present)
    BY FS_Subset, WorkersAssumption DEF Present
  <2>2. PICK w : Present = {w}
    BY <2>1, FS_Singleton DEF Alone
  <2>3. w \in Workers
    BY <2>2 DEF Present
  <2> QED
    BY <2>2, <2>3 DEF AloneInv, SoloInv, IndexFollowsRows
<1> QED
  BY <1>1, <1>2, PTL
=============================================================================
