----------------------------- MODULE OpaqueProofs -----------------------------
(***************************************************************************)
(* Theorems about OpaqueIndex, for any ids, Message-IDs, rows of older     *)
(* releases, page size and bound; and about DeltaLink as it stands in      *)
(* MCRemoteIndex, for any sets of programs, first contents and bound.      *)
(***************************************************************************)
EXTENDS MCRemoteIndex, FiniteFacts, SequenceTheorems

----------------------------------------------------------------------------
(* Sequences *)

LEMMA Members ==
  ASSUME NEW E, NEW s \in Seq(E)
  PROVE  /\ Len(s) \in Nat /\ DOMAIN s = 1..Len(s)
         /\ \A x : x \in ToSet(s) <=> \E i \in 1..Len(s) : s[i] = x
         /\ ToSet(s) \subseteq E
  BY DEF ToSet

LEMMA Concatenation ==
  ASSUME NEW E, NEW s \in Seq(E), NEW t \in Seq(E)
  PROVE  /\ s \o t \in Seq(E) /\ Len(s \o t) = Len(s) + Len(t) /\ Len(s) \in Nat /\ Len(t) \in Nat
         /\ \A i \in 1..Len(s) : (s \o t)[i] = s[i]
         /\ \A i \in 1..Len(t) : (s \o t)[Len(s) + i] = t[i]
         /\ \A i \in 1..Len(s \o t) :
                i \in 1..Len(s) \/ (i - Len(s) \in 1..Len(t) /\ Len(s) + (i - Len(s)) = i)
<1>1. /\ s \o t \in Seq(E) /\ Len(s \o t) = Len(s) + Len(t) /\ Len(s) \in Nat /\ Len(t) \in Nat
      /\ \A i \in 1..Len(s) + Len(t) : (s \o t)[i] = IF i <= Len(s) THEN s[i] ELSE t[i - Len(s)]
  OBVIOUS
<1>2. \A i \in 1..Len(s) : i \in 1..Len(s) + Len(t) /\ i <= Len(s)
  BY <1>1
<1>3. \A i \in 1..Len(t) : /\ Len(s) + i \in 1..Len(s) + Len(t) /\ ~(Len(s) + i <= Len(s))
                           /\ (Len(s) + i) - Len(s) = i
  BY <1>1
<1>4. \A i \in 1..Len(s) + Len(t) :
          i \in 1..Len(s) \/ (i - Len(s) \in 1..Len(t) /\ Len(s) + (i - Len(s)) = i)
  BY <1>1
<1>5. QED
  BY <1>1, <1>2, <1>3, <1>4

\* A page holds what follows the first n.
LEMMA PageFacts ==
  ASSUME NEW E, NEW s \in Seq(E), NEW n \in Nat
  PROVE  /\ PageOf(s, n) \in Seq(E)
         /\ \A i \in 1..Len(PageOf(s, n)) : n + i <= Len(s) /\ PageOf(s, n)[i] = s[n + i]
<1> DEFINE m == Min({n + PageSize, Len(s)})
<1>1. n + PageSize \in Nat /\ Len(s) \in Nat
  BY PageAssumption
<1>2. m \in Int /\ m <= Len(s)
  <2>1. \E x \in {n + PageSize, Len(s)} : \A y \in {n + PageSize, Len(s)} : x <= y
    BY <1>1
  <2>2. m \in {n + PageSize, Len(s)} /\ \A y \in {n + PageSize, Len(s)} : m <= y
    BY <2>1 DEF Min
  <2>3. QED
    BY <1>1, <2>2
<1> HIDE DEF m
<1>3. \A i \in (n + 1)..m : s[i] \in E
  BY <1>1, <1>2
<1>4. /\ SubSeq(s, n + 1, m) \in Seq(E)
      /\ Len(SubSeq(s, n + 1, m)) = IF n + 1 <= m THEN m - (n + 1) + 1 ELSE 0
      /\ \A i \in 1..m - (n + 1) + 1 : SubSeq(s, n + 1, m)[i] = s[(n + 1) + i - 1]
  BY <1>2, <1>3, SubSeqProperties
<1>5. \A i \in 1..Len(SubSeq(s, n + 1, m)) :
          i \in 1..m - (n + 1) + 1 /\ (n + 1) + i - 1 = n + i /\ n + i <= Len(s)
  BY <1>1, <1>2, <1>4
<1>6. QED
  BY <1>4, <1>5 DEF PageOf, m

\* Without is what its recursion says, step by step.
LEMMA WithoutSteps ==
  ASSUME NEW E, NEW s \in Seq(E), NEW S
  PROVE  \E f : /\ f[0] = <<>>
                /\ \A i \in 1..Len(s) : f[i] = IF s[i] \in S THEN f[i - 1] ELSE Append(f[i - 1], s[i])
                /\ f[Len(s)] = Without(s, S)
<1> DEFINE n == Len(s)
           kept(f) == [i \in 0..n |->
               IF i = 0 THEN <<>> ELSE IF s[i] \in S THEN f[i - 1] ELSE Append(f[i - 1], s[i])]
           F == CHOOSE f : f = kept(f)
           step == [i \in 1..n |-> [t \in Seq(E) |-> IF s[i] \in S THEN t ELSE Append(t, s[i])]]
<1>1. n \in Nat /\ <<>> \in Seq(E) /\ \A i \in 1..n : s[i] \in E
  OBVIOUS
<1>2. \A i \in 1..n, t \in Seq(E) : step[i][t] = (IF s[i] \in S THEN t ELSE Append(t, s[i]))
  OBVIOUS
<1> HIDE DEF step, n
<1>3. ASSUME NEW i \in 1..n, NEW t \in Seq(E)
      PROVE  step[i][t] \in Seq(E)
  <2>1. s[i] \in E /\ step[i][t] = IF s[i] \in S THEN t ELSE Append(t, s[i])
    BY <1>1, <1>2
  <2>2. Append(t, s[i]) \in Seq(E)
    BY <2>1
  <2>3. QED
    BY <2>1, <2>2
<1>4. PICK h \in [0..n -> Seq(E)] : h[0] = <<>> /\ \A i \in 1..n : h[i] = step[i][h[i - 1]]
  <2>1. Solvable(n, Seq(E), <<>>, step)
    BY <1>1, Recursion
  <2>2. QED
    BY <1>1, <1>3, <2>1 DEF Solvable
<1>5. h = kept(h)
  <2>1. \A i \in 1..n : i - 1 \in 0..n
    BY <1>1
  <2>2. \A i \in 1..n : step[i][h[i - 1]] =
            IF s[i] \in S THEN h[i - 1] ELSE Append(h[i - 1], s[i])
    BY <1>2, <1>4, <2>1
  <2>3. \A i \in 0..n : i = 0 \/ i \in 1..n
    BY <1>1
  <2>4. \A i \in 0..n : h[i] =
            IF i = 0 THEN <<>> ELSE IF s[i] \in S THEN h[i - 1] ELSE Append(h[i - 1], s[i])
    BY <1>4, <2>2, <2>3
  <2>5. QED
    BY <1>4, <2>4
<1>6. F = kept(F)
  BY <1>5
<1>7. Without(s, S) = F[n]
  BY DEF Without, n
<1> HIDE DEF F
<1>8. \A i \in 0..n : F[i] = kept(F)[i]
  BY <1>6
<1>9. F[0] = <<>> /\ \A i \in 1..n : F[i] = IF s[i] \in S THEN F[i - 1] ELSE Append(F[i - 1], s[i])
  <2>1. 0 \in 0..n /\ \A i \in 1..n : i \in 0..n /\ i # 0
    BY <1>1
  <2>2. QED
    BY <1>8, <2>1
<1>10. QED
  BY <1>7, <1>9 DEF n

LEMMA WithoutFacts ==
  ASSUME NEW E, NEW s \in Seq(E), NEW S
  PROVE  /\ Without(s, S) \in Seq(E)
         /\ ToSet(Without(s, S)) = ToSet(s) \ S
<1> DEFINE n == Len(s)
<1>1. PICK f : /\ f[0] = <<>>
               /\ \A i \in 1..n : f[i] = IF s[i] \in S THEN f[i - 1] ELSE Append(f[i - 1], s[i])
               /\ f[n] = Without(s, S)
  BY WithoutSteps
<1> DEFINE First(i) == {s[j] : j \in 1..i}
           Good == {i \in 0..n : f[i] \in Seq(E) /\ ToSet(f[i]) = First(i) \ S}
<1>2. n \in Nat /\ \A i \in 1..n : s[i] \in E
  OBVIOUS
<1>3. 0 \in Good
  <2>1. First(0) = {} /\ ToSet(<<>>) = {} /\ <<>> \in Seq(E)
    BY DEF ToSet
  <2>2. f[0] \in Seq(E) /\ ToSet(f[0]) = First(0) \ S /\ 0 \in 0..n
    BY <1>1, <1>2, <2>1
  <2> HIDE DEF First
  <2>3. QED
    BY <2>2
<1>4. ASSUME NEW i \in 1..n, i - 1 \in Good
      PROVE  i \in Good
  <2>1. f[i - 1] \in Seq(E) /\ ToSet(f[i - 1]) = First(i - 1) \ S
    BY <1>4
  <2>2. First(i) = First(i - 1) \cup {s[i]}
    <3>1. \A j \in 1..i : j \in 1..(i - 1) \/ j = i
      BY <1>2
    <3>2. \A j \in 1..(i - 1) : j \in 1..i
      BY <1>2
    <3>3. QED
      BY <1>2, <3>1, <3>2
  <2>3. f[i] \in Seq(E) /\ ToSet(f[i]) = First(i) \ S
    <3>1. CASE s[i] \in S
      BY <1>1, <2>1, <2>2, <3>1
    <3>2. CASE s[i] \notin S
      <4>1. f[i] = Append(f[i - 1], s[i])
        BY <1>1, <3>2
      <4>2. ToSet(f[i]) = ToSet(f[i - 1]) \cup {s[i]}
        BY <1>2, <2>1, <4>1 DEF ToSet
      <4>3. QED
        BY <1>2, <2>1, <2>2, <3>2, <4>1, <4>2
    <3>3. QED
      BY <3>1, <3>2
  <2>4. QED
    BY <2>3
<1>5. n \in Good
  <2> HIDE DEF Good
  <2>1. \A i \in 0..n : i \in Good
    BY <1>2, <1>3, <1>4, UpTo
  <2>2. QED
    BY <1>2, <2>1
<1>6. First(n) = ToSet(s)
  BY DEF ToSet
<1>7. QED
  BY <1>1, <1>5, <1>6

\* Leaving nothing out changes nothing.
LEMMA WithoutNothing ==
  ASSUME NEW E, NEW s \in Seq(E)
  PROVE  Without(s, {}) = s
<1> DEFINE n == Len(s)
<1>1. PICK f : /\ f[0] = <<>>
               /\ \A i \in 1..n : f[i] = IF s[i] \in {} THEN f[i - 1] ELSE Append(f[i - 1], s[i])
               /\ f[n] = Without(s, {})
  BY WithoutSteps
<1> DEFINE Good == {i \in 0..n : f[i] \in Seq(E) /\ Len(f[i]) = i /\ \A j \in 1..i : f[i][j] = s[j]}
<1>2. n \in Nat /\ \A i \in 1..n : s[i] \in E
  OBVIOUS
<1>3. 0 \in Good
  <2>1. f[0] \in Seq(E) /\ Len(f[0]) = 0 /\ 0 \in 0..n /\ \A j \in 1..0 : FALSE
    BY <1>1, <1>2
  <2>2. QED
    BY <2>1
<1>4. ASSUME NEW i \in 1..n, i - 1 \in Good
      PROVE  i \in Good
  <2>1. f[i - 1] \in Seq(E) /\ Len(f[i - 1]) = i - 1 /\ \A j \in 1..(i - 1) : f[i - 1][j] = s[j]
    BY <1>4
  <2>2. f[i] = Append(f[i - 1], s[i])
    BY <1>1
  <2>3. f[i] \in Seq(E) /\ Len(f[i]) = i
    BY <1>2, <2>1, <2>2
  <2>4. \A j \in 1..i : f[i][j] = s[j]
    <3>1. \A j \in 1..i : j \in 1..(i - 1) \/ j = i
      BY <1>2
    <3>2. QED
      BY <1>2, <2>1, <2>2, <3>1
  <2>5. QED
    BY <1>2, <2>3, <2>4
<1>5. n \in Good
  <2> HIDE DEF Good
  <2>1. \A i \in 0..n : i \in Good
    BY <1>2, <1>3, <1>4, UpTo
  <2>2. QED
    BY <1>2, <2>1
<1>6. f[n] \in Seq(E) /\ Len(f[n]) = Len(s) /\ \A j \in 1..Len(f[n]) : f[n][j] = s[j]
  BY <1>5
<1>7. f[n] = s
  BY <1>6, SeqEqual
<1>8. QED
  BY <1>1, <1>7

----------------------------------------------------------------------------
(* The transaction that applies a listing *)

Txs == [rows : SUBSET Rows, adopted : SUBSET Ids, clash : BOOLEAN]

LEMMA UidFacts ==
  /\ NextUid \in Uids
  /\ \A id \in Ids : /\ Canon(id) \in Uids /\ Canon(id)[2] = id /\ Canon(id) # NextUid
                     /\ Low(id)[2] = id /\ Low(id) # NextUid
  /\ \A id \in Ids, i \in Nat : Xor(id, i)[2] = id /\ Xor(id, i) # NextUid
  /\ \A x, y \in Ids : Canon(x) = Canon(y) => x = y
<1>1. 0 \in Nat /\ \A id \in Ids : id \in Ids \cup {NoId}
  OBVIOUS
<1>2. QED
  BY <1>1 DEF NextUid, Uids, Canon, Low, Xor

LEMMA RenamedRow ==
  ASSUME NEW r \in Rows, NEW id \in Ids
  PROVE  LET q == [r EXCEPT !.uid = Canon(id), !.pid = id]
             k == [r EXCEPT !.uid = Canon(id)]
         IN  /\ q \in Rows /\ q.uid = Canon(id) /\ q.pid = id /\ q.of = r.of /\ q.body = r.body
             /\ k \in Rows /\ k.uid = Canon(id) /\ k.pid = r.pid /\ k.of = r.of /\ k.body = r.body
  BY UidFacts DEF Rows

LEMMA RichestFacts ==
  ASSUME NEW rs, rs # {}
  PROVE  Richest(rs) \in rs
  BY DEF Richest

LEMMA HeadFacts ==
  ASSUME NEW heads \in Seq(Heads)
  PROVE  /\ Len(heads) \in Nat /\ DOMAIN heads = 1..Len(heads)
         /\ \A i \in 1..Len(heads) : heads[i].id \in Ids /\ heads[i].flags \subseteq Keywords
         /\ \A id : id \in IdsOf(heads) <=> \E i \in 1..Len(heads) : heads[i].id = id
         /\ IdsOf(heads) \subseteq Ids
<1>1. Len(heads) \in Nat /\ DOMAIN heads = 1..Len(heads) /\ \A i \in 1..Len(heads) : heads[i] \in Heads
  OBVIOUS
<1>2. \A h \in Heads : h.id \in Ids /\ h.flags \subseteq Keywords
  BY DEF Heads
<1>3. QED
  BY <1>1, <1>2 DEF IdsOf

\* What Adopt does: nothing, or one row without an id is given the listed one.
LEMMA AdoptFacts ==
  ASSUME NEW t \in Txs, NEW heads \in Seq(Heads), NEW i \in 1..Len(heads)
  PROVE  LET id == heads[i].id
         IN  /\ Adopt(t, heads, i) \in Txs
             /\ Adopt(t, heads, i).clash = t.clash
             /\ \/ Adopt(t, heads, i) = t
                \/ \E r \in Candidates(t.rows, heads, i) :
                      Adopt(t, heads, i).rows =
                         {x \in t.rows \ Candidates(t.rows, heads, i) : x.pid # id}
                         \cup {[r EXCEPT !.uid = Canon(id), !.pid = id]}
<1> DEFINE id == heads[i].id
           fits == Candidates(t.rows, heads, i)
<1>1. id \in Ids
  BY HeadFacts
<1>2. fits \subseteq t.rows /\ t.rows \subseteq Rows
  BY DEF Candidates, Txs
<1> HIDE DEF id, fits
<1>3. CASE \A r \in fits : fits # {r}
  <2>1. Adopt(t, heads, i) = t
    BY <1>3 DEF Adopt, fits
  <2>2. QED
    BY <2>1
<1>4. CASE ~\A r \in fits : fits # {r}
  <2> DEFINE r == CHOOSE r \in fits : TRUE
             new == {x \in t.rows \ fits : x.pid # id} \cup {[r EXCEPT !.uid = Canon(id), !.pid = id]}
             after == [t EXCEPT !.rows = new, !.adopted = @ \cup {id}]
  <2>1. r \in fits
    BY <1>4
  <2>2. Adopt(t, heads, i) = after
    BY <1>4 DEF Adopt, fits, id
  <2>3. new \subseteq Rows
    <3>1. r \in Rows
      BY <1>2, <2>1
    <3>2. [r EXCEPT !.uid = Canon(id), !.pid = id] \in Rows
      BY <1>1, <3>1, RenamedRow
    <3>3. QED
      BY <1>2, <3>2
  <2> HIDE DEF new, r
  <2>4. t.adopted \cup {id} \subseteq Ids
    BY <1>1 DEF Txs
  <2>5. after \in Txs /\ after.clash = t.clash /\ after.rows = new
    BY <2>3, <2>4 DEF Txs
  <2>6. \E q \in fits : after.rows =
            {x \in t.rows \ fits : x.pid # id} \cup {[q EXCEPT !.uid = Canon(id), !.pid = id]}
    BY <2>1, <2>5 DEF new
  <2> HIDE DEF after
  <2>7. QED
    BY <2>2, <2>5, <2>6 DEF id, fits
<1>5. QED
  BY <1>3, <1>4

\* What Collapse does: of the rows with this id one stays, at the canonical uid.
LEMMA CollapseFacts ==
  ASSUME NEW t \in Txs, NEW id \in Ids
  PROVE  LET own   == {r \in t.rows : r.pid = id}
             other == t.rows \ own
         IN  /\ Collapse(t, id) \in Txs
             /\ own = {} => Collapse(t, id) = t
             /\ own # {} =>
                   /\ \E k \in own : Collapse(t, id).rows = other \cup {[k EXCEPT !.uid = Canon(id)]}
                   /\ Collapse(t, id).clash = (t.clash \/ \E r \in other : r.uid = Canon(id))
<1> DEFINE own   == {r \in t.rows : r.pid = id}
           other == t.rows \ own
           keep  == Richest(own)
           new   == other \cup {[keep EXCEPT !.uid = Canon(id)]}
           clash == t.clash \/ \E r \in other : r.uid = Canon(id)
           after == [t EXCEPT !.rows = new, !.clash = clash]
<1>1. own \subseteq t.rows /\ t.rows \subseteq Rows
  BY DEF Txs
<1>2. CASE own = {}
  BY <1>2 DEF Collapse
<1>3. CASE own # {}
  <2>1. keep \in own
    BY <1>3, RichestFacts
  <2>2. Collapse(t, id) = after
    BY <1>3 DEF Collapse
  <2>3. new \subseteq Rows
    <3>1. keep \in Rows
      BY <1>1, <2>1
    <3> HIDE DEF keep
    <3>2. [keep EXCEPT !.uid = Canon(id)] \in Rows
      BY <3>1, RenamedRow
    <3>3. QED
      BY <1>1, <3>2
  <2>4. \E k \in own : new = other \cup {[k EXCEPT !.uid = Canon(id)]}
    BY <2>1
  <2>5. clash \in BOOLEAN
    BY DEF Txs
  <2> HIDE DEF new, clash
  <2>6. after \in Txs /\ after.rows = new /\ after.clash = clash
    BY <2>3, <2>5 DEF Txs
  <2> HIDE DEF after, own, other
  <2>7. /\ Collapse(t, id) \in Txs
        /\ \E k \in own : Collapse(t, id).rows = other \cup {[k EXCEPT !.uid = Canon(id)]}
        /\ Collapse(t, id).clash = clash
    BY <2>2, <2>4, <2>6
  <2>8. QED
    BY <1>3, <2>7 DEF clash, own, other
<1>4. QED
  BY <1>2, <1>3

\* Within a transaction a row may also bear the id of a listed message that alone
\* has the Message-ID of the row's own.
Stands(r, heads) ==
    /\ r.pid \in IdsOf(heads) /\ r.uid = Canon(r.pid)
    /\ MidIsUnique(heads, r.pid) /\ midOf[r.of] = midOf[r.pid]

SoundRow(r, rs, heads) ==
    /\ SameMid(r)
    /\ OfItsOwn(r) \/ Stands(r, heads)
    /\ \E x \in rs : x.of = r.of /\ x.body = r.body

\* The transaction that began with the rows rs, after the first i messages.
SoundTx(t, rs, heads, i) ==
    /\ \A r \in t.rows : SoundRow(r, rs, heads)
    /\ t.clash \/ UniqueUids(t.rows)
    /\ \A j \in 1..i : \A r \in t.rows : r.pid = heads[j].id => r.uid = Canon(heads[j].id)

LEMMA AdoptIsSound ==
  ASSUME NEW t \in Txs, NEW heads \in Seq(Heads), NEW i \in 1..Len(heads), NEW rs,
         SoundTx(t, rs, heads, i - 1)
  PROVE  LET id == heads[i].id
             a  == Adopt(t, heads, i)
         IN  /\ \A r \in a.rows : SoundRow(r, rs, heads)
             /\ a.clash \/ UniqueUids({r \in a.rows : r.pid # id})
             /\ a.clash \/ UniqueUids(a.rows) \/ \E r \in a.rows : r.pid = id
             /\ \A j \in 1..(i - 1) : \A r \in a.rows : r.pid = heads[j].id => r.uid = Canon(heads[j].id)
<1> DEFINE id   == heads[i].id
           a    == Adopt(t, heads, i)
           fits == Candidates(t.rows, heads, i)
<1>1. id \in Ids /\ id \in IdsOf(heads) /\ i - 1 \in Nat
  BY HeadFacts
<1>2. t.rows \subseteq Rows /\ \A r \in t.rows : SoundRow(r, rs, heads)
  BY DEF Txs, SoundTx
<1>3. ASSUME a = t
      PROVE  /\ \A x \in a.rows : SoundRow(x, rs, heads)
             /\ a.clash \/ UniqueUids({x \in a.rows : x.pid # id})
             /\ a.clash \/ UniqueUids(a.rows) \/ \E x \in a.rows : x.pid = id
             /\ \A j \in 1..(i - 1) : \A x \in a.rows : x.pid = heads[j].id => x.uid = Canon(heads[j].id)
  <2> HIDE DEF a
  <2>1. QED
    BY <1>3 DEF SoundTx, UniqueUids
<1>4. ASSUME NEW r \in fits,
             a.rows = {x \in t.rows \ fits : x.pid # id} \cup {[r EXCEPT !.uid = Canon(id), !.pid = id]}
      PROVE  /\ \A x \in a.rows : SoundRow(x, rs, heads)
             /\ a.clash \/ UniqueUids({x \in a.rows : x.pid # id})
             /\ \E x \in a.rows : x.pid = id
             /\ \A j \in 1..(i - 1) : \A x \in a.rows : x.pid = heads[j].id => x.uid = Canon(heads[j].id)
  <2> DEFINE q == [r EXCEPT !.uid = Canon(id), !.pid = id]
  <2>1. /\ r \in t.rows /\ r.pid = NoId
        /\ (MidIsUnique(heads, id) /\ midOf[r.of] = midOf[id]) \/ r.uid \in {Canon(id), Low(id), Xor(id, i - 1)}
    BY DEF Candidates
  <2>2. q.uid = Canon(id) /\ q.pid = id /\ q.of = r.of /\ q.body = r.body
    BY <1>1, <1>2, <2>1, RenamedRow
  <2> HIDE DEF q, fits, a
  <2>3. \A x \in a.rows : x = q \/ (x \in t.rows /\ x.pid # id)
    BY <1>4 DEF q
  <2>4. q \in a.rows
    BY <1>4 DEF q
  <2>5. OfItsOwn(r) /\ SameMid(r) /\ \E x \in rs : x.of = r.of /\ x.body = r.body
    <3>1. r.pid \notin IdsOf(heads)
      BY <2>1, HeadFacts, IdsAssumption
    <3>2. QED
      BY <1>2, <2>1, <3>1 DEF SoundRow, Stands
  <2>6. SameMid(q)
    BY <2>2, <2>5 DEF SameMid
  <2>7. OfItsOwn(q) \/ Stands(q, heads)
    <3>1. CASE MidIsUnique(heads, id) /\ midOf[r.of] = midOf[id]
      BY <1>1, <2>2, <3>1 DEF Stands
    <3>2. CASE r.uid \in {Canon(id), Low(id), Xor(id, i - 1)}
      <4>1. r.uid # NextUid /\ r.uid[2] = id
        BY <1>1, <3>2, UidFacts
      <4>2. r.of = id
        BY <2>5, <4>1 DEF OfItsOwn
      <4>3. QED
        BY <1>1, <2>2, <4>2, UidFacts DEF OfItsOwn
    <3>3. QED
      BY <2>1, <3>1, <3>2
  <2>8. SoundRow(q, rs, heads)
    BY <2>2, <2>5, <2>6, <2>7 DEF SoundRow
  <2>9. \A x \in a.rows : SoundRow(x, rs, heads)
    BY <1>2, <2>3, <2>8
  <2>10. a.clash \/ UniqueUids({x \in a.rows : x.pid # id})
    <3>1. a.clash = t.clash
      BY AdoptFacts DEF a
    <3>2. \A x \in a.rows : x.pid # id => x \in t.rows
      BY <2>2, <2>3
    <3>3. t.clash \/ UniqueUids(t.rows)
      BY DEF SoundTx
    <3>4. QED
      BY <3>1, <3>2, <3>3 DEF UniqueUids
  <2>11. \A j \in 1..(i - 1) : \A x \in a.rows : x.pid = heads[j].id => x.uid = Canon(heads[j].id)
    BY <2>2, <2>3 DEF SoundTx
  <2>12. QED
    BY <2>2, <2>4, <2>9, <2>10, <2>11
<1>5. a = t \/ \E r \in fits : a.rows =
          {x \in t.rows \ fits : x.pid # id} \cup {[r EXCEPT !.uid = Canon(id), !.pid = id]}
  BY AdoptFacts
<1> HIDE DEF a, id, fits
<1>6. /\ \A r \in a.rows : SoundRow(r, rs, heads)
      /\ a.clash \/ UniqueUids({r \in a.rows : r.pid # id})
      /\ a.clash \/ UniqueUids(a.rows) \/ \E r \in a.rows : r.pid = id
      /\ \A j \in 1..(i - 1) : \A r \in a.rows : r.pid = heads[j].id => r.uid = Canon(heads[j].id)
  <2>1. CASE a # t
    <3>1. PICK r \in fits : a.rows =
              {x \in t.rows \ fits : x.pid # id} \cup {[r EXCEPT !.uid = Canon(id), !.pid = id]}
      BY <1>5, <2>1
    <3>2. QED
      BY <1>4, <3>1
  <2>2. QED
    BY <1>3, <2>1
<1>7. QED
  BY <1>6 DEF a, id

LEMMA StepIsSound ==
  ASSUME NEW t \in Txs, NEW heads \in Seq(Heads), NEW i \in 1..Len(heads), NEW rs,
         SoundTx(t, rs, heads, i - 1)
  PROVE  SoundTx(Collapse(Adopt(t, heads, i), heads[i].id), rs, heads, i)
<1> DEFINE id    == heads[i].id
           a     == Adopt(t, heads, i)
           c     == Collapse(a, id)
           own   == {r \in a.rows : r.pid = id}
           other == a.rows \ own
<1>1. id \in Ids /\ a \in Txs /\ a.rows \subseteq Rows
  BY AdoptFacts, HeadFacts DEF Txs
<1>2. /\ \A r \in a.rows : SoundRow(r, rs, heads)
      /\ a.clash \/ UniqueUids({r \in a.rows : r.pid # id})
      /\ a.clash \/ UniqueUids(a.rows) \/ \E r \in a.rows : r.pid = id
      /\ \A j \in 1..(i - 1) : \A r \in a.rows : r.pid = heads[j].id => r.uid = Canon(heads[j].id)
  BY AdoptIsSound
<1>3. /\ own = {} => c = a
      /\ own # {} =>
            /\ \E k \in own : c.rows = other \cup {[k EXCEPT !.uid = Canon(id)]}
            /\ c.clash = (a.clash \/ \E r \in other : r.uid = Canon(id))
  BY <1>1, CollapseFacts
<1>4. \A j \in 1..i : j \in 1..(i - 1) \/ j = i
  OBVIOUS
<1>5. ASSUME own = {}
      PROVE  SoundTx(c, rs, heads, i)
  <2>1. c = a /\ \A r \in a.rows : r.pid # id
    BY <1>3, <1>5
  <2> HIDE DEF a, c, own, other
  <2>2. \A j \in 1..i : \A r \in c.rows : r.pid = heads[j].id => r.uid = Canon(heads[j].id)
    BY <1>2, <1>4, <2>1 DEF id
  <2>3. QED
    BY <1>2, <2>1, <2>2 DEF SoundTx
<1>6. ASSUME NEW k \in own,
             c.rows = other \cup {[k EXCEPT !.uid = Canon(id)]},
             c.clash = (a.clash \/ \E r \in other : r.uid = Canon(id))
      PROVE  SoundTx(c, rs, heads, i)
  <2> DEFINE q == [k EXCEPT !.uid = Canon(id)]
  <2>1. k \in a.rows /\ k.pid = id
    OBVIOUS
  <2>2. q.uid = Canon(id) /\ q.pid = id /\ q.of = k.of /\ q.body = k.body
    BY <1>1, <2>1, RenamedRow
  <2>3. \A x \in other : x \in a.rows /\ x.pid # id
    OBVIOUS
  <2>4. c.rows = other \cup {q}
    BY <1>6
  <2> HIDE DEF q, own, other, a, c
  <2>5. SoundRow(q, rs, heads)
    <3>1. SoundRow(k, rs, heads)
      BY <1>2, <2>1
    <3>2. SameMid(q)
      BY <2>2, <3>1 DEF SoundRow, SameMid
    <3>3. OfItsOwn(k) => OfItsOwn(q)
      BY <1>1, <2>1, <2>2, UidFacts, IdsAssumption DEF OfItsOwn
    <3>4. Stands(k, heads) => Stands(q, heads)
      BY <2>1, <2>2 DEF Stands
    <3>5. QED
      BY <2>2, <3>1, <3>2, <3>3, <3>4 DEF SoundRow
  <2>6. \A x \in c.rows : SoundRow(x, rs, heads)
    BY <1>2, <2>3, <2>4, <2>5
  <2>7. c.clash \/ UniqueUids(c.rows)
    <3>1. SUFFICES ASSUME ~c.clash PROVE UniqueUids(c.rows)
      OBVIOUS
    <3>2. ~a.clash /\ \A r \in other : r.uid # Canon(id)
      BY <1>6, <3>1
    <3>3. UniqueUids({r \in a.rows : r.pid # id})
      BY <1>2, <3>2
    <3>4. \A r, x \in other : r.uid = x.uid => r = x
      BY <2>3, <3>3 DEF UniqueUids
    <3>5. QED
      BY <2>2, <2>4, <3>2, <3>4 DEF UniqueUids
  <2>8. \A j \in 1..i : \A r \in c.rows : r.pid = heads[j].id => r.uid = Canon(heads[j].id)
    BY <1>2, <1>4, <2>2, <2>3, <2>4 DEF id
  <2>9. QED
    BY <2>6, <2>7, <2>8 DEF SoundTx
<1> HIDE DEF a, c, own, other, id
<1>7. SoundTx(c, rs, heads, i)
  <2>1. CASE own # {}
    <3>1. PICK k \in own : c.rows = other \cup {[k EXCEPT !.uid = Canon(id)]}
      BY <1>3, <2>1
    <3>2. c.clash = (a.clash \/ \E r \in other : r.uid = Canon(id))
      BY <1>3, <2>1
    <3>3. QED
      BY <1>6, <3>1, <3>2
  <2>2. QED
    BY <1>5, <2>1
<1>8. QED
  BY <1>7 DEF c, a, id

\* The whole transaction.
LEMMA ReconciledFacts ==
  ASSUME NEW rs \in SUBSET Rows, NEW heads \in Seq(Heads),
         UniqueUids(rs), \A r \in rs : OfItsOwn(r) /\ SameMid(r)
  PROVE  /\ Reconciled(rs, heads) \in Txs
         /\ SoundTx(Reconciled(rs, heads), rs, heads, Len(heads))
<1> DEFINE n == Len(heads)
           none == [rows |-> rs, adopted |-> {}, clash |-> FALSE]
           next(t, i) == Collapse(Adopt(t, heads, i), heads[i].id)
           tx(f) == [i \in 0..n |-> IF i = 0 THEN none ELSE next(f[i - 1], i)]
           F == CHOOSE f : f = tx(f)
           step == [i \in 1..n |-> [t \in Txs |-> next(t, i)]]
<1>1. n \in Nat /\ none \in Txs
  BY DEF Txs
<1>2. ASSUME NEW i \in 1..n, NEW t \in Txs
      PROVE  next(t, i) \in Txs
  BY AdoptFacts, CollapseFacts, HeadFacts
<1>3. Reconciled(rs, heads) = F[n]
  BY DEF Reconciled
<1>4. SoundTx(none, rs, heads, 0)
  BY DEF SoundTx, SoundRow
<1>5. ASSUME NEW i \in 1..n, NEW t \in Txs, SoundTx(t, rs, heads, i - 1)
      PROVE  SoundTx(next(t, i), rs, heads, i)
  BY <1>5, StepIsSound
<1> HIDE DEF none, next, n
<1>6. \A i \in 1..n, t \in Txs : step[i][t] = next(t, i)
  OBVIOUS
<1> HIDE DEF step
<1>7. PICK h \in [0..n -> Txs] : h[0] = none /\ \A i \in 1..n : h[i] = step[i][h[i - 1]]
  <2>1. Solvable(n, Txs, none, step)
    BY <1>1, Recursion
  <2>2. \A i \in 1..n, t \in Txs : step[i][t] \in Txs
    BY <1>2, <1>6
  <2>3. QED
    BY <1>1, <2>1, <2>2 DEF Solvable
<1>8. h = tx(h)
  <2>1. \A i \in 1..n : i - 1 \in 0..n
    BY <1>1
  <2>2. \A i \in 1..n : step[i][h[i - 1]] = next(h[i - 1], i)
    BY <1>6, <1>7, <2>1
  <2>3. \A i \in 0..n : i = 0 \/ i \in 1..n
    BY <1>1
  <2>4. \A i \in 0..n : h[i] = IF i = 0 THEN none ELSE next(h[i - 1], i)
    BY <1>7, <2>2, <2>3
  <2>5. QED
    BY <1>7, <2>4
<1>9. F = tx(F)
  BY <1>8
<1> HIDE DEF F
<1>10. F[0] = none /\ \A i \in 1..n : F[i] = next(F[i - 1], i)
  <2>1. \A i \in 0..n : F[i] = tx(F)[i]
    BY <1>9
  <2>2. 0 \in 0..n /\ \A i \in 1..n : i \in 0..n /\ i # 0
    BY <1>1
  <2>3. QED
    BY <2>1, <2>2
<1> DEFINE Good == {i \in 0..n : F[i] \in Txs /\ SoundTx(F[i], rs, heads, i)}
<1>11. 0 \in Good
  BY <1>1, <1>4, <1>10
<1>12. ASSUME NEW i \in 1..n, i - 1 \in Good
       PROVE  i \in Good
  <2>1. F[i - 1] \in Txs /\ SoundTx(F[i - 1], rs, heads, i - 1)
    BY <1>12
  <2>2. F[i] = next(F[i - 1], i)
    BY <1>10
  <2>3. next(F[i - 1], i) \in Txs
    BY <1>2, <2>1
  <2>4. SoundTx(next(F[i - 1], i), rs, heads, i)
    BY <1>5, <2>1
  <2>5. i \in 0..n
    BY <1>1
  <2>6. QED
    BY <2>2, <2>3, <2>4, <2>5
<1>13. n \in Good
  <2> HIDE DEF Good
  <2>1. \A i \in 0..n : i \in Good
    BY <1>1, <1>11, <1>12, UpTo
  <2>2. QED
    BY <1>1, <2>1
<1>14. QED
  BY <1>3, <1>13 DEF n

\* The row that upserting the i-th listed message leaves.
NewRow(rs, heads, i) ==
    LET id  == heads[i].id
        old == {r \in rs : r.uid = Canon(id)}
    IN  Row(Canon(id), id, id,
            IF old = {} THEN NoId ELSE (CHOOSE r \in old : TRUE).body, heads[i].flags)

LEMMA NewRowFacts ==
  ASSUME NEW rs \in SUBSET Rows, NEW heads \in Seq(Heads), NEW i \in 1..Len(heads)
  PROVE  LET q  == NewRow(rs, heads, i)
             id == heads[i].id
         IN  /\ q \in Rows /\ q.uid = Canon(id) /\ q.pid = id /\ q.of = id /\ q.flags = heads[i].flags
             /\ q.body = NoId \/ \E r \in rs : r.uid = Canon(id) /\ r.body = q.body
<1> DEFINE id   == heads[i].id
           old  == {r \in rs : r.uid = Canon(id)}
           body == IF old = {} THEN NoId ELSE (CHOOSE r \in old : TRUE).body
           q    == NewRow(rs, heads, i)
<1>1. id \in Ids /\ Canon(id) \in Uids /\ heads[i].flags \subseteq Keywords
  BY HeadFacts, UidFacts
<1>2. body = NoId \/ \E r \in rs : r.uid = Canon(id) /\ r.body = body
  <2>1. CASE old = {}
    BY <2>1
  <2>2. CASE old # {}
    <3>1. (CHOOSE r \in old : TRUE) \in old
      BY <2>2
    <3>2. QED
      BY <2>2, <3>1
  <2>3. QED
    BY <2>1, <2>2
<1>3. body \in Ids \cup {NoId}
  BY <1>2 DEF Rows
<1>4. q = [uid |-> Canon(id), pid |-> id, of |-> id, body |-> body, flags |-> heads[i].flags]
  BY DEF NewRow, Row
<1> HIDE DEF q, body
<1>5. /\ q.uid = Canon(id) /\ q.pid = id /\ q.of = id /\ q.body = body
      /\ q.flags = heads[i].flags
  BY <1>4
<1>6. q \in Rows
  BY <1>1, <1>3, <1>4 DEF Rows
<1> HIDE DEF id
<1>7. QED
  BY <1>2, <1>5, <1>6 DEF q, id

\* Two listed heads of one message say the same of it.
Consistent(heads) == \A i, j \in 1..Len(heads) : heads[i].id = heads[j].id => heads[i].flags = heads[j].flags

LEMMA UpsertedFacts ==
  ASSUME NEW rs \in SUBSET Rows, NEW heads \in Seq(Heads)
  PROVE  LET u == Upserted(rs, heads)
         IN  /\ u \subseteq Rows
             /\ \A q \in u : \/ q \in rs /\ \A id \in IdsOf(heads) : q.uid # Canon(id)
                             \/ \E i \in 1..Len(heads) : q = NewRow(rs, heads, i)
             /\ \A r \in rs : (\A id \in IdsOf(heads) : r.uid # Canon(id)) => r \in u
             /\ \A i \in 1..Len(heads) : NewRow(rs, heads, i) \in u
<1>1. DOMAIN heads = 1..Len(heads)
  BY HeadFacts
<1>2. Upserted(rs, heads) =
          {r \in rs : \A id \in IdsOf(heads) : r.uid # Canon(id)} \cup
          {NewRow(rs, heads, i) : i \in DOMAIN heads}
  BY DEF Upserted, NewRow
<1>3. \A i \in 1..Len(heads) : NewRow(rs, heads, i) \in Rows
  BY NewRowFacts
<1>4. QED
  BY <1>1, <1>2, <1>3

LEMMA UpsertedIsSound ==
  ASSUME NEW rs \in SUBSET Rows, NEW heads \in Seq(Heads), Consistent(heads), UniqueUids(rs),
         \A r \in rs : SameMid(r) /\ (OfItsOwn(r) \/ Stands(r, heads))
  PROVE  /\ UniqueUids(Upserted(rs, heads))
         /\ \A q \in Upserted(rs, heads) : OfItsOwn(q) /\ SameMid(q)
<1> DEFINE u == Upserted(rs, heads)
           new(i) == NewRow(rs, heads, i)
<1>1. \A q \in u : \/ q \in rs /\ \A id \in IdsOf(heads) : q.uid # Canon(id)
                   \/ \E i \in 1..Len(heads) : q = new(i)
  BY UpsertedFacts
<1>2. \A i \in 1..Len(heads) :
          /\ new(i).uid = Canon(heads[i].id) /\ new(i).pid = heads[i].id /\ new(i).of = heads[i].id
          /\ new(i).body = NoId \/ \E r \in rs : r.uid = Canon(heads[i].id) /\ r.body = new(i).body
  BY NewRowFacts
<1>3. \A i \in 1..Len(heads) : heads[i].id \in Ids /\ heads[i].id \in IdsOf(heads)
  BY HeadFacts
<1>4. ASSUME NEW i \in 1..Len(heads), NEW j \in 1..Len(heads), heads[i].id = heads[j].id
      PROVE  new(i) = new(j)
  BY <1>4 DEF Consistent, NewRow
<1> HIDE DEF u, new
<1>5. UniqueUids(u)
  <2>1. ASSUME NEW q \in u, NEW x \in u, q.uid = x.uid
        PROVE  q = x
    <3>1. CASE q \in rs /\ \A id \in IdsOf(heads) : q.uid # Canon(id)
      <4>1. x \in rs
        BY <1>1, <1>2, <1>3, <2>1, <3>1
      <4>2. QED
        BY <2>1, <3>1, <4>1 DEF UniqueUids
    <3>2. CASE \E i \in 1..Len(heads) : q = new(i)
      <4>1. PICK i \in 1..Len(heads) : q = new(i)
        BY <3>2
      <4>2. x.uid = Canon(heads[i].id)
        BY <1>2, <2>1, <4>1
      <4>3. PICK j \in 1..Len(heads) : x = new(j)
        BY <1>1, <1>3, <4>2
      <4>4. heads[i].id = heads[j].id
        BY <1>2, <1>3, <4>2, <4>3, UidFacts
      <4>5. QED
        BY <1>4, <4>1, <4>3, <4>4
    <3>3. QED
      BY <1>1, <3>1, <3>2
  <2>2. QED
    BY <2>1 DEF UniqueUids
<1>6. ASSUME NEW q \in u
      PROVE  OfItsOwn(q) /\ SameMid(q)
  <2>1. CASE q \in rs /\ \A id \in IdsOf(heads) : q.uid # Canon(id)
    <3>1. ~Stands(q, heads)
      BY <2>1 DEF Stands
    <3>2. QED
      BY <2>1, <3>1
  <2>2. ASSUME NEW i \in 1..Len(heads), q = new(i)
        PROVE  OfItsOwn(q) /\ SameMid(q)
    <3> DEFINE id == heads[i].id
    <3>1. q.uid = Canon(id) /\ q.pid = id /\ q.of = id /\ id \in Ids
      BY <1>2, <1>3, <2>2
    <3>2. OfItsOwn(q)
      BY <3>1, UidFacts DEF OfItsOwn
    <3>3. CASE q.body = NoId
      BY <3>2, <3>3 DEF SameMid
    <3>4. ASSUME NEW r \in rs, r.uid = Canon(id), r.body = q.body, q.body # NoId
          PROVE  midOf[q.body] = midOf[q.of]
      <4>1. midOf[r.body] = midOf[r.of]
        BY <3>4 DEF SameMid
      <4>2. OfItsOwn(r) => r.of = id
        BY <3>1, <3>4, UidFacts DEF OfItsOwn
      <4>3. Stands(r, heads) => midOf[r.of] = midOf[id]
        <5>1. SUFFICES ASSUME Stands(r, heads) PROVE midOf[r.of] = midOf[id]
          OBVIOUS
        <5>2. r.pid \in Ids /\ r.uid = Canon(r.pid) /\ midOf[r.of] = midOf[r.pid]
          BY <5>1, HeadFacts DEF Stands
        <5>3. r.pid = id
          BY <3>1, <3>4, <5>2, UidFacts
        <5>4. QED
          BY <5>2, <5>3
      <4>4. QED
        BY <3>1, <3>4, <4>1, <4>2, <4>3
    <3>5. CASE q.body # NoId
      <4>1. PICK r \in rs : r.uid = Canon(id) /\ r.body = q.body
        BY <1>2, <2>2, <3>5
      <4>2. midOf[q.body] = midOf[q.of]
        BY <3>4, <3>5, <4>1
      <4>3. QED
        BY <3>2, <4>2 DEF SameMid
    <3>6. QED
      BY <3>3, <3>5
  <2>3. QED
    BY <1>1, <2>1, <2>2
<1>7. QED
  BY <1>5, <1>6 DEF u

\* What a listing leaves once it is applied.
LEMMA PublishedFacts ==
  ASSUME NEW rs \in SUBSET Rows, NEW heads \in Seq(Heads), Consistent(heads),
         UniqueUids(rs), \A r \in rs : OfItsOwn(r) /\ SameMid(r), ~Reconciled(rs, heads).clash
  PROVE  LET after == Pruned(Upserted(Reconciled(rs, heads).rows, heads), Named(rs), heads)
         IN  /\ after \subseteq Rows /\ UniqueUids(after)
             /\ \A r \in after : OfItsOwn(r) /\ SameMid(r)
             /\ \A id \in IdsOf(heads) : {r.uid : r \in {x \in after : x.pid = id}} = {Canon(id)}
             /\ \A r \in after : r.body \in IdsOf(heads) =>
                   r.body = r.of \/ \E x \in rs : x.of = r.of /\ x.body = r.body
             /\ IdsOf(heads) \subseteq Named(after)
<1> DEFINE t == Reconciled(rs, heads)
           u == Upserted(t.rows, heads)
           after == Pruned(u, Named(rs), heads)
           new(i) == NewRow(t.rows, heads, i)
<1>1. t \in Txs /\ SoundTx(t, rs, heads, Len(heads)) /\ ~t.clash
  BY ReconciledFacts
<1> HIDE DEF t
<1>2. t.rows \in SUBSET Rows /\ UniqueUids(t.rows) /\ \A r \in t.rows : SoundRow(r, rs, heads)
  BY <1>1 DEF Txs, SoundTx
<1>3. UniqueUids(u) /\ \A q \in u : OfItsOwn(q) /\ SameMid(q)
  BY <1>2, UpsertedIsSound DEF SoundRow
<1>4. /\ u \subseteq Rows
      /\ \A q \in u : \/ q \in t.rows /\ \A id \in IdsOf(heads) : q.uid # Canon(id)
                      \/ \E i \in 1..Len(heads) : q = new(i)
      /\ \A i \in 1..Len(heads) : new(i) \in u
  BY <1>2, UpsertedFacts
<1>5. \A i \in 1..Len(heads) :
          /\ new(i).uid = Canon(heads[i].id) /\ new(i).pid = heads[i].id /\ new(i).of = heads[i].id
          /\ new(i).body = NoId \/ \E r \in t.rows : r.uid = Canon(heads[i].id) /\ r.body = new(i).body
  BY <1>2, NewRowFacts
<1>6. \A q \in after : q \in u
  BY DEF Pruned
<1>7. \A q \in u : q.pid \in IdsOf(heads) => q \in after
  BY DEF Pruned
<1> HIDE DEF u, new, after
<1>8. ASSUME NEW id \in IdsOf(heads)
      PROVE  /\ \E q \in after : q.pid = id /\ q.uid = Canon(id)
             /\ \A q \in after : q.pid = id => q.uid = Canon(id)
  <2>1. PICK i \in 1..Len(heads) : heads[i].id = id
    BY HeadFacts
  <2>2. new(i) \in after /\ new(i).pid = id /\ new(i).uid = Canon(id)
    BY <1>4, <1>5, <1>7, <2>1
  <2>3. \A q \in t.rows : q.pid = id => q.uid = Canon(id)
    BY <1>1, <2>1 DEF SoundTx
  <2>4. \A q \in after : q.pid = id => q.uid = Canon(id)
    BY <1>4, <1>5, <1>6, <2>3
  <2>5. QED
    BY <2>2, <2>4
<1>9. \A id \in IdsOf(heads) : {r.uid : r \in {x \in after : x.pid = id}} = {Canon(id)}
  BY <1>8
<1>10. IdsOf(heads) \subseteq Named(after)
  <2>1. \A id \in IdsOf(heads) : id # NoId
    BY HeadFacts, IdsAssumption
  <2>2. QED
    BY <1>8, <2>1 DEF Named
<1>11. ASSUME NEW q \in after, q.body \in IdsOf(heads)
       PROVE  q.body = q.of \/ \E x \in rs : x.of = q.of /\ x.body = q.body
  <2>1. CASE q \in t.rows
    BY <1>2, <2>1 DEF SoundRow
  <2>2. ASSUME NEW i \in 1..Len(heads), q = new(i)
        PROVE  q.body = q.of \/ \E x \in rs : x.of = q.of /\ x.body = q.body
    <3> DEFINE id == heads[i].id
    <3>1. id \in Ids /\ q.of = id /\ q.body # NoId
      BY <1>5, <1>11, <2>2, HeadFacts, IdsAssumption
    <3>2. PICK r \in t.rows : r.uid = Canon(id) /\ r.body = q.body
      BY <1>5, <2>2, <3>1
    <3>3. SoundRow(r, rs, heads)
      BY <1>2
    <3>4. CASE OfItsOwn(r)
      <4>1. r.of = id
        BY <3>1, <3>2, <3>4, UidFacts DEF OfItsOwn
      <4>2. QED
        BY <3>1, <3>2, <3>3, <4>1 DEF SoundRow
    <3>5. CASE Stands(r, heads)
      <4>1. r.pid \in Ids /\ r.uid = Canon(r.pid)
        BY <3>5, HeadFacts DEF Stands
      <4>2. r.pid = id
        BY <3>1, <3>2, <4>1, UidFacts
      <4>3. MidIsUnique(heads, id) /\ midOf[r.of] = midOf[id]
        BY <3>5, <4>2 DEF Stands
      <4>4. midOf[q.body] = midOf[r.of]
        BY <3>1, <3>2, <3>3 DEF SoundRow, SameMid
      <4>5. q.body = id
        BY <1>11, <4>3, <4>4 DEF MidIsUnique
      <4>6. QED
        BY <3>1, <4>5
    <3>6. QED
      BY <3>3, <3>4, <3>5 DEF SoundRow
  <2>3. QED
    BY <1>4, <1>6, <2>1, <2>2
<1>12. after \subseteq Rows /\ UniqueUids(after) /\ \A r \in after : OfItsOwn(r) /\ SameMid(r)
  BY <1>3, <1>4, <1>6 DEF UniqueUids
<1>13. QED
  BY <1>9, <1>10, <1>11, <1>12 DEF after, u, t

----------------------------------------------------------------------------
(* Types, and why the rows are sound *)

LEMMA JobFacts ==
  ASSUME NEW p \in Jobs
  PROVE  /\ p.at \in {"idle", "page", "get", "apply", "bodies"} /\ p.state \in Nat
         /\ p.ids \in Seq(Ids) /\ Len(p.ids) \in Nat /\ p.heads \in Seq(Heads) /\ Len(p.heads) \in Nat
  BY DEF Jobs

LEMMA IdleFacts == Idle \in Jobs /\ \A at \in {"idle", "page", "bodies"} : [Idle EXCEPT !.at = at] \in Jobs
<1>1. <<>> \in Seq(Ids) /\ <<>> \in Seq(Heads) /\ 0 \in Nat
  OBVIOUS
<1>2. QED
  BY <1>1 DEF Idle, Jobs

LEMMA HeadsOfFacts ==
  ASSUME TypeOK, NEW ids \in Seq(Ids)
  PROVE  /\ HeadsOf(ids) \in Seq(Heads) /\ Len(HeadsOf(ids)) = Len(ids)
         /\ \A i \in 1..Len(ids) : HeadsOf(ids)[i].id = ids[i]
         /\ \A i, j \in 1..Len(ids) : ids[i] = ids[j] => HeadsOf(ids)[i].flags = HeadsOf(ids)[j].flags
<1>1. \A id \in Ids : ReadBack(id) \subseteq Keywords
  BY DEF TypeOK, ReadBack
<1>2. DOMAIN ids = 1..Len(ids) /\ Len(ids) \in Nat /\ \A i \in 1..Len(ids) : ids[i] \in Ids
  OBVIOUS
<1>3. \A i \in 1..Len(ids) : [id |-> ids[i], flags |-> ReadBack(ids[i])] \in Heads
  BY <1>1, <1>2 DEF Heads
<1>4. HeadsOf(ids) = [i \in 1..Len(ids) |-> [id |-> ids[i], flags |-> ReadBack(ids[i])]]
  BY <1>2 DEF HeadsOf
<1> HIDE DEF HeadsOf
<1>5. HeadsOf(ids) \in Seq(Heads) /\ Len(HeadsOf(ids)) = Len(ids)
  BY <1>2, <1>3, <1>4
<1>6. \A i \in 1..Len(ids) : /\ HeadsOf(ids)[i].id = ids[i]
                             /\ HeadsOf(ids)[i].flags = ReadBack(ids[i])
  BY <1>4
<1>7. \A i, j \in 1..Len(ids) : ids[i] = ids[j] => HeadsOf(ids)[i].flags = HeadsOf(ids)[j].flags
  <2> SUFFICES ASSUME NEW i \in 1..Len(ids), NEW j \in 1..Len(ids), ids[i] = ids[j]
               PROVE  HeadsOf(ids)[i].flags = HeadsOf(ids)[j].flags
    OBVIOUS
  <2>1. ReadBack(ids[i]) = ReadBack(ids[j])
    OBVIOUS
  <2>2. QED
    BY <1>6, <2>1
<1>8. QED
  BY <1>5, <1>6, <1>7

LEMMA LeavesFacts ==
  ASSUME TypeOK, NEW S \in SUBSET Ids, mailbox' = Without(mailbox, S),
         steady' = [s \in Syncers |-> steady[s] \ S]
  PROVE  mailbox' \in Seq(Ids) /\ Listed' = Listed \ S /\ steady' \in [Syncers -> SUBSET Listed']
<1>1. mailbox \in Seq(Ids) /\ steady \in [Syncers -> SUBSET Listed]
  BY DEF TypeOK
<1>2. mailbox' \in Seq(Ids) /\ Listed' = Listed \ S
  BY <1>1, WithoutFacts DEF Listed
<1>3. QED
  BY <1>1, <1>2

LEMMA ArrivesFacts ==
  ASSUME TypeOK, NEW id \in Ids, mailbox' = <<id>> \o mailbox
  PROVE  /\ mailbox' \in Seq(Ids) /\ Listed' = Listed \cup {id}
         /\ Len(mailbox') = Len(mailbox) + 1
<1>1. mailbox \in Seq(Ids) /\ <<id>> \in Seq(Ids) /\ Len(<<id>>) = 1
  BY DEF TypeOK
<1>2. /\ mailbox' \in Seq(Ids) /\ Len(mailbox') = Len(mailbox) + 1
      /\ \A i \in 1..Len(mailbox') : mailbox'[i] = IF i = 1 THEN id ELSE mailbox[i - 1]
  BY <1>1
<1>3. Len(mailbox) \in Nat /\ 1 \in 1..Len(mailbox')
  BY <1>1, <1>2
<1>4. \A i \in 1..Len(mailbox') : mailbox'[i] = id \/ \E j \in 1..Len(mailbox) : mailbox'[i] = mailbox[j]
  <2>1. \A i \in 1..Len(mailbox') : i = 1 \/ i - 1 \in 1..Len(mailbox)
    BY <1>2, <1>3
  <2>2. QED
    BY <1>2, <2>1
<1>5. mailbox'[1] = id
  BY <1>2, <1>3
<1>6. \A j \in 1..Len(mailbox) : j + 1 \in 1..Len(mailbox') /\ mailbox'[j + 1] = mailbox[j]
  BY <1>2, <1>3
<1>7. \A x : x \in Listed <=> \E j \in 1..Len(mailbox) : mailbox[j] = x
  BY <1>1, Members DEF Listed
<1>8. \A x : x \in Listed' <=> \E i \in 1..Len(mailbox') : mailbox'[i] = x
  BY <1>2, Members DEF Listed
<1>9. \A x : x \in Listed' <=> x = id \/ x \in Listed
  BY <1>3, <1>4, <1>5, <1>6, <1>7, <1>8
<1>10. QED
  BY <1>2, <1>9

LEMMA ResolveFacts ==
  ASSUME TypeOK, NEW uid
  PROVE  /\ FetchBody(uid) \subseteq Ids
         /\ RowInv /\ (\E r \in rows : r.uid = uid) =>
                \A r \in rows, id \in FetchBody(uid) : r.uid = uid => r.of = id
<1>1. Listed \subseteq Ids /\ rows \subseteq Rows
  BY Members DEF TypeOK, Listed
<1>2. \A r \in rows : r.pid \in Ids \cup {NoId}
  BY <1>1 DEF Rows
<1>3. ProviderIdFor(uid) \subseteq Ids /\ \A id \in ProviderIdFor(uid) : \E r \in rows : r.uid = uid /\ r.pid = id /\ id # NoId
  BY <1>2 DEF ProviderIdFor
<1>4. \A id \in FetchBody(uid) : id \in ProviderIdFor(uid) \/ (id \in Ids /\ Canon(id) = uid)
  BY <1>1 DEF FetchBody, Answering, Resolve, ResolveJmapId, ResolveGraphId
<1>5. ASSUME RowInv, NEW r \in rows, r.uid = uid, NEW id \in FetchBody(uid)
      PROVE  r.of = id
  <2>1. CASE id \in ProviderIdFor(uid)
    <3>1. PICK x \in rows : x.uid = uid /\ x.pid = id /\ id # NoId
      BY <1>3, <2>1
    <3>2. x = r
      BY <1>5, <3>1 DEF RowInv, UniqueUids
    <3>3. QED
      BY <1>5, <3>1, <3>2 DEF RowInv, OfItsOwn
  <2>2. CASE id \in Ids /\ Canon(id) = uid
    BY <1>5, <2>2, UidFacts DEF RowInv, OfItsOwn
  <2>3. QED
    BY <1>4, <2>1, <2>2
<1>6. QED
  BY <1>3, <1>4, <1>5

LEMMA NewestFacts ==
  ASSUME TypeOK
  PROVE  Newest \in Seq(Heads) /\ Consistent(Newest) /\ IdsOf(Newest) \subseteq Listed
<1> DEFINE page == PageFrom(0)
<1>1. mailbox \in Seq(Ids) /\ 0 \in Nat
  BY DEF TypeOK
<1>2. page \in Seq(Ids) /\ \A i \in 1..Len(page) : 0 + i <= Len(mailbox) /\ page[i] = mailbox[0 + i]
  BY <1>1, PageFacts DEF PageFrom
<1>3. Newest = [i \in DOMAIN page |-> [id |-> page[i], flags |-> {}]]
  BY DEF Newest
<1> HIDE DEF page
<1>4. DOMAIN page = 1..Len(page) /\ Len(page) \in Nat /\ \A i \in 1..Len(page) : page[i] \in Ids
  BY <1>2
<1>5. \A i \in 1..Len(page) : [id |-> page[i], flags |-> {}] \in Heads
  BY <1>4 DEF Heads
<1>6. Newest \in Seq(Heads) /\ Len(Newest) = Len(page)
  BY <1>3, <1>4, <1>5
<1>7. \A i \in 1..Len(page) : Newest[i].flags = {} /\ Newest[i].id = page[i]
  BY <1>3, <1>4
<1>8. \A i \in 1..Len(page) : page[i] \in Listed
  <2>1. \A i \in 1..Len(page) : i \in 1..Len(mailbox) /\ page[i] = mailbox[i]
    BY <1>1, <1>2, <1>4
  <2>2. QED
    BY <1>1, <2>1, Members DEF Listed
<1>9. Consistent(Newest)
  BY <1>6, <1>7 DEF Consistent
<1>10. \A id \in IdsOf(Newest) : \E i \in 1..Len(page) : id = page[i]
  BY <1>6, <1>7, HeadFacts
<1>11. QED
  BY <1>6, <1>8, <1>9, <1>10

\* The variables of one syncer's job, and the rest.
LEMMA JobTypes ==
  ASSUME TypeOK, NEW s \in Syncers, NEW p \in Jobs, proc' = [proc EXCEPT ![s] = p]
  PROVE  proc' \in [Syncers -> Jobs]
  BY DEF TypeOK

LEMMA QueryTypes ==
  ASSUME TypeOK, NEW s \in Syncers, QueryPage(s) \/ GetHeaders(s) \/ ListPage(s) \/ Failed(s) \/ After(s)
  PROVE  proc' \in [Syncers -> Jobs]
<1> DEFINE p == proc[s]
<1>1. p \in Jobs /\ mailbox \in Seq(Ids) /\ changes \in Nat
  BY DEF TypeOK
<1>2. /\ p.ids \in Seq(Ids) /\ Len(p.ids) \in Nat /\ p.heads \in Seq(Heads) /\ Len(p.heads) \in Nat
  BY <1>1, JobFacts
<1>3. CASE Failed(s)
  BY <1>3, IdleFacts, JobTypes DEF Failed
<1>4. CASE After(s)
  <2>1. [Idle EXCEPT !.at = IF s = Daemon THEN "bodies" ELSE "idle"] \in Jobs
    BY IdleFacts
  <2>2. QED
    BY <1>4, <2>1, JobTypes DEF After
<1>5. CASE QueryPage(s)
  <2> DEFINE page == PageFrom(Len(p.ids))
             all == p.ids \o page
             at == IF Len(all) < Len(mailbox) THEN "page" ELSE "get"
             q == [p EXCEPT !.ids = all, !.state = changes, !.at = at]
  <2>1. page \in Seq(Ids)
    BY <1>1, <1>2, PageFacts DEF PageFrom
  <2>2. all \in Seq(Ids)
    BY <1>2, <2>1
  <2>3. at \in {"page", "get"}
    OBVIOUS
  <2>4. Failed(s) \/ proc' = [proc EXCEPT ![s] = q]
    BY <1>5 DEF QueryPage
  <2> HIDE DEF page, all, at
  <2>5. q \in Jobs
    BY <1>1, <2>2, <2>3 DEF Jobs
  <2>6. QED
    BY <1>3, <2>4, <2>5, JobTypes
<1>6. CASE GetHeaders(s)
  <2> DEFINE batch == PageOf(p.ids, Len(p.heads))
             new == p.heads \o HeadsOf(batch)
  <2>1. batch \in Seq(Ids)
    BY <1>2, PageFacts
  <2>2. new \in Seq(Heads)
    BY <1>2, <2>1, HeadsOfFacts
  <2>3. Failed(s) \/ proc' = [proc EXCEPT ![s].at = "apply"] \/ proc' = [proc EXCEPT ![s].heads = new]
    BY <1>6 DEF GetHeaders
  <2> HIDE DEF new
  <2>4. [p EXCEPT !.at = "apply"] \in Jobs /\ [p EXCEPT !.heads = new] \in Jobs
    BY <1>1, <2>2 DEF Jobs
  <2>5. proc' = [proc EXCEPT ![s].at = "apply"] => proc' \in [Syncers -> Jobs]
    BY <2>4, JobTypes
  <2>6. proc' = [proc EXCEPT ![s].heads = new] => proc' \in [Syncers -> Jobs]
    BY <2>4, JobTypes
  <2>7. QED
    BY <1>3, <2>3, <2>5, <2>6
<1>7. CASE ListPage(s)
  <2> DEFINE new == p.heads \o HeadsOf(PageFrom(Len(p.heads)))
             at == IF Len(p.heads) + PageSize < Len(mailbox) THEN "page" ELSE "apply"
             q == [p EXCEPT !.heads = new, !.at = at]
  <2>1. PageFrom(Len(p.heads)) \in Seq(Ids)
    BY <1>1, <1>2, PageFacts DEF PageFrom
  <2>2. new \in Seq(Heads)
    BY <1>2, <2>1, HeadsOfFacts
  <2>3. at \in {"page", "apply"}
    OBVIOUS
  <2>4. proc' = [proc EXCEPT ![s].heads = new, ![s].at = at]
    BY <1>7 DEF ListPage
  <2> HIDE DEF new, at
  <2>5. q \in Jobs
    BY <1>1, <2>2, <2>3 DEF Jobs
  <2>6. proc' = [proc EXCEPT ![s] = q]
    BY <1>1, <2>4 DEF TypeOK
  <2>7. QED
    BY <2>5, <2>6, JobTypes
<1>8. QED
  BY <1>3, <1>4, <1>5, <1>6, <1>7

\* The types of what the server holds, and of the ghosts that follow it.
ServerTypes ==
    /\ mailbox \in Seq(Ids) /\ kw \in [Ids -> SUBSET Keywords] /\ gone \subseteq Ids
    /\ changes \in Nat /\ steady \in [Syncers -> SUBSET Listed]
    /\ told \in [Ids -> Nat] /\ undone \subseteq Ids
    /\ Listed \cap gone = {}

LEMMA ServerStays ==
  ASSUME TypeOK, UNCHANGED <<mailbox, kw, gone, changes, steady, told, undone>>
  PROVE  ServerTypes'
  BY DEF TypeOK, ServerTypes, Listed

LEMMA LeavesTypes ==
  ASSUME TypeOK, NEW id \in Ids, NEW destroyed \in BOOLEAN, Leaves(id, destroyed), kw' = kw, changes' = changes + 1
  PROVE  ServerTypes'
<1>1. mailbox' = Without(mailbox, {id}) /\ steady' = [s \in Syncers |-> steady[s] \ {id}]
  BY DEF Leaves
<1>2. mailbox' \in Seq(Ids) /\ Listed' = Listed \ {id} /\ steady' \in [Syncers -> SUBSET Listed']
  BY <1>1, LeavesFacts
<1>3. gone' \subseteq gone \cup {id} /\ told' = told /\ undone' = undone
  BY DEF Leaves
<1>4. gone \subseteq Ids /\ Listed \cap gone = {} /\ changes \in Nat
  BY DEF TypeOK
<1>5. gone' \subseteq Ids /\ Listed' \cap gone' = {} /\ changes' \in Nat
  BY <1>2, <1>3, <1>4
<1>6. kw' \in [Ids -> SUBSET Keywords] /\ told' \in [Ids -> Nat] /\ undone' \subseteq Ids
  BY <1>3 DEF TypeOK
<1>7. QED
  BY <1>2, <1>5, <1>6 DEF ServerTypes

LEMMA OthersChangeTypes ==
  ASSUME TypeOK, OthersChange
  PROVE  ServerTypes'
<1>1. changes' = changes + 1 /\ kw' = kw
  BY DEF OthersChange
<1>2. Listed \subseteq Ids
  BY Members DEF TypeOK, Listed
<1>3. ASSUME NEW id \in Ids \ (Listed \cup gone), Arrives(id)
      PROVE  ServerTypes'
  <2>1. mailbox' \in Seq(Ids) /\ Listed' = Listed \cup {id}
    BY <1>3, ArrivesFacts DEF Arrives
  <2>2. /\ told' = [told EXCEPT ![id] = 0] /\ undone' = undone \ {id}
        /\ gone' = gone /\ steady' = steady
    BY <1>3 DEF Arrives
  <2>3. told' \in [Ids -> Nat] /\ undone' \subseteq Ids
    BY <2>2 DEF TypeOK
  <2>4. steady' \in [Syncers -> SUBSET Listed']
    BY <2>1, <2>2 DEF TypeOK
  <2>5. Listed' \cap gone' = {} /\ gone' \subseteq Ids
    BY <2>1, <2>2 DEF TypeOK
  <2>6. kw' \in [Ids -> SUBSET Keywords] /\ changes' \in Nat
    BY <1>1 DEF TypeOK
  <2>7. QED
    BY <2>1, <2>3, <2>4, <2>5, <2>6 DEF ServerTypes
<1>4. \/ \E id \in Ids \ (Listed \cup gone) : Arrives(id)
      \/ \E id \in Listed, destroyed \in BOOLEAN : Leaves(id, destroyed)
  BY DEF OthersChange
<1>5. QED
  BY <1>1, <1>2, <1>3, <1>4, LeavesTypes

LEMMA RequestTypes ==
  ASSUME TypeOK, Request
  PROVE  ServerTypes' /\ cmd' \in [at : {"idle", "request", "echo"},
             op : {"none", "star", "trash", "move", "expunge"}, uid : Uids]
<1>1. cmd \in [at : {"idle", "request", "echo"}, op : {"none", "star", "trash", "move", "expunge"}, uid : Uids]
  BY DEF TypeOK
<1>2. cmd' = NoCommand \/ cmd' = [cmd EXCEPT !.at = "echo"]
  BY DEF Request
<1>3. cmd' \in [at : {"idle", "request", "echo"},
                op : {"none", "star", "trash", "move", "expunge"}, uid : Uids]
  BY <1>1, <1>2, UidFacts DEF NoCommand
<1>4. \/ ExpungeEmails \/ ExpungeNothing \/ UNCHANGED <<server, steady, told, undone>>
      \/ \E id \in FetchBody(cmd.uid) : MoveMessage(id) \/ SetFlags(id)
  BY DEF Request
<1>5. CASE UNCHANGED <<server, steady, told, undone>> \/ ExpungeNothing
  BY <1>3, <1>5, ServerStays DEF server, ExpungeNothing
<1>6. CASE ExpungeEmails
  <2> DEFINE dead == {id \in Listed : "deleted" \in kw[id]}
  <2>1. dead \subseteq Listed /\ dead \subseteq Ids
    BY Members DEF TypeOK, Listed
  <2>2. /\ mailbox' = Without(mailbox, dead) /\ gone' = gone \cup dead
        /\ steady' = [s \in Syncers |-> steady[s] \ dead]
        /\ changes' = IF dead = {} THEN changes ELSE changes + 1
        /\ kw' = kw /\ told' = told /\ undone' = undone
    BY <1>6 DEF ExpungeEmails
  <2> HIDE DEF dead
  <2>3. mailbox' \in Seq(Ids) /\ Listed' = Listed \ dead /\ steady' \in [Syncers -> SUBSET Listed']
    BY <2>1, <2>2, LeavesFacts
  <2>4. gone' \subseteq Ids /\ Listed' \cap gone' = {} /\ changes' \in Nat
    BY <2>1, <2>2, <2>3 DEF TypeOK
  <2>5. kw' \in [Ids -> SUBSET Keywords] /\ told' \in [Ids -> Nat] /\ undone' \subseteq Ids
    BY <2>2 DEF TypeOK
  <2>6. QED
    BY <1>3, <2>3, <2>4, <2>5 DEF ServerTypes
<1>7. ASSUME NEW id \in FetchBody(cmd.uid), MoveMessage(id)
      PROVE  ServerTypes'
  BY <1>7, ResolveFacts, LeavesTypes DEF MoveMessage
<1>8. ASSUME NEW id \in FetchBody(cmd.uid), SetFlags(id)
      PROVE  ServerTypes'
  <2>1. UNCHANGED <<mailbox, gone, changes, steady, told, undone>>
    BY <1>8 DEF SetFlags, SetEmailFlags, SetGraphFlags
  <2>2. kw' = kw \/ \E k \in Keywords : kw' = [kw EXCEPT ![id] = @ \cup {k}]
    BY <1>8 DEF SetFlags, SetEmailFlags, SetGraphFlags, Keywords
  <2>3. kw' \in [Ids -> SUBSET Keywords]
    BY <2>2 DEF TypeOK
  <2>4. QED
    BY <2>1, <2>3 DEF TypeOK, ServerTypes, Listed
<1>9. QED
  BY <1>3, <1>4, <1>5, <1>6, <1>7, <1>8

LEMMA TypeInit == Init => TypeOK /\ RowInv
<1> SUFFICES ASSUME Init PROVE TypeOK /\ RowInv
  OBVIOUS
<1>1. mailbox \in Seq(Ids)
  <2>1. PICK ids \in SUBSET Ids : mailbox \in SetToSeqs(ids)
    BY DEF Init
  <2>2. Cardinality(ids) \in Nat
    BY IdsAssumption, FS_Subset, FS_CardinalityType
  <2>3. mailbox \in [1..Cardinality(ids) -> ids]
    BY <2>1 DEF SetToSeqs
  <2>4. QED
    BY <2>2, <2>3
<1>2. rows \subseteq Rows /\ RowInv
  <2>1. rows \subseteq Rows /\ UniqueUids(rows)
    BY LegacyAssumption DEF Init, UniqueUids
  <2>2. \A r \in rows : r.uid[2] = r.of /\ r.pid \in {r.of, NoId} /\ r.body \in {r.of, NoId}
    BY LegacyAssumption DEF Init
  <2>3. QED
    BY <2>1, <2>2 DEF RowInv, OfItsOwn, SameMid
<1>3. provider \in Providers /\ totals \in BOOLEAN /\ midOf \in MidMaps /\ gone = {} /\ changes = 0 /\ holder = NoOne
  BY DEF Init
<1>4. proc \in [Syncers -> Jobs] /\ kw \in [Ids -> SUBSET Keywords] /\ told \in [Ids -> Nat]
  BY IdleFacts DEF Init
<1>5. steady \in [Syncers -> SUBSET Listed] /\ undone = {}
  BY DEF Init
<1>6. cmd \in [at : {"idle", "request", "echo"}, op : {"none", "star", "trash", "move", "expunge"},
               uid : Uids]
  BY UidFacts DEF Init, NoCommand
<1>7. events \in 0..MaxEvents
  BY BoundAssumption DEF Init
<1>8. QED
  BY <1>1, <1>2, <1>3, <1>4, <1>5, <1>6, <1>7 DEF TypeOK

\* The rows rs are what RowInv says of rows.
RowsSound(rs) == rs \subseteq Rows /\ UniqueUids(rs) /\ \A r \in rs : OfItsOwn(r) /\ SameMid(r)

\* What replaces rows one for one, at their uids.
LEMMA ReplacedRows ==
  ASSUME NEW rs, NEW after, RowsSound(rs), after \subseteq Rows,
         NEW to, \A q \in after : \E r \in rs : q = to[r] /\ q.uid = r.uid /\ OfItsOwn(q) /\ SameMid(q)
  PROVE  RowsSound(after)
<1>1. ASSUME NEW q \in after, NEW x \in after, q.uid = x.uid
      PROVE  q = x
  <2>1. PICK r \in rs : q = to[r] /\ q.uid = r.uid
    OBVIOUS
  <2>2. PICK y \in rs : x = to[y] /\ x.uid = y.uid
    OBVIOUS
  <2>3. r = y
    BY <1>1, <2>1, <2>2 DEF RowsSound, UniqueUids
  <2>4. QED
    BY <2>1, <2>2, <2>3
<1>2. QED
  BY <1>1 DEF RowsSound, UniqueUids

LEMMA RowsFetched ==
  ASSUME TypeOK, RowInv, FetchBodies
  PROVE  RowsSound(rows')
<1> DEFINE missing == {r \in rows : r.body = NoId}
           filled(r) == [r EXCEPT !.body = CHOOSE id \in FetchBody(r.uid) : TRUE]
           to == [r \in rows |-> IF r \in missing THEN filled(r) ELSE r]
<1>1. RowsSound(rows)
  BY DEF TypeOK, RowInv, RowsSound
<1>2. CASE rows' = rows
  BY <1>1, <1>2
<1>3. CASE rows' # rows
  <2>1. \A r \in missing : FetchBody(r.uid) # {}
    BY <1>3 DEF FetchBodies
  <2>2. rows' = (rows \ missing) \cup {filled(r) : r \in missing}
    BY <1>3, <2>1 DEF FetchBodies
  <2>3. ASSUME NEW r \in missing
        PROVE  /\ filled(r) \in Rows /\ filled(r).uid = r.uid
               /\ OfItsOwn(filled(r)) /\ SameMid(filled(r))
    <3> DEFINE id == CHOOSE id \in FetchBody(r.uid) : TRUE
    <3>1. id \in FetchBody(r.uid)
      BY <2>1
    <3> HIDE DEF id
    <3>2. id \in Ids /\ r.of = id
      BY <3>1, ResolveFacts
    <3>3. r \in Rows /\ OfItsOwn(r)
      BY DEF TypeOK, RowInv
    <3>4. filled(r) = [r EXCEPT !.body = id]
      BY DEF id
    <3> DEFINE q == [r EXCEPT !.body = id]
    <3>5. q \in Rows /\ q.uid = r.uid /\ q.pid = r.pid /\ q.of = r.of /\ q.body = id
      BY <3>2, <3>3 DEF Rows
    <3> HIDE DEF q
    <3>6. OfItsOwn(q) /\ SameMid(q)
      BY <3>2, <3>3, <3>5 DEF OfItsOwn, SameMid
    <3> HIDE DEF filled, missing
    <3>7. QED
      BY <3>4, <3>5, <3>6 DEF q
  <2> HIDE DEF filled
  <2>4. ASSUME NEW q \in rows'
        PROVE  \E r \in rows : q = to[r] /\ q.uid = r.uid /\ OfItsOwn(q) /\ SameMid(q) /\ q \in Rows
    <3>1. CASE q \in rows /\ q \notin missing
      BY <1>1, <3>1 DEF RowsSound
    <3>2. ASSUME NEW r \in missing, q = filled(r)
          PROVE  \E x \in rows : q = to[x] /\ q.uid = x.uid /\ OfItsOwn(q) /\ SameMid(q) /\ q \in Rows
      <4>1. r \in rows /\ q = to[r]
        BY <3>2
      <4>2. QED
        BY <2>3, <3>2, <4>1
    <3>3. QED
      BY <2>2, <3>1, <3>2
  <2> HIDE DEF to
  <2>5. rows' \subseteq Rows
    BY <2>4
  <2>6. QED
    BY <1>1, <2>4, <2>5, ReplacedRows
<1>4. QED
  BY <1>2, <1>3

LEMMA RowsEchoed ==
  ASSUME TypeOK, RowInv, Echo
  PROVE  RowsSound(rows')
<1> DEFINE to == [r \in rows |-> IF r.uid = cmd.uid THEN Flagged(r) ELSE r]
<1>1. RowsSound(rows)
  BY DEF TypeOK, RowInv, RowsSound
<1>2. CASE rows' = rows \ Dropped
  BY <1>1, <1>2 DEF RowsSound, UniqueUids
<1>3. CASE rows' = {IF r.uid = cmd.uid THEN Flagged(r) ELSE r : r \in rows}
  <2>1. ASSUME NEW r \in Rows
        PROVE  /\ Flagged(r) \in Rows /\ Flagged(r).uid = r.uid /\ Flagged(r).pid = r.pid
               /\ Flagged(r).of = r.of /\ Flagged(r).body = r.body
    BY DEF Flagged, Rows, Keywords
  <2>2. \A r \in Rows : OfItsOwn(r) /\ SameMid(r) => OfItsOwn(Flagged(r)) /\ SameMid(Flagged(r))
    BY <2>1 DEF OfItsOwn, SameMid
  <2>3. ASSUME NEW q \in rows'
        PROVE  \E r \in rows : q = to[r] /\ q.uid = r.uid /\ OfItsOwn(q) /\ SameMid(q) /\ q \in Rows
    <3>1. PICK r \in rows : q = IF r.uid = cmd.uid THEN Flagged(r) ELSE r
      BY <1>3
    <3>2. q = to[r] /\ r \in Rows
      BY <1>1, <3>1 DEF RowsSound
    <3>3. QED
      BY <1>1, <2>1, <2>2, <3>1, <3>2 DEF RowsSound
  <2> HIDE DEF to
  <2>4. rows' \subseteq Rows
    BY <2>3
  <2>5. QED
    BY <1>1, <2>3, <2>4, ReplacedRows
<1>4. QED
  BY <1>2, <1>3 DEF Echo

LEMMA RowsImported ==
  ASSUME TypeOK, RowInv, Import
  PROVE  RowsSound(rows')
<1>1. RowsSound(rows) /\ \A r \in rows : r.uid # NextUid
  BY DEF TypeOK, RowInv, RowsSound, Import
<1>2. PICK id \in Ids : rows' = rows \cup {Row(NextUid, NoId, id, id, {})}
  BY DEF Import
<1> DEFINE q == Row(NextUid, NoId, id, id, {})
<1>3. q \in Rows /\ q.uid = NextUid /\ q.pid = NoId /\ q.of = id /\ q.body = id
  BY UidFacts DEF Row, Rows
<1>4. rows' = rows \cup {q}
  BY <1>2
<1> HIDE DEF q
<1>5. OfItsOwn(q) /\ SameMid(q)
  BY <1>3 DEF OfItsOwn, SameMid
<1>6. QED
  BY <1>1, <1>3, <1>4, <1>5 DEF RowsSound, UniqueUids

LEMMA ConsistentListing ==
  ASSUME NEW heads \in Seq(Heads), ~InvalidSnapshot(heads)
  PROVE  Consistent(heads)
  BY HeadFacts DEF InvalidSnapshot, Consistent

LEMMA RowsApplied ==
  ASSUME TypeOK, RowInv, NEW s \in Syncers, ApplySnapshot(s)
  PROVE  LET heads == proc[s].heads
         IN  /\ RowsSound(rows')
             /\ \A id \in IdsOf(heads) : {r.uid : r \in {x \in rows' : x.pid = id}} = {Canon(id)}
             /\ \A r \in rows' : r.body \in IdsOf(heads) =>
                   r.body = r.of \/ \E x \in rows : x.of = r.of /\ x.body = r.body
             /\ IdsOf(heads) \subseteq Named(rows')
             /\ heads \in Seq(Heads)
<1> DEFINE heads == proc[s].heads
<1>1. heads \in Seq(Heads)
  BY JobFacts DEF TypeOK
<1>2. /\ ~InvalidSnapshot(heads) /\ ~Reconciled(rows, heads).clash
      /\ rows' = Pruned(Upserted(Reconciled(rows, heads).rows, heads), Named(rows), heads)
  BY DEF ApplySnapshot
<1>3. RowsSound(rows) /\ Consistent(heads)
  BY <1>1, <1>2, ConsistentListing DEF TypeOK, RowInv, RowsSound
<1> HIDE DEF heads
<1>4. LET after == Pruned(Upserted(Reconciled(rows, heads).rows, heads), Named(rows), heads)
      IN  /\ after \subseteq Rows /\ UniqueUids(after)
          /\ \A r \in after : OfItsOwn(r) /\ SameMid(r)
          /\ \A id \in IdsOf(heads) : {r.uid : r \in {x \in after : x.pid = id}} = {Canon(id)}
          /\ \A r \in after : r.body \in IdsOf(heads) =>
                r.body = r.of \/ \E x \in rows : x.of = r.of /\ x.body = r.body
          /\ IdsOf(heads) \subseteq Named(after)
  BY <1>1, <1>2, <1>3, PublishedFacts DEF RowsSound
<1>5. QED
  BY <1>1, <1>2, <1>4 DEF RowsSound, heads

LEMMA RowsUpserted ==
  ASSUME TypeOK, RowInv, FetchNewest
  PROVE  RowsSound(rows')
<1>1. RowsSound(rows) /\ Newest \in Seq(Heads) /\ Consistent(Newest)
  BY NewestFacts DEF TypeOK, RowInv, RowsSound
<1>2. rows' = Upserted(rows, Newest)
  BY DEF FetchNewest
<1>3. Upserted(rows, Newest) \subseteq Rows
  BY <1>1, UpsertedFacts DEF RowsSound
<1>4. UniqueUids(Upserted(rows, Newest)) /\ \A q \in Upserted(rows, Newest) : OfItsOwn(q) /\ SameMid(q)
  BY <1>1, UpsertedIsSound DEF RowsSound
<1>5. QED
  BY <1>2, <1>3, <1>4 DEF RowsSound

LEMMA TypeAndRowNext == TypeOK /\ RowInv /\ [Next]_vars => TypeOK' /\ RowInv'
<1> SUFFICES ASSUME TypeOK, RowInv, [Next]_vars PROVE TypeOK' /\ RowInv'
  OBVIOUS
<1> DEFINE Commanded == [at : {"idle", "request", "echo"},
                         op : {"none", "star", "trash", "move", "expunge"}, uid : Uids]
<1>1. RowsSound(rows) /\ proc \in [Syncers -> Jobs] /\ cmd \in Commanded /\ events \in 0..MaxEvents
  BY DEF TypeOK, RowInv, RowsSound
<1>2. Event => events' \in 0..MaxEvents
  BY <1>1, BoundAssumption DEF Event
\* It is enough to say how each action leaves the parts.
<1>3. ASSUME UNCHANGED <<provider, totals, midOf>>, ServerTypes', RowsSound(rows'), midOf' = midOf,
             holder' \in Syncers \cup {NoOne}, proc' \in [Syncers -> Jobs], cmd' \in Commanded,
             events' \in 0..MaxEvents
      PROVE  TypeOK' /\ RowInv'
  <2>1. TypeOK'
    BY <1>3 DEF TypeOK, ServerTypes, RowsSound
  <2>2. \A r \in rows' : SameMid(r)' <=> SameMid(r)
    BY <1>3 DEF SameMid
  <2>3. RowInv'
    BY <1>3, <2>2 DEF RowInv, RowsSound
  <2>4. QED
    BY <2>1, <2>3
<1> HIDE DEF Commanded
<1>4. CASE UNCHANGED vars
  <2>1. UNCHANGED <<provider, totals, midOf, mailbox, kw, gone, changes, rows, holder, proc, cmd, events, steady, told, undone>>
    BY <1>4 DEF vars, server, user
  <2>2. ServerTypes'
    BY <2>1, ServerStays
  <2>3. QED
    BY <1>1, <1>3, <2>1, <2>2 DEF TypeOK
<1>5. CASE OthersChange
  <2>1. UNCHANGED <<provider, totals, midOf, rows, holder, proc, cmd>> /\ Event
    BY <1>5 DEF OthersChange
  <2>2. ServerTypes'
    BY <1>5, OthersChangeTypes
  <2>3. QED
    BY <1>1, <1>2, <1>3, <2>1, <2>2 DEF TypeOK
<1>6. ASSUME NEW s \in Syncers, Sync(s) \/ Abandon(s)
      PROVE  TypeOK' /\ RowInv'
  <2>1. CASE Reserve(s)
    <3>1. /\ UNCHANGED <<provider, totals, midOf, mailbox, kw, gone, changes, rows, cmd, told, undone>>
          /\ holder' = s /\ steady' = [steady EXCEPT ![s] = Listed]
          /\ proc' = [proc EXCEPT ![s] = [Idle EXCEPT !.at = "page"]]
          /\ Event \/ events' = events
      BY <2>1 DEF Reserve, server
    <3>2. ServerTypes'
      BY <3>1 DEF TypeOK, ServerTypes, Listed
    <3>3. proc' \in [Syncers -> Jobs]
      BY <3>1, IdleFacts, JobTypes
    <3>4. QED
      BY <1>1, <1>2, <1>3, <3>1, <3>2, <3>3
  <2>2. CASE QueryPage(s) \/ GetHeaders(s) \/ ListPage(s)
    <3>1. UNCHANGED <<provider, totals, midOf, mailbox, kw, gone, changes, rows, holder, cmd, events, steady, told, undone>>
      BY <2>2 DEF QueryPage, GetHeaders, ListPage, server, user
    <3>2. ServerTypes' /\ proc' \in [Syncers -> Jobs]
      BY <2>2, <3>1, ServerStays, QueryTypes
    <3>3. QED
      BY <1>1, <1>3, <3>1, <3>2 DEF TypeOK
  <2>3. CASE Abandon(s)
    <3>1. /\ UNCHANGED <<provider, totals, midOf, mailbox, kw, gone, changes, rows, holder, cmd, steady, told, undone>>
          /\ Event /\ Failed(s)
      BY <2>3 DEF Abandon, server
    <3>2. ServerTypes' /\ proc' \in [Syncers -> Jobs]
      BY <3>1, ServerStays, QueryTypes
    <3>3. QED
      BY <1>1, <1>2, <1>3, <3>1, <3>2 DEF TypeOK
  <2>4. CASE RejectSnapshot(s)
    <3>1. /\ UNCHANGED <<provider, totals, midOf, mailbox, kw, gone, changes, rows, holder, cmd, events, steady, told, undone>>
          /\ Failed(s)
      BY <2>4 DEF RejectSnapshot, server, user
    <3>2. ServerTypes' /\ proc' \in [Syncers -> Jobs]
      BY <3>1, ServerStays, QueryTypes
    <3>3. QED
      BY <1>1, <1>3, <3>1, <3>2 DEF TypeOK
  <2>5. CASE ApplySnapshot(s)
    <3>1. /\ UNCHANGED <<provider, totals, midOf, mailbox, kw, gone, changes, cmd, events, steady, undone>>
          /\ holder' = NoOne /\ After(s)
          /\ \E ids : Announce(ids)
      BY <2>5 DEF ApplySnapshot, server, user
    <3>2. told' \in [Ids -> Nat]
      <4>1. PICK ids : told' = [id \in Ids |-> told[id] + (IF id \in ids THEN 1 ELSE 0)]
        BY <3>1 DEF Announce
      <4>2. \A id \in Ids : told[id] + (IF id \in ids THEN 1 ELSE 0) \in Nat
        BY DEF TypeOK
      <4>3. QED
        BY <4>1, <4>2
    <3>3. ServerTypes' /\ proc' \in [Syncers -> Jobs]
      BY <3>1, <3>2, QueryTypes DEF TypeOK, ServerTypes, Listed
    <3>4. RowsSound(rows')
      BY <2>5, RowsApplied
    <3>5. QED
      BY <1>1, <1>3, <3>1, <3>3, <3>4
  <2>6. QED
    BY <1>6, <2>1, <2>2, <2>3, <2>4, <2>5 DEF Sync, List
<1>7. CASE FetchBodies
  <2>1. /\ UNCHANGED <<provider, totals, midOf, mailbox, kw, gone, changes, holder, cmd, events, steady, told, undone>>
        /\ Failed(Daemon) /\ Daemon \in Syncers
    BY <1>7 DEF FetchBodies, server, user, Syncers
  <2>2. ServerTypes' /\ proc' \in [Syncers -> Jobs]
    BY <2>1, ServerStays, QueryTypes
  <2>3. RowsSound(rows')
    BY <1>7, RowsFetched
  <2>4. QED
    BY <1>1, <1>3, <2>1, <2>2, <2>3 DEF TypeOK
<1>8. CASE BeginCommand
  <2>1. /\ UNCHANGED <<provider, totals, midOf, mailbox, kw, gone, changes, rows, holder, proc, steady, told, undone>>
        /\ Event
    BY <1>8 DEF BeginCommand, server
  <2>2. cmd' \in Commanded
    BY <1>1, <1>8 DEF BeginCommand, RowsSound, Rows, Commanded
  <2>3. ServerTypes'
    BY <2>1, ServerStays
  <2>4. QED
    BY <1>1, <1>2, <1>3, <2>1, <2>2, <2>3 DEF TypeOK
<1>9. CASE Request
  <2>1. UNCHANGED <<provider, totals, midOf, rows, holder, proc, events>>
    BY <1>9 DEF Request, server, ExpungeEmails, ExpungeNothing, MoveMessage, SetFlags, SetEmailFlags,
                SetGraphFlags
  <2>2. ServerTypes' /\ cmd' \in Commanded
    BY <1>9, RequestTypes DEF Commanded
  <2>3. QED
    BY <1>1, <1>3, <2>1, <2>2 DEF TypeOK
<1>10. CASE Echo
  <2>1. /\ UNCHANGED <<provider, totals, midOf, mailbox, kw, gone, changes, holder, proc, events, steady, told>>
        /\ cmd' = NoCommand /\ undone' = undone \cup {id \in Named(Dropped) : InFlight(id)}
    BY <1>10 DEF Echo, server
  <2>2. Dropped \subseteq rows
    BY DEF Dropped
  <2>3. Named(Dropped) \subseteq Ids
    BY <1>1, <2>2 DEF Named, RowsSound, Rows
  <2>4. ServerTypes'
    BY <2>1, <2>3 DEF TypeOK, ServerTypes, Listed
  <2>5. cmd' \in Commanded
    BY <2>1, UidFacts DEF NoCommand, Commanded
  <2>6. RowsSound(rows')
    BY <1>10, RowsEchoed
  <2>7. QED
    BY <1>1, <1>3, <2>1, <2>4, <2>5, <2>6 DEF TypeOK
<1>11. CASE Import
  <2>1. UNCHANGED <<provider, totals, midOf, mailbox, kw, gone, changes, holder, proc, cmd, steady, told, undone>> /\ Event
    BY <1>11 DEF Import, server
  <2>2. ServerTypes' /\ RowsSound(rows')
    BY <1>11, <2>1, ServerStays, RowsImported
  <2>3. QED
    BY <1>1, <1>2, <1>3, <2>1, <2>2 DEF TypeOK
<1>12. CASE FetchNewest
  <2>1. UNCHANGED <<provider, totals, midOf, mailbox, kw, gone, changes, holder, proc, cmd, steady, told, undone>> /\ Event
    BY <1>12 DEF FetchNewest, server
  <2>2. ServerTypes' /\ RowsSound(rows')
    BY <1>12, <2>1, ServerStays, RowsUpserted
  <2>3. QED
    BY <1>1, <1>2, <1>3, <2>1, <2>2 DEF TypeOK
<1>13. QED
  BY <1>4, <1>5, <1>6, <1>7, <1>8, <1>9, <1>10, <1>11, <1>12 DEF Next, Commands

\* Every variable has its type, and what is gone is not listed, in every state.
THEOREM TypeCorrect == Spec => []TypeOK
<1>1. Spec => [](TypeOK /\ RowInv)
  BY TypeInit, TypeAndRowNext, PTL DEF Spec
<1>2. QED
  BY <1>1, PTL

LEMMA RowsStaySound == Spec => [](TypeOK /\ RowInv)
  BY TypeInit, TypeAndRowNext, PTL DEF Spec

\* The uids stay unique and no row is given the body of a message with another
\* Message-ID, whatever an older release left and in whatever order listings, commands,
\* imports and downloads take place (apply_snapshot, fetch and echo of main.rs).
THEOREM RowsAlwaysSound == Spec => []RowsAreSound
<1>1. TypeOK /\ RowInv => RowsAreSound
  BY DEF TypeOK, RowInv, RowsAreSound, UniqueUids, SameMid, Rows
<1>2. QED
  BY <1>1, RowsStaySound, PTL

----------------------------------------------------------------------------
(* What a JMAP sync knows of the folder *)

\* ListingInv, for the job p of one syncer, whose messages in the folder all the time are kept.
Progress(p, kept) ==
    /\ p.at \in {"idle", "bodies"} => p.ids = <<>>
    /\ p.at = "page" /\ p.ids # <<>> =>
          /\ p.state <= changes
          /\ p.state = changes =>
                Len(p.ids) <= Len(mailbox) /\ \A i \in 1..Len(p.ids) : p.ids[i] = mailbox[i]
    /\ p.at # "get" /\ p.at # "apply" => p.heads = <<>>
    /\ Len(p.heads) <= Len(p.ids)
    /\ \A i \in 1..Len(p.heads) : p.heads[i].id = p.ids[i]
    /\ p.at = "apply" => Len(p.heads) = Len(p.ids)
    /\ p.at \in {"get", "apply"} => kept \subseteq ToSet(p.ids)

LEMMA ListingIsProgress ==
  ListingInv = (provider = "jmap" => \A s \in Syncers : Progress(proc[s], steady[s]))
  BY DEF ListingInv, Progress

\* The server's changes, and who sits still while they take place.
LEMMA ProgressKept ==
  ASSUME TypeOK, NEW p \in Jobs, NEW kept, Progress(p, kept), NEW fewer, fewer \subseteq kept,
         (mailbox' = mailbox /\ changes' = changes) \/ changes' = changes + 1
  PROVE  Progress(p, fewer)'
<1>1. changes \in Nat /\ p.state \in Nat
  BY JobFacts DEF TypeOK
<1>2. ASSUME changes' = changes + 1, p.at = "page", p.ids # <<>>
      PROVE  p.state <= changes' /\ p.state # changes'
  BY <1>1, <1>2 DEF Progress
<1>3. QED
  BY <1>2 DEF Progress

LEMMA ProgressIdle == \A kept, at \in {"idle", "page", "bodies"} : Progress([Idle EXCEPT !.at = at], kept)
  BY DEF Progress, Idle

LEMMA QueryProgress ==
  ASSUME TypeOK, NEW s \in Syncers, Progress(proc[s], steady[s]), QueryPage(s)
  PROVE  \E p \in Jobs : /\ proc' = [proc EXCEPT ![s] = p]
                         /\ Progress(p, steady[s])'
                         /\ p.at \in {"idle", "page", "get"}
                         /\ p.at = "idle" => p.ids = <<>>
                         /\ ToSet(p.ids) \subseteq ToSet(proc[s].ids) \cup Listed
                         /\ p.at = "get" => Listed \subseteq ToSet(p.ids)
<1> DEFINE p == proc[s]
           n == Len(p.ids)
           page == PageFrom(n)
           all == p.ids \o page
           at == IF Len(all) < Len(mailbox) THEN "page" ELSE "get"
           q == [p EXCEPT !.ids = all, !.state = changes, !.at = at]
<1>1. p \in Jobs /\ mailbox \in Seq(Ids) /\ changes \in Nat /\ p.at = "page"
  BY DEF TypeOK, QueryPage
<1>2. p.ids \in Seq(Ids) /\ n \in Nat /\ Len(mailbox) \in Nat
  BY <1>1, JobFacts
<1>3. page \in Seq(Ids) /\ \A i \in 1..Len(page) : n + i <= Len(mailbox) /\ page[i] = mailbox[n + i]
  BY <1>1, <1>2, PageFacts DEF PageFrom
<1>4. UNCHANGED <<mailbox, changes>>
  BY DEF QueryPage, server
<1>5. CASE Failed(s)
  <2>1. Idle = [Idle EXCEPT !.at = "idle"] /\ Idle.ids = <<>> /\ Idle.at = "idle" /\ ToSet(<<>>) = {}
    BY DEF Idle, ToSet
  <2>2. Progress(Idle, steady[s])'
    BY <2>1, ProgressIdle DEF Progress, Idle
  <2>3. QED
    BY <1>5, <2>1, <2>2, IdleFacts DEF Failed
<1>6. CASE ~Failed(s)
  <2>1. ValidPage(p, page) /\ proc' = [proc EXCEPT ![s] = q]
    BY <1>6 DEF QueryPage
  <2>2. p.ids # <<>> => p.state = changes
    BY <2>1 DEF ValidPage
  <2>3. n <= Len(mailbox) /\ \A i \in 1..n : p.ids[i] = mailbox[i]
    <3>1. CASE p.ids = <<>>
      BY <1>2, <3>1
    <3>2. CASE p.ids # <<>>
      BY <1>1, <2>2, <3>2 DEF Progress
    <3>3. QED
      BY <3>1, <3>2
  <2> HIDE DEF page
  <2>4. /\ all \in Seq(Ids) /\ Len(all) = n + Len(page) /\ Len(page) \in Nat
        /\ \A i \in 1..n : all[i] = p.ids[i]
        /\ \A i \in 1..Len(page) : all[n + i] = page[i]
        /\ \A i \in 1..Len(all) : i \in 1..n \/ (i - n \in 1..Len(page) /\ n + (i - n) = i)
    BY <1>2, <1>3, Concatenation
  <2> HIDE DEF all
  <2>6. Len(all) <= Len(mailbox) /\ \A i \in 1..Len(all) : all[i] = mailbox[i]
    <3>1. Len(all) <= Len(mailbox)
      <4>1. CASE Len(page) = 0
        BY <1>2, <2>3, <2>4, <4>1
      <4>2. CASE Len(page) # 0
        <5>1. Len(page) \in 1..Len(page)
          BY <2>4, <4>2
        <5>2. QED
          BY <1>3, <2>4, <5>1
      <4>3. QED
        BY <4>1, <4>2
    <3>2. ASSUME NEW i \in 1..Len(all)
          PROVE  all[i] = mailbox[i]
      <4>1. CASE i \in 1..n
        BY <2>3, <2>4, <4>1
      <4>2. CASE i - n \in 1..Len(page) /\ n + (i - n) = i
        BY <1>3, <2>4, <4>2
      <4>3. QED
        BY <2>4, <4>1, <4>2
    <3>3. QED
      BY <3>1, <3>2
  <2>7. Len(all) = Len(mailbox) => ToSet(all) = Listed
    <3>1. SUFFICES ASSUME Len(all) = Len(mailbox) PROVE ToSet(all) = Listed
      OBVIOUS
    <3>2. \A x : x \in ToSet(all) <=> \E i \in 1..Len(all) : all[i] = x
      BY <2>4, Members
    <3>3. \A x : x \in Listed <=> \E i \in 1..Len(mailbox) : mailbox[i] = x
      BY <1>1, Members DEF Listed
    <3>4. QED
      BY <2>6, <3>1, <3>2, <3>3
  <2>8. ToSet(all) \subseteq Listed
    <3>1. \A i \in 1..Len(all) : i \in 1..Len(mailbox)
      BY <1>2, <2>4, <2>6
    <3>2. QED
      BY <1>1, <2>4, <2>6, <3>1, Members DEF Listed
  <2>9. p.heads = <<>> /\ at \in {"page", "get"} /\ (at = "get" => Len(all) = Len(mailbox))
    BY <1>1, <1>2, <2>4, <2>6 DEF Progress
  <2> HIDE DEF at
  <2>10. /\ q \in Jobs /\ q.at = at /\ q.ids = all /\ q.heads = <<>> /\ q.state = changes
    BY <1>1, <2>4, <2>9 DEF Jobs
  <2>11. steady'[s] = steady[s] /\ steady[s] \subseteq Listed
    BY DEF QueryPage, TypeOK
  <2>12. PICK new : new = q
    OBVIOUS
  <2> HIDE DEF q
  <2>13. /\ new \in Jobs /\ new.at \in {"page", "get"} /\ new.ids = all /\ new.heads = <<>>
         /\ new.state = changes
         /\ new.at = "get" => Len(all) = Len(mailbox)
    BY <2>9, <2>10, <2>12
  <2>14. Progress(new, steady[s])'
    <3>1. new.at = "get" => steady'[s] \subseteq ToSet(new.ids)
      BY <2>7, <2>11, <2>13
    <3>2. Len(<<>>) = 0 /\ Len(all) \in Nat
      BY <2>4
    <3>3. /\ new.state = changes' /\ new.state <= changes'
          /\ Len(new.ids) <= Len(mailbox') /\ \A i \in 1..Len(new.ids) : new.ids[i] = mailbox'[i]
      BY <1>1, <1>4, <2>6, <2>13
    <3>4. Len(new.heads) = 0 /\ 0 <= Len(new.ids) /\ \A i \in 1..0 : FALSE
      BY <2>13, <3>2
    <3>5. QED
      BY <2>13, <3>1, <3>3, <3>4 DEF Progress
  <2>15. /\ proc' = [proc EXCEPT ![s] = new]
         /\ ToSet(new.ids) \subseteq ToSet(p.ids) \cup Listed
         /\ new.at = "get" => Listed \subseteq ToSet(new.ids)
    BY <2>1, <2>7, <2>8, <2>12, <2>13
  <2>16. QED
    BY <2>13, <2>14, <2>15
<1>7. QED
  BY <1>5, <1>6

LEMMA FailedProgress ==
  ASSUME NEW s \in Syncers, Failed(s)
  PROVE  /\ proc' = [proc EXCEPT ![s] = Idle] /\ Progress(Idle, steady[s])'
         /\ Idle.at = "idle" /\ ToSet(Idle.ids) = {}
<1>1. Idle.at = "idle" /\ Idle.ids = <<>> /\ Idle.heads = <<>> /\ ToSet(<<>>) = {} /\ Len(<<>>) = 0
  BY DEF Idle, ToSet
<1>2. QED
  BY <1>1 DEF Failed, Progress

LEMMA GetProgress ==
  ASSUME TypeOK, NEW s \in Syncers, Progress(proc[s], steady[s]), GetHeaders(s)
  PROVE  \E p \in Jobs : /\ proc' = [proc EXCEPT ![s] = p]
                         /\ Progress(p, steady[s])'
                         /\ p.at \in {"idle", "get", "apply"}
                         /\ ToSet(p.ids) \subseteq ToSet(proc[s].ids)
                         /\ p.at # "idle" => p.ids = proc[s].ids
<1> DEFINE p == proc[s]
           done == Len(p.heads)
           batch == PageOf(p.ids, done)
           more == p.heads \o HeadsOf(batch)
<1>1. p \in Jobs /\ p.at = "get" /\ proc \in [Syncers -> Jobs]
  BY DEF TypeOK, GetHeaders
<1>2. p.ids \in Seq(Ids) /\ p.heads \in Seq(Heads) /\ done \in Nat /\ Len(p.ids) \in Nat
  BY <1>1, JobFacts
<1>3. UNCHANGED <<mailbox, changes, steady>>
  BY DEF GetHeaders, server
<1>4. PICK old : old = p
  OBVIOUS
<1>5. old \in Jobs /\ old.at = "get" /\ Progress(old, steady[s]) /\ old.ids = p.ids /\ old.heads = p.heads
  BY <1>1, <1>4
<1>6. CASE Failed(s)
  <2>1. Progress(Idle, steady[s])' /\ Idle.at = "idle" /\ ToSet(Idle.ids) = {}
    BY <1>6, FailedProgress
  <2>2. QED
    BY <1>6, <2>1, IdleFacts DEF Failed
<1>7. CASE done = Len(p.ids) /\ proc' = [proc EXCEPT ![s].at = "apply"]
  <2> DEFINE new == [old EXCEPT !.at = "apply"]
  <2>1. proc' = [proc EXCEPT ![s] = new]
    BY <1>4, <1>7
  <2>2. new \in Jobs /\ new.at = "apply" /\ new.ids = old.ids /\ new.heads = old.heads
    BY <1>5 DEF Jobs
  <2> HIDE DEF new
  <2>3. Progress(new, steady[s])'
    BY <1>3, <1>5, <1>7, <2>2 DEF Progress
  <2>4. QED
    BY <1>5, <2>1, <2>2, <2>3
<1>8. CASE done # Len(p.ids) /\ proc' = [proc EXCEPT ![s].heads = more]
  <2>1. batch \in Seq(Ids) /\ \A i \in 1..Len(batch) : done + i <= Len(p.ids) /\ batch[i] = p.ids[done + i]
    BY <1>2, PageFacts
  <2>2. /\ HeadsOf(batch) \in Seq(Heads) /\ Len(HeadsOf(batch)) = Len(batch)
        /\ \A i \in 1..Len(batch) : HeadsOf(batch)[i].id = batch[i]
    BY <2>1, HeadsOfFacts
  <2> HIDE DEF batch
  <2>3. /\ more \in Seq(Heads) /\ Len(more) = done + Len(batch) /\ Len(batch) \in Nat
        /\ \A i \in 1..done : more[i] = p.heads[i]
        /\ \A i \in 1..Len(batch) : more[done + i] = HeadsOf(batch)[i]
        /\ \A i \in 1..Len(more) : i \in 1..done \/ (i - done \in 1..Len(batch) /\ done + (i - done) = i)
    <3>1. PICK got \in Seq(Heads) : got = HeadsOf(batch) /\ Len(got) = Len(batch)
      BY <2>2
    <3>2. PICK had \in Seq(Heads) : had = p.heads
      BY <1>2
    <3>3. /\ had \o got \in Seq(Heads) /\ Len(had \o got) = Len(had) + Len(got) /\ Len(got) \in Nat
          /\ \A i \in 1..Len(had) : (had \o got)[i] = had[i]
          /\ \A i \in 1..Len(got) : (had \o got)[Len(had) + i] = got[i]
          /\ \A i \in 1..Len(had \o got) :
                 i \in 1..Len(had) \/ (i - Len(had) \in 1..Len(got) /\ Len(had) + (i - Len(had)) = i)
      BY Concatenation
    <3>4. QED
      BY <3>1, <3>2, <3>3
  <2>4. PICK longer : longer = more
    OBVIOUS
  <2> HIDE DEF more
  <2>5. Len(longer) <= Len(p.ids)
    <3>1. CASE Len(batch) = 0
      BY <1>1, <1>2, <1>5, <2>3, <2>4, <3>1 DEF Progress
    <3>2. CASE Len(batch) # 0
      <4>1. Len(batch) \in 1..Len(batch)
        BY <2>3, <3>2
      <4>2. QED
        BY <2>1, <2>3, <2>4, <4>1
    <3>3. QED
      BY <3>1, <3>2
  <2>6. ASSUME NEW i \in 1..Len(longer)
        PROVE  longer[i].id = p.ids[i]
    <3>1. CASE i \in 1..done
      BY <1>5, <2>3, <2>4, <3>1 DEF Progress
    <3>2. CASE i - done \in 1..Len(batch) /\ done + (i - done) = i
      <4>1. PICK j \in 1..Len(batch) : done + j = i
        BY <3>2
      <4>2. longer[i] = HeadsOf(batch)[j]
        BY <2>3, <2>4, <4>1
      <4>3. HeadsOf(batch)[j].id = batch[j]
        BY <2>2
      <4>4. batch[j] = p.ids[i]
        BY <2>1, <4>1
      <4>5. QED
        BY <4>2, <4>3, <4>4
    <3>3. QED
      BY <2>3, <2>4, <3>1, <3>2
  <2> DEFINE new == [old EXCEPT !.heads = longer]
  <2>7. proc' = [proc EXCEPT ![s] = new]
    BY <1>4, <1>8, <2>4
  <2>8. new \in Jobs /\ new.at = "get" /\ new.ids = old.ids /\ new.heads = longer
    BY <1>5, <2>3, <2>4 DEF Jobs
  <2> HIDE DEF new
  <2>9. Progress(new, steady[s])'
    BY <1>3, <1>5, <2>5, <2>6, <2>8 DEF Progress
  <2>10. QED
    BY <1>5, <2>7, <2>8, <2>9
<1>9. QED
  BY <1>6, <1>7, <1>8 DEF GetHeaders

\* Every step that changes the folder, except for what arrives, shows in the query's state.
LEMMA ServerSteps ==
  ASSUME TypeOK, OthersChange \/ Request
  PROVE  /\ (mailbox' = mailbox /\ changes' = changes) \/ changes' = changes + 1
         /\ \A s \in Syncers : steady'[s] \subseteq steady[s]
         /\ provider' = provider /\ proc' = proc
<1>1. /\ provider' = provider /\ proc' = proc
  BY DEF OthersChange, Request, server, ExpungeEmails, ExpungeNothing, MoveMessage, SetFlags, SetEmailFlags,
         SetGraphFlags
<1>2. mailbox \in Seq(Ids) /\ steady \in [Syncers -> SUBSET Listed]
  BY DEF TypeOK
<1>3. ASSUME NEW id, NEW destroyed \in BOOLEAN, Leaves(id, destroyed)
      PROVE  \A s \in Syncers : steady'[s] \subseteq steady[s]
  BY <1>3 DEF Leaves
<1>4. CASE OthersChange
  <2>1. changes' = changes + 1 /\ (steady' = steady \/ \E id \in Listed, destroyed \in BOOLEAN : Leaves(id, destroyed))
    BY <1>4 DEF OthersChange, Arrives
  <2>2. QED
    BY <1>1, <1>3, <2>1
<1>5. CASE Request
  <2>1. \/ ExpungeEmails \/ UNCHANGED <<mailbox, changes, steady>>
        \/ \E id : MoveMessage(id)
    BY <1>5 DEF Request, ExpungeNothing, SetFlags, SetEmailFlags, SetGraphFlags, server
  <2>2. CASE ExpungeEmails
    <3> DEFINE dead == {id \in Listed : "deleted" \in kw[id]}
    <3>1. /\ mailbox' = Without(mailbox, dead)
          /\ steady' = [s \in Syncers |-> steady[s] \ dead]
          /\ changes' = IF dead = {} THEN changes ELSE changes + 1
      BY <2>2 DEF ExpungeEmails
    <3> HIDE DEF dead
    <3>2. dead = {} => mailbox' = mailbox
      BY <1>2, <3>1, WithoutNothing
    <3>3. QED
      BY <1>1, <3>1, <3>2
  <2>3. ASSUME NEW id, MoveMessage(id)
        PROVE  changes' = changes + 1 /\ \A s \in Syncers : steady'[s] \subseteq steady[s]
    BY <1>3, <2>3 DEF MoveMessage
  <2>4. QED
    BY <1>1, <2>1, <2>2, <2>3
<1>6. QED
  BY <1>4, <1>5

LEMMA ListingInit == Init => ListingInv
<1> SUFFICES ASSUME Init PROVE ListingInv
  OBVIOUS
<1>1. \A s \in Syncers : proc[s] = Idle
  BY DEF Init
<1>2. \A kept : Progress(Idle, kept)
  BY DEF Progress, Idle
<1>3. QED
  BY <1>1, <1>2, ListingIsProgress

\* One syncer goes on, or none does; nobody else's listing suffers.
LEMMA ProgressOfOne ==
  ASSUME TypeOK, NEW s \in Syncers, NEW p, proc' = [proc EXCEPT ![s] = p], Progress(p, steady[s])',
         \A x \in Syncers : Progress(proc[x], steady[x]),
         mailbox' = mailbox, changes' = changes, \A x \in Syncers : x # s => steady'[x] = steady[x]
  PROVE  \A x \in Syncers : Progress(proc[x], steady[x])'
<1>1. proc'[s] = p
  BY DEF TypeOK
<1>2. Progress(proc[s], steady[s])'
  BY <1>1 DEF Progress
<1>3. ASSUME NEW x \in Syncers, x # s
      PROVE  Progress(proc[x], steady[x])'
  <2>1. proc'[x] = proc[x] /\ steady'[x] = steady[x]
    BY <1>3 DEF TypeOK
  <2>2. QED
    BY <2>1 DEF Progress
<1>4. QED
  BY <1>2, <1>3

LEMMA ListingNext == TypeOK /\ ListingInv /\ [Next]_vars => ListingInv'
<1> SUFFICES ASSUME TypeOK, ListingInv, [Next]_vars, provider' = "jmap"
             PROVE  (\A s \in Syncers : Progress(proc[s], steady[s]))'
  BY DEF ListingInv, Progress
<1>1. provider = "jmap"
  BY DEF Next, vars, server, OthersChange, Sync, List, Reserve, QueryPage, GetHeaders, ListPage, Abandon,
         ApplySnapshot, RejectSnapshot, FetchBodies, Commands, BeginCommand, Request, Echo, Import,
         FetchNewest, ExpungeEmails, ExpungeNothing, MoveMessage, SetFlags, SetEmailFlags, SetGraphFlags
<1>2. (\A s \in Syncers : Progress(proc[s], steady[s])) /\ proc \in [Syncers -> Jobs]
  BY <1>1, ListingIsProgress DEF TypeOK
<1>3. ASSUME UNCHANGED <<mailbox, changes, proc, steady>>
      PROVE  (\A s \in Syncers : Progress(proc[s], steady[s]))'
  BY <1>2, <1>3 DEF Progress
<1>4. CASE OthersChange \/ Request
  <2>1. ASSUME NEW s \in Syncers
        PROVE  Progress(proc[s], steady[s])'
    <3>1. /\ (mailbox' = mailbox /\ changes' = changes) \/ changes' = changes + 1
          /\ steady'[s] \subseteq steady[s] /\ proc'[s] = proc[s]
      BY <1>4, ServerSteps
    <3>2. PICK p, kept, fewer : p = proc[s] /\ kept = steady[s] /\ fewer = steady'[s]
      OBVIOUS
    <3>3. Progress(p, kept) /\ p \in Jobs
      BY <1>2, <3>2
    <3>4. Progress(p, fewer)'
      BY <3>1, <3>2, <3>3, ProgressKept
    <3>5. QED
      BY <3>1, <3>2, <3>4 DEF Progress
  <2>2. QED
    BY <2>1
<1>5. ASSUME NEW s \in Syncers, Sync(s) \/ Abandon(s)
      PROVE  (\A x \in Syncers : Progress(proc[x], steady[x]))'
  <2>1. CASE Reserve(s)
    <3>1. PICK p : p = [Idle EXCEPT !.at = "page"]
      OBVIOUS
    <3>2. /\ proc' = [proc EXCEPT ![s] = p] /\ steady' = [steady EXCEPT ![s] = Listed]
          /\ UNCHANGED <<mailbox, changes>>
      BY <2>1, <3>1 DEF Reserve, server
    <3>3. Progress(p, steady[s])'
      BY <3>1 DEF Progress, Idle
    <3>4. \A x \in Syncers : x # s => steady'[x] = steady[x]
      BY <3>2 DEF TypeOK
    <3>5. QED
      BY <1>2, <3>2, <3>3, <3>4, ProgressOfOne
  <2>2. CASE QueryPage(s)
    <3>1. UNCHANGED <<mailbox, changes, steady>>
      BY <2>2 DEF QueryPage, server
    <3>2. PICK p \in Jobs : proc' = [proc EXCEPT ![s] = p] /\ Progress(p, steady[s])'
      BY <1>2, <2>2, QueryProgress
    <3>3. QED
      BY <1>2, <3>1, <3>2, ProgressOfOne
  <2>3. CASE GetHeaders(s)
    <3>1. UNCHANGED <<mailbox, changes, steady>>
      BY <2>3 DEF GetHeaders, server
    <3>2. PICK p \in Jobs : proc' = [proc EXCEPT ![s] = p] /\ Progress(p, steady[s])'
      BY <1>2, <2>3, GetProgress
    <3>3. QED
      BY <1>2, <3>1, <3>2, ProgressOfOne
  <2>4. CASE ListPage(s)
    BY <1>1, <2>4 DEF ListPage
  <2>5. CASE Abandon(s) \/ RejectSnapshot(s)
    <3>1. UNCHANGED <<mailbox, changes, steady>> /\ Failed(s)
      BY <2>5 DEF Abandon, RejectSnapshot, server
    <3>2. PICK p : p = Idle
      OBVIOUS
    <3>3. proc' = [proc EXCEPT ![s] = p] /\ Progress(p, steady[s])'
      BY <3>1, <3>2, FailedProgress DEF Progress
    <3>4. QED
      BY <1>2, <3>1, <3>3, ProgressOfOne
  <2>6. CASE ApplySnapshot(s)
    <3>1. PICK p : p = [Idle EXCEPT !.at = IF s = Daemon THEN "bodies" ELSE "idle"]
      OBVIOUS
    <3>2. UNCHANGED <<mailbox, changes, steady>> /\ proc' = [proc EXCEPT ![s] = p]
      BY <2>6, <3>1 DEF ApplySnapshot, After, server
    <3>3. /\ p.at \in {"bodies", "idle"} /\ p.ids = <<>> /\ p.heads = <<>> /\ Len(<<>>) = 0
      BY <3>1 DEF Idle
    <3>4. Progress(p, steady[s])'
      BY <3>3 DEF Progress
    <3>5. QED
      BY <1>2, <3>2, <3>4, ProgressOfOne
  <2>7. QED
    BY <1>5, <2>1, <2>2, <2>3, <2>4, <2>5, <2>6 DEF Sync, List
<1>6. CASE FetchBodies
  <2>1. UNCHANGED <<mailbox, changes, steady>> /\ Failed(Daemon) /\ Daemon \in Syncers
    BY <1>6 DEF FetchBodies, server, Syncers
  <2>2. PICK p : p = Idle
    OBVIOUS
  <2>3. proc' = [proc EXCEPT ![Daemon] = p] /\ Progress(p, steady[Daemon])'
    BY <2>1, <2>2, FailedProgress DEF Progress
  <2>4. QED
    BY <1>2, <2>1, <2>3, ProgressOfOne
<1>7. CASE BeginCommand \/ Echo \/ Import \/ FetchNewest \/ UNCHANGED vars
  BY <1>3, <1>7 DEF BeginCommand, Echo, Import, FetchNewest, vars, server
<1>8. QED
  BY <1>4, <1>5, <1>6, <1>7 DEF Next, Commands

----------------------------------------------------------------------------
(* Nothing is announced twice *)

LEMMA ReportInit == Init => ReportInv
  BY DEF Init, ReportInv, AnnouncedOnce, Idle

\* Steps that report nothing: what was reported keeps its row as long as it may be
\* reported again, and nothing that was reported arrives unseen.
LEMMA ReportKept ==
  ASSUME ReportInv, provider = "jmap", provider' = "jmap",
         \A id \in Ids : told'[id] > 0 => told'[id] = told[id] /\ (id \in undone => id \in undone'),
         \A id \in Ids : told'[id] > 0 /\ MayAnnounce(id)' => MayAnnounce(id),
         \A id \in Ids : id \in Named(rows) /\ told'[id] > 0 /\ MayAnnounce(id)' =>
             id \in Named(rows') \cup undone',
         \A s \in Syncers : holder' = s /\ proc'[s].at \in {"get", "apply"} =>
             \A id \in Listed' \ ToSet(proc'[s].ids) : told'[id] = 0,
         told \in [Ids -> Nat], told' \in [Ids -> Nat]
  PROVE  ReportInv'
<1>1. AnnouncedOnce /\ \A id \in Ids \ undone : told[id] > 0 /\ MayAnnounce(id) => id \in Named(rows)
  BY DEF ReportInv
<1>2. AnnouncedOnce'
  <2>1. \A id \in Ids : told'[id] > 1 => told'[id] > 0
    OBVIOUS
  <2>2. QED
    BY <1>1, <2>1 DEF AnnouncedOnce
<1>3. ASSUME NEW id \in Ids \ undone', told'[id] > 0, MayAnnounce(id)'
      PROVE  id \in Named(rows')
  <2>1. id \notin undone /\ told[id] > 0 /\ MayAnnounce(id)
    BY <1>3
  <2>2. QED
    BY <1>1, <1>3, <2>1
<1>4. Named(rows)' = Named(rows')
  BY DEF Named
<1>5. QED
  BY <1>2, <1>3, <1>4 DEF ReportInv

LEMMA NamedKept ==
  ASSUME TypeOK, RowInv, FetchBodies \/ Import \/ FetchNewest
  PROVE  Named(rows) \subseteq Named(rows')
<1> SUFFICES ASSUME NEW r \in rows, r.pid # NoId PROVE \E q \in rows' : q.pid = r.pid
  BY DEF Named
<1>1. r \in Rows /\ OfItsOwn(r)
  BY DEF TypeOK, RowInv
<1>2. CASE Import
  BY <1>2 DEF Import
<1>3. CASE FetchBodies
  <2> DEFINE missing == {x \in rows : x.body = NoId}
             filled(x) == [x EXCEPT !.body = CHOOSE id \in FetchBody(x.uid) : TRUE]
  <2>1. rows' = rows \/ rows' = (rows \ missing) \cup {filled(x) : x \in missing}
    BY <1>3 DEF FetchBodies
  <2>2. filled(r).pid = r.pid
    BY <1>1 DEF Rows
  <2> HIDE DEF filled
  <2>3. QED
    BY <2>1, <2>2
<1>4. CASE FetchNewest
  <2>1. rows' = Upserted(rows, Newest) /\ rows \in SUBSET Rows /\ Newest \in Seq(Heads)
    BY <1>4, NewestFacts DEF FetchNewest, TypeOK
  <2>2. CASE \A id \in IdsOf(Newest) : r.uid # Canon(id)
    BY <2>1, <2>2, UpsertedFacts
  <2>3. CASE ~\A id \in IdsOf(Newest) : r.uid # Canon(id)
    <3>1. PICK i \in 1..Len(Newest) : r.uid = Canon(Newest[i].id)
      BY <2>1, <2>3, HeadFacts
    <3>2. r.pid = Newest[i].id
      <4>1. Newest[i].id \in Ids
        BY <2>1, HeadFacts
      <4>2. QED
        BY <1>1, <3>1, <4>1, UidFacts DEF OfItsOwn
    <3>3. NewRow(rows, Newest, i) \in rows' /\ NewRow(rows, Newest, i).pid = Newest[i].id
      BY <2>1, UpsertedFacts, NewRowFacts
    <3>4. QED
      BY <3>2, <3>3
  <2>4. QED
    BY <2>2, <2>3
<1>5. QED
  BY <1>2, <1>3, <1>4

LEMMA ReportApplied ==
  ASSUME TypeOK, RowInv, ListingInv, ReportInv, provider = "jmap", NEW s \in Syncers, ApplySnapshot(s)
  PROVE  ReportInv'
<1> DEFINE heads == proc[s].heads
           adopted == Reconciled(rows, heads).adopted
           new == NewRows(Named(rows), adopted, heads)
<1>1. /\ holder = s /\ holder' = NoOne /\ proc[s].at = "apply" /\ Announce(new)
      /\ mailbox' = mailbox /\ undone' = undone /\ provider' = provider
  BY DEF ApplySnapshot, server
<1>2. IdsOf(heads) = ToSet(proc[s].ids)
  <2>1. /\ proc[s].ids \in Seq(Ids) /\ heads \in Seq(Heads) /\ Progress(proc[s], steady[s])
    BY JobFacts, ListingIsProgress DEF TypeOK
  <2>2. Len(heads) = Len(proc[s].ids) /\ \A i \in 1..Len(heads) : heads[i].id = proc[s].ids[i]
    BY <1>1, <2>1 DEF Progress
  <2>3. \A id : id \in IdsOf(heads) <=> \E i \in 1..Len(heads) : heads[i].id = id
    BY <2>1, HeadFacts
  <2>4. \A id : id \in ToSet(proc[s].ids) <=> \E i \in 1..Len(proc[s].ids) : proc[s].ids[i] = id
    BY <2>1, Members
  <2>5. QED
    BY <2>2, <2>3, <2>4
<1>3. new \subseteq IdsOf(heads) /\ new \cap Named(rows) = {}
  BY DEF NewRows
<1>4. IdsOf(heads) \subseteq Named(rows')
  BY RowsApplied
<1>5. /\ \A id \in Ids : told'[id] = told[id] + (IF id \in new THEN 1 ELSE 0)
      /\ \A id \in Ids : told[id] \in Nat
  BY <1>1 DEF Announce, TypeOK
<1>6. /\ AnnouncedOnce /\ \A id \in Ids \ undone : told[id] > 0 /\ MayAnnounce(id) => id \in Named(rows)
      /\ \A id \in Listed \ ToSet(proc[s].ids) : told[id] = 0
  BY <1>1 DEF ReportInv
<1>7. \A id \in ToSet(proc[s].ids) : MayAnnounce(id)
  BY <1>1 DEF MayAnnounce
<1> HIDE DEF heads, new
<1>8. AnnouncedOnce'
  <2>1. SUFFICES ASSUME NEW id \in Ids, told'[id] > 1, id \notin undone
                 PROVE  FALSE
    BY <1>1 DEF AnnouncedOnce
  <2>2. ~(told[id] > 1)
    BY <1>6, <2>1 DEF AnnouncedOnce
  <2>3. id \in new /\ told[id] > 0
    BY <1>5, <2>1, <2>2
  <2>4. QED
    BY <1>2, <1>3, <1>6, <1>7, <2>1, <2>3
<1>9. ASSUME NEW id \in Ids \ undone, told'[id] > 0, MayAnnounce(id)'
      PROVE  id \in Named(rows')
  <2>1. id \in Listed
    <3>1. ~\E x \in Syncers : holder' = x
      BY <1>1, SyncersAssumption DEF Syncers
    <3>2. QED
      BY <1>1, <1>9, <3>1 DEF MayAnnounce, Listed
  <2>2. CASE id \in IdsOf(heads)
    BY <1>4, <2>2 DEF heads
  <2>3. CASE id \notin IdsOf(heads)
    <3>1. told[id] = 0 /\ id \notin new
      BY <1>2, <1>3, <1>6, <2>1, <2>3
    <3>2. QED
      BY <1>5, <1>9, <3>1
  <2>4. QED
    BY <2>2, <2>3
<1>10. \A x \in Syncers : holder' # x
  BY <1>1, SyncersAssumption DEF Syncers
<1>11. Named(rows)' = Named(rows')
  BY DEF Named
<1>12. QED
  BY <1>1, <1>8, <1>9, <1>10, <1>11 DEF ReportInv

\* The syncers' own steps.
LEMMA ReportListed ==
  ASSUME TypeOK, ListingInv, ReportInv, provider = "jmap", NEW s \in Syncers, NEW p \in Jobs,
         proc' = [proc EXCEPT ![s] = p], UNCHANGED <<provider, mailbox, told, undone>>,
         Named(rows) \subseteq Named(rows'),
         ToSet(p.ids) \subseteq ToSet(proc[s].ids) \cup Listed,
         (holder' = holder) \/ (holder' = s /\ ToSet(p.ids) = {} /\ p.at = "page"),
         p.at \in {"get", "apply"} => \/ Listed \subseteq ToSet(p.ids)
                                      \/ proc[s].at \in {"get", "apply"} /\ p.ids = proc[s].ids
  PROVE  ReportInv'
<1>1. proc'[s] = p /\ \A x \in Syncers : x # s => proc'[x] = proc[x]
  BY DEF TypeOK
<1>2. Listed' = Listed /\ told \in [Ids -> Nat]
  BY DEF Listed, TypeOK
<1>3. \A id \in Ids : told'[id] > 0 => told'[id] = told[id] /\ (id \in undone => id \in undone')
  OBVIOUS
<1>4. ASSUME NEW id \in Ids, MayAnnounce(id)'
      PROVE  MayAnnounce(id)
  <2>1. CASE id \in Listed'
    BY <1>2, <2>1 DEF MayAnnounce
  <2>2. ASSUME NEW x \in Syncers, holder' = x, id \in ToSet(proc'[x].ids)
        PROVE  MayAnnounce(id)
    <3>1. CASE x = s
      BY <1>1, <2>2, <3>1 DEF MayAnnounce
    <3>2. CASE x # s
      BY <1>1, <2>2, <3>2 DEF MayAnnounce
    <3>3. QED
      BY <3>1, <3>2
  <2>3. QED
    BY <1>4, <2>1, <2>2 DEF MayAnnounce
<1>5. ASSUME NEW x \in Syncers, holder' = x, proc'[x].at \in {"get", "apply"},
             NEW id \in Listed' \ ToSet(proc'[x].ids)
      PROVE  told'[id] = 0
  <2>1. \A y \in Syncers : holder = y /\ proc[y].at \in {"get", "apply"} =>
            \A i \in Listed \ ToSet(proc[y].ids) : told[i] = 0
    BY DEF ReportInv
  <2>2. CASE x # s
    <3>1. holder = x /\ proc'[x] = proc[x]
      BY <1>1, <1>5, <2>2
    <3>2. QED
      BY <1>2, <1>5, <2>1, <3>1
  <2>3. CASE x = s
    <3>1. holder = s /\ p.at \in {"get", "apply"} /\ id \in Listed /\ id \notin ToSet(p.ids)
      BY <1>1, <1>2, <1>5, <2>3
    <3>2. proc[s].at \in {"get", "apply"} /\ p.ids = proc[s].ids
      BY <3>1
    <3>3. QED
      BY <2>1, <3>1, <3>2
  <2>4. QED
    BY <2>2, <2>3
<1>6. QED
  BY <1>2, <1>3, <1>4, <1>5, ReportKept

\* Steps in which no listing takes part.
LEMMA ReportElsewhere ==
  ASSUME TypeOK, ReportInv, provider = "jmap", UNCHANGED <<provider, holder, proc>>,
         \A id \in Ids : told'[id] > 0 => told'[id] = told[id] /\ (id \in undone => id \in undone'),
         \A id \in Listed' : id \in Listed \/ told'[id] = 0, Listed' \subseteq Ids,
         \A id \in Ids : id \in Named(rows) /\ MayAnnounce(id) => id \in Named(rows') \cup undone',
         told' \in [Ids -> Nat]
  PROVE  ReportInv'
<1>1. \A id \in Ids : told'[id] > 0 /\ MayAnnounce(id)' => MayAnnounce(id)
  BY DEF MayAnnounce
<1>2. told \in [Ids -> Nat] /\ Listed \subseteq Ids
  BY Members DEF TypeOK, Listed
<1>3. ASSUME NEW id \in Ids, id \in Named(rows), told'[id] > 0, MayAnnounce(id)'
      PROVE  id \in Named(rows') \cup undone'
  BY <1>1, <1>3
<1>4. ASSUME NEW s \in Syncers, holder' = s, proc'[s].at \in {"get", "apply"},
             NEW id \in Listed' \ ToSet(proc'[s].ids)
      PROVE  told'[id] = 0
  <2>1. CASE id \in Listed
    <3>1. told[id] = 0
      BY <1>4, <2>1 DEF ReportInv
    <3>2. told'[id] \in Nat /\ (told'[id] > 0 => told'[id] = told[id])
      OBVIOUS
    <3>3. QED
      BY <3>1, <3>2
  <2>2. QED
    BY <2>1
<1>5. QED
  BY <1>1, <1>2, <1>3, <1>4, ReportKept

LEMMA ReportNext == TypeOK /\ RowInv /\ ListingInv /\ ReportInv /\ [Next]_vars => ReportInv'
<1> SUFFICES ASSUME TypeOK, RowInv, ListingInv, ReportInv, [Next]_vars, provider' = "jmap"
             PROVE  ReportInv'
  BY DEF ReportInv
<1>1. provider = "jmap"
  BY DEF Next, vars, server, OthersChange, Sync, List, Reserve, QueryPage, GetHeaders, ListPage, Abandon,
         ApplySnapshot, RejectSnapshot, FetchBodies, Commands, BeginCommand, Request, Echo, Import,
         FetchNewest, ExpungeEmails, ExpungeNothing, MoveMessage, SetFlags, SetEmailFlags, SetGraphFlags
<1>2. /\ \A s \in Syncers : proc[s] \in Jobs /\ Progress(proc[s], steady[s])
      /\ told \in [Ids -> Nat] /\ Listed \subseteq Ids /\ mailbox \in Seq(Ids) /\ provider' = provider
  BY <1>1, ListingIsProgress, Members DEF TypeOK, Listed
<1>3. TypeOK'
  BY TypeAndRowNext
<1>4. told' \in [Ids -> Nat] /\ Listed' \subseteq Ids
  BY <1>3, Members DEF TypeOK, Listed
\* The steps that change neither the folder nor what was reported, and drop no row.
<1>5. ASSUME UNCHANGED <<holder, proc, mailbox, told, undone>>, Named(rows) \subseteq Named(rows')
      PROVE  ReportInv'
  <2>1. Listed' = Listed
    BY <1>5 DEF Listed
  <2>2. QED
    BY <1>1, <1>2, <1>4, <1>5, <2>1, ReportElsewhere
<1>6. CASE UNCHANGED vars \/ BeginCommand
  BY <1>5, <1>6 DEF vars, server, user, BeginCommand
<1>7. CASE Import \/ FetchNewest
  <2>1. UNCHANGED <<holder, proc, mailbox, told, undone>>
    BY <1>7 DEF Import, FetchNewest, server
  <2>2. QED
    BY <1>5, <1>7, <2>1, NamedKept
<1>8. CASE OthersChange \/ Request
  <2>1. UNCHANGED <<holder, proc, rows>> /\ \A s \in Syncers : TRUE
    BY <1>8 DEF OthersChange, Request
  <2>2. \/ told' = told /\ undone' = undone /\ Listed' \subseteq Listed
        \/ \E id \in Ids : /\ told' = [told EXCEPT ![id] = 0] /\ undone' = undone \ {id}
                           /\ Listed' \subseteq Listed \cup {id}
    <3>1. ASSUME NEW id, NEW destroyed \in BOOLEAN, Leaves(id, destroyed)
          PROVE  told' = told /\ undone' = undone /\ Listed' \subseteq Listed
      BY <1>2, <3>1, WithoutFacts DEF Leaves, Listed
    <3>2. ASSUME NEW id \in Ids, Arrives(id)
          PROVE  \E x \in Ids : /\ told' = [told EXCEPT ![x] = 0] /\ undone' = undone \ {x}
                                /\ Listed' \subseteq Listed \cup {x}
      BY <3>2, ArrivesFacts DEF Arrives
    <3>3. CASE OthersChange
      BY <3>1, <3>2, <3>3 DEF OthersChange
    <3>4. CASE Request
      <4>1. \/ ExpungeEmails \/ UNCHANGED <<mailbox, told, undone>>
            \/ \E id : Leaves(id, FALSE)
        BY <3>4 DEF Request, ExpungeNothing, SetFlags, SetEmailFlags, SetGraphFlags, MoveMessage, server
      <4>2. CASE ExpungeEmails
        BY <1>2, <4>2, WithoutFacts DEF ExpungeEmails, Listed
      <4>3. QED
        BY <3>1, <4>1, <4>2 DEF Listed
    <3>5. QED
      BY <1>8, <3>3, <3>4
  <2>3. Named(rows') = Named(rows)
    BY <2>1
  <2>4. CASE told' = told /\ undone' = undone /\ Listed' \subseteq Listed
    BY <1>1, <1>2, <1>4, <2>1, <2>3, <2>4, ReportElsewhere
  <2>5. ASSUME NEW id \in Ids, told' = [told EXCEPT ![id] = 0], undone' = undone \ {id},
               Listed' \subseteq Listed \cup {id}
        PROVE  ReportInv'
    <3>1. told'[id] = 0 /\ \A x \in Ids : x # id => told'[x] = told[x]
      BY <1>2, <2>5
    <3>2. \A x \in Ids : told'[x] > 0 => told'[x] = told[x] /\ (x \in undone => x \in undone')
      BY <2>5, <3>1
    <3>3. \A x \in Listed' : x \in Listed \/ told'[x] = 0
      BY <2>5, <3>1
    <3>4. QED
      BY <1>1, <1>2, <1>4, <2>1, <2>3, <3>2, <3>3, ReportElsewhere
  <2>6. QED
    BY <2>2, <2>4, <2>5
<1>9. CASE Echo
  <2>1. UNCHANGED <<holder, proc, mailbox, told>> /\ undone' = undone \cup {id \in Named(Dropped) : InFlight(id)}
    BY <1>9 DEF Echo, server
  <2>2. Listed' = Listed
    BY <2>1 DEF Listed
  <2>3. ASSUME NEW id \in Ids, id \in Named(rows), MayAnnounce(id)
        PROVE  id \in Named(rows') \cup undone'
    <3>1. PICK r \in rows : r.pid = id /\ id # NoId
      BY <2>3 DEF Named
    <3>2. CASE rows' = {IF x.uid = cmd.uid THEN Flagged(x) ELSE x : x \in rows}
      <4>1. r \in Rows
        BY DEF TypeOK
      <4>2. Flagged(r).pid = id
        BY <3>1, <4>1 DEF Flagged, Rows
      <4>3. QED
        BY <3>1, <3>2, <4>2 DEF Named
    <3>3. CASE rows' = rows \ Dropped
      <4>1. CASE r \in Dropped
        <5>1. id \in Named(Dropped)
          BY <3>1, <4>1 DEF Named
        <5>2. InFlight(id)
          BY <2>3 DEF MayAnnounce, InFlight
        <5>3. QED
          BY <2>1, <5>1, <5>2
      <4>2. CASE r \notin Dropped
        BY <3>1, <3>3, <4>2 DEF Named
      <4>3. QED
        BY <4>1, <4>2
    <3>4. QED
      BY <1>9, <3>2, <3>3 DEF Echo
  <2>4. QED
    BY <1>1, <1>2, <1>4, <2>1, <2>2, <2>3, ReportElsewhere
<1>10. ASSUME NEW s \in Syncers, Sync(s) \/ Abandon(s)
       PROVE  ReportInv'
  <2>1. CASE Reserve(s)
    <3>1. PICK p : p = [Idle EXCEPT !.at = "page"]
      OBVIOUS
    <3>2. p \in Jobs /\ p.at = "page" /\ ToSet(p.ids) = {}
      BY <3>1, IdleFacts DEF Idle, ToSet
    <3>3. /\ proc' = [proc EXCEPT ![s] = p] /\ holder' = s
          /\ UNCHANGED <<mailbox, told, undone, rows>>
      BY <2>1, <3>1 DEF Reserve, server
    <3>4. QED
      BY <1>1, <1>2, <3>2, <3>3, ReportListed
  <2>2. CASE QueryPage(s)
    <3>1. UNCHANGED <<holder, mailbox, told, undone, rows>>
      BY <2>2 DEF QueryPage, server
    <3>2. PICK p \in Jobs : /\ proc' = [proc EXCEPT ![s] = p] /\ p.at \in {"idle", "page", "get"}
                            /\ ToSet(p.ids) \subseteq ToSet(proc[s].ids) \cup Listed
                            /\ p.at = "get" => Listed \subseteq ToSet(p.ids)
      BY <1>2, <2>2, QueryProgress
    <3>3. QED
      BY <1>1, <1>2, <3>1, <3>2, ReportListed
  <2>3. CASE GetHeaders(s)
    <3>1. UNCHANGED <<holder, mailbox, told, undone, rows>> /\ proc[s].at = "get"
      BY <2>3 DEF GetHeaders, server
    <3>2. PICK p \in Jobs : /\ proc' = [proc EXCEPT ![s] = p] /\ p.at \in {"idle", "get", "apply"}
                            /\ ToSet(p.ids) \subseteq ToSet(proc[s].ids)
                            /\ p.at # "idle" => p.ids = proc[s].ids
      BY <1>2, <2>3, GetProgress
    <3>3. QED
      BY <1>1, <1>2, <3>1, <3>2, ReportListed
  <2>4. CASE ListPage(s)
    BY <1>1, <2>4 DEF ListPage
  <2>5. CASE Abandon(s) \/ RejectSnapshot(s)
    <3>1. UNCHANGED <<holder, mailbox, told, undone, rows>> /\ Failed(s)
      BY <2>5 DEF Abandon, RejectSnapshot, server
    <3>2. proc' = [proc EXCEPT ![s] = Idle] /\ Idle \in Jobs /\ Idle.at = "idle" /\ ToSet(Idle.ids) = {}
      BY <3>1, IdleFacts, FailedProgress
    <3>3. QED
      BY <1>1, <1>2, <3>1, <3>2, ReportListed
  <2>6. CASE ApplySnapshot(s)
    BY <1>1, <2>6, ReportApplied
  <2>7. QED
    BY <1>10, <2>1, <2>2, <2>3, <2>4, <2>5, <2>6 DEF Sync, List
<1>11. CASE FetchBodies
  <2>1. UNCHANGED <<holder, mailbox, told, undone>> /\ Failed(Daemon) /\ Daemon \in Syncers
    BY <1>11 DEF FetchBodies, server, Syncers
  <2>2. proc' = [proc EXCEPT ![Daemon] = Idle] /\ Idle \in Jobs /\ Idle.at = "idle" /\ ToSet(Idle.ids) = {}
    BY <2>1, IdleFacts, FailedProgress
  <2>3. Named(rows) \subseteq Named(rows')
    BY <1>11, NamedKept
  <2>4. QED
    BY <1>1, <1>2, <2>1, <2>2, <2>3, ReportListed
<1>12. QED
  BY <1>6, <1>7, <1>8, <1>9, <1>10, <1>11 DEF Next, Commands

LEMMA AllInvariants == Spec => [](TypeOK /\ RowInv /\ ListingInv /\ ReportInv)
<1>1. Init => TypeOK /\ RowInv /\ ListingInv /\ ReportInv
  BY TypeInit, ListingInit, ReportInit
<1>2. TypeOK /\ RowInv /\ ListingInv /\ ReportInv /\ [Next]_vars => (TypeOK /\ RowInv /\ ListingInv /\ ReportInv)'
  BY TypeAndRowNext, ListingNext, ReportNext
<1>3. QED
  BY <1>1, <1>2, PTL DEF Spec

\* A message of a JMAP folder is reported as new once while it stays there, whatever
\* listings overlap with whatever changes, unless a command removed its row under a
\* listing (the inserted rows that apply_snapshot returns).
THEOREM AnnouncedOnlyOnce == Spec => []AnnouncedOnce
<1>1. ReportInv => AnnouncedOnce
  BY DEF ReportInv, AnnouncedOnce
<1>2. QED
  BY <1>1, AllInvariants, PTL

\* An applied listing gives each of its messages one row, at its canonical uid, gives no
\* row the body of another listed message, and a JMAP listing loses nothing that was
\* there all the time (apply_snapshot, list_mailbox_headers).
THEOREM ListingsArePublished == Spec => ListingIsPublished
<1> DEFINE Published(s) ==
              /\ \A id \in IdsOf(proc[s].heads) :
                    {r.uid : r \in {x \in rows' : x.pid = id}} = {Canon(id)}
              /\ \A r \in rows' : r.body \in IdsOf(proc[s].heads) =>
                    r.body = r.of \/ \E x \in rows : x.of = r.of /\ x.body = r.body
              /\ provider = "jmap" => steady[s] \subseteq Named(rows')
<1>1. ASSUME TypeOK, RowInv, ListingInv, [Next]_vars, NEW s \in Syncers, Applies(s)
      PROVE  Published(s)
  <2>1. proc[s].at = "apply" /\ holder = s /\ holder' = NoOne /\ s # NoOne
    BY <1>1, SyncersAssumption DEF Applies, Syncers
  <2>2. \E x \in Syncers : ApplySnapshot(x)
    <3>1. holder' # holder /\ \A x \in Syncers : ~Reserve(x)
      BY <2>1, SyncersAssumption DEF Reserve, Syncers
    <3>2. QED
      BY <1>1, <3>1 DEF Next, vars, OthersChange, Sync, List, QueryPage, GetHeaders, ListPage, Abandon,
             RejectSnapshot, FetchBodies, Commands, BeginCommand, Request, Echo, Import, FetchNewest
  <2>3. ApplySnapshot(s)
    BY <2>1, <2>2 DEF ApplySnapshot
  <2>4. /\ \A id \in IdsOf(proc[s].heads) : {r.uid : r \in {x \in rows' : x.pid = id}} = {Canon(id)}
        /\ \A r \in rows' : r.body \in IdsOf(proc[s].heads) =>
              r.body = r.of \/ \E x \in rows : x.of = r.of /\ x.body = r.body
        /\ IdsOf(proc[s].heads) \subseteq Named(rows') /\ proc[s].heads \in Seq(Heads)
    BY <1>1, <2>3, RowsApplied
  <2>5. ASSUME provider = "jmap" PROVE steady[s] \subseteq Named(rows')
    <3>1. Progress(proc[s], steady[s]) /\ proc[s].ids \in Seq(Ids)
      BY <1>1, <2>5, ListingIsProgress, JobFacts DEF TypeOK
    <3>2. /\ steady[s] \subseteq ToSet(proc[s].ids) /\ Len(proc[s].heads) = Len(proc[s].ids)
          /\ \A i \in 1..Len(proc[s].heads) : proc[s].heads[i].id = proc[s].ids[i]
      BY <2>1, <3>1 DEF Progress
    <3>3. \A id : id \in ToSet(proc[s].ids) <=> \E i \in 1..Len(proc[s].ids) : proc[s].ids[i] = id
      BY <3>1, Members
    <3>4. ToSet(proc[s].ids) \subseteq IdsOf(proc[s].heads)
      BY <2>4, <3>2, <3>3, HeadFacts
    <3>5. QED
      BY <2>4, <3>2, <3>4
  <2>6. QED
    BY <2>4, <2>5
<1>2. ASSUME TypeOK, RowInv, ListingInv, [Next]_vars
      PROVE  [\A s \in Syncers : Applies(s) => Published(s)]_vars
  BY <1>1, <1>2
<1>3. Spec => [](TypeOK /\ RowInv /\ ListingInv)
  BY AllInvariants, PTL
<1> HIDE DEF Published
<1>4. Spec => [][\A s \in Syncers : Applies(s) => Published(s)]_vars
  BY <1>2, <1>3, PTL DEF Spec
<1>5. QED
  BY <1>4 DEF ListingIsPublished, Published

----------------------------------------------------------------------------
(* Graph's delta link *)

\* The last entry for an id: it is one, and none follows.
LEMMA LastOfFacts ==
  ASSUME NEW l \in Seq(Delta!Entries), NEW id
  PROVE  /\ Delta!LastOf(l, id) \in 0..Len(l) /\ Len(l) \in Nat /\ DOMAIN l = 1..Len(l)
         /\ Delta!LastOf(l, id) > 0 => l[Delta!LastOf(l, id)].id = id
         /\ \A i \in 1..Len(l) : l[i].id = id => i <= Delta!LastOf(l, id)
<1> DEFINE S == {0} \cup {i \in DOMAIN l : l[i].id = id}
<1>1. Len(l) \in Nat /\ DOMAIN l = 1..Len(l)
  OBVIOUS
<1>2. S \subseteq 0..Len(l) /\ 0 \in S
  BY <1>1
<1>3. Delta!LastOf(l, id) = CHOOSE x \in S : \A y \in S : x >= y
  BY DEF Delta!LastOf, Delta!Max
<1> HIDE DEF S
<1>4. IsFiniteSet(S) /\ S \subseteq Nat
  <2>1. IsFiniteSet(0..Len(l))
    BY <1>1, FS_Interval
  <2>2. IsFiniteSet(S)
    BY <1>2, <2>1, FS_Subset
  <2>3. QED
    BY <1>1, <1>2, <2>2
<1>5. PICK m \in S : \A n \in S : n <= m
  BY <1>2, <1>4, MaxExists
<1>6. \A y \in S : m >= y
  BY <1>4, <1>5
<1>7. Delta!LastOf(l, id) \in S /\ \A y \in S : Delta!LastOf(l, id) >= y
  BY <1>3, <1>6
<1>8. \A y \in S : y <= Delta!LastOf(l, id)
  BY <1>4, <1>7
<1>9. Delta!LastOf(l, id) \in 0..Len(l)
  BY <1>2, <1>7
<1>10. QED
  BY <1>1, <1>7, <1>8, <1>9 DEF S

LEMMA LastOfIs ==
  ASSUME NEW l \in Seq(Delta!Entries), NEW id, NEW n \in 0..Len(l),
         n > 0 => l[n].id = id, \A i \in 1..Len(l) : l[i].id = id => i <= n
  PROVE  Delta!LastOf(l, id) = n
<1> DEFINE m == Delta!LastOf(l, id)
<1>1. /\ m \in 0..Len(l) /\ Len(l) \in Nat
      /\ m > 0 => l[m].id = id
      /\ \A i \in 1..Len(l) : l[i].id = id => i <= m
  BY LastOfFacts
<1> HIDE DEF m
<1>2. n <= m /\ m <= n
  BY <1>1
<1>3. m = n
  BY <1>1, <1>2
<1>4. QED
  BY <1>3 DEF m

\* What a change appends is the last entry of its message, and of no other.
LEMMA LastAppended ==
  ASSUME NEW l \in Seq(Delta!Entries), NEW e \in Delta!Entries, NEW id
  PROVE  /\ Append(l, e) \in Seq(Delta!Entries) /\ Len(Append(l, e)) = Len(l) + 1 /\ Len(l) \in Nat
         /\ \A i \in 1..Len(l) : Append(l, e)[i] = l[i]
         /\ Delta!LastOf(Append(l, e), id) = IF e.id = id THEN Len(l) + 1 ELSE Delta!LastOf(l, id)
<1> DEFINE t == Append(l, e)
           n == IF e.id = id THEN Len(l) + 1 ELSE Delta!LastOf(l, id)
<1>1. /\ t \in Seq(Delta!Entries) /\ Len(t) = Len(l) + 1 /\ Len(l) \in Nat
      /\ t[Len(l) + 1] = e /\ \A i \in 1..Len(l) : t[i] = l[i]
  OBVIOUS
<1>2. /\ Delta!LastOf(l, id) \in 0..Len(l)
      /\ Delta!LastOf(l, id) > 0 => l[Delta!LastOf(l, id)].id = id
      /\ \A i \in 1..Len(l) : l[i].id = id => i <= Delta!LastOf(l, id)
  BY LastOfFacts
<1> HIDE DEF t
<1>3. n \in 0..Len(t) /\ (n > 0 => t[n].id = id)
  BY <1>1, <1>2
<1>4. \A i \in 1..Len(t) : i \in 1..Len(l) \/ i = Len(l) + 1
  BY <1>1
<1>5. \A i \in 1..Len(t) : t[i].id = id => i <= n
  BY <1>1, <1>2, <1>4
<1> HIDE DEF n
<1>6. Delta!LastOf(t, id) = n
  BY <1>1, <1>3, <1>5, LastOfIs
<1>7. QED
  BY <1>1, <1>6 DEF t, n

\* The changes since a link hold the last entry of what has changed since.
LEMMA LastSince ==
  ASSUME NEW l \in Seq(Delta!Entries), NEW from \in 0..Len(l), NEW id
  PROVE  /\ SubSeq(l, from + 1, Len(l)) \in Seq(Delta!Entries)
         /\ Len(SubSeq(l, from + 1, Len(l))) = Len(l) - from /\ Len(l) \in Nat
         /\ \A i \in 1..Len(l) - from : SubSeq(l, from + 1, Len(l))[i] = l[from + i]
         /\ Delta!LastOf(SubSeq(l, from + 1, Len(l)), id) =
               IF Delta!LastOf(l, id) > from THEN Delta!LastOf(l, id) - from ELSE 0
<1> DEFINE t == SubSeq(l, from + 1, Len(l))
           m == Delta!LastOf(l, id)
           n == IF m > from THEN m - from ELSE 0
<1>1. /\ m \in 0..Len(l) /\ Len(l) \in Nat /\ from \in Nat /\ from <= Len(l)
      /\ m > 0 => l[m].id = id
      /\ \A i \in 1..Len(l) : l[i].id = id => i <= m
  BY LastOfFacts
<1>2. \A i \in (from + 1)..Len(l) : l[i] \in Delta!Entries
  BY <1>1
<1>3. /\ t \in Seq(Delta!Entries)
      /\ Len(t) = IF from + 1 <= Len(l) THEN Len(l) - (from + 1) + 1 ELSE 0
      /\ \A i \in 1..Len(l) - (from + 1) + 1 : t[i] = l[(from + 1) + i - 1]
  BY <1>1, <1>2, SubSeqProperties
<1> HIDE DEF t, m
<1>4. Len(t) = Len(l) - from
  BY <1>1, <1>3
<1>5. \A i \in 1..Len(l) - from : t[i] = l[from + i] /\ from + i \in 1..Len(l)
  <2>1. \A i \in 1..Len(l) - from :
            i \in 1..Len(l) - (from + 1) + 1 /\ (from + 1) + i - 1 = from + i /\ from + i \in 1..Len(l)
    BY <1>1
  <2>2. QED
    BY <1>3, <2>1
<1>6. n \in 0..Len(t)
  BY <1>1, <1>4
<1>7. n > 0 => t[n].id = id
  <2>1. ASSUME n > 0 PROVE n \in 1..Len(l) - from /\ from + n = m /\ m > 0
    BY <1>1, <2>1
  <2>2. QED
    BY <1>1, <1>5, <2>1
<1>8. ASSUME NEW i \in 1..Len(t), t[i].id = id PROVE i <= n
  <2>1. from + i <= m
    BY <1>1, <1>4, <1>5, <1>8
  <2>2. QED
    BY <1>1, <1>4, <2>1
<1> HIDE DEF n
<1>9. Delta!LastOf(t, id) = n
  BY <1>3, <1>6, <1>7, <1>8, LastOfIs
<1>10. QED
  BY <1>1, <1>3, <1>4, <1>5, <1>9 DEF t, m, n

LEMMA LiveFacts ==
  ASSUME NEW l, NEW id
  PROVE  id \in Delta!LiveIn(l) <=> /\ id \in Ids /\ Delta!LastOf(l, id) > 0
                                    /\ ~l[Delta!LastOf(l, id)].removed
  BY DEF Delta!LiveIn

\* What changed since a link: it is live if it is in the folder, and removed if not.
LEMMA PartsSince ==
  ASSUME NEW l \in Seq(Delta!Entries), NEW from \in 0..Len(l)
  PROVE  LET t == SubSeq(l, from + 1, Len(l)) IN
         /\ \A id : id \in Delta!PartitionGraphDelta(t).live <=>
               id \in Delta!LiveIn(l) /\ Delta!LastOf(l, id) > from
         /\ \A id : id \in Delta!PartitionGraphDelta(t).removed <=>
               id \in Ids /\ id \notin Delta!LiveIn(l) /\ Delta!LastOf(l, id) > from
<1> DEFINE t == SubSeq(l, from + 1, Len(l))
<1>1. /\ t \in Seq(Delta!Entries) /\ Len(t) = Len(l) - from /\ Len(l) \in Nat
      /\ \A i \in 1..Len(l) - from : t[i] = l[from + i]
      /\ \A id : Delta!LastOf(t, id) = IF Delta!LastOf(l, id) > from THEN Delta!LastOf(l, id) - from ELSE 0
  BY LastSince
<1> HIDE DEF t
<1>2. \A id : Delta!LastOf(l, id) \in 0..Len(l)
  BY LastOfFacts
<1>3. \A id : id \in Delta!LiveIn(t) <=> id \in Delta!LiveIn(l) /\ Delta!LastOf(l, id) > from
  <2>1. SUFFICES ASSUME NEW id
                 PROVE  id \in Delta!LiveIn(t) <=> id \in Delta!LiveIn(l) /\ Delta!LastOf(l, id) > from
    OBVIOUS
  <2>2. CASE Delta!LastOf(l, id) > from
    <3>1. /\ Delta!LastOf(t, id) = Delta!LastOf(l, id) - from
          /\ Delta!LastOf(t, id) > 0 /\ Delta!LastOf(l, id) > 0
          /\ Delta!LastOf(t, id) \in 1..Len(l) - from
          /\ from + Delta!LastOf(t, id) = Delta!LastOf(l, id)
      <4>1. Delta!LastOf(t, id) = Delta!LastOf(l, id) - from /\ Delta!LastOf(l, id) \in 0..Len(l)
        BY <1>1, <1>2, <2>2
      <4> HIDE DEF t
      <4>2. QED
        BY <1>1, <2>2, <4>1
    <3>2. t[Delta!LastOf(t, id)] = l[Delta!LastOf(l, id)]
      BY <1>1, <3>1
    <3>3. QED
      BY <2>2, <3>1, <3>2, LiveFacts
  <2>3. CASE ~(Delta!LastOf(l, id) > from)
    <3>1. ~(Delta!LastOf(t, id) > 0)
      BY <1>1, <2>3
    <3>2. QED
      BY <2>3, <3>1, LiveFacts
  <2>4. QED
    BY <2>2, <2>3
<1>4. \A id : id \in {t[i].id : i \in DOMAIN t} <=> id \in Ids /\ Delta!LastOf(l, id) > from
  <2>1. SUFFICES ASSUME NEW id
                 PROVE  id \in {t[i].id : i \in DOMAIN t} <=> id \in Ids /\ Delta!LastOf(l, id) > from
    OBVIOUS
  <2>2. /\ Delta!LastOf(t, id) \in 0..Len(t) /\ Len(t) \in Nat /\ DOMAIN t = 1..Len(t)
        /\ Delta!LastOf(t, id) > 0 => t[Delta!LastOf(t, id)].id = id
        /\ \A i \in 1..Len(t) : t[i].id = id => i <= Delta!LastOf(t, id)
    BY <1>1, LastOfFacts
  <2>3. Delta!LastOf(t, id) > 0 <=> Delta!LastOf(l, id) > from
    BY <1>1, <1>2
  <2>4. \A i \in 1..Len(t) : t[i].id \in Ids
    <3>1. \A i \in 1..Len(t) : t[i] \in Delta!Entries
      BY <1>1
    <3>2. QED
      BY <3>1 DEF Delta!Entries
  <2>5. ASSUME NEW i \in 1..Len(t), t[i].id = id PROVE Delta!LastOf(t, id) > 0
    BY <2>2, <2>5
  <2>6. ASSUME Delta!LastOf(t, id) > 0 PROVE Delta!LastOf(t, id) \in 1..Len(t)
    BY <2>2, <2>6
  <2>7. QED
    BY <2>2, <2>3, <2>4, <2>5, <2>6
<1>5. QED
  BY <1>3, <1>4 DEF t, Delta!PartitionGraphDelta

\* A listing without a link has each message of a set, live.
LEMMA ListingFacts ==
  ASSUME NEW S \in SUBSET Ids
  PROVE  LET t == Delta!SetToSeq({[id |-> id, removed |-> FALSE] : id \in S}) IN
         /\ t \in Seq(Delta!Entries)
         /\ Delta!PartitionGraphDelta(t).live = S /\ Delta!PartitionGraphDelta(t).removed = {}
<1> DEFINE E == {[id |-> id, removed |-> FALSE] : id \in S}
           t == Delta!SetToSeq(E)
           n == Cardinality(E)
<1>1. IsFiniteSet(E)
  <2> DEFINE f == [id \in S |-> [id |-> id, removed |-> FALSE]]
  <2>1. IsFiniteSet(S)
    BY IdsAssumption, FS_Subset
  <2>2. f \in Surjection(S, E)
    BY DEF Surjection
  <2>3. QED
    BY <2>1, <2>2, FS_Surjection
<1>2. \A e \in E : e \in Delta!Entries /\ ~e.removed /\ e.id \in S
  <2>1. SUFFICES ASSUME NEW id \in S, NEW e, e = [id |-> id, removed |-> FALSE]
                 PROVE  e \in Delta!Entries /\ ~e.removed /\ e.id \in S
    OBVIOUS
  <2>2. id \in Ids /\ FALSE \in BOOLEAN
    OBVIOUS
  <2>3. QED
    BY <2>1, <2>2 DEF Delta!Entries
<1>3. \A id \in S : \E e \in E : e.id = id
  <2>1. SUFFICES ASSUME NEW id \in S PROVE \E e \in E : e.id = id
    OBVIOUS
  <2>2. [id |-> id, removed |-> FALSE] \in E
    OBVIOUS
  <2>3. [id |-> id, removed |-> FALSE].id = id
    OBVIOUS
  <2> HIDE DEF E
  <2>4. QED
    BY <2>2, <2>3
<1>4. t = CHOOSE f \in [1..n -> E] : Delta!IsInjective(f)
  BY DEF Delta!SetToSeq, Delta!Cardinality, Cardinality
<1> HIDE DEF E
<1>5. n \in Nat /\ IsFiniteSet(1..n) /\ Cardinality(1..n) = n /\ ExistsBijection(1..n, E)
  <2>1. n \in Nat /\ ExistsBijection(1..n, E)
    BY <1>1, FS_CardinalityType
  <2>2. IsFiniteSet(1..n)
    BY <2>1, FS_Interval
  <2>3. Cardinality(1..n) = n
    BY <1>1, <2>1, <2>2, FS_Bijection
  <2>4. QED
    BY <2>1, <2>2, <2>3
<1> HIDE DEF n, t
<1>6. t \in [1..n -> E] /\ Delta!IsInjective(t)
  <2>1. PICK f : f \in Bijection(1..n, E)
    BY <1>5 DEF ExistsBijection
  <2>2. f \in [1..n -> E] /\ Delta!IsInjective(f)
    BY <2>1 DEF Bijection, Injection, IsInjective, Delta!IsInjective
  <2>3. QED
    BY <1>4, <2>2
<1>7. t \in Injection(1..n, E)
  BY <1>6 DEF Injection, IsInjective, Delta!IsInjective
<1>8. \A e \in E : \E i \in 1..n : t[i] = e
  <2>1. t \in Surjection(1..n, E)
    BY <1>1, <1>5, <1>7, FS_Injection DEF n
  <2>2. QED
    BY <2>1 DEF Surjection
<1>9. t \in Seq(Delta!Entries) /\ Len(t) = n /\ DOMAIN t = 1..n
  BY <1>2, <1>5, <1>6
<1>10. \A id : {t[i].id : i \in DOMAIN t} = S
  <2>1. \A i \in 1..n : t[i].id \in S
    BY <1>2, <1>6
  <2>2. \A id \in S : \E i \in 1..n : t[i].id = id
    BY <1>3, <1>8
  <2>3. QED
    BY <1>9, <2>1, <2>2
<1>11. Delta!LiveIn(t) = S
  <2>1. SUFFICES ASSUME NEW id PROVE id \in Delta!LiveIn(t) <=> id \in S
    OBVIOUS
  <2>2. /\ Delta!LastOf(t, id) \in 0..n /\ (Delta!LastOf(t, id) > 0 => t[Delta!LastOf(t, id)].id = id)
        /\ \A i \in 1..n : t[i].id = id => i <= Delta!LastOf(t, id)
    BY <1>9, LastOfFacts
  <2>3. Delta!LastOf(t, id) > 0 => Delta!LastOf(t, id) \in 1..n
    BY <1>5, <2>2
  <2>4. \A i \in 1..n : ~t[i].removed /\ t[i].id \in S
    BY <1>2, <1>6
  <2>5. ASSUME id \in S PROVE Delta!LastOf(t, id) > 0
    <3>1. PICK i \in 1..n : t[i].id = id
      BY <1>9, <1>10, <2>5
    <3>2. QED
      BY <1>5, <2>2, <3>1
  <2>6. QED
    BY <2>2, <2>3, <2>4, <2>5, LiveFacts
<1>12. QED
  BY <1>9, <1>10, <1>11 DEF t, E, Delta!PartitionGraphDelta

Programs == Delta!Programs
Places == {"idle", "list", "apply", "wait", "ask", "store", "stream", "upsert", "persist"}

LEMMA DeltaIdle == \A at \in Places : [Delta!Idle EXCEPT !.at = at] \in Delta!Jobs
                                      /\ [Delta!Idle EXCEPT !.at = at].link = 0
                                      /\ [Delta!Idle EXCEPT !.at = at].at = at
  BY DEF Delta!Idle, Delta!Jobs, Places

\* A program that goes somewhere leaves the others where they are.
LEMMA GoesFacts ==
  ASSUME Delta!TypeOK, NEW p \in Programs, NEW at \in Places, Delta!Goes(p, at)
  PROVE  /\ link_proc' \in [Programs -> Delta!Jobs]
         /\ link_proc'[p].at = at
         /\ \A q \in Programs : q # p => link_proc'[q] = link_proc[q]
         /\ \A q \in Programs : link_proc'[q].link <= Len(log)
<1>1. /\ link_proc \in [Programs -> Delta!Jobs] /\ Len(log) \in Nat
      /\ \A q \in Programs : link_proc[q].link <= Len(log)
  BY DEF Delta!TypeOK, Programs
<1>2. link_proc' = [link_proc EXCEPT ![p] = [Delta!Idle EXCEPT !.at = at]]
  BY DEF Delta!Goes
<1> DEFINE j == [Delta!Idle EXCEPT !.at = at]
<1>3. j \in Delta!Jobs /\ j.link = 0 /\ j.at = at
  BY DeltaIdle
<1> HIDE DEF j
<1>4. /\ link_proc'[p] = j /\ link_proc' \in [Programs -> Delta!Jobs]
      /\ \A q \in Programs : q # p => link_proc'[q] = link_proc[q]
  BY <1>1, <1>2, <1>3 DEF j
<1>5. QED
  BY <1>1, <1>3, <1>4

\* A program that waits for a change waits on or starts a sync, its own or the TUI's.
LEMMA WakesFacts ==
  ASSUME Delta!TypeOK, NEW p \in Programs, NEW changed, Delta!Wakes(p, changed)
  PROVE  /\ link_proc' \in [Programs -> Delta!Jobs]
         /\ \A q \in Programs : link_proc'[q].link <= Len(log)
<1>1. CASE Delta!Goes(p, "list") \/ Delta!Goes(p, "wait")
  BY <1>1, GoesFacts DEF Places
<1>2. CASE link_proc' = [link_proc EXCEPT !["tui"] = [Delta!Idle EXCEPT !.at = "wait"], !["manual"].at = "list"]
  <2>1. /\ link_proc \in [Programs -> Delta!Jobs] /\ Len(log) \in Nat
        /\ \A q \in Programs : link_proc[q].link <= Len(log)
        /\ {"tui", "manual"} \subseteq Programs
    BY DEF Delta!TypeOK, Programs, Delta!Programs
  <2> DEFINE j == [Delta!Idle EXCEPT !.at = "wait"]
             k == [link_proc["manual"] EXCEPT !.at = "list"]
  <2>2. j \in Delta!Jobs /\ j.link = 0
    BY DeltaIdle DEF Places
  <2>3. k \in Delta!Jobs /\ k.link = link_proc["manual"].link
    BY <2>1 DEF Delta!Jobs
  <2>4. link_proc' = [q \in Programs |-> IF q = "tui" THEN j ELSE IF q = "manual" THEN k ELSE link_proc[q]]
    <3>1. link_proc' = [[link_proc EXCEPT !["tui"] = j] EXCEPT !["manual"].at = "list"]
      BY <1>2
    <3> HIDE DEF j
    <3>2. QED
      BY <2>1, <3>1
  <2> HIDE DEF j, k
  <2>5. QED
    BY <2>1, <2>2, <2>3, <2>4
<1>3. QED
  BY <1>1, <1>2 DEF Delta!Wakes

\* What a fetch copies, and what it deletes.
LEMMA PartsOf ==
  ASSUME Delta!TypeOK, NEW from \in 0..Len(log)
  PROVE  LET parts == Delta!PartitionGraphDelta(Delta!Since(from)) IN
         /\ parts.live \subseteq Ids /\ parts.removed \subseteq Ids
         /\ from = 0 => parts.live = Delta!Mailbox /\ parts.removed = {}
         /\ from # 0 =>
              \A id : /\ id \in parts.live <=> id \in Delta!Mailbox /\ Delta!LastOf(log, id) > from
                      /\ id \in parts.removed <=>
                            id \in Ids /\ id \notin Delta!Mailbox /\ Delta!LastOf(log, id) > from
<1>1. log \in Seq(Delta!Entries)
  BY DEF Delta!TypeOK
<1>2. Delta!Mailbox \subseteq Ids
  BY DEF Delta!Mailbox, Delta!LiveIn
<1>3. CASE from = 0
  <2>1. Delta!Since(from) = Delta!SetToSeq({[id |-> id, removed |-> FALSE] : id \in Delta!Mailbox})
    BY <1>3 DEF Delta!Since
  <2> DEFINE t == Delta!SetToSeq({[id |-> id, removed |-> FALSE] : id \in Delta!Mailbox})
  <2>2. /\ Delta!PartitionGraphDelta(t).live = Delta!Mailbox
        /\ Delta!PartitionGraphDelta(t).removed = {}
    BY <1>2, ListingFacts
  <2> HIDE DEF t
  <2>3. QED
    BY <1>2, <1>3, <2>1, <2>2 DEF t
<1>4. CASE from # 0
  <2>1. Delta!Since(from) = SubSeq(log, from + 1, Len(log))
    BY <1>4 DEF Delta!Since
  <2> DEFINE parts == Delta!PartitionGraphDelta(SubSeq(log, from + 1, Len(log)))
  <2>2. /\ \A id : id \in parts.live <=> id \in Delta!Mailbox /\ Delta!LastOf(log, id) > from
        /\ \A id : id \in parts.removed <=>
               id \in Ids /\ id \notin Delta!Mailbox /\ Delta!LastOf(log, id) > from
    BY <1>1, PartsSince DEF Delta!Mailbox
  <2> HIDE DEF parts
  <2>3. parts.live \subseteq Ids /\ parts.removed \subseteq Ids
    BY <1>2, <2>2
  <2>4. QED
    BY <1>4, <2>1, <2>2, <2>3 DEF parts
<1>5. QED
  BY <1>3, <1>4

LEMMA DeltaInit == Delta!Init => Delta!TypeOK /\ Delta!FetchInv
<1> SUFFICES ASSUME Delta!Init PROVE Delta!TypeOK /\ Delta!FetchInv
  OBVIOUS
<1>1. log \in Seq(Delta!Entries)
  BY ListingFacts, StartsAssumption DEF Delta!Init
<1>2. /\ link_proc \in [Programs -> Delta!Jobs]
      /\ \A p \in Programs : link_proc[p].link = 0
      /\ cast = {"fetch"} => \A p \in Programs : link_proc[p].at = "idle"
  <2> DEFINE place(p) == IF p \in cast /\ p \in {"daemon", "watch"} THEN "list"
                         ELSE IF p \in cast /\ p = "tui" THEN "wait" ELSE "idle"
  <2>1. link_proc = [p \in Programs |-> [Delta!Idle EXCEPT !.at = place(p)]]
    BY DEF Delta!Init, Programs
  <2>2. \A p : place(p) \in Places /\ (cast = {"fetch"} => place(p) = "idle")
    BY DEF Places
  <2> HIDE DEF place
  <2>3. QED
    BY <2>1, <2>2, DeltaIdle
<1>3. Delta!TypeOK
  <2>1. Len(log) \in Nat /\ MaxLinkEvents \in Nat
    BY <1>1, LinkBoundAssumption
  <2>2. QED
    BY <1>1, <1>2, <2>1 DEF Delta!Init, Delta!TypeOK, Programs
<1>4. Delta!FetchInv
  <2>1. link = 0
    BY DEF Delta!Init
  <2>2. Delta!Agrees(link, index, index)
    <3>1. \A n : n \notin 1..0
      OBVIOUS
    <3>2. QED
      BY <2>1, <3>1 DEF Delta!Agrees
  <2>3. "fetch" \in Programs
    BY DEF Programs, Delta!Programs
  <2>4. QED
    BY <1>2, <2>2, <2>3 DEF Delta!FetchInv, Programs
<1>5. QED
  BY <1>3, <1>4

\* Only a change lengthens the history; and it is the last entry of its message.
LEMMA HistoryNext ==
  ASSUME Delta!TypeOK, [Delta!Next]_(Delta!vars)
  PROVE  /\ log' \in Seq(Delta!Entries) /\ Len(log) \in Nat /\ Len(log') \in Nat /\ Len(log) <= Len(log')
         /\ cast' = cast /\ transport' = transport /\ orphans \subseteq orphans'
         /\ \A id \in Ids, to \in 0..Len(log) : Delta!LastOf(log', id) \in 1..to =>
               /\ Delta!LastOf(log, id) \in 1..to
               /\ id \in Delta!Mailbox' <=> id \in Delta!Mailbox
<1>1. log \in Seq(Delta!Entries) /\ Len(log) \in Nat
  BY DEF Delta!TypeOK
<1>2. cast' = cast /\ transport' = transport /\ orphans \subseteq orphans'
  BY DEF Delta!Next, Delta!vars, Delta!server, Delta!Change, Delta!Expire, Delta!Sync, Delta!List, Delta!Apply,
     Delta!SyncFails, Delta!Wait, Delta!GetDeltaLink, Delta!DeltaMessages, Delta!StoreDeltaLink,
     Delta!OpenEventSource, Delta!NextEvent, Delta!WaitFails, Delta!ManualSync, Delta!PollTimer, Delta!Fetch,
     Delta!StartFetch, Delta!FetchDelta, Delta!UpsertMessage, Delta!DeleteRemoved, Delta!PersistDeltaLink,
     Delta!FetchFails
<1>3. Delta!Change \/ log' = log
  BY DEF Delta!Next, Delta!vars, Delta!server, Delta!Expire, Delta!Sync, Delta!List, Delta!Apply,
     Delta!SyncFails, Delta!Wait, Delta!GetDeltaLink, Delta!DeltaMessages, Delta!StoreDeltaLink,
     Delta!OpenEventSource, Delta!NextEvent, Delta!WaitFails, Delta!ManualSync, Delta!PollTimer, Delta!Fetch,
     Delta!StartFetch, Delta!FetchDelta, Delta!UpsertMessage, Delta!DeleteRemoved, Delta!PersistDeltaLink,
     Delta!FetchFails
<1>4. CASE log' = log
  BY <1>1, <1>2, <1>4 DEF Delta!Mailbox
<1>5. CASE Delta!Change
  <2>1. PICK id \in Ids, removed \in BOOLEAN : log' = Append(log, [id |-> id, removed |-> removed])
    BY <1>5 DEF Delta!Change
  <2> DEFINE e == [id |-> id, removed |-> removed]
  <2>2. e \in Delta!Entries
    BY DEF Delta!Entries
  <2>3. log' = Append(log, e)
    BY <2>1
  <2> HIDE DEF e
  <2>4. /\ log' \in Seq(Delta!Entries) /\ Len(log') = Len(log) + 1
        /\ \A i \in 1..Len(log) : log'[i] = log[i]
        /\ \A x : Delta!LastOf(log', x) = IF e.id = x THEN Len(log) + 1 ELSE Delta!LastOf(log, x)
    BY <1>1, <2>2, <2>3, LastAppended
  <2>5. ASSUME NEW x \in Ids, NEW to \in 0..Len(log), Delta!LastOf(log', x) \in 1..to
        PROVE  /\ Delta!LastOf(log, x) \in 1..to
               /\ x \in Delta!Mailbox' <=> x \in Delta!Mailbox
    <3>1. Delta!LastOf(log', x) = Delta!LastOf(log, x) /\ Delta!LastOf(log, x) \in 1..Len(log)
      BY <1>1, <2>4, <2>5
    <3>2. log'[Delta!LastOf(log', x)] = log[Delta!LastOf(log, x)]
      BY <2>4, <3>1
    <3>3. x \in Delta!Mailbox' <=> /\ x \in Ids /\ Delta!LastOf(log', x) > 0
                                  /\ ~log'[Delta!LastOf(log', x)].removed
      BY DEF Delta!Mailbox, Delta!LiveIn
    <3>4. x \in Delta!Mailbox <=> /\ x \in Ids /\ Delta!LastOf(log, x) > 0
                                 /\ ~log[Delta!LastOf(log, x)].removed
      BY DEF Delta!Mailbox, Delta!LiveIn
    <3>5. QED
      BY <2>5, <3>1, <3>2, <3>3, <3>4
  <2>6. QED
    BY <1>1, <1>2, <2>4, <2>5
<1>6. QED
  BY <1>3, <1>4, <1>5

ProcsOK == /\ link_proc' \in [Programs -> Delta!Jobs]
           /\ \A p \in Programs : link_proc'[p].link <= Len(log)

\* A program that takes up a job within the history.
LEMMA JobGiven ==
  ASSUME Delta!TypeOK, NEW p \in Programs, NEW j \in Delta!Jobs, j.link <= Len(log),
         link_proc' = [link_proc EXCEPT ![p] = j]
  PROVE  ProcsOK
  BY DEF Delta!TypeOK, ProcsOK, Programs

LEMMA JobMoved ==
  ASSUME NEW j \in Delta!Jobs, NEW at \in Places, NEW l \in Nat
  PROVE  [j EXCEPT !.at = at, !.link = l] \in Delta!Jobs /\ [j EXCEPT !.at = at, !.link = l].link = l
  BY DEF Delta!Jobs, Places

LEMMA DeltaTypeNext ==
  ASSUME Delta!TypeOK, [Delta!Next]_(Delta!vars)
  PROVE  Delta!TypeOK'
<1>1. /\ log \in Seq(Delta!Entries) /\ Len(log) \in Nat /\ oldest \in 0..Len(log)
      /\ index \subseteq Ids /\ orphans \subseteq Ids /\ link \in 0..Len(log)
      /\ link_proc \in [Programs -> Delta!Jobs] /\ \A p \in Programs : link_proc[p].link <= Len(log)
      /\ link_events \in 0..MaxLinkEvents /\ MaxLinkEvents \in Nat
      /\ transport \in Providers /\ cast \in Casts
  BY LinkBoundAssumption DEF Delta!TypeOK, Programs
<1>2. /\ log' \in Seq(Delta!Entries) /\ Len(log') \in Nat /\ Len(log) <= Len(log')
      /\ cast' = cast /\ transport' = transport
  BY HistoryNext
<1>3. \A p \in Programs : link_proc[p] \in Delta!Jobs /\ link_proc[p].seen \subseteq Ids /\ link_proc[p].link \in Nat
  BY <1>1 DEF Delta!Jobs
<1>4. {"daemon", "watch", "tui", "manual", "fetch"} = Programs
  BY DEF Programs, Delta!Programs
<1> DEFINE Kept == /\ ProcsOK /\ oldest' \in 0..Len(log') /\ index' \subseteq Ids
                   /\ orphans' \subseteq Ids /\ link' \in 0..Len(log') /\ link_events' \in 0..MaxLinkEvents
<1>5. SUFFICES Kept
  <2>1. \A p \in Programs : link_proc'[p] \in Delta!Jobs /\ link_proc'[p].link <= Len(log)
    BY <1>5 DEF ProcsOK
  <2>2. \A p \in Programs : link_proc'[p].link \in Nat
    BY <2>1 DEF Delta!Jobs
  <2>3. \A p \in Programs : link_proc'[p].link <= Len(log')
    BY <1>1, <1>2, <2>1, <2>2
  <2>4. link_proc' \in [Delta!Programs -> Delta!Jobs]
    BY <1>5 DEF Programs, ProcsOK
  <2>5. transport' \in Providers /\ cast' \in Casts
    BY <1>1, <1>2
  <2>6. QED
    BY <1>2, <1>5, <2>3, <2>4, <2>5 DEF Delta!TypeOK, Programs
<1>6. Delta!Mailbox \subseteq Ids
  BY DEF Delta!Mailbox, Delta!LiveIn
<1>7. link_proc' = link_proc => ProcsOK
  BY <1>1 DEF ProcsOK
<1>8. ASSUME NEW p \in Programs, NEW at \in Places, Delta!Goes(p, at) PROVE ProcsOK
  BY <1>8, GoesFacts DEF ProcsOK
<1>9. ASSUME NEW p \in Programs, NEW changed, Delta!Wakes(p, changed) PROVE ProcsOK
  BY <1>9, WakesFacts DEF ProcsOK
<1>10. CASE UNCHANGED Delta!vars
  BY <1>1, <1>2, <1>7, <1>10 DEF Delta!vars, Delta!server
<1>11. CASE Delta!Change
  BY <1>1, <1>2, <1>7, <1>11 DEF Delta!Change, Delta!Event
<1>12. CASE Delta!Expire
  BY <1>1, <1>2, <1>7, <1>12 DEF Delta!Expire, Delta!Event
<1>13. ASSUME NEW p \in Programs, Delta!Sync(p) \/ Delta!SyncFails(p) PROVE Kept
  <2>1. CASE Delta!List(p)
    <3> DEFINE j == [link_proc[p] EXCEPT !.at = "apply", !.seen = Delta!Mailbox]
    <3>1. link_proc' = [link_proc EXCEPT ![p] = j]
      BY <2>1 DEF Delta!List
    <3>2. j \in Delta!Jobs /\ j.link = link_proc[p].link
      BY <1>3, <1>6 DEF Delta!Jobs
    <3> HIDE DEF j
    <3>3. ProcsOK
      <4>1. j.link <= Len(log)
        BY <1>1, <3>2
      <4>2. QED
        BY <3>1, <3>2, <4>1, JobGiven
    <3>4. QED
      BY <1>1, <1>2, <2>1, <3>3 DEF Delta!List, Delta!server
  <2>2. CASE Delta!Apply(p)
    <3>1. ProcsOK
      BY <1>8, <2>2 DEF Delta!Apply, Places
    <3>2. QED
      BY <1>1, <1>2, <1>3, <2>2, <3>1 DEF Delta!Apply, Delta!server
  <2>3. CASE Delta!SyncFails(p)
    <3>1. ProcsOK
      BY <1>8, <2>3 DEF Delta!SyncFails, Places
    <3>2. QED
      BY <1>1, <1>2, <2>3, <3>1 DEF Delta!SyncFails, Delta!Event, Delta!server
  <2>4. QED
    BY <1>13, <2>1, <2>2, <2>3 DEF Delta!Sync
<1>14. ASSUME NEW p \in Programs, Delta!Wait(p) \/ Delta!WaitFails(p) PROVE Kept
  <2>1. CASE Delta!GetDeltaLink(p)
    <3> DEFINE j == [link_proc[p] EXCEPT !.at = "ask", !.link = link]
    <3>1. link_proc' = [link_proc EXCEPT ![p] = j]
      BY <2>1 DEF Delta!GetDeltaLink
    <3>2. j \in Delta!Jobs /\ j.link = link
      <4>1. link_proc[p] \in Delta!Jobs /\ link \in Nat
        BY <1>1, <1>3
      <4>2. QED
        BY <4>1, JobMoved DEF Places
    <3> HIDE DEF j
    <3>3. ProcsOK
      <4>1. j.link <= Len(log)
        BY <1>1, <3>2
      <4>2. QED
        BY <3>1, <3>2, <4>1, JobGiven
    <3>4. QED
      BY <1>1, <1>2, <2>1, <3>3 DEF Delta!GetDeltaLink, Delta!server
  <2>2. CASE Delta!DeltaMessages(p)
    <3> DEFINE changed == Delta!Since(link_proc[p].link) # <<>>
               j == [Delta!Idle EXCEPT !.at = "store", !.link = Len(log), !.changed = changed]
    <3>1. Delta!Wakes(p, FALSE) \/ link_proc' = [link_proc EXCEPT ![p] = j]
      BY <2>2 DEF Delta!DeltaMessages
    <3>2. changed \in BOOLEAN
      OBVIOUS
    <3> HIDE DEF changed
    <3>3. j \in Delta!Jobs /\ j.link = Len(log)
      BY <1>1, <3>2 DEF Delta!Jobs, Delta!Idle
    <3> HIDE DEF j
    <3>4. ProcsOK
      <4>1. j.link <= Len(log)
        BY <1>1, <3>3
      <4>2. QED
        BY <1>9, <3>1, <3>3, <4>1, JobGiven
    <3>5. QED
      BY <1>1, <1>2, <2>2, <3>4 DEF Delta!DeltaMessages, Delta!server
  <2>3. CASE Delta!StoreDeltaLink(p)
    <3>1. ProcsOK
      BY <1>9, <2>3 DEF Delta!StoreDeltaLink
    <3>2. link' \in 0..Len(log)
      BY <1>1, <1>3, <2>3 DEF Delta!StoreDeltaLink
    <3>3. QED
      BY <1>1, <1>2, <2>3, <3>1, <3>2 DEF Delta!StoreDeltaLink, Delta!server
  <2>4. CASE Delta!OpenEventSource(p)
    <3> DEFINE j == [link_proc[p] EXCEPT !.at = "stream", !.link = Len(log)]
    <3>1. link_proc' = [link_proc EXCEPT ![p] = j]
      BY <2>4 DEF Delta!OpenEventSource
    <3>2. j \in Delta!Jobs /\ j.link = Len(log)
      <4>1. link_proc[p] \in Delta!Jobs /\ Len(log) \in Nat
        BY <1>1, <1>3
      <4>2. QED
        BY <4>1, JobMoved DEF Places
    <3> HIDE DEF j
    <3>3. ProcsOK
      <4>1. j.link <= Len(log)
        BY <1>1, <3>2
      <4>2. QED
        BY <3>1, <3>2, <4>1, JobGiven
    <3>4. QED
      BY <1>1, <1>2, <2>4, <3>3 DEF Delta!OpenEventSource, Delta!server
  <2>5. CASE Delta!NextEvent(p) \/ Delta!WaitFails(p)
    <3>1. ProcsOK
      BY <1>9, <2>5 DEF Delta!NextEvent, Delta!WaitFails
    <3>2. QED
      BY <1>1, <1>2, <2>5, <3>1 DEF Delta!NextEvent, Delta!WaitFails, Delta!server
  <2>6. QED
    BY <1>14, <2>1, <2>2, <2>3, <2>4, <2>5 DEF Delta!Wait
<1>15. CASE Delta!ManualSync \/ Delta!PollTimer
  <2>1. ProcsOK
    BY <1>4, <1>8, <1>15 DEF Delta!ManualSync, Delta!PollTimer, Places
  <2>2. QED
    BY <1>1, <1>2, <1>15, <2>1 DEF Delta!ManualSync, Delta!PollTimer, Delta!server
<1>16. CASE Delta!Fetch
  <2> DEFINE f == link_proc["fetch"]
  <2>1. f \in Delta!Jobs /\ f.seen \subseteq Ids /\ f.link \in 0..Len(log) /\ "fetch" \in Programs
    BY <1>1, <1>3, <1>4
  <2>2. CASE Delta!StartFetch
    <3> DEFINE j == [f EXCEPT !.at = "ask", !.link = link]
    <3>1. link_proc' = [link_proc EXCEPT !["fetch"] = j]
      BY <2>2 DEF Delta!StartFetch
    <3>2. j \in Delta!Jobs /\ j.link = link
      <4>1. link \in Nat
        BY <1>1
      <4>2. QED
        BY <2>1, <4>1, JobMoved DEF Places
    <3> HIDE DEF j, f
    <3>3. ProcsOK
      <4>1. j.link <= Len(log)
        BY <1>1, <3>2
      <4>2. QED
        BY <2>1, <3>1, <3>2, <4>1, JobGiven
    <3>4. QED
      BY <1>1, <1>2, <2>2, <3>3 DEF Delta!StartFetch, Delta!server
  <2>3. CASE Delta!FetchDelta
    <3> DEFINE parts == Delta!PartitionGraphDelta(Delta!Since(f.link))
               j == [Delta!Idle EXCEPT !.at = "upsert", !.link = Len(log),
                                       !.seen = parts.live, !.removed = parts.removed]
    <3>1. Delta!Goes("fetch", "idle") \/ link_proc' = [link_proc EXCEPT !["fetch"] = j]
      BY <2>3 DEF Delta!FetchDelta
    <3>2. parts.live \subseteq Ids /\ parts.removed \subseteq Ids
      BY <2>1, PartsOf
    <3> HIDE DEF parts
    <3>3. j \in Delta!Jobs /\ j.link = Len(log)
      BY <1>1, <3>2 DEF Delta!Jobs, Delta!Idle
    <3> HIDE DEF j, f
    <3>4. ProcsOK
      BY <1>1, <1>8, <2>1, <3>1, <3>3, JobGiven DEF Places
    <3>5. QED
      BY <1>1, <1>2, <2>3, <3>4 DEF Delta!FetchDelta, Delta!server
  <2>4. CASE Delta!UpsertMessage
    <3>1. PICK id \in f.seen : /\ index' = index \cup {id}
                               /\ link_proc' = [link_proc EXCEPT !["fetch"].seen = @ \ {id}]
      BY <2>4 DEF Delta!UpsertMessage
    <3> DEFINE j == [f EXCEPT !.seen = f.seen \ {id}]
    <3>2. j \in Delta!Jobs /\ j.link = f.link
      BY <2>1 DEF Delta!Jobs
    <3>3. link_proc' = [link_proc EXCEPT !["fetch"] = j]
      BY <3>1
    <3> HIDE DEF j
    <3>4. ProcsOK
      BY <1>1, <2>1, <3>2, <3>3, JobGiven
    <3>5. index' \subseteq Ids
      BY <1>1, <2>1, <3>1
    <3>6. QED
      BY <1>1, <1>2, <2>4, <3>4, <3>5 DEF Delta!UpsertMessage, Delta!server
  <2>5. CASE Delta!DeleteRemoved
    <3> DEFINE j == [f EXCEPT !.at = "persist"]
    <3>1. link_proc' = [link_proc EXCEPT !["fetch"] = j]
      BY <2>5 DEF Delta!DeleteRemoved
    <3>2. j \in Delta!Jobs /\ j.link = f.link
      BY <2>1 DEF Delta!Jobs
    <3> HIDE DEF j
    <3>3. ProcsOK
      BY <1>1, <2>1, <3>1, <3>2, JobGiven
    <3>4. QED
      BY <1>1, <1>2, <2>5, <3>3 DEF Delta!DeleteRemoved, Delta!server
  <2>6. CASE Delta!PersistDeltaLink \/ Delta!FetchFails
    <3>1. ProcsOK
      BY <1>8, <2>1, <2>6 DEF Delta!PersistDeltaLink, Delta!FetchFails, Places
    <3>2. link' \in 0..Len(log)
      BY <1>1, <2>1, <2>6 DEF Delta!PersistDeltaLink, Delta!FetchFails
    <3>3. QED
      BY <1>1, <1>2, <2>6, <3>1, <3>2 DEF Delta!PersistDeltaLink, Delta!FetchFails, Delta!server
  <2>7. QED
    BY <1>16, <2>2, <2>3, <2>4, <2>5, <2>6 DEF Delta!Fetch
<1>17. QED
  BY <1>10, <1>11, <1>12, <1>13, <1>14, <1>15, <1>16 DEF Delta!Next, Programs

\* Delta!Agrees after a step.
AgreesNext(to, listed, kept) ==
    \A id \in Ids : Delta!LastOf(log', id) \in 1..to =>
        /\ id \in Delta!Mailbox' => id \in listed
        /\ id \in kept => id \in Delta!Mailbox' \cup orphans'

\* What agrees keeps agreeing: a message that changes is no longer spoken of.
LEMMA AgreesOn ==
  ASSUME Delta!TypeOK, [Delta!Next]_(Delta!vars), NEW to \in 0..Len(log), NEW listed, NEW kept,
         Delta!Agrees(to, listed, kept)
  PROVE  AgreesNext(to, listed, kept)
<1>1. /\ orphans \subseteq orphans'
      /\ \A id \in Ids, n \in 0..Len(log) : Delta!LastOf(log', id) \in 1..n =>
               /\ Delta!LastOf(log, id) \in 1..n
               /\ id \in Delta!Mailbox' <=> id \in Delta!Mailbox
  BY HistoryNext
<1>2. \A id \in Ids : Delta!LastOf(log, id) \in 1..to =>
        /\ id \in Delta!Mailbox => id \in listed
        /\ id \in kept => id \in Delta!Mailbox \cup orphans
  BY DEF Delta!Agrees
<1>3. QED
  BY <1>1, <1>2 DEF AgreesNext

\* Where only a fetch moves the link, nothing else happens but to the folder.
LEMMA OnlyFetch ==
  ASSUME Delta!TypeOK, Delta!FetchInv, [Delta!Next]_(Delta!vars), cast = {"fetch"}
  PROVE  \/ UNCHANGED Delta!vars \/ Delta!Change \/ Delta!Expire \/ Delta!Fetch
<1>1. /\ \A p \in Programs \ {"fetch"} : link_proc[p].at = "idle"
      /\ link_proc["fetch"].at \in {"idle", "ask", "upsert", "persist"}
  BY DEF Delta!FetchInv, Programs
<1>2. "daemon" \in Programs /\ "daemon" # "fetch"
  BY DEF Programs, Delta!Programs
<1>3. \A p \in Programs : link_proc[p].at \notin {"list", "apply", "wait", "store", "stream"}
                          /\ (p # "fetch" => link_proc[p].at # "ask")
  BY <1>1
<1>4. \A p \in Programs : ~Delta!Sync(p) /\ ~Delta!SyncFails(p) /\ ~Delta!WaitFails(p)
  BY <1>3 DEF Delta!Sync, Delta!List, Delta!Apply, Delta!SyncFails, Delta!Syncing, Delta!WaitFails
<1>5. \A p \in Programs : ~Delta!Wait(p)
  BY <1>3 DEF Delta!Wait, Delta!GetDeltaLink, Delta!DeltaMessages, Delta!StoreDeltaLink,
         Delta!OpenEventSource, Delta!NextEvent
<1>6. ~Delta!ManualSync /\ ~Delta!PollTimer
  BY <1>2, <1>3 DEF Delta!ManualSync, Delta!PollTimer
<1>7. QED
  BY <1>4, <1>5, <1>6 DEF Delta!Next, Programs

\* A job that copies changes knows which messages are live, after a step.
SortedNext(j) ==
    \A id \in Ids : Delta!LastOf(log', id) \in 1..j.link =>
        /\ id \in j.seen => id \in Delta!Mailbox'
        /\ id \in j.removed => id \notin Delta!Mailbox'

LEMMA FetchNext ==
  ASSUME Delta!TypeOK, Delta!FetchInv, [Delta!Next]_(Delta!vars)
  PROVE  Delta!FetchInv'
<1> SUFFICES ASSUME cast' = {"fetch"} PROVE Delta!FetchInv'
  BY DEF Delta!FetchInv
<1> DEFINE f == link_proc["fetch"]
           g == link_proc'["fetch"]
<1>1. cast = {"fetch"} /\ "fetch" \in Programs
  BY HistoryNext DEF Programs, Delta!Programs
<1>2. /\ log \in Seq(Delta!Entries) /\ Len(log) \in Nat /\ link \in 0..Len(log)
      /\ link_proc \in [Programs -> Delta!Jobs]
      /\ f \in Delta!Jobs /\ f.link \in 0..Len(log)
      /\ index \subseteq Ids
  <2>1. /\ log \in Seq(Delta!Entries) /\ link \in 0..Len(log) /\ link_proc \in [Programs -> Delta!Jobs]
        /\ f.link <= Len(log) /\ index \subseteq Ids
    BY <1>1 DEF Delta!TypeOK, Programs
  <2>2. f \in Delta!Jobs /\ Len(log) \in Nat
    BY <1>1, <2>1
  <2>3. f.link \in Nat
    BY <2>2 DEF Delta!Jobs
  <2> HIDE DEF f
  <2>4. QED
    BY <2>1, <2>2, <2>3
<1>3. /\ \A p \in Programs \ {"fetch"} : link_proc[p].at = "idle"
      /\ f.at \in {"idle", "ask", "upsert", "persist"}
      /\ Delta!Agrees(link, index, index)
      /\ f.at = "ask" => f.link = link /\ (link = 0 => index \subseteq orphans)
      /\ f.at \in {"upsert", "persist"} => link <= f.link
      /\ f.at = "upsert" =>
            /\ Delta!Agrees(f.link, index \cup f.seen, (index \cup f.seen) \ f.removed)
            /\ \A id \in Ids : Delta!LastOf(log, id) \in 1..f.link =>
                  /\ id \in f.seen => id \in Delta!Mailbox
                  /\ id \in f.removed => id \notin Delta!Mailbox
      /\ f.at = "persist" => Delta!Agrees(f.link, index, index)
  BY <1>1 DEF Delta!FetchInv, Programs
<1>4. /\ orphans \subseteq orphans'
      /\ \A id \in Ids, n \in 0..Len(log) : Delta!LastOf(log', id) \in 1..n =>
               /\ Delta!LastOf(log, id) \in 1..n
               /\ id \in Delta!Mailbox' <=> id \in Delta!Mailbox
  BY HistoryNext
<1> DEFINE Kept ==
              /\ \A p \in Programs \ {"fetch"} : link_proc'[p].at = "idle"
              /\ g.at \in {"idle", "ask", "upsert", "persist"}
              /\ AgreesNext(link', index', index')
              /\ g.at = "ask" => g.link = link' /\ (link' = 0 => index' \subseteq orphans')
              /\ g.at \in {"upsert", "persist"} => link' <= g.link
              /\ g.at = "upsert" =>
                    /\ AgreesNext(g.link, index' \cup g.seen, (index' \cup g.seen) \ g.removed)
                    /\ SortedNext(g)
              /\ g.at = "persist" => AgreesNext(g.link, index', index')
<1>5. SUFFICES Kept
  BY <1>5 DEF Delta!FetchInv, Delta!Agrees, AgreesNext, SortedNext, Programs
\* A step that leaves the index, the link and the job keeps all of it.
<1>6. AgreesNext(link, index, index)
  BY <1>2, <1>3, AgreesOn
<1>7. f.at = "upsert" => /\ AgreesNext(f.link, index \cup f.seen, (index \cup f.seen) \ f.removed)
                         /\ SortedNext(f)
  <2>1. f.at = "upsert" => AgreesNext(f.link, index \cup f.seen, (index \cup f.seen) \ f.removed)
    BY <1>2, <1>3, AgreesOn
  <2>2. f.at = "upsert" => SortedNext(f)
    <3> HIDE DEF f
    <3>1. QED
      BY <1>2, <1>3, <1>4 DEF SortedNext
  <2>3. QED
    BY <2>1, <2>2
<1>8. f.at = "persist" => AgreesNext(f.link, index, index)
  BY <1>2, <1>3, AgreesOn
<1>9. CASE UNCHANGED <<index, link, link_proc>>
  <2>1. g = f
    BY <1>9
  <2> HIDE DEF f, g
  <2>2. QED
    BY <1>3, <1>4, <1>6, <1>7, <1>8, <1>9, <2>1
<1>10. CASE Delta!Fetch
  <2>1. CASE Delta!StartFetch
    <3>1. /\ link_proc' = [link_proc EXCEPT !["fetch"].at = "ask", !["fetch"].link = link]
          /\ orphans' = IF link = 0 THEN orphans \cup index ELSE orphans
          /\ index' = index /\ link' = link
      BY <2>1 DEF Delta!StartFetch
    <3>2. /\ g.at = "ask" /\ g.link = link
          /\ \A p \in Programs \ {"fetch"} : link_proc'[p] = link_proc[p]
      BY <1>1, <1>2, <3>1 DEF Delta!Jobs
    <3> HIDE DEF f, g
    <3>3. QED
      BY <1>3, <1>6, <3>1, <3>2
  <2>2. ASSUME Delta!Goes("fetch", "idle"), index' = index, link' = link PROVE Kept
    <3>1. /\ g.at = "idle" /\ \A p \in Programs \ {"fetch"} : link_proc'[p] = link_proc[p]
      BY <1>1, <2>2, GoesFacts DEF Places
    <3> HIDE DEF f, g
    <3>2. QED
      BY <1>3, <1>6, <2>2, <3>1
  <2>3. CASE Delta!FetchDelta /\ ~Delta!Goes("fetch", "idle")
    <3> DEFINE parts == Delta!PartitionGraphDelta(Delta!Since(f.link))
               j == [Delta!Idle EXCEPT !.at = "upsert", !.link = Len(log),
                                       !.seen = parts.live, !.removed = parts.removed]
    <3>1. /\ link_proc' = [link_proc EXCEPT !["fetch"] = j]
          /\ f.at = "ask" /\ log' = log /\ index' = index /\ link' = link /\ orphans' = orphans
      BY <2>3 DEF Delta!FetchDelta, Delta!server
    <3>2. /\ parts.live \subseteq Ids /\ parts.removed \subseteq Ids
          /\ f.link = 0 => parts.live = Delta!Mailbox /\ parts.removed = {}
          /\ f.link # 0 =>
               \A id : /\ id \in parts.live <=> id \in Delta!Mailbox /\ Delta!LastOf(log, id) > f.link
                       /\ id \in parts.removed <=>
                             id \in Ids /\ id \notin Delta!Mailbox /\ Delta!LastOf(log, id) > f.link
      BY <1>2, PartsOf
    <3> HIDE DEF parts
    <3>3. /\ j.at = "upsert" /\ j.link = Len(log) /\ j.seen = parts.live /\ j.removed = parts.removed
      BY DEF Delta!Idle
    <3> HIDE DEF j
    <3>4. g = j /\ \A p \in Programs \ {"fetch"} : link_proc'[p] = link_proc[p]
      BY <1>1, <1>2, <3>1
    <3>5. Delta!Mailbox' = Delta!Mailbox
      BY <3>1 DEF Delta!Mailbox
    <3> HIDE DEF f, g
    <3>6. SortedNext(g)
      <4>1. \A id \in Ids : /\ id \in parts.live => id \in Delta!Mailbox
                            /\ id \in parts.removed => id \notin Delta!Mailbox
        BY <3>2
      <4>2. QED
        BY <3>3, <3>4, <3>5, <4>1 DEF SortedNext
    <3>7. AgreesNext(g.link, index \cup g.seen, (index \cup g.seen) \ g.removed)
      <4>1. SUFFICES ASSUME NEW id \in Ids, Delta!LastOf(log, id) \in 1..Len(log)
                     PROVE  /\ id \in Delta!Mailbox => id \in index \cup parts.live
                            /\ id \in (index \cup parts.live) \ parts.removed =>
                                  id \in Delta!Mailbox \cup orphans
        BY <3>1, <3>3, <3>4, <3>5 DEF AgreesNext
      <4>2. CASE f.link = 0
        BY <1>3, <3>1, <3>2, <4>2
      <4>3. CASE f.link # 0 /\ Delta!LastOf(log, id) > f.link
        BY <3>2, <4>3
      <4>4. CASE f.link # 0 /\ ~(Delta!LastOf(log, id) > f.link)
        <5>1. Delta!LastOf(log, id) \in 1..link
          BY <1>2, <1>3, <3>1, <4>1, <4>4
        <5>2. /\ id \in Delta!Mailbox => id \in index
              /\ id \in index => id \in Delta!Mailbox \cup orphans
          BY <1>3, <5>1 DEF Delta!Agrees
        <5>3. QED
          BY <3>2, <4>4, <5>2
      <4>5. QED
        BY <4>2, <4>3, <4>4
    <3>8. link' <= g.link
      BY <1>2, <3>1, <3>3, <3>4
    <3>9. QED
      BY <1>3, <1>6, <3>1, <3>3, <3>4, <3>6, <3>7, <3>8
  <2>4. CASE Delta!UpsertMessage
    <3>1. PICK id \in f.seen : /\ index' = index \cup {id} /\ link' = link
                               /\ link_proc' = [link_proc EXCEPT !["fetch"].seen = @ \ {id}]
      BY <2>4 DEF Delta!UpsertMessage
    <3>2. f.at = "upsert"
      BY <2>4 DEF Delta!UpsertMessage
    <3>3. /\ g.at = f.at /\ g.link = f.link /\ g.removed = f.removed /\ g.seen = f.seen \ {id}
          /\ \A p \in Programs \ {"fetch"} : link_proc'[p] = link_proc[p]
      BY <1>1, <1>2, <3>1 DEF Delta!Jobs
    <3> HIDE DEF f, g
    <3>4. index' \cup g.seen = index \cup f.seen
      BY <3>1, <3>3
    <3>5. SortedNext(f) /\ link <= f.link
      BY <1>3, <1>7, <3>2
    <3>6. SortedNext(g)
      BY <3>3, <3>5 DEF SortedNext
    <3>7. AgreesNext(link', index', index')
      <4>1. ASSUME NEW x \in Ids, Delta!LastOf(log', x) \in 1..link, x \in f.seen
            PROVE  x \in Delta!Mailbox'
        <5>1. Delta!LastOf(log', x) \in 1..f.link
          BY <1>2, <3>5, <4>1
        <5>2. QED
          BY <3>5, <4>1, <5>1 DEF SortedNext
      <4>2. QED
        BY <1>6, <3>1, <4>1 DEF AgreesNext
    <3>8. QED
      BY <1>3, <1>7, <3>1, <3>2, <3>3, <3>4, <3>5, <3>6, <3>7
  <2>5. CASE Delta!DeleteRemoved
    <3>1. /\ f.at = "upsert" /\ f.seen = {} /\ index' = index \ f.removed /\ link' = link
          /\ link_proc' = [link_proc EXCEPT !["fetch"].at = "persist"]
      BY <2>5 DEF Delta!DeleteRemoved
    <3>2. /\ g.at = "persist" /\ g.link = f.link
          /\ \A p \in Programs \ {"fetch"} : link_proc'[p] = link_proc[p]
      BY <1>1, <1>2, <3>1 DEF Delta!Jobs
    <3> HIDE DEF f, g
    <3>3. SortedNext(f) /\ link <= f.link /\ AgreesNext(f.link, index, index \ f.removed)
      <4>1. index \cup f.seen = index
        BY <3>1
      <4>2. QED
        BY <1>3, <1>7, <3>1, <4>1
    <3>4. AgreesNext(f.link, index', index')
      BY <3>1, <3>3 DEF AgreesNext, SortedNext
    <3>5. AgreesNext(link', index', index')
      <4>1. \A n : n \in 1..link => n \in 1..f.link
        BY <1>2, <3>3
      <4>2. QED
        BY <3>1, <3>4, <4>1 DEF AgreesNext
    <3>6. QED
      BY <1>3, <3>1, <3>2, <3>3, <3>4, <3>5
  <2>6. CASE Delta!PersistDeltaLink
    <3>1. /\ f.at = "persist" /\ index' = index /\ link' = f.link /\ Delta!Goes("fetch", "idle")
      BY <2>6 DEF Delta!PersistDeltaLink
    <3>2. /\ g.at = "idle" /\ \A p \in Programs \ {"fetch"} : link_proc'[p] = link_proc[p]
      BY <1>1, <3>1, GoesFacts DEF Places
    <3> HIDE DEF f, g
    <3>3. QED
      BY <1>3, <1>8, <3>1, <3>2
  <2>7. CASE Delta!FetchFails \/ (Delta!FetchDelta /\ Delta!Goes("fetch", "idle"))
    BY <2>2, <2>7 DEF Delta!FetchFails, Delta!FetchDelta
  <2>8. QED
    BY <1>10, <2>1, <2>3, <2>4, <2>5, <2>6, <2>7 DEF Delta!Fetch
<1>11. CASE Delta!Change \/ Delta!Expire \/ UNCHANGED Delta!vars
  BY <1>9, <1>11 DEF Delta!Change, Delta!Expire, Delta!vars
<1>12. QED
  BY <1>1, <1>10, <1>11, OnlyFetch

\* Where only `inbx graph fetch` moves the link, the index agrees with the server about
\* every message that has not changed since the link, whichever fetch failed half-way
\* (persist_graph_delta_link comes last): for any first contents, any changes, and links
\* that expire at any time.
THEOREM LinkAlwaysCovers == RemoteSpec => []LinkCoversIndex
<1>1. RemoteInit => Delta!TypeOK /\ Delta!FetchInv
  BY DeltaInit DEF RemoteInit
<1>2. Delta!TypeOK /\ Delta!FetchInv /\ [RemoteNext]_allVars => Delta!TypeOK' /\ Delta!FetchInv'
  <2>1. [RemoteNext]_allVars => [Delta!Next]_(Delta!vars)
    BY DEF RemoteNext, allVars, linkVars, Delta!vars, Delta!server
  <2>2. QED
    BY <2>1, DeltaTypeNext, FetchNext
<1>3. Delta!TypeOK /\ Delta!FetchInv => LinkCoversIndex
  BY DEF LinkCoversIndex, Delta!FetchInv, Delta!LinkCoversIndex, Delta!LinkCovers, Delta!Covered,
         Delta!Agrees
<1>4. QED
  BY <1>1, <1>2, <1>3, PTL DEF RemoteSpec
=============================================================================
